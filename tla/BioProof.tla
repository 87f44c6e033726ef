------------------------------ MODULE BioProof ------------------------------
(***************************************************************************)
(* Proofs about the buffer cache Bio, for any processes, blocks, number of *)
(* buffers and number of pins.                                             *)
(***************************************************************************)
EXTENDS Bio, FiniteSetTheorems, TLAPS

(* A leaf goes to the SMT solver, twice if need be, or else to Zenon. *)
USE SMTT(30), Z3T(30), ZenonT(30)

Returned == {"use", "changed", "written"}

Holding == {"read"} \cup Returned

(* refcnt counts the users of a buffer, of which there are finitely many. *)
CountInv ==
  \A s \in Buf : IsFiniteSet(Users(s)) /\ refcnt[s] = Cardinality(Users(s)) + pinned[s]

(* A caller between bget() and brelse() has a buffer with a block in it,   *)
(* from acquiresleep() to releasesleep() it owns its lock, and what        *)
(* bread() has returned is valid.                                          *)
HoldInv ==
  \A p \in Use :
    /\ buf[p] = 0 <=> pc[p] = "out"
    /\ pc[p] # "out" => blockno[buf[p]] # NoBlock
    /\ pc[p] \in Holding => owner[buf[p]] = p
    /\ pc[p] \in Returned => valid[buf[p]] = 1
    /\ pc[p] = "read" => valid[buf[p]] = 0

(* A valid buffer that is not pinned and that its user has not changed     *)
(* agrees with the disk, and so does one that bwrite() has written.        *)
CleanInv ==
  /\ \A s \in Buf : valid[s] = 1 =>
       /\ blockno[s] # NoBlock
       /\ \/ pinned[s] = 1
          \/ \E p \in Use : buf[p] = s /\ pc[p] = "changed"
          \/ data[s] = disk[blockno[s]]
  /\ \A p \in Use : pc[p] = "written" => data[buf[p]] = disk[blockno[buf[p]]]

BInv == TypeOK /\ OneBufferPerBlock /\ CountInv /\ HoldInv /\ CleanInv

(* A caller past bget() has one of the buffers, with a block in it. *)
LEMMA HasBuf ==
  ASSUME BInv, NEW p \in Use, pc[p] # "out"
  PROVE  buf[p] \in Buf /\ blockno[buf[p]] \in Block
<1>1. buf[p] \in 0 .. NBUF /\ buf[p] # 0
  BY DEF BInv, TypeOK, HoldInv
<1>2. buf[p] \in Buf
  BY <1>1, SizeAssumption DEF Buf
<1> QED BY <1>2 DEF BInv, TypeOK, HoldInv

(* Nobody else holds the buffer that a process holds. *)
LEMMA Exclusive ==
  ASSUME BInv, NEW p \in Use, NEW q \in Use,
         pc[p] \in Holding, pc[q] \in Holding, buf[p] = buf[q]
  PROVE  p = q
BY DEF BInv, HoldInv

(* binit() establishes the invariant. *)
LEMMA BInvInit == Init => BInv
<1> SUFFICES ASSUME Init PROVE BInv
  OBVIOUS
<1>0. NBUF \in Nat \ {0}
  BY SizeAssumption
<1>1. list \in [Buf -> Buf] /\ \A s \in Buf : \E i \in Buf : list[i] = s
  <2>1. \A i \in Buf : NBUF + 1 - i \in Buf
    BY <1>0 DEF Buf
  <2>2. ASSUME NEW s \in Buf PROVE list[NBUF + 1 - s] = s
    <3>1. NBUF + 1 - s \in Buf /\ NBUF + 1 - (NBUF + 1 - s) = s
      BY <1>0, <2>1 DEF Buf
    <3> QED BY <3>1 DEF Init
  <2> QED BY <2>1, <2>2, ZenonT(30) DEF Init
<1>2. TypeOK
  BY <1>0, <1>1 DEF Init, TypeOK
<1>3. CountInv
  <2>1. \A s \in Buf : Users(s) = {}
    BY <1>0 DEF Init, Users, Buf
  <2> QED BY <2>1, FS_EmptySet DEF Init, CountInv
<1>4. OneBufferPerBlock /\ HoldInv /\ CleanInv
  BY DEF Init, OneBufferPerBlock, HoldInv, CleanInv, Holding, Returned
<1> QED BY <1>2, <1>3, <1>4 DEF BInv

-----------------------------------------------------------------------------
(* References *)

(* A step that changes neither buf, refcnt nor pinned. *)
LEMMA CountFrame ==
  ASSUME CountInv, UNCHANGED <<buf, refcnt, pinned>>
  PROVE  CountInv'
BY DEF CountInv, Users

(* A caller takes a reference, in bget(). *)
LEMMA CountTake ==
  ASSUME BInv, NEW p \in Use, NEW s \in Buf, pc[p] = "out",
         buf' = [buf EXCEPT ![p] = s], refcnt' = [refcnt EXCEPT ![s] = @ + 1], pinned' = pinned
  PROVE  CountInv'
<1>t. TypeOK /\ CountInv /\ buf[p] = 0 /\ s # 0
  BY SizeAssumption DEF BInv, HoldInv, Buf
<1>1. Users(s)' = Users(s) \cup {p} /\ p \notin Users(s)
  BY <1>t DEF Users, TypeOK
<1>2. \A t \in Buf \ {s} : Users(t)' = Users(t)
  BY <1>t DEF Users, TypeOK, Buf
<1>3. /\ IsFiniteSet(Users(s)') /\ Cardinality(Users(s)') = Cardinality(Users(s)) + 1
      /\ Cardinality(Users(s)) \in Nat
  <2>1. IsFiniteSet(Users(s))
    BY <1>t DEF CountInv
  <2> QED BY <1>1, <2>1, FS_AddElement, FS_CardinalityType
<1>4. refcnt'[s] = refcnt[s] + 1 /\ refcnt[s] \in Nat /\ pinned[s] \in 0 .. 1
  BY <1>t DEF TypeOK
<1>5. \A t \in Buf \ {s} : refcnt'[t] = refcnt[t]
  BY <1>t DEF TypeOK
<1> QED BY <1>2, <1>3, <1>4, <1>5, <1>t DEF CountInv

(* A caller gives its reference back, in brelse(). *)
LEMMA CountDrop ==
  ASSUME BInv, NEW p \in Use, NEW s \in Buf, buf[p] = s,
         buf' = [buf EXCEPT ![p] = 0], refcnt' = [refcnt EXCEPT ![s] = @ - 1], pinned' = pinned
  PROVE  CountInv' /\ refcnt'[s] \in Nat
<1>t. TypeOK /\ CountInv /\ s # 0
  BY SizeAssumption DEF BInv, Buf
<1>1. Users(s)' = Users(s) \ {p} /\ p \in Users(s)
  BY <1>t DEF Users, TypeOK
<1>2. \A t \in Buf \ {s} : Users(t)' = Users(t)
  <2>1. \A t \in Buf : t # 0
    BY SizeAssumption DEF Buf
  <2> QED BY <1>t, <2>1 DEF Users, TypeOK
<1>3. /\ IsFiniteSet(Users(s)') /\ Cardinality(Users(s)') = Cardinality(Users(s)) - 1
      /\ Cardinality(Users(s)) \in Nat /\ Cardinality(Users(s)') \in Nat
  <2>1. IsFiniteSet(Users(s))
    BY <1>t DEF CountInv
  <2>2. IsFiniteSet(Users(s)') /\ Cardinality(Users(s)') = Cardinality(Users(s)) - 1
    BY <1>1, <2>1, FS_RemoveElement
  <2> QED BY <2>1, <2>2, FS_CardinalityType
<1>4. refcnt'[s] = refcnt[s] - 1 /\ refcnt[s] \in Nat /\ pinned[s] \in 0 .. 1
  BY <1>t DEF TypeOK
<1>5. \A t \in Buf \ {s} : refcnt'[t] = refcnt[t]
  BY <1>t DEF TypeOK
<1>6. refcnt[s] = Cardinality(Users(s)) + pinned[s]
  BY <1>t DEF CountInv
<1> QED BY <1>2, <1>3, <1>4, <1>5, <1>6, <1>t DEF CountInv

(* bpin() and bunpin(). *)
LEMMA CountPin ==
  ASSUME BInv, NEW s \in Buf, NEW n \in 0 .. 1, buf' = buf,
         refcnt' = [refcnt EXCEPT ![s] = @ + n - pinned[s]], pinned' = [pinned EXCEPT ![s] = n]
  PROVE  CountInv' /\ refcnt'[s] \in Nat
<1>t. TypeOK /\ CountInv
  BY DEF BInv
<1>1. \A t \in Buf : Users(t)' = Users(t)
  BY DEF Users
<1>2. Cardinality(Users(s)) \in Nat /\ refcnt[s] = Cardinality(Users(s)) + pinned[s]
  BY <1>t, FS_CardinalityType DEF CountInv
<1>3. /\ refcnt'[s] = refcnt[s] + n - pinned[s] /\ refcnt[s] \in Nat /\ pinned[s] \in 0 .. 1
      /\ pinned'[s] = n
  BY <1>t DEF TypeOK
<1>4. \A t \in Buf \ {s} : refcnt'[t] = refcnt[t] /\ pinned'[t] = pinned[t]
  BY <1>t DEF TypeOK
<1> QED BY <1>1, <1>2, <1>3, <1>4, <1>t DEF CountInv

(* Nobody uses a buffer whose refcnt is 0, and the log does not pin it. *)
LEMMA UnusedBuf ==
  ASSUME BInv, NEW s \in Buf, refcnt[s] = 0
  PROVE  pinned[s] = 0 /\ \A p \in Use : buf[p] # s
<1>1. /\ IsFiniteSet(Users(s)) /\ Cardinality(Users(s)) \in Nat /\ pinned[s] \in 0 .. 1
      /\ 0 = Cardinality(Users(s)) + pinned[s]
  BY FS_CardinalityType DEF BInv, CountInv, TypeOK
<1>2. pinned[s] = 0 /\ Cardinality(Users(s)) = 0
  BY <1>1
<1>3. Users(s) = {}
  BY <1>1, <1>2, FS_EmptySet
<1> QED BY <1>2, <1>3 DEF Users

-----------------------------------------------------------------------------
(* bget() *)

(* A hit takes a reference to the buffer found. *)
LEMMA BInvHit ==
  ASSUME BInv, NEW p \in Use, NEW b \in Block, BgetHit(p, b)
  PROVE  BInv'
<1>t. TypeOK /\ OneBufferPerBlock /\ HoldInv /\ CleanInv /\ pc[p] = "out" /\ b # NoBlock
  BY NameAssumption DEF BInv, BgetHit, At
<1>u. UNCHANGED <<list, blockno, valid, data, owner, pinned, disk>>
  BY DEF BgetHit
<1>0. PICK s \in Buf : /\ blockno[s] = b /\ refcnt' = [refcnt EXCEPT ![s] = @ + 1]
                       /\ buf' = [buf EXCEPT ![p] = s] /\ pc' = [pc EXCEPT ![p] = "lock"]
  BY ZenonT(30) DEF BgetHit, Goto
<1>1. s \in 0 .. NBUF /\ s # 0
  BY SizeAssumption DEF Buf
<1>2. TypeOK'
  <2>1. refcnt[s] + 1 \in Nat
    BY <1>t DEF TypeOK
  <2> QED BY <1>t, <1>u, <1>0, <1>1, <2>1 DEF TypeOK
<1>3. CountInv'
  BY <1>t, <1>u, <1>0, CountTake, ZenonT(30)
<1>4. /\ buf'[p] = s /\ pc'[p] = "lock"
      /\ \A q \in Use \ {p} : buf'[q] = buf[q] /\ pc'[q] = pc[q]
  BY <1>t, <1>0 DEF TypeOK
<1>5. HoldInv'
  BY <1>t, <1>u, <1>0, <1>1, <1>4 DEF HoldInv, Holding, Returned
<1>6. CleanInv'
  BY <1>t, <1>u, <1>4 DEF CleanInv
<1> QED BY <1>2, <1>3, <1>5, <1>6, <1>t, <1>u DEF BInv, OneBufferPerBlock

(* A miss reuses a buffer that nobody uses. *)
LEMMA BInvRecycle ==
  ASSUME BInv, NEW p \in Use, NEW b \in Block, BgetRecycle(p, b)
  PROVE  BInv'
<1>t. /\ TypeOK /\ OneBufferPerBlock /\ CountInv /\ HoldInv /\ CleanInv /\ pc[p] = "out"
      /\ b # NoBlock /\ ~Cached(b)
  BY NameAssumption DEF BInv, BgetRecycle, At
<1>u. UNCHANGED <<list, data, owner, pinned, disk>>
  BY DEF BgetRecycle
<1>0. PICK s \in Buf :
        /\ refcnt[s] = 0
        /\ blockno' = [blockno EXCEPT ![s] = b] /\ valid' = [valid EXCEPT ![s] = 0]
        /\ refcnt' = [refcnt EXCEPT ![s] = 1]
        /\ buf' = [buf EXCEPT ![p] = s] /\ pc' = [pc EXCEPT ![p] = "lock"]
  BY ZenonT(30) DEF BgetRecycle, Goto, Victim
<1>1. s \in 0 .. NBUF /\ s # 0
  BY SizeAssumption DEF Buf
<1>2. pinned[s] = 0 /\ \A q \in Use : buf[q] # s
  BY <1>0, UnusedBuf
<1>3. TypeOK'
  BY <1>t, <1>u, <1>0, <1>1 DEF TypeOK
<1>4. CountInv'
  <2>1. refcnt' = [refcnt EXCEPT ![s] = @ + 1]
    BY <1>0, <1>t DEF TypeOK
  <2> QED BY <1>t, <1>u, <1>0, <2>1, CountTake, ZenonT(30)
<1>5. /\ buf'[p] = s /\ pc'[p] = "lock"
      /\ \A q \in Use \ {p} : buf'[q] = buf[q] /\ pc'[q] = pc[q]
  BY <1>t, <1>0 DEF TypeOK
<1>6. /\ blockno'[s] = b /\ valid'[s] = 0
      /\ \A x \in Buf \ {s} : blockno'[x] = blockno[x] /\ valid'[x] = valid[x]
  BY <1>t, <1>0 DEF TypeOK
<1>7. OneBufferPerBlock'
  BY <1>6, <1>t DEF OneBufferPerBlock, Cached
<1>8. HoldInv'
  <2>1. ASSUME NEW q \in Use \ {p}, pc[q] # "out"
        PROVE  buf[q] \in Buf \ {s}
    BY <2>1, <1>2, HasBuf
  <2>2. ASSUME NEW q \in Use \ {p}, pc[q] # "out"
        PROVE  blockno'[buf'[q]] = blockno[buf[q]] /\ valid'[buf'[q]] = valid[buf[q]]
    BY <2>1, <2>2, <1>5, <1>6
  <2>3. /\ buf'[p] # 0 /\ pc'[p] \notin Holding /\ pc'[p] # "read" /\ pc'[p] \notin Returned
        /\ pc'[p] # "out" /\ blockno'[buf'[p]] # NoBlock
    BY <1>t, <1>1, <1>5, <1>6 DEF Holding, Returned
  <2>4. \A q \in Use \ {p} : pc[q] \in Holding \/ pc[q] \in Returned \/ pc[q] = "read" => pc[q] # "out"
    BY DEF Holding, Returned
  <2> QED BY <1>t, <1>u, <1>5, <2>2, <2>3, <2>4 DEF HoldInv
<1>9. CleanInv'
  <2>1. ASSUME NEW x \in Buf, valid'[x] = 1
        PROVE  /\ blockno'[x] # NoBlock
               /\ \/ pinned'[x] = 1
                  \/ \E q \in Use : buf'[q] = x /\ pc'[q] = "changed"
                  \/ data'[x] = disk'[blockno'[x]]
    <3>1. x # s /\ valid[x] = 1
      BY <2>1, <1>6
    <3> QED BY <3>1, <1>t, <1>u, <1>5, <1>6 DEF CleanInv
  <2>2. ASSUME NEW q \in Use, pc'[q] = "written"
        PROVE  data'[buf'[q]] = disk'[blockno'[buf'[q]]]
    <3>1. q # p /\ pc[q] = "written" /\ buf[q] \in Buf \ {s}
      BY <2>2, <1>2, <1>5, HasBuf
    <3> QED BY <3>1, <1>t, <1>u, <1>5, <1>6 DEF CleanInv
  <2> QED BY <2>1, <2>2 DEF CleanInv
<1> QED BY <1>3, <1>4, <1>7, <1>8, <1>9 DEF BInv

-----------------------------------------------------------------------------
(* The user of a buffer *)

(* acquiresleep(), and the end of its use. *)
LEMMA BInvLock ==
  ASSUME BInv, NEW p \in Use, AcquireBuf(p) \/ BrelseUnlock(p)
  PROVE  BInv'
<1>t. TypeOK /\ CountInv /\ HoldInv /\ CleanInv /\ pc[p] # "out"
  BY DEF BInv, AcquireBuf, BrelseUnlock, At
<1>u. UNCHANGED <<list, blockno, valid, refcnt, data, pinned, disk, buf>>
  BY DEF AcquireBuf, BrelseUnlock
<1>b. buf[p] \in Buf
  BY <1>t, HasBuf
<1>0. PICK l \in {"use", "read", "drop"}, o \in Use \cup {Nobody} :
        /\ pc' = [pc EXCEPT ![p] = l] /\ owner' = [owner EXCEPT ![buf[p]] = o]
        /\ l = "use" => valid[buf[p]] = 1
        /\ l = "read" => valid[buf[p]] = 0
        /\ l # "drop" => o = p
        /\ \A q \in Use \ {p} : buf[q] = buf[p] => pc[q] \notin Holding
        /\ pc[p] # "changed"
  <2>1. CASE AcquireBuf(p)
    <3>1. valid[buf[p]] \in 0 .. 1
      BY <1>b, <1>t DEF TypeOK
    <3>2. \A q \in Use \ {p} : buf[q] = buf[p] => pc[q] \notin Holding
      BY <2>1, <1>t, NameAssumption DEF AcquireBuf, HoldInv
    <3>3. pc[p] # "changed"
      BY <2>1 DEF AcquireBuf, At
    <3> DEFINE m == IF valid[buf[p]] = 1 THEN "use" ELSE "read"
    <3>4. /\ m \in {"use", "read", "drop"} /\ p \in Use \cup {Nobody}
          /\ pc' = [pc EXCEPT ![p] = m] /\ owner' = [owner EXCEPT ![buf[p]] = p]
          /\ m = "use" => valid[buf[p]] = 1
          /\ m = "read" => valid[buf[p]] = 0
          /\ m # "drop" => p = p
      BY <2>1, <3>1 DEF AcquireBuf, Goto
    <3> HIDE DEF m
    <3> QED BY <3>2, <3>3, <3>4, ZenonT(30)
  <2>2. CASE BrelseUnlock(p)
    <3>1. \A q \in Use \ {p} : buf[q] = buf[p] => pc[q] \notin Holding
      BY <2>2, Exclusive DEF BrelseUnlock, Holding, Returned
    <3>2. pc' = [pc EXCEPT ![p] = "drop"] /\ owner' = [owner EXCEPT ![buf[p]] = Nobody] /\ pc[p] # "changed"
      BY <2>2 DEF BrelseUnlock, Goto
    <3> QED BY <3>1, <3>2, ZenonT(30)
  <2> QED BY <2>1, <2>2
<1>1. TypeOK'
  BY <1>t, <1>u, <1>b, <1>0 DEF TypeOK
<1>2. CountInv'
  BY <1>t, <1>u, CountFrame
<1>3. /\ pc'[p] = l /\ \A q \in Use \ {p} : pc'[q] = pc[q]
      /\ owner'[buf[p]] = o /\ \A x \in Buf \ {buf[p]} : owner'[x] = owner[x]
  BY <1>t, <1>b, <1>0 DEF TypeOK
<1>4. HoldInv'
  <2>1. ASSUME NEW q \in Use \ {p}
        PROVE  /\ buf'[q] = 0 <=> pc'[q] = "out"
               /\ pc'[q] # "out" => blockno'[buf'[q]] # NoBlock
               /\ pc'[q] \in Holding => owner'[buf'[q]] = q
               /\ pc'[q] \in Returned => valid'[buf'[q]] = 1
               /\ pc'[q] = "read" => valid'[buf'[q]] = 0
    <3>1. pc[q] \in Holding => buf[q] \in Buf \ {buf[p]}
      BY <1>0, HasBuf DEF Holding, Returned
    <3> QED BY <3>1, <1>t, <1>u, <1>3 DEF HoldInv
  <2>2. /\ buf'[p] = 0 <=> pc'[p] = "out"
        /\ pc'[p] # "out" => blockno'[buf'[p]] # NoBlock
        /\ pc'[p] \in Holding => owner'[buf'[p]] = p
        /\ pc'[p] \in Returned => valid'[buf'[p]] = 1
        /\ pc'[p] = "read" => valid'[buf'[p]] = 0
    BY <1>t, <1>u, <1>0, <1>3 DEF HoldInv, Holding, Returned
  <2> QED BY <2>1, <2>2 DEF HoldInv
<1>5. CleanInv'
  BY <1>t, <1>u, <1>0, <1>3 DEF CleanInv
<1> QED BY <1>1, <1>2, <1>4, <1>5, <1>u DEF BInv, OneBufferPerBlock

(* What the user of a buffer does to its data, its valid flag or its disk  *)
(* block concerns no other buffer and no other user.                       *)
LEMMA OthersUntouched ==
  ASSUME BInv, NEW p \in Use, pc[p] \in Holding
  PROVE  /\ \A q \in Use \ {p} : pc[q] \in Holding => buf[q] \in Buf \ {buf[p]}
         /\ \A x \in Buf \ {buf[p]} : blockno[x] # blockno[buf[p]]
<1>1. buf[p] \in Buf /\ blockno[buf[p]] \in Block
  BY HasBuf DEF Holding, Returned
<1>2. ASSUME NEW q \in Use \ {p}, pc[q] \in Holding PROVE buf[q] \in Buf \ {buf[p]}
  BY <1>2, HasBuf, Exclusive DEF Holding, Returned
<1> QED BY <1>1, <1>2, NameAssumption DEF BInv, OneBufferPerBlock

(* bread() fills the buffer it has locked, or its user changes it. *)
LEMMA BInvData ==
  ASSUME BInv, NEW p \in Use, BreadFill(p) \/ (\E d \in Data : Change(p, d))
  PROVE  BInv'
<1>t. TypeOK /\ CountInv /\ HoldInv /\ CleanInv /\ pc[p] \in Holding
  BY DEF BInv, BreadFill, Change, At, Holding, Returned
<1>u. UNCHANGED <<list, blockno, refcnt, owner, pinned, disk, buf>>
  BY DEF BreadFill, Change
<1>b. buf[p] \in Buf /\ blockno[buf[p]] \in Block
  BY <1>t, HasBuf DEF Holding, Returned
<1>0. PICK l \in {"use", "changed"}, d \in Data :
        /\ pc' = [pc EXCEPT ![p] = l] /\ data' = [data EXCEPT ![buf[p]] = d]
        /\ valid' = [valid EXCEPT ![buf[p]] = 1]
        /\ l = "use" => d = disk[blockno[buf[p]]]
  <2>1. CASE BreadFill(p)
    <3>1. disk[blockno[buf[p]]] \in Data
      BY <1>b, <1>t DEF TypeOK
    <3> QED BY <2>1, <3>1, ZenonT(30) DEF BreadFill, Goto
  <2>2. CASE \E d \in Data : Change(p, d)
    <3>1. valid[buf[p]] = 1
      BY <2>2, <1>t DEF Change, HoldInv, Returned
    <3>2. valid' = [valid EXCEPT ![buf[p]] = 1]
      BY <2>2, <3>1, <1>t DEF Change, TypeOK
    <3> QED BY <2>2, <3>2, ZenonT(30) DEF Change, Goto
  <2> QED BY <2>1, <2>2
<1>1. TypeOK'
  BY <1>t, <1>u, <1>b, <1>0 DEF TypeOK
<1>2. CountInv'
  BY <1>t, <1>u, CountFrame
<1>3. /\ pc'[p] = l /\ \A q \in Use \ {p} : pc'[q] = pc[q]
      /\ data'[buf[p]] = d /\ valid'[buf[p]] = 1
      /\ \A x \in Buf \ {buf[p]} : data'[x] = data[x] /\ valid'[x] = valid[x]
  BY <1>t, <1>b, <1>0 DEF TypeOK
<1>4. \A q \in Use \ {p} : pc[q] \in Holding => buf[q] \in Buf \ {buf[p]}
  BY <1>t, OthersUntouched
<1>5. HoldInv'
  BY <1>t, <1>u, <1>0, <1>3, <1>4 DEF HoldInv, Holding, Returned
<1>6. CleanInv'
  <2>1. ASSUME NEW x \in Buf, valid'[x] = 1
        PROVE  /\ blockno'[x] # NoBlock
               /\ \/ pinned'[x] = 1
                  \/ \E q \in Use : buf'[q] = x /\ pc'[q] = "changed"
                  \/ data'[x] = disk'[blockno'[x]]
    <3>1. CASE x = buf[p]
      BY <3>1, <1>b, <1>u, <1>0, <1>3, NameAssumption
    <3>2. CASE x # buf[p]
      BY <3>2, <2>1, <1>t, <1>u, <1>3 DEF CleanInv
    <3> QED BY <3>1, <3>2
  <2>2. ASSUME NEW q \in Use, pc'[q] = "written"
        PROVE  data'[buf'[q]] = disk'[blockno'[buf'[q]]]
    <3>1. q # p /\ pc[q] = "written"
      BY <2>2, <1>3
    <3>2. buf[q] \in Buf \ {buf[p]}
      BY <3>1, <1>4 DEF Holding, Returned
    <3> QED BY <3>1, <3>2, <1>t, <1>u, <1>3 DEF CleanInv
  <2> QED BY <2>1, <2>2 DEF CleanInv
<1> QED BY <1>1, <1>2, <1>5, <1>6, <1>u DEF BInv, OneBufferPerBlock

(* bwrite() makes the disk agree with the buffer. *)
LEMMA BInvWrite ==
  ASSUME BInv, NEW p \in Use, Bwrite(p)
  PROVE  BInv'
<1>t. TypeOK /\ CountInv /\ HoldInv /\ CleanInv /\ pc[p] \in Returned /\ pc[p] \in Holding
  BY DEF BInv, Bwrite, Holding, Returned
<1>u. UNCHANGED <<list, blockno, valid, refcnt, data, owner, pinned, buf>>
  BY DEF Bwrite
<1>b. buf[p] \in Buf /\ blockno[buf[p]] \in Block
  BY <1>t, HasBuf DEF Holding, Returned
<1>0. pc' = [pc EXCEPT ![p] = "written"] /\ disk' = [disk EXCEPT ![blockno[buf[p]]] = data[buf[p]]]
  BY DEF Bwrite, Goto
<1>1. TypeOK'
  BY <1>t, <1>u, <1>b, <1>0 DEF TypeOK
<1>2. CountInv'
  BY <1>t, <1>u, CountFrame
<1>3. /\ pc'[p] = "written" /\ \A q \in Use \ {p} : pc'[q] = pc[q]
      /\ disk'[blockno[buf[p]]] = data[buf[p]]
      /\ \A b \in Block \ {blockno[buf[p]]} : disk'[b] = disk[b]
  BY <1>t, <1>b, <1>0 DEF TypeOK
<1>4. /\ \A q \in Use \ {p} : pc[q] \in Holding => buf[q] \in Buf \ {buf[p]}
      /\ \A x \in Buf \ {buf[p]} : blockno[x] # blockno[buf[p]]
  BY <1>t, OthersUntouched
<1>5. HoldInv'
  BY <1>t, <1>u, <1>3 DEF HoldInv, Holding, Returned
<1>6. CleanInv'
  <2>1. ASSUME NEW x \in Buf, valid'[x] = 1
        PROVE  /\ blockno'[x] # NoBlock
               /\ \/ pinned'[x] = 1
                  \/ \E q \in Use : buf'[q] = x /\ pc'[q] = "changed"
                  \/ data'[x] = disk'[blockno'[x]]
    <3>1. CASE x = buf[p]
      BY <3>1, <1>b, <1>u, <1>3, NameAssumption
    <3>2. CASE x # buf[p]
      <4>1. valid[x] = 1 /\ blockno[x] # NoBlock /\ blockno[x] \in Block \ {blockno[buf[p]]}
        BY <2>1, <3>2, <1>4, <1>t, <1>u DEF CleanInv, TypeOK
      <4> QED BY <3>2, <4>1, <1>t, <1>u, <1>3 DEF CleanInv
    <3> QED BY <3>1, <3>2
  <2>2. ASSUME NEW q \in Use, pc'[q] = "written"
        PROVE  data'[buf'[q]] = disk'[blockno'[buf'[q]]]
    <3>1. CASE q = p
      BY <3>1, <1>u, <1>3
    <3>2. CASE q # p
      <4>1. pc[q] = "written"
        BY <2>2, <3>2, <1>3
      <4>2. buf[q] \in Buf \ {buf[p]} /\ blockno[buf[q]] \in Block
        BY <4>1, <3>2, <1>4, HasBuf DEF Holding, Returned
      <4>3. blockno[buf[q]] \in Block \ {blockno[buf[p]]}
        BY <4>2, <1>4
      <4> QED BY <4>1, <4>3, <1>t, <1>u, <1>3 DEF CleanInv
    <3> QED BY <3>1, <3>2
  <2> QED BY <2>1, <2>2 DEF CleanInv
<1> QED BY <1>1, <1>2, <1>5, <1>6, <1>u DEF BInv, OneBufferPerBlock

(* bpin() of a changed buffer, bunpin() of a written one. *)
LEMMA BInvPin ==
  ASSUME BInv, NEW p \in Use, Bpin(p) \/ Bunpin(p)
  PROVE  BInv'
<1>t. TypeOK /\ HoldInv /\ CleanInv /\ pc[p] \in Returned /\ pc[p] # "out"
  BY DEF BInv, Bpin, Bunpin, At, Returned
<1>u. UNCHANGED <<list, blockno, valid, data, owner, disk, buf>>
  BY DEF Bpin, Bunpin
<1>b. buf[p] \in Buf /\ pinned[buf[p]] \in 0 .. 1 /\ refcnt[buf[p]] \in Nat
  BY <1>t, HasBuf DEF TypeOK
<1>0. PICK l \in {"use", "written"}, n \in 0 .. 1 :
        /\ pc' = [pc EXCEPT ![p] = l]
        /\ refcnt' = [refcnt EXCEPT ![buf[p]] = @ + n - pinned[buf[p]]]
        /\ pinned' = [pinned EXCEPT ![buf[p]] = n]
        /\ l = "use" => n = 1
        /\ l = "written" => pc[p] = "written"
  <2>1. CASE Bpin(p)
    BY <2>1 DEF Bpin, Goto
  <2>2. CASE Bunpin(p)
    <3>1. pc' = [pc EXCEPT ![p] = "written"]
      BY <2>2, <1>t DEF Bunpin, At, TypeOK
    <3>2. refcnt[buf[p]] - 1 = refcnt[buf[p]] + 0 - pinned[buf[p]]
      BY <2>2, <1>b DEF Bunpin
    <3>3. refcnt' = [refcnt EXCEPT ![buf[p]] = @ + 0 - pinned[buf[p]]]
      BY <2>2, <3>2, ZenonT(30) DEF Bunpin
    <3>4. pinned' = [pinned EXCEPT ![buf[p]] = 0] /\ pc[p] = "written" /\ 0 \in 0 .. 1
      BY <2>2 DEF Bunpin, At
    <3> QED BY <3>1, <3>3, <3>4
  <2> QED BY <2>1, <2>2
<1>2. CountInv' /\ refcnt'[buf[p]] \in Nat
  BY <1>u, <1>b, <1>0, CountPin, ZenonT(30)
<1>1. TypeOK'
  <2>1. refcnt' \in [Buf -> Nat]
    BY <1>t, <1>b, <1>0, <1>2 DEF TypeOK
  <2> QED BY <1>t, <1>u, <1>b, <1>0, <2>1 DEF TypeOK
<1>3. /\ pc'[p] = l /\ \A q \in Use \ {p} : pc'[q] = pc[q]
      /\ pinned'[buf[p]] = n /\ \A x \in Buf \ {buf[p]} : pinned'[x] = pinned[x]
  BY <1>t, <1>b, <1>0 DEF TypeOK
<1>4. HoldInv'
  BY <1>t, <1>u, <1>0, <1>3 DEF HoldInv, Holding, Returned
<1>5. CleanInv'
  BY <1>t, <1>u, <1>b, <1>0, <1>3 DEF CleanInv
<1> QED BY <1>1, <1>2, <1>4, <1>5, <1>u DEF BInv, OneBufferPerBlock

(* Moving a buffer to the front keeps every buffer on the list. *)
LEMMA ListMove ==
  ASSUME TypeOK, NEW s \in Buf
  PROVE  /\ MoveToFront(s) \in [Buf -> Buf]
         /\ \A t \in Buf : \E i \in Buf : MoveToFront(s)[i] = t
<1> DEFINE k == CHOOSE i \in Buf : list[i] = s
<1>1. k \in Buf /\ list[k] = s
  BY DEF TypeOK
<1>2. MoveToFront(s) = [i \in Buf |-> IF i = 1 THEN s ELSE IF i <= k THEN list[i - 1] ELSE list[i]]
  BY DEF MoveToFront
<1> HIDE DEF k
<1>0. NBUF \in Nat \ {0}
  BY SizeAssumption
<1>3. ASSUME NEW i \in Buf, i # 1 PROVE i - 1 \in Buf
  BY <1>0, <1>3 DEF Buf
<1>4. MoveToFront(s) \in [Buf -> Buf]
  BY <1>2, <1>3 DEF TypeOK
<1>5. ASSUME NEW t \in Buf PROVE \E i \in Buf : MoveToFront(s)[i] = t
  <2>1. CASE t = s
    <3>1. 1 \in Buf
      BY <1>0 DEF Buf
    <3>2. MoveToFront(s)[1] = s
      BY <3>1, <1>2
    <3> QED BY <2>1, <3>1, <3>2
  <2>2. CASE t # s
    <3>1. PICK j \in Buf : list[j] = t
      BY DEF TypeOK
    <3>2. j # k
      BY <2>2, <3>1, <1>1
    <3>3. CASE j < k
      <4>1. j + 1 \in Buf /\ j + 1 # 1 /\ j + 1 <= k /\ (j + 1) - 1 = j
        BY <3>3, <1>0, <1>1 DEF Buf
      <4>2. MoveToFront(s)[j + 1] = list[(j + 1) - 1]
        BY <4>1, <1>2
      <4> QED BY <4>1, <4>2, <3>1
    <3>4. CASE ~(j < k)
      <4>1. j # 1 /\ ~(j <= k)
        BY <3>2, <3>4, <1>0, <1>1 DEF Buf
      <4>2. MoveToFront(s)[j] = list[j]
        BY <4>1, <1>2
      <4> QED BY <4>2, <3>1
    <3> QED BY <3>3, <3>4
  <2> QED BY <2>1, <2>2
<1> QED BY <1>4, <1>5

(* brelse() gives up the reference. *)
LEMMA BInvDrop ==
  ASSUME BInv, NEW p \in Use, BrelseDrop(p)
  PROVE  BInv'
<1>t. TypeOK /\ HoldInv /\ CleanInv /\ pc[p] = "drop"
  BY DEF BInv, BrelseDrop, At
<1>u. UNCHANGED <<blockno, valid, data, owner, pinned, disk>>
  BY DEF BrelseDrop
<1>b. buf[p] \in Buf
  BY <1>t, HasBuf
<1>0. /\ refcnt' = [refcnt EXCEPT ![buf[p]] = @ - 1] /\ buf' = [buf EXCEPT ![p] = 0]
      /\ list' = MoveToFront(buf[p]) \/ list' = list
      /\ pc' = [pc EXCEPT ![p] = "out"]
  BY DEF BrelseDrop, Goto
<1>1. CountInv' /\ refcnt'[buf[p]] \in Nat
  BY <1>b, <1>u, <1>0, CountDrop, ZenonT(30)
<1>2. TypeOK'
  <2>1. refcnt' \in [Buf -> Nat]
    BY <1>t, <1>b, <1>0, <1>1 DEF TypeOK
  <2>2. list' \in [Buf -> Buf] /\ \A s \in Buf : \E i \in Buf : list'[i] = s
    <3>1. CASE list' = MoveToFront(buf[p])
      BY <3>1, <1>b, <1>t, ListMove, ZenonT(30)
    <3>2. CASE list' = list
      BY <3>2, <1>t DEF TypeOK
    <3> QED BY <3>1, <3>2, <1>0
  <2>3. buf' \in [Use -> 0 .. NBUF]
    BY <1>t, <1>0, SizeAssumption DEF TypeOK
  <2> QED BY <1>t, <1>u, <1>0, <2>1, <2>2, <2>3 DEF TypeOK
<1>3. /\ pc'[p] = "out" /\ buf'[p] = 0
      /\ \A q \in Use \ {p} : pc'[q] = pc[q] /\ buf'[q] = buf[q]
  BY <1>t, <1>0 DEF TypeOK
<1>4. HoldInv'
  BY <1>t, <1>u, <1>3 DEF HoldInv, Holding, Returned
<1>5. CleanInv'
  BY <1>t, <1>u, <1>3 DEF CleanInv
<1> QED BY <1>1, <1>2, <1>4, <1>5, <1>u DEF BInv, OneBufferPerBlock

(* Every step preserves the invariant. *)
LEMMA BInvStep == BInv /\ [Next]_vars => BInv'
<1> SUFFICES ASSUME BInv, [Next]_vars PROVE BInv'
  OBVIOUS
<1>1. CASE \/ UNCHANGED vars
           \/ \E p \in Use, b \in Block : BgetPanic(p, b)
  <2>1. UNCHANGED <<list, blockno, valid, refcnt, data, owner, pinned, disk, pc, buf>>
    BY <1>1, ZenonT(30) DEF vars, BgetPanic
  <2> QED BY <2>1 DEF BInv, TypeOK, OneBufferPerBlock, CountInv, Users, HoldInv, CleanInv
<1>2. CASE Next /\ ~(\E p \in Use, b \in Block : BgetPanic(p, b))
  BY <1>2, BInvHit, BInvRecycle, BInvLock, BInvData, BInvWrite, BInvPin, BInvDrop DEF Next, Step
<1> QED BY <1>1, <1>2

(* The cache keeps the invariant. *)
LEMMA BInvAlways == Spec => []BInv
BY BInvInit, BInvStep, PTL DEF Spec

(* bio.c keeps every buffer on its list, at most one buffer for a block,   *)
(* and a refcnt that counts exactly the callers and the log's pin, so a    *)
(* buffer in use is never recycled.                                        *)
THEOREM WellFormedAlways == Spec => []WellFormed
<1>1. BInv => WellFormed
  BY DEF BInv, CountInv, WellFormed
<1> QED BY <1>1, BInvAlways, PTL

-----------------------------------------------------------------------------
(* Processes that hold two buffers *)

(* Only who is between acquiresleep() and releasesleep() owns a buffer's   *)
(* lock; who waits for a second buffer has the first one, of lower rank,   *)
(* and who waits for the first has no second.                              *)
NestInv ==
  /\ \A s \in Buf : owner[s] # Nobody => pc[owner[s]] \in Holding /\ buf[owner[s]] = s
  /\ \A p, q \in Use : Outer[q] = p =>
       /\ pc[q] = "lock" => /\ pc[p] \in Returned
                            /\ Rank[blockno[buf[p]]] < Rank[blockno[buf[q]]]
       /\ pc[p] = "lock" => pc[q] = "out"

(* bget() keeps the order, and no buffer in use changes its block. *)
LEMMA NestBget ==
  ASSUME BInv, NestInv, NEW r \in Use, NEW b \in Block, BgetHit(r, b) \/ BgetRecycle(r, b)
  PROVE  NestInv'
<1>t. TypeOK /\ HoldInv /\ pc[r] = "out" /\ Runs(r) /\ MayRead(r, b) /\ owner' = owner
  BY DEF BInv, BgetHit, BgetRecycle, At
<1>1. PICK s \in Buf : /\ buf' = [buf EXCEPT ![r] = s] /\ pc' = [pc EXCEPT ![r] = "lock"]
                       /\ blockno' = [blockno EXCEPT ![s] = b]
                       /\ blockno[s] = b \/ refcnt[s] = 0
  <2>1. CASE BgetHit(r, b)
    <3>1. PICK s \in Buf : /\ blockno[s] = b /\ blockno' = blockno
                           /\ buf' = [buf EXCEPT ![r] = s] /\ pc' = [pc EXCEPT ![r] = "lock"]
      BY <2>1, ZenonT(30) DEF BgetHit, Goto
    <3>2. blockno' = [blockno EXCEPT ![s] = b]
      BY <3>1, <1>t DEF TypeOK
    <3> QED BY <3>1, <3>2, ZenonT(30)
  <2>2. CASE BgetRecycle(r, b)
    BY <2>2, ZenonT(30) DEF BgetRecycle, Goto, Victim
  <2> QED BY <2>1, <2>2
<1>2. pc'[r] = "lock" /\ buf'[r] = s /\ blockno'[s] = b
  BY <1>1, <1>t DEF TypeOK
<1>3. ASSUME NEW q \in Use \ {r}
      PROVE  /\ pc'[q] = pc[q] /\ buf'[q] = buf[q]
             /\ pc[q] # "out" => blockno'[buf[q]] = blockno[buf[q]]
  <2>1. pc'[q] = pc[q] /\ buf'[q] = buf[q]
    BY <1>1, <1>t DEF TypeOK
  <2>2. ASSUME pc[q] # "out" PROVE blockno'[buf[q]] = blockno[buf[q]]
    <3>1. buf[q] \in Buf
      BY <2>2, HasBuf
    <3>2. buf[q] = s => blockno[s] = b
      BY <1>1, UnusedBuf
    <3> QED BY <3>1, <3>2, <1>1, <1>t DEF TypeOK
  <2> QED BY <2>1, <2>2
<1>4. ASSUME NEW x \in Buf, owner[x] # Nobody
      PROVE  pc'[owner[x]] \in Holding /\ buf'[owner[x]] = x
  <2>1. owner[x] \in Use /\ pc[owner[x]] \in Holding /\ buf[owner[x]] = x
    BY <1>4, <1>t DEF TypeOK, NestInv
  <2>2. owner[x] # r
    BY <2>1, <1>t DEF Holding, Returned
  <2> QED BY <2>1, <2>2, <1>3
<1>5. ASSUME NEW p \in Use, NEW q \in Use, Outer[q] = p
      PROVE  /\ pc'[q] = "lock" => /\ pc'[p] \in Returned
                                   /\ Rank[blockno'[buf'[p]]] < Rank[blockno'[buf'[q]]]
             /\ pc'[p] = "lock" => pc'[q] = "out"
  <2>1. CASE q = r
    <3>1. pc[p] \in Returned /\ Rank[blockno[buf[p]]] < Rank[b]
      BY <2>1, <1>5, <1>t, NameAssumption DEF MayRead, Has, Returned
    <3>2. p # r /\ pc[p] # "out" /\ pc[p] # "lock"
      BY <3>1, <1>t DEF Returned
    <3> QED BY <2>1, <3>1, <3>2, <1>2, <1>3
  <2>2. CASE q # r /\ p = r
    <3>1. pc[q] = "out"
      BY <2>2, <1>5, <1>t DEF MayRead
    <3> QED BY <2>2, <3>1, <1>3
  <2>3. CASE q # r /\ p # r
    <3>1. /\ pc'[q] = pc[q] /\ buf'[q] = buf[q] /\ pc'[p] = pc[p] /\ buf'[p] = buf[p]
          /\ pc[q] # "out" => blockno'[buf[q]] = blockno[buf[q]]
          /\ pc[p] # "out" => blockno'[buf[p]] = blockno[buf[p]]
      BY <2>3, <1>3
    <3>2. /\ pc[q] = "lock" => pc[p] \in Returned /\ Rank[blockno[buf[p]]] < Rank[blockno[buf[q]]]
          /\ pc[p] = "lock" => pc[q] = "out"
      BY <1>5 DEF NestInv
    <3> QED BY <3>1, <3>2 DEF Returned
  <2> QED BY <2>1, <2>2, <2>3
<1> QED BY <1>t, <1>4, <1>5 DEF NestInv

(* The other steps of a process do not enter bget(), and are not taken     *)
(* while it is inside bread() for its other buffer.                        *)
LEMMA NestOther ==
  ASSUME BInv, NestInv, NEW r \in Use,
         Step(r) \/ Bunpin(r) \/ \E d \in Data : Change(r, d)
  PROVE  NestInv'
<1>t. /\ TypeOK /\ HoldInv /\ pc[r] # "out" /\ Runs(r) /\ blockno' = blockno
  BY DEF BInv, Step, AcquireBuf, BreadFill, BrelseUnlock, BrelseDrop, Bpin, Bwrite, Bunpin, Change, At
<1>b. buf[r] \in Buf
  BY <1>t, HasBuf
<1>1. PICK l \in {"read", "use", "changed", "written", "drop", "out"} : pc' = [pc EXCEPT ![r] = l]
  <2>1. CASE Bunpin(r)
    BY <2>1, <1>t DEF Bunpin, At, TypeOK
  <2>2. CASE ~Bunpin(r)
    <3>1. \E l \in {"read", "use", "changed", "written", "drop", "out"} : Goto(r, l)
      BY <2>2 DEF Step, AcquireBuf, BreadFill, BrelseUnlock, BrelseDrop, Bpin, Bwrite, Change
    <3> QED BY <3>1, ZenonT(30) DEF Goto
  <2> QED BY <2>1, <2>2
<1>2. pc'[r] = l /\ \A q \in Use \ {r} : pc'[q] = pc[q] /\ buf'[q] = buf[q]
  <2>1. buf' = buf \/ buf' = [buf EXCEPT ![r] = 0]
    BY DEF Step, AcquireBuf, BreadFill, BrelseUnlock, BrelseDrop, Bpin, Bwrite, Bunpin, Change
  <2> QED BY <2>1, <1>1, <1>t DEF TypeOK
<1>3. \A x \in Buf : owner'[x] # Nobody => pc'[owner'[x]] \in Holding /\ buf'[owner'[x]] = x
  <2>1. CASE AcquireBuf(r)
    <3>1. /\ owner' = [owner EXCEPT ![buf[r]] = r] /\ pc'[r] \in Holding /\ buf' = buf
          /\ pc[r] = "lock"
      BY <2>1, <1>t DEF AcquireBuf, At, Goto, TypeOK, Holding, Returned
    <3>2. ASSUME NEW x \in Buf \ {buf[r]}, owner[x] # Nobody
          PROVE  pc'[owner[x]] \in Holding /\ buf[owner[x]] = x
      <4>1. owner[x] \in Use /\ pc[owner[x]] \in Holding /\ buf[owner[x]] = x
        BY <3>2, <1>t DEF TypeOK, NestInv
      <4> QED BY <4>1, <3>1, <1>2
    <3>3. owner'[buf[r]] = r /\ \A x \in Buf \ {buf[r]} : owner'[x] = owner[x]
      BY <3>1, <1>b, <1>t DEF TypeOK
    <3> QED BY <3>1, <3>2, <3>3
  <2>2. CASE BrelseUnlock(r)
    <3>1. owner' = [owner EXCEPT ![buf[r]] = Nobody] /\ buf' = buf
      BY <2>2 DEF BrelseUnlock
    <3>2. ASSUME NEW x \in Buf, owner'[x] # Nobody
          PROVE  x # buf[r] /\ owner'[x] = owner[x]
      BY <3>1, <3>2, <1>b, <1>t DEF TypeOK
    <3>3. ASSUME NEW x \in Buf \ {buf[r]}, owner[x] # Nobody
          PROVE  pc'[owner[x]] \in Holding /\ buf[owner[x]] = x
      <4>1. owner[x] \in Use /\ pc[owner[x]] \in Holding /\ buf[owner[x]] = x
        BY <3>3, <1>t DEF TypeOK, NestInv
      <4> QED BY <4>1, <1>2
    <3> QED BY <3>1, <3>2, <3>3
  <2>3. CASE BrelseDrop(r)
    <3>1. owner' = owner /\ pc[r] \notin Holding
      BY <2>3 DEF BrelseDrop, At, Holding, Returned
    <3>2. ASSUME NEW x \in Buf, owner[x] # Nobody
          PROVE  pc'[owner[x]] \in Holding /\ buf'[owner[x]] = x
      <4>1. owner[x] \in Use /\ pc[owner[x]] \in Holding /\ buf[owner[x]] = x
        BY <3>2, <1>t DEF TypeOK, NestInv
      <4> QED BY <4>1, <3>1, <1>2
    <3> QED BY <3>1, <3>2
  <2>4. CASE BreadFill(r) \/ Bpin(r) \/ Bwrite(r) \/ Bunpin(r) \/ \E d \in Data : Change(r, d)
    <3>1. owner' = owner /\ buf' = buf
      BY <2>4 DEF BreadFill, Bpin, Bwrite, Bunpin, Change
    <3>2. pc'[r] \in Holding
      BY <2>4, <1>t DEF BreadFill, Bpin, Bwrite, Bunpin, Change, At, Goto, TypeOK, Holding, Returned
    <3>3. ASSUME NEW x \in Buf, owner[x] # Nobody
          PROVE  pc'[owner[x]] \in Holding /\ buf[owner[x]] = x
      <4>1. owner[x] \in Use /\ pc[owner[x]] \in Holding /\ buf[owner[x]] = x
        BY <3>3, <1>t DEF TypeOK, NestInv
      <4> QED BY <4>1, <3>2, <1>2
    <3> QED BY <3>1, <3>3
  <2> QED BY <2>1, <2>2, <2>3, <2>4 DEF Step
<1>4. ASSUME NEW p \in Use, NEW q \in Use, Outer[q] = p
      PROVE  /\ pc'[q] = "lock" => /\ pc'[p] \in Returned
                                   /\ Rank[blockno'[buf'[p]]] < Rank[blockno'[buf'[q]]]
             /\ pc'[p] = "lock" => pc'[q] = "out"
  <2>1. /\ pc[q] = "lock" => pc[p] \in Returned /\ Rank[blockno[buf[p]]] < Rank[blockno[buf[q]]]
        /\ pc[p] = "lock" => pc[q] = "out"
    BY <1>4 DEF NestInv
  <2>2. /\ q = r => pc[p] # "lock"
        /\ p = r => pc[q] # "lock"
    BY <1>4, <1>t DEF Runs
  <2>3. l # "lock"
    OBVIOUS
  <2> QED BY <2>1, <2>2, <2>3, <1>2, <1>t
<1> QED BY <1>3, <1>4 DEF NestInv

(* In a set of uses that wait for each other the ranks of the blocks they  *)
(* wait for would never stop growing.                                      *)
LEMMA OrderedWaits == BInv /\ NestInv => NoWaitCycle
<1> SUFFICES ASSUME BInv, NestInv, NEW W \in SUBSET Use, W # {},
                    \A p \in W : \E r \in W : WaitsFor(p, r)
             PROVE  FALSE
  BY DEF NoWaitCycle
<1> DEFINE rank(p) == Rank[blockno[buf[p]]]
<1>1. ASSUME NEW p \in W, NEW r \in W, WaitsFor(p, r) PROVE rank(p) < rank(r)
  <2>1. pc[p] = "lock" /\ pc[r] = "lock" /\ p \in Use /\ r \in Use
    BY <1>1 DEF WaitsFor
  <2>2. buf[p] \in Buf
    BY <2>1, HasBuf
  <2>3. PICK o \in Use : /\ o = owner[buf[p]] /\ pc[o] \in Holding /\ buf[o] = buf[p]
                         /\ o = r \/ o = Outer[r] \/ Outer[o] = r
    BY <1>1, <2>2 DEF WaitsFor, NestInv, BInv, TypeOK
  <2>4. o # r /\ Outer[o] # r
    BY <2>1, <2>3 DEF NestInv, Holding, Returned
  <2> QED BY <2>1, <2>3, <2>4 DEF NestInv
<1>2. ASSUME NEW p \in W PROVE rank(p) \in 0 .. 2
  <2>1. p \in Use /\ pc[p] # "out"
    BY <1>2 DEF WaitsFor
  <2> QED BY <2>1, HasBuf, NestAssumption
<1>3. ASSUME NEW p \in W PROVE \E r \in W : rank(p) < rank(r)
  BY <1>1
<1> HIDE DEF rank
<1>4. PICK p0 \in W : TRUE
  OBVIOUS
<1>5. PICK p1 \in W : rank(p0) < rank(p1)
  BY <1>3
<1>6. PICK p2 \in W : rank(p1) < rank(p2)
  BY <1>3
<1>7. PICK p3 \in W : rank(p2) < rank(p3)
  BY <1>3
<1> QED BY <1>2, <1>5, <1>6, <1>7

(* Lock order among buffers: as write_log(), install_trans(), bmap() and   *)
(* itrunc() take a second buffer only in the order of the ranks, no        *)
(* processes wait in a circle for each other's buffers in bget().          *)
THEOREM NoWaitCycleAlways == Spec => []NoWaitCycle
<1>1. Init => NestInv
  BY DEF Init, NestInv, Holding
<1>2. BInv /\ NestInv /\ [Next]_vars => NestInv'
  <2> SUFFICES ASSUME BInv, NestInv, [Next]_vars PROVE NestInv'
    OBVIOUS
  <2>1. CASE \/ UNCHANGED vars
             \/ \E p \in Use, b \in Block : BgetPanic(p, b)
    <3>1. UNCHANGED <<blockno, owner, pc, buf>>
      BY <2>1, ZenonT(30) DEF vars, BgetPanic
    <3> QED BY <3>1 DEF NestInv
  <2>2. CASE Next /\ ~(\E p \in Use, b \in Block : BgetPanic(p, b))
    BY <2>2, NestBget, NestOther DEF Next
  <2> QED BY <2>1, <2>2
<1> QED BY <1>1, <1>2, OrderedWaits, BInvAlways, PTL DEF Spec

-----------------------------------------------------------------------------
(* The cache is a block store *)

(* A block has one valid buffer at most, and one user at most. *)
LEMMA OneCopy ==
  ASSUME BInv, NEW b \in Block, NEW s \in Copies(b)
  PROVE  Copies(b) = {s} /\ ContentsOf(b) = data[s]
<1>1. Copies(b) = {s}
  BY NameAssumption DEF BInv, OneBufferPerBlock, Copies
<1> QED BY <1>1 DEF ContentsOf, AnyOf

(* The user of a block is the one process to which bread() returned it. *)
LEMMA OneHolder ==
  ASSUME BInv, NEW p \in Use, NEW b \in Block, pc[p] \in Holding, blockno[buf[p]] = b
  PROVE  Holders(b) \subseteq {p}
<1> SUFFICES ASSUME NEW q \in Holders(b) PROVE q = p
  OBVIOUS
<1>1. q \in Use /\ pc[q] \in Holding /\ blockno[buf[q]] = b /\ pc[q] # "out" /\ pc[p] # "out"
  BY DEF Holders, Has, Holding, Returned
<1>2. buf[p] \in Buf /\ buf[q] \in Buf
  BY <1>1, HasBuf
<1>3. buf[p] = buf[q]
  BY <1>1, <1>2, NameAssumption DEF BInv, OneBufferPerBlock
<1> QED BY <1>1, <1>3, Exclusive

contents == [b \in Block |-> ContentsOf(b)]
user == [b \in Block |-> UserOf(b)]

(* Steps that leave the buffers and the disk alone change no contents. *)
LEMMA ContentsFrame ==
  ASSUME UNCHANGED <<blockno, valid, data, disk>>
  PROVE  contents' = contents
BY DEF contents, ContentsOf, Copies

(* Steps that leave every block its holders change no user. *)
LEMMA UserFrame ==
  ASSUME \A b \in Block : Holders(b)' = Holders(b)
  PROVE  user' = user
BY DEF user, UserOf

(* bread() returns block b to p: nobody held it, now p does. *)
LEMMA UserGet ==
  ASSUME NEW p \in Use, NEW b \in Block, Holders(b) = {}, Holders(b)' = {p},
         \A x \in Block \ {b} : Holders(x)' = Holders(x)
  PROVE  user[b] = Nobody /\ user' = [user EXCEPT ![b] = p]
<1>1. UserOf(b) = Nobody /\ UserOf(b)' = p
  BY DEF UserOf, AnyOf
<1>2. \A x \in Block \ {b} : UserOf(x)' = UserOf(x)
  BY DEF UserOf
<1> QED BY <1>1, <1>2, ZenonT(30) DEF user

(* brelse() of block b by p, its only holder. *)
LEMMA UserPut ==
  ASSUME NEW p \in Use, NEW b \in Block, Holders(b) = {p}, Holders(b)' = {},
         \A x \in Block \ {b} : Holders(x)' = Holders(x)
  PROVE  user[b] = p /\ user' = [user EXCEPT ![b] = Nobody]
<1>1. UserOf(b) = p /\ UserOf(b)' = Nobody
  BY DEF UserOf, AnyOf
<1>2. \A x \in Block \ {b} : UserOf(x)' = UserOf(x)
  BY DEF UserOf
<1> QED BY <1>1, <1>2, ZenonT(30) DEF user

(* Taking a reference to a cached block, pinning, unpinning and giving a   *)
(* reference back are invisible.                                           *)
LEMMA RefineQuiet ==
  ASSUME BInv, NEW p \in Use,
         (\E b \in Block : BgetHit(p, b)) \/ Bpin(p) \/ Bunpin(p) \/ BrelseDrop(p)
  PROVE  contents' = contents /\ user' = user
<1>t. DOMAIN pc = Use /\ DOMAIN buf = Use
  BY DEF BInv, TypeOK
<1>1. UNCHANGED <<blockno, valid, data, disk>>
  BY DEF BgetHit, Bpin, Bunpin, BrelseDrop
<1>2. /\ \A q \in Use \ {p} : pc'[q] = pc[q] /\ buf'[q] = buf[q]
      /\ \/ pc[p] \notin Returned /\ pc'[p] \notin Returned
         \/ pc[p] \in Returned /\ pc'[p] \in Returned /\ buf'[p] = buf[p]
  BY <1>t DEF BgetHit, Bpin, Bunpin, BrelseDrop, Goto, At, Returned
<1>3. \A b \in Block : Holders(b)' = Holders(b)
  BY <1>1, <1>2 DEF Holders, Has, Returned
<1> QED BY <1>1, <1>3, ContentsFrame, UserFrame

(* Recycling a buffer is invisible: what it held is on the disk. *)
LEMMA RefineRecycle ==
  ASSUME BInv, NEW p \in Use, NEW b \in Block, BgetRecycle(p, b)
  PROVE  contents' = contents /\ user' = user
<1>t. TypeOK /\ CleanInv /\ pc[p] = "out" /\ UNCHANGED <<data, disk>> /\ ~Cached(b)
  BY DEF BInv, BgetRecycle, At
<1>0. PICK s \in Buf :
        /\ refcnt[s] = 0
        /\ blockno' = [blockno EXCEPT ![s] = b] /\ valid' = [valid EXCEPT ![s] = 0]
        /\ buf' = [buf EXCEPT ![p] = s] /\ pc' = [pc EXCEPT ![p] = "lock"]
  BY ZenonT(30) DEF BgetRecycle, Goto, Victim
<1>1. pinned[s] = 0 /\ \A q \in Use : buf[q] # s
  BY <1>0, UnusedBuf
<1>2. /\ pc'[p] = "lock" /\ \A q \in Use \ {p} : buf'[q] = buf[q] /\ pc'[q] = pc[q]
      /\ blockno'[s] = b /\ valid'[s] = 0
      /\ \A x \in Buf \ {s} : blockno'[x] = blockno[x] /\ valid'[x] = valid[x]
  BY <1>t, <1>0 DEF TypeOK
<1>3. \A x \in Block : Holders(x)' = Holders(x)
  <2>1. ASSUME NEW q \in Use, pc[q] \in Returned PROVE buf[q] \in Buf \ {s}
    BY <2>1, <1>1, HasBuf DEF Returned
  <2>2. ASSUME NEW q \in Use, NEW x \in Block
        PROVE  /\ pc[q] \in Returned <=> pc'[q] \in Returned
               /\ pc[q] \in Returned => blockno'[buf'[q]] = blockno[buf[q]]
    BY <1>t, <1>2, <2>1, ZenonT(30) DEF Returned
  <2> QED BY <2>2 DEF Holders, Has, Returned
<1>4. ASSUME NEW x \in Block PROVE ContentsOf(x)' = ContentsOf(x)
  <2>1. Copies(x)' = Copies(x) \ {s}
    BY <1>2 DEF Copies
  <2>2. CASE s \notin Copies(x)
    BY <2>1, <2>2, <1>t DEF ContentsOf
  <2>3. CASE s \in Copies(x)
    <3>1. Copies(x)' = {} /\ ContentsOf(x) = data[s]
      BY <2>1, <2>3, OneCopy
    <3>2. data[s] = disk[x]
      BY <2>3, <1>1, <1>t DEF Copies, CleanInv
    <3> QED BY <3>1, <3>2, <1>t DEF ContentsOf
  <2> QED BY <2>2, <2>3
<1> QED BY <1>3, <1>4, UserFrame DEF contents

(* bread() returns: the lock of a valid buffer, or the block just read. *)
LEMMA RefineAcquire ==
  ASSUME BInv, NEW p \in Use, AcquireBuf(p)
  PROVE  \/ contents' = contents /\ user' = user
         \/ \E b \in Block : Store!Get(p, b)
<1>t. /\ TypeOK /\ HoldInv /\ pc[p] = "lock" /\ pc[p] # "out"
      /\ UNCHANGED <<blockno, valid, data, disk, buf>>
      /\ owner[buf[p]] = Nobody
      /\ pc' = [pc EXCEPT ![p] = IF valid[buf[p]] = 1 THEN "use" ELSE "read"]
  BY DEF BInv, AcquireBuf, At, Goto
<1>1. contents' = contents
  BY <1>t, ContentsFrame
<1>b. buf[p] \in Buf /\ blockno[buf[p]] \in Block
  BY <1>t, HasBuf
<1> DEFINE b == blockno[buf[p]]
<1>2. Holders(b) = {}
  <2> SUFFICES ASSUME NEW q \in Holders(b) PROVE FALSE
    OBVIOUS
  <2>1. q \in Use /\ pc[q] \in Holding /\ pc[q] # "out" /\ blockno[buf[q]] = b
    BY DEF Holders, Has, Holding, Returned
  <2>2. buf[q] \in Buf
    BY <2>1, HasBuf
  <2>3. buf[q] = buf[p]
    BY <2>1, <2>2, <1>b, NameAssumption DEF BInv, OneBufferPerBlock
  <2> QED BY <2>1, <2>3, <1>t, NameAssumption DEF HoldInv
<1>3. \A q \in Use \ {p} : pc'[q] = pc[q]
  BY <1>t DEF TypeOK
<1>4. CASE valid[buf[p]] = 1
  <2>1. pc'[p] = "use"
    BY <1>4, <1>t DEF TypeOK
  <2>2. \A x \in Block : Holders(x)' = IF x = b THEN Holders(x) \cup {p} ELSE Holders(x)
    BY <2>1, <1>3, <1>t DEF Holders, Has
  <2>3. PICK c \in Block : c = b
    BY <1>b
  <2>4. Holders(c) = {} /\ Holders(c)' = {p} /\ \A x \in Block \ {c} : Holders(x)' = Holders(x)
    BY <2>2, <1>2, <2>3
  <2>5. user[c] = Nobody /\ user' = [user EXCEPT ![c] = p]
    BY <2>4, UserGet
  <2> QED BY <2>5, <1>1, ZenonT(30) DEF Store!Get, user, contents
<1>5. CASE valid[buf[p]] # 1
  <2>1. pc'[p] = "read"
    BY <1>5, <1>t DEF TypeOK
  <2>2. \A x \in Block : Holders(x)' = Holders(x)
    BY <2>1, <1>3, <1>t DEF Holders, Has
  <2> QED BY <2>2, <1>1, UserFrame
<1> QED BY <1>4, <1>5

(* ... the block just read from the disk, which it held all along. *)
LEMMA RefineFill ==
  ASSUME BInv, NEW p \in Use, BreadFill(p)
  PROVE  \E b \in Block : Store!Get(p, b)
<1>t. /\ TypeOK /\ HoldInv /\ pc[p] = "read" /\ pc[p] # "out" /\ pc[p] \in Holding
      /\ UNCHANGED <<blockno, disk, buf>>
      /\ data' = [data EXCEPT ![buf[p]] = disk[blockno[buf[p]]]]
      /\ valid' = [valid EXCEPT ![buf[p]] = 1]
      /\ pc' = [pc EXCEPT ![p] = "use"]
  BY DEF BInv, BreadFill, At, Goto, Holding
<1>0. PICK b \in Block : b = blockno[buf[p]]
  BY <1>t, HasBuf
<1>b. buf[p] \in Buf /\ valid[buf[p]] = 0
  BY <1>t, HasBuf DEF HoldInv
<1>1. /\ pc'[p] = "use" /\ \A q \in Use \ {p} : pc'[q] = pc[q]
      /\ data'[buf[p]] = disk[b] /\ valid'[buf[p]] = 1
      /\ \A x \in Buf \ {buf[p]} : data'[x] = data[x] /\ valid'[x] = valid[x]
  BY <1>t, <1>b, <1>0 DEF TypeOK
<1>2. Holders(b) = {} /\ Holders(b)' = {p} /\ \A x \in Block \ {b} : Holders(x)' = Holders(x)
  <2>1. Holders(b) \subseteq {p} /\ p \notin Holders(b)
    BY <1>t, <1>0, OneHolder DEF Holders, Has
  <2>2. \A x \in Block : Holders(x)' = IF x = b THEN Holders(x) \cup {p} ELSE Holders(x)
    BY <1>t, <1>0, <1>1 DEF Holders, Has
  <2> QED BY <2>1, <2>2
<1>3. ASSUME NEW x \in Block PROVE ContentsOf(x)' = ContentsOf(x)
  <2>1. \A y \in Buf \ {buf[p]} : blockno[y] # b
    BY <1>t, <1>0, OthersUntouched
  <2>2. CASE x = b
    <3>1. Copies(b) = {} /\ Copies(b)' = {buf[p]}
      BY <2>1, <1>t, <1>0, <1>b, <1>1 DEF Copies
    <3>2. ContentsOf(b) = disk[b]
      BY <3>1 DEF ContentsOf
    <3>3. ContentsOf(b)' = data'[buf[p]]
      BY <3>1 DEF ContentsOf, AnyOf
    <3> QED BY <2>2, <3>2, <3>3, <1>1
  <2>3. CASE x # b
    <3>1. Copies(x)' = Copies(x) /\ Copies(x) \subseteq Buf \ {buf[p]}
      BY <2>3, <1>t, <1>0, <1>1 DEF Copies
    <3>2. Copies(x) # {} => AnyOf(Copies(x)) \in Copies(x)
      BY DEF AnyOf
    <3> QED BY <3>1, <3>2, <1>1, <1>t DEF ContentsOf
  <2> QED BY <2>2, <2>3
<1>4. user[b] = Nobody /\ user' = [user EXCEPT ![b] = p]
  BY <1>2, UserGet
<1> QED BY <1>3, <1>4, ZenonT(30) DEF Store!Get, contents, user

(* The user of a buffer changes the block's contents. *)
LEMMA RefineChange ==
  ASSUME BInv, NEW p \in Use, NEW d \in Data, Change(p, d)
  PROVE  \E b \in Block : Store!Set(p, b, d)
<1>t. /\ TypeOK /\ HoldInv /\ pc[p] \in Returned /\ pc[p] \in Holding /\ pc[p] # "out"
      /\ UNCHANGED <<blockno, valid, disk, buf>>
      /\ data' = [data EXCEPT ![buf[p]] = d]
      /\ pc' = [pc EXCEPT ![p] = "changed"]
  BY DEF BInv, Change, Goto, Holding, Returned
<1>0. PICK b \in Block : b = blockno[buf[p]]
  BY <1>t, HasBuf
<1>b. buf[p] \in Buf /\ valid[buf[p]] = 1
  BY <1>t, HasBuf DEF HoldInv
<1>1. /\ pc'[p] = "changed" /\ \A q \in Use \ {p} : pc'[q] = pc[q]
      /\ data'[buf[p]] = d /\ \A x \in Buf \ {buf[p]} : data'[x] = data[x]
  BY <1>t, <1>b DEF TypeOK
<1>2. \A x \in Block : Holders(x)' = Holders(x)
  BY <1>1, <1>t DEF Holders, Has, Returned
<1>3. UserOf(b) = p
  <2>1. Holders(b) = {p}
    BY <1>t, <1>0, OneHolder DEF Holders, Has, Returned
  <2> QED BY <2>1 DEF UserOf, AnyOf
<1>4. ASSUME NEW x \in Block PROVE ContentsOf(x)' = IF x = b THEN d ELSE ContentsOf(x)
  <2>0. Copies(x)' = Copies(x)
    BY <1>t DEF Copies
  <2>1. CASE x = b
    <3>1. Copies(b) = {buf[p]}
      <4>1. buf[p] \in Copies(b)
        BY <1>b, <1>0 DEF Copies
      <4> QED BY <4>1, OneCopy
    <3> QED BY <2>0, <2>1, <3>1, <1>1 DEF ContentsOf, AnyOf
  <2>2. CASE x # b
    <3>1. Copies(x) \subseteq Buf \ {buf[p]}
      BY <2>2, <1>0 DEF Copies
    <3>2. Copies(x) # {} => AnyOf(Copies(x)) \in Copies(x)
      BY DEF AnyOf
    <3> QED BY <2>0, <2>2, <3>1, <3>2, <1>1, <1>t DEF ContentsOf
  <2> QED BY <2>1, <2>2
<1>5. user[b] = p /\ user' = user
  BY <1>2, <1>3, UserFrame DEF user
<1>6. contents' = [contents EXCEPT ![b] = d]
  BY <1>4, ZenonT(30) DEF contents
<1> QED BY <1>5, <1>6, ZenonT(30) DEF Store!Set, contents, user

(* bwrite() is invisible: the block's contents are in its buffer. *)
LEMMA RefineWrite ==
  ASSUME BInv, NEW p \in Use, Bwrite(p)
  PROVE  contents' = contents /\ user' = user
<1>t. /\ TypeOK /\ HoldInv /\ pc[p] \in Returned /\ pc[p] # "out"
      /\ UNCHANGED <<blockno, valid, data, buf>>
      /\ disk' = [disk EXCEPT ![blockno[buf[p]]] = data[buf[p]]]
      /\ pc' = [pc EXCEPT ![p] = "written"]
  BY DEF BInv, Bwrite, Goto, Returned
<1>b. buf[p] \in Buf /\ valid[buf[p]] = 1 /\ blockno[buf[p]] \in Block
  BY <1>t, HasBuf DEF HoldInv
<1>1. /\ pc'[p] = "written" /\ \A q \in Use \ {p} : pc'[q] = pc[q]
      /\ \A x \in Block \ {blockno[buf[p]]} : disk'[x] = disk[x]
  BY <1>t, <1>b DEF TypeOK
<1>2. \A x \in Block : Holders(x)' = Holders(x)
  BY <1>1, <1>t DEF Holders, Has, Returned
<1>3. ASSUME NEW x \in Block PROVE ContentsOf(x)' = ContentsOf(x)
  <2>1. Copies(x)' = Copies(x)
    BY <1>t DEF Copies
  <2>2. x = blockno[buf[p]] => Copies(x) # {}
    BY <1>b DEF Copies
  <2> QED BY <2>1, <2>2, <1>1, <1>t DEF ContentsOf
<1> QED BY <1>2, <1>3, UserFrame DEF contents

(* brelse() ends the use of the block. *)
LEMMA RefineUnlock ==
  ASSUME BInv, NEW p \in Use, BrelseUnlock(p)
  PROVE  \E b \in Block : Store!Put(p, b)
<1>t. /\ TypeOK /\ pc[p] \in Returned /\ pc[p] \in Holding /\ pc[p] # "out"
      /\ UNCHANGED <<blockno, valid, data, disk, buf>>
      /\ pc' = [pc EXCEPT ![p] = "drop"]
  BY DEF BInv, BrelseUnlock, Goto, Holding, Returned
<1>0. PICK b \in Block : b = blockno[buf[p]]
  BY <1>t, HasBuf
<1>1. pc'[p] = "drop" /\ \A q \in Use \ {p} : pc'[q] = pc[q]
  BY <1>t DEF TypeOK
<1>2. Holders(b) = {p}
  BY <1>t, <1>0, OneHolder DEF Holders, Has, Returned
<1>3. \A x \in Block : Holders(x)' = Holders(x) \ {p}
  BY <1>1, <1>t DEF Holders, Has
<1>4. Holders(b)' = {} /\ \A x \in Block \ {b} : Holders(x)' = Holders(x)
  <2>1. \A x \in Block \ {b} : p \notin Holders(x)
    BY <1>0 DEF Holders, Has
  <2> QED BY <2>1, <1>2, <1>3
<1>5. user[b] = p /\ user' = [user EXCEPT ![b] = Nobody]
  BY <1>2, <1>4, UserPut
<1>6. contents' = contents
  BY <1>t, ContentsFrame
<1> QED BY <1>5, <1>6, ZenonT(30) DEF Store!Put, contents, user

(* Through the refinement mapping bio.c is a block store: one contents for *)
(* every block, exclusive use between bread() and brelse(), and recycling, *)
(* pinning and writing invisible to the callers.                           *)
THEOREM IsStoreProved == Spec => IsStore
<1>1. Init => Store!Init
  <2> SUFFICES ASSUME Init PROVE Store!Init
    OBVIOUS
  <2>1. ASSUME NEW b \in Block PROVE ContentsOf(b) = disk[b] /\ UserOf(b) = Nobody
    <3>1. Copies(b) = {} /\ Holders(b) = {}
      BY DEF Init, Copies, Holders, Has
    <3> QED BY <3>1 DEF ContentsOf, UserOf
  <2>2. disk \in [Block -> Data]
    BY DEF Init
  <2> QED BY <2>1, <2>2 DEF Store!Init
<1>2. BInv /\ [Next]_vars => [Store!Next]_(<<contents, user>>)
  <2> SUFFICES ASSUME BInv, [Next]_vars PROVE Store!Next \/ (contents' = contents /\ user' = user)
    OBVIOUS
  <2>1. CASE \/ UNCHANGED vars
             \/ \E p \in Use, b \in Block : BgetPanic(p, b)
    <3>1. UNCHANGED <<blockno, valid, data, disk, pc, buf>>
      BY <2>1, ZenonT(30) DEF vars, BgetPanic
    <3>2. \A b \in Block : Holders(b)' = Holders(b)
      BY <3>1 DEF Holders, Has
    <3> QED BY <3>1, <3>2, ContentsFrame, UserFrame
  <2>2. ASSUME NEW p \in Use,
               \/ (\E b \in Block : BgetHit(p, b) \/ BgetRecycle(p, b))
               \/ Bpin(p) \/ Bunpin(p) \/ BrelseDrop(p) \/ Bwrite(p)
        PROVE  contents' = contents /\ user' = user
    BY <2>2, RefineQuiet, RefineRecycle, RefineWrite
  <2>3. ASSUME NEW p \in Use,
               AcquireBuf(p) \/ BreadFill(p) \/ (\E d \in Data : Change(p, d)) \/ BrelseUnlock(p)
        PROVE  Store!Next \/ (contents' = contents /\ user' = user)
    <3>1. \/ \E b \in Block : Store!Get(p, b)
          \/ \E b \in Block, d \in Data : Store!Set(p, b, d)
          \/ \E b \in Block : Store!Put(p, b)
          \/ contents' = contents /\ user' = user
      BY <2>3, RefineAcquire, RefineFill, RefineChange, RefineUnlock
    <3> QED BY <3>1 DEF Store!Next
  <2>4. CASE Next
    BY <2>1, <2>2, <2>3, <2>4 DEF Next, Step
  <2> QED BY <2>1, <2>4
<1>3. BInv /\ [Next]_vars => [Store!Next]_(<<[b \in Block |-> ContentsOf(b)], [b \in Block |-> UserOf(b)]>>)
  BY <1>2 DEF contents, user
<1> QED BY <1>1, <1>3, BInvAlways, PTL DEF Spec, IsStore, Store!Spec
=============================================================================
