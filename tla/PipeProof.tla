------------------------------ MODULE PipeProof ------------------------------
(***************************************************************************)
(* Proofs about Pipe, for any processes at the two ends, any buffer size   *)
(* and any counter width that PIPESIZE divides.                            *)
(***************************************************************************)
EXTENDS Pipe, TLAPS

(* A leaf goes to the SMT solver, twice if need be, or else to Zenon. *)
USE SMTT(30), Z3T(30), ZenonT(30)

(* Arithmetic: what % does to the wrapping counters. *)

(* A remainder is smaller than the divisor. *)
LEMMA ModRange ==
  ASSUME NEW m \in Nat \ {0}, NEW a \in Int
  PROVE  a % m \in 0 .. m - 1
BY Z3

(* Division with remainder. *)
LEMMA DivMod ==
  ASSUME NEW m \in Nat \ {0}, NEW a \in Int
  PROVE  a \div m \in Int /\ a = ((a \div m) * m) + (a % m)
BY Z3

(* The remainder is unique. *)
LEMMA ModUnique ==
  ASSUME NEW m \in Nat \ {0}, NEW q \in Int, NEW r \in 0 .. m - 1
  PROVE  ((q * m) + r) % m = r
<1> DEFINE a == (q * m) + r
           d == a \div m
           s == a % m
<1>1. a \in Int
  BY Z3
<1>2. d \in Int /\ s \in 0 .. m - 1 /\ a = (d * m) + s
  BY <1>1, DivMod, ModRange
<1> HIDE DEF d, s
<1>3. (q - d) * m = s - r
  BY <1>2, Z3
<1>4. ~(q - d >= 1)
  <2> SUFFICES ASSUME q - d >= 1 PROVE FALSE
    OBVIOUS
  <2>1. (q - d) * m >= m
    BY <1>2, Z3
  <2> QED BY <1>2, <1>3, <2>1
<1>5. ~(q - d <= -1)
  <2> SUFFICES ASSUME q - d <= -1 PROVE FALSE
    OBVIOUS
  <2>1. (q - d) * m <= -m
    BY <1>2, Z3
  <2> QED BY <1>2, <1>3, <2>1
<1>6. q - d = 0
  BY <1>2, <1>4, <1>5
<1> QED BY <1>2, <1>3, <1>6 DEF s

(* Adding a multiple of the divisor keeps the remainder. *)
LEMMA ModMultiple ==
  ASSUME NEW m \in Nat \ {0}, NEW a \in Int, NEW u \in Int, u % m = 0
  PROVE  (a + u) % m = a % m
<1> DEFINE q == a \div m
           r == a % m
           w == u \div m
<1>1. /\ q \in Int /\ r \in 0 .. m - 1 /\ w \in Int
      /\ a = (q * m) + r /\ u = w * m
  BY DivMod, ModRange
<1> HIDE DEF q, r, w
<1>2. a + u = ((q + w) * m) + r
  BY <1>1, Z3
<1>3. ((q + w) * m + r) % m = r
  BY <1>1, ModUnique, q + w \in Int
<1> QED BY <1>2, <1>3 DEF r

(* Within one buffer's length, different positions have different slots. *)
LEMMA ModDistinct ==
  ASSUME NEW m \in Nat \ {0}, NEW a \in Int, NEW k \in 1 .. m - 1
  PROVE  (a + k) % m # a % m
<1> DEFINE q == a \div m
           r == a % m
<1>1. q \in Int /\ r \in 0 .. m - 1 /\ a = (q * m) + r
  BY DivMod, ModRange
<1> HIDE DEF q, r
<1>2. CASE r + k < m
  <2>1. a + k = (q * m) + (r + k)
    BY <1>1
  <2>2. ((q * m) + (r + k)) % m = r + k
    BY <1>1, <1>2, ModUnique, r + k \in 0 .. m - 1
  <2> QED BY <1>1, <2>1, <2>2 DEF r
<1>3. CASE r + k >= m
  <2>1. a + k = ((q + 1) * m) + (r + k - m)
    BY <1>1, Z3
  <2>2. r + k - m \in 0 .. m - 1 /\ q + 1 \in Int
    BY <1>1, <1>3
  <2>3. ((q + 1) * m + (r + k - m)) % m = r + k - m
    BY <2>2, ModUnique, ZenonT(30)
  <2> QED BY <1>1, <2>1, <2>3 DEF r
<1> QED BY <1>1, <1>2, <1>3

(* The difference of two counters, and a counter's successor. *)
LEMMA Wrap ==
  ASSUME NEW a \in 0 .. UINT - 1, NEW b \in 0 .. UINT - 1
  PROVE  /\ (a - b) % UINT = IF a >= b THEN a - b ELSE a - b + UINT
         /\ (a + 1) % UINT = IF a + 1 = UINT THEN 0 ELSE a + 1
         /\ (b + PIPESIZE) % UINT = IF b + PIPESIZE < UINT THEN b + PIPESIZE ELSE b + PIPESIZE - UINT
<1>1. UINT \in Nat \ {0} /\ PIPESIZE \in Nat \ {0} /\ PIPESIZE < UINT
  BY SizeAssumption
<1>2. ASSUME NEW c \in 0 .. UINT - 1 PROVE c % UINT = c
  BY <1>1, Z3
<1>3. ASSUME NEW c \in Int, -UINT <= c, c < 0 PROVE c % UINT = c + UINT
  BY <1>1, <1>3, Z3
<1>4. ASSUME NEW c \in Int, UINT <= c, c < 2 * UINT PROVE c % UINT = c - UINT
  BY <1>1, <1>4, Z3
<1>5. (a - b) % UINT = IF a >= b THEN a - b ELSE a - b + UINT
  BY <1>1, <1>2, <1>3
<1>6. (a + 1) % UINT = IF a + 1 = UINT THEN 0 ELSE a + 1
  BY <1>1, <1>2, <1>4
<1>7. (b + PIPESIZE) % UINT = IF b + PIPESIZE < UINT THEN b + PIPESIZE ELSE b + PIPESIZE - UINT
  BY <1>1, <1>2, <1>4
<1> QED BY <1>5, <1>6, <1>7

-----------------------------------------------------------------------------
(* The inductive invariant *)

PcOf(p) ==
  {"user", "pipeclose", "closed"}
    \cup (IF p \in Writer THEN {"w_acquire", "w_loop"} ELSE {"r_acquire", "r_wait", "r_loop"})

InLock == {"w_loop", "r_wait", "r_loop"}

(* Where the processes are: pi->lock is held exactly between acquire() and *)
(* release() or sleep(), a sleeper is on its way back to acquire(), and    *)
(* whoever has closed its end counts no more.                              *)
ControlInv ==
  /\ pc \in [Proc -> UNION {PcOf(p) : p \in Proc}]
  /\ \A p \in Proc :
       /\ pc[p] \in PcOf(p)
       /\ lock = p <=> pc[p] \in InLock
       /\ chan[p] = "nread" => pc[p] = "r_acquire"
       /\ chan[p] = "nwrite" => pc[p] = "w_acquire"
       /\ p \in ends <=> pc[p] \notin {"pipeclose", "closed"}

(* One end, given its processes and its open flag: once the flag is 0      *)
(* everybody is through pipeclose(), and only the last one enters it.      *)
EndInv(side, open) ==
  /\ open = 0 => \A p \in side : pc[p] = "closed"
  /\ \A p \in side : pc[p] = "pipeclose" => \A q \in side \ {p} : pc[q] = "closed"

PInv ==
  /\ TypeOK
  /\ ControlInv
  /\ EndInv(Reader, readopen) /\ EndInv(Writer, writeopen)
  /\ freed = 1 => readopen = 0 /\ writeopen = 0

(* The state of the counters in linear arithmetic. *)
LEMMA Counters ==
  ASSUME TypeOK
  PROVE  /\ Size = IF nwrite >= nread THEN nwrite - nread ELSE nwrite - nread + UINT
         /\ Size \in 0 .. PIPESIZE
         /\ Full <=> Size = PIPESIZE
         /\ Empty <=> Size = 0
<1>1. /\ nread \in 0 .. UINT - 1 /\ nwrite \in 0 .. UINT - 1 /\ Size <= PIPESIZE
      /\ UINT \in Nat /\ PIPESIZE \in Nat \ {0} /\ PIPESIZE < UINT
  BY SizeAssumption DEF TypeOK
<1>2. Size = IF nwrite >= nread THEN nwrite - nread ELSE nwrite - nread + UINT
  BY <1>1, Wrap DEF Size
<1>3. Full <=> nwrite = IF nread + PIPESIZE < UINT THEN nread + PIPESIZE ELSE nread + PIPESIZE - UINT
  BY <1>1, Wrap DEF Full
<1> QED BY <1>1, <1>2, <1>3 DEF Empty

(* pipewrite() of a byte into a pipe that is not full adds one byte. *)
LEMMA CountWrite ==
  ASSUME TypeOK, ~Full, nwrite' = (nwrite + 1) % UINT, nread' = nread
  PROVE  nwrite' \in 0 .. UINT - 1 /\ Size' = Size + 1 /\ Size' <= PIPESIZE
<1>1. /\ nread \in 0 .. UINT - 1 /\ nwrite \in 0 .. UINT - 1
      /\ UINT \in Nat /\ PIPESIZE \in Nat \ {0} /\ PIPESIZE < UINT
  BY SizeAssumption DEF TypeOK
<1>2. nwrite' = IF nwrite + 1 = UINT THEN 0 ELSE nwrite + 1
  BY <1>1, Wrap
<1>3. nwrite' \in 0 .. UINT - 1
  BY <1>1, <1>2
<1>4. Size' = IF nwrite' >= nread THEN nwrite' - nread ELSE nwrite' - nread + UINT
  BY <1>1, <1>3, Wrap DEF Size
<1> QED BY <1>1, <1>2, <1>3, <1>4, Counters

(* piperead() of a byte from a pipe that is not empty removes one. *)
LEMMA CountRead ==
  ASSUME TypeOK, ~Empty, nread' = (nread + 1) % UINT, nwrite' = nwrite
  PROVE  nread' \in 0 .. UINT - 1 /\ Size' = Size - 1 /\ Size' <= PIPESIZE
<1>1. /\ nread \in 0 .. UINT - 1 /\ nwrite \in 0 .. UINT - 1
      /\ UINT \in Nat /\ PIPESIZE \in Nat \ {0} /\ PIPESIZE < UINT
  BY SizeAssumption DEF TypeOK
<1>2. nread' = IF nread + 1 = UINT THEN 0 ELSE nread + 1
  BY <1>1, Wrap
<1>3. nread' \in 0 .. UINT - 1
  BY <1>1, <1>2
<1>4. Size' = IF nwrite >= nread' THEN nwrite - nread' ELSE nwrite - nread' + UINT
  BY <1>1, <1>3, Wrap DEF Size
<1> QED BY <1>1, <1>2, <1>3, <1>4, Counters

(* pipealloc() establishes the invariant. *)
LEMMA PInvInit == Init => PInv
<1> SUFFICES ASSUME Init PROVE PInv
  OBVIOUS
<1>1. Size = 0
  BY SizeAssumption, Wrap DEF Init, Size
<1>2. TypeOK
  BY <1>1, SizeAssumption DEF Init, TypeOK
<1>3. ControlInv
  BY EndsAssumption DEF Init, ControlInv, PcOf, InLock
<1> QED BY <1>2, <1>3, SizeAssumption DEF Init, PInv, EndInv, Proc

(* Steps that leave the pipe alone keep its part of the types. *)
LEMMA TypeFrame ==
  ASSUME TypeOK, UNCHANGED pipevars,
         lock' \in Proc \cup {Nobody}, ends' \subseteq Proc, left' \in [Proc -> 0 .. MaxN],
         chan' \in [Proc -> {"none", "nread", "nwrite"}], killed' \in [Proc -> 0 .. 1]
  PROVE  TypeOK'
BY DEF TypeOK, pipevars, Size

(* A process that keeps its end disturbs neither end. *)
LEMMA EndFrame ==
  ASSUME PInv, NEW p \in Proc, NEW l, pc[p] \notin {"pipeclose", "closed"},
         l \notin {"pipeclose", "closed"}, Goto(p, l), UNCHANGED <<readopen, writeopen>>
  PROVE  EndInv(Reader, readopen)' /\ EndInv(Writer, writeopen)'
<1>1. /\ pc'[p] = l
      /\ \A q \in Proc \ {p} : pc'[q] = pc[q]
  BY DEF PInv, ControlInv, Goto
<1>2. ASSUME NEW side, side \subseteq Proc, NEW open, EndInv(side, open)
      PROVE  /\ open = 0 => \A q \in side : pc'[q] = "closed"
             /\ \A q \in side : pc'[q] = "pipeclose" => \A r \in side \ {q} : pc'[r] = "closed"
  BY <1>1, <1>2 DEF EndInv
<1> QED BY <1>2 DEF PInv, EndInv, Proc

(* Calls, acquire(), and the steps that leave the lock. *)
LEMMA PInvOutside ==
  ASSUME PInv, NEW p \in Proc,
         \/ (\E n \in 0 .. MaxN : Call(p, n))
         \/ Acquire(p)
         \/ WriteError(p) \/ WriteFull(p) \/ WriteDone(p)
         \/ ReadKilled(p) \/ ReadSleep(p) \/ ReadReady(p) \/ ReadDone(p)
  PROVE  PInv'
<1>t. TypeOK /\ ControlInv /\ Nobody \notin Proc /\ Reader \cap Writer = {} /\ p \in Proc /\ MaxN \in Nat
  BY EndsAssumption, SizeAssumption DEF PInv
<1>u. UNCHANGED pipevars /\ UNCHANGED <<ends, killed>>
  BY DEF Call, Acquire, WriteError, WriteFull, WriteDone, ReadKilled, ReadSleep, ReadReady, ReadDone
<1>1. TypeOK'
  <2>1. lock' \in Proc \cup {Nobody} /\ left' \in [Proc -> 0 .. MaxN]
    BY <1>t DEF TypeOK, Call, Acquire, WriteError, CanWrite, WriteFull, WriteDone, ReadKilled,
       ReadSleep, ReadReady, ReadDone, Return
  <2>2. chan' \in [Proc -> {"none", "nread", "nwrite"}]
    BY <1>t, ZenonT(30) DEF TypeOK, Call, Acquire, WriteError, CanWrite, WriteFull, WriteDone, ReadKilled,
       ReadSleep, ReadReady, ReadDone, Wakeup, Woken
  <2> QED BY <1>t, <1>u, <2>1, <2>2, TypeFrame DEF TypeOK
<1>2. PICK l \in PcOf(p) \ {"pipeclose", "closed"} : Goto(p, l) /\ pc[p] \notin {"pipeclose", "closed"}
  BY <1>t DEF ControlInv, PcOf, At, CanWrite, Call, Acquire, WriteError, WriteFull, WriteDone, ReadKilled,
     ReadSleep, ReadReady, ReadDone, Return
<1>3. EndInv(Reader, readopen)' /\ EndInv(Writer, writeopen)'
  BY <1>2, <1>u, EndFrame DEF pipevars
<1>4. /\ pc' \in [Proc -> UNION {PcOf(q) : q \in Proc}]
      /\ pc'[p] = l
      /\ \A q \in Proc \ {p} : pc'[q] = pc[q]
  BY <1>2, <1>t DEF Goto, ControlInv
<1>5. \A q \in Proc : lock' = q <=> pc'[q] \in InLock
  BY <1>t, <1>4 DEF ControlInv, InLock, Goto, PcOf, At, CanWrite, Call, Acquire, WriteError, WriteFull,
     WriteDone, ReadKilled, ReadSleep, ReadReady, ReadDone, Return
<1>6. \A q \in Proc : /\ chan'[q] = "nread" => pc'[q] = "r_acquire"
                      /\ chan'[q] = "nwrite" => pc'[q] = "w_acquire"
  <2>1. chan[p] = "none" /\ DOMAIN chan = Proc
    BY <1>t DEF TypeOK, At, CanWrite, Call, Acquire, WriteError, WriteFull,
       WriteDone, ReadKilled, ReadSleep, ReadReady, ReadDone
  <2>2. CASE chan' = chan
    BY <2>1, <2>2, <1>t, <1>4 DEF ControlInv
  <2>3. CASE chan' = Woken("nread") \/ chan' = Woken("nwrite")
    <3>1. \A q \in Proc : chan'[q] \in {chan[q], "none"}
      BY <2>3 DEF Woken
    <3> QED BY <2>1, <3>1, <1>t, <1>4 DEF ControlInv
  <2>4. CASE WriteFull(p)
    <3>1. chan'[p] = "nwrite" /\ pc'[p] = "w_acquire"
      BY <2>4, <1>4, <1>t DEF WriteFull, Woken, Goto, ControlInv
    <3>2. \A q \in Proc \ {p} : chan'[q] \in {chan[q], "none"}
      BY <2>4 DEF WriteFull, Woken
    <3> QED BY <3>1, <3>2, <1>t, <1>4 DEF ControlInv
  <2>5. CASE ReadSleep(p)
    <3>1. chan'[p] = "nread" /\ pc'[p] = "r_acquire"
      BY <2>1, <2>5, <1>4, <1>t DEF ReadSleep, Goto, ControlInv
    <3>2. \A q \in Proc \ {p} : chan'[q] = chan[q]
      BY <2>1, <2>5 DEF ReadSleep
    <3> QED BY <3>1, <3>2, <1>t, <1>4 DEF ControlInv
  <2> QED BY <2>2, <2>3, <2>4, <2>5 DEF Call, Acquire, WriteError, WriteDone, ReadKilled,
             ReadReady, ReadDone, Wakeup
<1>7. ControlInv'
  BY <1>t, <1>u, <1>2, <1>4, <1>5, <1>6 DEF ControlInv
<1> QED BY <1>1, <1>3, <1>7, <1>u DEF PInv, pipevars

(* The steps that copy bytes under the lock. *)
LEMMA PInvCopy ==
  ASSUME PInv, NEW p \in Proc,
         \/ (\E b \in Byte : WriteByte(p, b)) \/ WriteFault(p)
         \/ (\E ok \in BOOLEAN : ReadByte(p, ok))
  PROVE  PInv'
<1>t. TypeOK /\ ControlInv /\ MaxN \in Nat /\ PIPESIZE \in Nat \ {0} /\ UINT \in Nat
  BY SizeAssumption DEF PInv
<1>u. UNCHANGED <<readopen, writeopen, freed, lock, ends, pc, chan, killed>>
  BY DEF WriteByte, WriteFault, ReadByte, pipevars
<1>1. left' \in [Proc -> 0 .. MaxN]
  <2>1. left[p] \in 0 .. MaxN
    BY <1>t DEF TypeOK
  <2>2. \E n \in 0 .. MaxN : left' = [left EXCEPT ![p] = n]
    <3>1. CASE \E b \in Byte : WriteByte(p, b)
      <4>1. left[p] - 1 \in 0 .. MaxN
        BY <1>t, <2>1, <3>1 DEF WriteByte, CanWrite
      <4> QED BY <3>1, <4>1, ZenonT(30) DEF WriteByte
    <3>2. CASE WriteFault(p)
      <4>1. 0 \in 0 .. MaxN
        BY <1>t
      <4> QED BY <3>2, <4>1, ZenonT(30) DEF WriteFault
    <3>3. CASE \E ok \in BOOLEAN : ReadByte(p, ok)
      <4>1. left[p] - 1 \in 0 .. MaxN /\ 0 \in 0 .. MaxN
        BY <1>t, <2>1, <3>3 DEF ReadByte
      <4> QED BY <3>3, <4>1, ZenonT(30) DEF ReadByte
    <3> QED BY <3>1, <3>2, <3>3
  <2> QED BY <1>t, <2>2 DEF TypeOK
<1>2. TypeOK'
  <2>1. CASE \E b \in Byte : WriteByte(p, b)
    <3>1. nwrite % PIPESIZE \in 0 .. PIPESIZE - 1
      <4>1. nwrite \in Int
        BY <1>t DEF TypeOK
      <4> QED BY <4>1, <1>t, ModRange
    <3>2. data' \in [0 .. PIPESIZE - 1 -> Byte]
      BY <2>1, <3>1, <1>t DEF TypeOK, WriteByte
    <3>3. ~Full /\ nwrite' = (nwrite + 1) % UINT /\ nread' = nread
      BY <2>1 DEF WriteByte
    <3>4. nwrite' \in 0 .. UINT - 1 /\ Size' <= PIPESIZE
      BY <3>3, <1>t, CountWrite
    <3> QED BY <3>2, <3>3, <3>4, <1>1, <1>t, <1>u DEF TypeOK
  <2>2. CASE WriteFault(p)
    BY <2>2, <1>t, <1>u, <1>1, TypeFrame DEF WriteFault, TypeOK
  <2>3. CASE \E ok \in BOOLEAN : ReadByte(p, ok)
    <3>1. ~Empty /\ nread' = (nread + 1) % UINT /\ nwrite' = nwrite /\ data' = data
      BY <2>3 DEF ReadByte
    <3>2. nread' \in 0 .. UINT - 1 /\ Size' <= PIPESIZE
      BY <3>1, <1>t, CountRead
    <3> QED BY <3>1, <3>2, <1>1, <1>t, <1>u DEF TypeOK
  <2> QED BY <2>1, <2>2, <2>3
<1> QED BY <1>2, <1>u DEF PInv, ControlInv, EndInv

(* fileclose(): only the last process of a side goes on to pipeclose(). *)
LEMMA PInvFileclose ==
  ASSUME PInv, NEW p \in Proc, Fileclose(p)
  PROVE  PInv'
<1>t. TypeOK /\ ControlInv /\ Nobody \notin Proc /\ Reader \cap Writer = {}
  BY EndsAssumption DEF PInv
<1>u. UNCHANGED pipevars /\ UNCHANGED <<lock, left, chan, killed>> /\ ends' = ends \ {p}
  BY DEF Fileclose
<1> DEFINE same == IF p \in Writer THEN Writer ELSE Reader
           l == IF ends' \cap same = {} THEN "pipeclose" ELSE "closed"
<1>1. /\ pc' = [pc EXCEPT ![p] = l] /\ pc'[p] = l
      /\ \A q \in Proc \ {p} : pc'[q] = pc[q]
      /\ pc[p] = "user" /\ chan[p] = "none"
  BY <1>t DEF Fileclose, Goto, At, ControlInv
<1>2. TypeOK'
  BY <1>t, <1>u, TypeFrame DEF TypeOK
<1>3. ControlInv'
  <2>1. l \in PcOf(p) /\ l \notin InLock /\ l \in {"pipeclose", "closed"}
    BY DEF PcOf, InLock
  <2>2. pc' \in [Proc -> UNION {PcOf(q) : q \in Proc}]
    BY <1>1, <2>1, <1>t DEF ControlInv
  <2>3. pc[p] \notin InLock
    BY <1>1 DEF InLock
  <2> HIDE DEF l, same
  <2> QED BY <1>1, <1>t, <1>u, <2>1, <2>2, <2>3 DEF ControlInv
<1>4. ASSUME NEW side, side \in {Reader, Writer}, NEW open, EndInv(side, open)
      PROVE  /\ open = 0 => \A q \in side : pc'[q] = "closed"
             /\ \A q \in side : pc'[q] = "pipeclose" => \A r \in side \ {q} : pc'[r] = "closed"
  <2>1. side \subseteq Proc
    BY <1>4 DEF Proc
  <2>2. CASE p \notin side
    <3>1. \A q \in side : pc'[q] = pc[q]
      BY <1>1, <2>1, <2>2
    <3> QED BY <1>4, <3>1 DEF EndInv
  <2>3. CASE p \in side
    <3>1. open # 0 /\ \A q \in side : pc[q] # "pipeclose"
      BY <1>1, <1>4, <2>3 DEF EndInv
    <3>2. side = same
      BY <1>4, <1>t, <2>3 DEF Proc
    <3>3. l = "pipeclose" => \A r \in side \ {p} : pc[r] = "closed"
      <4>1. l = "pipeclose" => \A r \in side \ {p} : r \notin ends
        BY <1>u, <3>2
      <4> QED BY <4>1, <3>1, <2>1, <1>t DEF ControlInv
    <3> HIDE DEF l, same
    <3> QED BY <1>1, <2>1, <2>3, <3>1, <3>3
  <2> QED BY <2>2, <2>3
<1>5. EndInv(Reader, readopen)' /\ EndInv(Writer, writeopen)'
  BY <1>4, <1>u DEF PInv, EndInv, pipevars
<1> QED BY <1>2, <1>3, <1>5, <1>u DEF PInv, pipevars

(* pipeclose() closes the end of its caller, with nobody left on it. *)
LEMMA PInvPipeclose ==
  ASSUME PInv, NEW p \in Proc, Pipeclose(p)
  PROVE  PInv'
<1>t. TypeOK /\ ControlInv /\ Nobody \notin Proc /\ Reader \cap Writer = {}
  BY EndsAssumption DEF PInv
<1>u. UNCHANGED <<data, nread, nwrite, lock, ends, left, killed>>
  BY DEF Pipeclose
<1>1. /\ pc'[p] = "closed" /\ pc' = [pc EXCEPT ![p] = "closed"]
      /\ \A q \in Proc \ {p} : pc'[q] = pc[q]
      /\ pc[p] = "pipeclose" /\ chan[p] = "none"
  BY <1>t DEF Pipeclose, Goto, At, ControlInv
<1>2. /\ chan' \in [Proc -> {"none", "nread", "nwrite"}]
      /\ \A q \in Proc : chan'[q] \in {chan[q], "none"}
  BY <1>t DEF Pipeclose, Wakeup, Woken, TypeOK
<1>3. /\ readopen' = IF p \in Writer THEN readopen ELSE 0
      /\ writeopen' = IF p \in Writer THEN 0 ELSE writeopen
      /\ freed' = IF readopen' = 0 /\ writeopen' = 0 THEN 1 ELSE freed
  BY DEF Pipeclose
<1>4. TypeOK'
  <2>1. Size' = Size
    BY <1>u DEF Size
  <2> QED BY <2>1, <1>t, <1>u, <1>2, <1>3 DEF TypeOK
<1>5. ControlInv'
  <2>1. "closed" \in PcOf(p) /\ "closed" \notin InLock /\ "pipeclose" \notin InLock
    BY DEF PcOf, InLock
  <2>2. pc' \in [Proc -> UNION {PcOf(q) : q \in Proc}]
    BY <1>1, <2>1, <1>t DEF ControlInv
  <2> QED BY <1>1, <1>2, <1>t, <1>u, <2>1, <2>2 DEF ControlInv
<1>6. EndInv(Reader, readopen)'
  <2>1. CASE p \in Writer
    <3>1. \A q \in Reader : pc'[q] = pc[q]
      BY <2>1, <1>1, <1>t DEF Proc
    <3> QED BY <2>1, <3>1, <1>3 DEF PInv, EndInv
  <2>2. CASE p \in Reader
    BY <2>2, <1>1, <1>t DEF PInv, EndInv, Proc
  <2> QED BY <2>1, <2>2 DEF Proc
<1>7. EndInv(Writer, writeopen)'
  <2>1. CASE p \in Reader
    <3>1. \A q \in Writer : pc'[q] = pc[q]
      BY <2>1, <1>1, <1>t DEF Proc
    <3> QED BY <2>1, <3>1, <1>3, <1>t DEF PInv, EndInv
  <2>2. CASE p \in Writer
    BY <2>2, <1>1, <1>t DEF PInv, EndInv, Proc
  <2> QED BY <2>1, <2>2 DEF Proc
<1>8. freed' = 1 => readopen' = 0 /\ writeopen' = 0
  BY <1>3, <1>t DEF PInv, TypeOK
<1> QED BY <1>4, <1>5, <1>6, <1>7, <1>8 DEF PInv

(* kill() wakes its victim and changes nothing else of the pipe. *)
LEMMA PInvKill ==
  ASSUME PInv, NEW p \in Proc, Kill(p)
  PROVE  PInv'
<1>u. UNCHANGED <<pipevars, lock, ends, pc, left>>
  BY DEF Kill
<1>1. TypeOK'
  BY <1>u, TypeFrame DEF Kill, PInv, TypeOK
<1>2. \A q \in Proc : chan'[q] \in {chan[q], "none"}
  BY DEF Kill, PInv, TypeOK
<1>3. ControlInv'
  BY <1>u, <1>2 DEF PInv, ControlInv
<1> QED BY <1>1, <1>3, <1>u DEF PInv, EndInv, pipevars

(* Every step preserves the invariant. *)
LEMMA PInvStep == PInv /\ [Next]_vars => PInv'
<1> SUFFICES ASSUME PInv, [Next]_vars PROVE PInv'
  OBVIOUS
<1>1. CASE UNCHANGED vars
  BY <1>1 DEF vars, pipevars, PInv, TypeOK, ControlInv, EndInv, Size
<1>2. CASE Next
  BY <1>2, PInvOutside, PInvCopy, PInvFileclose, PInvPipeclose, PInvKill DEF Next, KernelStep, UserStep
<1> QED BY <1>1, <1>2

(* The control of pipe.c keeps the invariant. *)
LEMMA PInvAlways == Spec => []PInv
BY PInvInit, PInvStep, PTL DEF Spec

(* pipewrite(), piperead() and pipeclose() never let the pipe hold more    *)
(* than PIPESIZE bytes, however the counters wrap, and nobody is in the    *)
(* pipe or can get there once pipeclose() has freed it.                    *)
THEOREM WellFormedAlways == Spec => []WellFormed
<1>1. PInv => WellFormed
  BY DEF PInv, EndInv, ControlInv, WellFormed, NoUseAfterFree, Proc
<1> QED BY <1>1, PInvAlways, PTL

-----------------------------------------------------------------------------
(* Sleepers *)

(* SleepIsJustified while somebody holds pi->lock: a writer in its loop    *)
(* may have added bytes, a reader in its loop may have taken some, and     *)
(* each still has its wakeup() ahead.                                      *)
SleepInv ==
  \A p \in Proc :
    /\ chan[p] = "nread" =>
         /\ writeopen = 1
         /\ Empty \/ (\E w \in Writer : killed[w] = 1) \/ (\E w \in Writer : pc[w] = "w_loop")
    /\ chan[p] = "nwrite" =>
         /\ readopen = 1
         /\ Full \/ (\E r \in Reader : pc[r] = "r_loop")

(* What the open flags say of a process at work. *)
LEMMA AtWork ==
  ASSUME PInv, NEW p \in Proc, pc[p] \notin {"pipeclose", "closed"}
  PROVE  /\ p \in Reader => readopen = 1
         /\ p \in Writer => writeopen = 1
BY DEF PInv, EndInv, TypeOK

(* A step of p that only wakes processes, changes neither the counters nor *)
(* the flags, and leaves no loop, keeps every sleep justified.             *)
LEMMA SleepFrame ==
  ASSUME PInv, SleepInv, NEW p \in Proc,
         UNCHANGED <<nread, nwrite, readopen, writeopen>>,
         \A q \in Proc \ {p} : pc'[q] = pc[q],
         \A q \in Proc : chan'[q] \in {chan[q], "none"},
         \A q \in Proc : killed[q] = 1 => killed'[q] = 1,
         pc[p] = "w_loop" => \/ pc'[p] = "w_loop" \/ killed[p] = 1
                             \/ \A q \in Proc : chan'[q] # "nread",
         pc[p] = "r_loop" => \/ pc'[p] = "r_loop"
                             \/ \A q \in Proc : chan'[q] # "nwrite"
  PROVE  SleepInv'
<1>t. Reader \subseteq Proc /\ Writer \subseteq Proc
  BY DEF Proc
<1>o. (Empty' <=> Empty) /\ (Full' <=> Full)
  BY DEF Empty, Full
<1> SUFFICES ASSUME NEW q \in Proc
             PROVE  /\ chan'[q] = "nread" =>
                         /\ writeopen = 1
                         /\ Empty \/ (\E w \in Writer : killed'[w] = 1) \/ (\E w \in Writer : pc'[w] = "w_loop")
                    /\ chan'[q] = "nwrite" =>
                         /\ readopen = 1
                         /\ Full \/ (\E r \in Reader : pc'[r] = "r_loop")
  BY <1>o DEF SleepInv
<1>1. ASSUME chan'[q] = "nread"
      PROVE  /\ writeopen = 1
             /\ Empty \/ (\E w \in Writer : killed'[w] = 1) \/ (\E w \in Writer : pc'[w] = "w_loop")
  BY <1>1, <1>t DEF SleepInv
<1>2. ASSUME chan'[q] = "nwrite"
      PROVE  readopen = 1 /\ (Full \/ (\E r \in Reader : pc'[r] = "r_loop"))
  BY <1>2, <1>t DEF SleepInv
<1> QED BY <1>1, <1>2

(* Writers: the loop, its ends and its errors. *)
LEMMA SleepWrite ==
  ASSUME PInv, SleepInv, NEW p \in Proc,
         \/ WriteError(p) \/ WriteFull(p) \/ (\E b \in Byte : WriteByte(p, b)) \/ WriteFault(p) \/ WriteDone(p)
  PROVE  SleepInv'
<1>t. /\ DOMAIN pc = Proc /\ DOMAIN chan = Proc /\ p \in Writer
      /\ pc[p] = "w_loop" /\ chan[p] = "none" /\ lock = p
      /\ \A q \in Proc : killed'[q] = killed[q]
  BY EndsAssumption, ZenonT(30) DEF PInv, TypeOK, ControlInv, InLock, PcOf, At, CanWrite, WriteError, WriteFull,
     WriteByte, WriteFault, WriteDone
<1>0. \A q \in Proc : chan[q] = "nread" => readopen = 1
  BY AtWork, EndsAssumption DEF PInv, ControlInv, PcOf, Proc
<1>1. CASE WriteError(p)
  <2>1. readopen = 0 => \A q \in Proc : chan[q] # "nread"
    BY <1>0
  <2>2. /\ UNCHANGED <<nread, nwrite, readopen, writeopen, chan>>
        /\ \A q \in Proc \ {p} : pc'[q] = pc[q]
        /\ readopen = 0 \/ killed[p] = 1
    BY <1>1, <1>t DEF WriteError, Return, Goto, pipevars
  <2> QED BY <1>t, <2>1, <2>2, SleepFrame
<1>2. CASE WriteFull(p)
  <2>1. /\ UNCHANGED <<nread, nwrite, readopen, writeopen>> /\ readopen = 1 /\ Full
        /\ \A q \in Proc \ {p} : pc'[q] = pc[q]
    BY <1>2, <1>t DEF WriteFull, CanWrite, Goto, pipevars
  <2>2. \A q \in Proc : chan'[q] # "nread"
    BY <1>2 DEF WriteFull, Woken
  <2>3. Full'
    BY <2>1 DEF Full
  <2> QED BY <2>1, <2>2, <2>3 DEF SleepInv
<1>3. CASE \E b \in Byte : WriteByte(p, b)
  <2>1. UNCHANGED <<nread, readopen, writeopen, pc, chan, killed>> /\ ~Full
    BY <1>3 DEF WriteByte
  <2>2. \A r \in Reader : pc[r] # "r_loop"
    BY <1>t, EndsAssumption DEF PInv, ControlInv, InLock, Proc
  <2>3. \A q \in Proc : chan[q] # "nwrite"
    BY <2>1, <2>2 DEF SleepInv
  <2> QED BY <2>1, <2>3, <1>t DEF SleepInv
<1>4. CASE WriteFault(p)
  <2>1. UNCHANGED <<nread, nwrite, readopen, writeopen, pc, chan>>
    BY <1>4 DEF WriteFault, pipevars
  <2> QED BY <1>t, <2>1, SleepFrame
<1>5. CASE WriteDone(p)
  <2>1. /\ UNCHANGED <<nread, nwrite, readopen, writeopen>>
        /\ \A q \in Proc \ {p} : pc'[q] = pc[q]
    BY <1>5, <1>t DEF WriteDone, Return, Goto, pipevars
  <2>2. \A q \in Proc : chan'[q] # "nread" /\ chan'[q] \in {chan[q], "none"}
    BY <1>5 DEF WriteDone, Wakeup, Woken
  <2> QED BY <1>t, <2>1, <2>2, SleepFrame
<1> QED BY <1>1, <1>2, <1>3, <1>4, <1>5

(* Readers: the wait, the loop and its end. *)
LEMMA SleepRead ==
  ASSUME PInv, SleepInv, NEW p \in Proc,
         ReadKilled(p) \/ ReadSleep(p) \/ ReadReady(p) \/ (\E ok \in BOOLEAN : ReadByte(p, ok)) \/ ReadDone(p)
  PROVE  SleepInv'
<1>t. /\ DOMAIN pc = Proc /\ DOMAIN chan = Proc /\ p \in Reader
      /\ pc[p] \in {"r_wait", "r_loop"} /\ chan[p] = "none" /\ lock = p
      /\ \A q \in Proc : killed'[q] = killed[q]
  BY EndsAssumption DEF PInv, TypeOK, ControlInv, InLock, PcOf, Proc, At, ReadKilled, ReadSleep,
     ReadReady, ReadByte, ReadDone
<1>1. CASE ReadKilled(p) \/ ReadReady(p)
  <2>1. /\ UNCHANGED <<nread, nwrite, readopen, writeopen, chan>> /\ pc[p] = "r_wait"
        /\ \A q \in Proc \ {p} : pc'[q] = pc[q]
    BY <1>1, <1>t DEF ReadKilled, ReadReady, Return, Goto, At, pipevars
  <2> QED BY <1>t, <2>1, SleepFrame
<1>2. CASE ReadSleep(p)
  <2>1. /\ UNCHANGED <<nread, nwrite, readopen, writeopen>> /\ writeopen = 1 /\ Empty
        /\ \A q \in Proc \ {p} : pc'[q] = pc[q]
        /\ pc[p] = "r_wait"
        /\ \A q \in Proc : chan'[q] = "nwrite" => chan[q] = "nwrite"
    BY <1>2, <1>t DEF ReadSleep, Goto, At, pipevars
  <2>2. Empty' /\ (Full => Full')
    BY <2>1 DEF Empty, Full
  <2>3. Reader \subseteq Proc
    BY DEF Proc
  <2> QED BY <2>1, <2>2, <2>3, ZenonT(30) DEF SleepInv
<1>3. CASE \E ok \in BOOLEAN : ReadByte(p, ok)
  <2>1. UNCHANGED <<nwrite, readopen, writeopen, pc, chan, killed>> /\ ~Empty /\ pc[p] = "r_loop"
    BY <1>3 DEF ReadByte, At
  <2> QED BY <2>1, <1>t, EndsAssumption DEF SleepInv, PInv, ControlInv, InLock, Proc
<1>4. CASE ReadDone(p)
  <2>1. /\ UNCHANGED <<nread, nwrite, readopen, writeopen>> /\ pc[p] = "r_loop"
        /\ \A q \in Proc \ {p} : pc'[q] = pc[q]
    BY <1>4, <1>t DEF ReadDone, Return, Goto, At, pipevars
  <2>2. \A q \in Proc : chan'[q] # "nwrite" /\ chan'[q] \in {chan[q], "none"}
    BY <1>4 DEF ReadDone, Wakeup, Woken
  <2> QED BY <1>t, <2>1, <2>2, SleepFrame
<1> QED BY <1>1, <1>2, <1>3, <1>4

(* Everything outside the loops. *)
LEMMA SleepOther ==
  ASSUME PInv, SleepInv, NEW p \in Proc,
         Acquire(p) \/ (\E n \in 0 .. MaxN : Call(p, n)) \/ Fileclose(p) \/ Pipeclose(p) \/ Kill(p)
  PROVE  SleepInv'
<1>t. DOMAIN pc = Proc /\ DOMAIN chan = Proc /\ DOMAIN killed = Proc
  BY DEF PInv, TypeOK, ControlInv
<1>1. CASE Acquire(p) \/ (\E n \in 0 .. MaxN : Call(p, n)) \/ Fileclose(p)
  <2>1. /\ UNCHANGED <<nread, nwrite, readopen, writeopen, chan, killed>>
        /\ \A q \in Proc \ {p} : pc'[q] = pc[q]
        /\ pc[p] \notin {"w_loop", "r_loop"}
    BY <1>1, <1>t DEF Acquire, Call, Fileclose, At, Goto, pipevars
  <2> QED BY <2>1, SleepFrame
<1>2. CASE Kill(p)
  <2>1. /\ UNCHANGED <<nread, nwrite, readopen, writeopen, pc>>
        /\ \A q \in Proc : chan'[q] \in {chan[q], "none"}
        /\ \A q \in Proc : killed[q] = 1 => killed'[q] = 1
    BY <1>2, <1>t DEF Kill, pipevars
  <2> QED BY <2>1, SleepFrame, ZenonT(30)
<1>3. CASE Pipeclose(p)
  <2>1. /\ UNCHANGED <<nread, nwrite, killed>> /\ pc[p] = "pipeclose"
        /\ \A q \in Proc \ {p} : pc'[q] = pc[q]
        /\ \A q \in Proc : chan'[q] \in {chan[q], "none"}
    BY <1>3, <1>t DEF Pipeclose, Goto, At, Wakeup, Woken
  <2>2. \/ writeopen' = writeopen /\ \A q \in Proc : chan'[q] # "nwrite"
        \/ readopen' = readopen /\ \A q \in Proc : chan'[q] # "nread"
    BY <1>3 DEF Pipeclose, Wakeup, Woken
  <2>3. (Empty' <=> Empty) /\ (Full' <=> Full) /\ Reader \subseteq Proc /\ Writer \subseteq Proc
    BY <2>1 DEF Empty, Full, Proc
  <2> QED BY <2>1, <2>2, <2>3, ZenonT(30) DEF SleepInv
<1> QED BY <1>1, <1>2, <1>3

(* Whoever sleeps in pipewrite() or piperead() has reason to.              *)
THEOREM SleepIsJustifiedAlways == Spec => []SleepIsJustified
<1>1. Init => SleepInv
  BY DEF Init, SleepInv
<1>2. PInv /\ SleepInv /\ [Next]_vars => SleepInv'
  <2> SUFFICES ASSUME PInv, SleepInv, [Next]_vars PROVE SleepInv'
    OBVIOUS
  <2>1. CASE UNCHANGED vars
    BY <2>1 DEF vars, pipevars, SleepInv, Empty, Full
  <2>2. CASE Next
    BY <2>2, SleepWrite, SleepRead, SleepOther DEF Next, KernelStep, UserStep
  <2> QED BY <2>1, <2>2
<1>3. PInv /\ SleepInv => SleepIsJustified
  BY EndsAssumption DEF PInv, ControlInv, InLock, SleepInv, SleepIsJustified, Proc
<1> QED BY <1>1, <1>2, <1>3, PInvAlways, PTL DEF Spec

-----------------------------------------------------------------------------
(* The pipe is a bounded queue *)

(* Every slot of the circular buffer holds a byte. *)
LEMMA SlotHoldsByte ==
  ASSUME NEW i \in Int, NEW d \in [0 .. PIPESIZE - 1 -> Byte]
  PROVE  d[i % PIPESIZE] \in Byte
<1>1. i % PIPESIZE \in 0 .. PIPESIZE - 1
  BY ModRange, SizeAssumption
<1> QED BY <1>1

(* Queue is a sequence of Size bytes, before and after a step. *)
LEMMA QueueIsSeq ==
  ASSUME TypeOK, TypeOK', Size \in Nat, Size' \in Nat
  PROVE  /\ Queue \in Seq(Byte) /\ Len(Queue) = Size
         /\ Queue' \in Seq(Byte) /\ Len(Queue') = Size'
         /\ \A k \in 1 .. Size : Queue[k] = data[(nread + k - 1) % PIPESIZE]
         /\ \A k \in 1 .. Size' : Queue'[k] = data'[(nread' + k - 1) % PIPESIZE]
<1>1. Queue \in Seq(Byte) /\ Len(Queue) = Size
  <2>1. nread \in Int /\ data \in [0 .. PIPESIZE - 1 -> Byte]
    BY DEF TypeOK
  <2>2. ASSUME NEW k \in 1 .. Size
        PROVE  data[(nread + k - 1) % PIPESIZE] \in Byte
    <3>1. nread + k - 1 \in Int
      BY <2>1
    <3> QED BY <2>1, <3>1, SlotHoldsByte, ZenonT(30)
  <2>3. Queue \in [1 .. Size -> Byte]
    BY <2>2 DEF Queue
  <2> QED BY <2>3
<1>2. Queue' \in Seq(Byte) /\ Len(Queue') = Size'
  <2>1. nread' \in Int /\ data' \in [0 .. PIPESIZE - 1 -> Byte]
    BY DEF TypeOK
  <2>2. ASSUME NEW k \in 1 .. Size'
        PROVE  data'[(nread' + k - 1) % PIPESIZE] \in Byte
    <3>1. nread' + k - 1 \in Int
      BY <2>1
    <3> QED BY <2>1, <3>1, SlotHoldsByte, ZenonT(30)
  <2>3. Queue' \in [1 .. Size' -> Byte]
    BY <2>2 DEF Queue
  <2> QED BY <2>3
<1> QED BY <1>1, <1>2 DEF Queue

(* The slot after the last byte of the queue is data[nwrite % PIPESIZE],   *)
(* whether or not nwrite has wrapped since the first byte was written.     *)
LEMMA WriteSlot ==
  ASSUME TypeOK
  PROVE  (nread + Size) % PIPESIZE = nwrite % PIPESIZE
<1>1. /\ nread \in Int /\ nwrite \in Int /\ UINT \in Int /\ UINT % PIPESIZE = 0
      /\ PIPESIZE \in Nat \ {0}
  BY SizeAssumption DEF TypeOK
<1>2. nread + Size = nwrite \/ nread + Size = nwrite + UINT
  BY <1>1, Counters
<1> QED BY <1>1, <1>2, ModMultiple, ZenonT(30)

(* A byte written is appended. *)
LEMMA RefineWriteByte ==
  ASSUME PInv, TypeOK', NEW p \in Proc, NEW b \in Byte, WriteByte(p, b)
  PROVE  Channel!Put(b)
<1>t. /\ TypeOK /\ PIPESIZE \in Nat \ {0}
      /\ ~Full /\ nwrite' = (nwrite + 1) % UINT /\ nread' = nread
      /\ data' = [data EXCEPT ![nwrite % PIPESIZE] = b]
      /\ UNCHANGED <<readopen, writeopen>>
  BY SizeAssumption DEF PInv, WriteByte
<1>1. readopen = 1 /\ writeopen = 1
  <2>1. pc[p] = "w_loop" /\ p \in Writer /\ readopen = 1
    BY EndsAssumption DEF WriteByte, CanWrite, At, PInv, ControlInv, PcOf
  <2> QED BY <2>1, AtWork
<1>2. Size' = Size + 1 /\ Size < PIPESIZE /\ Size \in Nat
  BY <1>t, CountWrite, Counters
<1>q. /\ Queue \in Seq(Byte) /\ Len(Queue) = Size
      /\ Queue' \in Seq(Byte) /\ Len(Queue') = Size + 1
      /\ \A k \in 1 .. Size : Queue[k] = data[(nread + k - 1) % PIPESIZE]
      /\ \A k \in 1 .. Size + 1 : Queue'[k] = data'[(nread + k - 1) % PIPESIZE]
  <2>1. TypeOK /\ TypeOK' /\ Size \in Nat /\ Size' \in Nat
    BY <1>t, <1>2
  <2>2. nread' = nread /\ Size' = Size + 1
    BY <1>t, <1>2
  <2> QED BY <2>1, <2>2, QueueIsSeq
<1>4. Queue'[Size + 1] = b
  <2>1. (nread + (Size + 1) - 1) = nread + Size
    BY <1>2, <1>t DEF TypeOK
  <2>2. nwrite % PIPESIZE \in 0 .. PIPESIZE - 1
    <3>1. nwrite \in Int
      BY <1>t DEF TypeOK
    <3> QED BY <3>1, <1>t, ModRange
  <2>3. data'[nwrite % PIPESIZE] = b
    BY <2>2, <1>t DEF TypeOK
  <2> QED BY <1>2, <1>q, <2>1, <2>3, <1>t, WriteSlot
<1>5. ASSUME NEW k \in 1 .. Size PROVE Queue'[k] = Queue[k]
  <2> DEFINE a == nread + k - 1
  <2>1. a \in Int /\ Size + 1 - k \in 1 .. PIPESIZE - 1 /\ a + (Size + 1 - k) = nread + Size
    BY <1>t, <1>2 DEF TypeOK
  <2>2. nwrite % PIPESIZE # a % PIPESIZE
    BY <2>1, <1>t, ModDistinct, WriteSlot, ZenonT(30)
  <2>3. a % PIPESIZE \in 0 .. PIPESIZE - 1
    BY <2>1, <1>t, ModRange, ZenonT(30)
  <2>4. data'[a % PIPESIZE] = data[a % PIPESIZE]
    BY <2>2, <2>3, <1>t DEF TypeOK
  <2> QED BY <1>q, <1>2, <2>4
<1>6. Queue' = Append(Queue, b)
  BY <1>2, <1>q, <1>4, <1>5
<1> QED BY <1>1, <1>2, <1>6, <1>t, <1>q DEF Channel!Put

(* A byte read, delivered or not, leaves from the front. *)
LEMMA RefineReadByte ==
  ASSUME PInv, TypeOK', NEW p \in Proc, NEW ok \in BOOLEAN, ReadByte(p, ok)
  PROVE  Channel!Get
<1>t. /\ TypeOK /\ PIPESIZE \in Nat \ {0} /\ UINT \in Int /\ UINT % PIPESIZE = 0
      /\ ~Empty /\ nread' = (nread + 1) % UINT
      /\ UNCHANGED <<nwrite, data, readopen, writeopen>>
  BY SizeAssumption DEF PInv, ReadByte
<1>1. readopen = 1
  <2>1. pc[p] = "r_loop" /\ p \in Reader
    BY EndsAssumption DEF ReadByte, At, PInv, ControlInv, PcOf, Proc
  <2> QED BY <2>1, AtWork
<1>2. Size' = Size - 1 /\ Size \in Nat /\ Size >= 1
  BY <1>t, CountRead, Counters, SizeAssumption
<1>3. nread' = nread + 1 \/ nread' + UINT = nread + 1
  <2>1. nread \in 0 .. UINT - 1
    BY <1>t DEF TypeOK
  <2> QED BY <2>1, <1>t, Wrap
<1>q. /\ Queue \in Seq(Byte) /\ Len(Queue) = Size
      /\ Queue' \in Seq(Byte) /\ Len(Queue') = Size - 1
      /\ \A k \in 1 .. Size : Queue[k] = data[(nread + k - 1) % PIPESIZE]
      /\ \A k \in 1 .. Size - 1 : Queue'[k] = data[(nread' + k - 1) % PIPESIZE]
  <2>1. TypeOK /\ TypeOK' /\ Size \in Nat /\ Size' \in Nat
    BY <1>t, <1>2
  <2>2. data' = data /\ Size' = Size - 1
    BY <1>t, <1>2
  <2> QED BY <2>1, <2>2, QueueIsSeq
<1>4. ASSUME NEW k \in 1 .. Size - 1 PROVE Queue'[k] = Queue[k + 1]
  <2> DEFINE a == nread' + k - 1
  <2>1. /\ a \in Int
        /\ nread + (k + 1) - 1 = a \/ nread + (k + 1) - 1 = a + UINT
    BY <1>t, <1>2, <1>3 DEF TypeOK
  <2> HIDE DEF a
  <2>2. (a + UINT) % PIPESIZE = a % PIPESIZE
    BY <2>1, <1>t, ModMultiple, ZenonT(30)
  <2>3. (nread + (k + 1) - 1) % PIPESIZE = a % PIPESIZE
    BY <2>1, <2>2
  <2> QED BY <2>3, <1>q, <1>2 DEF a
<1>5. Queue' = Tail(Queue)
  BY <1>2, <1>4, <1>q
<1> QED BY <1>1, <1>2, <1>5, <1>t, <1>q DEF Channel!Get

(* A step that leaves the buffer and the flags alone is a stutter. *)
LEMMA RefineFrame ==
  ASSUME UNCHANGED <<data, nread, nwrite, readopen, writeopen>>
  PROVE  UNCHANGED Channel!vars
BY DEF Channel!vars, Queue, Size

(* pipeclose() closes one end, once. *)
LEMMA RefinePipeclose ==
  ASSUME PInv, NEW p \in Proc, Pipeclose(p)
  PROVE  Channel!CloseRead \/ Channel!CloseWrite
<1>1. Queue' = Queue
  BY DEF Pipeclose, Queue, Size
<1>2. pc[p] = "pipeclose"
  BY DEF Pipeclose, At
<1>3. (p \in Reader => readopen = 1) /\ (p \in Writer => writeopen = 1)
  BY <1>2 DEF PInv, EndInv, TypeOK
<1> QED BY <1>1, <1>3 DEF Pipeclose, Proc, Channel!CloseRead, Channel!CloseWrite

(* Seen through Queue, pipe.c is a bounded queue of bytes: they come out   *)
(* in the order they went in, none is overwritten, read twice or invented, *)
(* whatever the sharing of the ends and the wrapping of the counters.      *)
THEOREM IsFifoProved == Spec => IsFifo
<1>1. Init => Channel!Init
  <2> SUFFICES ASSUME Init PROVE Channel!Init
    OBVIOUS
  <2>1. Size = 0
    BY SizeAssumption, Wrap DEF Init, Size
  <2>2. Queue = << >>
    BY <2>1 DEF Queue
  <2> QED BY <2>2 DEF Init, Channel!Init
<1>2. PInv /\ PInv' /\ [Next]_vars => [Channel!Next]_(Channel!vars)
  <2> SUFFICES ASSUME PInv, PInv', [Next]_vars PROVE [Channel!Next]_(Channel!vars)
    OBVIOUS
  <2>1. CASE UNCHANGED vars
    BY <2>1, RefineFrame DEF vars, pipevars
  <2>2. ASSUME NEW p \in Proc, NEW b \in Byte, WriteByte(p, b) PROVE Channel!Next
    BY <2>2, RefineWriteByte DEF PInv, Channel!Next
  <2>3. ASSUME NEW p \in Proc, NEW ok \in BOOLEAN, ReadByte(p, ok) PROVE Channel!Next
    BY <2>3, RefineReadByte DEF PInv, Channel!Next
  <2>4. ASSUME NEW p \in Proc, Pipeclose(p) PROVE Channel!Next
    BY <2>4, RefinePipeclose DEF Channel!Next
  <2>5. ASSUME NEW p \in Proc,
               \/ Acquire(p) \/ WriteError(p) \/ WriteFull(p) \/ WriteFault(p) \/ WriteDone(p)
               \/ ReadKilled(p) \/ ReadSleep(p) \/ ReadReady(p) \/ ReadDone(p)
               \/ UserStep(p) \/ Kill(p)
        PROVE  UNCHANGED Channel!vars
    <3>1. UNCHANGED pipevars
      BY <2>5 DEF Acquire, WriteError, WriteFull, WriteFault, WriteDone, ReadKilled, ReadSleep,
         ReadReady, ReadDone, UserStep, Call, Fileclose, Kill
    <3> QED BY <3>1, RefineFrame DEF pipevars
  <2> QED BY <2>1, <2>2, <2>3, <2>4, <2>5 DEF Next, KernelStep
<1> QED BY <1>1, <1>2, PInvAlways, PTL DEF Spec, IsFifo, Channel!Spec
=============================================================================
