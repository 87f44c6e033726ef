----------------------------- MODULE BlockStore -----------------------------
(***************************************************************************)
(* What the buffer cache promises its callers: every disk block has one    *)
(* contents and at most one user at a time.  bread() gives exclusive use   *)
(* of the block, changes are seen by the next user, and neither recycling  *)
(* a buffer nor writing it to the disk is visible.                         *)
(***************************************************************************)
EXTENDS Integers

CONSTANTS Proc, Block, Data, Nobody

VARIABLES contents, user

TypeOK == contents \in [Block -> Data] /\ user \in [Block -> Proc \cup {Nobody}]

Init ==
  /\ contents \in [Block -> Data]
  /\ user = [b \in Block |-> Nobody]

Get(p, b) ==
  /\ user[b] = Nobody
  /\ user' = [user EXCEPT ![b] = p]
  /\ UNCHANGED contents

Set(p, b, d) ==
  /\ user[b] = p
  /\ contents' = [contents EXCEPT ![b] = d]
  /\ UNCHANGED user

Put(p, b) ==
  /\ user[b] = p
  /\ user' = [user EXCEPT ![b] = Nobody]
  /\ UNCHANGED contents

Next ==
  \E p \in Proc, b \in Block : Get(p, b) \/ (\E d \in Data : Set(p, b, d)) \/ Put(p, b)

Spec == Init /\ [][Next]_<<contents, user>>
====
