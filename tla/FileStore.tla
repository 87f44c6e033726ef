----------------------------- MODULE FileStore -----------------------------
(***************************************************************************)
(* What open files promise their readers and writers, whatever blocks hold *)
(* the bytes.  A file has the contents reads return (view), the contents   *)
(* the next commit makes durable (next) and those a crash falls back to    *)
(* (safe).  A write(2) is a series of pieces; each piece goes to the       *)
(* file's offset at once, into one file only, and moves the offset by what *)
(* it wrote.  view and next differ only after a piece whose copy from the  *)
(* caller's memory failed: bytes it had moved already are seen by readers  *)
(* but belong to no transaction, so they may vanish again, or be carried   *)
(* along by a later write next to them.                                    *)
(***************************************************************************)
EXTENDS Integers, Sequences

CONSTANTS
    Inode, File, Value,
    Ino,            \* the inode of an open file
    MaxPiece        \* bytes filewrite() puts into one transaction

VARIABLES view, next, safe, off

vars == <<view, next, safe, off>>

Init ==
    /\ view = [i \in Inode |-> <<>>] /\ next = view /\ safe = view
    /\ off = [f \in File |-> 0]

Larger(a, b) == IF a > b THEN a ELSE b

\* One piece: n bytes v at the offset of f, and up to t more that were moved
\* before the copy failed.  Elsewhere nothing changes, except that bytes of no
\* transaction may be given up or carried along.
Write(f, v, n, t) ==
    LET i == Ino[f]
        o == off[f]
        Byte(x) == IF x \in (o + 1)..(o + n) THEN {v}
                   ELSE {c[x] : c \in {c \in {view[i], next[i]} : x <= Len(c)}}
                        \cup (IF x \in (o + n + 1)..(o + n + t) THEN {v} ELSE {})
        Extends(c, d) ==
            /\ Len(d) = IF n = 0 THEN Len(c) ELSE Larger(Len(c), o + n)
            /\ \A x \in 1..Len(d) : d[x] \in Byte(x)
    IN /\ o <= Len(view[i])
       /\ Extends(view[i], view'[i]) /\ Extends(next[i], next'[i])
       /\ \A j \in Inode \ {i} : view'[j] = view[j] /\ next'[j] = next[j]
       /\ off' = [off EXCEPT ![f] = o + n]
       /\ UNCHANGED safe

Read(f, n) ==
    /\ off[f] + n <= Len(view[Ino[f]])
    /\ off' = [off EXCEPT ![f] = @ + n]
    /\ UNCHANGED <<view, next, safe>>

Truncate(i) ==
    /\ view' = [view EXCEPT ![i] = <<>>]
    /\ next' = [next EXCEPT ![i] = <<>>]
    /\ UNCHANGED <<safe, off>>

\* Bytes of no transaction are given up.
Forget(i) ==
    /\ DOMAIN view'[i] = DOMAIN view[i]
    /\ \A x \in DOMAIN view[i] :
         view'[i][x] = view[i][x] \/ (x <= Len(next[i]) /\ view'[i][x] = next[i][x])
    /\ \A j \in Inode \ {i} : view'[j] = view[j]
    /\ UNCHANGED <<next, safe, off>>

Commit == safe' = next /\ UNCHANGED <<view, next, off>>

Crash ==
    /\ view' = safe /\ next' = safe
    /\ off' = [f \in File |-> 0]
    /\ UNCHANGED safe

Next ==
    \/ \E f \in File, v \in Value, n, t \in 0..MaxPiece : n + t <= MaxPiece /\ Write(f, v, n, t)
    \/ \E f \in File : \E n \in 1..Len(view[Ino[f]]) : Read(f, n)
    \/ \E i \in Inode : Truncate(i) \/ Forget(i)
    \/ Commit
    \/ Crash

Spec == Init /\ [][Next]_vars
====
