----------------------------- MODULE LineInput -----------------------------
(***************************************************************************)
(* What the console promises those who read it: the text typed, with       *)
(* erasures applied to the line still being edited and to nothing before   *)
(* it.  A line is handed over when it is ended, or when the console holds  *)
(* Size characters; what is typed beyond that is lost.                     *)
(***************************************************************************)
EXTENDS Naturals, Sequences

CONSTANTS Char, Size

VARIABLES
    done,       \* text handed over and not read yet
    line        \* the line being edited

vars == <<done, line>>

Ends == {"nl", "^D"}

Init == done = <<>> /\ line = <<>>

Type(c) ==
    LET text == Append(line, c)
    IN /\ Len(done) + Len(line) < Size
       /\ IF c \in Ends \/ Len(done) + Len(text) = Size
          THEN done' = done \o text /\ line' = <<>>
          ELSE line' = text /\ UNCHANGED done

Erase ==
    /\ line # <<>>
    /\ line' = SubSeq(line, 1, Len(line) - 1)
    /\ UNCHANGED done

Kill ==
    /\ line # <<>>
    /\ line' = <<>>
    /\ UNCHANGED done

\* A reader takes text from the front, never past the end of a line.
Read(n) ==
    /\ n \in 1..Len(done)
    /\ \A i \in 1..(n - 1) : done[i] \notin Ends
    /\ done' = SubSeq(done, n + 1, Len(done))
    /\ UNCHANGED line

Next ==
    \/ \E c \in Char : Type(c)
    \/ Erase
    \/ Kill
    \/ \E n \in 1..Len(done) : Read(n)

Spec == Init /\ [][Next]_vars
====
