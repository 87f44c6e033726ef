------------------------------ MODULE Console ------------------------------
(***************************************************************************)
(* The console of kernel/console.c and the UART below it, kernel/uart.c:   *)
(* the ring of input with its read, write and edit index, and the transmit *)
(* buffer that uartputc() fills and interrupts drain.                      *)
(*                                                                         *)
(* What cons.lock and uart_tx_lock protect is done in one step.  A sleep() *)
(* is the guard it waits for; that no wakeup is lost is Sched's subject.   *)
(***************************************************************************)
EXTENDS Integers, Sequences, FiniteSetsExt, SequencesExt

CONSTANTS
    Char,               \* the characters that can be typed
    INPUT_BUF_SIZE,
    UINT,               \* 2^32: indices wrap; a multiple of INPUT_BUF_SIZE
    Before,             \* how many empty lines were typed and read before
    UART_TX_BUF_SIZE

ASSUME ConsoleAssumption ==
    /\ INPUT_BUF_SIZE \in Nat \ {0} /\ UART_TX_BUF_SIZE \in Nat \ {0}
    /\ UINT > INPUT_BUF_SIZE /\ UINT % INPUT_BUF_SIZE = 0 /\ Before \in 0..(UINT - 1)

VARIABLES
    keys,       \* what the user is still going to type
    cons,       \* buf and the indices r, w and e
    uart        \* transmit buffer, THR in use, interrupt pending, bytes sent

consoleVars == <<keys, cons, uart>>

Ends == {"nl", "^D"}
Erasers == {"^H", "^U"}

\* The console has been in use: the indices are anywhere in their range.
ConsoleInit ==
    /\ cons = [buf |-> [x \in 0..(INPUT_BUF_SIZE - 1) |-> "nl"],
               r |-> Before, w |-> Before, e |-> Before]
    /\ uart = [tx |-> <<>>, busy |-> FALSE, irq |-> FALSE, out |-> <<>>]

----------------------------------------------------------------------------
(* Input                                                                   *)

Minus(a, b) == (a - b) % UINT
Slot(x) == cons.buf[x % INPUT_BUF_SIZE]

\* The text between two indices.
Text(from, to) == [x \in 1..Minus(to, from) |-> Slot(from + x - 1)]

\* The default case of consoleintr(); a full buffer drops the character.
Accepts == Minus(cons.e, cons.r) < INPUT_BUF_SIZE

Store(c) ==
    LET e == (cons.e + 1) % UINT
        ready == c \in Ends \/ Minus(e, cons.r) = INPUT_BUF_SIZE
    IN [cons EXCEPT !.buf[cons.e % INPUT_BUF_SIZE] = c,
                    !.e = e, !.w = IF ready THEN e ELSE @]

\* A mutant: erasing is stopped by the read index only.
BackspacePastLine == IF cons.e # cons.r THEN [cons EXCEPT !.e = Minus(@, 1)] ELSE cons

Backspace == IF cons.e # cons.w THEN [cons EXCEPT !.e = Minus(@, 1)] ELSE cons

\* Control-U: back to w, or to the end of a line before that.
KillLine ==
    LET stops == {n \in 0..Minus(cons.e, cons.w) :
                    n = Minus(cons.e, cons.w) \/ Slot(cons.e - n - 1) = "nl"}
    IN [cons EXCEPT !.e = Minus(@, Min(stops))]

Edited(c) ==
    CASE c = "^U"  -> KillLine
      [] c = "^H"  -> Backspace
      [] OTHER     -> IF Accepts THEN Store(c) ELSE cons

\* consoleread() with n bytes still to read, when r # w: the bytes it takes
\* before it returns or has to sleep again.
Takes(n) ==
    LET text == Text(cons.r, cons.w)
        ends == {x \in 1..Len(text) : text[x] \in Ends}
    IN SubSeq(text, 1, Min(ends \cup {n, Len(text)}))

\* A control-D ends the read; it stays in the buffer when bytes came before
\* it, for the next read to return 0.
Returned(got, take) ==
    LET bytes == IF Last(take) = "^D" THEN SubSeq(take, 1, Len(take) - 1) ELSE take
        keeps == Last(take) = "^D" /\ got \o bytes # <<>>
    IN [bytes |-> got \o bytes,
        used |-> IF keeps THEN Len(take) - 1 ELSE Len(take)]

----------------------------------------------------------------------------
(* Output                                                                  *)

\* uartstart(), whose loop ends with the first byte it writes to THR.
Uartstart(u) ==
    IF u.tx # <<>> /\ ~u.busy
    THEN [u EXCEPT !.tx = Tail(@), !.busy = TRUE, !.out = Append(@, Head(u.tx))]
    ELSE u

\* uartputc() sleeps while the buffer is full.
UartFull == Len(uart.tx) = UART_TX_BUF_SIZE
Uartputc(c) == uart' = Uartstart([uart EXCEPT !.tx = Append(@, c)])

\* The device has sent the byte in THR; uartintr() answers the interrupt.
ThrEmpties ==
    /\ uart.busy
    /\ uart' = [uart EXCEPT !.busy = FALSE, !.irq = TRUE]
    /\ UNCHANGED <<keys, cons>>

Uartintr ==
    /\ uart.irq
    /\ uart' = Uartstart([uart EXCEPT !.irq = FALSE])
    /\ UNCHANGED <<keys, cons>>

\* A key: uartintr(), uartgetc(), consoleintr() and, when the buffer changes,
\* the echo, for which uartputc_sync() spins until THR is empty.
Keystroke ==
    /\ keys # <<>>
    /\ keys' = Tail(keys)
    /\ cons' = Edited(Head(keys))
    /\ IF cons' = cons
       THEN uart' = Uartstart(uart)
       ELSE ~uart.busy /\ uart' = [uart EXCEPT !.busy = TRUE]

----------------------------------------------------------------------------
(* Properties                                                              *)

Input == INSTANCE LineInput WITH
    Size <- INPUT_BUF_SIZE,
    done <- Text(cons.r, cons.w), line <- Text(cons.w, cons.e)

\* The ring with its three wrapping indices is a text and the line being edited:
\* no erasure reaches text handed over, no reader sees a line before it is
\* ended, nothing is overwritten that was not read.
IsLineInput == Input!Spec
====
