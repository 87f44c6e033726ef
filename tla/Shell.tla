------------------------------- MODULE Shell -------------------------------
(***************************************************************************)
(* A session at the console: keys typed, consoleread(), the shell's loop   *)
(* (user/sh.c), the processes runcmd() forks for a command line with their *)
(* descriptors and pipes, echo and cat, and the bytes that come out of the *)
(* UART.                                                                   *)
(*                                                                         *)
(* A process is the list of what it still does: system calls of sh.c,      *)
(* echo.c and cat.c, and inside the kernel the rest of a call that is made *)
(* of several steps.  A blocked call is one that is not enabled.           *)
(***************************************************************************)
EXTENDS Console, Files, ShParse, FiniteSets

CONSTANTS
    Scenarios,      \* what is typed, and the limits of the kernel
    NBUF            \* size of the shell's line buffer

M == INSTANCE ShSem

VARIABLES
    pr,             \* processes: state, parent, code, bytes read, p[]
    lines           \* lines the shell has taken

vars == <<consoleVars, fileVars, pr, lines>>

init == 0
sh == 1

Unused == [st |-> "unused", parent |-> 0, code |-> <<>>, buf |-> <<>>, v |-> <<-1, -1>>]

----------------------------------------------------------------------------
(* Programs                                                                *)

Complain == <<<<"write", 2, <<"!">>, <<>>>>, <<"exit">>>>

\* The cases of runcmd(); "write" and "open" carry what is done instead when
\* they fail.
\* A mutant: the left side of a list is not waited for.
ListCodeNoWait(c) == <<<<"fork", <<<<"run", c.left>>>>>>, <<"run", c.right>>>>

ListCode(c) == <<<<"fork", <<<<"run", c.left>>>>>>, <<"wait">>, <<"run", c.right>>>>

\* What a side of a pipeline does first: end x of the pipe becomes descriptor fd.
SideCode(fd, x, c) ==
    <<<<"close", fd>>, <<"dup", x>>, <<"closep", 1>>, <<"closep", 2>>, <<"run", c>>>>

\* A mutant: the parent keeps the write end.
PipeCodeKeepsEnd(c) ==
    <<<<"pipe">>, <<"fork", SideCode(1, 2, c.left)>>, <<"fork", SideCode(0, 1, c.right)>>,
      <<"closep", 1>>, <<"wait">>, <<"wait">>, <<"exit">>>>

PipeCode(c) ==
    <<<<"pipe">>, <<"fork", SideCode(1, 2, c.left)>>, <<"fork", SideCode(0, 1, c.right)>>,
      <<"closep", 1>>, <<"closep", 2>>, <<"wait">>, <<"wait">>, <<"exit">>>>

Code(c) ==
    CASE c.type = "EXEC"  -> IF c.argv = <<>> THEN <<<<"exit">>>> ELSE <<<<"exec", c.argv>>>>
      [] c.type = "REDIR" -> <<<<"close", c.fd>>, <<"open", c.file, c.mode, Complain>>, <<"run", c.cmd>>>>
      [] c.type = "LIST"  -> ListCode(c)
      [] c.type = "PIPE"  -> PipeCode(c)
      [] c.type = "BACK"  -> <<<<"fork", <<<<"run", c.cmd>>>>>>, <<"exit">>>>
      [] c.type = "panic" -> Complain

\* runcmd() called at the end of a list of things to do.
Expand(code) == IF code # <<>> /\ Head(code)[1] = "run" THEN Code(Head(code)[2]) ELSE code

\* main(): the prompt of getcmd(), and what is done with a line.
Prompt == <<<<"write", 2, <<"$">>, <<>>>>, <<"gets">>>>

IsCd(buf) == Len(buf) >= 3 /\ SubSeq(buf, 1, 3) = <<"c", "d", " ">>

Command(buf) ==
    CASE buf = <<>>             -> <<<<"exit">>>>
      [] buf # <<>> /\ IsCd(buf) -> <<Head(Complain)>> \o Prompt
      [] OTHER                  -> <<<<"fork", Code(parsecmd(buf))>>, <<"wait">>>> \o Prompt

Main == <<<<"open", console, "rdwr", Prompt>>, <<"closep", 1>>>> \o Prompt

\* echo: each argument and what separates it from the next.
EchoCode(argv) ==
    FlattenSeq([x \in 1..(Len(argv) - 1) |->
        <<<<"write", 1, argv[x + 1], <<>>>>,
          <<"write", 1, <<IF x + 1 < Len(argv) THEN " " ELSE "nl">>, <<>>>>>>])
    \o <<<<"exit">>>>

\* cat: descriptor 0, or each file in turn, whose descriptor open() leaves in p[0].
CatCode(argv) ==
    IF Len(argv) = 1 THEN <<<<"cat", 0>>, <<"exit">>>>
    ELSE FlattenSeq([x \in 1..(Len(argv) - 1) |->
             <<<<"open", argv[x + 1], "read", Complain>>, <<"cat", -1>>, <<"closep", 1>>>>])
         \o <<<<"exit">>>>

Program(argv) ==
    CASE argv[1] = M!Echo -> EchoCode(argv)
      [] argv[1] = M!Cat  -> CatCode(argv)
      [] OTHER            -> Complain

----------------------------------------------------------------------------
(* Steps of a process                                                      *)

Does(p, op) == pr[p].st = "run" /\ pr[p].code # <<>> /\ Head(pr[p].code)[1] = op
Arg(p, x) == Head(pr[p].code)[x]

\* The current call is over; more comes before what was to be done after it.
Continue(p, more) == pr' = [pr EXCEPT ![p].code = Expand(more \o Tail(@))]
Replace(p, code) == pr' = [pr EXCEPT ![p].code = code]

\* sys_close(): the descriptor, then fileclose().
CloseFd(p, fd, rest) ==
    LET f == FileOf(p, fd)
    IN IF f = 0
       THEN Replace(p, Expand(rest)) /\ UNCHANGED <<ofile, ftable>>
       ELSE /\ ofile' = [ofile EXCEPT ![p][fd] = 0]
            /\ ftable' = Unref(ftable, f)
            /\ Replace(p, Expand(Closing(f) \o rest))

Close(p) ==
    /\ \/ Does(p, "close") /\ CloseFd(p, Arg(p, 2), Tail(pr[p].code))
       \/ Does(p, "closep") /\ CloseFd(p, pr[p].v[Arg(p, 2)], Tail(pr[p].code))
    /\ UNCHANGED <<consoleVars, lim, pipes, files, lines>>

Fileclose(p) ==
    /\ Does(p, "fileclose")
    /\ ftable' = Unref(ftable, Arg(p, 2))
    /\ Continue(p, Closing(Arg(p, 2)))
    /\ UNCHANGED <<consoleVars, lim, ofile, pipes, files, lines>>

Pipeclose(p) ==
    /\ Does(p, "pipeclose")
    /\ pipes' = PipeClosed(Arg(p, 2), Arg(p, 3))
    /\ Continue(p, <<>>)
    /\ UNCHANGED <<consoleVars, lim, ofile, ftable, files, lines>>

Dup(p) ==
    /\ Does(p, "dup")
    /\ LET f == FileOf(p, pr[p].v[Arg(p, 2)])
       IN IF f = 0 \/ FreeFds(p) = {} THEN UNCHANGED <<ofile, ftable>>
          ELSE /\ ofile' = [ofile EXCEPT ![p][Fdalloc(p)] = f]
               /\ ftable' = Duped(ftable, f)
    /\ Continue(p, <<>>)
    /\ UNCHANGED <<consoleVars, lim, pipes, files, lines>>

Open(p) ==
    /\ Does(p, "open") /\ ~OpenFails(p, Arg(p, 2), Arg(p, 3))
    /\ ftable' = [ftable EXCEPT ![Filealloc] = Opened(Arg(p, 2), Arg(p, 3))]
    /\ ofile' = [ofile EXCEPT ![p][Fdalloc(p)] = Filealloc]
    /\ files' = IF Arg(p, 3) = "trunc" THEN Truncated(Arg(p, 2), "trunc") ELSE Created(Arg(p, 2), Arg(p, 3))
    /\ pr' = [pr EXCEPT ![p].v[1] = Fdalloc(p), ![p].code = Expand(Tail(@))]
    /\ UNCHANGED <<consoleVars, lim, pipes, lines>>

OpenError(p) ==
    /\ Does(p, "open") /\ OpenFails(p, Arg(p, 2), Arg(p, 3))
    /\ files' = Created(Arg(p, 2), Arg(p, 3))
    /\ Replace(p, Arg(p, 4))
    /\ UNCHANGED <<consoleVars, lim, ofile, ftable, pipes, lines>>

\* sys_pipe() and pipealloc(), one resource after the other.
Pipe(p) ==
    /\ Does(p, "pipe")
    /\ IF FreeFiles = {} THEN Replace(p, Complain) /\ UNCHANGED ftable
       ELSE /\ ftable' = [ftable EXCEPT ![Filealloc].ref = 1]
            /\ Replace(p, <<<<"pipe2", Filealloc>>>> \o Tail(pr[p].code))
    /\ UNCHANGED <<consoleVars, lim, ofile, pipes, files, lines>>

Pipe2(p) ==
    /\ Does(p, "pipe2")
    /\ IF FreeFiles = {} THEN Replace(p, <<<<"fileclose", Arg(p, 2)>>>> \o Complain) /\ UNCHANGED ftable
       ELSE /\ ftable' = [ftable EXCEPT ![Filealloc].ref = 1]
            /\ Replace(p, <<<<"pipe3", Arg(p, 2), Filealloc>>>> \o Tail(pr[p].code))
    /\ UNCHANGED <<consoleVars, lim, ofile, pipes, files, lines>>

CloseBoth(rf, wf) == <<<<"fileclose", rf>>, <<"fileclose", wf>>>> \o Complain

Pipe3(p) ==
    /\ Does(p, "pipe3")
    /\ LET rf == Arg(p, 2)
           wf == Arg(p, 3)
       IN IF FreePages = {} THEN Replace(p, CloseBoth(rf, wf)) /\ UNCHANGED <<ftable, pipes>>
          ELSE /\ PipeMade(rf, wf, Min(FreePages))
               /\ Replace(p, <<<<"pipe4", rf, wf>>>> \o Tail(pr[p].code))
    /\ UNCHANGED <<consoleVars, lim, ofile, files, lines>>

\* fdalloc() twice and copyout() of both numbers.
PipeFds(p) ==
    /\ Does(p, "pipe4") /\ Cardinality(FreeFds(p)) > 1
    /\ LET fd0 == Fdalloc(p)
           fd1 == Min(FreeFds(p) \ {fd0})
       IN /\ ofile' = [ofile EXCEPT ![p][fd0] = Arg(p, 2), ![p][fd1] = Arg(p, 3)]
          /\ pr' = [pr EXCEPT ![p].v = <<fd0, fd1>>, ![p].code = Tail(@)]
    /\ UNCHANGED <<consoleVars, lim, ftable, pipes, files, lines>>

\* A mutant: the error path forgets the write end.
PipeFdsFailForgets(p) ==
    /\ Does(p, "pipe4") /\ (Cardinality(FreeFds(p)) < 2 \/ lim.faults)
    /\ Replace(p, <<<<"fileclose", Arg(p, 2)>>>> \o Complain)
    /\ UNCHANGED <<consoleVars, fileVars, lines>>

\* Too few descriptors or a failing copyout(): what was taken is given back.
PipeFdsFail(p) ==
    /\ Does(p, "pipe4") /\ (Cardinality(FreeFds(p)) < 2 \/ lim.faults)
    /\ Replace(p, CloseBoth(Arg(p, 2), Arg(p, 3)))
    /\ UNCHANGED <<consoleVars, fileVars, lines>>

FreeProcs == {q \in Proc : q > sh /\ q <= lim.nproc /\ pr[q].st = "unused"}

Fork(p) ==
    /\ Does(p, "fork")
    /\ IF FreeProcs = {} THEN Replace(p, Complain) /\ UNCHANGED <<ofile, ftable>>
       ELSE LET q == Min(FreeProcs)
            IN /\ ofile' = [ofile EXCEPT ![q] = ofile[p]]
               /\ ftable' = ForkedTable(p)
               /\ pr' = [pr EXCEPT
                    ![p].code = Expand(Tail(@)),
                    ![q] = [Unused EXCEPT !.st = "run", !.parent = p, !.v = pr[p].v, !.code = Expand(Arg(p, 2))]]
    /\ UNCHANGED <<consoleVars, lim, pipes, files, lines>>

Children(p) == {q \in Proc : pr[q].st # "unused" /\ pr[q].parent = p}

\* wait() reaps a child, or returns at once without children.
Wait(p) ==
    /\ Does(p, "wait")
    /\ \/ Children(p) = {} /\ Continue(p, <<>>)
       \/ \E q \in Children(p) :
            /\ pr[q].st = "zombie"
            /\ pr' = [pr EXCEPT ![q] = Unused, ![p].code = Expand(Tail(@))]
    /\ UNCHANGED <<consoleVars, fileVars, lines>>

Exec(p) ==
    /\ Does(p, "exec")
    /\ pr' = [pr EXCEPT ![p].code = Program(Arg(p, 2)), ![p].v = Unused.v]
    /\ UNCHANGED <<consoleVars, fileVars, lines>>

\* exit(): the open files one by one, then children go to init.
ExitClose(p) ==
    /\ Does(p, "exit") /\ \E fd \in Fds : ofile[p][fd] # 0
    /\ CloseFd(p, Min({fd \in Fds : ofile[p][fd] # 0}), pr[p].code)
    /\ UNCHANGED <<consoleVars, lim, pipes, files, lines>>

Exit(p) ==
    /\ Does(p, "exit") /\ \A fd \in Fds : ofile[p][fd] = 0
    /\ pr' = [q \in Proc |->
                IF q = p THEN [Unused EXCEPT !.st = "zombie", !.parent = pr[p].parent]
                ELSE IF q \in Children(p) THEN [pr[q] EXCEPT !.parent = init] ELSE pr[q]]
    /\ UNCHANGED <<consoleVars, fileVars, lines>>

InitReaps(q) ==
    /\ pr[q].st = "zombie" /\ pr[q].parent = init
    /\ pr' = [pr EXCEPT ![q] = Unused]
    /\ UNCHANGED <<consoleVars, fileVars, lines>>

----------------------------------------------------------------------------
(* write() and read()                                                      *)

\* The file a write of p goes to, if it may.
Target(p) ==
    LET f == FileOf(p, Arg(p, 2))
    IN IF f # 0 /\ ftable[f].wr THEN ftable[f] ELSE FreeEntry

\* The rest of a write after m bytes.
Wrote(p, m) ==
    IF m = Len(Arg(p, 3)) THEN Continue(p, <<>>)
    ELSE Replace(p, <<<<"write", Arg(p, 2), SubSeq(Arg(p, 3), m + 1, Len(Arg(p, 3))), Arg(p, 4)>>>>
                    \o Tail(pr[p].code))

\* consolewrite(): uartputc() of the next byte.
WriteConsole(p) ==
    /\ Does(p, "write") /\ Target(p).type = "device"
    /\ ~UartFull
    /\ Uartputc(Head(Arg(p, 3)))
    /\ Wrote(p, 1)
    /\ UNCHANGED <<keys, cons, fileVars, lines>>

\* filewrite() at the offset that all who share the open file move.
WriteFile(p) ==
    /\ Does(p, "write") /\ Target(p).type = "inode"
    /\ LET f == FileOf(p, Arg(p, 2))
           name == ftable[f].name
       IN /\ files' = [files EXCEPT ![name] = Overwrite(@, ftable[f].off, Arg(p, 3))]
          /\ ftable' = [ftable EXCEPT ![f].off = @ + Len(Arg(p, 3))]
    /\ Continue(p, <<>>)
    /\ UNCHANGED <<consoleVars, lim, ofile, pipes, lines>>

\* pipewrite() puts in what fits and sleeps while the pipe is full.
WritePipe(p) ==
    /\ Does(p, "write") /\ Target(p).type = "pipe" /\ pipes[Target(p).pipe].ropen
    /\ LET pi == Target(p).pipe
           m == Min({Len(Arg(p, 3)), PIPESIZE - Len(pipes[pi].data)})
       IN /\ m > 0
          /\ pipes' = [pipes EXCEPT ![pi].data = @ \o SubSeq(Arg(p, 3), 1, m)]
          /\ Wrote(p, m)
    /\ UNCHANGED <<consoleVars, lim, ofile, ftable, files, lines>>

\* No such descriptor, not writable, or a pipe without reader.
WriteFails(p) ==
    /\ Does(p, "write")
    /\ \/ Target(p).type = "none"
       \/ Target(p).type = "pipe" /\ ~pipes[Target(p).pipe].ropen
    /\ IF Arg(p, 4) = <<>> THEN Continue(p, <<>>) ELSE Replace(p, Arg(p, 4))
    /\ UNCHANGED <<consoleVars, fileVars, lines>>

CatFd(p) == IF Arg(p, 2) = -1 THEN pr[p].v[1] ELSE Arg(p, 2)

Source(p) ==
    LET f == FileOf(p, CatFd(p))
    IN IF f # 0 /\ ftable[f].rd THEN ftable[f] ELSE FreeEntry

\* cat() has read some bytes, or none and stops.  Its input can be read: the
\* shell opens descriptor 0 for reading only, or for both at the start.
CatGot(p, bytes) ==
    pr' = [pr EXCEPT ![p].buf = <<>>,
                     ![p].code = IF bytes = <<>> THEN Tail(@)
                                 ELSE <<<<"write", 1, bytes, Complain>>>> \o @]

ReadFile(p) ==
    /\ Does(p, "cat") /\ Source(p).type = "inode"
    /\ LET f == FileOf(p, CatFd(p))
           c == files[ftable[f].name]
       IN /\ CatGot(p, SubSeq(c, ftable[f].off + 1, Len(c)))
          /\ ftable' = [ftable EXCEPT ![f].off = Max({@, Len(c)})]
    /\ UNCHANGED <<consoleVars, lim, ofile, pipes, files, lines>>

\* piperead() waits while the pipe is empty and somebody can still write.
ReadPipe(p) ==
    /\ Does(p, "cat") /\ Source(p).type = "pipe"
    /\ LET pi == Source(p).pipe
       IN /\ pipes[pi].data # <<>> \/ ~pipes[pi].wopen
          /\ CatGot(p, pipes[pi].data)
          /\ pipes' = [pipes EXCEPT ![pi].data = <<>>]
    /\ UNCHANGED <<consoleVars, lim, ofile, ftable, files, lines>>

\* consoleread() for cat: to the end of the line; pr[p].buf is what it has.
ReadConsole(p) ==
    /\ Does(p, "cat") /\ Source(p).type = "device"
    /\ cons.r # cons.w
    /\ LET take == Takes(INPUT_BUF_SIZE)
           ret == Returned(pr[p].buf, take)
       IN IF Last(take) \in Ends
          THEN CatGot(p, ret.bytes) /\ cons' = [cons EXCEPT !.r = (@ + ret.used) % UINT]
          ELSE /\ pr' = [pr EXCEPT ![p].buf = @ \o take]
               /\ cons' = [cons EXCEPT !.r = (@ + Len(take)) % UINT]
    /\ UNCHANGED <<keys, uart, fileVars, lines>>

\* gets() of the shell: one byte at a time from the console.
Gets(p) ==
    /\ Does(p, "gets")
    /\ cons.r # cons.w
    /\ LET ret == Returned(<<>>, Takes(1))
           buf == pr[p].buf \o ret.bytes
       IN /\ cons' = [cons EXCEPT !.r = (@ + ret.used) % UINT]
          /\ IF ret.bytes = <<>> \/ ret.bytes = <<"nl">> \/ Len(buf) = NBUF - 1
             THEN /\ pr' = [pr EXCEPT ![p].buf = <<>>, ![p].code = Command(buf)]
                  /\ lines' = lines + 1
             ELSE /\ pr' = [pr EXCEPT ![p].buf = buf]
                  /\ UNCHANGED lines
    /\ UNCHANGED <<keys, uart, fileVars>>

----------------------------------------------------------------------------

Init ==
    /\ lim \in Scenarios
    /\ keys = lim.keys
    /\ ConsoleInit
    /\ FilesInit
    /\ pr = [p \in Proc |->
               CASE p = init -> [Unused EXCEPT !.st = "init"]
                 [] p = sh   -> [Unused EXCEPT !.st = "run", !.code = Main]
                 [] OTHER    -> Unused]
    /\ lines = 0

Key == Keystroke /\ UNCHANGED <<fileVars, pr, lines>>
Sent == ThrEmpties /\ UNCHANGED <<fileVars, pr, lines>>
Interrupt == Uartintr /\ UNCHANGED <<fileVars, pr, lines>>

Step(p) ==
    \/ Close(p) \/ Fileclose(p) \/ Pipeclose(p) \/ Dup(p) \/ Open(p) \/ OpenError(p)
    \/ Pipe(p) \/ Pipe2(p) \/ Pipe3(p) \/ PipeFds(p) \/ PipeFdsFail(p)
    \/ Fork(p) \/ Wait(p) \/ Exec(p) \/ ExitClose(p) \/ Exit(p) \/ InitReaps(p)
    \/ WriteConsole(p) \/ WriteFile(p) \/ WritePipe(p) \/ WriteFails(p)
    \/ ReadFile(p) \/ ReadPipe(p) \/ ReadConsole(p) \/ Gets(p)

Next == Key \/ Sent \/ Interrupt \/ \E p \in Proc : Step(p)

\* As long as something can happen something does: less than what the scheduler
\* gives (Sched), the UART's interrupts, and a user who types what is to come.
Fairness == WF_vars(Next)

Spec == Init /\ [][Next]_vars /\ Fairness

----------------------------------------------------------------------------
(* Properties                                                              *)

\* References to open file f that are in no descriptor: sys_pipe() between its
\* steps and closes still to come.
InHand(f) ==
    MapThenSumSet(LAMBDA p :
        LET Holds(x) == Len(SelectSeq(pr[p].code, LAMBDA i :
                          /\ i[1] \in {"fileclose", "pipe2", "pipe3", "pipe4"}
                          /\ Len(i) >= x /\ i[x] = f))
        IN Holds(2) + Holds(3), Proc)

InFds(f) == Cardinality({<<p, fd>> \in Proc \X Fds : ofile[p][fd] = f})

\* Somebody can still use this end of pipe pi, or is about to close it.
EndHeld(pi, writable) ==
    \/ \E f \in Files : ftable[f].type = "pipe" /\ ftable[f].pipe = pi /\ ftable[f].wr = writable
    \/ \E p \in Proc : \E x \in DOMAIN pr[p].code : pr[p].code[x] = <<"pipeclose", pi, writable>>

\* The reference count of an open file is the number of descriptors and of
\* system calls that hold it, and an end of a pipe is open exactly as long as
\* an open file stands for it: nothing is leaked and nothing closed early by
\* fork, dup, exit and every way sys_pipe() can fail.  At the prompt, with no
\* command running, the shell is left with the console and no pipe.
FilesExact ==
    /\ \A f \in Files : ftable[f].ref = InFds(f) + InHand(f)
    /\ \A pi \in Pipes : /\ pipes[pi].ropen = EndHeld(pi, FALSE)
                         /\ pipes[pi].wopen = EndHeld(pi, TRUE)
    /\ (Does(sh, "gets") /\ \A q \in Proc \ {init, sh} : pr[q].st = "unused") =>
         \A f \in Files : ftable[f].ref = IF f = 1 THEN 6 ELSE 0

Quiet == Does(sh, "gets") /\ pr[sh].buf = <<>> /\ \A q \in Proc \ {init, sh} : pr[q].st = "unused"

\* The shell does what was typed: when it waits for its next line, everything
\* the commands before should have printed has been, in order and once, and
\* the files hold what they should (ShSem), whatever the interleaving of the
\* processes of a pipeline, of keys typed ahead and of output interrupts.
RunsAsTyped ==
    (lim.cmds # <<>> /\ Quiet /\ lines <= Len(lim.cmds)) =>
        LET w == M!Session(lim.cmds, lines)
        IN /\ uart.out \o uart.tx = w.place[1].text
           /\ \A x \in Name : files[x] = IF x \in DOMAIN w.files THEN w.files[x] ELSE NoFile

\* The shell always comes back to read a line, or ends: no pipeline waits for
\* an end of file that cannot come, no error path leaves a process waiting.
PromptReturns == []<>(Does(sh, "gets") \/ pr[sh].st # "run")
====
