------------------------------- MODULE Files -------------------------------
(***************************************************************************)
(* Descriptors and open files: the ftable of kernel/file.c, the ofile[] of *)
(* processes with the system calls of kernel/sysfile.c on them, and pipes  *)
(* as kernel/pipe.c allocates and closes them.                             *)
(*                                                                         *)
(* ofile[] belongs to one process, so a step that only touches it is made  *)
(* with the next step that takes ftable.lock.  Reading and writing a pipe  *)
(* are atomic here (Pipe has their detail), and so is an open file's i/o   *)
(* (FileData).                                                             *)
(***************************************************************************)
EXTENDS Integers, Sequences, FiniteSetsExt

CONSTANTS
    Proc,
    Name,           \* names of files on disk
    PIPESIZE

VARIABLES
    lim,            \* NFILE, NOFILE, pages for pipes and the size of proc[]
    ftable,         \* open files
    ofile,          \* descriptors of each process; 0 is none
    pipes,          \* pipes, with the page they live in
    files           \* contents of files on disk, or NoFile

fileVars == <<lim, ftable, ofile, pipes, files>>

NoFile == <<"no file">>
FreeEntry == [ref |-> 0, type |-> "none", pipe |-> 0, name |-> <<>>, rd |-> FALSE, wr |-> FALSE,
              off |-> 0]
console == <<"console">>
FreePipe == [ropen |-> FALSE, wopen |-> FALSE, data |-> <<>>]

Files == 1..lim.nfile
Fds == 0..(lim.nofile - 1)
Pipes == 1..lim.npipe

\* filealloc() and fdalloc() take the first free place.
FreeFiles == {f \in Files : ftable[f].ref = 0}
Filealloc == Min(FreeFiles)

FreeFds(p) == {fd \in Fds : ofile[p][fd] = 0}
Fdalloc(p) == Min(FreeFds(p))

FileOf(p, fd) == IF fd \in Fds THEN ofile[p][fd] ELSE 0

\* The first half of fileclose(f), on the table t.
Unref(t, f) == IF t[f].ref > 1 THEN [t EXCEPT ![f].ref = @ - 1]
                               ELSE [t EXCEPT ![f] = FreeEntry]

\* The second half, with the copy ff: what is left to do for a pipe.
Closing(f) ==
    IF ftable[f].ref = 1 /\ ftable[f].type = "pipe"
    THEN <<<<"pipeclose", ftable[f].pipe, ftable[f].wr>>>> ELSE <<>>

\* pipeclose()
PipeClosed(pi, writable) ==
    LET q == IF writable THEN [pipes[pi] EXCEPT !.wopen = FALSE]
                         ELSE [pipes[pi] EXCEPT !.ropen = FALSE]
    IN [pipes EXCEPT ![pi] = IF q.ropen \/ q.wopen THEN q ELSE FreePipe]

FreePages == {pi \in Pipes : ~pipes[pi].ropen /\ ~pipes[pi].wopen}

\* pipealloc() once it has two files and a page.
PipeMade(rf, wf, pi) ==
    /\ pipes' = [pipes EXCEPT ![pi] = [ropen |-> TRUE, wopen |-> TRUE, data |-> <<>>]]
    /\ ftable' = [ftable EXCEPT
         ![rf] = [@ EXCEPT !.type = "pipe", !.pipe = pi, !.rd = TRUE, !.wr = FALSE],
         ![wf] = [@ EXCEPT !.type = "pipe", !.pipe = pi, !.rd = FALSE, !.wr = TRUE]]

\* sys_dup(), and the filedup() of all files in fork().
Duped(t, f) == [t EXCEPT ![f].ref = @ + 1]

ForkedTable(p) ==
    [f \in Files |-> [ftable[f] EXCEPT !.ref = @ + Cardinality({fd \in Fds : ofile[p][fd] = f})]]

\* sys_open(): it fails without the file (unless it creates it) and when
\* filealloc() or fdalloc() does.  A file made by O_CREATE then stays; the
\* entry of filealloc() is given back within the call.
Creates(mode) == mode \in {"create", "trunc"}

OpenFails(p, name, mode) ==
    \/ name # console /\ files[name] = NoFile /\ ~Creates(mode)
    \/ FreeFiles = {}
    \/ FreeFds(p) = {}

Created(name, mode) ==
    IF name # console /\ Creates(mode) /\ files[name] = NoFile
    THEN [files EXCEPT ![name] = <<>>] ELSE files

Truncated(name, mode) ==
    IF name # console /\ mode = "trunc" THEN [files EXCEPT ![name] = <<>>] ELSE files

Opened(name, mode) ==
    [FreeEntry EXCEPT !.ref = 1, !.type = IF name = console THEN "device" ELSE "inode",
                      !.name = name, !.rd = mode \in {"read", "rdwr"}, !.wr = mode # "read"]

\* The contents of c after bytes were written at offset off.
Overwrite(c, off, bytes) ==
    [x \in 1..Max({Len(c), off + Len(bytes)}) |->
        IF x \in (off + 1)..(off + Len(bytes)) THEN bytes[x - off] ELSE c[x]]

FilesInit ==
    LET start == [fd \in Fds |-> IF fd < 3 THEN 1 ELSE 0]
        none == [fd \in Fds |-> 0]
    IN /\ ofile = [p \in Proc |-> IF p \in {0, 1} THEN start ELSE none]
       /\ ftable = [f \in Files |-> IF f = 1 THEN [Opened(console, "rdwr") EXCEPT !.ref = 6]
                                             ELSE FreeEntry]
       /\ pipes = [pi \in Pipes |-> FreePipe]
       /\ files = [x \in Name |-> NoFile]
====
