------------------------------- MODULE ShSem -------------------------------
(***************************************************************************)
(* What a command line means, independently of processes and descriptors:  *)
(* how a command is written, and what running it does to the files and     *)
(* prints, one stage after the other.                                      *)
(***************************************************************************)
EXTENDS Integers, Sequences, FiniteSetsExt, SequencesExt

Echo == <<"e">>
Cat == <<"c">>

----------------------------------------------------------------------------
(* Writing a command down, with as few parentheses as needed               *)

Sign(mode) == CASE mode = "read" -> <<"<">> [] mode = "trunc" -> <<">">> [] mode = "create" -> <<">", ">">>
Words(argv) == FoldLeft(LAMBDA text, w : text \o (IF text = <<>> THEN w ELSE <<" ">> \o w), <<>>, argv)
Block(text) == <<"(">> \o text \o <<")">>

RECURSIVE Unparse(_)
Unparse(c) ==
    LET Inner(d, types) == IF d.type \in types THEN Block(Unparse(d)) ELSE Unparse(d)
    IN CASE c.type = "EXEC"  -> Words(c.argv)
         [] c.type = "REDIR" -> Inner(c.cmd, {"PIPE", "LIST", "BACK"}) \o Sign(c.mode) \o c.file
         [] c.type = "PIPE"  -> Inner(c.left, {"PIPE", "LIST", "BACK"}) \o <<"|">>
                                  \o Inner(c.right, {"LIST", "BACK"})
         [] c.type = "LIST"  -> Inner(c.left, {"LIST"}) \o <<";">> \o Unparse(c.right)
         [] c.type = "BACK"  -> Inner(c.cmd, {"LIST"}) \o <<"&">>

----------------------------------------------------------------------------
(* Running a command                                                       *)

\* A place to read from and write to: the terminal, a pipe or an open file,
\* which keeps its position for all that share it.
Terminal == [kind |-> "tty", text |-> <<>>, off |-> 0]

\* A world: the files, and the places opened so far; place 1 is the terminal.
World(files) == [files |-> files, place |-> <<Terminal>>]

Overwritten(c, off, text) ==
    SubSeq(c, 1, off) \o text \o SubSeq(c, off + Len(text) + 1, Len(c))

Put(w, o, text) ==
    LET d == w.place[o]
    IN IF d.kind = "file"
       THEN [w EXCEPT !.files[d.text] = Overwritten(@, d.off, text),
                      !.place[o].off = @ + Len(text)]
       ELSE [w EXCEPT !.place[o].text = @ \o text]

\* The rest of a place, and the world when it has been read.
Rest(w, i) ==
    LET d == w.place[i]
    IN IF d.kind = "file" THEN SubSeq(w.files[d.text], d.off + 1, Len(w.files[d.text])) ELSE d.text

Drained(w, i) ==
    LET d == w.place[i]
    IN IF d.kind = "file" THEN [w EXCEPT !.place[i].off = Len(w.files[d.text])]
                          ELSE [w EXCEPT !.place[i].text = <<>>]

Open(w, kind, text) == [w EXCEPT !.place = Append(@, [kind |-> kind, text |-> text, off |-> 0])]

\* A redirection that creates or empties its file.
Prepared(w, c) ==
    IF c.mode = "trunc" \/ (c.mode = "create" /\ c.file \notin DOMAIN w.files)
    THEN [w EXCEPT !.files = [x \in DOMAIN @ \cup {c.file} |-> IF x = c.file THEN <<>> ELSE @[x]]]
    ELSE w

\* c run with places i and o for input and output.
RECURSIVE Run(_, _, _, _)
Run(c, i, o, w) ==
    LET new == Len(w.place) + 1
    IN CASE c.type = "EXEC" /\ c.argv = <<Echo>> -> w
         [] c.type = "EXEC" /\ c.argv # <<Echo>> /\ c.argv[1] = Echo ->
                Put(w, o, Append(Words(Tail(c.argv)), "nl"))
         [] c.type = "EXEC" /\ c.argv = <<Cat>> -> Put(Drained(w, i), o, Rest(w, i))
         [] c.type = "EXEC" /\ c.argv # <<Cat>> /\ c.argv[1] = Cat ->
                Put(w, o, FlattenSeq([x \in 1..(Len(c.argv) - 1) |-> w.files[c.argv[x + 1]]]))
         [] c.type = "REDIR" ->
                LET w2 == Open(Prepared(w, c), "file", c.file)
                IN IF c.fd = 0 THEN Run(c.cmd, new, o, w2) ELSE Run(c.cmd, i, new, w2)
         [] c.type = "LIST" -> Run(c.right, i, o, Run(c.left, i, o, w))
         [] c.type = "PIPE" -> Run(c.right, new, o, Run(c.left, i, new, Open(w, "pipe", <<>>)))

\* A session: after each prompt one command.
RECURSIVE Session(_, _)
Session(cmds, n) ==
    IF n = 0 THEN Put(World(<<>>), 1, <<"$">>)
    ELSE LET w == Session(cmds, n - 1)
         IN Put(Run(cmds[n], 1, 1, w), 1, <<"$">>)
====
