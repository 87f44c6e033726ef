------------------------------ MODULE ShParse ------------------------------
(***************************************************************************)
(* The parser of user/sh.c: gettoken(), peek() and the recursive descent   *)
(* of parsecmd().  A position is an index into the line s; a parser gives  *)
(* the command and the position it stopped at, or Panic.  Words come out   *)
(* as the characters of the line they are, as nulterminate() leaves them.  *)
(***************************************************************************)
EXTENDS Integers, Sequences, FiniteSetsExt, SequencesExt

CONSTANT MAXARGS

Whitespace == {" ", "nl"}
Symbols == {"<", "|", ">", "&", ";", "(", ")"}

execcmd(argv) == [type |-> "EXEC", argv |-> argv]
redircmd(cmd, redir) == [type |-> "REDIR", cmd |-> cmd, file |-> redir.file,
                         mode |-> redir.mode, fd |-> redir.fd]
pipecmd(left, right) == [type |-> "PIPE", left |-> left, right |-> right]
listcmd(left, right) == [type |-> "LIST", left |-> left, right |-> right]
backcmd(cmd) == [type |-> "BACK", cmd |-> cmd]

Panic == [cmd |-> [type |-> "panic"], at |-> 0]
IsPanic(r) == r.at = 0
Got(cmd, at) == [cmd |-> cmd, at |-> at]

\* The first position from i on that is not in the set of characters.
SkipSet(s, i, set) == Min({j \in i..(Len(s) + 1) : j = Len(s) + 1 \/ s[j] \notin set})
Skip(s, i) == SkipSet(s, i, Whitespace)

peek(s, i, toks) == LET j == Skip(s, i) IN j <= Len(s) /\ s[j] \in toks

\* The token at i: its kind, its characters and the position after it.
gettoken(s, i) ==
    LET q == Skip(s, i)
        word == Min({j \in q..(Len(s) + 1) : j = Len(s) + 1 \/ s[j] \in Whitespace \cup Symbols})
        Token(kind, eq) == [kind |-> kind, text |-> SubSeq(s, q, eq - 1), at |-> Skip(s, eq)]
        doubled == q < Len(s) /\ SubSeq(s, q, q + 1) = <<">", ">">>
    IN CASE q > Len(s)                               -> Token("end", q)
         [] q <= Len(s) /\ doubled                   -> Token("+", q + 2)
         [] q <= Len(s) /\ ~doubled /\ s[q] \in Symbols -> Token(s[q], q + 1)
         [] OTHER                                    -> Token("a", word)

Redirection(kind, file) ==
    CASE kind = "<" -> [file |-> file, mode |-> "read", fd |-> 0]
      [] kind = ">" -> [file |-> file, mode |-> "trunc", fd |-> 1]
      [] kind = "+" -> [file |-> file, mode |-> "create", fd |-> 1]

\* F of what r gives, unless that is a panic.  (r is bound as a value, which
\* spares TLC evaluating it wherever F uses it.)
Then(r, F(_)) == CHOOSE x \in {IF IsPanic(v) THEN Panic ELSE F(v) : v \in {r}} : TRUE

\* parseredirs(): the redirections at i, in order.
RECURSIVE parseredirs(_, _, _)
parseredirs(s, i, redirs) ==
    IF ~peek(s, i, {"<", ">"}) THEN Got(redirs, i)
    ELSE Then(gettoken(s, i), LAMBDA tok :
         Then(gettoken(s, tok.at), LAMBDA file :
            IF file.kind # "a" THEN Panic
            ELSE parseredirs(s, file.at, Append(redirs, Redirection(tok.kind, file.text)))))

Wrap(cmd, redirs) == FoldLeft(redircmd, cmd, redirs)

\* The loop of parseexec(); redirections wrap the command in the order read,
\* whichever arguments come between them.
RECURSIVE parseargs(_, _, _, _)
parseargs(s, i, argv, redirs) ==
    Then(gettoken(s, i), LAMBDA tok :
        IF peek(s, i, {"|", ")", "&", ";"}) \/ tok.kind = "end"
        THEN Got(Wrap(execcmd(argv), redirs), Skip(s, i))
        ELSE IF tok.kind # "a" \/ Len(argv) + 1 >= MAXARGS THEN Panic
        ELSE Then(parseredirs(s, tok.at, redirs), LAMBDA more :
                parseargs(s, more.at, Append(argv, tok.text), more.cmd)))

RECURSIVE parseline(_, _)
RECURSIVE parsepipe(_, _)
RECURSIVE parseblock(_, _)

parseexec(s, i) ==
    IF peek(s, i, {"("}) THEN parseblock(s, i)
    ELSE Then(parseredirs(s, i, <<>>), LAMBDA first : parseargs(s, first.at, <<>>, first.cmd))

parseblock(s, i) ==
    Then(parseline(s, gettoken(s, i).at), LAMBDA inner :
        IF ~peek(s, inner.at, {")"}) THEN Panic
        ELSE Then(parseredirs(s, gettoken(s, inner.at).at, <<>>), LAMBDA redirs :
                Got(Wrap(inner.cmd, redirs.cmd), redirs.at)))

parsepipe(s, i) ==
    Then(parseexec(s, i), LAMBDA left :
        IF ~peek(s, left.at, {"|"}) THEN left
        ELSE Then(parsepipe(s, gettoken(s, left.at).at), LAMBDA right :
                Got(pipecmd(left.cmd, right.cmd), right.at)))

\* Any number of "&".
RECURSIVE parseback(_, _, _)
parseback(s, i, cmd) ==
    IF peek(s, i, {"&"}) THEN parseback(s, gettoken(s, i).at, backcmd(cmd)) ELSE Got(cmd, i)

parseline(s, i) ==
    Then(parsepipe(s, i), LAMBDA pipe :
    Then(parseback(s, pipe.at, pipe.cmd), LAMBDA back :
        IF ~peek(s, back.at, {";"}) THEN back
        ELSE Then(parseline(s, gettoken(s, back.at).at), LAMBDA right :
                Got(listcmd(back.cmd, right.cmd), right.at))))

\* parsecmd(): the whole line, or "leftovers" and "syntax".
parsecmd(line) ==
    CHOOSE cmd \in {Then(parseline(s, 1), LAMBDA r :
                       IF Skip(s, r.at) <= Len(s) THEN Panic ELSE r).cmd : s \in {line}} : TRUE
====
