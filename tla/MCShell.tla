------------------------------ MODULE MCShell ------------------------------
EXTENDS Shell

Line(c) == M!Unparse(c) \o <<"nl">>
Words(ws) == execcmd([x \in DOMAIN ws |-> <<ws[x]>>])
Redir(c, mode, file) ==
    redircmd(c, [file |-> <<file>>, mode |-> mode, fd |-> IF mode = "read" THEN 0 ELSE 1])

EchoF == Words(<<"e", "f">>)
EchoG == Words(<<"e", "g">>)
CatIn == Words(<<"c">>)

Ample == [cmds |-> <<>>, keys |-> <<>>, nfile |-> 5, nofile |-> 6, npipe |-> 2, nproc |-> 6,
          faults |-> FALSE]

\* Commands whose result is compared with their meaning.
Session(cmds) ==
    [Ample EXCEPT !.cmds = cmds, !.keys = FlattenSeq([x \in DOMAIN cmds |-> Line(cmds[x])])]

\* Two commands sharing a redirection; pipelines; a second line typed ahead
\* that reads what the first wrote; erasures on the way.
Sessions ==
    {Session(<<listcmd(Redir(listcmd(EchoF, EchoG), "trunc", "f"), Redir(CatIn, "read", "f"))>>),
     Session(<<pipecmd(EchoF, CatIn)>>),
     Session(<<pipecmd(Words(<<"e">>), pipecmd(CatIn, CatIn))>>),
     Session(<<listcmd(Redir(pipecmd(EchoF, CatIn), "trunc", "g"), Words(<<"c", "g">>))>>),
     Session(<<pipecmd(listcmd(EchoF, EchoG), CatIn)>>),
     Session(<<Redir(EchoF, "create", "g"), Words(<<"c", "g">>)>>),
     [Session(<<EchoF, EchoG>>) EXCEPT
        !.keys = <<"f", "^H", "g", "f", "^U", "^H", "e", " ", "f", "nl", "^H", "e", " ", "g", "nl">>]}

\* Lines typed for what they do to the shell: errors of every kind, a
\* background job, cat on the terminal ended by control-D, the end of the
\* session, and more keys than the console holds.
Typed ==
    {[Ample EXCEPT !.keys = ks] : ks \in
        {<<"(", "e", "nl">>, <<">", "nl">>, <<"e", ")", "nl">>, <<"nl">>, <<"f", "nl">>,
         <<"e", " ", "e", " ", "e", " ", "e", "nl">>, <<"c", "d", " ", "f", "nl">>,
         <<"c", "<", "g", "nl">>, <<"c", " ", "g", "nl">>,
         <<"e", " ", "f", "&", ";", "e", " ", "g", "nl">>,
         <<"c", "nl", "f", "^D", "^D">>,
         [x \in 1..19 |-> IF x < 19 THEN "f" ELSE "nl"]}}

\* A pipeline that runs out of open files, pages, descriptors or processes.
Short ==
    LET p == [Ample EXCEPT !.keys = Line(pipecmd(EchoF, CatIn))]
    IN {[p EXCEPT !.nfile = 1], [p EXCEPT !.nfile = 2], [p EXCEPT !.npipe = 0], [p EXCEPT !.nofile = 4],
        [p EXCEPT !.nproc = 2], [p EXCEPT !.nproc = 3], [p EXCEPT !.faults = TRUE],
        [Ample EXCEPT !.keys = Line(pipecmd(EchoF, pipecmd(CatIn, CatIn))), !.npipe = 1]}

MCScenarios == Sessions \cup Typed \cup Short
MCName == {<<"f">>, <<"g">>}
MCChar == {"e", "c", "d", "f", "g", " ", "nl", "^D"} \cup Symbols
====
