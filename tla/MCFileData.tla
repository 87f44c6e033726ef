---- MODULE MCFileData ----
EXTENDS FileData
\* f1 and f2 are two descriptions of inode 1, f3 is inode 2.
MCino == [f \in File |-> IF f = "f3" THEN 2 ELSE 1]

\* A disk that fills up; one description shared by two writers; truncation
\* under an offset; blocks freed by one process and taken by the other.
MCWorkloads ==
    {<< <<<<"write", "f1", 5>>>>, <<<<"write", "f3", 2>>, <<"trunc", "f3">>>> >>,
     << <<<<"write", "f1", 3>>>>, <<<<"write", "f1", 3>>>> >>,
     << <<<<"write", "f1", 3>>, <<"write", "f1", 1>>>>, <<<<"write", "f2", 1>>, <<"trunc", "f2">>, <<"read", "f2", 2>>>> >>,
     << <<<<"write", "f1", 4>>, <<"trunc", "f1">>>>, <<<<"write", "f3", 3>>, <<"read", "f1", 3>>>> >>}
====
