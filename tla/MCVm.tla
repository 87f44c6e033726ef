---- MODULE MCVm ----
EXTENDS Vm
Seg(v, m) == [vaddr |-> v, memsz |-> m]
MCPrograms == {<<Seg(0, 1)>>, <<Seg(2, 1), Seg(0, 1)>>}
MCGrow == {-3, 2}
\* Memory so short that sbrk alone exhausts it, memory for one program to be
\* replaced by another, and memory for two processes that do so at once.
AllCalls == {"sbrk", "fork", "exec"}
MCScenarios == {[npages |-> 14, calls |-> AllCalls], [npages |-> 16, calls |-> AllCalls],
                [npages |-> 28, calls |-> {"fork", "exec"}]}
====
