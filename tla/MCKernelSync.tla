---------------------------- MODULE MCKernelSync ----------------------------
(* Two threads of one priority and one of a higher one, for TLC.           *)
EXTENDS KernelSync

CONSTANTS high, low1, low2

Priorities == [t \in Thread |-> IF t = high THEN 1 ELSE 2]

\* every object of this system's drivers and stacks but an event with PRIO; the
\* semaphore of the heap is FIFO
Objects == (Kind \X {"FIFO", "PRIO"}) \ {<<"event", "PRIO">>, <<"heap", "PRIO">>}

AskAll(b, c) == [all |-> TRUE, clear |-> c, set |-> b]
AskOne(b, c) == [all |-> FALSE, clear |-> c, set |-> b]
Asking == {AskOne({1, 2}, TRUE), AskAll({1, 2}, FALSE)}
=============================================================================
