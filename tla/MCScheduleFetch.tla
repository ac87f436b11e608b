--------------------------- MODULE MCScheduleFetch ---------------------------
(* Small pages for TLC.                                                    *)
EXTENDS ScheduleFetch

CONSTANTS c1, c2, c3, c4, c5, c6, c7

SixCells  == <<c1, c2, c3, c4, c5, c6>>      \* one user and a field of the next
EmptyCell == <<c1, NoCell>>
Fitting   == <<c1, c2, c3, NoCell, c4, c5, c6>>
Overrun   == SixCells \o <<c2, c3, c4, c5, c7>>   \* a field of a third user
TooLong   == Overrun \o <<c6>>               \* more than one read asks for

AllPages == {SixCells, EmptyCell, Fitting, Overrun, TooLong}

\* the command is repeated, and two threads fetch, only for the smallest page
Starts == [p \in AllPages |-> IF p = EmptyCell THEN 2 ELSE 1]

\* the short pages are divided in every way
Least == [p \in AllPages |-> IF p \in {SixCells, EmptyCell} THEN 1 ELSE 5]
=============================================================================
