-------------------------- MODULE MCDeadLetterQueue --------------------------
(* Two entries fit the queue; the third line alone is over the budget.  An *)
(* earlier process had room for more, or for less.                         *)
EXTENDS DeadLetterQueue

MCBytes(e) == IF e = 3 THEN 4 ELSE 1
MCEarlierFiles == {Absent, <<1>>, <<1, 2>>, <<1, 2, 3>>}
=============================================================================
