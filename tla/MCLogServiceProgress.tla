------------------------ MODULE MCLogServiceProgress ------------------------
(* Model values for LogService's promises over time: one caller of         *)
(* flush() next to the flushes in the background, one slot, and room for   *)
(* two batches that could be taken in the wrong order.                     *)
EXTENDS LogService

CONSTANTS c1, background, drain

MCCallers == {c1}
=============================================================================
