---------------------------- MODULE MCLogService ----------------------------
(* Model values for LogService: two callers of flush(), two slots and room *)
(* for one batch, so that batches overlap, settle out of order, queue up   *)
(* and overflow.                                                           *)
EXTENDS LogService, TLC

CONSTANTS c1, c2, background, drain

MCCallers  == {c1, c2}
MCSymmetry == Permutations(MCCallers)
=============================================================================
