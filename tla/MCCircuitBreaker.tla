-------------------------- MODULE MCCircuitBreaker --------------------------
(* Model values for CircuitBreaker: four overlapping operations around a   *)
(* threshold of two failures and a limit of two probes.                    *)
EXTENDS CircuitBreaker

CONSTANTS o1, o2, o3, o4

MCOps == {o1, o2, o3, o4}
=============================================================================
