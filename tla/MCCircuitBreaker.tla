-------------------------- MODULE MCCircuitBreaker --------------------------
(* Three tasks on one breaker, the smallest number that lets a call admitted   *)
(* before the circuit opened outlive two half-open episodes.                   *)
EXTENDS CircuitBreaker

CONSTANTS c1, c2, c3

MCCallers == {c1, c2, c3}
MCMaxCount == FailureThreshold + 1
=============================================================================
