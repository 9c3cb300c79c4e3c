--------------------------- MODULE MCCircuitBreaker ---------------------------
(* Instance of CircuitBreaker for TLC: three callers, so that two calls that *)
(* were admitted before the breaker opened can end after a probe started.    *)
EXTENDS CircuitBreaker
==============================================================================
