-------------------------- MODULE MCCircuitBreaker --------------------------
(* CircuitBreaker, and the claim refuted of it, for TLC. *)
EXTENDS CircuitBreakerClaims
=============================================================================
