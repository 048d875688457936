-------------------------- MODULE MCIdempotentCall --------------------------
(* IdempotentCall for TLC. *)
EXTENDS IdempotentCall, TLC

CallSymmetry == Permutations(Calls)

=============================================================================
