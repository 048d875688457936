------------------------ MODULE CircuitBreakerClaims ------------------------
(***************************************************************************)
(* What the repository contract says of a trial slot, refuted by a run of  *)
(* its own: the check of an operator's block is made on an earlier row.    *)
(***************************************************************************)
EXTENDS CircuitBreaker

\* "Otherwise (CLOSED, manual override, etc.): no-op": acquiring a trial slot
\* never moves a row an operator has forced open.
BlockStands ==
    [][row.state = "open" /\ Pinned /\ row'.state # "open"
          => OperatorMoves]_vars

=============================================================================
