---------------------------- MODULE MCDLQOutbox ----------------------------
(* An instance of DLQOutbox for TLC. *)
EXTENDS DLQOutbox

CONSTANTS e1, e2, e3

ThreeEntries == {e1, e2, e3}
=============================================================================
