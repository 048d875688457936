----------------------------- MODULE MCBulkhead -----------------------------
(* A small instance of Bulkhead: threads, and a coroutine on a loop. *)
EXTENDS Bulkhead

CONSTANTS t1, t2, co, main

OnMain == [c \in {co} |-> main]
=============================================================================
