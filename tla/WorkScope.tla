------------------------------ MODULE WorkScope ------------------------------
(***************************************************************************)
(* core/abandoned_work.py: one call's hold on the work it stopped waiting  *)
(* for but could not stop.  A scope is a value; each operator is one hold  *)
(* of its lock.  Own pieces are the attempts of the call's timeout stage;  *)
(* the others were abandoned by something nested inside them.              *)
(*                                                                         *)
(* The chain of scopes is left out: there is no enclosing call, to whose   *)
(* scope record_abandoned would add the piece as well, and no nested scope *)
(* left open that close_work_scope would close with this one.              *)
(***************************************************************************)
CONSTANTS
    Own,      \* the attempts of a call
    Nested    \* what its attempts may abandon themselves

ASSUME PiecesAssumption == Own \cap Nested = {}

Pieces == Own \cup Nested

\* settles: an on_settled callback is stored for the last piece to run.
Scope ==
    [running      : SUBSET Pieces,
     own_finished : BOOLEAN,
     own_failed   : BOOLEAN,
     closed       : BOOLEAN,
     sealed       : BOOLEAN,
     settles      : BOOLEAN]

NewScope ==
    [running |-> {}, own_finished |-> FALSE, own_failed |-> FALSE,
     closed |-> FALSE, sealed |-> FALSE, settles |-> FALSE]

\* Mutant: a call that abandoned nothing counts as succeeded.
own_succeeded_if_unfailed(s) == ~s.own_failed

own_succeeded(s) == s.own_finished /\ ~s.own_failed

add(s, p) == IF s.sealed THEN s ELSE [s EXCEPT !.running = @ \cup {p}]

\* Mutant: the scope settles with its first piece, not its last.
seals_early(s, p) == s.closed /\ ~s.sealed

\* Mutant: a closed scope settles only by its close.
seals_never(s, p) == FALSE

\* Folding p out of the scope settles it.
seals(s, p) == s.closed /\ ~s.sealed /\ s.running = {p}

\* The done-callback of piece p, which returned normally or did not.
fold(s, p, returned) ==
    IF p \notin s.running THEN s
    ELSE [s EXCEPT !.running = @ \ {p},
                   !.own_finished = @ \/ p \in Own,
                   !.own_failed = @ \/ (p \in Own /\ ~returned),
                   !.sealed = @ \/ seals(s, p),
                   !.settles = @ /\ ~seals(s, p)]

\* Closing the scope settles it at once.
close_settles_now(s) == ~s.sealed /\ s.running = {}

close(s, on_settled) ==
    [s EXCEPT !.closed = TRUE,
              !.sealed = @ \/ close_settles_now(s),
              !.settles = on_settled /\ ~s.sealed /\ ~close_settles_now(s)]

=============================================================================
