-------------------------- MODULE CountingSemaphore --------------------------
(***************************************************************************)
(* What a compartment promises, with no lock, queue or loop: a call takes  *)
(* a seat only while fewer than MaxConcurrent are out, gives it back once, *)
(* and is refused only while every seat is out.  A seat given back is on   *)
(* its way until the compartment takes note of it, since giving it back    *)
(* never waits.                                                            *)
(***************************************************************************)
EXTENDS Integers, FiniteSets

CONSTANTS Calls, MaxConcurrent

VARIABLES
    held,       \* the calls that run in a seat
    returning,  \* the calls whose seat is on its way back
    refused     \* the calls turned away

semaphoreVars == <<held, returning, refused>>

Init == held = {} /\ returning = {} /\ refused = {}

out == Cardinality(held \cup returning)

Take(c) ==
    /\ out < MaxConcurrent
    /\ c \notin held \cup returning \cup refused
    /\ held' = held \cup {c}
    /\ UNCHANGED <<returning, refused>>

GiveBack(c) ==
    /\ c \in held
    /\ held' = held \ {c}
    /\ returning' = returning \cup {c}
    /\ UNCHANGED refused

Arrive(c) ==
    /\ c \in returning
    /\ returning' = returning \ {c}
    /\ UNCHANGED <<held, refused>>

Refuse(c) ==
    /\ out = MaxConcurrent
    /\ c \notin held \cup returning \cup refused
    /\ refused' = refused \cup {c}
    /\ UNCHANGED <<held, returning>>

Next == \E c \in Calls : Take(c) \/ GiveBack(c) \/ Arrive(c) \/ Refuse(c)

Spec == Init /\ [][Next]_semaphoreVars
=============================================================================
