---------------------------- MODULE CaptureLedger ----------------------------
(***************************************************************************)
(* What asynchronous capture promises about the entries it has accepted,   *)
(* with no threads, batches or flags: an accepted entry is held until it   *)
(* is kept (in the store or the local fallback) or lost; entries are lost  *)
(* one by one to a newcomer only while a full buffer of them is held; a    *)
(* kept entry stays kept, and nothing else ever happens to the ledger.     *)
(***************************************************************************)
EXTENDS Naturals

CONSTANTS
    Entries,
    Capacity    \* of the buffer

VARIABLES
    held,   \* accepted, fate still open
    kept,   \* stored, or written to the local fallback
    lost    \* dropped, failed, residual, or stranded by a crash

ledgerVars == <<held, kept, lost>>

Init == held = {} /\ kept = {} /\ lost = {}

New(e) == e \notin held \cup kept \cup lost

\* There are at least Capacity entries in S.
Full(S) == \E f \in [1..Capacity -> S] : \A i, j \in 1..Capacity : f[i] = f[j] => i = j

Accept(e) ==
    /\ New(e)
    /\ held' = held \cup {e}
    /\ UNCHANGED <<kept, lost>>

\* The newcomer takes the place of an entry that is given up.
Displace(e, d) ==
    /\ New(e) /\ d \in held /\ Full(held)
    /\ held' = (held \ {d}) \cup {e}
    /\ lost' = lost \cup {d}
    /\ UNCHANGED kept

\* An entry given up by one thread may still be kept by another.
Keep(e) ==
    /\ e \in held \cup lost
    /\ held' = held \ {e}
    /\ kept' = kept \cup {e}
    /\ lost' = lost \ {e}

Lose(S) ==
    /\ S # {} /\ S \subseteq held
    /\ held' = held \ S
    /\ lost' = lost \cup S
    /\ UNCHANGED kept

Next ==
    \/ \E e \in Entries : Accept(e) \/ Keep(e) \/ \E d \in Entries : Displace(e, d)
    \/ \E S \in SUBSET Entries : Lose(S)

Spec == Init /\ [][Next]_ledgerVars
=============================================================================
