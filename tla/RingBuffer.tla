----------------------------- MODULE RingBuffer -----------------------------
(***************************************************************************)
(* The bounded in-memory buffer of audit/ring_buffer.py under DROP_OLDEST, *)
(* the strategy the outbox uses.  Every operation runs under the buffer's  *)
(* lock, so each is one operator from a buffer to a buffer.  The counter   *)
(* total_dropped is kept as the set of the entries it counts: an entry is  *)
(* put once, so the set has the counter's value and says which they were.  *)
(***************************************************************************)
EXTENDS Naturals, Sequences

CONSTANTS
    Entries,    \* what is put, each entry once
    Capacity    \* the buffer's capacity

ASSUME RingAssumption == Capacity \in Nat \ {0}

EmptyRing == [items |-> <<>>, dropped |-> {}]

RingType(r) == r \in [items : Seq(Entries), dropped : SUBSET Entries]

\* The entries of a sequence after its first i.
After(s, i) == {s[k] : k \in (i + 1)..Len(s)}

InRing(r) == After(r.items, 0)

size(r) == Len(r.items)

\* Mutant: the evicted entry is not counted as dropped.
put_uncounted(r, e) ==
    IF size(r) >= Capacity
    THEN [r EXCEPT !.items = Append(Tail(r.items), e)]
    ELSE [r EXCEPT !.items = Append(r.items, e)]

\* put: a full buffer evicts its oldest entry, counted as dropped.
put(r, e) ==
    IF size(r) >= Capacity
    THEN [items   |-> Append(Tail(r.items), e),
          dropped |-> r.dropped \cup {Head(r.items)}]
    ELSE [r EXCEPT !.items = Append(r.items, e)]

\* get_batch takes at most n entries from the front.
batch_of(r, n) == SubSeq(r.items, 1, IF n < size(r) THEN n ELSE size(r))

get_batch(r, n) ==
    [r EXCEPT !.items = SubSeq(r.items, Len(batch_of(r, n)) + 1, size(r))]

\* drain_all empties the buffer in the same lock scope as it reads it.
drain_all(r) == [r EXCEPT !.items = <<>>]
=============================================================================
