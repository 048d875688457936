--------------------------- MODULE DLQOutboxProofs ---------------------------
(***************************************************************************)
(* Proofs about DLQOutbox, for every number of entries, every capacity and *)
(* batch size, and every set of faults.                                    *)
(***************************************************************************)
EXTENDS DLQOutbox, TLAPS

\* No position of the sequence repeats an entry of another.
Injective(s) == \A i, j \in 1..Len(s) : s[i] = s[j] => i = j

-----------------------------------------------------------------------------
(* Sequences of entries *)

\* Appending an entry adds it, and repeats nothing if it is new.
LEMMA AppendFacts ==
    ASSUME NEW s \in Seq(Entries), NEW e \in Entries
    PROVE  /\ Append(s, e) \in Seq(Entries)
           /\ Len(Append(s, e)) = Len(s) + 1
           /\ After(Append(s, e), 0) = After(s, 0) \cup {e}
           /\ Injective(s) /\ e \notin After(s, 0) => Injective(Append(s, e))
<1> DEFINE t == Append(s, e)
<1>1. t \in Seq(Entries) /\ Len(t) = Len(s) + 1 /\ Len(s) \in Nat
    OBVIOUS
<1>2. \A i \in 1..Len(s) : t[i] = s[i]
    OBVIOUS
<1>3. t[Len(s) + 1] = e
    OBVIOUS
<1> HIDE DEF t
<1>4. After(t, 0) = After(s, 0) \cup {e}
    BY <1>1, <1>2, <1>3 DEF After
<1>5. Injective(s) /\ e \notin After(s, 0) => Injective(t)
    BY <1>1, <1>2, <1>3 DEF After, Injective
<1> QED
    BY <1>1, <1>4, <1>5, Zenon DEF t

\* Taking the head away leaves the rest.
LEMMA TailFacts ==
    ASSUME NEW s \in Seq(Entries), s # <<>>
    PROVE  /\ Tail(s) \in Seq(Entries) /\ Head(s) \in Entries
           /\ Len(Tail(s)) = Len(s) - 1
           /\ After(s, 0) = After(Tail(s), 0) \cup {Head(s)}
           /\ Injective(s) => Injective(Tail(s)) /\ Head(s) \notin After(Tail(s), 0)
<1> DEFINE t == Tail(s)
<1>1. t \in Seq(Entries) /\ Len(t) = Len(s) - 1 /\ Len(s) \in Nat /\ Len(s) > 0
    OBVIOUS
<1>2. \A i \in 1..Len(t) : t[i] = s[i + 1]
    OBVIOUS
<1>3. Head(s) = s[1] /\ Head(s) \in Entries
    OBVIOUS
<1> HIDE DEF t
<1>4. \A i \in 2..Len(s) : s[i] = t[i - 1] /\ i - 1 \in 1..Len(t)
    BY <1>1, <1>2
<1>5. After(s, 0) = After(t, 0) \cup {Head(s)}
    BY <1>1, <1>2, <1>3, <1>4 DEF After
<1>6. ASSUME Injective(s) PROVE Injective(t) /\ Head(s) \notin After(t, 0)
    BY <1>1, <1>2, <1>3, <1>6 DEF After, Injective
<1> QED
    BY <1>1, <1>3, <1>5, <1>6, Zenon DEF t

\* A front and the rest of a sequence make up the sequence and, if nothing is
\* repeated, have no entry in common.
LEMMA SplitFacts ==
    ASSUME NEW s \in Seq(Entries), NEW n \in 0..Len(s)
    PROVE  LET a == SubSeq(s, 1, n)
               b == SubSeq(s, n + 1, Len(s))
           IN  /\ a \in Seq(Entries) /\ b \in Seq(Entries)
               /\ Len(a) = n /\ Len(b) = Len(s) - n
               /\ After(b, 0) = After(s, n)
               /\ After(s, 0) = After(a, 0) \cup After(b, 0)
               /\ Injective(s) => /\ Injective(a) /\ Injective(b)
                                  /\ After(a, 0) \cap After(b, 0) = {}
<1> DEFINE a == SubSeq(s, 1, n)
           b == SubSeq(s, n + 1, Len(s))
<1>1. a \in Seq(Entries) /\ Len(a) = n /\ Len(s) \in Nat /\ n \in Nat
    OBVIOUS
<1>2. b \in Seq(Entries) /\ Len(b) = Len(s) - n
    OBVIOUS
<1>3. \A i \in 1..Len(a) : a[i] = s[i]
    OBVIOUS
<1>4. \A i \in 1..Len(b) : b[i] = s[n + i]
    OBVIOUS
<1> HIDE DEF a, b
<1>5. \A i \in (n + 1)..Len(s) : s[i] = b[i - n] /\ i - n \in 1..Len(b)
    BY <1>1, <1>2, <1>4
<1>6. After(b, 0) = After(s, n)
  <2>1. \A i \in 1..Len(b) : n + i \in (n + 1)..Len(s)
    BY <1>1, <1>2
  <2>2. After(b, 0) \subseteq After(s, n)
    BY <1>2, <1>4, <2>1 DEF After
  <2>3. After(s, n) \subseteq After(b, 0)
    BY <1>5 DEF After
  <2> QED
    BY <2>2, <2>3, Zenon
<1>7. After(s, 0) = After(a, 0) \cup After(s, n)
  <2>1. \A i \in 1..Len(s) : i \in 1..n \/ i \in (n + 1)..Len(s)
    BY <1>1
  <2>2. After(s, 0) \subseteq After(a, 0) \cup After(s, n)
    BY <1>1, <1>3, <2>1 DEF After
  <2>3. After(a, 0) \subseteq After(s, 0) /\ After(s, n) \subseteq After(s, 0)
    BY <1>1, <1>3 DEF After
  <2> QED
    BY <2>2, <2>3, Zenon
<1>8. ASSUME Injective(s)
      PROVE  Injective(a) /\ Injective(b) /\ After(a, 0) \cap After(b, 0) = {}
  <2>1. Injective(a)
    BY <1>1, <1>3, <1>8 DEF Injective
  <2>2. Injective(b)
    BY <1>1, <1>2, <1>4, <1>8 DEF Injective
  <2>3. After(a, 0) \cap After(b, 0) = {}
    BY <1>1, <1>2, <1>3, <1>4, <1>8 DEF Injective, After
  <2> QED
    BY <2>1, <2>2, <2>3, Zenon
<1> QED
    BY <1>1, <1>2, <1>6, <1>7, <1>8, Zenon DEF a, b

\* A concatenation holds what its parts hold.
LEMMA ConcatFacts ==
    ASSUME NEW s \in Seq(Entries), NEW t \in Seq(Entries)
    PROVE  /\ s \o t \in Seq(Entries)
           /\ After(s \o t, 0) = After(s, 0) \cup After(t, 0)
<1> DEFINE u == s \o t
<1>1. u \in Seq(Entries) /\ Len(u) = Len(s) + Len(t) /\ Len(s) \in Nat /\ Len(t) \in Nat
    OBVIOUS
<1>2. \A i \in 1..Len(s) : u[i] = s[i]
    OBVIOUS
<1>3. \A i \in 1..Len(t) : u[Len(s) + i] = t[i] /\ Len(s) + i \in 1..Len(u)
    OBVIOUS
<1> HIDE DEF u
<1>4. \A i \in (Len(s) + 1)..Len(u) : u[i] = t[i - Len(s)] /\ i - Len(s) \in 1..Len(t)
    BY <1>1, <1>3
<1>5. After(s, 0) \subseteq After(u, 0) /\ After(t, 0) \subseteq After(u, 0)
  <2>1. After(s, 0) \subseteq After(u, 0)
    BY <1>1, <1>2 DEF After
  <2>2. ASSUME NEW x \in After(t, 0) PROVE x \in After(u, 0)
    <3>1. PICK i \in 1..Len(t) : x = t[i]
      BY DEF After
    <3>2. x = u[Len(s) + i] /\ Len(s) + i \in 1..Len(u)
      BY <1>3, <3>1, Zenon
    <3> QED
      BY <3>2 DEF After
  <2> QED
    BY <2>1, <2>2, Zenon
<1>6. After(u, 0) \subseteq After(s, 0) \cup After(t, 0)
  <2>1. \A i \in 1..Len(u) : i \in 1..Len(s) \/ i \in (Len(s) + 1)..Len(u)
    BY <1>1
  <2>2. ASSUME NEW i \in 1..Len(u) PROVE u[i] \in After(s, 0) \cup After(t, 0)
    <3>1. CASE i \in 1..Len(s)
      BY <1>2, <3>1 DEF After
    <3>2. CASE i \in (Len(s) + 1)..Len(u)
      <4>1. u[i] = t[i - Len(s)] /\ i - Len(s) \in 1..Len(t)
        BY <1>4, <3>2, Zenon
      <4> QED
        BY <4>1 DEF After
    <3> QED
      BY <2>1, <3>1, <3>2, Zenon
  <2> QED
    BY <2>2 DEF After
<1> QED
    BY <1>1, <1>5, <1>6, Zenon DEF u

\* Advancing over one entry takes that entry away, and for good if nothing is
\* repeated.
LEMMA AdvanceFacts ==
    ASSUME NEW s \in Seq(Entries), NEW n \in Nat, n < Len(s)
    PROVE  /\ s[n + 1] \in Entries
           /\ After(s, n) = After(s, n + 1) \cup {s[n + 1]}
           /\ After(s, n) \subseteq After(s, 0)
           /\ Injective(s) => s[n + 1] \notin After(s, n + 1)
<1>1. Len(s) \in Nat /\ n + 1 \in 1..Len(s)
    OBVIOUS
<1>2. s[n + 1] \in Entries
    BY <1>1
<1>3. After(s, n) = After(s, n + 1) \cup {s[n + 1]}
  <2>1. \A i \in (n + 1)..Len(s) : i = n + 1 \/ i \in (n + 1 + 1)..Len(s)
    BY <1>1
  <2> QED
    BY <1>1, <2>1 DEF After
<1>4. After(s, n) \subseteq After(s, 0)
    BY <1>1 DEF After
<1>5. Injective(s) => s[n + 1] \notin After(s, n + 1)
    BY <1>1 DEF After, Injective
<1> QED
    BY <1>2, <1>3, <1>4, <1>5, Zenon

-----------------------------------------------------------------------------
(* The invariant *)

\* Where the entry being attempted is, how much of the batch is in flight, when
\* the probe respawns, and what the dump holds before the rescue.
Stages ==
    /\ writer = "resolve" => pending_index < Len(pending_batch) /\ Attempted \in Attempts
    /\ writer \in {"write", "resolve"} => in_flight >= Len(pending_batch) - pending_index
    /\ probe = "died" => writer = "crashed"
    /\ ~Rescued => Handed = {} /\ Dumps = {} /\ rescued_tail = {} /\ handed = <<>>

\* What each place holds was accepted, and no entry is in two places, except
\* the tail the rescue handed over.
Places ==
    /\ InRing(ring) \cup After(pending_batch, 0) \cup Handed \cup Attempts \cup Dumps
           \cup ring.dropped \cup stranded \subseteq Accepted
    /\ Injective(ring.items) /\ Injective(pending_batch)
    /\ InRing(ring) \cap (Attempts \cup Dumps \cup Handed \cup After(pending_batch, 0)
                              \cup ring.dropped \cup stranded) = {}
    /\ pending \cap Attempts \subseteq (IF writer = "resolve" THEN {Attempted} ELSE {})
    /\ pending \cap (ring.dropped \cup stranded) = {}
    /\ (pending \cup Attempts) \cap (Dumps \cup Handed) \subseteq rescued_tail

Inv == TypeOK /\ Stages /\ Places /\ NothingVanishes /\ (teardown_started => worker_dead)

\* The unresolved entries are entries of the batch.
LEMMA PendingInBatch ==
    ASSUME TypeOK
    PROVE  pending \subseteq After(pending_batch, 0) /\ pending \subseteq Entries
<1>1. /\ pending_batch \in Seq(Entries) /\ pending_index \in Nat /\ Len(pending_batch) \in Nat
      /\ \A k \in 1..Len(pending_batch) : pending_batch[k] \in Entries
    BY DEF TypeOK
<1>2. \A k \in (pending_index + 1)..Len(pending_batch) : k \in 1..Len(pending_batch)
    BY <1>1
<1> QED
    BY <1>1, <1>2 DEF pending, After

\* Nothing has been captured.
LEMMA InitInv == Init => Inv
<1> SUFFICES ASSUME Init PROVE Inv
    OBVIOUS
<1>1. TypeOK
  <2>1. <<>> \in Seq(Entries) /\ Len(<<>>) = 0
    OBVIOUS
  <2>2. [c \in Counters |-> {}] \in [Counters -> SUBSET Entries]
    OBVIOUS
  <2>3. ring.items = <<>> /\ ring.dropped = {}
    BY Zenon DEF Init, EmptyRing
  <2>4. RingType(ring) /\ seen_dropped \subseteq ring.dropped
    BY <2>1, <2>3, Zenon DEF Init, RingType, EmptyRing
  <2>5. pending_batch \in Seq(Entries) /\ pending_index \in 0..Len(pending_batch)
    BY <2>1 DEF Init
  <2>6. /\ last_pass \in BOOLEAN /\ any_failed \in BOOLEAN /\ stop_event \in BOOLEAN
        /\ worker_dead \in BOOLEAN /\ teardown_started \in BOOLEAN
    BY Zenon DEF Init
  <2>7. /\ capture \in [Entries -> {"idle", "checked", "coerced", "accepted",
                                    "stored", "refused"}]
        /\ counted \in [Counters -> SUBSET Entries]
    BY <2>2, Zenon DEF Init
  <2>8. in_flight \in Nat /\ consecutive_failures \in Nat /\ restarts \in 0..MaxRestarts
    BY OutboxAssumption DEF Init
  <2> QED
    BY <2>1, <2>4, <2>5, <2>6, <2>7, <2>8, Zenon DEF Init, TypeOK
<1>2. /\ InRing(ring) = {} /\ After(pending_batch, 0) = {} /\ pending = {}
      /\ Handed = {} /\ Attempts = {} /\ Dumps = {} /\ ring.dropped = {}
      /\ Accepted = {}
    BY DEF Init, EmptyRing, InRing, After, pending, Handed, Attempts, Dumps, Counters,
           Accepted
<1>3. Injective(ring.items) /\ Injective(pending_batch)
    BY DEF Init, EmptyRing, Injective
<1> QED
    BY <1>1, <1>2, <1>3, Zenon DEF Init, Inv, Stages, Places, NothingVanishes, Rescued

\* A step that moves no entry from a place to another keeps every place as
\* the invariant wants it.
LEMMA QuietStep ==
    ASSUME Inv,
           UNCHANGED <<ring, pending_batch, pending_index, counted, handed, stranded,
                       late, rescued_tail>>,
           Accepted' = Accepted, Rescued' = Rescued,
           writer' = "resolve" <=> writer = "resolve"
    PROVE  (Places /\ NothingVanishes)'
<1>1. /\ InRing(ring)' = InRing(ring) /\ pending' = pending /\ Handed' = Handed
      /\ Attempts' = Attempts /\ Dumps' = Dumps /\ Attempted' = Attempted
      /\ After(pending_batch, 0)' = After(pending_batch, 0)
      /\ ring.dropped' = ring.dropped
    BY Zenon DEF InRing, pending, Handed, Attempts, Dumps, Attempted
<1>3. Injective(ring.items)' /\ Injective(pending_batch)'
    BY Zenon DEF Inv, Places, Injective
<1>4. pending' \cap Attempts' \subseteq (IF writer' = "resolve" THEN {Attempted'} ELSE {})
  <2>1. CASE writer = "resolve"
    BY <1>1, <2>1, Zenon DEF Inv, Places, Stages
  <2>2. CASE writer # "resolve"
    BY <1>1, <2>2, Zenon DEF Inv, Places
  <2> QED
    BY <2>1, <2>2, Zenon
<1>5. Places'
    BY <1>1, <1>3, <1>4, Zenon DEF Inv, Places
<1>6. NothingVanishes'
    BY <1>1, Zenon DEF Inv, NothingVanishes
<1> QED
    BY <1>5, <1>6, Zenon

-----------------------------------------------------------------------------
(* What the steps that move entries do to the places *)

\* A put adds the newcomer to the ring; an entry that leaves the ring for it is
\* dropped.
LEMMA PutMoves ==
    ASSUME TypeOK, NEW e \in Entries, Put(e)
    PROVE  /\ RingType(ring')
           /\ InRing(ring) \subseteq InRing(ring)' \cup ring'.dropped
           /\ ring.dropped \subseteq ring'.dropped
           /\ ring'.dropped \subseteq ring.dropped \cup InRing(ring)
           /\ InRing(ring)' \subseteq InRing(ring) \cup {e} /\ e \in InRing(ring)'
           /\ Injective(ring.items) /\ e \notin InRing(ring) =>
                 Injective(ring'.items) /\ (ring'.dropped \ ring.dropped) \cap InRing(ring)' = {}
<1> DEFINE s == ring.items
<1>1. s \in Seq(Entries) /\ ring.dropped \subseteq Entries
    BY Zenon DEF TypeOK, RingType
<1>2. CASE size(ring) >= Capacity
  <2> DEFINE t == Append(Tail(s), e)
  <2>1. s # <<>>
    BY <1>1, <1>2, RingAssumption DEF size
  <2>2. /\ Tail(s) \in Seq(Entries) /\ Head(s) \in Entries
        /\ After(s, 0) = After(Tail(s), 0) \cup {Head(s)}
        /\ Injective(s) => Injective(Tail(s)) /\ Head(s) \notin After(Tail(s), 0)
    BY <1>1, <2>1, TailFacts, Zenon
  <2>3. /\ t \in Seq(Entries)
        /\ After(t, 0) = After(Tail(s), 0) \cup {e}
        /\ Injective(Tail(s)) /\ e \notin After(Tail(s), 0) => Injective(t)
    BY <2>2, AppendFacts, Zenon
  <2>4. ring'.items = t /\ ring'.dropped = ring.dropped \cup {Head(s)}
    BY <1>2, Zenon DEF Put, put
  <2>5. InRing(ring)' = After(t, 0) /\ InRing(ring) = After(s, 0)
    BY <2>4, Zenon DEF InRing
  <2>6. RingType(ring')
    <3>1. ring' = [items |-> t, dropped |-> ring.dropped \cup {Head(s)}]
      BY <1>2, Zenon DEF Put, put
    <3> HIDE DEF t, s
    <3> QED
      BY <1>1, <2>2, <2>3, <3>1, Zenon DEF RingType
  <2> HIDE DEF t, s
  <2>7. Injective(s) /\ e \notin After(s, 0) =>
            Injective(t) /\ (ring'.dropped \ ring.dropped) \cap After(t, 0) = {}
    BY <2>2, <2>3, <2>4, Zenon
  <2> QED
    BY <2>2, <2>3, <2>4, <2>5, <2>6, <2>7 DEF s
<1>3. CASE ~(size(ring) >= Capacity)
  <2>1. ring' = [ring EXCEPT !.items = Append(s, e)]
    BY <1>3, Zenon DEF Put, put
  <2>2. ring'.items = Append(s, e) /\ ring'.dropped = ring.dropped
    BY <2>1, <1>3, Zenon DEF TypeOK, RingType
  <2>3. /\ Append(s, e) \in Seq(Entries)
        /\ After(Append(s, e), 0) = After(s, 0) \cup {e}
        /\ Injective(s) /\ e \notin After(s, 0) => Injective(Append(s, e))
    BY <1>1, AppendFacts, Zenon
  <2>4. InRing(ring)' = After(s, 0) \cup {e} /\ InRing(ring) = After(s, 0)
    BY <2>2, <2>3, Zenon DEF InRing
  <2>5. RingType(ring')
    <3> DEFINE t == Append(s, e)
    <3> HIDE DEF t
    <3>1. ring' = [ring EXCEPT !.items = t] /\ t \in Seq(Entries)
      BY <2>1, <2>3, Zenon DEF t
    <3> QED
      BY <3>1, Zenon DEF RingType, TypeOK
  <2> QED
    BY <2>2, <2>3, <2>4, <2>5, Zenon
<1> QED
    BY <1>2, <1>3, Zenon

\* A pop takes the new batch from the ring.
LEMMA PopMoves ==
    ASSUME TypeOK, Pop
    PROVE  /\ RingType(ring') /\ ring'.dropped = ring.dropped
           /\ pending_batch' \in Seq(Entries) /\ pending_index' = 0
           /\ pending' = After(pending_batch, 0)'
           /\ InRing(ring) = pending' \cup InRing(ring)'
           /\ Injective(ring.items) =>
                 /\ Injective(ring'.items) /\ Injective(pending_batch')
                 /\ pending' \cap InRing(ring)' = {}
<1> DEFINE s == ring.items
           n == IF last_pass THEN 4 * BatchSize ELSE BatchSize
           k == IF n < size(ring) THEN n ELSE size(ring)
<1>1. s \in Seq(Entries) /\ ring.dropped \subseteq Entries /\ Len(s) \in Nat
    BY DEF TypeOK, RingType
<1>2. n \in Nat
    BY OutboxAssumption
<1>3. k \in 0..Len(s)
  <2> HIDE DEF n
  <2> QED
    BY <1>1, <1>2 DEF size
<1>4. pending_batch' = batch_of(ring, n) /\ ring' = get_batch(ring, n) /\ pending_index' = 0
    BY Zenon DEF Pop, pop_and_publish
<1> HIDE DEF n
<1>5. batch_of(ring, n) = SubSeq(s, 1, k)
    BY Zenon DEF batch_of
<1> HIDE DEF k
<1>6. Len(SubSeq(s, 1, k)) = k
    BY <1>1, <1>3
<1> DEFINE t == SubSeq(s, k + 1, Len(s))
<1>7. ring' = [ring EXCEPT !.items = t]
    BY <1>4, <1>5, <1>6, Zenon DEF get_batch, size
<1>8. /\ SubSeq(s, 1, k) \in Seq(Entries) /\ SubSeq(s, k + 1, Len(s)) \in Seq(Entries)
      /\ After(s, 0) = After(SubSeq(s, 1, k), 0) \cup After(SubSeq(s, k + 1, Len(s)), 0)
      /\ Injective(s) =>
            /\ Injective(SubSeq(s, 1, k)) /\ Injective(SubSeq(s, k + 1, Len(s)))
            /\ After(SubSeq(s, 1, k), 0) \cap After(SubSeq(s, k + 1, Len(s)), 0) = {}
    BY <1>1, <1>3, SplitFacts, Zenon
<1>9. RingType(ring') /\ ring'.items = t /\ ring'.dropped = ring.dropped
  <2>1. t \in Seq(Entries)
    BY <1>8, Zenon
  <2> HIDE DEF t
  <2> QED
    BY <1>7, <2>1, Zenon DEF TypeOK, RingType
<1>10. /\ InRing(ring) = After(s, 0) /\ InRing(ring)' = After(SubSeq(s, k + 1, Len(s)), 0)
      /\ pending' = After(SubSeq(s, 1, k), 0)
      /\ After(pending_batch, 0)' = After(SubSeq(s, 1, k), 0)
    BY <1>4, <1>5, <1>9, Zenon DEF InRing, pending
<1> QED
    BY <1>4, <1>5, <1>8, <1>9, <1>10, Zenon

\* The entry being attempted is an unresolved one of the batch.
LEMMA AttemptedFacts ==
    ASSUME TypeOK, pending_index < Len(pending_batch)
    PROVE  /\ Attempted \in Entries /\ Attempted \in pending
           /\ pending \subseteq After(pending_batch, 0)
<1>1. pending_batch \in Seq(Entries) /\ pending_index \in Nat
    BY DEF TypeOK
<1> QED
    BY <1>1, AdvanceFacts DEF pending, Attempted

\* Resolving takes the attempted entry out of the unresolved tail.
LEMMA ResolveMoves ==
    ASSUME TypeOK, pending_index < Len(pending_batch), resolve_one, UNCHANGED pending_batch
    PROVE  /\ pending_index' \in 0..Len(pending_batch)
           /\ pending = pending' \cup {Attempted}
           /\ Injective(pending_batch) => Attempted \notin pending'
<1>1. pending_batch \in Seq(Entries) /\ pending_index \in Nat /\ Len(pending_batch) \in Nat
    BY DEF TypeOK
<1>2. pending' = After(pending_batch, pending_index + 1)
    BY Zenon DEF resolve_one, pending
<1>3. pending_index' \in 0..Len(pending_batch)
    BY <1>1 DEF resolve_one
<1> QED
    BY <1>1, <1>2, <1>3, AdvanceFacts DEF pending, Attempted

\* The rescue hands over exactly the unresolved tail and the ring.
LEMMA RescueMoves ==
    ASSUME TypeOK, Rescue
    PROVE  /\ RingType(ring') /\ ring'.dropped = ring.dropped /\ InRing(ring)' = {}
           /\ Injective(ring'.items)
           /\ handed' \in Seq(Entries) /\ Handed' = pending \cup InRing(ring)
<1> DEFINE b == SubSeq(pending_batch, pending_index + 1, Len(pending_batch))
<1>1. /\ pending_batch \in Seq(Entries) /\ pending_index \in 0..Len(pending_batch)
      /\ ring.items \in Seq(Entries) /\ ring.dropped \subseteq Entries
    BY Zenon DEF TypeOK, RingType
<1>2. b \in Seq(Entries) /\ After(b, 0) = pending
    BY <1>1, SplitFacts, Zenon DEF pending
<1>3. handed' = b \o ring.items
    BY Zenon DEF Rescue, to_rescue
<1> HIDE DEF b
<1>4. handed' \in Seq(Entries) /\ Handed' = After(b, 0) \cup After(ring.items, 0)
    BY <1>1, <1>2, <1>3, ConcatFacts, Zenon DEF Handed
<1>5. ring'.items = <<>> /\ ring'.dropped = ring.dropped
    BY <1>1, Zenon DEF Rescue, drain_all, TypeOK, RingType
<1>6. RingType(ring')
  <2>1. <<>> \in Seq(Entries)
    OBVIOUS
  <2> QED
    BY <2>1, Zenon DEF Rescue, drain_all, TypeOK, RingType
<1>7. InRing(ring)' = {} /\ Injective(ring'.items)
    BY <1>5 DEF InRing, After, Injective
<1> QED
    BY <1>2, <1>4, <1>5, <1>6, <1>7, Zenon DEF InRing

\* The dump takes the first of what it was handed and counts it.
LEMMA DumpMoves ==
    ASSUME TypeOK, DumpEntry
    PROVE  /\ handed' \in Seq(Entries)
           /\ counted' \in [Counters -> SUBSET Entries]
           /\ Attempts' = Attempts
           /\ Handed \cup Dumps = Handed' \cup Dumps'
           /\ Dumps \subseteq Dumps' /\ Handed' \subseteq Handed
           /\ Head(handed) \in Handed
<1>1. handed \in Seq(Entries) /\ handed # <<>> /\ counted \in [Counters -> SUBSET Entries]
    BY Zenon DEF TypeOK, DumpEntry
<1>2. /\ Tail(handed) \in Seq(Entries) /\ Head(handed) \in Entries
      /\ After(handed, 0) = After(Tail(handed), 0) \cup {Head(handed)}
    BY <1>1, TailFacts, Zenon
<1>3. handed' = Tail(handed)
    BY Zenon DEF DumpEntry
<1>4. PICK c \in {"dumped", "residual"} :
          counted' = [counted EXCEPT ![c] = @ \cup {Head(handed)}]
    BY Zenon DEF DumpEntry
<1>5. counted' \in [Counters -> SUBSET Entries]
    BY <1>1, <1>2, <1>4, Zenon DEF Counters
<1>6. Attempts' = Attempts
    BY <1>1, <1>4, Zenon DEF Attempts, Counters
<1>7. Dumps' = Dumps \cup {Head(handed)}
    BY <1>1, <1>4, Zenon DEF Dumps, Counters
<1> QED
    BY <1>2, <1>3, <1>5, <1>6, <1>7, Zenon DEF Handed

\* An attempt adds the attempted entry to one of the drainer's counters.
LEMMA WriteMoves ==
    ASSUME TypeOK, WriteEntry
    PROVE  /\ counted' \in [Counters -> SUBSET Entries]
           /\ any_failed' \in BOOLEAN
           /\ Attempts' = Attempts \cup {Attempted} /\ Dumps' = Dumps
<1>1. Attempted \in Entries /\ counted \in [Counters -> SUBSET Entries]
    BY AttemptedFacts, Zenon DEF WriteEntry, TypeOK
<1>2. PICK o \in Outcomes : /\ counted' = [counted EXCEPT ![o.counter] = @ \cup {Attempted}]
                            /\ any_failed' = (any_failed \/ o.raised)
    BY Zenon DEF WriteEntry
<1>3. o.counter \in {"written", "soft_failed", "failed"}
    BY DEF Outcomes
<1>4. any_failed' \in BOOLEAN
    BY <1>2, Zenon
<1>5. counted' \in [Counters -> SUBSET Entries]
    BY <1>1, <1>2, <1>3, Zenon DEF Counters
<1>6. Attempts' = Attempts \cup {Attempted}
    BY <1>1, <1>2, <1>3, Zenon DEF Attempts, Counters
<1>7. Dumps' = Dumps
    BY <1>1, <1>2, <1>3, Zenon DEF Dumps, Counters
<1> QED
    BY <1>4, <1>5, <1>6, <1>7, Zenon

-----------------------------------------------------------------------------
(* Types *)

\* Every step of every thread keeps the types.
LEMMA TypeStep == Inv /\ [Next]_vars => TypeOK'
<1> SUFFICES ASSUME Inv, [Next]_vars PROVE TypeOK'
    OBVIOUS
<1> USE DEF captureVars, batchVars, writerVars, probeVars, flagVars, teardownVars
<1>0. TypeOK /\ Stages
    BY Zenon DEF Inv
<1>1. ASSUME NEW e \in Entries, CheckWorker(e) PROVE TypeOK'
    BY <1>0, <1>1 DEF TypeOK, CheckWorker
<1>2. ASSUME NEW e \in Entries, Put(e) PROVE TypeOK'
  <2>1. RingType(ring') /\ ring.dropped \subseteq ring'.dropped
    BY <1>0, <1>2, PutMoves, Zenon
  <2>2. capture' \in [Entries -> {"idle", "checked", "coerced", "accepted",
                                  "stored", "refused"}]
    BY <1>0, <1>2, Zenon DEF TypeOK, Put
  <2> QED
    BY <1>0, <1>2, <2>1, <2>2 DEF TypeOK, Put
<1>3. ASSUME NEW e \in Entries, StoreSync(e) PROVE TypeOK'
    BY <1>0, <1>3 DEF TypeOK, StoreSync
<1>4. ASSUME LeaveLoop PROVE TypeOK'
    BY <1>0, <1>4, Zenon DEF TypeOK, LeaveLoop, Turn
<1>5. ASSUME FlushDue PROVE TypeOK'
    BY <1>0, <1>5, Zenon DEF TypeOK, FlushDue, Turn
<1>6. ASSUME NotDue PROVE TypeOK'
    BY <1>0, <1>6, Zenon DEF TypeOK, NotDue, Turn
<1>7. ASSUME Pop PROVE TypeOK'
  <2>1. /\ RingType(ring') /\ ring'.dropped = ring.dropped
        /\ pending_batch' \in Seq(Entries) /\ pending_index' = 0
    BY <1>0, <1>7, PopMoves, Zenon
  <2>2. pending_index' \in 0..Len(pending_batch') /\ stranded' \subseteq Entries
    <3>1. pending \subseteq Entries
      BY <1>0, PendingInBatch, Zenon
    <3> QED
      BY <1>0, <1>7, <2>1, <3>1 DEF TypeOK, Pop
  <2> QED
    BY <1>0, <1>7, <2>1, <2>2 DEF TypeOK, Pop
<1>8. ASSUME Count PROVE TypeOK'
  <2>1. in_flight' \in Nat
    BY <1>0, <1>8 DEF TypeOK, Count
  <2> QED
    BY <1>0, <1>8, <2>1, Zenon DEF TypeOK, Count
<1>9. ASSUME WriteEntry PROVE TypeOK'
  <2>1. counted' \in [Counters -> SUBSET Entries] /\ any_failed' \in BOOLEAN
    BY <1>0, <1>9, WriteMoves, Zenon
  <2> QED
    BY <1>0, <1>9, <2>1, Zenon DEF TypeOK, WriteEntry
<1>10. ASSUME Resolve PROVE TypeOK'
    BY <1>0, <1>10 DEF TypeOK, Resolve, resolve_one, Stages
<1>11. ASSUME Crash PROVE TypeOK'
  <2>1. Attempted \in Entries /\ pending_index' \in 0..Len(pending_batch)
    BY <1>0, <1>11, AttemptedFacts, ResolveMoves, Zenon DEF Crash
  <2>2. in_flight' \in Nat
    BY <1>0, <1>11 DEF TypeOK, Crash, resolve_one, Stages
  <2> QED
    BY <1>0, <1>11, <2>1, <2>2, Zenon DEF TypeOK, Crash
<1>12. ASSUME Settle PROVE TypeOK'
    BY <1>0, <1>12 DEF TypeOK, Settle
<1>13. ASSUME Observe PROVE TypeOK'
    BY <1>0, <1>13, Zenon DEF TypeOK, Observe, observed_drops
<1>14. ASSUME NoticeDeath PROVE TypeOK'
    BY <1>0, <1>14, Zenon DEF TypeOK, NoticeDeath
<1>15. ASSUME Respawn PROVE TypeOK'
  <2>1. restarts' \in 0..MaxRestarts /\ in_flight' \in Nat
    BY <1>0, <1>15, OutboxAssumption DEF TypeOK, Respawn
  <2> QED
    BY <1>0, <1>15, <2>1, Zenon DEF TypeOK, Respawn
<1>16. ASSUME AnnounceRespawn PROVE TypeOK'
  <2>1. worker_dead' \in BOOLEAN
    BY <1>16, Zenon DEF AnnounceRespawn, respawned_flag
  <2> QED
    BY <1>0, <1>16, <2>1 DEF TypeOK, AnnounceRespawn
<1>17. ASSUME BeginTeardown PROVE TypeOK'
    BY <1>0, <1>17, Zenon DEF TypeOK, BeginTeardown
<1>18. ASSUME Measure PROVE TypeOK'
    BY <1>0, <1>18 DEF TypeOK, Measure, RingType
<1>19. ASSUME StopWriter PROVE TypeOK'
    BY <1>0, <1>19, Zenon DEF TypeOK, StopWriter
<1>20. ASSUME Rescue PROVE TypeOK'
  <2>1. RingType(ring') /\ ring'.dropped = ring.dropped /\ handed' \in Seq(Entries)
    BY <1>0, <1>20, RescueMoves, Zenon
  <2>2. rescued_tail' \subseteq Entries
    BY <1>0, <1>20, PendingInBatch, Zenon DEF Rescue
  <2> QED
    BY <1>0, <1>20, <2>1, <2>2 DEF TypeOK, Rescue
<1>21. ASSUME DumpEntry PROVE TypeOK'
  <2>1. handed' \in Seq(Entries) /\ counted' \in [Counters -> SUBSET Entries]
    BY <1>0, <1>21, DumpMoves, Zenon
  <2> QED
    BY <1>0, <1>21, <2>1 DEF TypeOK, DumpEntry
<1>22. ASSUME Conclude PROVE TypeOK'
    BY <1>0, <1>22 DEF TypeOK, Conclude, RingType
<1>23. ASSUME UNCHANGED vars PROVE TypeOK'
    BY <1>0, <1>23 DEF TypeOK, vars
<1> QED
    BY <1>1, <1>2, <1>3, <1>4, <1>5, <1>6, <1>7, <1>8, <1>9, <1>10, <1>11, <1>12, <1>13,
       <1>14, <1>15, <1>16, <1>17, <1>18, <1>19, <1>20, <1>21, <1>22, <1>23, Zenon
       DEF Next, Capturing, Draining, Probing, TearingDown

-----------------------------------------------------------------------------
(* The steps that move entries keep the places apart and lose nothing *)

\* A newcomer was in no place before.
LEMMA PutKeeps ==
    ASSUME Inv, NEW e \in Entries, Put(e)
    PROVE  (Stages /\ Places /\ NothingVanishes)'
<1> USE DEF batchVars, writerVars, probeVars, flagVars, teardownVars
<1>0. TypeOK /\ Stages /\ Places /\ NothingVanishes
    BY Zenon DEF Inv
<1>1. Accepted' = Accepted \cup {e} /\ e \notin Accepted
    BY <1>0, Zenon DEF Put, Accepted, TypeOK
<1>2. /\ pending' = pending /\ Handed' = Handed /\ Attempts' = Attempts /\ Dumps' = Dumps
      /\ Attempted' = Attempted /\ After(pending_batch, 0)' = After(pending_batch, 0)
      /\ Rescued' = Rescued /\ stranded' = stranded /\ rescued_tail' = rescued_tail
      /\ Injective(pending_batch)' = Injective(pending_batch)
    BY Zenon DEF Put, pending, Handed, Attempts, Dumps, Attempted, Rescued, Injective
<1>3. /\ InRing(ring) \subseteq InRing(ring)' \cup ring'.dropped
      /\ ring.dropped \subseteq ring'.dropped
      /\ ring'.dropped \subseteq ring.dropped \cup InRing(ring)
      /\ InRing(ring)' \subseteq InRing(ring) \cup {e} /\ e \in InRing(ring)'
      /\ Injective(ring.items) /\ e \notin InRing(ring) =>
             Injective(ring'.items) /\ (ring'.dropped \ ring.dropped) \cap InRing(ring)' = {}
    BY <1>0, PutMoves, Zenon
<1>4. Stages'
    BY <1>0, <1>2, Zenon DEF Stages, Put
<1>5. Places'
  <2>1. e \notin InRing(ring) \cup After(pending_batch, 0) \cup Handed \cup Attempts
               \cup Dumps \cup ring.dropped \cup stranded
    BY <1>0, <1>1, Zenon DEF Places
  <2>2. pending \subseteq After(pending_batch, 0)
    BY <1>0, PendingInBatch, Zenon
  <2>3. /\ InRing(ring)' \cap ring'.dropped = {}
        /\ Injective(ring'.items)
    BY <1>0, <1>3, <2>1, Zenon DEF Places
  <2>4. InRing(ring)' \cap (Attempts \cup Dumps \cup Handed \cup After(pending_batch, 0)
                               \cup stranded) = {}
    BY <1>0, <1>3, <2>1 DEF Places
  <2>5. pending \cap ring'.dropped = {}
    BY <1>0, <1>3, <2>2, Zenon DEF Places
  <2>6. /\ InRing(ring)' \subseteq Accepted \cup {e}
        /\ ring'.dropped \subseteq Accepted \cup {e}
    BY <1>0, <1>3, Zenon DEF Places
  <2>7. writer' = writer /\ (ring.items)' = ring'.items /\ (ring.dropped)' = ring'.dropped
    BY Zenon DEF Put
  <2> QED
    BY <1>0, <1>1, <1>2, <2>3, <2>4, <2>5, <2>6, <2>7, Zenon DEF Places
<1>6. NothingVanishes'
  <2>1. late' = IF Rescued THEN late \cup {e} ELSE late
    BY Zenon DEF Put
  <2>2. (ring.dropped)' = ring'.dropped
    OBVIOUS
  <2>3. e \in late' \/ (~Rescued /\ e \in InRing(ring)')
    BY <1>3, <2>1, Zenon
  <2> QED
    BY <1>0, <1>1, <1>2, <1>3, <2>1, <2>2, <2>3, Zenon DEF NothingVanishes
<1> QED
    BY <1>4, <1>5, <1>6, Zenon

\* The new batch was on the ring, the old tail is stranded.
LEMMA PopKeeps ==
    ASSUME Inv, Pop
    PROVE  (Stages /\ Places /\ NothingVanishes)'
<1> USE DEF batchVars, writerVars, probeVars, flagVars, teardownVars
<1>0. TypeOK /\ Stages /\ Places /\ NothingVanishes
    BY Zenon DEF Inv
<1>1. /\ Handed' = Handed /\ Attempts' = Attempts /\ Dumps' = Dumps /\ Accepted' = Accepted
      /\ Rescued' = Rescued /\ rescued_tail' = rescued_tail /\ late' = late
      /\ stranded' = stranded \cup pending /\ handed' = handed
    BY Zenon DEF Pop, Handed, Attempts, Dumps, Accepted, Rescued
<1>2. /\ ring'.dropped = ring.dropped /\ pending' = After(pending_batch, 0)'
      /\ InRing(ring) = pending' \cup InRing(ring)'
      /\ Injective(ring'.items) /\ Injective(pending_batch')
      /\ pending' \cap InRing(ring)' = {}
    BY <1>0, PopMoves, Zenon DEF Places
<1>3. writer' \notin {"write", "resolve"}
    BY Zenon DEF Pop
<1>4. pending \subseteq After(pending_batch, 0)
    BY <1>0, PendingInBatch, Zenon
<1>5. /\ (ring.items)' = ring'.items /\ (ring.dropped)' = ring'.dropped
      /\ Injective(ring.items)' = Injective(ring'.items)
      /\ Injective(pending_batch)' = Injective(pending_batch')
    BY Zenon DEF Injective
<1>6a. probe' = "died" => writer' = "crashed"
    BY <1>0, Zenon DEF Stages, Pop
<1>6. Stages'
    BY <1>0, <1>1, <1>3, <1>6a, Zenon DEF Stages
<1>7. Places'
  <2>1. InRing(ring)' \cap stranded' = {} /\ pending' \cap stranded' = {}
    BY <1>0, <1>1, <1>2, <1>4, Zenon DEF Places
  <2>2. stranded' \subseteq Accepted
    BY <1>0, <1>1, <1>4, Zenon DEF Places
  <2>3. pending' \cap (Attempts \cup Dumps \cup Handed \cup ring.dropped) = {}
    BY <1>0, <1>2, Zenon DEF Places
  <2>4. InRing(ring)' \cap (Attempts \cup Dumps \cup Handed \cup ring.dropped) = {}
    BY <1>0, <1>2, Zenon DEF Places
  <2> QED
    BY <1>0, <1>1, <1>2, <1>3, <1>5, <2>1, <2>2, <2>3, <2>4 DEF Places
<1>8. NothingVanishes'
    BY <1>0, <1>1, <1>2, <1>5, Zenon DEF NothingVanishes
<1> QED
    BY <1>6, <1>7, <1>8, Zenon

\* The attempted entry was counted by nothing but, after a rescue, the dump.
LEMMA WriteKeeps ==
    ASSUME Inv, WriteEntry
    PROVE  (Stages /\ Places /\ NothingVanishes)'
<1> USE DEF captureVars, batchVars, writerVars, probeVars, flagVars, teardownVars
<1>0. TypeOK /\ Stages /\ Places /\ NothingVanishes
    BY Zenon DEF Inv
<1>1. /\ InRing(ring)' = InRing(ring) /\ pending' = pending /\ Handed' = Handed
      /\ Attempted' = Attempted /\ Accepted' = Accepted /\ Rescued' = Rescued
      /\ After(pending_batch, 0)' = After(pending_batch, 0)
      /\ (ring.dropped)' = ring.dropped /\ stranded' = stranded /\ late' = late
      /\ rescued_tail' = rescued_tail /\ handed' = handed
      /\ Injective(pending_batch)' = Injective(pending_batch)
      /\ Injective(ring.items)' = Injective(ring.items)
    BY Zenon DEF WriteEntry, InRing, pending, Handed, Attempted, Accepted, Rescued, Injective
<1>2. Attempts' = Attempts \cup {Attempted} /\ Dumps' = Dumps
    BY <1>0, WriteMoves, Zenon
<1>3. /\ writer = "write" /\ writer' = "resolve" /\ pending_index < Len(pending_batch)
      /\ UNCHANGED <<pending_batch, pending_index, in_flight>>
    BY Zenon DEF WriteEntry
<1>4. Attempted \in pending /\ pending \subseteq After(pending_batch, 0)
    BY <1>0, <1>3, AttemptedFacts, Zenon
<1>5a. probe' = "died" => writer' = "crashed"
    BY <1>0, Zenon DEF Stages, WriteEntry
<1>5. Stages'
    BY <1>0, <1>1, <1>2, <1>3, <1>5a, Zenon DEF Stages
<1>6. Places'
  <2>1. pending \cap Attempts = {}
    BY <1>0, <1>3, Zenon DEF Places
  <2>2. Attempted \in Accepted /\ Attempted \notin InRing(ring)
    BY <1>0, <1>4, Zenon DEF Places
  <2>3. (pending \cup Attempts') \cap (Dumps \cup Handed) \subseteq rescued_tail
    BY <1>0, <1>2, <1>4, Zenon DEF Places
  <2>4. Attempts' \subseteq Accepted /\ InRing(ring) \cap Attempts' = {}
    BY <1>0, <1>2, <2>2, Zenon DEF Places
  <2>5. pending \cap Attempts' \subseteq {Attempted}
    BY <1>2, <2>1, Zenon
  <2> QED
    BY <1>0, <1>1, <1>2, <1>3, <2>3, <2>4, <2>5, Zenon DEF Places
<1>7. NothingVanishes'
    BY <1>0, <1>1, <1>2, Zenon DEF NothingVanishes
<1> QED
    BY <1>5, <1>6, <1>7, Zenon

\* A resolved entry has been counted.
LEMMA ResolveKeeps ==
    ASSUME Inv, Resolve
    PROVE  (Stages /\ Places /\ NothingVanishes)'
<1> USE DEF captureVars, batchVars, writerVars, probeVars, flagVars, teardownVars
<1>0. TypeOK /\ Stages /\ Places /\ NothingVanishes
    BY Zenon DEF Inv
<1>1. /\ InRing(ring)' = InRing(ring) /\ Handed' = Handed /\ Attempts' = Attempts
      /\ Dumps' = Dumps /\ Accepted' = Accepted /\ Rescued' = Rescued
      /\ After(pending_batch, 0)' = After(pending_batch, 0)
      /\ (ring.dropped)' = ring.dropped /\ stranded' = stranded /\ late' = late
      /\ rescued_tail' = rescued_tail /\ handed' = handed
      /\ Injective(pending_batch)' = Injective(pending_batch)
      /\ Injective(ring.items)' = Injective(ring.items)
    BY Zenon DEF Resolve, InRing, Handed, Attempts, Dumps, Accepted, Rescued, Injective
<1>2. /\ writer = "resolve" /\ writer' = "write" /\ resolve_one /\ UNCHANGED pending_batch
    BY Zenon DEF Resolve
<1>3. pending_index < Len(pending_batch) /\ Attempted \in Attempts
    BY <1>0, <1>2, Zenon DEF Stages
<1>4. pending = pending' \cup {Attempted} /\ Attempted \notin pending'
    BY <1>0, <1>2, <1>3, ResolveMoves, Zenon DEF Places
<1>5. in_flight' >= Len(pending_batch') - pending_index'
    BY <1>0, <1>2, <1>3 DEF TypeOK, Stages, resolve_one
<1>6a. probe' = "died" => writer' = "crashed"
    BY <1>0, Zenon DEF Stages, Resolve
<1>6. Stages'
    BY <1>0, <1>1, <1>2, <1>5, <1>6a, Zenon DEF Stages
<1>7. Places'
    BY <1>0, <1>1, <1>2, <1>4, Zenon DEF Places
<1>8. NothingVanishes'
    BY <1>0, <1>1, <1>3, <1>4, Zenon DEF NothingVanishes
<1> QED
    BY <1>6, <1>7, <1>8, Zenon

\* The entry attempted at a crash is stranded.
LEMMA CrashKeeps ==
    ASSUME Inv, Crash
    PROVE  (Stages /\ Places /\ NothingVanishes)'
<1> USE DEF captureVars, batchVars, writerVars, probeVars, flagVars, teardownVars
<1>0. TypeOK /\ Stages /\ Places /\ NothingVanishes
    BY Zenon DEF Inv
<1>1. /\ InRing(ring)' = InRing(ring) /\ Handed' = Handed /\ Attempts' = Attempts
      /\ Dumps' = Dumps /\ Accepted' = Accepted /\ Rescued' = Rescued
      /\ After(pending_batch, 0)' = After(pending_batch, 0)
      /\ (ring.dropped)' = ring.dropped /\ stranded' = stranded \cup {Attempted}
      /\ late' = late /\ rescued_tail' = rescued_tail /\ handed' = handed
      /\ Injective(pending_batch)' = Injective(pending_batch)
      /\ Injective(ring.items)' = Injective(ring.items)
    BY Zenon DEF Crash, InRing, Handed, Attempts, Dumps, Accepted, Rescued, Injective
<1>2. /\ writer = "write" /\ writer' = "crashed" /\ resolve_one /\ UNCHANGED pending_batch
      /\ pending_index < Len(pending_batch)
    BY Zenon DEF Crash
<1>3. Attempted \in pending /\ pending \subseteq After(pending_batch, 0)
    BY <1>0, <1>2, AttemptedFacts, Zenon
<1>4. pending = pending' \cup {Attempted} /\ Attempted \notin pending'
    BY <1>0, <1>2, ResolveMoves, Zenon DEF Places
<1>5a. probe' = "died" => writer' = "crashed"
    BY <1>0, Zenon DEF Stages, Crash
<1>5. Stages'
    BY <1>0, <1>1, <1>2, <1>5a, Zenon DEF Stages
<1>6. Places'
  <2>1. pending \cap Attempts = {}
    BY <1>0, <1>2, Zenon DEF Places
  <2>2. Attempted \in Accepted /\ Attempted \notin InRing(ring)
    BY <1>0, <1>3, Zenon DEF Places
  <2> QED
    BY <1>0, <1>1, <1>2, <1>4, <2>1, <2>2, Zenon DEF Places
<1>7. NothingVanishes'
    BY <1>0, <1>1, <1>4, Zenon DEF NothingVanishes
<1> QED
    BY <1>5, <1>6, <1>7, Zenon

\* Everything on the ring and in the tail is handed over.
LEMMA RescueKeeps ==
    ASSUME Inv, Rescue
    PROVE  (Stages /\ Places /\ NothingVanishes)'
<1> USE DEF captureVars, batchVars, writerVars, probeVars, flagVars, teardownVars
<1>0. TypeOK /\ Stages /\ Places /\ NothingVanishes
    BY Zenon DEF Inv
<1>1. /\ pending' = pending /\ Attempts' = Attempts /\ Dumps' = Dumps
      /\ Accepted' = Accepted /\ Attempted' = Attempted
      /\ After(pending_batch, 0)' = After(pending_batch, 0)
      /\ stranded' = stranded /\ late' = late /\ rescued_tail' = pending
      /\ Injective(pending_batch)' = Injective(pending_batch)
      /\ UNCHANGED <<writer, pending_batch, pending_index, in_flight>>
    BY Zenon DEF Rescue, pending, Attempts, Dumps, Accepted, Attempted, Injective
<1>2. ~Rescued /\ Rescued'
    BY Zenon DEF Rescue, Rescued
<1>3. /\ ring'.dropped = ring.dropped /\ InRing(ring)' = {} /\ Injective(ring'.items)
      /\ Handed' = pending \cup InRing(ring)
    BY <1>0, RescueMoves, Zenon
<1>4. /\ (ring.dropped)' = ring'.dropped /\ Injective(ring.items)' = Injective(ring'.items)
    BY Zenon DEF Injective
<1>5. Handed = {} /\ Dumps = {}
    BY <1>0, <1>2, Zenon DEF Stages
<1>6a. probe' = "died" => writer' = "crashed"
    BY <1>0, Zenon DEF Stages, Rescue
<1>6. Stages'
    BY <1>0, <1>1, <1>2, <1>6a, Zenon DEF Stages
<1>7. Places'
  <2>1. pending \subseteq After(pending_batch, 0)
    BY <1>0, PendingInBatch, Zenon
  <2>2. (pending \cup Attempts) \cap (Dumps \cup Handed') \subseteq pending
    BY <1>0, <1>3, <1>5, <2>1, Zenon DEF Places
  <2>3. Handed' \subseteq Accepted
    BY <1>0, <1>3, <2>1, Zenon DEF Places
  <2> QED
    BY <1>0, <1>1, <1>3, <1>4, <2>2, <2>3, Zenon DEF Places
<1>8. NothingVanishes'
    BY <1>0, <1>1, <1>2, <1>3, <1>4, <1>5, Zenon DEF NothingVanishes
<1> QED
    BY <1>6, <1>7, <1>8, Zenon

\* What the dump takes in hand it counts.
LEMMA DumpKeeps ==
    ASSUME Inv, DumpEntry
    PROVE  (Stages /\ Places /\ NothingVanishes)'
<1> USE DEF captureVars, batchVars, writerVars, probeVars, flagVars, teardownVars
<1>0. TypeOK /\ Stages /\ Places /\ NothingVanishes
    BY Zenon DEF Inv
<1>1. /\ InRing(ring)' = InRing(ring) /\ pending' = pending
      /\ Accepted' = Accepted /\ Attempted' = Attempted
      /\ After(pending_batch, 0)' = After(pending_batch, 0)
      /\ (ring.dropped)' = ring.dropped
      /\ stranded' = stranded /\ late' = late /\ rescued_tail' = rescued_tail
      /\ Injective(pending_batch)' = Injective(pending_batch)
      /\ Injective(ring.items)' = Injective(ring.items)
      /\ UNCHANGED <<writer, pending_batch, pending_index, in_flight>>
    BY Zenon DEF DumpEntry, InRing, pending, Accepted, Attempted, Injective
<1>2. Rescued /\ Rescued'
    BY Zenon DEF DumpEntry, Rescued
<1>3. Attempts' = Attempts /\ Handed \cup Dumps = Handed' \cup Dumps'
    BY <1>0, DumpMoves, Zenon
<1>4a. probe' = "died" => writer' = "crashed"
    BY <1>0, Zenon DEF Stages, DumpEntry
<1>4. Stages'
    BY <1>0, <1>1, <1>2, <1>3, <1>4a, Zenon DEF Stages
<1>5. Places'
    BY <1>0, <1>1, <1>3, Zenon DEF Places
<1>6. NothingVanishes'
    BY <1>0, <1>1, <1>2, <1>3, Zenon DEF NothingVanishes
<1> QED
    BY <1>4, <1>5, <1>6, Zenon

-----------------------------------------------------------------------------
(* Every step keeps the invariant *)

\* The steps that move no entry.
QuietNext ==
    \/ \E e \in Entries : CheckWorker(e) \/ StoreSync(e)
    \/ LeaveLoop \/ FlushDue \/ NotDue \/ Count \/ Settle \/ Observe
    \/ Probing \/ BeginTeardown \/ Measure \/ StopWriter \/ Conclude

\* They leave every place as it is, and every stage.
LEMMA QuietFacts ==
    ASSUME Inv, QuietNext \/ UNCHANGED vars
    PROVE  /\ UNCHANGED <<ring, pending_batch, pending_index, counted, handed, stranded,
                          late, rescued_tail>>
           /\ Accepted' = Accepted /\ Rescued' = Rescued
           /\ writer' = "resolve" <=> writer = "resolve"
           /\ Stages'
<1> USE DEF captureVars, batchVars, writerVars, probeVars, flagVars, teardownVars
<1>0. TypeOK /\ Stages
    BY Zenon DEF Inv
<1>1. Accepted' = Accepted
  <2>1. ASSUME NEW e \in Entries, CheckWorker(e) \/ StoreSync(e)
        PROVE  Accepted' = Accepted
    BY <1>0, <2>1, Zenon DEF CheckWorker, StoreSync, Accepted, TypeOK
  <2>2. ASSUME UNCHANGED capture PROVE Accepted' = Accepted
    BY <2>2, Zenon DEF Accepted
  <2> QED
    BY <2>1, <2>2, Zenon DEF QuietNext, LeaveLoop, FlushDue, NotDue, Turn, Count, Settle,
       Observe, Probing, NoticeDeath, Respawn, AnnounceRespawn, BeginTeardown, Measure,
       StopWriter, Conclude, vars
<1>2. UNCHANGED <<ring, pending_batch, pending_index, counted, handed, stranded, late,
                  rescued_tail>>
    BY Zenon DEF QuietNext, CheckWorker, StoreSync, LeaveLoop, FlushDue, NotDue, Turn, Count,
       Settle, Observe, Probing, NoticeDeath, Respawn, AnnounceRespawn, BeginTeardown,
       Measure, StopWriter, Conclude, vars
<1>3. Rescued' = Rescued
  <2>1. CASE BeginTeardown \/ Measure \/ StopWriter \/ Conclude
    <3>1. \/ teardown \in {"dumping"} /\ teardown' \in {"done"}
          \/ teardown \notin {"dumping", "done"} /\ teardown' \notin {"dumping", "done"}
      <4>1. CASE BeginTeardown
        BY <4>1, Zenon DEF BeginTeardown
      <4>2. CASE Measure
        BY <4>2, Zenon DEF Measure
      <4>3. CASE StopWriter
        BY <4>3, Zenon DEF StopWriter
      <4>4. CASE Conclude
        BY <4>4, Zenon DEF Conclude
      <4> QED
        BY <2>1, <4>1, <4>2, <4>3, <4>4, Zenon
    <3> QED
      BY ONLY <3>1 DEF Rescued
  <2>2. CASE ~(BeginTeardown \/ Measure \/ StopWriter \/ Conclude)
    <3>1. UNCHANGED teardown
      BY <2>2, Zenon DEF QuietNext, CheckWorker, StoreSync, LeaveLoop, FlushDue, NotDue, Turn,
         Count, Settle, Observe, Probing, NoticeDeath, Respawn, AnnounceRespawn, vars
    <3> QED
      BY <3>1, Zenon DEF Rescued
  <2> QED
    BY <2>1, <2>2, Zenon
<1>4. writer' = "resolve" <=> writer = "resolve"
    BY <1>0, Zenon DEF QuietNext, CheckWorker, StoreSync, LeaveLoop, FlushDue, NotDue, Turn,
       Count, Settle, Observe, Probing, NoticeDeath, Respawn, AnnounceRespawn,
       BeginTeardown, Measure, StopWriter, Conclude, vars, Stages
<1>5. probe' = "died" => writer' = "crashed"
    BY <1>0, Zenon DEF QuietNext, CheckWorker, StoreSync, LeaveLoop, FlushDue, NotDue, Turn,
       Count, Settle, Observe, Probing, NoticeDeath, Respawn, AnnounceRespawn,
       BeginTeardown, Measure, StopWriter, Conclude, vars, Stages
<1>6. writer' \in {"write", "resolve"} => in_flight' >= Len(pending_batch) - pending_index
  <2>1. CASE Count
    <3>1. in_flight' = in_flight + Len(pending_batch)
      BY <2>1, Zenon DEF Count
    <3>2. in_flight \in Nat /\ pending_index \in Nat /\ Len(pending_batch) \in Nat
      BY <1>0 DEF TypeOK
    <3> QED
      BY <3>1, <3>2
  <2>2. CASE ~Count
    <3>1. writer' \in {"write", "resolve"} => writer' = writer /\ in_flight' = in_flight
      BY <1>0, <2>2, Zenon DEF QuietNext, CheckWorker, StoreSync, LeaveLoop, FlushDue, NotDue,
         Turn, Settle, Observe, Probing, NoticeDeath, Respawn, AnnounceRespawn,
         BeginTeardown, Measure, StopWriter, Conclude, vars
    <3> QED
      BY <1>0, <3>1, Zenon DEF Stages
  <2> QED
    BY <2>1, <2>2, Zenon
<1>7. /\ Handed' = Handed /\ Dumps' = Dumps /\ Attempts' = Attempts
      /\ Attempted' = Attempted
    BY <1>2, Zenon DEF Handed, Dumps, Attempts, Attempted
<1>8. Stages'
    BY <1>0, <1>2, <1>3, <1>4, <1>5, <1>6, <1>7, Zenon DEF Stages
<1> QED
    BY <1>1, <1>2, <1>3, <1>4, <1>8, Zenon

\* The coercion of the producers stands from the start of the teardown.
LEMMA CoercionStep ==
    ASSUME Inv, [Next]_vars
    PROVE  (teardown_started => worker_dead)'
<1> USE DEF captureVars, batchVars, writerVars, probeVars, flagVars, teardownVars
<1>1. teardown_started => worker_dead
    BY Zenon DEF Inv
<1>2. CASE AnnounceRespawn
    BY <1>1, <1>2, Zenon DEF AnnounceRespawn, respawned_flag
<1>3. CASE NoticeDeath \/ BeginTeardown
  <2>1. worker_dead' = TRUE
    BY <1>3, Zenon DEF NoticeDeath, BeginTeardown
  <2> QED
    BY <2>1, Zenon
<1>4. CASE ~AnnounceRespawn /\ ~NoticeDeath /\ ~BeginTeardown
  <2>1. UNCHANGED <<worker_dead, teardown_started>>
    BY <1>4, Zenon DEF Next, Capturing, Draining, Probing, TearingDown, CheckWorker, Put,
       StoreSync, LeaveLoop, FlushDue, NotDue, Turn, Pop, Count, WriteEntry, Resolve,
       Crash, Settle, Observe, Respawn, Measure, StopWriter, Rescue, DumpEntry,
       Conclude, vars
  <2> QED
    BY <1>1, <2>1, Zenon
<1> QED
    BY <1>2, <1>3, <1>4, Zenon

\* The invariant is inductive.
LEMMA NextInv == Inv /\ [Next]_vars => Inv'
<1> SUFFICES ASSUME Inv, [Next]_vars PROVE Inv'
    OBVIOUS
<1>1. TypeOK' /\ (teardown_started => worker_dead)'
    BY TypeStep, CoercionStep, Zenon
<1>2. (Stages /\ Places /\ NothingVanishes)'
  <2>1. CASE QuietNext \/ UNCHANGED vars
    BY <2>1, QuietFacts, QuietStep, Zenon
  <2>2. CASE \E e \in Entries : Put(e)
    BY <2>2, PutKeeps, Zenon
  <2>3. CASE Pop
    BY <2>3, PopKeeps, Zenon
  <2>4. CASE WriteEntry
    BY <2>4, WriteKeeps, Zenon
  <2>5. CASE Resolve
    BY <2>5, ResolveKeeps, Zenon
  <2>6. CASE Crash
    BY <2>6, CrashKeeps, Zenon
  <2>7. CASE Rescue
    BY <2>7, RescueKeeps, Zenon
  <2>8. CASE DumpEntry
    BY <2>8, DumpKeeps, Zenon
  <2> QED
    BY <2>1, <2>2, <2>3, <2>4, <2>5, <2>6, <2>7, <2>8, Zenon
       DEF Next, QuietNext, Capturing, Draining, Probing, TearingDown
<1> QED
    BY <1>1, <1>2, Zenon DEF Inv

\* The inductive invariant holds in every reachable state.
THEOREM Invariance == Spec => []Inv
<1> QED
    BY InitInv, NextInv, PTL DEF Spec

\* Entries, batches, counters and flags keep their types, and the index of the
\* batch never passes its end (_pop_and_publish, _flush_batch).
THEOREM OutboxTypeCorrect == Spec => []TypeOK
<1>1. Inv => TypeOK
    BY Zenon DEF Inv
<1> QED
    BY <1>1, Invariance, PTL

\* No accepted entry vanishes between ring, batch and dump, whatever the
\* interleaving of producers, drainer, probe and teardown (_pop_and_publish,
\* stop).
THEOREM NothingVanishesCorrect == Spec => []NothingVanishes
<1>1. Inv => NothingVanishes
    BY Zenon DEF Inv
<1> QED
    BY <1>1, Invariance, PTL

\* An entry is attempted and dumped only if the rescue found it in the tail of
\* the drainer's batch (stop).
THEOREM DoubleOnlyIfRescuedCorrect == Spec => []DoubleOnlyIfRescued
<1>1. Inv => DoubleOnlyIfRescued
  <2>1. ASSUME TypeOK PROVE pending \subseteq After(pending_batch, 0)
    BY <2>1, PendingInBatch, Zenon
  <2> QED
    BY <2>1, Zenon DEF Inv, Places, DoubleOnlyIfRescued
<1> QED
    BY <1>1, Invariance, PTL

\* No capture is sent to the ring once the teardown has begun
\* (stop_outbox_for_shutdown, _on_daemon_worker_respawned).
THEOREM CoercionHoldsCorrect == Spec => CoercionHolds
<1>1. ASSUME Inv, [Next]_vars
      PROVE  [teardown_started =>
                \A e \in Entries : capture[e] = "idle" => capture'[e] # "checked"]_vars
  <2> USE DEF captureVars, batchVars, writerVars, probeVars, flagVars, teardownVars
  <2>1. ASSUME teardown_started, NEW d \in Entries, CheckWorker(d),
               NEW e \in Entries, capture[e] = "idle"
        PROVE  capture'[e] # "checked"
    BY <1>1, <2>1, Zenon DEF CheckWorker, Inv, TypeOK
  <2>2. ASSUME NEW d \in Entries, Put(d) \/ StoreSync(d),
               NEW e \in Entries, capture[e] = "idle"
        PROVE  capture'[e] # "checked"
    BY <1>1, <2>2, Zenon DEF Put, StoreSync, Inv, TypeOK
  <2>3. ASSUME UNCHANGED capture, NEW e \in Entries, capture[e] = "idle"
        PROVE  capture'[e] # "checked"
    BY <2>3, Zenon
  <2>4. \/ \E d \in Entries : CheckWorker(d) \/ Put(d) \/ StoreSync(d)
        \/ UNCHANGED capture
    BY <1>1, Zenon DEF Next, Capturing, Draining, Probing, TearingDown,
       LeaveLoop, FlushDue, NotDue, Turn, Pop, Count, WriteEntry, Resolve,
       Crash, Settle, Observe, NoticeDeath, Respawn, AnnounceRespawn, BeginTeardown,
       Measure, StopWriter, Rescue, DumpEntry, Conclude, vars
  <2> QED
    BY <2>1, <2>2, <2>3, <2>4, Zenon
<1> QED
    BY <1>1, Invariance, PTL DEF Spec, CoercionHolds

-----------------------------------------------------------------------------
(* Who accounts for a drop *)

\* The drainer leaves its loop only after the first reading, so its last
\* observation covers what that reading took as known; what is evicted after
\* the rescue was put after it.
DropInv ==
    /\ stop_event => teardown \in {"joining", "dumping", "done"}
    /\ last_pass => stop_event
    /\ writer = "exited" => last_pass /\ before_dropped \subseteq seen_dropped
    /\ before_dropped \subseteq ring.dropped
    /\ Rescued => InRing(ring) \subseteq late
    /\ teardown = "done" =>
          ring.dropped \subseteq before_dropped \cup late \cup reported_dropped

\* The steps that touch neither the ring nor the readings of its drops.
LEMMA DropQuiet ==
    ASSUME DropInv, UNCHANGED <<ring, late, before_dropped, reported_dropped, teardown>>,
           stop_event' = stop_event, last_pass' => stop_event,
           writer' = "exited" =>
              last_pass' /\ before_dropped \subseteq seen_dropped'
    PROVE  DropInv'
<1>1. Rescued' = Rescued /\ InRing(ring)' = InRing(ring)
    BY Zenon DEF Rescued, InRing
<1> QED
    BY <1>1, Zenon DEF DropInv

\* A capture: what a put evicts after the rescue was late itself.
LEMMA DropCapture ==
    ASSUME TypeOK, DropInv, NEW e \in Entries, CheckWorker(e) \/ Put(e) \/ StoreSync(e)
    PROVE  DropInv'
<1> USE DEF captureVars, batchVars, writerVars, probeVars, flagVars, teardownVars
<1>1. CASE CheckWorker(e) \/ StoreSync(e)
  <2>1. /\ UNCHANGED <<ring, late, before_dropped, reported_dropped, teardown, stop_event>>
        /\ UNCHANGED <<last_pass, seen_dropped, writer>>
    BY <1>1, Zenon DEF CheckWorker, StoreSync
  <2> QED
    BY <2>1, DropQuiet, Zenon DEF DropInv
<1>2. CASE Put(e)
  <2>1. /\ ring.dropped \subseteq ring'.dropped
        /\ ring'.dropped \subseteq ring.dropped \cup InRing(ring)
        /\ InRing(ring)' \subseteq InRing(ring) \cup {e}
    BY <1>2, PutMoves, Zenon
  <2>2. /\ UNCHANGED <<stop_event, last_pass, writer, before_dropped, seen_dropped,
                       reported_dropped, teardown>>
        /\ late' = IF Rescued THEN late \cup {e} ELSE late
    BY <1>2, Zenon DEF Put
  <2>3. Rescued' = Rescued
    BY <2>2, Zenon DEF Rescued
  <2>4. Rescued => InRing(ring)' \subseteq late' /\ late \subseteq late'
    BY <2>1, <2>2, Zenon DEF DropInv
  <2>5. teardown = "done" =>
          ring'.dropped \subseteq before_dropped \cup late' \cup reported_dropped
    BY <2>1, <2>4, Zenon DEF DropInv, Rescued
  <2> QED
    BY <2>1, <2>2, <2>3, <2>4, <2>5, Zenon DEF DropInv
<1> QED
    BY <1>1, <1>2, Zenon

\* A step of the drainer or of the probe: the thread ends with an observation,
\* and only after it has been told to stop.
LEMMA DropDrain ==
    ASSUME TypeOK, DropInv, Draining \/ Crash \/ Probing
    PROVE  DropInv'
<1> USE DEF captureVars, batchVars, writerVars, probeVars, flagVars, teardownVars
<1>1. CASE Pop
  <2>1. /\ ring'.dropped = ring.dropped /\ InRing(ring)' \subseteq InRing(ring)
        /\ writer' # "exited"
        /\ UNCHANGED <<late, before_dropped, reported_dropped, teardown, stop_event,
                       last_pass, seen_dropped>>
    BY <1>1, PopMoves, Zenon DEF Pop
  <2>2. Rescued' = Rescued
    BY <2>1, Zenon DEF Rescued
  <2> QED
    BY <2>1, <2>2, Zenon DEF DropInv
<1>2. CASE Observe
  <2>1. /\ seen_dropped' = ring.dropped
        /\ writer' = IF last_pass THEN "exited" ELSE "loop"
        /\ UNCHANGED <<ring, late, before_dropped, reported_dropped, teardown,
                       stop_event, last_pass>>
    BY <1>2, Zenon DEF Observe, observed_drops
  <2>2. before_dropped \subseteq seen_dropped' /\ (writer' = "exited" => last_pass')
    BY <2>1, Zenon DEF DropInv
  <2> QED
    BY <2>1, <2>2, DropQuiet, Zenon DEF DropInv
<1>3. CASE LeaveLoop \/ FlushDue \/ NotDue
  <2>1. /\ UNCHANGED <<ring, late, before_dropped, reported_dropped, teardown, stop_event>>
        /\ last_pass' = last_pass \/ stop_event
        /\ writer' # "exited"
    <3>1. CASE LeaveLoop
      BY <3>1, Zenon DEF LeaveLoop, Turn
    <3>2. CASE FlushDue \/ NotDue
      BY <3>2, Zenon DEF FlushDue, NotDue, Turn
    <3> QED
      BY <1>3, <3>1, <3>2, Zenon
  <2> QED
    BY <2>1, DropQuiet DEF DropInv
<1>4. CASE Count \/ WriteEntry \/ Resolve \/ Settle \/ Crash
  <2>1. /\ UNCHANGED <<ring, late, before_dropped, reported_dropped, teardown, stop_event>>
        /\ last_pass' = last_pass /\ seen_dropped' = seen_dropped /\ writer' # "exited"
    <3>1. CASE Count \/ WriteEntry
      BY <3>1, Zenon DEF Count, WriteEntry
    <3>2. CASE Resolve
      BY <3>2, Zenon DEF Resolve
    <3>3. CASE Settle
      BY <3>3, Zenon DEF Settle
    <3>4. CASE Crash
      BY <3>4, Zenon DEF Crash
    <3> QED
      BY <1>4, <3>1, <3>2, <3>3, <3>4, Zenon
  <2> QED
    BY <2>1, DropQuiet, Zenon DEF DropInv
<1>5. CASE Probing
  <2>1. /\ UNCHANGED <<ring, late, before_dropped, reported_dropped, teardown, stop_event>>
        /\ seen_dropped' = seen_dropped
        /\ writer' = "loop" \/ writer' = writer
        /\ last_pass' = last_pass \/ (~last_pass' /\ writer' = "loop")
    <3>1. CASE NoticeDeath
      BY <3>1, Zenon DEF NoticeDeath
    <3>2. CASE Respawn
      BY <3>2, Zenon DEF Respawn
    <3>3. CASE AnnounceRespawn
      BY <3>3, Zenon DEF AnnounceRespawn
    <3> QED
      BY <1>5, <3>1, <3>2, <3>3, Zenon DEF Probing
  <2> QED
    BY <2>1, DropQuiet DEF DropInv
<1> QED
    BY <1>1, <1>2, <1>3, <1>4, <1>5, Zenon DEF Draining

\* A step of the teardown: its first reading precedes the stop, its second one
\* the report.
LEMMA DropTeardown ==
    ASSUME TypeOK, DropInv, BeginTeardown \/ TearingDown
    PROVE  DropInv'
<1> USE DEF captureVars, batchVars, writerVars, probeVars, flagVars, teardownVars
<1>1. CASE BeginTeardown
    BY <1>1, Zenon DEF BeginTeardown, DropInv, Rescued
<1>2. CASE Measure
  <2>1. /\ teardown = "begun" /\ teardown' = "measured" /\ before_dropped' = ring.dropped
        /\ UNCHANGED <<ring, late, writer, stop_event, last_pass, seen_dropped>>
    BY <1>2, Zenon DEF Measure
  <2>2. ~stop_event /\ ~last_pass /\ writer # "exited"
    BY <2>1, Zenon DEF DropInv
  <2> QED
    BY <2>1, <2>2, Zenon DEF DropInv, Rescued
<1>3. CASE StopWriter
    BY <1>3, Zenon DEF StopWriter, DropInv, Rescued
<1>4. CASE Rescue
  <2>1. ring'.dropped = ring.dropped /\ InRing(ring)' = {}
    BY <1>4, RescueMoves, Zenon
  <2>2. /\ teardown' = "dumping"
        /\ UNCHANGED <<late, writer, stop_event, last_pass, seen_dropped, before_dropped>>
    BY <1>4, Zenon DEF Rescue
  <2> QED
    BY <2>1, <2>2, Zenon DEF DropInv
<1>5. CASE DumpEntry
    BY <1>5, DropQuiet, Zenon DEF DumpEntry, DropInv
<1>6. CASE Conclude
  <2>1. /\ teardown = "dumping" /\ teardown' = "done"
        /\ reported_dropped' = ring.dropped \ before_dropped
        /\ UNCHANGED <<ring, late, writer, stop_event, last_pass, seen_dropped,
                       before_dropped>>
    BY <1>6, Zenon DEF Conclude
  <2>2. InRing(ring)' = InRing(ring) /\ Rescued
    BY <2>1, Zenon DEF InRing, Rescued
  <2> QED
    BY <2>1, <2>2, Zenon DEF DropInv
<1> QED
    BY <1>1, <1>2, <1>3, <1>4, <1>5, <1>6, Zenon DEF TearingDown

\* When the process ends, every drop was observed by the drainer or reported by
\* the teardown (_observe_drop_window, stop_outbox_for_shutdown).
THEOREM DropsAccountedCorrect == Spec => []DropsAccounted
<1>1. Init => DropInv
    BY Zenon DEF Init, DropInv, Rescued
<1>2. Inv /\ DropInv /\ [Next]_vars => DropInv'
  <2> SUFFICES ASSUME Inv, DropInv, [Next]_vars PROVE DropInv'
    OBVIOUS
  <2>1. TypeOK
    BY Zenon DEF Inv
  <2>2. CASE UNCHANGED vars
    BY <2>2, DropQuiet, Zenon DEF vars, captureVars, writerVars, teardownVars, DropInv
  <2> QED
    BY <2>1, <2>2, DropCapture, DropDrain, DropTeardown, Zenon DEF Next, Capturing
<1>3. DropInv => DropsAccounted
    BY Zenon DEF DropInv, DropsAccounted
<1> QED
    BY <1>1, <1>2, <1>3, Invariance, PTL DEF Spec

-----------------------------------------------------------------------------
(* The outbox implements the ledger *)

\* Everything the threads still have in hand, and everything given up.
Place == InRing(ring) \cup pending \cup Handed
Gone == counted["failed"] \cup counted["residual"] \cup ring.dropped \cup stranded

\* What the ledger says, in those terms.
LEMMA LedgerOf ==
    /\ Lost = Gone \ Kept /\ Held = Place \ (Kept \cup Gone)
    /\ Lost' = Gone' \ Kept' /\ Held' = Place' \ (Kept' \cup Gone')
<1>1. Lost = Gone \ Kept /\ Held = Place \ (Kept \cup Gone)
    BY Zenon DEF Lost, Held, Gone, Place
<1>2. Lost' = Gone' \ Kept' /\ Held' = Place' \ (Kept' \cup Gone')
    BY Zenon DEF Lost, Held, Gone, Place
<1> QED
    BY <1>1, <1>2, Zenon

\* A step of the ledger.
LedgerStep == [Ledger!Next]_(<<Held, Kept, Lost>>)

\* Giving entries up is a step of the ledger, or none if their fate was known.
LEMMA GiveUpStep ==
    ASSUME NEW S \in SUBSET Entries, S \subseteq Place, Place' \subseteq Place,
           Place \subseteq Place' \cup Kept \cup Gone',
           Kept' = Kept, Gone' = Gone \cup S
    PROVE  LedgerStep
<1> DEFINE T == S \ (Kept \cup Gone)
<1>1. Held' = Held \ T /\ Lost' = Lost \cup T /\ T \subseteq Held
    BY LedgerOf, Zenon
<1>2. T \in SUBSET Entries
    OBVIOUS
<1> HIDE DEF T
<1>3. CASE T = {}
    BY <1>1, <1>3, Zenon DEF LedgerStep
<1>4. CASE T # {}
    BY <1>1, <1>2, <1>4, Zenon DEF LedgerStep, Ledger!Next, Ledger!Lose
<1> QED
    BY <1>3, <1>4, Zenon

\* Keeping an entry is a step of the ledger, or none if it was kept before.
LEMMA KeepStep ==
    ASSUME NEW x \in Entries, x \in Place, Place' \subseteq Place,
           Place \subseteq Place' \cup {x},
           Kept' = Kept \cup {x}, Gone' = Gone
    PROVE  LedgerStep
<1>1. Held' = Held \ {x} /\ Lost' = Lost \ {x}
    BY LedgerOf, Zenon
<1>2. CASE x \in Kept
    BY <1>1, <1>2, LedgerOf DEF LedgerStep
<1>3. CASE x \notin Kept
  <2>1. x \in Held \cup Lost
    BY <1>3, LedgerOf, Zenon
  <2> QED
    BY <1>1, <2>1, Zenon DEF LedgerStep, Ledger!Next, Ledger!Keep
<1> QED
    BY <1>2, <1>3, Zenon

\* A put is accepted by the ledger, in place of an entry if the ring is full.
LEMMA PutLedger ==
    ASSUME Inv, NEW e \in Entries, Put(e)
    PROVE  LedgerStep
<1> USE DEF batchVars, writerVars, probeVars, flagVars, teardownVars
<1> DEFINE s == ring.items
<1>0. TypeOK /\ Places
    BY Zenon DEF Inv
<1>1. s \in Seq(Entries) /\ Len(s) \in Nat /\ InRing(ring) = After(s, 0)
    BY <1>0 DEF TypeOK, RingType, InRing
<1>2. /\ pending' = pending /\ Handed' = Handed /\ Kept' = Kept
      /\ UNCHANGED <<counted, stranded>>
    BY Zenon DEF Put, pending, Handed, Kept
<1>3. /\ Kept \subseteq Attempts \cup Dumps
      /\ counted["failed"] \cup counted["residual"] \subseteq Attempts \cup Dumps
    BY Zenon DEF Kept, Attempts, Dumps
<1>4. InRing(ring) \cap (Kept \cup Gone) = {}
    BY <1>0, <1>3, Zenon DEF Places, Gone
<1>5. e \notin Place \cup Kept \cup Gone
  <2>1. e \notin Accepted
    BY Zenon DEF Put, Accepted
  <2>2. pending \subseteq After(pending_batch, 0)
    BY <1>0, PendingInBatch, Zenon
  <2> QED
    BY <1>0, <1>3, <2>1, <2>2, Zenon DEF Places, Gone, Place
<1>6. CASE size(ring) >= Capacity
  <2> DEFINE d == Head(s)
  <2>1. s # <<>>
    BY <1>1, <1>6, RingAssumption DEF size
  <2>2. /\ Tail(s) \in Seq(Entries) /\ d \in Entries
        /\ After(s, 0) = After(Tail(s), 0) \cup {d} /\ d \notin After(Tail(s), 0)
    BY <1>0, <1>1, <2>1, TailFacts, Zenon DEF Places
  <2>3. ring'.items = Append(Tail(s), e) /\ ring'.dropped = ring.dropped \cup {d}
    BY <1>6, Zenon DEF Put, put
  <2>4. InRing(ring)' = After(Tail(s), 0) \cup {e}
    BY <2>2, <2>3, AppendFacts, Zenon DEF InRing
  <2>5. Place' = (InRing(ring) \ {d}) \cup {e} \cup pending \cup Handed
    <3> HIDE DEF d
    <3> QED
      BY <1>1, <1>2, <2>2, <2>4, Zenon DEF Place
  <2>6. Gone' = Gone \cup {d}
    BY <1>2, <2>3, Zenon DEF Gone
  <2>7. d \in InRing(ring)
    BY <1>1, <2>2, Zenon
  <2>8. Ledger!Full(Held)
    <3> DEFINE f == [i \in 1..Capacity |-> s[i]]
    <3>1. \A i \in 1..Capacity : i \in 1..Len(s)
      BY <1>1, <1>6, RingAssumption DEF size
    <3>2. \A i \in 1..Len(s) : s[i] \in InRing(ring)
      BY <1>1 DEF After
    <3>3. InRing(ring) \subseteq Held
      BY <1>4, LedgerOf, Zenon DEF Place
    <3>4. f \in [1..Capacity -> Held]
      BY <3>1, <3>2, <3>3, Zenon
    <3>5. \A i, j \in 1..Capacity : f[i] = f[j] => i = j
      BY <1>0, <3>1, Zenon DEF Places, Injective
    <3> HIDE DEF f
    <3> QED
      BY <3>4, <3>5, Zenon DEF Ledger!Full
  <2> HIDE DEF d
  <2>9. d \in Held
    BY <1>4, <2>7, LedgerOf, Zenon DEF Place
  <2>10. Held' = (Held \ {d}) \cup {e}
    <3>1. e # d /\ e \notin Kept /\ e \notin Gone
      BY <1>5, <2>7, Zenon DEF Place
    <3>2. Place' \ {d} = (Place \ {d}) \cup {e}
      BY <2>5, <3>1, Zenon DEF Place
    <3>3. Held = Place \ (Kept \cup Gone) /\ Held' = Place' \ (Kept \cup Gone \cup {d})
      BY <1>2, <2>6, LedgerOf, Zenon
    <3> QED
      BY <3>1, <3>2, <3>3, Zenon
  <2>11. Lost' = Lost \cup {d}
    <3>1. d \notin Kept
      BY <1>4, <2>7, Zenon
    <3> QED
      BY <1>2, <2>6, <3>1, LedgerOf, Zenon
  <2>12. Ledger!New(e)
    BY <1>5, LedgerOf, Zenon DEF Ledger!New
  <2> QED
    BY <1>2, <2>2, <2>8, <2>9, <2>10, <2>11, <2>12, Zenon
       DEF LedgerStep, Ledger!Next, Ledger!Displace
<1>7. CASE ~(size(ring) >= Capacity)
  <2>1. ring'.items = Append(s, e) /\ ring'.dropped = ring.dropped
    BY <1>7, <1>0, Zenon DEF Put, put, TypeOK, RingType
  <2>2. InRing(ring)' = InRing(ring) \cup {e}
    BY <1>1, <2>1, AppendFacts, Zenon DEF InRing
  <2>3. Place' = Place \cup {e} /\ Gone' = Gone
    BY <1>2, <2>1, <2>2, Zenon DEF Place, Gone
  <2>4. Held' = Held \cup {e} /\ Lost' = Lost
    BY <1>2, <1>5, <2>3, LedgerOf, Zenon
  <2>5. Ledger!New(e)
    BY <1>5, LedgerOf, Zenon DEF Ledger!New
  <2> QED
    BY <1>2, <2>4, <2>5, Zenon DEF LedgerStep, Ledger!Next, Ledger!Accept
<1> QED
    BY <1>6, <1>7, Zenon

\* A pop gives up the tail it forgets.
LEMMA PopLedger ==
    ASSUME Inv, Pop
    PROVE  LedgerStep
<1> USE DEF batchVars, writerVars, probeVars, flagVars, teardownVars
<1>0. TypeOK
    BY Zenon DEF Inv
<1>1. /\ Handed' = Handed /\ Kept' = Kept /\ stranded' = stranded \cup pending
      /\ counted' = counted
    BY Zenon DEF Pop, Handed, Kept
<1>2. ring'.dropped = ring.dropped /\ InRing(ring) = pending' \cup InRing(ring)'
    BY <1>0, PopMoves, Zenon
<1>3. pending \subseteq Entries
    BY <1>0, PendingInBatch, Zenon
<1>4. Gone' = Gone \cup pending
    BY <1>1, <1>2, Zenon DEF Gone
<1>5. /\ pending \subseteq Place /\ Place' \subseteq Place
      /\ Place \subseteq Place' \cup Kept \cup Gone'
    BY <1>1, <1>2, <1>4, Zenon DEF Place
<1> QED
    BY <1>1, <1>3, <1>4, <1>5, GiveUpStep, Zenon

\* An attempt keeps its entry or gives it up.
LEMMA WriteLedger ==
    ASSUME Inv, WriteEntry
    PROVE  LedgerStep
<1> USE DEF captureVars, batchVars, writerVars, probeVars, flagVars, teardownVars
<1>0. TypeOK
    BY Zenon DEF Inv
<1>1. Place' = Place /\ ring' = ring /\ stranded' = stranded
    BY Zenon DEF WriteEntry, Place, InRing, pending, Handed
<1>2. Attempted \in Entries /\ Attempted \in Place
    BY <1>0, AttemptedFacts, Zenon DEF WriteEntry, Place
<1>3. counted \in [Counters -> SUBSET Entries]
    BY <1>0, Zenon DEF TypeOK
<1>4. PICK o \in Outcomes : counted' = [counted EXCEPT ![o.counter] = @ \cup {Attempted}]
    BY Zenon DEF WriteEntry
<1>5. CASE o.counter \in {"written", "soft_failed"}
  <2>1. Kept' = Kept \cup {Attempted}
    BY <1>3, <1>4, <1>5, Zenon DEF Kept, Counters
  <2>2. Gone' = Gone
    BY <1>1, <1>3, <1>4, <1>5, Zenon DEF Gone, Counters
  <2> QED
    BY <1>1, <1>2, <2>1, <2>2, KeepStep, Zenon
<1>6. CASE o.counter = "failed"
  <2>1. Kept' = Kept
    BY <1>3, <1>4, <1>6, Zenon DEF Kept, Counters
  <2>2. Gone' = Gone \cup {Attempted}
    BY <1>1, <1>3, <1>4, <1>6, Zenon DEF Gone, Counters
  <2>3. {Attempted} \in SUBSET Entries /\ {Attempted} \subseteq Place
    BY <1>2, Zenon
  <2> QED
    BY <1>1, <2>1, <2>2, <2>3, GiveUpStep, Zenon
<1> QED
    BY <1>5, <1>6 DEF Outcomes

\* A resolved entry is kept or given up already.
LEMMA ResolveLedger ==
    ASSUME Inv, Resolve
    PROVE  LedgerStep
<1> USE DEF captureVars, batchVars, writerVars, probeVars, flagVars, teardownVars
<1>0. TypeOK /\ Stages
    BY Zenon DEF Inv
<1>1. /\ InRing(ring)' = InRing(ring) /\ Handed' = Handed /\ Kept' = Kept /\ Gone' = Gone
    BY Zenon DEF Resolve, InRing, Handed, Kept, Gone
<1>2. pending_index < Len(pending_batch) /\ Attempted \in Attempts
    BY <1>0, Zenon DEF Resolve, Stages
<1>3. pending = pending' \cup {Attempted}
    BY <1>0, <1>2, ResolveMoves, Zenon DEF Resolve
<1>4. Attempted \in Kept \cup Gone
    BY <1>2, Zenon DEF Attempts, Kept, Gone
<1>5. Place' \subseteq Place /\ Place \subseteq Place' \cup Kept \cup Gone'
    BY <1>1, <1>3, <1>4, Zenon DEF Place
<1>6. {} \in SUBSET Entries /\ {} \subseteq Place /\ Gone' = Gone \cup {}
    BY <1>1, Zenon
<1> QED
    BY <1>1, <1>5, <1>6, GiveUpStep, Zenon

\* A crash gives up the entry being attempted.
LEMMA CrashLedger ==
    ASSUME Inv, Crash
    PROVE  LedgerStep
<1> USE DEF captureVars, batchVars, writerVars, probeVars, flagVars, teardownVars
<1>0. TypeOK
    BY Zenon DEF Inv
<1>1. /\ InRing(ring)' = InRing(ring) /\ Handed' = Handed /\ Kept' = Kept
      /\ Gone' = Gone \cup {Attempted}
    BY Zenon DEF Crash, InRing, Handed, Kept, Gone
<1>2. pending_index < Len(pending_batch) /\ resolve_one /\ UNCHANGED pending_batch
    BY Zenon DEF Crash
<1>3. pending = pending' \cup {Attempted} /\ Attempted \in Entries
    BY <1>0, <1>2, ResolveMoves, AttemptedFacts, Zenon
<1>4. /\ {Attempted} \in SUBSET Entries /\ {Attempted} \subseteq Place
      /\ Place' \subseteq Place /\ Place \subseteq Place' \cup Kept \cup Gone'
    BY <1>1, <1>3, Zenon DEF Place
<1> QED
    BY <1>1, <1>4, GiveUpStep, Zenon

\* The rescue changes hands, not the ledger.
LEMMA RescueLedger ==
    ASSUME Inv, Rescue
    PROVE  LedgerStep
<1> USE DEF captureVars, batchVars, writerVars, probeVars, flagVars, teardownVars
<1>0. TypeOK /\ Stages
    BY Zenon DEF Inv
<1>1. pending' = pending /\ counted' = counted /\ stranded' = stranded
    BY Zenon DEF Rescue, pending
<1>2. Handed = {}
    BY <1>0, Zenon DEF Rescue, Rescued, Stages
<1>3. /\ ring'.dropped = ring.dropped /\ InRing(ring)' = {}
      /\ Handed' = pending \cup InRing(ring)
    BY <1>0, RescueMoves, Zenon
<1>4. Place' = Place /\ Kept' = Kept /\ Gone' = Gone
    BY <1>1, <1>2, <1>3, Zenon DEF Place, Kept, Gone
<1> QED
    BY <1>4, LedgerOf, Zenon DEF LedgerStep

\* The dump keeps what it writes and gives up what it does not.
LEMMA DumpLedger ==
    ASSUME Inv, DumpEntry
    PROVE  LedgerStep
<1> USE DEF captureVars, batchVars, writerVars, probeVars, flagVars, teardownVars
<1> DEFINE x == Head(handed)
<1>0. TypeOK
    BY Zenon DEF Inv
<1>1. /\ InRing(ring)' = InRing(ring) /\ pending' = pending
      /\ ring' = ring /\ stranded' = stranded
    BY Zenon DEF DumpEntry, InRing, pending
<1>2. counted \in [Counters -> SUBSET Entries] /\ handed \in Seq(Entries) /\ handed # <<>>
    BY <1>0, Zenon DEF TypeOK, DumpEntry
<1>3. x \in Entries /\ Handed = Handed' \cup {x}
    BY <1>2, TailFacts, Zenon DEF DumpEntry, Handed
<1>4. PICK c \in {"dumped", "residual"} : counted' = [counted EXCEPT ![c] = @ \cup {x}]
    BY Zenon DEF DumpEntry
<1> HIDE DEF x
<1>5. x \in Place /\ Place' \subseteq Place /\ Place \subseteq Place' \cup {x}
    BY <1>1, <1>3, Zenon DEF Place
<1>6. CASE c = "dumped"
  <2>1. Kept' = Kept \cup {x}
    BY <1>2, <1>4, <1>6, Zenon DEF Kept, Counters
  <2>2. Gone' = Gone
    BY <1>1, <1>2, <1>4, <1>6, Zenon DEF Gone, Counters
  <2> QED
    BY <1>3, <1>5, <2>1, <2>2, KeepStep, Zenon
<1>7. CASE c = "residual"
  <2>1. Kept' = Kept
    BY <1>2, <1>4, <1>7, Zenon DEF Kept, Counters
  <2>2. Gone' = Gone \cup {x}
    BY <1>1, <1>2, <1>4, <1>7, Zenon DEF Gone, Counters
  <2>3. {x} \in SUBSET Entries /\ {x} \subseteq Place /\ Place \subseteq Place' \cup Kept \cup Gone'
    BY <1>3, <1>5, <2>2, Zenon
  <2> QED
    BY <1>5, <2>1, <2>2, <2>3, GiveUpStep, Zenon
<1> QED
    BY <1>6, <1>7, Zenon

\* The other steps do not change what the ledger sees.
LEMMA QuietLedger ==
    ASSUME Inv, QuietNext \/ UNCHANGED vars
    PROVE  LedgerStep
<1>1. UNCHANGED <<ring, pending_batch, pending_index, counted, handed, stranded>>
    BY QuietFacts, Zenon
<1>2. Place' = Place /\ Kept' = Kept /\ Gone' = Gone
    BY <1>1, Zenon DEF Place, InRing, pending, Handed, Kept, Gone
<1> QED
    BY <1>2, LedgerOf, Zenon DEF LedgerStep

\* The outbox, with all its threads, implements the ledger.
THEOREM OutboxImplementsLedger == Spec => LedgerSpec
<1>1. Init => Ledger!Init
  <2> SUFFICES ASSUME Init PROVE Held = {} /\ Kept = {} /\ Lost = {}
    BY Zenon DEF Ledger!Init
  <2>1. Place = {} /\ Gone = {} /\ Kept = {}
    BY DEF Init, EmptyRing, Place, InRing, pending, Handed, After, Gone, Kept, Counters
  <2> QED
    BY <2>1, LedgerOf, Zenon
<1>2. Inv /\ [Next]_vars => [Ledger!Next]_(Ledger!ledgerVars)
  <2> SUFFICES ASSUME Inv, [Next]_vars PROVE LedgerStep
    BY Zenon DEF LedgerStep, Ledger!ledgerVars
  <2>1. CASE QuietNext \/ UNCHANGED vars
    BY <2>1, QuietLedger, Zenon
  <2>2. CASE \E e \in Entries : Put(e)
    BY <2>2, PutLedger, Zenon
  <2>3. CASE Pop
    BY <2>3, PopLedger, Zenon
  <2>4. CASE WriteEntry
    BY <2>4, WriteLedger, Zenon
  <2>5. CASE Resolve
    BY <2>5, ResolveLedger, Zenon
  <2>6. CASE Crash
    BY <2>6, CrashLedger, Zenon
  <2>7. CASE Rescue
    BY <2>7, RescueLedger, Zenon
  <2>8. CASE DumpEntry
    BY <2>8, DumpLedger, Zenon
  <2> QED
    BY <2>1, <2>2, <2>3, <2>4, <2>5, <2>6, <2>7, <2>8, Zenon
       DEF Next, QuietNext, Capturing, Draining, Probing, TearingDown
<1> QED
    BY <1>1, <1>2, Invariance, PTL DEF Spec, LedgerSpec, Ledger!Spec
=============================================================================
