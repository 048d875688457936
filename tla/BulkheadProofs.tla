--------------------------- MODULE BulkheadProofs ---------------------------
(***************************************************************************)
(* Proofs about Bulkhead, for any finite set of calls and any limit, any   *)
(* loops and any set of faults.                                            *)
(***************************************************************************)
EXTENDS Bulkhead, FiniteSetTheorems, TLAPS

-----------------------------------------------------------------------------
(* The waiter queue *)

\* Only queued waiters are ahead of queued ones, and any group of waiters
\* has a first: one that none of the group is ahead of.
Orderly(q) ==
    /\ \A c \in q.queued : q.ahead[c] \subseteq q.queued
    /\ \A S \in SUBSET q.queued : S # {} => \E c \in S : q.ahead[c] \cap S = {}

\* The queue q agrees with the stages st of the calls: woken and signalled
\* waiters are queued ones, and a woken waiter has its signal or is up.
Sound(q, st) ==
    /\ q \in Line /\ Orderly(q)
    /\ q.woken \subseteq q.queued
    /\ q.signal \cap q.queued \subseteq q.woken
    /\ \A c \in q.queued : st[c] \in {"waiting", "awake", "left"}
    /\ \A c \in q.signal : st[c] # "new"
    /\ \A c \in q.woken : c \in q.signal \/ st[c] = "awake"

\* With n seats taken or owed a wake, the wakes given are enough.
Enough(q, n) == MaxConcurrent <= n + Cardinality(q.woken) \/ q.queued \subseteq q.woken

\* A set of calls is finite, and so has a number of members.
LEMMA CallsFinite ==
    ASSUME NEW S, S \subseteq Calls
    PROVE  IsFiniteSet(S) /\ Cardinality(S) \in Nat
BY FS_Subset, FS_CardinalityType, BulkheadAssumption, Zenon

\* The members of two groups with no call in common add up.
LEMMA Disjoint ==
    ASSUME NEW S, NEW T, S \subseteq Calls, T \subseteq Calls, S \cap T = {}
    PROVE  Cardinality(S \cup T) = Cardinality(S) + Cardinality(T)
<1>1. IsFiniteSet(S) /\ IsFiniteSet(T) /\ Cardinality(S) \in Nat /\ Cardinality(T) \in Nat
    BY CallsFinite, Zenon
<1>2. Cardinality(S \cup T) = Cardinality(S) + Cardinality(T) - Cardinality(S \cap T)
    BY <1>1, FS_Union, Zenon
<1>3. Cardinality(S \cap T) = 0
    BY FS_EmptySet, Zenon
<1> QED
    BY <1>1, <1>2, <1>3

\* What remove does to each part of the queue.
LEMMA RemoveFacts ==
    ASSUME NEW q \in Line, NEW S, S \subseteq Calls
    PROVE  /\ remove(q, S) \in Line
           /\ remove(q, S).queued = q.queued \ S
           /\ remove(q, S).woken = q.woken \ S
           /\ remove(q, S).signal = q.signal
           /\ \A c \in Calls \ S : remove(q, S).ahead[c] = q.ahead[c] \ S
BY Zenon DEF Line, remove, unqueue

\* Removing waiters leaves an orderly queue.
LEMMA RemoveOrderly ==
    ASSUME NEW q \in Line, NEW S, S \subseteq Calls, Orderly(q)
    PROVE  Orderly(remove(q, S))
<1> DEFINE r == remove(q, S)
<1>1. r.queued = q.queued \ S /\ \A c \in Calls \ S : r.ahead[c] = q.ahead[c] \ S
    BY RemoveFacts, Zenon
<1>2. q.queued \subseteq Calls
    BY Zenon DEF Line
<1> HIDE DEF r
<1>3. \A c \in r.queued : r.ahead[c] \subseteq r.queued
    BY <1>1, <1>2 DEF Orderly
<1>4. ASSUME NEW T \in SUBSET r.queued, T # {} PROVE \E c \in T : r.ahead[c] \cap T = {}
  <2>1. PICK c \in T : q.ahead[c] \cap T = {}
    BY <1>1, <1>4, Zenon DEF Orderly
  <2>2. r.ahead[c] = q.ahead[c] \ S
    BY <1>1, <1>2, <1>4, Zenon
  <2> QED
    BY <2>1, <2>2, Zenon
<1> QED
    BY <1>3, <1>4, Zenon DEF Orderly, r

\* Removing waiters keeps the queue sound.
LEMMA RemoveSound ==
    ASSUME NEW q, NEW st, NEW S, S \subseteq Calls, Sound(q, st)
    PROVE  Sound(remove(q, S), st)
<1>1. q \in Line /\ Orderly(remove(q, S))
    BY RemoveOrderly, Zenon DEF Sound
<1> QED
    BY <1>1, RemoveFacts DEF Sound

\* Removing waiters costs as many wakes as they had.
LEMMA RemoveEnough ==
    ASSUME NEW q, NEW st, NEW S, S \subseteq Calls, NEW n \in Nat, Sound(q, st), Enough(q, n)
    PROVE  Enough(remove(q, S), n + Cardinality(S \cap q.woken))
<1> DEFINE r == remove(q, S)
           lost == S \cap q.woken
<1>1. q \in Line /\ r.queued = q.queued \ S /\ r.woken = q.woken \ S
    BY RemoveFacts, Zenon DEF Sound
<1>2. q.woken \subseteq Calls
    BY <1>1, Zenon DEF Line
<1> HIDE DEF r
<1>3. CASE q.queued \subseteq q.woken
    BY <1>1, <1>3, Zenon DEF Enough, r
<1>4. CASE MaxConcurrent <= n + Cardinality(q.woken)
  <2>1. Cardinality(q.woken) = Cardinality(q.woken \ S) + Cardinality(lost)
    <3>1. q.woken \ S \subseteq Calls /\ lost \subseteq Calls
        BY <1>2, Zenon
    <3>2. q.woken = (q.woken \ S) \cup lost /\ (q.woken \ S) \cap lost = {}
        OBVIOUS
    <3> HIDE DEF lost
    <3> QED
        BY <3>1, <3>2, Disjoint, Zenon
  <2>2. Cardinality(q.woken \ S) \in Nat /\ Cardinality(lost) \in Nat
    BY <1>2, CallsFinite, Zenon
  <2> HIDE DEF lost
  <2>3. MaxConcurrent <= (n + Cardinality(lost)) + Cardinality(r.woken)
    BY <1>1, <1>4, <2>1, <2>2, BulkheadAssumption
  <2> QED
    BY <2>3, Zenon DEF Enough, r, lost
<1> QED
    BY <1>3, <1>4, Zenon DEF Enough

\* What wake_next does to each part of the queue, hit being the waiters that
\* receive a wake and gone those whose loop refuses it.
LEMMA WakeFacts ==
    ASSUME NEW q \in Line
    PROVE  LET w == wake_next(q)
               gone == {c \in reached(q) : loop_closed(c)}
               hit == reached(q) \ gone
           IN  /\ gone \subseteq Calls /\ gone \cap q.woken = {} /\ gone \subseteq q.queued
               /\ hit \subseteq q.queued \ gone /\ hit \cap q.woken = {}
               /\ w = [remove(q, gone) EXCEPT !.woken = q.woken \cup hit,
                                              !.signal = q.signal \cup hit]
               /\ w \in Line
               /\ w.queued = q.queued \ gone
               /\ w.woken = q.woken \cup hit
               /\ w.signal = q.signal \cup hit
               /\ w.ahead = remove(q, gone).ahead
<1> DEFINE gone == {c \in reached(q) : loop_closed(c)}
           hit == reached(q) \ gone
           w == wake_next(q)
<1>1. reached(q) \subseteq q.queued \ q.woken /\ q.queued \subseteq Calls
    BY Zenon DEF reached, unwoken, Line
<1>2. {c \in reached(q) : ~ loop_closed(c)} = hit /\ reached(q) \ hit = gone
    OBVIOUS
<1>3. w = [unqueue(q, gone) EXCEPT !.woken = @ \cup hit, !.signal = @ \cup hit]
    BY <1>2, Zenon DEF wake_next
<1>4. gone \subseteq Calls /\ hit \subseteq Calls /\ gone \cap q.woken = {} /\ hit \cap gone = {}
    BY <1>1, Zenon
<1> HIDE DEF gone, hit, w
<1>5. w = [remove(q, gone) EXCEPT !.woken = q.woken \cup hit, !.signal = q.signal \cup hit]
    BY <1>3, Zenon DEF remove, unqueue, Line
<1>6. /\ w \in Line /\ w.queued = q.queued \ gone /\ w.woken = q.woken \cup hit
      /\ w.signal = q.signal \cup hit /\ w.ahead = remove(q, gone).ahead
    BY <1>4, <1>5, Zenon DEF remove, unqueue, Line
<1>7. gone \subseteq q.queued /\ hit \subseteq q.queued \ gone /\ hit \cap q.woken = {}
    BY <1>1, Zenon DEF gone, hit
<1> QED
    BY <1>4, <1>5, <1>6, <1>7, Zenon DEF gone, hit, w

\* A wake keeps the queue sound.
LEMMA WakeSound ==
    ASSUME NEW q, NEW st, Sound(q, st)
    PROVE  Sound(wake_next(q), st)
<1> DEFINE w == wake_next(q)
           gone == {c \in reached(q) : loop_closed(c)}
           hit == reached(q) \ gone
           r == remove(q, gone)
<1>0. q \in Line
    BY Zenon DEF Sound
<1>1. /\ gone \subseteq Calls /\ gone \cap q.woken = {} /\ hit \subseteq q.queued \ gone
      /\ w \in Line /\ w.queued = q.queued \ gone /\ w.woken = q.woken \cup hit
      /\ w.signal = q.signal \cup hit /\ w.ahead = r.ahead
    BY <1>0, WakeFacts, Zenon
<1>2. r.queued = q.queued \ gone
    BY <1>0, <1>1, RemoveFacts, Zenon
<1>3. Orderly(r)
    BY <1>0, <1>1, RemoveOrderly, Zenon DEF Sound
<1> HIDE DEF w, gone, hit, r
<1>4. Orderly(w)
    BY <1>1, <1>2, <1>3, Zenon DEF Orderly
<1> QED
    BY <1>1, <1>4, Zenon DEF Sound, w

\* A wake makes up for one seat or one wake that is missing: either a waiter
\* more is woken, or none is left to wake.
LEMMA WakeEnough ==
    ASSUME NEW q, NEW st, NEW n \in Nat, Sound(q, st), Enough(q, n + 1)
    PROVE  Enough(wake_next(q), n)
<1> DEFINE w == wake_next(q)
           gone == {c \in reached(q) : loop_closed(c)}
           hit == reached(q) \ gone
           ready == {c \in unwoken(q) : can_run(c)}
<1>0. q \in Line /\ q.queued \subseteq Calls /\ q.woken \subseteq Calls
    BY Zenon DEF Sound, Line
<1>1. /\ gone \cap q.woken = {} /\ hit \subseteq q.queued \ gone /\ hit \cap q.woken = {}
      /\ w.queued = q.queued \ gone /\ w.woken = q.woken \cup hit
    BY <1>0, WakeFacts, Zenon
<1>2. CASE ready = {}
  <2>1. reached(q) = unwoken(q)
    BY <1>2, Zenon DEF reached
  <2>2. w.queued \subseteq w.woken
    BY <1>1, <2>1, Zenon DEF unwoken
  <2> QED
    BY <2>2, Zenon DEF Enough
<1>3. CASE ready # {}
  <2>1. ready \in SUBSET q.queued
    BY Zenon DEF unwoken
  <2>2. PICK c \in ready : q.ahead[c] \cap ready = {}
    BY <1>3, <2>1, Zenon DEF Sound, Orderly
  <2>3. c \in reached(q)
    BY <2>2, Zenon DEF reached
  <2>4. ~ loop_closed(c)
    BY <2>2, Zenon DEF can_run, loop_closed
  <2>5. c \in hit
    BY <2>3, <2>4, Zenon
  <2> HIDE DEF w, gone, hit, ready
  <2>6. Cardinality(w.woken) = Cardinality(q.woken) + Cardinality(hit)
    BY <1>0, <1>1, Disjoint, Zenon
  <2>7. Cardinality(hit) >= 1 /\ Cardinality(hit) \in Nat /\ Cardinality(q.woken) \in Nat
    <3>1. IsFiniteSet(hit) /\ Cardinality(hit) \in Nat /\ Cardinality(q.woken) \in Nat
        BY <1>0, <1>1, CallsFinite, Zenon
    <3>2. Cardinality(hit) # 0
        BY <2>5, <3>1, FS_EmptySet, Zenon
    <3> QED
        BY <3>1, <3>2
  <2>8. CASE q.queued \subseteq q.woken
    BY <1>1, <2>8, Zenon DEF Enough, w
  <2>9. CASE MaxConcurrent <= (n + 1) + Cardinality(q.woken)
    BY <2>6, <2>7, <2>9, BulkheadAssumption DEF Enough, w
  <2> QED
    BY <2>8, <2>9, Zenon DEF Enough
<1> QED
    BY <1>2, <1>3, Zenon

\* A waiter that leaves is out of the queue, its wake passed on.
LEMMA DropSound ==
    ASSUME NEW q, NEW st, NEW c \in Calls, Sound(q, st)
    PROVE  /\ Sound(drop_waiter(q, c), st)
           /\ c \notin drop_waiter(q, c).queued
<1> DEFINE r == remove(q, {c})
<1>1. q \in Line /\ r \in Line /\ c \notin r.queued
    BY RemoveFacts DEF Sound
<1>2. Sound(r, st)
    BY RemoveSound, Zenon
<1>3. Sound(wake_next(r), st)
    BY <1>2, WakeSound, Zenon
<1>4. wake_next(r).queued \subseteq r.queued
    BY <1>1, WakeFacts, Zenon
<1> HIDE DEF r
<1> QED
    BY <1>1, <1>2, <1>3, <1>4, Zenon DEF drop_waiter, r

\* A waiter that leaves takes no wake with it.
LEMMA DropEnough ==
    ASSUME NEW q, NEW st, NEW c \in Calls, NEW n \in Nat, Sound(q, st), Enough(q, n)
    PROVE  Enough(drop_waiter(q, c), n)
<1> DEFINE r == remove(q, {c})
<1>1. Enough(r, n + Cardinality({c} \cap q.woken)) /\ Sound(r, st)
    BY RemoveEnough, RemoveSound, Zenon
<1>2. CASE c \in q.woken
  <2>1. {c} \cap q.woken = {c} /\ Cardinality({c}) = 1
    BY <1>2, FS_Singleton, Zenon
  <2>2. Enough(r, n + 1)
    BY <1>1, <2>1, Zenon
  <2>3. Enough(wake_next(r), n)
    BY <1>1, <2>2, WakeEnough, Zenon
  <2> QED
    BY <1>2, <2>3, Zenon DEF drop_waiter
<1>3. CASE c \notin q.woken
  <2>1. {c} \cap q.woken = {} /\ Cardinality({}) = 0
    BY <1>3, FS_EmptySet, Zenon
  <2>2. n + 0 = n
    OBVIOUS
  <2>3. Enough(r, n)
    BY <1>1, <2>1, <2>2, Zenon
  <2> QED
    BY <1>3, <2>3, Zenon DEF drop_waiter
<1> QED
    BY <1>2, <1>3, Zenon

\* A waiter joins at the tail.
LEMMA EnqueueSound ==
    ASSUME NEW q, NEW st \in [Calls -> Stage], NEW c \in Calls, Sound(q, st),
           c \notin q.queued, c \notin q.signal
    PROVE  Sound(enqueue(q, c), [st EXCEPT ![c] = "waiting"])
<1> DEFINE e == enqueue(q, c)
           st2 == [st EXCEPT ![c] = "waiting"]
<1>1. q \in Line /\ q.queued \subseteq Calls
    BY Zenon DEF Sound, Line
<1>2. /\ e \in Line /\ e.queued = q.queued \cup {c} /\ e.woken = q.woken /\ e.signal = q.signal
      /\ e.ahead[c] = q.queued /\ \A d \in Calls \ {c} : e.ahead[d] = q.ahead[d]
    BY <1>1, Zenon DEF enqueue, Line
<1>3. st2[c] = "waiting" /\ \A d \in Calls \ {c} : st2[d] = st[d]
    OBVIOUS
<1> HIDE DEF e, st2
<1>4. \A d \in e.queued : e.ahead[d] \subseteq e.queued
    BY <1>1, <1>2, Zenon DEF Sound, Orderly
<1>5. ASSUME NEW S \in SUBSET e.queued, S # {} PROVE \E d \in S : e.ahead[d] \cap S = {}
  <2>1. CASE S \ {c} = {}
    BY <1>2, <1>5, <2>1
  <2>2. CASE S \ {c} # {}
    <3>1. S \ {c} \in SUBSET q.queued
        BY <1>2, <1>5, Zenon
    <3>2. PICK d \in S \ {c} : q.ahead[d] \cap (S \ {c}) = {}
        BY <2>2, <3>1, Zenon DEF Sound, Orderly
    <3>3. q.ahead[d] \subseteq q.queued /\ e.ahead[d] = q.ahead[d]
        BY <1>1, <1>2, <3>1, <3>2, Zenon DEF Sound, Orderly
    <3> QED
        BY <3>2, <3>3, Zenon
  <2> QED
    BY <2>1, <2>2, Zenon
<1>6. Orderly(e)
    BY <1>4, <1>5, Zenon DEF Orderly
<1>7. q.woken \subseteq Calls /\ q.signal \subseteq Calls
    BY <1>1, Zenon DEF Line
<1> QED
    BY <1>1, <1>2, <1>3, <1>6, <1>7 DEF Sound, e, st2

\* The signal of a call that does not wait means nothing.
LEMMA UnsignalSound ==
    ASSUME NEW q, NEW st, NEW c \in Calls, Sound(q, st), c \notin q.queued
    PROVE  LET u == [q EXCEPT !.signal = @ \ {c}]
           IN  Sound(u, st) /\ u.queued = q.queued /\ u.woken = q.woken /\ c \notin u.signal
<1> DEFINE u == [q EXCEPT !.signal = @ \ {c}]
<1>1. q \in Line
    BY Zenon DEF Sound
<1>2. /\ u \in Line /\ u.queued = q.queued /\ u.woken = q.woken
      /\ u.signal = q.signal \ {c} /\ u.ahead = q.ahead
    BY <1>1, Zenon DEF Line
<1> HIDE DEF u
<1>3. Orderly(u)
    BY <1>2, Zenon DEF Sound, Orderly
<1> QED
    BY <1>2, <1>3, Zenon DEF Sound, u

\* What becomes of a call that does not wait is no matter to the queue.
LEMMA StageSound ==
    ASSUME NEW q, NEW st \in [Calls -> Stage], NEW c \in Calls, NEW s, s # "new",
           Sound(q, st), c \notin q.queued
    PROVE  Sound(q, [st EXCEPT ![c] = s])
<1> DEFINE st2 == [st EXCEPT ![c] = s]
<1>1. st2[c] = s /\ \A d \in Calls \ {c} : st2[d] = st[d]
    OBVIOUS
<1>2. q.queued \subseteq Calls /\ q.woken \subseteq Calls /\ q.signal \subseteq Calls
    BY Zenon DEF Sound, Line
<1> HIDE DEF st2
<1> QED
    BY <1>1, <1>2, Zenon DEF Sound, st2

\* A waiter that waits again has a fresh wake, or had not been woken.
LEMMA RequeueSound ==
    ASSUME NEW q, NEW st \in [Calls -> Stage], NEW c \in Calls, Sound(q, st), st[c] = "awake"
    PROVE  Sound(requeue(q, c), [st EXCEPT ![c] = "waiting"])
<1> DEFINE r == remove(q, {c})
           u == [r EXCEPT !.signal = @ \ {c}]
           st2 == [st EXCEPT ![c] = "waiting"]
<1>1. q \in Line /\ r \in Line /\ c \notin r.queued
    BY RemoveFacts DEF Sound
<1>2. Sound(r, st)
    BY RemoveSound, Zenon
<1>3. Sound(u, st) /\ c \notin u.queued /\ c \notin u.signal
    BY <1>1, <1>2, UnsignalSound, Zenon
<1>4. rearm(unqueue(q, {c}), c) = u
    BY <1>1, Zenon DEF rearm, unqueue, remove, Line
<1> HIDE DEF r, u
<1>5. Sound(enqueue(u, c), st2)
    BY <1>3, EnqueueSound, Zenon
<1>6. ASSUME c \in q.queued, c \notin q.woken PROVE Sound(q, st2)
  <2>1. st2[c] = "waiting" /\ \A d \in Calls \ {c} : st2[d] = st[d]
    OBVIOUS
  <2>2. q.queued \subseteq Calls /\ q.woken \subseteq Calls /\ q.signal \subseteq Calls
    BY <1>1, Zenon DEF Line
  <2> HIDE DEF st2
  <2> QED
    BY <1>6, <2>1, <2>2, Zenon DEF Sound
<1> HIDE DEF st2
<1>7. requeue(q, c) = IF needs_rearm(q, c) \/ c \notin q.queued THEN enqueue(u, c) ELSE q
    BY <1>4, Zenon DEF requeue
<1> QED
    BY <1>5, <1>6, <1>7, Zenon DEF needs_rearm, st2

-----------------------------------------------------------------------------
(* The pending list *)

Contents(s) == {s[i] : i \in 1..Len(s)}
Injective(s) == \A i, j \in 1..Len(s) : s[i] = s[j] => i = j

\* Appending a new operation adds it.
LEMMA AppendFacts ==
    ASSUME NEW s \in Seq(Op), NEW o \in Op, Injective(s), o \notin Contents(s)
    PROVE  /\ Append(s, o) \in Seq(Op) /\ Append(s, o) # <<>>
           /\ Contents(Append(s, o)) = Contents(s) \cup {o}
           /\ Injective(Append(s, o))
<1> DEFINE t == Append(s, o)
<1>1. t \in Seq(Op) /\ Len(t) = Len(s) + 1 /\ Len(s) \in Nat /\ t # <<>>
    OBVIOUS
<1>2. (\A i \in 1..Len(s) : t[i] = s[i]) /\ t[Len(s) + 1] = o
    OBVIOUS
<1> HIDE DEF t
<1>3. Contents(t) = Contents(s) \cup {o}
    BY <1>1, <1>2 DEF Contents
<1>4. Injective(t)
    BY <1>1, <1>2 DEF Contents, Injective
<1> QED
    BY <1>1, <1>3, <1>4, Zenon DEF t

\* Taking the first operation leaves the others.
LEMMA TailFacts ==
    ASSUME NEW s \in Seq(Op), s # <<>>, Injective(s)
    PROVE  /\ Tail(s) \in Seq(Op) /\ Head(s) \in Op /\ Head(s) \in Contents(s)
           /\ Contents(Tail(s)) = Contents(s) \ {Head(s)}
           /\ Injective(Tail(s))
<1> DEFINE t == Tail(s)
<1>1. t \in Seq(Op) /\ Len(t) = Len(s) - 1 /\ Len(s) \in Nat /\ Len(s) > 0
    OBVIOUS
<1>2. (\A i \in 1..Len(t) : t[i] = s[i + 1]) /\ Head(s) = s[1] /\ Head(s) \in Op
    OBVIOUS
<1> HIDE DEF t
<1>3. \A i \in 2..Len(s) : s[i] = t[i - 1] /\ i - 1 \in 1..Len(t)
    BY <1>1, <1>2
<1>4. Head(s) \in Contents(s)
    BY <1>1, <1>2 DEF Contents
<1>5. Contents(t) = Contents(s) \ {Head(s)}
    BY <1>1, <1>2, <1>3 DEF Contents, Injective
<1>6. Injective(t)
    BY <1>1, <1>2 DEF Injective
<1> QED
    BY <1>1, <1>2, <1>4, <1>5, <1>6, Zenon DEF t

-----------------------------------------------------------------------------
(* The inductive invariant *)

Holding == {"enter", "body", "exit", "apply", "unlock"}

\* Who is at a point under the lock holds it; wakes are owed only by a lock
\* holder that has settled.
LockKept ==
    /\ \A c \in Calls : at[c] \in Holding => lock = c
    /\ lost_wakes > 0 => lock # NoCall /\ \A c \in Calls : ~ Settling(c)

\* The list holds no operation twice, a seat only of a call that released
\* it, and a removal only of a waiter that left.
OpsTrue ==
    /\ Injective(pending)
    /\ \A o \in Contents(pending) : stage[o.of] = IF o.op = "seat" THEN "released" ELSE "left"

\* The count is the seats that are held or on their way back.
SeatsExact == taken = Cardinality(Running \cup Returning) /\ taken <= MaxConcurrent

LineKept == Sound(line, stage) /\ Enough(line, taken + lost_wakes)

Inv == TypeOK /\ LockKept /\ NothingStranded /\ OpsTrue /\ SeatsExact /\ LineKept

\* The compartment starts in the invariant.
LEMMA Initially == Init => Inv
<1> SUFFICES ASSUME Init PROVE Inv
    OBVIOUS
<1> USE DEF Init
<1>1. TypeOK
    BY DEF TypeOK, Line, Point, Stage
<1>2. LockKept /\ NothingStranded
    BY DEF LockKept, NothingStranded, Holding
<1>3. Contents(pending) = {} /\ Injective(pending)
    BY DEF Contents, Injective
<1>4. SeatsExact
  <2>1. Running = {} /\ Returning = {}
    BY DEF Running, Returning
  <2> QED
    BY <2>1, FS_EmptySet, BulkheadAssumption DEF SeatsExact
<1>5. Orderly(line) /\ line \in Line /\ line.queued = {} /\ line.woken = {} /\ line.signal = {}
    BY Zenon DEF Orderly, Line
<1>6. LineKept
    BY <1>5, Zenon DEF LineKept, Sound, Enough
<1> QED
    BY <1>1, <1>2, <1>3, <1>4, <1>6, Zenon DEF Inv, OpsTrue

\* The steps of a call that leave seats, list and stages alone and move at
\* most the waiter queue.
Quiet(c) ==
    \/ Enter(c) \/ Prune(c) \/ PassOn(c) \/ get_state(c) \/ Unlock(c) \/ Check(c) \/ TryLock(c)
    \/ PassDeadline(c)

\* The list of all steps, one case each.
LEMMA Cases ==
    ASSUME Next
    PROVE  \/ \E c \in Calls :
                \/ Quiet(c) \/ ApplySeat(c) \/ ApplyLeave(c) \/ TakeSeat(c) \/ TurnAway(c)
                \/ Wait(c) \/ WaitAgain(c) \/ GiveUp(c) \/ release(c) \/ Leave(c)
                \/ WakeUp(c) \/ TimerFiresEarly(c)
           \/ \E l \in Loops : TurnLoop(l)
BY Zenon DEF Next, Proceeds, Quiet

\* Every operation on the queue returns a queue.
LEMMA QueueTypes ==
    ASSUME Inv, NEW c \in Calls
    PROVE  /\ wake_next(line) \in Line /\ drop_waiter(line, c) \in Line
           /\ enqueue(line, c) \in Line /\ requeue(line, c) \in Line
           /\ \A S \in SUBSET Calls : remove(line, S) \in Line
           /\ [remove(line, {c}) EXCEPT !.signal = @ \ {c}] \in Line
           /\ [line EXCEPT !.signal = @ \ {c}] \in Line
<1>1. line \in Line /\ Sound(line, stage)
    BY Zenon DEF Inv, TypeOK, LineKept
<1>2. \A S \in SUBSET Calls : remove(line, S) \in Line
    BY <1>1, RemoveFacts, Zenon
<1>3. wake_next(line) \in Line
    BY <1>1, WakeSound, Zenon DEF Sound
<1>4. drop_waiter(line, c) \in Line
    BY <1>1, DropSound, Zenon DEF Sound
<1>5. enqueue(line, c) \in Line
    BY <1>1, Zenon DEF enqueue, Line
<1>6. requeue(line, c) \in Line
  <2>1. unqueue(line, {c}) \in Line
    BY <1>1, Zenon DEF unqueue, Line
  <2>2. rearm(unqueue(line, {c}), c) \in Line
    BY <2>1, Zenon DEF rearm, Line
  <2>3. enqueue(rearm(unqueue(line, {c}), c), c) \in Line
    BY <2>2, Zenon DEF enqueue, Line
  <2> QED
    BY <1>1, <2>3, Zenon DEF requeue
<1>7. remove(line, {c}) \in Line
    BY <1>2, Zenon
<1>8. [remove(line, {c}) EXCEPT !.signal = @ \ {c}] \in Line
    BY <1>7, Zenon DEF Line
<1>9. [line EXCEPT !.signal = @ \ {c}] \in Line
    BY <1>1, Zenon DEF Line
<1> QED
    BY <1>2, <1>3, <1>4, <1>5, <1>6, <1>8, <1>9, Zenon

\* Every step keeps the types.
LEMMA TypeStep ==
    ASSUME Inv, Next
    PROVE  TypeOK'
<1> USE DEF TypeOK, Goes, Becomes, Decides, callVars
<1>0. TypeOK /\ \A c \in Calls : c # NoCall
    BY BulkheadAssumption, Zenon DEF Inv
<1>1. ASSUME NEW c \in Calls, Quiet(c) PROVE TypeOK'
  <2>1. CASE Enter(c)
    BY <1>0, <2>1, Zenon DEF Enter, Point
  <2>2. CASE Prune(c)
    <3>1. dead \subseteq Calls /\ dead \cap line.woken \subseteq Calls
        BY <1>0, Zenon DEF dead, Line
    <3>2. line' \in Line /\ lost_wakes' \in Nat
        BY <2>2, <3>1, QueueTypes, CallsFinite, Zenon DEF Prune
    <3> QED
        BY <1>0, <2>2, <3>2, Zenon DEF Prune, Point
  <2>3. CASE PassOn(c)
    <3>1. line' \in Line
        BY <2>3, QueueTypes, Zenon DEF PassOn
    <3>2. lost_wakes' \in Nat
        BY <1>0, <2>3 DEF PassOn
    <3> QED
        BY <1>0, <2>3, <3>1, <3>2, Zenon DEF PassOn
  <2>4. CASE get_state(c)
    BY <1>0, <2>4, Zenon DEF get_state, Point
  <2>5. CASE Unlock(c)
    BY <1>0, <2>5, Zenon DEF Unlock, Point, unlocked, after_unlock
  <2>6. CASE Check(c)
    BY <1>0, <2>6, Zenon DEF Check, Point
  <2>7. CASE TryLock(c)
    BY <1>0, <2>7, Zenon DEF TryLock, Point
  <2>8. CASE PassDeadline(c)
    BY <1>0, <2>8, Zenon DEF PassDeadline
  <2> QED
    BY <1>1, <2>1, <2>2, <2>3, <2>4, <2>5, <2>6, <2>7, <2>8, Zenon DEF Quiet
<1>2. ASSUME NEW c \in Calls, ApplySeat(c) PROVE TypeOK'
  <2>1. line' \in Line
    BY <1>0, <1>2, QueueTypes, Zenon DEF ApplySeat
  <2>2. taken' \in Nat
    BY <1>0, <1>2 DEF ApplySeat, seat_back
  <2>3. pending' \in Seq(Op)
    BY <1>0, <1>2 DEF ApplySeat
  <2> QED
    BY <1>0, <1>2, <2>1, <2>2, <2>3, Zenon DEF ApplySeat
<1>3. ASSUME NEW c \in Calls, ApplyLeave(c) PROVE TypeOK'
  <2>1. pending' \in Seq(Op) /\ Head(pending) \in Op
    BY <1>0, <1>3 DEF ApplyLeave
  <2>2. line' \in Line
    BY <1>3, <2>1, QueueTypes, Zenon DEF ApplyLeave, Op
  <2> QED
    BY <1>0, <1>3, <2>1, <2>2, Zenon DEF ApplyLeave
<1>4. ASSUME NEW c \in Calls, TakeSeat(c) PROVE TypeOK'
  <2>1. line' \in Line
    BY <1>4, QueueTypes, Zenon DEF TakeSeat
  <2> QED
    BY <1>0, <1>4, <2>1 DEF TakeSeat, Forget, Point, Stage
<1>5. ASSUME NEW c \in Calls, TurnAway(c) PROVE TypeOK'
    BY <1>0, <1>5, Zenon DEF TurnAway, Point, Stage
<1>6. ASSUME NEW c \in Calls, Wait(c) PROVE TypeOK'
  <2>1. line' \in Line
    BY <1>6, QueueTypes, Zenon DEF Wait
  <2> QED
    BY <1>0, <1>6, <2>1, Zenon DEF Wait, Point, Stage
<1>7. ASSUME NEW c \in Calls, WaitAgain(c) PROVE TypeOK'
  <2>1. line' \in Line
    BY <1>7, QueueTypes, Zenon DEF WaitAgain
  <2> QED
    BY <1>0, <1>7, <2>1, Zenon DEF WaitAgain, Point, Stage
<1>8. ASSUME NEW c \in Calls, GiveUp(c) PROVE TypeOK'
  <2>1. line' \in Line
    BY <1>8, QueueTypes, Zenon DEF GiveUp
  <2> QED
    BY <1>0, <1>8, <2>1, Zenon DEF GiveUp, Forget, Point, Stage
<1>9. ASSUME NEW c \in Calls, release(c) \/ Leave(c) PROVE TypeOK'
  <2>1. SeatReturned(c) \in Op /\ Leaves(c) \in Op
    BY Zenon DEF SeatReturned, Leaves, Op
  <2>2. pending' = Append(pending, SeatReturned(c)) \/ pending' = Append(pending, Leaves(c))
    BY <1>9, Zenon DEF release, Leave, Queues
  <2>4. pending' \in Seq(Op)
    BY <1>0, <2>1, <2>2
  <2>3. at' \in [Calls -> Point] /\ stage' \in [Calls -> Stage]
    BY <1>0, <1>9, Zenon DEF release, Leave, Queues, Point, Stage
  <2> QED
    BY <1>0, <1>9, <2>4, <2>3, Zenon DEF release, Leave, Queues
<1>10. ASSUME NEW c \in Calls, WakeUp(c) \/ TimerFiresEarly(c) PROVE TypeOK'
  <2>1. line' \in Line
    BY <1>0, <1>10, QueueTypes, Zenon DEF WakeUp, TimerFiresEarly
  <2> QED
    BY <1>0, <1>10, <2>1, Zenon DEF WakeUp, TimerFiresEarly, Stage
<1>11. ASSUME NEW l \in Loops, TurnLoop(l) PROVE TypeOK'
    BY <1>0, <1>11, Zenon DEF TurnLoop
<1> QED
    BY <1>1, <1>2, <1>3, <1>4, <1>5, <1>6, <1>7, <1>8, <1>9, <1>10, <1>11, Cases, Zenon

\* The lock protocol: one holder, and no operation left unattended.
LEMMA LockStep ==
    ASSUME Inv, Next
    PROVE  LockKept' /\ NothingStranded'
<1> USE DEF LockKept, NothingStranded, Goes, Decides, Settling, Holding
<1>0. /\ LockKept /\ NothingStranded /\ at \in [Calls -> Point] /\ lost_wakes \in Nat
      /\ \A c \in Calls : c # NoCall
    BY BulkheadAssumption, Zenon DEF Inv, TypeOK
<1>1. ASSUME NEW c \in Calls, Quiet(c) PROVE LockKept' /\ NothingStranded'
  <2>1. CASE Enter(c)
    BY <1>0, <2>1, Zenon DEF Enter
  <2>2. CASE Prune(c)
    BY <1>0, <2>2, Zenon DEF Prune
  <2>3. CASE PassOn(c)
    BY <1>0, <2>3, Zenon DEF PassOn
  <2>4. CASE get_state(c)
    BY <1>0, <2>4 DEF get_state
  <2>5. CASE Unlock(c)
    BY <1>0, <2>5 DEF Unlock, unlocked, after_unlock
  <2>6. CASE Check(c)
    BY <1>0, <2>6, Zenon DEF Check
  <2>7. CASE TryLock(c)
    BY <1>0, <2>7, Zenon DEF TryLock
  <2>8. CASE PassDeadline(c)
    BY <1>0, <2>8, Zenon DEF PassDeadline
  <2> QED
    BY <1>1, <2>1, <2>2, <2>3, <2>4, <2>5, <2>6, <2>7, <2>8, Zenon DEF Quiet
<1>2. ASSUME NEW c \in Calls, ApplySeat(c) \/ ApplyLeave(c) PROVE LockKept' /\ NothingStranded'
    BY <1>0, <1>2, Zenon DEF ApplySeat, ApplyLeave
<1>3. ASSUME NEW c \in Calls, TakeSeat(c) \/ TurnAway(c) \/ Wait(c) \/ WaitAgain(c) \/ GiveUp(c)
      PROVE LockKept' /\ NothingStranded'
  <2>1. /\ at[c] = "body" /\ lost_wakes = 0 /\ at' = [at EXCEPT ![c] = "exit"]
        /\ UNCHANGED <<lock, pending, lost_wakes>>
    BY <1>3, Zenon DEF TakeSeat, TurnAway, Wait, WaitAgain, GiveUp
  <2> QED
    BY <1>0, <2>1
<1>4. ASSUME NEW c \in Calls, release(c) \/ Leave(c) PROVE LockKept' /\ NothingStranded'
  <2>1. at[c] = "rest" /\ at' = [at EXCEPT ![c] = "check"] /\ UNCHANGED <<lock, lost_wakes>>
    BY <1>4, Zenon DEF release, Leave, Queues
  <2> QED
    BY <1>0, <2>1, Zenon
<1>5. ASSUME NEW c \in Calls, WakeUp(c) \/ TimerFiresEarly(c) PROVE LockKept' /\ NothingStranded'
    BY <1>0, <1>5, Zenon DEF WakeUp, TimerFiresEarly
<1>6. ASSUME NEW l \in Loops, TurnLoop(l) PROVE LockKept' /\ NothingStranded'
    BY <1>0, <1>6, Zenon DEF TurnLoop
<1> QED
    BY <1>1, <1>2, <1>3, <1>4, <1>5, <1>6, Cases, Zenon

Refused == {c \in Calls : stage[c] = "refused"}

\* The seats on their way back are those whose operation is in the list.
LEMMA ReturningIs == Returning = {c \in Calls : SeatReturned(c) \in Contents(pending)}
BY Zenon DEF Returning, Contents

\* What a step can do to seats and verdicts.
SeatMove ==
    \/ UNCHANGED <<taken, Running, Returning, Refused>>
    \/ \E c \in Calls \ (Running \cup Returning \cup Refused) :
        /\ taken < MaxConcurrent /\ taken' = taken + 1
        /\ Running' = Running \cup {c} /\ UNCHANGED <<Returning, Refused>>
    \/ \E c \in Running :
        /\ Running' = Running \ {c} /\ Returning' = Returning \cup {c}
        /\ UNCHANGED <<taken, Refused>>
    \/ \E c \in Returning \ Running :
        /\ taken' = seat_back(taken)
        /\ Returning' = Returning \ {c} /\ UNCHANGED <<Running, Refused>>
    \/ \E c \in Calls \ (Running \cup Returning \cup Refused) :
        /\ taken >= MaxConcurrent
        /\ Refused' = Refused \cup {c} /\ UNCHANGED <<taken, Running, Returning>>

\* A call that changes stage, to one that is not the stage of an operation.
LEMMA StageMove ==
    ASSUME Inv, NEW c \in Calls, NEW s \in Stage, stage' = [stage EXCEPT ![c] = s],
           stage[c] \in {"new", "waiting", "awake"}, pending' = pending
    PROVE  /\ OpsTrue'
           /\ c \notin Running \cup Returning \cup Refused
           /\ Returning' = Returning
           /\ Running' = IF s = "running" THEN Running \cup {c} ELSE Running
           /\ Refused' = IF s = "refused" THEN Refused \cup {c} ELSE Refused
<1>1. stage \in [Calls -> Stage] /\ OpsTrue /\ pending \in Seq(Op)
    BY Zenon DEF Inv, TypeOK
<1>2. \A o \in Contents(pending) : o \in Op
    BY <1>1 DEF Contents
<1>3. \A o \in Contents(pending) : o.of # c
    BY <1>1, Zenon DEF OpsTrue
<1>4. OpsTrue'
    BY <1>1, <1>2, <1>3 DEF OpsTrue, Contents, Injective, Op
<1>5. SeatReturned(c).of = c
    BY Zenon DEF SeatReturned
<1>6. c \notin Returning
    BY <1>3, <1>5, ReturningIs, Zenon
<1>7. c \notin Running \cup Refused
    BY Zenon DEF Running, Refused
<1>8. Running' = IF s = "running" THEN Running \cup {c} ELSE Running
    BY <1>1, Zenon DEF Running
<1>9. Refused' = IF s = "refused" THEN Refused \cup {c} ELSE Refused
    BY <1>1, Zenon DEF Refused
<1>10. Returning' = Returning
    BY Zenon DEF Returning
<1> QED
    BY <1>4, <1>6, <1>7, <1>8, <1>9, <1>10, Zenon

\* Every step keeps the list true and moves at most one seat.
LEMMA MoveStep ==
    ASSUME Inv, Next
    PROVE  OpsTrue' /\ SeatMove
<1>0. /\ stage \in [Calls -> Stage] /\ OpsTrue /\ pending \in Seq(Op)
      /\ Injective(pending) /\ taken \in Nat
    BY Zenon DEF Inv, TypeOK, OpsTrue
<1>00. \A o \in Contents(pending) : o \in Op
    BY <1>0 DEF Contents
<1>1. ASSUME UNCHANGED <<taken, pending, stage>> PROVE OpsTrue' /\ SeatMove
  <2>1. OpsTrue'
    BY <1>0, <1>1, Zenon DEF OpsTrue, Contents, Injective
  <2>2. UNCHANGED <<Running, Returning, Refused>>
    BY <1>1, Zenon DEF Running, Returning, Refused
  <2> QED
    BY <1>1, <2>1, <2>2, Zenon DEF SeatMove
<1>2. ASSUME NEW c \in Calls, ApplySeat(c) PROVE OpsTrue' /\ SeatMove
  <2>1. PICK d \in Calls : Head(pending) = SeatReturned(d)
    <3>1. Head(pending) \in Op /\ Head(pending).op = "seat"
        BY <1>0, <1>2 DEF ApplySeat
    <3>2. Head(pending) = [op |-> "seat", of |-> Head(pending).of] /\ Head(pending).of \in Calls
        BY <3>1, Zenon DEF Op
    <3> QED
        BY <3>2, Zenon DEF SeatReturned
  <2>2. /\ Contents(pending') = Contents(pending) \ {SeatReturned(d)} /\ Injective(pending')
        /\ SeatReturned(d) \in Contents(pending)
    BY <1>0, <1>2, <2>1, TailFacts, Zenon DEF ApplySeat
  <2>3. SeatReturned(d).of = d /\ SeatReturned(d).op = "seat"
    BY Zenon DEF SeatReturned
  <2>4. stage[d] = "released"
    BY <1>0, <2>2, <2>3, Zenon DEF OpsTrue
  <2>5. stage' = stage /\ taken' = seat_back(taken)
    BY <1>2, Zenon DEF ApplySeat
  <2>6. OpsTrue'
    <3>1. Injective(pending)'
        BY <2>2, Zenon DEF Injective
    <3>2. Contents(pending)' = Contents(pending) \ {SeatReturned(d)}
        BY <2>2, Zenon DEF Contents
    <3> QED
        BY <1>0, <2>5, <3>1, <3>2, Zenon DEF OpsTrue
  <2>7. Returning' = Returning \ {d}
    <3>1. Returning' = {x \in Calls : SeatReturned(x) \in Contents(pending')}
        BY Zenon DEF Returning, Contents
    <3>2. \A x \in Calls : SeatReturned(x) = SeatReturned(d) <=> x = d
        BY Zenon DEF SeatReturned
    <3> QED
        BY <2>2, <3>1, <3>2, ReturningIs, Zenon
  <2>8. Running' = Running /\ Refused' = Refused
    BY <2>5, Zenon DEF Running, Refused
  <2>9. d \in Returning \ Running
    BY <2>2, <2>4, ReturningIs, Zenon DEF Running
  <2> QED
    BY <2>5, <2>6, <2>7, <2>8, <2>9, Zenon DEF SeatMove
<1>3. ASSUME NEW c \in Calls, ApplyLeave(c) PROVE OpsTrue' /\ SeatMove
  <2>1. /\ Contents(pending') = Contents(pending) \ {Head(pending)} /\ Injective(pending')
        /\ Head(pending).op = "leave" /\ UNCHANGED <<taken, stage>>
    BY <1>0, <1>3, TailFacts, Zenon DEF ApplyLeave
  <2>2. OpsTrue'
    <3>1. Injective(pending)'
        BY <2>1, Zenon DEF Injective
    <3>2. Contents(pending)' \subseteq Contents(pending)
        BY <2>1, Zenon DEF Contents
    <3> QED
        BY <1>0, <2>1, <3>1, <3>2, Zenon DEF OpsTrue
  <2>3. Returning' = Returning
    <3>1. Returning' = {x \in Calls : SeatReturned(x) \in Contents(pending')}
        BY Zenon DEF Returning, Contents
    <3>2. \A x \in Calls : SeatReturned(x) # Head(pending)
        BY <2>1 DEF SeatReturned
    <3> QED
        BY <2>1, <3>1, <3>2, ReturningIs, Zenon
  <2>4. Running' = Running /\ Refused' = Refused
    BY <2>1, Zenon DEF Running, Refused
  <2> QED
    BY <2>1, <2>2, <2>3, <2>4, Zenon DEF SeatMove
<1>4. ASSUME NEW c \in Calls, TakeSeat(c) PROVE OpsTrue' /\ SeatMove
  <2>1. /\ stage' = [stage EXCEPT ![c] = "running"] /\ stage[c] \in {"new", "waiting", "awake"}
        /\ pending' = pending /\ taken < MaxConcurrent /\ taken' = taken + 1
    BY <1>4, Zenon DEF TakeSeat, Becomes, Decides, seat_free
  <2>2. "running" \in Stage
    BY Zenon DEF Stage
  <2>3. /\ OpsTrue' /\ c \notin Running \cup Returning \cup Refused
        /\ Returning' = Returning /\ Running' = Running \cup {c} /\ Refused' = Refused
    BY <2>1, <2>2, StageMove, Zenon
  <2> QED
    BY <2>1, <2>3, Zenon DEF SeatMove
<1>5. ASSUME NEW c \in Calls, TurnAway(c) \/ GiveUp(c) PROVE OpsTrue' /\ SeatMove
  <2>1. /\ stage' = [stage EXCEPT ![c] = "refused"] /\ stage[c] \in {"new", "waiting", "awake"}
        /\ pending' = pending /\ ~ taken < MaxConcurrent /\ taken' = taken
    BY <1>5, Zenon DEF TurnAway, GiveUp, Becomes, Decides, seat_free
  <2>2. "refused" \in Stage
    BY Zenon DEF Stage
  <2>3. /\ OpsTrue' /\ c \notin Running \cup Returning \cup Refused
        /\ Returning' = Returning /\ Running' = Running /\ Refused' = Refused \cup {c}
    BY <2>1, <2>2, StageMove, Zenon
  <2>4. taken >= MaxConcurrent
    BY <1>0, <2>1, BulkheadAssumption
  <2> QED
    BY <2>1, <2>3, <2>4, Zenon DEF SeatMove
<1>6. ASSUME NEW c \in Calls, Wait(c) \/ WaitAgain(c) \/ WakeUp(c) \/ TimerFiresEarly(c)
      PROVE OpsTrue' /\ SeatMove
  <2>1. PICK s \in {"waiting", "awake"} : stage' = [stage EXCEPT ![c] = s]
    BY <1>6, Zenon DEF Wait, WaitAgain, WakeUp, TimerFiresEarly, Becomes
  <2>2. stage[c] \in {"new", "waiting", "awake"} /\ pending' = pending /\ taken' = taken
    BY <1>6, Zenon DEF Wait, WaitAgain, WakeUp, TimerFiresEarly, Decides
  <2>3. s \in Stage
    BY Zenon DEF Stage
  <2>4. OpsTrue' /\ UNCHANGED <<Running, Returning, Refused>>
    BY <2>1, <2>2, <2>3, StageMove, Zenon
  <2> QED
    BY <2>2, <2>4, Zenon DEF SeatMove
<1>7. ASSUME NEW c \in Calls, release(c) PROVE OpsTrue' /\ SeatMove
  <2> DEFINE o == SeatReturned(c)
  <2>1. /\ pending' = Append(pending, o) /\ stage[c] = "running"
        /\ stage' = [stage EXCEPT ![c] = "released"] /\ taken' = taken
    BY <1>7, Zenon DEF release, Queues, Becomes
  <2>2. o \in Op /\ o.of = c /\ o.op = "seat" /\ \A x \in Calls : SeatReturned(x) = o <=> x = c
    BY Zenon DEF SeatReturned, Op
  <2> HIDE DEF o
  <2>3. \A p \in Contents(pending) : p.of # c
    BY <1>0, <2>1, Zenon DEF OpsTrue
  <2>4. Contents(pending') = Contents(pending) \cup {o} /\ Injective(pending')
    BY <1>0, <2>1, <2>2, <2>3, AppendFacts, Zenon
  <2>5. OpsTrue'
    <3>1. Injective(pending)' /\ Contents(pending)' = Contents(pending) \cup {o}
        BY <2>4, Zenon DEF Injective, Contents
    <3> QED
        BY <1>0, <1>00, <2>1, <2>2, <2>3, <3>1, Zenon DEF OpsTrue, Op
  <2>6. Returning' = Returning \cup {c}
    <3>1. Returning' = {x \in Calls : SeatReturned(x) \in Contents(pending')}
        BY Zenon DEF Returning, Contents
    <3> QED
        BY <2>2, <2>4, <3>1, ReturningIs, Zenon
  <2>7. Running' = Running \ {c} /\ Refused' = Refused /\ c \in Running
    BY <1>0, <2>1, Zenon DEF Running, Refused
  <2> QED
    BY <2>1, <2>5, <2>6, <2>7, Zenon DEF SeatMove
<1>8. ASSUME NEW c \in Calls, Leave(c) PROVE OpsTrue' /\ SeatMove
  <2> DEFINE o == Leaves(c)
  <2>1. /\ pending' = Append(pending, o) /\ stage[c] = "waiting"
        /\ stage' = [stage EXCEPT ![c] = "left"] /\ taken' = taken
    BY <1>8, Zenon DEF Leave, Queues, Becomes
  <2>2. o \in Op /\ o.of = c /\ o.op = "leave" /\ \A x \in Calls : SeatReturned(x) # o
    BY Zenon DEF Leaves, SeatReturned, Op
  <2> HIDE DEF o
  <2>3. \A p \in Contents(pending) : p.of # c
    BY <1>0, <2>1, Zenon DEF OpsTrue
  <2>4. Contents(pending') = Contents(pending) \cup {o} /\ Injective(pending')
    BY <1>0, <2>1, <2>2, <2>3, AppendFacts, Zenon
  <2>5. OpsTrue'
    <3>1. Injective(pending)' /\ Contents(pending)' = Contents(pending) \cup {o}
        BY <2>4, Zenon DEF Injective, Contents
    <3> QED
        BY <1>0, <1>00, <2>1, <2>2, <2>3, <3>1, Zenon DEF OpsTrue, Op
  <2>6. Returning' = Returning
    <3>1. Returning' = {x \in Calls : SeatReturned(x) \in Contents(pending')}
        BY Zenon DEF Returning, Contents
    <3> QED
        BY <2>2, <2>4, <3>1, ReturningIs, Zenon
  <2>7. Running' = Running /\ Refused' = Refused
    BY <1>0, <2>1, Zenon DEF Running, Refused
  <2> QED
    BY <2>1, <2>5, <2>6, <2>7, Zenon DEF SeatMove
<1>9. ASSUME NEW c \in Calls, Quiet(c) PROVE UNCHANGED <<taken, pending, stage>>
    BY <1>9, Zenon DEF Quiet, Enter, Prune, PassOn, get_state, Unlock, Check, TryLock, PassDeadline
<1>10. ASSUME NEW l \in Loops, TurnLoop(l) PROVE UNCHANGED <<taken, pending, stage>>
    BY <1>10, Zenon DEF TurnLoop
<1> QED
    BY <1>1, <1>2, <1>3, <1>4, <1>5, <1>6, <1>7, <1>8, <1>9, <1>10, Cases, Zenon

\* The count follows the seats.
LEMMA SeatsStep ==
    ASSUME Inv, SeatMove
    PROVE  SeatsExact'
<1> DEFINE out == Running \cup Returning
<1>0. /\ taken = Cardinality(out) /\ taken <= MaxConcurrent /\ taken \in Nat
      /\ MaxConcurrent \in Nat
    BY BulkheadAssumption, Zenon DEF Inv, TypeOK, SeatsExact
<1>00. out \subseteq Calls /\ IsFiniteSet(out)
    BY CallsFinite, Zenon DEF Running, Returning
<1>1. CASE UNCHANGED <<taken, Running, Returning, Refused>>
    BY <1>0, <1>1, Zenon DEF SeatsExact
<1>2. ASSUME NEW c \in Calls \ (Running \cup Returning \cup Refused),
             taken < MaxConcurrent, taken' = taken + 1,
             Running' = Running \cup {c}, Returning' = Returning
      PROVE  SeatsExact'
  <2>1. (Running \cup Returning)' = out \cup {c} /\ c \notin out
    BY <1>2, Zenon
  <2>2. Cardinality(out \cup {c}) = Cardinality(out) + 1
    BY <1>00, <2>1, FS_AddElement, Zenon
  <2> QED
    BY <1>0, <1>2, <2>1, <2>2 DEF SeatsExact
<1>3. ASSUME NEW c \in Running, Running' = Running \ {c}, Returning' = Returning \cup {c},
             taken' = taken
      PROVE  SeatsExact'
  <2>1. (Running \cup Returning)' = out
    BY <1>3, Zenon
  <2> QED
    BY <1>0, <1>3, <2>1, Zenon DEF SeatsExact
<1>4. ASSUME NEW c \in Returning \ Running, taken' = seat_back(taken),
             Returning' = Returning \ {c}, Running' = Running
      PROVE  SeatsExact'
  <2>1. (Running \cup Returning)' = out \ {c} /\ c \in out
    BY <1>4, Zenon
  <2>2. Cardinality(out \ {c}) = Cardinality(out) - 1
    BY <1>00, <2>1, FS_RemoveElement, Zenon
  <2>3. Cardinality(out) # 0
    BY <1>00, <2>1, FS_EmptySet, Zenon
  <2> QED
    BY <1>0, <1>4, <2>1, <2>2, <2>3 DEF SeatsExact, seat_back
<1>5. ASSUME taken' = taken, Running' = Running, Returning' = Returning PROVE SeatsExact'
    BY <1>0, <1>5, Zenon DEF SeatsExact
<1> QED
    BY <1>1, <1>2, <1>3, <1>4, <1>5, Zenon DEF SeatMove

\* A waiter that is woken, or leaves, keeps the queue sound: a woken one
\* that leaves still has its signal.
LEMMA UpSound ==
    ASSUME NEW q, NEW st \in [Calls -> Stage], NEW c \in Calls, Sound(q, st), st[c] = "waiting"
    PROVE  /\ Sound(q, [st EXCEPT ![c] = "awake"]) /\ Sound(q, [st EXCEPT ![c] = "left"])
           /\ Sound([q EXCEPT !.signal = @ \ {c}], [st EXCEPT ![c] = "awake"])
<1>1. q \in Line /\ q.queued \subseteq Calls /\ q.woken \subseteq Calls /\ q.signal \subseteq Calls
    BY Zenon DEF Sound, Line
<1> DEFINE up == [st EXCEPT ![c] = "awake"]
           off == [st EXCEPT ![c] = "left"]
           u == [q EXCEPT !.signal = @ \ {c}]
<1>2. up[c] = "awake" /\ off[c] = "left" /\ \A d \in Calls \ {c} : up[d] = st[d] /\ off[d] = st[d]
    OBVIOUS
<1>3. /\ u \in Line /\ u.queued = q.queued /\ u.woken = q.woken
      /\ u.signal = q.signal \ {c} /\ u.ahead = q.ahead
    BY <1>1, Zenon DEF Line
<1> HIDE DEF up, off, u
<1>4. Sound(q, up)
    BY <1>1, <1>2, Zenon DEF Sound
<1>5. Sound(q, off)
    BY <1>1, <1>2, Zenon DEF Sound
<1>6. Orderly(u)
    BY <1>3, Zenon DEF Sound, Orderly
<1>7. Sound(u, up)
    BY <1>2, <1>3, <1>4, <1>6, Zenon DEF Sound
<1> QED
    BY <1>4, <1>5, <1>7, Zenon DEF up, off, u

\* More seats taken, the same queue: the wakes are still enough.
LEMMA EnoughMore ==
    ASSUME NEW q, NEW p, q \in Line, p.queued = q.queued, p.woken = q.woken,
           NEW n \in Nat, NEW k \in Nat, n <= k, Enough(q, n)
    PROVE  Enough(p, k)
<1>1. Cardinality(q.woken) \in Nat
    BY CallsFinite, Zenon DEF Line
<1> QED
    BY <1>1, BulkheadAssumption DEF Enough

\* With every seat taken no wake is wanting.
LEMMA EnoughFull ==
    ASSUME NEW q \in Line, NEW n \in Nat, n >= MaxConcurrent
    PROVE  Enough(q, n)
<1>1. Cardinality(q.woken) \in Nat
    BY CallsFinite, Zenon DEF Line
<1> QED
    BY <1>1, BulkheadAssumption DEF Enough

\* Every step keeps the queue sound and the wakes enough.
LEMMA LineStep ==
    ASSUME Inv, Next
    PROVE  LineKept'
<1> DEFINE n == taken + lost_wakes
<1>0. /\ Sound(line, stage) /\ Enough(line, n) /\ stage \in [Calls -> Stage]
      /\ taken \in Nat /\ lost_wakes \in Nat /\ n \in Nat /\ MaxConcurrent \in Nat /\ line \in Line
    BY BulkheadAssumption DEF Inv, TypeOK, LineKept
<1>00. \A c \in line.queued : stage[c] \in {"waiting", "awake", "left"}
    BY <1>0, Zenon DEF Sound
<1>000. SUFFICES Sound(line', stage') /\ Enough(line', taken' + lost_wakes')
    BY Zenon DEF LineKept, Sound, Enough, Orderly, Line
<1> DEFINE Good == Sound(line', stage') /\ Enough(line', taken' + lost_wakes')
<1>1. ASSUME UNCHANGED <<line, stage, taken, lost_wakes>> PROVE Good
    BY <1>0, <1>1, Zenon
<1>2. ASSUME NEW c \in Calls, Prune(c) PROVE Good
  <2>1. /\ line' = remove(line, dead) /\ lost_wakes' = Cardinality(dead \cap line.woken)
        /\ UNCHANGED <<taken, stage>> /\ Settling(c)
    BY <1>2, Zenon DEF Prune
  <2>2. lost_wakes = 0
    BY <1>0, <2>1 DEF Inv, LockKept
  <2>3. dead \subseteq Calls
    BY <1>0, Zenon DEF dead, Line
  <2>4. n = taken
    BY <1>0, <2>2
  <2>5. Enough(remove(line, dead), taken + Cardinality(dead \cap line.woken))
    BY <1>0, <2>3, <2>4, RemoveEnough, Zenon
  <2> QED
    BY <1>0, <2>1, <2>3, <2>5, RemoveSound, Zenon
<1>3. ASSUME NEW c \in Calls, PassOn(c) PROVE Good
  <2>1. line' = wake_next(line) /\ lost_wakes' = lost_wakes - 1 /\ UNCHANGED <<taken, stage>>
        /\ lost_wakes > 0
    BY <1>3, Zenon DEF PassOn
  <2> DEFINE k == taken + lost_wakes'
  <2>2. k \in Nat /\ n = k + 1
    BY <1>0, <2>1
  <2> HIDE DEF n, k
  <2>3. Enough(wake_next(line), k) /\ Sound(wake_next(line), stage)
    BY <1>0, <2>2, WakeEnough, WakeSound, Zenon
  <2> QED
    BY <2>1, <2>3, Zenon DEF k
<1>4. ASSUME NEW c \in Calls, ApplySeat(c) PROVE Good
  <2>1. /\ line' = IF taken > 0 THEN wake_next(line) ELSE line
        /\ taken' = IF taken > 0 THEN taken - 1 ELSE taken
        /\ UNCHANGED <<stage, lost_wakes>>
    BY <1>4, Zenon DEF ApplySeat, seat_back
  <2>2. CASE taken > 0
    <3> DEFINE k == taken' + lost_wakes
    <3>1. k \in Nat /\ n = k + 1
        BY <1>0, <2>1, <2>2
    <3> HIDE DEF n, k
    <3>2. Enough(wake_next(line), k) /\ Sound(wake_next(line), stage)
        BY <1>0, <3>1, WakeEnough, WakeSound, Zenon
    <3> QED
        BY <2>1, <2>2, <3>2, Zenon DEF k
  <2>3. CASE ~ taken > 0
    BY <1>0, <2>1, <2>3, Zenon
  <2> QED
    BY <2>2, <2>3, Zenon
<1>5. ASSUME NEW c \in Calls, ApplyLeave(c) PROVE Good
  <2>1. Head(pending).of \in Calls
    <3>1. Head(pending) \in Op
        BY <1>5 DEF ApplyLeave, Inv, TypeOK
    <3> QED
        BY <3>1, Zenon DEF Op
  <2>2. line' = drop_waiter(line, Head(pending).of) /\ UNCHANGED <<taken, lost_wakes, stage>>
    BY <1>5, Zenon DEF ApplyLeave
  <2> QED
    BY <1>0, <2>1, <2>2, DropSound, DropEnough, Zenon
<1>6. ASSUME NEW c \in Calls, TakeSeat(c) PROVE Good
  <2> DEFINE r == remove(line, {c})
             u == [r EXCEPT !.signal = @ \ {c}]
             lost == Cardinality({c} \cap line.woken)
  <2>1. /\ line' = u /\ taken' = taken + 1 /\ lost_wakes' = lost_wakes
        /\ stage' = [stage EXCEPT ![c] = "running"]
    BY <1>6, Zenon DEF TakeSeat, Becomes
  <2>2. Sound(r, stage) /\ r \in Line /\ c \notin r.queued
    BY <1>0, RemoveSound, RemoveFacts
  <2>3. Enough(r, n + lost)
    BY <1>0, RemoveEnough, Zenon
  <2>4. lost \in Nat /\ lost <= 1
    <3>1. {c} \cap line.woken = {c} \/ {c} \cap line.woken = {}
        OBVIOUS
    <3> QED
        BY <3>1, FS_Singleton, FS_EmptySet
  <2> HIDE DEF r
  <2>5. Sound(u, stage) /\ u.queued = r.queued /\ u.woken = r.woken
    BY <2>2, UnsignalSound, Zenon
  <2> HIDE DEF u, lost
  <2>6. n + lost \in Nat /\ taken' + lost_wakes' \in Nat /\ n + lost <= taken' + lost_wakes'
    BY <1>0, <2>1, <2>4
  <2>7. Enough(u, taken' + lost_wakes')
    BY <2>2, <2>3, <2>5, <2>6, EnoughMore, Zenon
  <2>8. Sound(u, [stage EXCEPT ![c] = "running"])
    BY <1>0, <2>2, <2>5, StageSound, Zenon
  <2> QED
    BY <2>1, <2>7, <2>8, Zenon
<1>7. ASSUME NEW c \in Calls, TurnAway(c) \/ release(c) PROVE Good
  <2>1. PICK s \in {"refused", "released"} : stage' = [stage EXCEPT ![c] = s]
    BY <1>7, Zenon DEF TurnAway, release, Becomes
  <2>2. stage[c] \in {"new", "running"} /\ UNCHANGED <<line, taken, lost_wakes>>
    BY <1>7, Zenon DEF TurnAway, release, Queues, Decides
  <2>3. c \notin line.queued /\ s # "new"
    BY <1>00, <2>2, Zenon
  <2>4. Sound(line, [stage EXCEPT ![c] = s])
    BY <1>0, <2>3, StageSound, Zenon
  <2> QED
    BY <1>0, <2>1, <2>2, <2>4, Zenon
<1>8. ASSUME NEW c \in Calls, Wait(c) \/ WaitAgain(c) PROVE Good
  <2>1. /\ stage' = [stage EXCEPT ![c] = "waiting"] /\ UNCHANGED <<taken, lost_wakes>>
        /\ ~ taken < MaxConcurrent
    BY <1>8, Zenon DEF Wait, WaitAgain, Becomes, seat_free
  <2>2. Sound(line', stage')
    <3>1. CASE Wait(c)
      <4>1. line' = enqueue(line, c) /\ stage[c] = "new"
        BY <3>1, Zenon DEF Wait, Decides
      <4>2. c \notin line.queued /\ c \notin line.signal
        BY <1>0, <1>00, <4>1, Zenon DEF Sound
      <4> QED
        BY <1>0, <2>1, <4>1, <4>2, EnqueueSound, Zenon
    <3>2. CASE WaitAgain(c)
      <4>1. line' = requeue(line, c) /\ stage[c] = "awake"
        BY <3>2, Zenon DEF WaitAgain, Decides
      <4> QED
        BY <1>0, <2>1, <4>1, RequeueSound, Zenon
    <3> QED
        BY <1>8, <3>1, <3>2, Zenon
  <2>3. line' \in Line /\ taken' + lost_wakes' \in Nat /\ taken' + lost_wakes' >= MaxConcurrent
    BY <1>0, <2>1, <2>2 DEF Sound
  <2> QED
    BY <2>2, <2>3, EnoughFull, Zenon
<1>9. ASSUME NEW c \in Calls, GiveUp(c) PROVE Good
  <2> DEFINE r == drop_waiter(line, c)
  <2>1. /\ line' = r /\ UNCHANGED <<taken, lost_wakes>>
        /\ stage' = [stage EXCEPT ![c] = "refused"]
    BY <1>9, Zenon DEF GiveUp, Becomes
  <2>2. Sound(r, stage) /\ c \notin r.queued /\ Enough(r, n)
    BY <1>0, DropSound, DropEnough, Zenon
  <2> HIDE DEF r
  <2>3. Sound(r, [stage EXCEPT ![c] = "refused"])
    BY <1>0, <2>2, StageSound, Zenon
  <2> QED
    BY <2>1, <2>2, <2>3, Zenon
<1>10. ASSUME NEW c \in Calls, Leave(c) \/ TimerFiresEarly(c) PROVE Good
  <2>1. /\ stage[c] = "waiting" /\ UNCHANGED <<line, taken, lost_wakes>>
        /\ \/ stage' = [stage EXCEPT ![c] = "left"]
           \/ stage' = [stage EXCEPT ![c] = "awake"]
    BY <1>10, Zenon DEF Leave, TimerFiresEarly, Queues, Becomes
  <2>2. Sound(line, [stage EXCEPT ![c] = "left"]) /\ Sound(line, [stage EXCEPT ![c] = "awake"])
    BY <1>0, <2>1, UpSound, Zenon
  <2> QED
    BY <1>0, <2>1, <2>2, Zenon
<1>11. ASSUME NEW c \in Calls, WakeUp(c) PROVE Good
  <2> DEFINE u == [line EXCEPT !.signal = @ \ {c}]
  <2>1. /\ stage[c] = "waiting" /\ line' = u /\ UNCHANGED <<taken, lost_wakes>>
        /\ stage' = [stage EXCEPT ![c] = "awake"]
    BY <1>11, Zenon DEF WakeUp, Becomes
  <2>2. Sound(u, [stage EXCEPT ![c] = "awake"])
    BY <1>0, <2>1, UpSound, Zenon
  <2>3. u.queued = line.queued /\ u.woken = line.woken
    BY <1>0, Zenon DEF Line
  <2> HIDE DEF u
  <2>4. Enough(u, n)
    BY <1>0, <2>3, Zenon DEF Enough
  <2> QED
    BY <2>1, <2>2, <2>4, Zenon
<1>12. ASSUME NEW c \in Calls, Quiet(c), ~ Prune(c), ~ PassOn(c)
       PROVE  UNCHANGED <<line, stage, taken, lost_wakes>>
    BY <1>12, Zenon DEF Quiet, Enter, get_state, Unlock, Check, TryLock, PassDeadline
<1>13. ASSUME NEW l \in Loops, TurnLoop(l) PROVE UNCHANGED <<line, stage, taken, lost_wakes>>
    BY <1>13, Zenon DEF TurnLoop
<1> HIDE DEF Good
<1>14. Good
    BY <1>1, <1>2, <1>3, <1>4, <1>5, <1>6, <1>7, <1>8, <1>9, <1>10, <1>11, <1>12, <1>13, Cases, Zenon
<1> QED
    BY <1>14, Zenon DEF Good

-----------------------------------------------------------------------------
(* The theorems *)

\* The invariant holds throughout.
LEMMA Invariance == Spec => []Inv
<1>1. Inv /\ [Next]_vars => Inv'
  <2> SUFFICES ASSUME Inv, [Next]_vars PROVE Inv'
    OBVIOUS
  <2>1. CASE Next
    <3>1. TypeOK' /\ LockKept' /\ NothingStranded' /\ OpsTrue' /\ LineKept'
        BY <2>1, TypeStep, LockStep, MoveStep, LineStep, Zenon
    <3>2. SeatsExact'
        BY <2>1, MoveStep, SeatsStep, Zenon
    <3> QED
        BY <3>1, <3>2, Zenon DEF Inv
  <2>2. CASE UNCHANGED vars
    <3>1. TypeOK'
        BY <2>2, Zenon DEF vars, Inv, TypeOK
    <3>2. LockKept' /\ NothingStranded'
        BY <2>2, Zenon DEF vars, Inv, LockKept, NothingStranded, Settling
    <3>3. OpsTrue'
        BY <2>2, Zenon DEF vars, Inv, OpsTrue, Contents, Injective
    <3>4. SeatsExact'
        BY <2>2, Zenon DEF vars, Inv, SeatsExact, Running, Returning
    <3>5. Sound(line, stage)' = Sound(line, stage)
        BY <2>2, Zenon DEF vars, Sound, Orderly
    <3>6. Enough(line, taken + lost_wakes)' = Enough(line, taken + lost_wakes)
        BY <2>2, Zenon DEF vars, Enough
    <3> QED
        BY <3>1, <3>2, <3>3, <3>4, <3>5, <3>6, Zenon DEF Inv, LineKept
  <2> QED
    BY <2>1, <2>2, Zenon
<1> QED
    BY <1>1, Initially, PTL DEF Spec

\* Counts, queue, list and stages keep their types; the seat count of
\* _take_seat_locked and _settle never falls below zero.
THEOREM BulkheadTypeCorrect == Spec => []TypeOK
<1>1. Inv => TypeOK
    BY Zenon DEF Inv
<1> QED
    BY <1>1, Invariance, PTL

\* _apply_pending_nonblocking's claim: an operation queued without the lock
\* always has someone who will apply it.
THEOREM NothingStrandedCorrect == Spec => []NothingStranded
<1>1. Inv => NothingStranded
    BY Zenon DEF Inv
<1> QED
    BY <1>1, Invariance, PTL

\* Waking a waiter never releases a token that is free.
THEOREM TokenFreshCorrect == Spec => []TokenFresh
<1>1. Inv => TokenFresh
    BY Zenon DEF Inv, LineKept, Sound, TokenFresh
<1> QED
    BY <1>1, Invariance, PTL

\* A free seat never goes unnoticed by more waiters than wakes are on their
\* way, whatever arrives, leaves, expires, or stops.
THEOREM NoLostWakeCorrect == Spec => []NoLostWake
<1>1. ASSUME Inv PROVE NoLostWake
  <2>1. Sound(line, stage) /\ Enough(line, taken + lost_wakes) /\ line \in Line
    BY <1>1, Zenon DEF Inv, LineKept, Sound
  <2>2. Alerted = line.woken
    BY <2>1, Zenon DEF Alerted, Sound, Line
  <2> QED
    BY <2>1, <2>2, Zenon DEF NoLostWake, Enough
<1> QED
    BY <1>1, Invariance, PTL

\* The compartment implements the counting semaphore: seats out never
\* exceed the limit, and a refusal happens only while all of them are out.
THEOREM CountsSeatsCorrect == Spec => CountsSeats
<1>1. Init => Semaphore!Init
    BY DEF Init, Semaphore!Init, Running, Returning
<1>2. Inv /\ Inv' /\ [Next]_vars => [Semaphore!Next]_(Semaphore!semaphoreVars)
  <2> SUFFICES ASSUME Inv, [Next]_vars PROVE [Semaphore!Next]_(Semaphore!semaphoreVars)
    OBVIOUS
  <2>1. CASE UNCHANGED vars
    BY <2>1, Zenon DEF vars, Semaphore!semaphoreVars, Running, Returning
  <2>2. CASE Next
    <3>1. SeatMove
        BY <2>2, MoveStep, Zenon
    <3>0. Semaphore!out = Cardinality(Running \cup Returning)
        BY Zenon DEF Semaphore!out, Semaphore!Cardinality, Cardinality
    <3>2. /\ Semaphore!out = taken /\ taken \in Nat /\ taken <= MaxConcurrent
          /\ MaxConcurrent \in Nat
        BY <3>0, BulkheadAssumption, Zenon DEF Inv, TypeOK, SeatsExact
    <3>3. Running \subseteq Calls /\ Returning \subseteq Calls
        BY Zenon DEF Running, Returning
    <3>4. CASE UNCHANGED <<taken, Running, Returning, Refused>>
        BY <3>4, Zenon DEF Refused, Semaphore!semaphoreVars
    <3>5. ASSUME NEW c \in Calls \ (Running \cup Returning \cup Refused), taken < MaxConcurrent,
                 Running' = Running \cup {c}, UNCHANGED <<Returning, Refused>>
          PROVE  Semaphore!Take(c)
        BY <3>2, <3>5, Zenon DEF Refused, Semaphore!Take
    <3>6. ASSUME NEW c \in Running, Running' = Running \ {c}, Returning' = Returning \cup {c},
                 UNCHANGED Refused
          PROVE  Semaphore!GiveBack(c)
        BY <3>6, Zenon DEF Refused, Semaphore!GiveBack
    <3>7. ASSUME NEW c \in Returning, Returning' = Returning \ {c}, UNCHANGED <<Running, Refused>>
          PROVE  Semaphore!Arrive(c)
        BY <3>7, Zenon DEF Refused, Semaphore!Arrive
    <3>8. ASSUME NEW c \in Calls \ (Running \cup Returning \cup Refused), taken >= MaxConcurrent,
                 Refused' = Refused \cup {c}, UNCHANGED <<Running, Returning>>
          PROVE  Semaphore!Refuse(c)
        BY <3>2, <3>8 DEF Refused, Semaphore!Refuse
    <3> QED
        BY <3>1, <3>3, <3>4, <3>5, <3>6, <3>7, <3>8, Zenon DEF SeatMove, Semaphore!Next
  <2> QED
    BY <2>1, <2>2, Zenon
<1> QED
    BY <1>1, <1>2, Invariance, PTL DEF Spec, CountsSeats, Semaphore!Spec
=============================================================================
