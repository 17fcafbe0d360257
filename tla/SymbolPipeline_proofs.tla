------------------------ MODULE SymbolPipeline_proofs ------------------------
(***************************************************************************)
(* Theorems about the work queues of the continuous runtime, for any        *)
(* symbols, events, capacities and number of stops: what the queues hold    *)
(* and what a checkpoint restores stays within its bounds, no accepted      *)
(* request is forgotten, and a full queue gives up the least urgent one.    *)
(*                                                                         *)
(* First the ordered dictionaries, kept as sequences with one work per key: *)
(* what each operation keeps, drops and adds.  Then one invariant of a      *)
(* runtime's memory (MemOk) and one of the checkpoint file (CkptOk), which  *)
(* together are inductive: what is saved is memory with, at most, the work  *)
(* in hand taken out, and there is room to put it back.                     *)
(***************************************************************************)
EXTENDS SymbolPipeline, SequenceTheorems, WellFoundedInduction, TLAPS

USE PipelineAssumption

-----------------------------------------------------------------------------
(* Ordered dictionaries.                                                    *)

IsQueue(q) == q \in Seq(Work) /\ Keyed(q)

In(w, q) == \E j \in 1 .. Len(q) : q[j] = w

LEMMA KeysHas == ASSUME NEW q, NEW k PROVE k \in Keys(q) <=> Has(q, k)
BY DEF Keys, Has

LEMMA HasIn ==
  ASSUME NEW q, NEW k
  PROVE  Has(q, k) <=> \E w : In(w, q) /\ w.key = k
BY DEF Has, In

LEMMA PlaceOf ==
  ASSUME NEW q, NEW k, Has(q, k)
  PROVE  Place(q, k) \in 1 .. Len(q) /\ q[Place(q, k)].key = k
BY DEF Has, Place

LEMMA EmptyQueue == IsQueue(<<>>) /\ Len(<<>>) = 0 /\ \A k : ~Has(<<>>, k)
BY DEF IsQueue, Keyed, Has

\* Removing a key removes its work and no other.
LEMMA WithoutQueue ==
  ASSUME NEW q, IsQueue(q), NEW k
  PROVE  /\ IsQueue(Without(q, k)) /\ Len(Without(q, k)) <= Len(q)
         /\ Has(q, k) => Len(Without(q, k)) = Len(q) - 1
         /\ ~Has(Without(q, k), k)
         /\ \A w : In(w, Without(q, k)) <=> In(w, q) /\ w.key # k
<1> DEFINE r == Without(q, k)
           p == Place(q, k)
<1>1. q \in Seq(Work) /\ Len(q) \in Nat /\ (\A j \in 1 .. Len(q) : q[j] \in Work) /\ Keyed(q)
  BY DEF IsQueue
<1>2. CASE ~Has(q, k)
  BY <1>1, <1>2 DEF Without, In, Has, IsQueue
<1>3. CASE Has(q, k)
  <2>1. r = [j \in 1 .. Len(q) - 1 |-> IF j < p THEN q[j] ELSE q[j + 1]]
    BY <1>3 DEF Without
  <2>2. p \in 1 .. Len(q) /\ q[p].key = k
    BY <1>3, PlaceOf
  <2> HIDE DEF r, p
  <2>3. r \in Seq(Work) /\ Len(r) = Len(q) - 1
    <3>1. Len(q) - 1 \in Nat
      BY <1>1, <2>2
    <3>2. \A j \in 1 .. Len(q) - 1 : (IF j < p THEN q[j] ELSE q[j + 1]) \in Work
      BY <1>1
    <3>3. r \in [1 .. Len(q) - 1 -> Work]
      BY <2>1, <3>2
    <3> QED BY <3>1, <3>3, SeqDef, LenProperties
  <2>4. \A j \in 1 .. Len(r) : r[j] = IF j < p THEN q[j] ELSE q[j + 1]
    BY <2>1, <2>3
  <2>5. Keyed(r)
    BY <1>1, <2>2, <2>3, <2>4 DEF Keyed
  <2>6. \A j \in 1 .. Len(r) : r[j].key # k
    BY <1>1, <2>2, <2>3, <2>4 DEF Keyed
  <2>7. ASSUME NEW w, In(w, q), w.key # k PROVE In(w, r)
    <3>1. PICK i \in 1 .. Len(q) : q[i] = w
      BY <2>7 DEF In
    <3>2. CASE i < p
      <4>1. i \in 1 .. Len(r) /\ r[i] = w
        BY <1>1, <2>2, <2>3, <2>4, <3>1, <3>2
      <4> QED BY <4>1 DEF In
    <3>3. CASE i > p
      <4>1. i - 1 \in 1 .. Len(r) /\ r[i - 1] = w
        BY <1>1, <2>2, <2>3, <2>4, <3>1, <3>3
      <4> QED BY <4>1 DEF In
    <3> QED BY <1>1, <2>2, <2>7, <3>1, <3>2, <3>3
  <2>8. ASSUME NEW w, In(w, r) PROVE In(w, q)
    BY <1>1, <2>2, <2>3, <2>4, <2>8 DEF In
  <2>9. ~Has(r, k) /\ \A w : In(w, r) => w.key # k
    BY <2>6 DEF Has, In
  <2>10. IsQueue(r) /\ Len(r) <= Len(q)
    BY <1>1, <2>3, <2>5 DEF IsQueue
  <2> QED BY <2>3, <2>7, <2>8, <2>9, <2>10 DEF r
<1> QED BY <1>2, <1>3

\* A work put in takes the place of the one with its key, or the last place.
LEMMA PutQueue ==
  ASSUME NEW q, IsQueue(q), NEW w \in Work
  PROVE  /\ IsQueue(Put(q, w)) /\ Has(Put(q, w), w.key)
         /\ Len(Put(q, w)) = IF Has(q, w.key) THEN Len(q) ELSE Len(q) + 1
         /\ \A k : Has(q, k) => Has(Put(q, w), k)
         /\ \A v : In(v, Put(q, w)) => In(v, q) \/ v = w
<1> DEFINE r == Put(q, w)
           p == Place(q, w.key)
<1>1. q \in Seq(Work) /\ Len(q) \in Nat /\ (\A j \in 1 .. Len(q) : q[j] \in Work) /\ Keyed(q)
  BY DEF IsQueue
<1>2. CASE Has(q, w.key)
  <2>1. r = [q EXCEPT ![p] = w]
    BY <1>2 DEF Put
  <2>2. p \in 1 .. Len(q) /\ q[p].key = w.key
    BY <1>2, PlaceOf
  <2> HIDE DEF r, p
  <2>3. r \in Seq(Work) /\ Len(r) = Len(q) /\ \A j \in 1 .. Len(q) : r[j] = IF j = p THEN w ELSE q[j]
    BY <1>1, <2>1, <2>2
  <2>4. \A j \in 1 .. Len(q) : r[j].key = q[j].key
    BY <2>2, <2>3
  <2> QED BY <1>1, <1>2, <2>2, <2>3, <2>4 DEF IsQueue, Keyed, Has, In, r
<1>3. CASE ~Has(q, w.key)
  <2>1. r = Append(q, w)
    BY <1>3 DEF Put
  <2> HIDE DEF r, p
  <2>2. /\ r \in Seq(Work) /\ Len(r) = Len(q) + 1 /\ r[Len(q) + 1] = w
        /\ \A j \in 1 .. Len(q) : r[j] = q[j]
    BY <1>1, <2>1
  <2> QED BY <1>1, <1>3, <2>2 DEF IsQueue, Keyed, Has, In, r
<1> QED BY <1>2, <1>3

LEMMA AppendQueue ==
  ASSUME NEW q, IsQueue(q), NEW w \in Work, ~Has(q, w.key)
  PROVE  /\ IsQueue(Append(q, w)) /\ Len(Append(q, w)) = Len(q) + 1
         /\ \A v : In(v, Append(q, w)) <=> In(v, q) \/ v = w
<1> DEFINE r == Append(q, w)
<1>1. q \in Seq(Work) /\ Len(q) \in Nat /\ (\A j \in 1 .. Len(q) : q[j] \in Work) /\ Keyed(q)
  BY DEF IsQueue
<1>2. /\ r \in Seq(Work) /\ Len(r) = Len(q) + 1 /\ r[Len(q) + 1] = w
      /\ \A j \in 1 .. Len(q) : r[j] = q[j]
  BY <1>1
<1> HIDE DEF r
<1>3. IsQueue(r)
  BY <1>1, <1>2 DEF IsQueue, Keyed, Has
<1>4. \A v : In(v, r) <=> In(v, q) \/ v = w
  BY <1>1, <1>2 DEF In
<1> QED BY <1>2, <1>3, <1>4 DEF r

\* The first work popped, the rest stay.
LEMMA TailQueue ==
  ASSUME NEW q, IsQueue(q), q # <<>>
  PROVE  /\ IsQueue(Tail(q)) /\ Len(Tail(q)) = Len(q) - 1 /\ Len(q) \in Nat \ {0}
         /\ Head(q) \in Work /\ ~Has(Tail(q), Head(q).key)
         /\ \A w : In(w, q) <=> In(w, Tail(q)) \/ w = Head(q)
<1> DEFINE r == Tail(q)
<1>1. q \in Seq(Work) /\ Len(q) \in Nat \ {0} /\ (\A j \in 1 .. Len(q) : q[j] \in Work) /\ Keyed(q)
  BY DEF IsQueue
<1>2. r \in Seq(Work) /\ Len(r) = Len(q) - 1 /\ Head(q) = q[1] /\ \A j \in 1 .. Len(r) : r[j] = q[j + 1]
  BY <1>1
<1> HIDE DEF r
<1>3. IsQueue(r) /\ ~Has(r, Head(q).key)
  <2>1. \A j \in 1 .. Len(r) : j + 1 \in 1 .. Len(q) /\ j + 1 # 1 /\ 1 \in 1 .. Len(q)
    BY <1>1, <1>2
  <2>2. \A j \in 1 .. Len(r) : r[j].key # q[1].key
    BY <1>1, <1>2, <2>1 DEF Keyed
  <2>3. \A i, j \in 1 .. Len(r) : r[i].key = r[j].key => i + 1 = j + 1
    BY <1>1, <1>2, <2>1 DEF Keyed
  <2>4. Keyed(r)
    BY <1>1, <1>2, <2>3 DEF Keyed
  <2> QED BY <1>2, <2>2, <2>4 DEF IsQueue, Has
<1>4. ASSUME NEW w, In(w, q), w # Head(q) PROVE In(w, r)
  <2>1. PICK i \in 1 .. Len(q) : q[i] = w
    BY <1>4 DEF In
  <2>2. i - 1 \in 1 .. Len(r) /\ r[i - 1] = w
    BY <1>1, <1>2, <1>4, <2>1
  <2> QED BY <2>2 DEF In
<1>5. \A w : In(w, r) \/ w = Head(q) => In(w, q)
  BY <1>1, <1>2 DEF In
<1> QED BY <1>1, <1>2, <1>3, <1>4, <1>5 DEF r

\* The oldest entries go, the newest stay.
LEMMA TrimQueue ==
  ASSUME NEW q, IsQueue(q), NEW n \in Nat \ {0}
  PROVE  /\ IsQueue(Trim(q, n)) /\ Len(Trim(q, n)) <= n
         /\ \A w : In(w, Trim(q, n)) => In(w, q)
<1> DEFINE r == Trim(q, n)
<1>1. q \in Seq(Work) /\ Len(q) \in Nat /\ (\A j \in 1 .. Len(q) : q[j] \in Work) /\ Keyed(q)
  BY DEF IsQueue
<1>2. CASE Len(q) > n
  <2>1. r = SubSeq(q, Len(q) - n + 1, Len(q))
    BY <1>2 DEF Trim
  <2> HIDE DEF r
  <2>2. r \in Seq(Work) /\ Len(r) = n /\ \A j \in 1 .. n : r[j] = q[Len(q) - n + j]
    BY <1>1, <1>2, <2>1, SubSeqProperties
  <2>3. \A j \in 1 .. n : Len(q) - n + j \in 1 .. Len(q)
    BY <1>1, <1>2
  <2>4. ASSUME NEW i \in 1 .. n, NEW j \in 1 .. n, r[i].key = r[j].key PROVE i = j
    <3>1. PICK a \in 1 .. Len(q), b \in 1 .. Len(q) : a = Len(q) - n + i /\ b = Len(q) - n + j
      BY <2>3
    <3>2. q[a].key = q[b].key
      BY <2>2, <2>4, <3>1
    <3>3. a = b
      BY <1>1, <3>2 DEF Keyed
    <3> QED BY <1>1, <3>1, <3>3
  <2>5. Keyed(r)
    BY <1>1, <2>2, <2>4 DEF Keyed
  <2>6. \A w : In(w, r) => In(w, q)
    BY <2>2, <2>3 DEF In
  <2> QED BY <2>2, <2>5, <2>6 DEF IsQueue, r
<1>3. CASE ~(Len(q) > n)
  BY <1>1, <1>3 DEF Trim, IsQueue
<1> QED BY <1>2, <1>3

-----------------------------------------------------------------------------
(* The queues.                                                              *)

LEMMA LeastNumber ==
  ASSUME NEW S, S \subseteq Nat, S # {}
  PROVE  \E n \in S : \A m \in S : n <= m
<1>1. PICK n \in S : \A m \in S : ~(<<m, n>> \in OpToRel(<, Nat))
  BY NatLessThanWellFounded, WFMin
<1>2. ASSUME NEW m \in S PROVE n <= m
  <2>1. m \in Nat /\ n \in Nat /\ <<m, n>> \in Nat \X Nat
    OBVIOUS
  <2>2. ~(<<m, n>>[1] < <<m, n>>[2])
    BY <1>1, <2>1 DEF OpToRel
  <2> QED BY <2>1, <2>2
<1> QED BY <1>2

\* A queue that is not empty has a least urgent work.
LEMMA LowestOf ==
  ASSUME NEW q, q \in Seq(Work), Len(q) > 0
  PROVE  Lowest(q) \in 1 .. Len(q) /\ \A v : In(v, q) => v.prio >= q[Lowest(q)].prio
<1>1. /\ Len(q) \in Nat \ {0}
      /\ \A j \in 1 .. Len(q) : q[j] \in Work /\ q[j].prio \in Nat /\ q[j].at \in Nat
  <2>1. Len(q) \in Nat \ {0} /\ \A j \in 1 .. Len(q) : q[j] \in Work
    OBVIOUS
  <2>2. \A x \in Work : x.prio \in Nat /\ x.at \in Nat
    BY DEF Work
  <2> QED BY <2>1, <2>2
<1> DEFINE P == {q[j].prio : j \in 1 .. Len(q)}
<1>2. PICK p \in P : \A x \in P : p <= x
  <2>1. P \subseteq Nat /\ P # {}
    BY <1>1
  <2> HIDE DEF P
  <2> QED BY <2>1, LeastNumber
<1> DEFINE A == {q[j].at : j \in {i \in 1 .. Len(q) : q[i].prio = p}}
<1>3. PICK t \in A : \A x \in A : t <= x
  <2>1. PICK i \in 1 .. Len(q) : q[i].prio = p
    BY <1>2
  <2>2. q[i].at \in A /\ A \subseteq Nat
    BY <1>1, <2>1
  <2> HIDE DEF A
  <2> QED BY <2>2, LeastNumber
<1> DEFINE J == {j \in 1 .. Len(q) : q[j].prio = p /\ q[j].at = t}
<1>4. PICK j \in J : \A x \in J : j <= x
  <2>1. J \subseteq Nat /\ J # {}
    BY <1>1, <1>3
  <2> HIDE DEF J
  <2> QED BY <2>1, LeastNumber
<1>5. p \in Nat /\ t \in Nat /\ j \in 1 .. Len(q) /\ q[j].prio = p /\ q[j].at = t
  BY <1>1, <1>2, <1>3, <1>4
<1>6. \A i \in 1 .. Len(q) : p <= q[i].prio
  BY <1>2
<1>7. \A i \in 1 .. Len(q) : q[i].prio = p => t <= q[i].at
  BY <1>3
<1>8. \A i \in 1 .. Len(q) : q[i].prio = p /\ q[i].at = t => j <= i
  BY <1>4
<1> HIDE DEF P, A, J
<1>9. \A i \in 1 .. Len(q) : ~Below(q[i], q[j]) /\ (i < j => Below(q[j], q[i]))
  <2> TAKE i \in 1 .. Len(q)
  <2>1. q[i].prio \in Nat /\ q[i].at \in Nat /\ i \in Nat /\ j \in Nat
    BY <1>1, <1>5
  <2>2. p <= q[i].prio /\ (q[i].prio = p => t <= q[i].at)
        /\ (q[i].prio = p /\ q[i].at = t => j <= i)
    BY <1>6, <1>7, <1>8
  <2> QED BY <1>5, <2>1, <2>2 DEF Below
<1> DEFINE l == Lowest(q)
<1>10. l \in 1 .. Len(q) /\ \A i \in 1 .. Len(q) : ~Below(q[i], q[l])
  BY <1>5, <1>9 DEF Lowest
<1> HIDE DEF l
<1>11. \A i \in 1 .. Len(q) : q[i].prio >= q[l].prio
  BY <1>1, <1>10 DEF Below
<1> QED BY <1>10, <1>11 DEF In, l

\* What enqueue keeps, adds and gives up.
LEMMA EnqueuedQueue ==
  ASSUME NEW q, IsQueue(q), NEW w \in Work, NEW n \in Nat \ {0}, Len(q) <= n
  PROVE  LET d == Decision(q, w, n)
             e == Enqueued(q, w, n)
             v == q[Lowest(q)]
         IN  /\ IsQueue(e) /\ Len(e) <= n
             /\ d # "REJECTED_CAPACITY" => Has(e, w.key)
             /\ d = "REJECTED_CAPACITY" => e = q /\ \A u : In(u, q) => u.prio >= w.prio
             /\ d = "EVICTED_LOWER_PRIORITY" => v \in Work /\ \A u : In(u, e) => u.prio >= v.prio
             /\ \A k : Has(q, k) => Has(e, k) \/ (d = "EVICTED_LOWER_PRIORITY" /\ k = v.key)
<1> DEFINE d == Decision(q, w, n)
           e == Enqueued(q, w, n)
           v == q[Lowest(q)]
<1>1. q \in Seq(Work) /\ Len(q) \in Nat /\ (\A j \in 1 .. Len(q) : q[j] \in Work) /\ w.prio \in Nat
  <2>1. w.prio \in Nat
    BY DEF Work
  <2> QED BY <2>1 DEF IsQueue
<1>2. d \in {"COALESCED_DUPLICATE", "REJECTED_STALE"} => Has(q, w.key) /\ e = q
  BY DEF Decision, Enqueued
<1>3. d \in {"REPLACED_OBSOLETE", "ENQUEUED"} => e = Put(q, w) /\ (Has(q, w.key) \/ Len(q) < n)
  BY DEF Decision, Enqueued
<1>4. d = "REJECTED_CAPACITY" => e = q /\ ~Has(q, w.key) /\ Len(q) > 0 /\ ~(w.prio > v.prio)
  BY <1>1 DEF Decision, Enqueued
<1>5. d = "EVICTED_LOWER_PRIORITY" =>
        e = Append(Without(q, v.key), w) /\ ~Has(q, w.key) /\ Len(q) > 0 /\ w.prio > v.prio
  BY <1>1 DEF Decision, Enqueued
<1>6. d \in {"COALESCED_DUPLICATE", "REJECTED_STALE", "REPLACED_OBSOLETE", "ENQUEUED",
             "REJECTED_CAPACITY", "EVICTED_LOWER_PRIORITY"}
  BY DEF Decision
<1>7. Len(q) > 0 =>
        Lowest(q) \in 1 .. Len(q) /\ v \in Work /\ v.prio \in Nat /\ \A u : In(u, q) => u.prio >= v.prio
  BY <1>1, LowestOf DEF Work
<1> HIDE DEF d, e, v
<1>8. CASE d \in {"COALESCED_DUPLICATE", "REJECTED_STALE"}
  BY <1>2, <1>8 DEF d, e, v
<1>9. CASE d \in {"REPLACED_OBSOLETE", "ENQUEUED"}
  BY <1>1, <1>3, <1>9, PutQueue DEF d, e, v
<1>10. CASE d = "REJECTED_CAPACITY"
  <2>1. \A u : In(u, q) => u.prio >= w.prio
    <3> TAKE u
    <3>1. In(u, q) => u.prio \in Nat
      BY <1>1 DEF In, Work
    <3> QED BY <1>1, <1>4, <1>7, <1>10, <3>1
  <2> QED BY <1>4, <1>10, <2>1 DEF d, e, v
<1>11. CASE d = "EVICTED_LOWER_PRIORITY"
  <2> DEFINE r == Without(q, v.key)
  <2>1. Has(q, v.key)
    <3>1. q[Lowest(q)] = v /\ Lowest(q) \in 1 .. Len(q)
      BY <1>5, <1>7, <1>11 DEF v
    <3> QED BY <3>1 DEF Has
  <2>2. /\ IsQueue(r) /\ Len(r) = Len(q) - 1 /\ ~Has(r, v.key)
        /\ \A u : In(u, r) <=> In(u, q) /\ u.key # v.key
    BY <2>1, WithoutQueue
  <2> HIDE DEF r
  <2>3. ~Has(r, w.key)
    BY <1>5, <1>11, <2>2, HasIn
  <2>4. IsQueue(e) /\ Len(e) = Len(r) + 1 /\ \A u : In(u, e) <=> In(u, r) \/ u = w
    <3>1. e = Append(r, w)
      BY <1>5, <1>11 DEF r
    <3> QED BY <2>2, <2>3, <3>1, AppendQueue
  <2>5. Len(e) <= n
    BY <1>1, <2>2, <2>4
  <2>6. \A k : Has(q, k) => Has(e, k) \/ k = v.key
    BY <2>2, <2>4, HasIn
  <2>7. Has(e, w.key)
    BY <2>4, HasIn
  <2>8. \A u : In(u, e) => u.prio >= v.prio
    BY <1>1, <1>5, <1>7, <1>11, <2>2, <2>4
  <2> QED BY <1>5, <1>7, <1>11, <2>4, <2>5, <2>6, <2>7, <2>8 DEF d, e, v
<1> QED BY <1>6, <1>8, <1>9, <1>10, <1>11

-----------------------------------------------------------------------------
(* The memory of a runtime and its checkpoint.                              *)

MemOk(m) == m \in Record /\ m.flight = NoWork /\ Bounded(m) /\ Remembered(m)
CkptOk(c) ==
  /\ c \in Record /\ Bounded(c) /\ Bounded(Recovered(c)) /\ Remembered(c)
  /\ c.flight # NoWork /\ c.flight.queue # "discovery" => c.flight.work \in Work

LEMMA QueuesOf ==
  ASSUME NEW m \in Record, Bounded(m)
  PROVE  /\ IsQueue(m.readiness) /\ Len(m.readiness) <= ReadinessCapacity
         /\ IsQueue(m.composition) /\ Len(m.composition) <= CompositionCapacity
         /\ IsQueue(m.bound) /\ Len(m.bound) <= MaxTracked
         /\ IsQueue(m.deferred) /\ Len(m.deferred) <= MaxTracked
BY DEF Record, Bounded, IsQueue

\* Outside a piece of work, a symbol is held by one of three queues.
LEMMA HeldIdle ==
  ASSUME NEW m, m.flight = NoWork, NEW k
  PROVE  /\ Held(m, k) <=> Has(m.readiness, k) \/ Has(m.bound, k) \/ Has(m.deferred, k)
         /\ ~InFlight(m, "composition", k)
BY DEF Held, InFlight

\* A symbol that is no longer held may be settled, and no other.
LEMMA SettleOk ==
  ASSUME NEW m \in Record, m.flight = NoWork, Bounded(m), NEW keys,
         \A k \in m.open \ keys : Held(m, k) \/ k \in m.lost,
         \A k \in m.ready : Has(m.composition, k)
  PROVE  /\ MemOk(Settle(m, keys))
         /\ Settle(m, keys).readiness = m.readiness /\ Settle(m, keys).bound = m.bound
         /\ Settle(m, keys).composition = m.composition /\ Settle(m, keys).ready = m.ready
         /\ Settle(m, keys).deferred = m.deferred /\ Settle(m, keys).discovery = m.discovery
<1> DEFINE o == {k \in m.open : k \in keys => Held(m, k)}
           r == [m EXCEPT !.open = o]
<1>1. Settle(m, keys) = r
  BY DEF Settle, Record
<1>2. o \subseteq m.open /\ \A k \in o : Held(m, k) \/ k \in m.lost
  OBVIOUS
<1> HIDE DEF o
<1>3. /\ r \in Record /\ r.open = o /\ r.readiness = m.readiness /\ r.composition = m.composition
      /\ r.bound = m.bound /\ r.deferred = m.deferred /\ r.seen = m.seen /\ r.flight = m.flight
      /\ r.ready = m.ready /\ r.lost = m.lost /\ r.discovery = m.discovery
  BY <1>2 DEF Record
<1> HIDE DEF r
<1>4. Bounded(r)
  BY <1>3 DEF Bounded
<1>5. Remembered(r)
  BY <1>2, <1>3 DEF Remembered, Held, InFlight
<1> QED BY <1>1, <1>3, <1>4, <1>5 DEF MemOk

LEMMA MemReady ==
  ASSUME NEW m, MemOk(m)
  PROVE  /\ m \in Record /\ m.flight = NoWork /\ Bounded(m)
         /\ \A k \in m.ready : Has(m.composition, k)
         /\ \A k \in m.open : Held(m, k) \/ k \in m.lost
BY DEF MemOk, Remembered, InFlight

LEMMA FreshOk == MemOk(Fresh) /\ CkptOk(Fresh)
<1>1. Fresh \in Record /\ Fresh.flight = NoWork
  BY DEF Fresh, Record
<1>2. Bounded(Fresh) /\ Remembered(Fresh)
  BY DEF Fresh, Bounded, Keyed, Remembered
<1>3. Bounded(Recovered(Fresh))
  BY <1>1, <1>2 DEF Recovered, Bounded, Record
<1> QED BY <1>1, <1>2, <1>3 DEF MemOk, CkptOk

\* A readiness request is queued or provider-bound, and what leaves the queue
\* for it is provider-bound in its place.
LEMMA RequestReadinessOk ==
  ASSUME NEW m, MemOk(m), NEW w \in Work
  PROVE  LET r == RequestReadiness(m, w)
         IN  /\ MemOk(r) /\ r.deferred = m.deferred
             /\ Decision(m.readiness, w, ReadinessCapacity) # "REJECTED_CAPACITY" => Has(r.readiness, w.key)
             /\ \A v : In(v, r.bound) => In(v, m.bound) \/ \A u : In(u, r.readiness) => u.prio >= v.prio
<1> DEFINE q == m.readiness
           d == Decision(q, w, ReadinessCapacity)
           e == Enqueued(q, w, ReadinessCapacity)
           v == q[Lowest(q)]
           b == IF d = "REJECTED_CAPACITY" THEN Put(m.bound, w)
                ELSE IF d = "EVICTED_LOWER_PRIORITY" THEN Put(m.bound, v) ELSE m.bound
           t == Trim(b, MaxTracked)
           n == [m EXCEPT !.readiness = e, !.bound = t, !.open = @ \cup {w.key}, !.lost = @ \ {w.key}]
           keys == Keys(b) \ Keys(t)
<1>1. RequestReadiness(m, w) = Settle(n, keys)
  BY DEF RequestReadiness
<1>2. /\ m \in Record /\ m.flight = NoWork /\ Bounded(m)
      /\ \A k \in m.ready : Has(m.composition, k)
      /\ \A k \in m.open : Held(m, k) \/ k \in m.lost
  BY MemReady
<1>3. IsQueue(q) /\ Len(q) <= ReadinessCapacity /\ IsQueue(m.bound) /\ w.key \in Symbols
  BY <1>2, QueuesOf DEF Work
<1>4. /\ IsQueue(e) /\ Len(e) <= ReadinessCapacity
      /\ d # "REJECTED_CAPACITY" => Has(e, w.key)
      /\ d = "REJECTED_CAPACITY" => e = q /\ \A u : In(u, q) => u.prio >= w.prio
      /\ d = "EVICTED_LOWER_PRIORITY" => v \in Work /\ \A u : In(u, e) => u.prio >= v.prio
      /\ \A k : Has(q, k) => Has(e, k) \/ (d = "EVICTED_LOWER_PRIORITY" /\ k = v.key)
  BY <1>3, EnqueuedQueue
<1> HIDE DEF q, d, e, v
<1>5. /\ IsQueue(b) /\ \A k : Has(m.bound, k) => Has(b, k)
      /\ d = "REJECTED_CAPACITY" => Has(b, w.key)
      /\ d = "EVICTED_LOWER_PRIORITY" => Has(b, v.key)
      /\ \A u : In(u, b) => \/ In(u, m.bound) \/ (d = "REJECTED_CAPACITY" /\ u = w)
                            \/ (d = "EVICTED_LOWER_PRIORITY" /\ u = v)
  <2>1. CASE d = "REJECTED_CAPACITY"
    BY <1>3, <2>1, PutQueue
  <2>2. CASE d = "EVICTED_LOWER_PRIORITY"
    BY <1>3, <1>4, <2>2, PutQueue
  <2>3. CASE d \notin {"REJECTED_CAPACITY", "EVICTED_LOWER_PRIORITY"}
    BY <1>3, <2>3
  <2> QED BY <2>1, <2>2, <2>3
<1> HIDE DEF b
<1>6. IsQueue(t) /\ Len(t) <= MaxTracked /\ \A u : In(u, t) => In(u, b)
  BY <1>5, TrimQueue
<1>7. \A k : k \in keys <=> Has(b, k) /\ ~Has(t, k)
  BY KeysHas
<1> HIDE DEF t, keys
<1>8. /\ n \in Record /\ n.readiness = e /\ n.bound = t /\ n.composition = m.composition
      /\ n.deferred = m.deferred /\ n.seen = m.seen /\ n.flight = NoWork /\ n.ready = m.ready
      /\ n.open = m.open \cup {w.key} /\ n.lost = m.lost \ {w.key}
  BY <1>2, <1>3, <1>4, <1>6 DEF Record, IsQueue
<1> HIDE DEF n
<1>9. Bounded(n)
  BY <1>2, <1>4, <1>6, <1>8 DEF Bounded, IsQueue
<1>10. ASSUME NEW k \in n.open \ keys PROVE Held(n, k) \/ k \in n.lost
  <2>1. Held(n, k) <=> Has(e, k) \/ Has(t, k) \/ Has(m.deferred, k)
    BY <1>8, HeldIdle
  <2>2. Has(b, k) => Has(t, k)
    BY <1>7, <1>10
  <2>3. CASE k = w.key
    BY <1>4, <1>5, <2>1, <2>2, <2>3
  <2>4. CASE k # w.key /\ k \in m.open
    <3>1. Held(m, k) <=> Has(q, k) \/ Has(m.bound, k) \/ Has(m.deferred, k)
      BY <1>2, HeldIdle DEF q
    <3> QED BY <1>2, <1>4, <1>5, <1>8, <2>1, <2>2, <2>4, <3>1
  <2> QED BY <1>8, <1>10, <2>3, <2>4
<1>11. \A k \in n.ready : Has(n.composition, k)
  BY <1>2, <1>8
<1>12. /\ MemOk(Settle(n, keys)) /\ Settle(n, keys).deferred = m.deferred
       /\ Settle(n, keys).readiness = e /\ Settle(n, keys).bound = t
  BY <1>8, <1>9, <1>10, <1>11, SettleOk
<1>13. \A u : In(u, t) => In(u, m.bound) \/ \A x : In(x, e) => x.prio >= u.prio
  BY <1>4, <1>5, <1>6
<1> QED BY <1>1, <1>4, <1>12, <1>13 DEF d, q

LEMMA RequestCompositionOk ==
  ASSUME NEW m, MemOk(m), NEW w \in Work
  PROVE  MemOk(RequestComposition(m, w)) /\ RequestComposition(m, w).bound = m.bound
<1> DEFINE q == m.composition
           c == Enqueued(q, w, CompositionCapacity)
           y == (m.ready \cup {w.key}) \cap Keys(c)
           r == [m EXCEPT !.composition = c, !.ready = y]
<1>1. RequestComposition(m, w) = r
  BY MemReady DEF RequestComposition, Record
<1>2. /\ m \in Record /\ m.flight = NoWork /\ Bounded(m)
      /\ \A k \in m.open : Held(m, k) \/ k \in m.lost
  BY MemReady
<1>3. IsQueue(q) /\ Len(q) <= CompositionCapacity /\ w.key \in Symbols
  BY <1>2, QueuesOf DEF Work
<1>4. IsQueue(c) /\ Len(c) <= CompositionCapacity
  BY <1>3, EnqueuedQueue
<1> HIDE DEF q, c
<1>5. y \subseteq m.ready \cup {w.key} /\ \A k \in y : Has(c, k)
  BY KeysHas
<1> HIDE DEF y
<1>6. /\ r \in Record /\ r.composition = c /\ r.ready = y /\ r.readiness = m.readiness
      /\ r.bound = m.bound /\ r.deferred = m.deferred /\ r.seen = m.seen /\ r.flight = NoWork
      /\ r.open = m.open /\ r.lost = m.lost
  BY <1>2, <1>3, <1>4, <1>5 DEF Record, IsQueue
<1> HIDE DEF r
<1>7. Bounded(r)
  BY <1>2, <1>4, <1>6 DEF Bounded, IsQueue
<1>8. Remembered(r)
  BY <1>2, <1>5, <1>6, HeldIdle DEF Remembered
<1> QED BY <1>1, <1>6, <1>7, <1>8 DEF MemOk

\* Deferring a request whose symbol was held by the readiness queue.
LEMMA DeferOk ==
  ASSUME NEW m \in Record, m.flight = NoWork, Bounded(m), NEW w \in Work,
         \A k \in m.open : k # w.key => Held(m, k) \/ k \in m.lost,
         \A k \in m.ready : Has(m.composition, k)
  PROVE  /\ MemOk(Defer(m, w)) /\ Defer(m, w).bound = m.bound
         /\ Defer(m, w).readiness = m.readiness /\ Defer(m, w).composition = m.composition
<1> DEFINE x == Without(m.deferred, w.key)
           d == Append(x, w)
           t == Trim(d, MaxTracked)
           n == [m EXCEPT !.deferred = t]
           keys == Keys(d) \ Keys(t)
<1>1. Defer(m, w) = Settle(n, keys)
  BY DEF Defer
<1>2. IsQueue(m.deferred)
  BY QueuesOf
<1>3. IsQueue(x) /\ ~Has(x, w.key) /\ \A u : In(u, x) <=> In(u, m.deferred) /\ u.key # w.key
  BY <1>2, WithoutQueue
<1> HIDE DEF x
<1>4. IsQueue(d) /\ \A u : In(u, d) <=> In(u, x) \/ u = w
  BY <1>3, AppendQueue
<1> HIDE DEF d
<1>5. IsQueue(t) /\ Len(t) <= MaxTracked
  BY <1>4, TrimQueue
<1>6. \A k : k \in keys <=> Has(d, k) /\ ~Has(t, k)
  BY KeysHas
<1>7. Has(d, w.key) /\ \A k : Has(m.deferred, k) => Has(d, k)
  BY <1>3, <1>4, HasIn
<1> HIDE DEF t, keys
<1>8. /\ n \in Record /\ n.deferred = t /\ n.composition = m.composition
      /\ n.readiness = m.readiness /\ n.bound = m.bound /\ n.seen = m.seen /\ n.flight = NoWork
      /\ n.ready = m.ready /\ n.open = m.open /\ n.lost = m.lost
  BY <1>5 DEF Record, IsQueue
<1> HIDE DEF n
<1>9. Bounded(n)
  BY <1>5, <1>8 DEF Bounded, IsQueue
<1>10. ASSUME NEW k \in n.open \ keys PROVE Held(n, k) \/ k \in n.lost
  <2>1. Held(n, k) <=> Has(m.readiness, k) \/ Has(m.bound, k) \/ Has(t, k)
    BY <1>8, HeldIdle
  <2>2. Held(m, k) <=> Has(m.readiness, k) \/ Has(m.bound, k) \/ Has(m.deferred, k)
    BY HeldIdle
  <2> QED BY <1>6, <1>7, <1>8, <1>10, <2>1, <2>2
<1>11. \A k \in n.ready : Has(n.composition, k)
  BY <1>8
<1> QED BY <1>1, <1>8, <1>9, <1>10, <1>11, SettleOk

\* A memory with no work in hand is a checkpoint that restores to itself.
LEMMA MemIsCkpt ==
  ASSUME NEW m, MemOk(m)
  PROVE  CkptOk(m) /\ Recovered(m) = m
<1>1. m \in Record /\ m.flight = NoWork
  BY DEF MemOk
<1>2. Recovered(m) = m
  BY <1>1 DEF Recovered, Record
<1> QED BY <1>1, <1>2 DEF MemOk, CkptOk

\* What a checkpoint restores is a memory: the work in hand is queued again.
LEMMA RecoveredOk ==
  ASSUME NEW c, CkptOk(c)
  PROVE  MemOk(Recovered(c)) /\ Recovered(c).bound = c.bound
<1> DEFINE m == [c EXCEPT !.flight = NoWork]
           w == c.flight.work
           r == Recovered(c)
<1>1. c \in Record /\ Bounded(c) /\ Bounded(r) /\ Remembered(c)
  BY DEF CkptOk
<1>2. /\ m \in Record /\ m.readiness = c.readiness /\ m.composition = c.composition
      /\ m.bound = c.bound /\ m.deferred = c.deferred /\ m.open = c.open /\ m.ready = c.ready
      /\ m.lost = c.lost /\ m.flight = NoWork /\ m.seen = c.seen
  BY <1>1 DEF Record
<1>3. IsQueue(c.readiness) /\ IsQueue(c.composition)
  BY <1>1, QueuesOf
<1>4. r = IF c.flight = NoWork THEN m
          ELSE IF c.flight.queue = "discovery" THEN [m EXCEPT !.discovery = TRUE]
          ELSE IF c.flight.queue = "readiness" THEN [m EXCEPT !.readiness = Put(m.readiness, w)]
          ELSE [m EXCEPT !.composition = Put(m.composition, w)]
  BY <1>2 DEF Recovered, Record
<1> HIDE DEF m
<1>5. ASSUME r \in Record, r.flight = NoWork, r.bound = c.bound, r.deferred = c.deferred,
             r.open = c.open, r.ready = c.ready, r.lost = c.lost,
             \A k : Has(c.readiness, k) \/ InFlight(c, "readiness", k) => Has(r.readiness, k),
             \A k : Has(c.composition, k) \/ InFlight(c, "composition", k) => Has(r.composition, k)
      PROVE  MemOk(r) /\ r.bound = c.bound
  <2>1. Remembered(r)
    BY <1>1, <1>5 DEF Remembered, Held
  <2> QED BY <1>1, <1>5, <2>1 DEF MemOk
<1>6. CASE c.flight = NoWork
  BY <1>2, <1>4, <1>5, <1>6 DEF InFlight
<1>7. CASE c.flight # NoWork /\ c.flight.queue = "discovery"
  <2>1. r = [m EXCEPT !.discovery = TRUE]
    BY <1>4, <1>7
  <2>2. /\ r \in Record /\ r.flight = NoWork /\ r.bound = c.bound /\ r.deferred = c.deferred
        /\ r.open = c.open /\ r.ready = c.ready /\ r.lost = c.lost
        /\ r.readiness = c.readiness /\ r.composition = c.composition
    BY <1>2, <2>1 DEF Record
  <2> QED BY <1>5, <1>7, <2>2 DEF InFlight
<1>8. CASE c.flight # NoWork /\ c.flight.queue = "readiness"
  <2>1. r = [m EXCEPT !.readiness = Put(c.readiness, w)] /\ w \in Work
    BY <1>2, <1>4, <1>8 DEF CkptOk
  <2>2. /\ IsQueue(Put(c.readiness, w)) /\ Has(Put(c.readiness, w), w.key)
        /\ \A k : Has(c.readiness, k) => Has(Put(c.readiness, w), k)
    BY <1>3, <2>1, PutQueue
  <2>3. /\ r \in Record /\ r.flight = NoWork /\ r.bound = c.bound /\ r.deferred = c.deferred
        /\ r.open = c.open /\ r.ready = c.ready /\ r.lost = c.lost
        /\ r.readiness = Put(c.readiness, w) /\ r.composition = c.composition
    BY <1>2, <2>1, <2>2 DEF Record, IsQueue
  <2> QED BY <1>5, <1>8, <2>2, <2>3 DEF InFlight
<1>9. CASE c.flight # NoWork /\ c.flight.queue = "composition"
  <2>1. r = [m EXCEPT !.composition = Put(c.composition, w)] /\ w \in Work
    BY <1>2, <1>4, <1>9 DEF CkptOk
  <2>2. /\ IsQueue(Put(c.composition, w)) /\ Has(Put(c.composition, w), w.key)
        /\ \A k : Has(c.composition, k) => Has(Put(c.composition, w), k)
    BY <1>3, <2>1, PutQueue
  <2>3. /\ r \in Record /\ r.flight = NoWork /\ r.bound = c.bound /\ r.deferred = c.deferred
        /\ r.open = c.open /\ r.ready = c.ready /\ r.lost = c.lost
        /\ r.composition = Put(c.composition, w) /\ r.readiness = c.readiness
    BY <1>2, <2>1, <2>2 DEF Record, IsQueue
  <2> QED BY <1>5, <1>9, <2>2, <2>3 DEF InFlight
<1>10. c.flight = NoWork \/ c.flight.queue \in {"discovery", "readiness", "composition"}
  BY <1>1 DEF Record, Flight
<1> QED BY <1>6, <1>7, <1>8, <1>9, <1>10

\* Memory with the work in hand taken out, saved together with that work.
LEMMA FlightSaved ==
  ASSUME NEW m \in Record, m.flight = NoWork, Bounded(m),
         NEW name \in {"discovery", "readiness", "composition"}, NEW w \in Work \cup {NoWork},
         name # "discovery" => w \in Work,
         name = "readiness" => Len(m.readiness) < ReadinessCapacity,
         name = "composition" => Len(m.composition) < CompositionCapacity,
         \A k \in m.open : Held(m, k) \/ (name = "readiness" /\ k = w.key) \/ k \in m.lost,
         \A k \in m.ready : Has(m.composition, k) \/ (name = "composition" /\ k = w.key)
  PROVE  CkptOk([m EXCEPT !.flight = [queue |-> name, work |-> w]])
<1> DEFINE f == [queue |-> name, work |-> w]
           c == [m EXCEPT !.flight = f]
           r == Recovered(c)
<1>1. f \in Flight /\ f # NoWork /\ f.queue = name /\ f.work = w
  BY DEF Flight
<1> HIDE DEF f
<1>2. /\ c \in Record /\ c.flight = f /\ c.readiness = m.readiness /\ c.composition = m.composition
      /\ c.bound = m.bound /\ c.deferred = m.deferred /\ c.seen = m.seen
      /\ c.open = m.open /\ c.ready = m.ready /\ c.lost = m.lost
  BY <1>1 DEF Record
<1>3. [c EXCEPT !.flight = NoWork] = m
  BY DEF Record
<1>4. r = IF name = "discovery" THEN [m EXCEPT !.discovery = TRUE]
          ELSE IF name = "readiness" THEN [m EXCEPT !.readiness = Put(m.readiness, w)]
          ELSE [m EXCEPT !.composition = Put(m.composition, w)]
  <2>1. c.flight # NoWork /\ c.flight.queue = name /\ c.flight.work = w
    BY <1>1, <1>2
  <2> HIDE DEF c
  <2>2. CASE name = "discovery"
    BY <1>3, <2>1, <2>2 DEF Recovered
  <2>3. CASE name = "readiness"
    BY <1>3, <2>1, <2>3 DEF Recovered, Record
  <2>4. CASE name = "composition"
    BY <1>3, <2>1, <2>4 DEF Recovered, Record
  <2> QED BY <2>2, <2>3, <2>4
<1> HIDE DEF c
<1>5. Bounded(c)
  BY <1>2 DEF Bounded
<1>6. Remembered(c)
  <2>1. \A k : Held(m, k) => Has(m.readiness, k) \/ Has(m.bound, k) \/ Has(m.deferred, k)
    BY HeldIdle
  <2>2. \A k : name = "readiness" /\ k = w.key => InFlight(c, "readiness", k)
    BY <1>1, <1>2 DEF InFlight
  <2>3. \A k : name = "composition" /\ k = w.key => InFlight(c, "composition", k)
    BY <1>1, <1>2 DEF InFlight
  <2> QED BY <1>2, <2>1, <2>2, <2>3 DEF Remembered, Held
<1>7. IsQueue(m.readiness) /\ IsQueue(m.composition)
  BY QueuesOf
<1>8. Bounded(r)
  <2>1. CASE name = "discovery"
    BY <1>4, <2>1 DEF Bounded, Record
  <2>2. CASE name = "readiness"
    <3>1. w \in Work /\ Len(m.readiness) \in Nat /\ Len(m.readiness) < ReadinessCapacity
      BY <1>7, <2>2 DEF IsQueue
    <3>2. /\ IsQueue(Put(m.readiness, w))
          /\ Len(Put(m.readiness, w)) = IF Has(m.readiness, w.key) THEN Len(m.readiness) ELSE Len(m.readiness) + 1
      BY <1>7, <3>1, PutQueue
    <3>3. Len(Put(m.readiness, w)) <= ReadinessCapacity
      BY <3>1, <3>2
    <3> QED BY <1>4, <2>2, <3>2, <3>3 DEF Bounded, Record, IsQueue
  <2>3. CASE name = "composition"
    <3>1. w \in Work /\ Len(m.composition) \in Nat /\ Len(m.composition) < CompositionCapacity
      BY <1>7, <2>3 DEF IsQueue
    <3>2. /\ IsQueue(Put(m.composition, w))
          /\ Len(Put(m.composition, w)) = IF Has(m.composition, w.key) THEN Len(m.composition) ELSE Len(m.composition) + 1
      BY <1>7, <3>1, PutQueue
    <3>3. Len(Put(m.composition, w)) <= CompositionCapacity
      BY <3>1, <3>2
    <3> QED BY <1>4, <2>3, <3>2, <3>3 DEF Bounded, Record, IsQueue
  <2> QED BY <2>1, <2>2, <2>3
<1> QED BY <1>1, <1>2, <1>5, <1>6, <1>8 DEF CkptOk, c, f

-----------------------------------------------------------------------------
(* Pieces of the actions.                                                   *)

\* A provider-bound work was there before, or is no more urgent than what is
\* queued.
KeepsBound(m, n) ==
  \A v : In(v, n.bound) => In(v, m.bound) \/ \A u : In(u, n.readiness) => u.prio >= v.prio

LEMMA DiscoveryOk ==
  ASSUME NEW m, MemOk(m), NEW x \in BOOLEAN
  PROVE  LET n == [m EXCEPT !.discovery = x] IN MemOk(n) /\ n.bound = m.bound
<1> DEFINE n == [m EXCEPT !.discovery = x]
<1>1. /\ n \in Record /\ n.flight = NoWork /\ n.readiness = m.readiness /\ n.composition = m.composition
      /\ n.bound = m.bound /\ n.deferred = m.deferred /\ n.seen = m.seen
      /\ n.open = m.open /\ n.ready = m.ready /\ n.lost = m.lost
  BY DEF MemOk, Record
<1> HIDE DEF n
<1>2. Bounded(n) /\ Remembered(n)
  BY <1>1 DEF MemOk, Bounded, Remembered, Held, InFlight
<1> QED BY <1>1, <1>2 DEF MemOk, n

LEMMA SeenOk ==
  ASSUME NEW m, MemOk(m), NEW e \in Events
  PROVE  LET n == [m EXCEPT !.seen = Trim(Append(@, e), EventCapacity)]
         IN  MemOk(n) /\ n.bound = m.bound /\ n.readiness = m.readiness
<1> DEFINE s == Append(m.seen, e)
           t == Trim(s, EventCapacity)
           n == [m EXCEPT !.seen = t]
<1>1. m \in Record /\ m.seen \in Seq(Events) /\ EventCapacity \in Nat \ {0}
  BY DEF MemOk, Record
<1>2. s \in Seq(Events) /\ Len(s) \in Nat
  BY <1>1
<1> HIDE DEF s
<1>3. t \in Seq(Events) /\ Len(t) <= EventCapacity
  <2>1. CASE Len(s) > EventCapacity
    <3>1. t = SubSeq(s, Len(s) - EventCapacity + 1, Len(s))
      BY <2>1 DEF Trim
    <3> HIDE DEF t
    <3> QED BY <1>1, <1>2, <2>1, <3>1, SubSeqProperties
  <2>2. CASE ~(Len(s) > EventCapacity)
    BY <1>1, <1>2, <2>2 DEF Trim
  <2> QED BY <2>1, <2>2
<1> HIDE DEF t
<1>4. /\ n \in Record /\ n.flight = NoWork /\ n.readiness = m.readiness /\ n.composition = m.composition
      /\ n.bound = m.bound /\ n.deferred = m.deferred /\ n.seen = t
      /\ n.open = m.open /\ n.ready = m.ready /\ n.lost = m.lost
  BY <1>1, <1>3 DEF MemOk, Record
<1> HIDE DEF n
<1>5. Bounded(n) /\ Remembered(n)
  BY <1>3, <1>4 DEF MemOk, Bounded, Remembered, Held, InFlight
<1> QED BY <1>4, <1>5 DEF MemOk, n, t, s

\* A symbol queued for readiness need not be deferred as well.
LEMMA UndeferOk ==
  ASSUME NEW m, MemOk(m), NEW k, Has(m.readiness, k)
  PROVE  LET n == [m EXCEPT !.deferred = Without(@, k)]
         IN  MemOk(n) /\ n.bound = m.bound /\ n.readiness = m.readiness
<1> DEFINE x == Without(m.deferred, k)
           n == [m EXCEPT !.deferred = x]
<1>1. m \in Record /\ Bounded(m) /\ m.flight = NoWork /\ IsQueue(m.deferred) /\ Len(m.deferred) <= MaxTracked
  BY MemReady, QueuesOf
<1>2. /\ IsQueue(x) /\ Len(x) <= Len(m.deferred)
      /\ \A w : In(w, x) <=> In(w, m.deferred) /\ w.key # k
  BY <1>1, WithoutQueue
<1> HIDE DEF x
<1>3. Len(x) <= MaxTracked
  BY <1>1, <1>2 DEF IsQueue
<1>4. /\ n \in Record /\ n.flight = NoWork /\ n.readiness = m.readiness /\ n.composition = m.composition
      /\ n.bound = m.bound /\ n.deferred = x /\ n.seen = m.seen
      /\ n.open = m.open /\ n.ready = m.ready /\ n.lost = m.lost
  BY <1>1, <1>2 DEF Record, IsQueue
<1> HIDE DEF n
<1>5. Bounded(n)
  BY <1>1, <1>2, <1>3, <1>4 DEF Bounded, IsQueue
<1>6. Remembered(n)
  <2>1. \A l : Has(m.deferred, l) => Has(x, l) \/ l = k
    BY <1>2, HasIn
  <2>2. \A l : Held(m, l) => Held(n, l)
    BY <1>1, <1>4, <2>1, HeldIdle
  <2> QED BY <1>4, <2>2, MemReady DEF Remembered
<1> QED BY <1>4, <1>5, <1>6 DEF MemOk, n, x

\* The flush: the provider-bound symbols are answered.
LEMMA FlushOk ==
  ASSUME NEW m, MemOk(m)
  PROVE  LET n == Settle([m EXCEPT !.bound = <<>>], Keys(m.bound)) IN MemOk(n) /\ n.bound = <<>>
<1> DEFINE z == <<>>
           n == [m EXCEPT !.bound = z]
           keys == Keys(m.bound)
<1>0. IsQueue(z) /\ z \in Seq(Work) /\ Len(z) = 0 /\ \A k : ~Has(z, k)
  BY EmptyQueue DEF IsQueue
<1>1. /\ m \in Record /\ Bounded(m) /\ m.flight = NoWork
      /\ \A k \in m.ready : Has(m.composition, k)
      /\ \A k \in m.open : Held(m, k) \/ k \in m.lost
  BY MemReady
<1>2. \A k : k \in keys <=> Has(m.bound, k)
  BY KeysHas
<1> HIDE DEF keys, z
<1>3. /\ n \in Record /\ n.flight = NoWork /\ n.readiness = m.readiness /\ n.composition = m.composition
      /\ n.bound = z /\ n.deferred = m.deferred /\ n.seen = m.seen
      /\ n.open = m.open /\ n.ready = m.ready /\ n.lost = m.lost
  BY <1>0, <1>1 DEF Record
<1> HIDE DEF n
<1>4. Bounded(n)
  BY <1>0, <1>1, <1>3 DEF Bounded, IsQueue
<1>5. \A k \in n.open \ keys : Held(n, k) \/ k \in n.lost
  BY <1>1, <1>2, <1>3, HeldIdle
<1>6. \A k \in n.ready : Has(n.composition, k)
  BY <1>1, <1>3
<1>7. MemOk(Settle(n, keys)) /\ Settle(n, keys).bound = z
  BY <1>3, <1>4, <1>5, <1>6, SettleOk
<1> QED BY <1>7 DEF n, keys, z

\* The readiness work in hand is out of its queue; its symbol may be held by
\* nothing else.
LEMMA ReadinessPoppedOk ==
  ASSUME MemOk(mem), mem.readiness # <<>>
  PROVE  LET p == ReadinessPopped
             w == ReadinessHead
         IN  /\ p \in Record /\ p.flight = NoWork /\ Bounded(p) /\ w \in Work
             /\ Len(p.readiness) < ReadinessCapacity
             /\ p.readiness = Tail(mem.readiness) /\ p.bound = mem.bound
             /\ p.composition = mem.composition /\ p.deferred = mem.deferred
             /\ p.open = mem.open /\ p.ready = mem.ready /\ p.lost = mem.lost
             /\ p.discovery = mem.discovery /\ p.seen = mem.seen
             /\ \A k \in p.open : k # w.key => Held(p, k) \/ k \in p.lost
             /\ \A k \in p.ready : Has(p.composition, k)
<1> DEFINE t == Tail(mem.readiness)
           p == [mem EXCEPT !.readiness = t]
           w == Head(mem.readiness)
<1>1. p = ReadinessPopped /\ w = ReadinessHead
  BY DEF ReadinessPopped, ReadinessHead, MemOk, Record
<1>2. /\ mem \in Record /\ Bounded(mem) /\ mem.flight = NoWork
      /\ \A k \in mem.ready : Has(mem.composition, k)
      /\ \A k \in mem.open : Held(mem, k) \/ k \in mem.lost
  BY MemReady
<1>3. IsQueue(mem.readiness) /\ Len(mem.readiness) <= ReadinessCapacity
  BY <1>2, QueuesOf
<1>4. /\ IsQueue(t) /\ Len(t) = Len(mem.readiness) - 1 /\ Len(mem.readiness) \in Nat \ {0} /\ w \in Work
      /\ \A u : In(u, mem.readiness) <=> In(u, t) \/ u = w
  BY <1>3, TailQueue
<1>5. Len(t) < ReadinessCapacity /\ Len(t) <= ReadinessCapacity
  BY <1>3, <1>4
<1>6. \A k : Has(mem.readiness, k) => Has(t, k) \/ k = w.key
  BY <1>4, HasIn
<1>7. /\ p \in Record /\ p.flight = NoWork /\ p.readiness = t /\ p.composition = mem.composition
      /\ p.bound = mem.bound /\ p.deferred = mem.deferred /\ p.seen = mem.seen
      /\ p.discovery = mem.discovery
      /\ p.open = mem.open /\ p.ready = mem.ready /\ p.lost = mem.lost
  BY <1>2, <1>4 DEF Record, IsQueue
<1> HIDE DEF p, t, w
<1>8. Bounded(p)
  BY <1>2, <1>4, <1>5, <1>7 DEF Bounded, IsQueue
<1>9. \A k \in p.open : k # w.key => Held(p, k) \/ k \in p.lost
  BY <1>2, <1>6, <1>7, HeldIdle
<1> QED BY <1>1, <1>2, <1>4, <1>5, <1>7, <1>8, <1>9 DEF t

LEMMA CompositionPoppedOk ==
  ASSUME MemOk(mem), mem.composition # <<>>
  PROVE  LET p == CompositionPopped
             w == Head(mem.composition)
         IN  /\ p \in Record /\ p.flight = NoWork /\ Bounded(p) /\ w \in Work
             /\ Len(p.composition) < CompositionCapacity
             /\ p.bound = mem.bound /\ p.ready = mem.ready
             /\ \A k \in p.open : Held(p, k) \/ k \in p.lost
             /\ \A k \in p.ready : Has(p.composition, k) \/ k = w.key
             /\ MemOk([p EXCEPT !.ready = @ \ {w.key}]) /\ [p EXCEPT !.ready = @ \ {w.key}].bound = mem.bound
<1> DEFINE t == Tail(mem.composition)
           p == [mem EXCEPT !.composition = t]
           w == Head(mem.composition)
           n == [p EXCEPT !.ready = @ \ {w.key}]
<1>1. p = CompositionPopped
  BY DEF CompositionPopped, MemOk, Record
<1>2. /\ mem \in Record /\ Bounded(mem) /\ mem.flight = NoWork
      /\ \A k \in mem.ready : Has(mem.composition, k)
      /\ \A k \in mem.open : Held(mem, k) \/ k \in mem.lost
  BY MemReady
<1>3. IsQueue(mem.composition) /\ Len(mem.composition) <= CompositionCapacity
  BY <1>2, QueuesOf
<1>4. /\ IsQueue(t) /\ Len(t) = Len(mem.composition) - 1 /\ Len(mem.composition) \in Nat \ {0}
      /\ w \in Work /\ \A u : In(u, mem.composition) <=> In(u, t) \/ u = w
  BY <1>3, TailQueue
<1>5. Len(t) < CompositionCapacity /\ Len(t) <= CompositionCapacity
  BY <1>3, <1>4
<1>6. \A k : Has(mem.composition, k) => Has(t, k) \/ k = w.key
  BY <1>4, HasIn
<1>7. /\ p \in Record /\ p.flight = NoWork /\ p.readiness = mem.readiness /\ p.composition = t
      /\ p.bound = mem.bound /\ p.deferred = mem.deferred /\ p.seen = mem.seen
      /\ p.open = mem.open /\ p.ready = mem.ready /\ p.lost = mem.lost
  BY <1>2, <1>4 DEF Record, IsQueue
<1> HIDE DEF p, t, w
<1>8. /\ n \in Record /\ n.flight = NoWork /\ n.readiness = p.readiness /\ n.composition = p.composition
      /\ n.bound = p.bound /\ n.deferred = p.deferred /\ n.seen = p.seen
      /\ n.open = p.open /\ n.ready = p.ready \ {w.key} /\ n.lost = p.lost
  BY <1>7 DEF Record
<1>9. Bounded(p)
  BY <1>2, <1>4, <1>5, <1>7 DEF Bounded, IsQueue
<1>10. \A k \in p.open : Held(p, k) \/ k \in p.lost
  BY <1>2, <1>7, HeldIdle
<1>11. \A k \in p.ready : Has(p.composition, k) \/ k = w.key
  BY <1>2, <1>6, <1>7
<1> HIDE DEF n
<1>12. Bounded(n)
  BY <1>8, <1>9 DEF Bounded
<1>13. Remembered(n)
  <2>1. \A k : Held(p, k) <=> Held(n, k)
    BY <1>7, <1>8, HeldIdle
  <2> QED BY <1>8, <1>10, <1>11, <2>1 DEF Remembered
<1> QED BY <1>1, <1>2, <1>4, <1>5, <1>7, <1>8, <1>9, <1>10, <1>11, <1>12, <1>13 DEF MemOk, n, w

-----------------------------------------------------------------------------
(* The invariant, action by action.                                         *)

TypeInv ==
  /\ phase \in {"Down", "Idle", "Poll", "Work", "Drain"}
  /\ todo \subseteq Work /\ emitted \subseteq Events /\ session \in {"premarket", "regular"}
  /\ now \in Nat /\ pulses \in Nat /\ stops \in Nat

CkptInv == HasCheckpoint => CkptOk(ckpt)

IInv == TypeInv /\ MemOk(mem) /\ CkptInv

\* What every action does to the memory.
Preserved == IInv' /\ (phase # "Down" => KeepsBound(mem, mem'))

LEMMA SameBound ==
  ASSUME NEW m, NEW n, n.bound = m.bound
  PROVE  KeepsBound(m, n)
BY DEF KeepsBound

LEMMA NothingBound ==
  ASSUME NEW m
  PROVE  KeepsBound(m, Fresh) /\ \A n : n.bound = <<>> => KeepsBound(m, n)
BY DEF KeepsBound, Fresh, In

LEMMA InitInv == ASSUME Init PROVE IInv
BY FreshOk DEF Init, IInv, TypeInv, CkptInv, HasCheckpoint

LEMMA StartInv == ASSUME IInv, Start PROVE Preserved
BY FreshOk DEF Start, IInv, TypeInv, CkptInv, Preserved

LEMMA RestoreInv == ASSUME IInv, Restore PROVE Preserved
<1>1. CkptOk(ckpt)
  BY DEF Restore, IInv, CkptInv
<1>2. MemOk(mem') /\ CkptOk(ckpt')
  BY <1>1, RecoveredOk, MemIsCkpt DEF Restore
<1> QED BY <1>2 DEF Restore, IInv, TypeInv, CkptInv, Preserved

LEMMA DownInv ==
  ASSUME IInv, Down, CkptInv', session' = session, now' = now, pulses' = pulses, stops' \in Nat
  PROVE  Preserved
BY FreshOk, NothingBound DEF Down, IInv, TypeInv, Preserved

LEMMA CrashInv == ASSUME IInv, Crash PROVE Preserved
<1>1. CkptInv' /\ stops' \in Nat
  BY DEF Crash, IInv, TypeInv, CkptInv, HasCheckpoint
<1> QED BY <1>1, DownInv DEF Crash

LEMMA InterruptInv == ASSUME IInv, Interrupt PROVE Preserved
BY SameBound DEF Interrupt, IInv, TypeInv, CkptInv, HasCheckpoint, Preserved

LEMMA OpenMarketInv == ASSUME IInv, OpenMarket PROVE Preserved
BY SameBound DEF OpenMarket, IInv, TypeInv, CkptInv, HasCheckpoint, Preserved

LEMMA TickBeginInv == ASSUME IInv, TickBegin PROVE Preserved
<1>1. now' \in Nat /\ pulses' \in Nat
  <2>1. now' = (IF now < MaxTime THEN now + 1 ELSE now) /\ (pulses' = pulses \/ pulses' = pulses + 1)
    BY Zenon DEF TickBegin
  <2> QED BY <2>1 DEF IInv, TypeInv
<1>2. todo' \subseteq Work
  <2>1. mem.deferred \in Seq(Work)
    BY DEF IInv, MemOk, Record
  <2>2. \A j \in 1 .. Len(mem.deferred) : [mem.deferred[j] EXCEPT !.at = now', !.src = "rollover"] \in Work
    <3> TAKE j \in 1 .. Len(mem.deferred)
    <3>1. mem.deferred[j] \in Work
      BY <2>1
    <3> QED BY <1>1, <3>1 DEF Work, Sources
  <2> QED BY <2>2 DEF TickBegin
<1>3. MemOk(mem') /\ mem'.bound = mem.bound
  <2>1. CASE mem' = mem
    BY <2>1 DEF IInv
  <2>2. CASE mem' = [mem EXCEPT !.discovery = TRUE]
    BY <2>2, DiscoveryOk DEF IInv
  <2> QED BY <2>1, <2>2 DEF TickBegin
<1> QED BY <1>1, <1>2, <1>3, SameBound DEF TickBegin, IInv, TypeInv, CkptInv, HasCheckpoint, Preserved

LEMMA ReleaseInv == ASSUME IInv, NEW w \in todo, Release(w) PROVE Preserved
<1> DEFINE d == Decision(mem.readiness, w, ReadinessCapacity)
           m == RequestReadiness(mem, w)
           n == [m EXCEPT !.deferred = Without(@, w.key)]
<1>1. w \in Work /\ todo' \subseteq Work /\ MemOk(mem)
  BY DEF Release, IInv, TypeInv
<1>2. /\ MemOk(m) /\ KeepsBound(mem, m)
      /\ d # "REJECTED_CAPACITY" => Has(m.readiness, w.key)
  BY <1>1, RequestReadinessOk DEF KeepsBound
<1>3. mem' = IF d \in {"REJECTED_CAPACITY", "REJECTED_STALE"} THEN m ELSE n
  BY DEF Release
<1> HIDE DEF d, m
<1>4. d # "REJECTED_CAPACITY" => MemOk(n) /\ n.bound = m.bound /\ n.readiness = m.readiness
  BY <1>2, UndeferOk
<1> HIDE DEF n
<1>5. MemOk(mem') /\ KeepsBound(mem, mem')
  BY <1>2, <1>3, <1>4 DEF KeepsBound
<1> QED BY <1>1, <1>5 DEF Release, IInv, TypeInv, CkptInv, HasCheckpoint, Preserved

LEMMA SubmitEventInv == ASSUME IInv, NEW e \in Events, SubmitEvent(e) PROVE Preserved
<1> DEFINE s == [mem EXCEPT !.seen = Trim(Append(@, e), EventCapacity)]
<1>1. EventWork[e] \in Work /\ MemOk(mem)
  BY DEF IInv
<1>2. MemOk(s) /\ s.bound = mem.bound /\ s.readiness = mem.readiness
  BY <1>1, SeenOk
<1>3. mem' = mem \/ mem' = RequestReadiness(s, EventWork[e])
  BY DEF SubmitEvent
<1> HIDE DEF s
<1>4. MemOk(mem') /\ KeepsBound(mem, mem')
  <2>1. CASE mem' = mem
    BY <1>1, <2>1, SameBound
  <2>2. CASE mem' = RequestReadiness(s, EventWork[e])
    BY <1>1, <1>2, <2>2, RequestReadinessOk DEF KeepsBound
  <2> QED BY <1>3, <2>1, <2>2
<1> QED BY <1>4 DEF SubmitEvent, IInv, TypeInv, CkptInv, HasCheckpoint, Preserved

LEMMA FlushInv == ASSUME IInv, FlushProviderBound PROVE Preserved
<1>1. CkptInv'
  BY MemIsCkpt DEF FlushProviderBound, IInv, CkptInv, HasCheckpoint
<1>2. MemOk(mem') /\ KeepsBound(mem, mem')
  BY FlushOk, SameBound, NothingBound DEF FlushProviderBound, IInv
<1> QED BY <1>1, <1>2 DEF FlushProviderBound, IInv, TypeInv, Preserved

LEMMA ProcessDiscoveryInv == ASSUME IInv, ProcessDiscovery PROVE Preserved
<1>1. MemOk(mem') /\ mem'.bound = mem.bound
  BY DiscoveryOk DEF ProcessDiscovery, IInv
<1>2. CkptInv'
  <2>1. CkptOk([mem' EXCEPT !.flight = [queue |-> "discovery", work |-> NoWork]])
    BY <1>1, MemReady, FlightSaved
  <2> QED BY <2>1 DEF ProcessDiscovery, SaveWith, IInv, CkptInv, HasCheckpoint
<1>3. todo' \subseteq Work
  BY DEF ProcessDiscovery, IInv, TypeInv, Work, Sources
<1> QED BY <1>1, <1>2, <1>3, SameBound DEF ProcessDiscovery, IInv, TypeInv, Preserved

LEMMA PromoteInv == ASSUME IInv, NEW w \in todo, Promote(w) PROVE Preserved
<1>1. w \in Work /\ todo' \subseteq Work /\ MemOk(mem)
  BY DEF Promote, IInv, TypeInv
<1>2. MemOk(mem') /\ KeepsBound(mem, mem')
  BY <1>1, RequestReadinessOk DEF Promote, KeepsBound
<1> QED BY <1>1, <1>2 DEF Promote, IInv, TypeInv, CkptInv, HasCheckpoint, Preserved

LEMMA EvaluateFailedInv == ASSUME IInv, EvaluateFailed PROVE Preserved
<1>1. PICK p, w : p = ReadinessPopped /\ w = ReadinessHead
  OBVIOUS
<1>2. /\ p \in Record /\ p.flight = NoWork /\ Bounded(p) /\ w \in Work
      /\ Len(p.readiness) < ReadinessCapacity /\ p.bound = mem.bound
      /\ \A k \in p.open : k # w.key => Held(p, k) \/ k \in p.lost
      /\ \A k \in p.ready : Has(p.composition, k)
  BY <1>1, ReadinessPoppedOk DEF EvaluateFailed, Evaluating, IInv
<1>3. MemOk(Settle(p, {w.key})) /\ Settle(p, {w.key}).bound = mem.bound
  BY <1>2, SettleOk
<1>4. CkptOk([p EXCEPT !.flight = [queue |-> "readiness", work |-> w]])
  BY <1>2, FlightSaved
<1>5. CkptInv'
  BY <1>1, <1>4 DEF EvaluateFailed, SaveWith, IInv, CkptInv, HasCheckpoint
<1>6. MemOk(mem') /\ mem'.bound = mem.bound
  BY <1>1, <1>3 DEF EvaluateFailed
<1> QED BY <1>5, <1>6, SameBound DEF EvaluateFailed, IInv, TypeInv, Preserved

LEMMA EvaluateDeferredInv == ASSUME IInv, EvaluateDeferred PROVE Preserved
<1>1. PICK p, w : p = ReadinessPopped /\ w = ReadinessHead
  OBVIOUS
<1>2. /\ p \in Record /\ p.flight = NoWork /\ Bounded(p) /\ w \in Work
      /\ Len(p.readiness) < ReadinessCapacity /\ p.bound = mem.bound
      /\ \A k \in p.open : k # w.key => Held(p, k) \/ k \in p.lost
      /\ \A k \in p.ready : Has(p.composition, k)
  BY <1>1, ReadinessPoppedOk DEF EvaluateDeferred, Evaluating, IInv
<1>3. mem' = Defer(p, w)
  BY <1>1 DEF EvaluateDeferred
<1>4. MemOk(mem') /\ mem'.bound = mem.bound /\ mem'.readiness = p.readiness
  BY <1>2, <1>3, DeferOk
<1>5. CkptOk([mem' EXCEPT !.flight = [queue |-> "readiness", work |-> w]])
  <2>1. /\ mem' \in Record /\ mem'.flight = NoWork /\ Bounded(mem')
        /\ \A k \in mem'.ready : Has(mem'.composition, k)
        /\ \A k \in mem'.open : Held(mem', k) \/ k \in mem'.lost
    BY <1>4, MemReady
  <2> QED BY <1>2, <1>4, <2>1, FlightSaved
<1>6. CkptInv'
  BY <1>1, <1>5 DEF EvaluateDeferred, SaveWith, IInv, CkptInv, HasCheckpoint
<1> QED BY <1>4, <1>6, SameBound DEF EvaluateDeferred, IInv, TypeInv, Preserved

\* A symbol found ready is no longer deferred, and its composition is requested.
LEMMA EvaluateReadyInv == ASSUME IInv, EvaluateReady PROVE Preserved
<1>1. PICK p, w, t : p = ReadinessPopped /\ w = ReadinessHead /\ t = now
  OBVIOUS
<1>2. /\ p \in Record /\ p.flight = NoWork /\ Bounded(p) /\ w \in Work
      /\ p.bound = mem.bound
      /\ \A k \in p.open : k # w.key => Held(p, k) \/ k \in p.lost
      /\ \A k \in p.ready : Has(p.composition, k)
  BY <1>1, ReadinessPoppedOk DEF EvaluateReady, Evaluating, IInv
<1> DEFINE x == Without(p.deferred, w.key)
           m == [p EXCEPT !.deferred = x]
           s == Settle(m, {w.key})
           c == [w EXCEPT !.at = t]
<1>3. mem' = RequestComposition(s, c)
  <2>1. m = [p EXCEPT !.deferred = Without(@, w.key)]
    BY <1>2 DEF Record
  <2> HIDE DEF m
  <2> QED BY <1>1, <2>1 DEF EvaluateReady
<1>4. IsQueue(p.deferred) /\ Len(p.deferred) <= MaxTracked
  BY <1>2, QueuesOf
<1>5. IsQueue(x) /\ Len(x) <= MaxTracked /\ \A u : In(u, x) <=> In(u, p.deferred) /\ u.key # w.key
  BY <1>4, WithoutQueue DEF IsQueue
<1> HIDE DEF x
<1>6. /\ m \in Record /\ m.flight = NoWork /\ m.readiness = p.readiness /\ m.composition = p.composition
      /\ m.bound = p.bound /\ m.deferred = x /\ m.seen = p.seen
      /\ m.open = p.open /\ m.ready = p.ready /\ m.lost = p.lost
  BY <1>2, <1>5 DEF Record, IsQueue
<1> HIDE DEF m
<1>7. Bounded(m)
  BY <1>2, <1>5, <1>6 DEF Bounded, IsQueue
<1>8. \A k \in m.open \ {w.key} : Held(m, k) \/ k \in m.lost
  <2>1. \A k : Has(p.deferred, k) => Has(x, k) \/ k = w.key
    BY <1>5, HasIn
  <2> QED BY <1>2, <1>6, <2>1, HeldIdle
<1>9. \A k \in m.ready : Has(m.composition, k)
  BY <1>2, <1>6
<1>10. MemOk(s) /\ s.bound = mem.bound
  BY <1>2, <1>6, <1>7, <1>8, <1>9, SettleOk
<1> HIDE DEF s
<1>11. c \in Work
  BY <1>1, <1>2 DEF IInv, TypeInv, Work
<1> HIDE DEF c
<1>12. MemOk(mem') /\ mem'.bound = mem.bound
  BY <1>3, <1>10, <1>11, RequestCompositionOk
<1> QED BY <1>12, SameBound DEF EvaluateReady, IInv, TypeInv, CkptInv, HasCheckpoint, Preserved

LEMMA ComposeInv == ASSUME IInv, Compose PROVE Preserved
<1>1. PICK p, w : p = CompositionPopped /\ w = Head(mem.composition)
  OBVIOUS
<1>2. /\ p \in Record /\ p.flight = NoWork /\ Bounded(p) /\ w \in Work
      /\ Len(p.composition) < CompositionCapacity
      /\ \A k \in p.open : Held(p, k) \/ k \in p.lost
      /\ \A k \in p.ready : Has(p.composition, k) \/ k = w.key
      /\ MemOk([p EXCEPT !.ready = @ \ {w.key}]) /\ [p EXCEPT !.ready = @ \ {w.key}].bound = mem.bound
  BY <1>1, CompositionPoppedOk DEF Compose, Composing, IInv
<1>3. CkptOk([p EXCEPT !.flight = [queue |-> "composition", work |-> w]])
  BY <1>2, FlightSaved
<1>4. CkptInv'
  BY <1>1, <1>3 DEF Compose, SaveWith, IInv, CkptInv, HasCheckpoint
<1>5. MemOk(mem') /\ mem'.bound = mem.bound
  BY <1>1, <1>2 DEF Compose
<1> QED BY <1>4, <1>5, SameBound DEF Compose, IInv, TypeInv, Preserved

\* An exception ends the process, or leaves memory without the work in hand
\* for the shutdown.
LEMMA RaiseInv ==
  ASSUME IInv, phase # "Down", NEW p, NEW name, NEW w, NEW after, Raise(p, name, w, after),
         CkptOk([p EXCEPT !.flight = [queue |-> name, work |-> w]]),
         MemOk(after), after.bound = mem.bound
  PROVE  Preserved
<1>1. CkptInv'
  BY DEF Raise, SaveWith, IInv, CkptInv, HasCheckpoint
<1>2. stops' \in Nat /\ session' = session /\ now' = now /\ pulses' = pulses
  BY DEF Raise, IInv, TypeInv
<1>3. CASE phase = "Drain"
  BY <1>1, <1>2, <1>3, DownInv DEF Raise
<1>4. CASE phase # "Drain"
  BY <1>1, <1>2, <1>4, SameBound DEF Raise, IInv, TypeInv, Preserved
<1> QED BY <1>3, <1>4

LEMMA ReadinessRaisesInv == ASSUME IInv, ReadinessRaises PROVE Preserved
<1>1. PICK p, w : p = ReadinessPopped /\ w = ReadinessHead
  OBVIOUS
<1>2. /\ p \in Record /\ p.flight = NoWork /\ Bounded(p) /\ w \in Work
      /\ Len(p.readiness) < ReadinessCapacity /\ p.bound = mem.bound
      /\ \A k \in p.open : k # w.key => Held(p, k) \/ k \in p.lost
      /\ \A k \in p.ready : Has(p.composition, k)
  BY <1>1, ReadinessPoppedOk DEF ReadinessRaises, Evaluating, IInv
<1> DEFINE n == [p EXCEPT !.lost = @ \cup {w.key}]
<1>3. Raise(p, "readiness", w, n)
  BY <1>1 DEF ReadinessRaises
<1>4. CkptOk([p EXCEPT !.flight = [queue |-> "readiness", work |-> w]])
  BY <1>2, FlightSaved
<1>5. /\ n \in Record /\ n.flight = NoWork /\ n.readiness = p.readiness /\ n.composition = p.composition
      /\ n.bound = p.bound /\ n.deferred = p.deferred /\ n.seen = p.seen
      /\ n.open = p.open /\ n.ready = p.ready /\ n.lost = p.lost \cup {w.key}
  <2>1. w.key \in Symbols
    BY <1>2 DEF Work
  <2> QED BY <1>2, <2>1 DEF Record
<1> HIDE DEF n
<1>6. Bounded(n)
  BY <1>2, <1>5 DEF Bounded
<1>7. Remembered(n)
  <2>1. \A k : Held(p, k) <=> Held(n, k)
    BY <1>2, <1>5, HeldIdle
  <2> QED BY <1>2, <1>5, <2>1 DEF Remembered
<1>8. MemOk(n) /\ n.bound = mem.bound /\ phase # "Down"
  BY <1>2, <1>5, <1>6, <1>7 DEF MemOk, ReadinessRaises, Evaluating, Processing
<1> QED BY <1>3, <1>4, <1>8, RaiseInv

LEMMA CompositionRaisesInv == ASSUME IInv, CompositionRaises PROVE Preserved
<1>1. PICK p, w : p = CompositionPopped /\ w = Head(mem.composition)
  OBVIOUS
<1>2. /\ p \in Record /\ p.flight = NoWork /\ Bounded(p) /\ w \in Work
      /\ Len(p.composition) < CompositionCapacity
      /\ \A k \in p.open : Held(p, k) \/ k \in p.lost
      /\ \A k \in p.ready : Has(p.composition, k) \/ k = w.key
      /\ MemOk([p EXCEPT !.ready = @ \ {w.key}]) /\ [p EXCEPT !.ready = @ \ {w.key}].bound = mem.bound
  BY <1>1, CompositionPoppedOk DEF CompositionRaises, Composing, IInv
<1>3. CkptOk([p EXCEPT !.flight = [queue |-> "composition", work |-> w]])
  BY <1>2, FlightSaved
<1>4. Raise(p, "composition", w, [p EXCEPT !.ready = @ \ {w.key}])
  BY <1>1 DEF CompositionRaises
<1>5. phase # "Down"
  BY DEF CompositionRaises, Composing, Processing
<1> QED BY <1>2, <1>3, <1>4, <1>5, RaiseInv

LEMMA TickEndInv == ASSUME IInv, TickEnd PROVE Preserved
<1>1. CkptInv'
  BY MemIsCkpt DEF TickEnd, IInv, CkptInv
<1> QED BY <1>1, SameBound DEF TickEnd, IInv, TypeInv, Preserved

LEMMA DrainEndInv == ASSUME IInv, DrainEnd PROVE Preserved
<1>1. CkptInv' /\ stops' \in Nat
  BY MemIsCkpt DEF DrainEnd, IInv, TypeInv, CkptInv
<1> QED BY <1>1, DownInv DEF DrainEnd

LEMMA NextInv == ASSUME IInv, [Next]_vars PROVE Preserved
<1>1. CASE Loop
  <2>1. CASE Start
    BY <2>1, StartInv
  <2>2. CASE Restore
    BY <2>2, RestoreInv
  <2>3. CASE TickBegin
    BY <2>3, TickBeginInv
  <2>4. CASE FlushProviderBound
    BY <2>4, FlushInv
  <2>5. CASE TickEnd
    BY <2>5, TickEndInv
  <2>6. CASE DrainEnd
    BY <2>6, DrainEndInv
  <2>7. CASE \E w \in todo : Release(w) \/ Promote(w)
    BY <2>7, ReleaseInv, PromoteInv
  <2> QED BY <1>1, <2>1, <2>2, <2>3, <2>4, <2>5, <2>6, <2>7 DEF Loop
<1>2. CASE Crash
  BY <1>2, CrashInv
<1>3. CASE Interrupt
  BY <1>3, InterruptInv
<1>4. CASE OpenMarket
  BY <1>4, OpenMarketInv
<1>5. CASE \E e \in Events : SubmitEvent(e)
  BY <1>5, SubmitEventInv
<1>6. CASE ProcessDiscovery
  BY <1>6, ProcessDiscoveryInv
<1>7. CASE Evaluate
  BY <1>7, EvaluateFailedInv, EvaluateDeferredInv, EvaluateReadyInv DEF Evaluate
<1>8. CASE Compose
  BY <1>8, ComposeInv
<1>9. CASE ReadinessRaises
  BY <1>9, ReadinessRaisesInv
<1>10. CASE CompositionRaises
  BY <1>10, CompositionRaisesInv
<1>11. CASE UNCHANGED vars
  BY <1>11, SameBound DEF vars, IInv, TypeInv, CkptInv, HasCheckpoint, Preserved
<1> QED BY <1>1, <1>2, <1>3, <1>4, <1>5, <1>6, <1>7, <1>8, <1>9, <1>10, <1>11 DEF Next

LEMMA Inductive == Spec => []IInv
<1>1. IInv /\ [Next]_vars => IInv'
  BY NextInv DEF Preserved
<1> QED BY <1>1, InitInv, PTL DEF Spec

-----------------------------------------------------------------------------
(* The theorems.                                                            *)

\* Every queue, history and checkpoint of the runtime stays well formed.
THEOREM TypeCorrect == Spec => []TypeOK
<1>1. IInv => TypeOK
  BY DEF IInv, TypeInv, MemOk, CkptInv, CkptOk, HasCheckpoint, TypeOK
<1> QED BY <1>1, Inductive, PTL

\* BoundedWorkQueue and the provider-bound and deferred symbols keep their
\* bounds and one work per symbol, and restore() accepts whatever the runtime
\* saved, in the middle of a piece of work or after it.
THEOREM AlwaysRestorable == Spec => []BoundedAndRestorable
<1>1. IInv => BoundedAndRestorable
  BY DEF IInv, MemOk, CkptInv, CkptOk, BoundedAndRestorable
<1> QED BY <1>1, Inductive, PTL

\* A symbol whose readiness was requested is held, in memory and in every
\* checkpoint, until it is answered, and one found ready until it is composed;
\* only an exception in the middle of its work takes it.
THEOREM NeverForgets == Spec => []NothingForgotten
<1>1. IInv => NothingForgotten
  BY DEF IInv, MemOk, CkptInv, CkptOk, NothingForgotten
<1> QED BY <1>1, Inductive, PTL

\* Whatever the queues hold, enqueue() gives the provider-bound set only a
\* request no more urgent than those it keeps.
THEOREM LeastUrgentLeaves == Spec => BoundHasLeastPriority
<1> DEFINE Step ==
      \A j \in 1 .. Len(mem'.bound) :
        (\A i \in 1 .. Len(mem.bound) : mem.bound[i] # mem'.bound[j]) /\ phase # "Down" =>
          \A i \in 1 .. Len(mem'.readiness) : mem'.readiness[i].prio >= mem'.bound[j].prio
<1>1. IInv /\ [Next]_vars => Step
  <2> SUFFICES ASSUME IInv, [Next]_vars, phase # "Down" PROVE Step
    OBVIOUS
  <2>1. KeepsBound(mem, mem')
    BY NextInv DEF Preserved
  <2> QED BY <2>1 DEF KeepsBound, In
<1>2. Spec => [][Step]_vars
  BY <1>1, Inductive, PTL DEF Spec
<1> QED BY <1>2 DEF BoundHasLeastPriority
=============================================================================
