----------------------- MODULE EvidenceCustody_proofs -----------------------
(***************************************************************************)
(* Proofs about EvidenceCustody for every capacity and every bound.         *)
(*                                                                         *)
(* A step changes the evidence state through a few operators (Admit,        *)
(* Refuse, Overflow, ReplaceHead, Drained, a retry, the hold).  One lemma   *)
(* per operator shows that it preserves Custody; the invariant says Custody *)
(* of the memory and of the checkpoint, and each action only chooses which  *)
(* operator is applied and which copy is saved or restored.                 *)
(***************************************************************************)
EXTENDS EvidenceCustody, SequenceTheorems, TLAPS

Custody(m, durable) ==
  m \in State /\ Linked(m) /\ QueueOfHistory(m) /\ NothingLost(m, durable)

LEMMA StateFields ==
  ASSUME NEW m \in State
  PROVE  /\ m.intents \in Seq(Intent) /\ m.queue \in Seq(Intent)
         /\ m.refusals \in Seq(Intent) /\ m.retries \in Nat /\ m.owed \in Nat
         /\ m.capacityRejections \in Nat /\ m.failed \in BOOLEAN
BY DEF State

LEMMA FreshCustody == ASSUME NEW D PROVE Custody(Fresh, D)
BY DEF Custody, State, Fresh, Intent, Linked, QueueOfHistory, NothingLost

\* What is durable stays durable: custody survives a growing log.
LEMMA CustodyMonotone ==
  ASSUME NEW m, NEW D, NEW E, Custody(m, D), D \subseteq E
  PROVE  Custody(m, E)
BY DEF Custody, NothingLost, Kept

\* Custody reads four fields only.
LEMMA SameCustody ==
  ASSUME NEW m, NEW D, Custody(m, D), NEW a \in State,
         a.intents = m.intents, a.queue = m.queue, a.owed = m.owed,
         a.refusals = m.refusals
  PROVE  Custody(a, D)
BY DEF Custody, Linked, QueueOfHistory, NothingLost, Kept

LEMMA HoldCustody ==
  ASSUME NEW m, NEW D, Custody(m, D)
  PROVE  Custody([m EXCEPT !.failed = TRUE], D)
<1> DEFINE a == [m EXCEPT !.failed = TRUE]
<1>1. m \in State  BY DEF Custody
<1>2. a \in State  BY <1>1 DEF State
<1>3. a.intents = m.intents  BY <1>1 DEF State
<1>4. a.queue = m.queue  BY <1>1 DEF State
<1>5. a.owed = m.owed /\ a.refusals = m.refusals  BY <1>1 DEF State
<1>6. QED  BY <1>2, <1>3, <1>4, <1>5, SameCustody

LEMMA RetryCustody ==
  ASSUME NEW m, NEW D, Custody(m, D)
  PROVE  Custody([m EXCEPT !.retries = @ + 1], D)
<1> DEFINE a == [m EXCEPT !.retries = @ + 1]
<1>1. m \in State  BY DEF Custody
<1>2. a \in State  BY <1>1 DEF State
<1>3. a.intents = m.intents  BY <1>1 DEF State
<1>4. a.queue = m.queue  BY <1>1 DEF State
<1>5. a.owed = m.owed /\ a.refusals = m.refusals  BY <1>1 DEF State
<1>6. QED  BY <1>2, <1>3, <1>4, <1>5, SameCustody

LEMMA LastIdIsIdentity ==
  ASSUME NEW m \in State PROVE LastId(m) \in Seq(Nat)
<1>1. m.intents \in Seq(Intent)  BY StateFields
<1>2. CASE m.intents = <<>>  BY <1>2 DEF LastId, NoIntent
<1>3. CASE m.intents # <<>>
  <2>1. m.intents[Len(m.intents)] \in Intent  BY <1>1, <1>3
  <2>2. QED  BY <2>1, <1>3 DEF LastId, Intent
<1>4. QED  BY <1>2, <1>3

\* The chain grows by one intent that names the newest one.
LEMMA LinkedAppend ==
  ASSUME NEW m \in State, Linked(m), NEW i \in Intent,
         i.n = Len(m.intents) + 1, i.pred = LastId(m),
         NEW a \in State, a.intents = Append(m.intents, i)
  PROVE  Linked(a)
<1>1. m.intents \in Seq(Intent) /\ Len(m.intents) \in Nat  BY StateFields
<1>2. /\ Len(a.intents) = Len(m.intents) + 1
      /\ \A k \in 1 .. Len(m.intents) : a.intents[k] = m.intents[k]
      /\ a.intents[Len(m.intents) + 1] = i
  BY <1>1
<1>3. SUFFICES ASSUME NEW k \in 1 .. Len(a.intents)
               PROVE  /\ a.intents[k].n = k
                      /\ a.intents[k].pred = IF k = 1 THEN NoIntent ELSE a.intents[k - 1].id
  BY DEF Linked
<1>4. CASE k \in 1 .. Len(m.intents)
  <2>1. k # 1 => k - 1 \in 1 .. Len(m.intents)  BY <1>1, <1>4
  <2>2. QED  BY <2>1, <1>2, <1>4 DEF Linked
<1>5. CASE k = Len(m.intents) + 1
  <2>1. k # 1 => k - 1 = Len(m.intents) /\ Len(m.intents) \in 1 .. Len(m.intents) /\ m.intents # <<>>
    BY <1>1, <1>5
  <2>2. k = 1 => m.intents = <<>>  BY <1>1, <1>5
  <2>3. QED  BY <2>1, <2>2, <1>2, <1>5 DEF LastId
<1>6. QED  BY <1>1, <1>2, <1>4, <1>5

LEMMA AdmitCustody ==
  ASSUME NEW m, NEW D, Custody(m, D), NEW i \in Intent,
         i.n = Len(m.intents) + 1, i.pred = LastId(m)
  PROVE  Custody(Admit(m, i), D)
<1> DEFINE a == Admit(m, i)
<1>1. m \in State /\ Linked(m) /\ QueueOfHistory(m) /\ NothingLost(m, D)
  BY DEF Custody
<1>2. /\ m.intents \in Seq(Intent) /\ m.queue \in Seq(Intent)
      /\ m.refusals \in Seq(Intent) /\ m.owed \in Nat
      /\ Len(m.intents) \in Nat /\ Len(m.queue) \in Nat
  BY <1>1, StateFields
<1>3. a \in State
  <2>1. /\ Append(m.intents, i) \in Seq(Intent)
        /\ Append(m.queue, i) \in Seq(Intent) /\ m.owed + 1 \in Nat
    BY <1>2
  <2>2. QED  BY <1>1, <2>1 DEF Admit, State
<1>4. a.intents = Append(m.intents, i)  BY <1>1 DEF Admit, State
<1>5. a.queue = Append(m.queue, i)  BY <1>1 DEF Admit, State
<1>6. a.owed = m.owed + 1  BY <1>1 DEF Admit, State
<1>7. a.refusals = m.refusals  BY <1>1 DEF Admit, State
<1> HIDE DEF a
<1>8. /\ Len(a.intents) = Len(m.intents) + 1
      /\ \A k \in 1 .. Len(m.intents) : a.intents[k] = m.intents[k]
      /\ a.intents[Len(m.intents) + 1] = i
  BY <1>2, <1>4
<1>9. /\ Len(a.queue) = Len(m.queue) + 1
      /\ \A k \in 1 .. Len(m.queue) : a.queue[k] = m.queue[k]
      /\ a.queue[Len(m.queue) + 1] = i
  BY <1>2, <1>5
<1>10. Linked(a)  BY <1>1, <1>3, <1>4, LinkedAppend
<1>11. QueueOfHistory(a)
  <2>1. ASSUME NEW k \in 1 .. Len(a.queue)
        PROVE  a.queue[k].n \in 1 .. Len(a.intents) /\ a.queue[k] = a.intents[a.queue[k].n]
    <3>1. CASE k \in 1 .. Len(m.queue)
      <4>1. m.queue[k].n \in 1 .. Len(m.intents) /\ m.queue[k] = m.intents[m.queue[k].n]
        BY <3>1, <1>1 DEF QueueOfHistory
      <4>2. a.queue[k] = m.queue[k]  BY <3>1, <1>9
      <4>3. a.intents[m.queue[k].n] = m.intents[m.queue[k].n]  BY <4>1, <1>8
      <4>4. m.queue[k].n \in 1 .. Len(a.intents)  BY <4>1, <1>2, <1>8
      <4>5. QED  BY <4>1, <4>2, <4>3, <4>4
    <3>2. CASE k = Len(m.queue) + 1  BY <3>2, <1>2, <1>8, <1>9
    <3>3. QED  BY <3>1, <3>2, <1>2, <1>9
  <2>2. ASSUME NEW j \in 1 .. Len(a.queue), NEW k \in 1 .. Len(a.queue), j < k
        PROVE  a.queue[j].n < a.queue[k].n
    <3>1. j \in 1 .. Len(m.queue)  BY <2>2, <1>2, <1>9
    <3>2. CASE k \in 1 .. Len(m.queue)
      BY <2>2, <3>1, <3>2, <1>1, <1>9 DEF QueueOfHistory
    <3>3. CASE k = Len(m.queue) + 1
      <4>1. m.queue[j].n \in 1 .. Len(m.intents)  BY <3>1, <1>1 DEF QueueOfHistory
      <4>2. a.queue[j] = m.queue[j] /\ a.queue[k] = i  BY <3>1, <3>3, <1>9
      <4>3. m.queue[j].n < i.n  BY <4>1, <1>2
      <4>4. QED  BY <4>2, <4>3
    <3>4. QED  BY <3>2, <3>3, <1>2, <1>9
  <2>3. a.owed = Len(a.queue)  BY <1>1, <1>6, <1>9 DEF QueueOfHistory
  <2>4. QED  BY <2>1, <2>2, <2>3 DEF QueueOfHistory
<1>12. NothingLost(a, D)
  <2>1. ASSUME NEW k \in 1 .. Len(a.intents) PROVE Kept(a, k, D)
    <3>1. CASE k \in 1 .. Len(m.intents)
      <4>1. Kept(m, k, D)  BY <3>1, <1>1 DEF NothingLost
      <4>2. \A j \in 1 .. Len(m.queue) : j \in 1 .. Len(a.queue)  BY <1>2, <1>9
      <4>3. QED  BY <4>1, <4>2, <3>1, <1>7, <1>8, <1>9 DEF Kept
    <3>2. CASE k = Len(m.intents) + 1
      <4>1. Len(m.queue) + 1 \in 1 .. Len(a.queue)  BY <1>2, <1>9
      <4>2. QED  BY <4>1, <3>2, <1>8, <1>9 DEF Kept
    <3>3. QED  BY <3>1, <3>2, <1>2, <1>8
  <2>2. QED  BY <2>1 DEF NothingLost
<1>13. QED  BY <1>3, <1>10, <1>11, <1>12 DEF Custody, a

\* A longer list of refusals keeps what the shorter one kept.
LEMMA KeptByMoreRefusals ==
  ASSUME NEW m \in State, NEW D, NEW i \in Intent, NEW a \in State,
         NEW k \in 1 .. Len(m.intents), Kept(m, k, D),
         a.intents[k] = m.intents[k], a.queue = m.queue,
         a.refusals = Append(m.refusals, i)
  PROVE  Kept(a, k, D)
<1>1. m.refusals \in Seq(Intent) /\ Len(m.refusals) \in Nat  BY StateFields
<1>2. \A j \in 1 .. Len(m.refusals) :
        j \in 1 .. Len(a.refusals) /\ a.refusals[j] = m.refusals[j]
  BY <1>1
<1>3. QED  BY <1>2 DEF Kept

LEMMA RefuseCustody ==
  ASSUME NEW m, NEW D, Custody(m, D), NEW i \in Intent
  PROVE  Custody(Refuse(m, i), D)
<1> DEFINE a == Refuse(m, i)
<1>1. m \in State /\ Linked(m) /\ QueueOfHistory(m) /\ NothingLost(m, D)
  BY DEF Custody
<1>2. a \in State
  <2>1. Append(m.refusals, i) \in Seq(Intent) /\ m.capacityRejections + 1 \in Nat
    BY <1>1, StateFields
  <2>2. QED  BY <1>1, <2>1 DEF Refuse, State
<1>3. a.intents = m.intents /\ a.owed = m.owed  BY <1>1 DEF Refuse, State
<1>4. a.queue = m.queue  BY <1>1 DEF Refuse, State
<1>5. a.refusals = Append(m.refusals, i)  BY <1>1 DEF Refuse, State
<1> HIDE DEF a
<1>6. Linked(a)  BY <1>1, <1>3 DEF Linked
<1>7. QueueOfHistory(a)  BY <1>1, <1>3, <1>4 DEF QueueOfHistory
<1>8. NothingLost(a, D)
  BY <1>1, <1>2, <1>3, <1>4, <1>5, KeptByMoreRefusals DEF NothingLost
<1>9. QED  BY <1>2, <1>6, <1>7, <1>8 DEF Custody, a

LEMMA OverflowCustody ==
  ASSUME NEW m, NEW D, Custody(m, D), NEW i \in Intent,
         i.n = Len(m.intents) + 1, i.pred = LastId(m)
  PROVE  Custody(Overflow(m, i), D)
<1> DEFINE a == Overflow(m, i)
<1>1. m \in State /\ Linked(m) /\ QueueOfHistory(m) /\ NothingLost(m, D)
  BY DEF Custody
<1>2. /\ m.intents \in Seq(Intent) /\ m.refusals \in Seq(Intent)
      /\ Len(m.intents) \in Nat /\ Len(m.refusals) \in Nat
  BY <1>1, StateFields
<1>3. a \in State
  <2>1. /\ Append(m.intents, i) \in Seq(Intent)
        /\ Append(m.refusals, i) \in Seq(Intent)
    BY <1>2
  <2>2. QED  BY <1>1, <2>1 DEF Overflow, State
<1>4. a.intents = Append(m.intents, i)  BY <1>1 DEF Overflow, State
<1>5. a.queue = m.queue /\ a.owed = m.owed  BY <1>1 DEF Overflow, State
<1>6. a.refusals = Append(m.refusals, i)  BY <1>1 DEF Overflow, State
<1> HIDE DEF a
<1>7. /\ Len(a.intents) = Len(m.intents) + 1
      /\ \A k \in 1 .. Len(m.intents) : a.intents[k] = m.intents[k]
      /\ a.intents[Len(m.intents) + 1] = i
  BY <1>2, <1>4
<1>8. Linked(a)  BY <1>1, <1>3, <1>4, LinkedAppend
<1>9. QueueOfHistory(a)
  <2>1. ASSUME NEW k \in 1 .. Len(m.queue)
        PROVE  m.queue[k].n \in 1 .. Len(a.intents) /\ m.queue[k] = a.intents[m.queue[k].n]
    <3>1. m.queue[k].n \in 1 .. Len(m.intents) /\ m.queue[k] = m.intents[m.queue[k].n]
      BY <1>1 DEF QueueOfHistory
    <3>2. QED  BY <3>1, <1>2, <1>7
  <2>2. QED  BY <2>1, <1>1, <1>5 DEF QueueOfHistory
<1>10. NothingLost(a, D)
  <2>1. ASSUME NEW k \in 1 .. Len(a.intents) PROVE Kept(a, k, D)
    <3>1. CASE k \in 1 .. Len(m.intents)
      <4>1. Kept(m, k, D)  BY <3>1, <1>1 DEF NothingLost
      <4>2. QED  BY <4>1, <3>1, <1>1, <1>3, <1>5, <1>6, <1>7, KeptByMoreRefusals
    <3>2. CASE k = Len(m.intents) + 1
      <4>1. /\ Len(m.refusals) + 1 \in 1 .. Len(a.refusals)
            /\ a.refusals[Len(m.refusals) + 1] = i
        BY <1>2, <1>6
      <4>2. QED  BY <4>1, <3>2, <1>7 DEF Kept
    <3>3. QED  BY <3>1, <3>2, <1>2, <1>7
  <2>2. QED  BY <2>1 DEF NothingLost
<1>11. QED  BY <1>3, <1>8, <1>9, <1>10 DEF Custody, a

LEMMA DrainedCustody ==
  ASSUME NEW m, NEW D, Custody(m, D), m.queue # <<>>
  PROVE  Custody(Drained(m), D \cup {Head(m.queue)})
<1> DEFINE a == Drained(m)
           E == D \cup {Head(m.queue)}
<1>1. m \in State /\ Linked(m) /\ QueueOfHistory(m) /\ NothingLost(m, D)
  BY DEF Custody
<1>2. /\ m.queue \in Seq(Intent) /\ m.owed = Len(m.queue)
      /\ Len(m.queue) \in Nat \ {0}
  BY <1>1 DEF State, QueueOfHistory
<1>3. /\ a.intents = m.intents /\ a.queue = Tail(m.queue)
      /\ a.owed = m.owed - 1 /\ a.refusals = m.refusals
  BY <1>1 DEF Drained, State
<1>4. a \in State
  <2>1. Tail(m.queue) \in Seq(Intent) /\ m.owed - 1 \in Nat  BY <1>2
  <2>2. QED  BY <1>1, <2>1 DEF Drained, State
<1> HIDE DEF a
<1>5. Linked(a)  BY <1>1, <1>3 DEF Linked
<1>6. QueueOfHistory(a)  BY <1>1, <1>2, <1>3 DEF QueueOfHistory
<1>7. ASSUME NEW k \in 1 .. Len(a.intents) PROVE Kept(a, k, E)
  <2>1. Kept(m, k, D)  BY <1>1, <1>3, <1>7 DEF NothingLost
  <2>2. CASE \E j \in 1 .. Len(m.queue) : m.queue[j] = m.intents[k]
    <3>1. PICK j \in 1 .. Len(m.queue) : m.queue[j] = m.intents[k]  BY <2>2
    <3>2. CASE j = 1  BY <3>1, <3>2, <1>2, <1>3 DEF Kept
    <3>3. CASE j # 1
      <4>1. /\ j - 1 \in 1 .. Len(Tail(m.queue))
            /\ Tail(m.queue)[j - 1] = m.queue[j]
        BY <3>1, <3>3, <1>2
      <4>2. QED  BY <4>1, <3>1, <1>3 DEF Kept
    <3>4. QED  BY <3>2, <3>3
  <2>3. CASE ~ \E j \in 1 .. Len(m.queue) : m.queue[j] = m.intents[k]
    BY <2>1, <2>3, <1>3 DEF Kept
  <2>4. QED  BY <2>2, <2>3
<1>8. QED  BY <1>4, <1>5, <1>6, <1>7 DEF Custody, NothingLost, a

\* The head of the queue is also the newest intent, so it is the only one in
\* the queue and no other intent names it.
LEMMA ReplaceCustody ==
  ASSUME NEW m, NEW D, Custody(m, D), m.queue # <<>>,
         IsLineageHead(m, Head(m.queue)),
         NEW i \in Intent, i.n = Head(m.queue).n, i.pred = Head(m.queue).pred
  PROVE  Custody(ReplaceHead(m, i), D)
<1> DEFINE a == ReplaceHead(m, i)
           top == Len(m.intents)
<1>1. m \in State /\ Linked(m) /\ QueueOfHistory(m) /\ NothingLost(m, D)
  BY DEF Custody
<1>2. /\ m.queue \in Seq(Intent) /\ m.intents \in Seq(Intent)
      /\ Len(m.queue) \in Nat \ {0} /\ Head(m.queue) = m.queue[1]
  BY <1>1 DEF State
<1>3. top \in Nat \ {0} /\ m.queue[1] = m.intents[top] /\ m.queue[1].n = top
  BY <1>1, <1>2 DEF IsLineageHead, QueueOfHistory
<1>4. Len(m.queue) = 1
  <2>1. SUFFICES ASSUME Len(m.queue) # 1 PROVE FALSE  OBVIOUS
  <2>2. m.queue[1].n < m.queue[2].n /\ m.queue[2].n \in 1 .. top
    <3>1. \A len \in Nat \ {0} : len # 1 => 1 \in 1 .. len /\ 2 \in 1 .. len
      OBVIOUS
    <3>2. 1 \in 1 .. Len(m.queue) /\ 2 \in 1 .. Len(m.queue)
      BY <3>1, <2>1, <1>2
    <3>3. QED  BY <3>2, <1>1 DEF QueueOfHistory
  <2>3. QED  BY <2>2, <1>2, <1>3
<1>5. /\ a.intents = [m.intents EXCEPT ![top] = i]
      /\ a.queue = [m.queue EXCEPT ![1] = i]
      /\ a.owed = m.owed /\ a.refusals = m.refusals /\ a.retries = 0
      /\ a = [m EXCEPT !.intents = a.intents, !.queue = a.queue, !.retries = 0]
  BY <1>1 DEF ReplaceHead, State
<1>6. /\ a.intents \in Seq(Intent) /\ Len(a.intents) = top
      /\ a.queue \in Seq(Intent) /\ Len(a.queue) = 1
  BY <1>2, <1>3, <1>4, <1>5, ExceptSeq
<1>7. a \in State
  <2> DEFINE b == a.intents
             c == a.queue
  <2>1. a = [m EXCEPT !.intents = b, !.queue = c, !.retries = 0]  BY <1>5
  <2>2. b \in Seq(Intent) /\ c \in Seq(Intent)  BY <1>6
  <2> HIDE DEF a, b, c
  <2>3. QED  BY <1>1, <2>1, <2>2 DEF State
<1> HIDE DEF a
<1>8. /\ \A k \in 1 .. top : a.intents[k] = IF k = top THEN i ELSE m.intents[k]
      /\ a.queue[1] = i
  BY <1>2, <1>3, <1>4, <1>5
<1>9. Linked(a)
  <2>1. SUFFICES ASSUME NEW k \in 1 .. top
                 PROVE  /\ a.intents[k].n = k
                        /\ a.intents[k].pred =
                             IF k = 1 THEN NoIntent ELSE a.intents[k - 1].id
    BY <1>6 DEF Linked
  <2>2. /\ m.intents[k].n = k
        /\ m.intents[k].pred = IF k = 1 THEN NoIntent ELSE m.intents[k - 1].id
    BY <1>1, <1>2 DEF Linked
  <2>3. k # 1 => k - 1 \in 1 .. top /\ k - 1 # top  BY <1>2
  <2>4. k # 1 => a.intents[k - 1] = m.intents[k - 1]  BY <1>8, <2>3
  <2>5. QED  BY <1>3, <1>8, <2>2, <2>4
<1>10. QueueOfHistory(a)
  BY <1>1, <1>2, <1>3, <1>4, <1>5, <1>6, <1>8 DEF QueueOfHistory
<1>11. ASSUME NEW k \in 1 .. top PROVE Kept(a, k, D)
  <2>1. CASE k = top  BY <2>1, <1>6, <1>8 DEF Kept
  <2>2. CASE k # top
    <3>1. m.intents[k].n = k  BY <1>1 DEF Linked
    <3>2. m.queue[1] # m.intents[k]  BY <3>1, <2>2, <1>3
    <3>3. Kept(m, k, D)  BY <1>1 DEF NothingLost
    <3>4. QED  BY <3>2, <3>3, <2>2, <1>4, <1>5, <1>8 DEF Kept
  <2>3. QED  BY <2>1, <2>2
<1>12. QED  BY <1>6, <1>7, <1>9, <1>10, <1>11 DEF Custody, NothingLost, a

-----------------------------------------------------------------------------
(* The inductive invariant.                                                 *)

Kinds == /\ phase \in {"Down", "Idle", "Tick", "TickClose", "Drain", "DrainClose"}
         /\ batch \in Nat /\ emitted \in Nat /\ stops \in Nat
         /\ overflowed \in BOOLEAN

Records == log \subseteq Intent /\ sent \subseteq Intent

IInv ==
  /\ Kinds /\ Records
  /\ Custody(mem, log)
  /\ ckpt \in State \cup {NoCheckpoint}
  /\ HasCheckpoint => Custody(ckpt, log)

LEMMA BuildIsIntent ==
  ASSUME NEW m \in State, emitted \in Nat
  PROVE  /\ BuildIntent(m) \in Intent
         /\ BuildIntent(m).n = Len(m.intents) + 1
         /\ BuildIntent(m).pred = LastId(m)
<1>1. Len(m.intents) + 1 \in Nat  BY StateFields
<1>2. <<emitted + 1>> \in Seq(Nat)  OBVIOUS
<1>3. LastId(m) \in Seq(Nat)  BY LastIdIsIdentity
<1>4. QED  BY <1>1, <1>2, <1>3 DEF BuildIntent, Intent

LEMMA CompactIsIntent ==
  ASSUME NEW i \in Intent, NEW r \in Nat
  PROVE  /\ CompactRejection(i, r) \in Intent
         /\ CompactRejection(i, r).n = i.n
         /\ CompactRejection(i, r).pred = i.pred
<1>1. Append(i.id, r) \in Seq(Nat)  BY DEF Intent
<1>2. QED  BY <1>1 DEF CompactRejection, Intent

\* The file is left alone, or becomes what the memory was or is.
LEMMA SaveStep ==
  ASSUME IInv, log \subseteq log', Custody(mem', log'),
         ckpt' = ckpt \/ ckpt' = mem \/ ckpt' = mem'
  PROVE  /\ ckpt' \in State \cup {NoCheckpoint}
         /\ HasCheckpoint' => Custody(ckpt', log')
<1>1. Custody(mem, log')  BY CustodyMonotone DEF IInv
<1>2. HasCheckpoint => Custody(ckpt, log')  BY CustodyMonotone DEF IInv
<1>3. mem \in State /\ mem' \in State  BY DEF IInv, Custody
<1>4. QED  BY <1>1, <1>2, <1>3 DEF IInv, HasCheckpoint

\* An admission or a refusal, with the hold the monitor may add.
LEMMA PublishStep ==
  ASSUME IInv, NEW m, Custody(m, log), Publish(m), log' = log
  PROVE  /\ Custody(mem', log')
         /\ ckpt' = ckpt \/ ckpt' = mem'
<1>1. Custody([m EXCEPT !.failed = TRUE], log)  BY HoldCustody
<1>2. QED  BY <1>1 DEF Publish

\* A step that keeps the records and moves the memory and the file legally.
LEMMA CustodyStep ==
  ASSUME IInv, Kinds', Records', log \subseteq log', Custody(mem', log'),
         ckpt' = ckpt \/ ckpt' = mem \/ ckpt' = mem'
  PROVE  IInv'
<1>1. /\ ckpt' \in State \cup {NoCheckpoint}
      /\ HasCheckpoint' => Custody(ckpt', log')
  BY SaveStep
<1>2. QED  BY <1>1 DEF IInv

LEMMA InitIInv == Init => IInv
<1> SUFFICES ASSUME Init PROVE IInv  OBVIOUS
<1>1. Custody(mem, log)  BY FreshCustody DEF Init
<1>2. QED  BY <1>1 DEF Init, IInv, Kinds, Records, HasCheckpoint

\* The steps of the process that touch no evidence: they forget the memory,
\* read the file, save it, or leave it alone.
LEMMA LoopStep ==
  ASSUME IInv,
         \/ Start \/ Restore \/ Crash \/ Interrupt
         \/ TickBegin \/ BeginWork \/ TickEnd \/ DrainEnd
  PROVE  IInv'
<1> USE DEF Records
<1>0. /\ Kinds /\ Records /\ Custody(mem, log) /\ Custody(Fresh, log)
      /\ HasCheckpoint => Custody(ckpt, log)
  BY FreshCustody DEF IInv
<1>1. CASE Start
  BY <1>0, <1>1, CustodyStep DEF Start, Kinds
<1>2. CASE Restore
  BY <1>0, <1>2, CustodyStep DEF Restore, Kinds
<1>3. CASE Crash
  BY <1>0, <1>3, CustodyStep DEF Crash, Stop, Kinds
<1>4. CASE Interrupt
  BY <1>0, <1>4, CustodyStep DEF Interrupt, Stop, Kinds
<1>5. CASE TickBegin
  BY <1>0, <1>5, CustodyStep DEF TickBegin, Kinds
<1>6. CASE BeginWork
  <2>1. batch' \in Nat  BY <1>6, CustodyAssumption DEF BeginWork
  <2>2. QED  BY <1>0, <1>6, <2>1, CustodyStep DEF BeginWork, Kinds
<1>7. CASE TickEnd
  BY <1>0, <1>7, CustodyStep DEF TickEnd, Stop, Kinds
<1>8. CASE DrainEnd
  BY <1>0, <1>8, CustodyStep DEF DrainEnd, Stop, Kinds
<1>9. QED  BY <1>1, <1>2, <1>3, <1>4, <1>5, <1>6, <1>7, <1>8

LEMMA EmitStep == ASSUME IInv, Emit PROVE IInv'
<1> USE DEF Records
<1> DEFINE i == BuildIntent(mem)
           c == CompactRejection(i, 0)
<1>0. Kinds /\ Records /\ Custody(mem, log) /\ mem \in State  BY DEF IInv, Custody
<1>1. i \in Intent /\ i.n = Len(mem.intents) + 1 /\ i.pred = LastId(mem)
  BY <1>0, BuildIsIntent DEF Kinds
<1>2. c \in Intent /\ c.n = Len(mem.intents) + 1 /\ c.pred = LastId(mem)
  BY <1>1, CompactIsIntent
<1>3. /\ Custody(Admit(mem, i), log) /\ Custody(Admit(mem, c), log)
      /\ Custody(Refuse(mem, i), log) /\ Custody(Overflow(mem, c), log)
  BY <1>0, <1>1, <1>2, AdmitCustody, RefuseCustody, OverflowCustody
<1> HIDE DEF i, c
<1>4. CASE EmitDropped
  BY <1>0, <1>4, CustodyStep DEF EmitDropped, Emitting, Kinds
<1>5. CASE EmitAdmitted
  <2>1. Publish(Admit(mem, i)) /\ log' = log  BY <1>5 DEF EmitAdmitted, i
  <2>2. Custody(mem', log') /\ (ckpt' = ckpt \/ ckpt' = mem')
    BY <2>1, <1>3, PublishStep
  <2>3. QED  BY <1>0, <1>5, <2>2, CustodyStep DEF EmitAdmitted, Emitting, Kinds
<1>6. CASE EmitRefused
  <2>1. Publish(Refuse(mem, i)) /\ log' = log  BY <1>6 DEF EmitRefused, i
  <2>2. Custody(mem', log') /\ (ckpt' = ckpt \/ ckpt' = mem')
    BY <2>1, <1>3, PublishStep
  <2>3. QED  BY <1>0, <1>6, <2>2, CustodyStep DEF EmitRefused, Emitting, Kinds
<1>7. CASE EmitCompacted
  <2>1. Publish(Admit(mem, c)) /\ log' = log  BY <1>7 DEF EmitCompacted, i, c
  <2>2. Custody(mem', log') /\ (ckpt' = ckpt \/ ckpt' = mem')
    BY <2>1, <1>3, PublishStep
  <2>3. QED  BY <1>0, <1>7, <2>2, CustodyStep DEF EmitCompacted, Emitting, Kinds
<1>8. CASE EmitOverflow
  <2>1. mem' = Fresh \/ mem' = Overflow(mem, c)
    BY <1>8 DEF EmitOverflow, Unwind, Stop, i, c
  <2>2. Custody(mem', log')
    BY <1>8, <2>1, <1>3, FreshCustody DEF EmitOverflow
  <2>3. Kinds'  BY <1>0, <1>8 DEF EmitOverflow, Emitting, Unwind, Stop, Kinds
  <2>4. QED  BY <1>0, <1>8, <2>2, <2>3, CustodyStep DEF EmitOverflow
<1>9. QED  BY <1>4, <1>5, <1>6, <1>7, <1>8 DEF Emit

LEMMA WriteStep == ASSUME IInv, Write PROVE IInv'
<1> DEFINE h == Head(mem.queue)
<1>0. Kinds /\ Records /\ Custody(mem, log) /\ mem \in State  BY DEF IInv, Custody
<1>1. mem.queue # <<>> /\ h \in Intent
  <2>1. mem.queue # <<>>
    BY DEF Write, WriteAccepted, WriteTransient, WriteRejectedAtHead,
           WriteRejectedBehind, WriteIncorrect, Writing
  <2>2. QED  BY <2>1, <1>0, StateFields
<1> HIDE DEF h
<1>2. CASE WriteAccepted
  <2>1. log' = log \cup {h} /\ mem' = Drained(mem)  BY <1>2 DEF WriteAccepted, h
  <2>2. Custody(mem', log')  BY <1>0, <1>1, <2>1, DrainedCustody DEF h
  <2>3. QED
    BY <1>0, <1>1, <1>2, <2>1, <2>2, CustodyStep DEF WriteAccepted, Kinds, Records
<1>3. ASSUME UncertainCommit PROVE log \subseteq log' /\ Records'
  BY <1>0, <1>1, <1>3 DEF UncertainCommit, Records, h
<1>4. ASSUME UncertainCommit PROVE Custody(mem, log')
  BY <1>0, <1>3, <1>4, CustodyMonotone
<1>5. CASE WriteTransient
  <2>1. UncertainCommit /\ mem' = [mem EXCEPT !.retries = @ + 1]
    BY <1>5 DEF WriteTransient
  <2>2. Custody(mem', log')  BY <2>1, <1>4, RetryCustody
  <2>3. QED
    BY <1>0, <1>3, <1>5, <2>1, <2>2, CustodyStep DEF WriteTransient, EndLoop, Kinds
<1>6. CASE WriteRejectedAtHead
  <2> DEFINE c == CompactRejection(h, mem.retries)
  <2>1. UncertainCommit /\ mem' = ReplaceHead(mem, c) /\ IsLineageHead(mem, h)
    BY <1>6 DEF WriteRejectedAtHead, h
  <2>2. c \in Intent /\ c.n = h.n /\ c.pred = h.pred
    BY <1>0, <1>1, StateFields, CompactIsIntent
  <2> HIDE DEF c
  <2>3. Custody(mem', log')
    BY <1>1, <2>1, <2>2, <1>4, ReplaceCustody DEF h
  <2>4. QED
    BY <1>0, <1>3, <1>6, <2>1, <2>3, CustodyStep DEF WriteRejectedAtHead, Kinds
<1>7. CASE WriteRejectedBehind
  <2>1. UncertainCommit /\ (mem' = Fresh \/ mem' = mem)
    BY <1>7 DEF WriteRejectedBehind, Unwind, Stop
  <2>2. Custody(mem', log')  BY <2>1, <1>4, FreshCustody
  <2>3. Kinds'  BY <1>0, <1>7 DEF WriteRejectedBehind, Unwind, Stop, Kinds
  <2>4. QED  BY <1>3, <1>7, <2>1, <2>2, <2>3, CustodyStep DEF WriteRejectedBehind
<1>8. CASE WriteIncorrect
  <2>1. log' \in {log, log \cup {h}} /\ mem' = [mem EXCEPT !.failed = TRUE]
    BY <1>8 DEF WriteIncorrect, h
  <2>2. log \subseteq log' /\ Records'
    BY <1>0, <1>1, <1>8, <2>1 DEF WriteIncorrect, Records
  <2>3. Custody(mem', log')  BY <1>0, <2>1, <2>2, CustodyMonotone, HoldCustody
  <2>4. QED
    BY <1>0, <1>8, <2>2, <2>3, CustodyStep DEF WriteIncorrect, EndLoop, Kinds
<1>9. QED  BY <1>2, <1>5, <1>6, <1>7, <1>8 DEF Write

LEMMA NextIInv == IInv /\ [Next]_vars => IInv'
<1> SUFFICES ASSUME IInv, [Next]_vars PROVE IInv'  OBVIOUS
<1>0. Kinds /\ Records /\ Custody(mem, log) /\ mem \in State  BY DEF IInv, Custody
<1>1. CASE \/ Start \/ Restore \/ Crash \/ Interrupt
           \/ TickBegin \/ BeginWork \/ TickEnd \/ DrainEnd
  BY <1>1, LoopStep
<1>2. CASE Emit  BY <1>2, EmitStep
<1>3. CASE Write  BY <1>3, WriteStep
<1>4. CASE LivenessTrip
  <2>1. Custody(mem', log')  BY <1>0, <1>4, HoldCustody DEF LivenessTrip
  <2>2. QED  BY <1>0, <1>4, <2>1, CustodyStep DEF LivenessTrip, Kinds, Records
<1>5. CASE LateCommit
  <2>1. log \subseteq log' /\ Records'  BY <1>0, <1>5 DEF LateCommit, Records
  <2>2. mem' = mem /\ ckpt' = ckpt /\ Kinds'  BY <1>0, <1>5 DEF LateCommit, Kinds
  <2>3. Custody(mem', log')  BY <1>0, <2>1, <2>2, CustodyMonotone
  <2>4. QED  BY <2>1, <2>2, <2>3, CustodyStep
<1>6. CASE UNCHANGED vars
  BY <1>6 DEF vars, IInv, Kinds, Records, HasCheckpoint
<1>7. QED  BY <1>1, <1>2, <1>3, <1>4, <1>5, <1>6 DEF Next

LEMMA InvariantIInv == Spec => []IInv
BY InitIInv, NextIInv, PTL DEF Spec

\* Every variable keeps its type: memory and file are evidence states, the
\* durable and the in-flight records are intents (the runtime's containers).
THEOREM TypeCorrect == Spec => []TypeOK
<1>1. IInv => TypeOK  BY DEF IInv, Kinds, Records, Custody, TypeOK
<1>2. QED  BY <1>1, InvariantIInv, PTL

\* The admitted history is one predecessor chain in memory and in the file,
\* whatever crashes, restores, refusals and replacements came before.
THEOREM LineageIsLinked == Spec => []LineageLinked
<1>1. IInv => LineageLinked  BY DEF IInv, Custody, LineageLinked
<1>2. QED  BY <1>1, InvariantIInv, PTL

\* The queue is the undelivered part of the history, in order, and the
\* monitor's count of it agrees, in memory and in the file.
THEOREM QueueIsOwed == Spec => []QueueIsOwedHistory
<1>1. IInv => QueueIsOwedHistory  BY DEF IInv, Custody, QueueIsOwedHistory
<1>2. QED  BY <1>1, InvariantIInv, PTL

\* No admitted intent is lost: it is queued, durable or explicitly refused.
THEOREM NothingAdmittedIsLost == Spec => []AdmittedIsKept
<1>1. IInv => AdmittedIsKept  BY DEF IInv, Custody, AdmittedIsKept
<1>2. QED  BY <1>1, InvariantIInv, PTL

-----------------------------------------------------------------------------
(* The terminal hold.  A file that records it is read by no restart, so the *)
(* process is down or still holds exactly what the file holds.              *)

HoldInv == HasCheckpoint /\ ckpt.failed => phase = "Down" \/ mem = ckpt

LEMMA HoldStep ==
  ASSUME HoldInv, [Next]_vars
  PROVE  /\ HoldInv'
         /\ HasCheckpoint /\ ckpt.failed => ckpt' = ckpt /\ log' \subseteq log \cup sent
<1> DEFINE Held == HasCheckpoint /\ ckpt.failed
           Frozen == Held => ckpt' = ckpt /\ log' \subseteq log \cup sent
<1>1. ASSUME Held, phase # "Down" PROVE mem = ckpt /\ mem.failed
  BY <1>1 DEF HoldInv
<1>2. CASE Start  BY <1>2 DEF Start, HoldInv, HasCheckpoint
<1>3. CASE Restore  BY <1>3 DEF Restore, HoldInv, HasCheckpoint
<1>4. CASE Crash  BY <1>4 DEF Crash, Stop, HoldInv, HasCheckpoint
<1>5. CASE Interrupt
  BY <1>1, <1>5 DEF Interrupt, Stop, HoldInv, HasCheckpoint
<1>6. CASE TickBegin  BY <1>6 DEF TickBegin, HoldInv, HasCheckpoint
<1>7. CASE BeginWork  BY <1>7 DEF BeginWork, HoldInv, HasCheckpoint
<1>8. CASE TickEnd  BY <1>1, <1>8 DEF TickEnd, Stop, HoldInv, HasCheckpoint
<1>9. CASE DrainEnd  BY <1>1, <1>9 DEF DrainEnd, Stop, HoldInv, HasCheckpoint
<1>10. CASE EmitDropped
  BY <1>1, <1>10 DEF EmitDropped, Emitting, HoldInv, HasCheckpoint
<1>11. ASSUME Emitting, Admissible PROVE ~Held
  BY <1>1, <1>11 DEF Emitting, Admissible
<1>12. CASE EmitAdmitted \/ EmitRefused \/ EmitCompacted
  BY <1>11, <1>12 DEF EmitAdmitted, EmitRefused, EmitCompacted, Publish,
                      HoldInv, HasCheckpoint
<1>13. CASE EmitOverflow
  BY <1>11, <1>13 DEF EmitOverflow, HoldInv, HasCheckpoint
<1>14. ASSUME Writing PROVE ~Held  BY <1>1, <1>14 DEF Writing
<1>15. CASE Write
  BY <1>14, <1>15 DEF Write, WriteAccepted, WriteTransient, WriteRejectedAtHead,
                      WriteRejectedBehind, WriteIncorrect, HoldInv, HasCheckpoint
<1>16. CASE LivenessTrip
  BY <1>1, <1>16 DEF LivenessTrip, HoldInv, HasCheckpoint
<1>17. CASE LateCommit  BY <1>17 DEF LateCommit, HoldInv, HasCheckpoint
<1>18. CASE UNCHANGED vars  BY <1>18 DEF vars, HoldInv, HasCheckpoint
<1>19. QED
  BY <1>2, <1>3, <1>4, <1>5, <1>6, <1>7, <1>8, <1>9, <1>10, <1>12, <1>13,
     <1>15, <1>16, <1>17, <1>18 DEF Next, Emit

\* A saved terminal hold is final: no later step, restart included, changes the
\* file, and only writes already in flight can still become durable.
THEOREM HoldIsFinal == Spec => HoldSurvivesRestart
<1>1. Init => HoldInv  BY DEF Init, HoldInv, HasCheckpoint
<1>2. HoldInv /\ [Next]_vars => HoldInv'  BY HoldStep
<1>3. HoldInv /\ [Next]_vars
        => [HasCheckpoint /\ ckpt.failed => ckpt' = ckpt /\ log' \subseteq log \cup sent]_vars
  BY HoldStep
<1>4. QED  BY <1>1, <1>2, <1>3, PTL DEF Spec, HoldSurvivesRestart

-----------------------------------------------------------------------------
(* Restorability.  Only an overflow records a refusal the monitor does not  *)
(* count; every other step moves both together or neither.                  *)

Counted(m) == Len(m.refusals) <= m.capacityRejections

CountInv ==
  ~overflowed => Counted(mem) /\ (HasCheckpoint => Counted(ckpt))

LEMMA CountedOperators ==
  ASSUME NEW m \in State, Counted(m), NEW i \in Intent
  PROVE  /\ Counted(Fresh) /\ Counted(Admit(m, i)) /\ Counted(Refuse(m, i))
         /\ Counted(Drained(m)) /\ Counted(ReplaceHead(m, i))
         /\ Counted([m EXCEPT !.failed = TRUE])
         /\ Counted([m EXCEPT !.retries = @ + 1])
<1>1. Counted(Fresh)  BY DEF Counted, Fresh
<1>2. Counted(Admit(m, i))
  <2>1. Admit(m, i).refusals = m.refusals  BY DEF Admit, State
  <2>2. Admit(m, i).capacityRejections = m.capacityRejections  BY DEF Admit, State
  <2>3. QED  BY <2>1, <2>2 DEF Counted
<1>3. Counted(Refuse(m, i))
  <2>1. Refuse(m, i).refusals = Append(m.refusals, i)  BY DEF Refuse, State
  <2>2. Refuse(m, i).capacityRejections = m.capacityRejections + 1
    BY DEF Refuse, State
  <2>3. m.refusals \in Seq(Intent) /\ m.capacityRejections \in Nat  BY StateFields
  <2>4. Len(Append(m.refusals, i)) = Len(m.refusals) + 1 /\ Len(m.refusals) \in Nat
    BY <2>3
  <2>5. QED  BY <2>1, <2>2, <2>3, <2>4 DEF Counted
<1>4. Counted(Drained(m))
  <2>1. Drained(m).refusals = m.refusals  BY DEF Drained, State
  <2>2. Drained(m).capacityRejections = m.capacityRejections  BY DEF Drained, State
  <2>3. QED  BY <2>1, <2>2 DEF Counted
<1>5. Counted(ReplaceHead(m, i))
  <2>1. ReplaceHead(m, i).refusals = m.refusals  BY DEF ReplaceHead, State
  <2>2. ReplaceHead(m, i).capacityRejections = m.capacityRejections
    BY DEF ReplaceHead, State
  <2>3. QED  BY <2>1, <2>2 DEF Counted
<1>6. Counted([m EXCEPT !.failed = TRUE])  BY DEF Counted, State
<1>7. Counted([m EXCEPT !.retries = @ + 1])  BY DEF Counted, State
<1>8. QED  BY <1>1, <1>2, <1>3, <1>4, <1>5, <1>6, <1>7

LEMMA CountedPublish ==
  ASSUME NEW m \in State, Counted(m), Publish(m), CountInv, ~overflowed,
         overflowed' = overflowed
  PROVE  CountInv'
<1>1. Counted([m EXCEPT !.failed = TRUE])  BY DEF Counted, State
<1>2. Counted(mem')  BY <1>1 DEF Publish
<1>3. QED  BY <1>2 DEF Publish, CountInv, HasCheckpoint

LEMMA CountStep == IInv /\ CountInv /\ [Next]_vars => CountInv'
<1> SUFFICES ASSUME IInv, CountInv, [Next]_vars, ~overflowed' PROVE CountInv'
  BY DEF CountInv
<1> USE DEF HasCheckpoint
<1> DEFINE i == BuildIntent(mem)
           c == CompactRejection(i, 0)
           h == Head(mem.queue)
           d == CompactRejection(h, mem.retries)
<1>1. mem \in State /\ emitted \in Nat  BY DEF IInv, Custody, Kinds
<1>2. i \in Intent /\ c \in Intent  BY <1>1, BuildIsIntent, CompactIsIntent
<1>3. overflowed' = overflowed /\ ~overflowed
  BY DEF vars, Next, Start, Restore, Crash, Interrupt, TickBegin, BeginWork, TickEnd,
         DrainEnd, Emit, EmitDropped, EmitAdmitted, EmitRefused, EmitCompacted,
         EmitOverflow, Write, WriteAccepted, WriteTransient, WriteRejectedAtHead,
         WriteRejectedBehind, WriteIncorrect, LivenessTrip, LateCommit
<1>4. Counted(mem) /\ (HasCheckpoint => Counted(ckpt)) /\ Counted(Fresh)
  BY <1>1, <1>2, <1>3, CountedOperators DEF CountInv
<1>5. Admit(mem, i) \in State /\ Admit(mem, c) \in State /\ Refuse(mem, i) \in State
  BY <1>1, <1>2, BuildIsIntent, CompactIsIntent, AdmitCustody, RefuseCustody
     DEF IInv, Custody
<1>6. Counted(Admit(mem, i)) /\ Counted(Admit(mem, c)) /\ Counted(Refuse(mem, i))
  BY <1>1, <1>2, <1>4, CountedOperators
<1>7. CASE EmitAdmitted
  BY <1>3, <1>5, <1>6, <1>7, CountedPublish DEF EmitAdmitted
<1>8. CASE EmitRefused
  BY <1>3, <1>5, <1>6, <1>8, CountedPublish DEF EmitRefused
<1>9. CASE EmitCompacted
  BY <1>3, <1>5, <1>6, <1>9, CountedPublish DEF EmitCompacted
<1>10. CASE EmitOverflow  BY <1>3, <1>10 DEF EmitOverflow
<1>11. CASE EmitDropped  BY <1>3, <1>4, <1>11 DEF EmitDropped, CountInv
<1>12. CASE \/ Start \/ Restore \/ Crash \/ Interrupt
            \/ TickBegin \/ BeginWork \/ TickEnd \/ DrainEnd
  BY <1>3, <1>4, <1>12 DEF Start, Restore, Crash, Interrupt, TickBegin, BeginWork,
     TickEnd, DrainEnd, Stop, CountInv
<1>13. CASE Write
  <2>1. mem.queue # <<>>
    BY <1>13 DEF Write, WriteAccepted, WriteTransient, WriteRejectedAtHead,
           WriteRejectedBehind, WriteIncorrect, Writing
  <2>2. mem.queue \in Seq(Intent) /\ mem.retries \in Nat  BY <1>1, StateFields
  <2>3. h \in Intent  BY <2>1, <2>2
  <2>4. d \in Intent  BY <2>2, <2>3, CompactIsIntent
  <2> HIDE DEF h, d
  <2>5. /\ Counted(Drained(mem)) /\ Counted(ReplaceHead(mem, d))
        /\ Counted([mem EXCEPT !.failed = TRUE])
        /\ Counted([mem EXCEPT !.retries = @ + 1])
    BY <2>4, <1>1, <1>4, CountedOperators
  <2>6. Counted(mem') /\ ckpt' = ckpt
    BY <1>13, <2>5, <1>4 DEF Write, WriteAccepted, WriteTransient, WriteRejectedAtHead,
       WriteRejectedBehind, WriteIncorrect, Unwind, Stop, h, d
  <2>7. QED  BY <2>6, <1>4 DEF CountInv
<1>14. CASE LivenessTrip
  BY <1>1, <1>2, <1>3, <1>4, <1>14, CountedOperators DEF LivenessTrip, CountInv
<1>15. CASE LateCommit  BY <1>3, <1>4, <1>15 DEF LateCommit, CountInv
<1>16. CASE UNCHANGED vars  BY <1>3, <1>4, <1>16 DEF vars, CountInv
<1>17. QED
  BY <1>7, <1>8, <1>9, <1>10, <1>11, <1>12, <1>13, <1>14, <1>15, <1>16 DEF Next, Emit

\* Every checkpoint passes the cross-checks of restore(), unless a compact
\* rejection has met a full queue.
THEOREM CheckpointsRestore == Spec => []RestorableUnlessOverflow
<1>1. Init => CountInv  BY DEF Init, CountInv, Counted, Fresh, HasCheckpoint
<1>2. IInv /\ CountInv => RestorableUnlessOverflow
  BY DEF IInv, CountInv, Counted, Custody, QueueOfHistory, Restorable,
         RestorableUnlessOverflow
<1>3. QED  BY <1>1, <1>2, CountStep, InvariantIInv, PTL DEF Spec

-----------------------------------------------------------------------------
(* The durable lineage.  Refusals do not deliver: custody of a memory whose *)
(* refusals are forgotten says that every admitted intent is queued or       *)
(* durable, and holds until a compact rejection is recorded as admitted and  *)
(* then refused.                                                            *)

Bare(m) == [m EXCEPT !.refusals = <<>>]

\* The predecessor of the record is durable.
Anchored(r) == r.pred = NoIntent \/ \E p \in log : p.id = r.pred

BareInv ==
  ~overflowed =>
    /\ Custody(Bare(mem), log) /\ (HasCheckpoint => Custody(Bare(ckpt), log))
    /\ \A r \in log \cup sent : Anchored(r)

LEMMA BareFields ==
  ASSUME NEW m \in State
  PROVE  /\ Bare(m) \in State /\ Bare(m).intents = m.intents /\ Bare(m).queue = m.queue
         /\ Bare(m).owed = m.owed /\ Bare(m).refusals = <<>>
         /\ Bare(m).retries = m.retries
<1>1. <<>> \in Seq(Intent)  OBVIOUS
<1>2. Bare(m) \in State  BY <1>1 DEF Bare, State
<1>3. Bare(m).refusals = <<>>  BY DEF Bare, State
<1>4. /\ Bare(m).intents = m.intents /\ Bare(m).queue = m.queue
      /\ Bare(m).owed = m.owed /\ Bare(m).retries = m.retries
  BY DEF Bare, State
<1>5. QED  BY <1>2, <1>3, <1>4

\* The operators see and change nothing of the refusals but in Refuse.
LEMMA BareOperators ==
  ASSUME NEW m \in State, NEW D, Custody(Bare(m), D), NEW i \in Intent
  PROVE  /\ i.n = Len(m.intents) + 1 /\ i.pred = LastId(m) => Custody(Bare(Admit(m, i)), D)
         /\ Refuse(m, i) \in State => Custody(Bare(Refuse(m, i)), D)
         /\ Custody(Bare([m EXCEPT !.failed = TRUE]), D)
         /\ Custody(Bare([m EXCEPT !.retries = @ + 1]), D)
         /\ m.queue # <<>> => Custody(Bare(Drained(m)), D \cup {Head(m.queue)})
         /\ /\ m.queue # <<>> /\ IsLineageHead(m, Head(m.queue))
            /\ i.n = Head(m.queue).n /\ i.pred = Head(m.queue).pred
            => Custody(Bare(ReplaceHead(m, i)), D)
<1> DEFINE b == Bare(m)
<1>1. /\ b \in State /\ b.intents = m.intents /\ b.queue = m.queue /\ LastId(b) = LastId(m)
      /\ b.owed = m.owed /\ b.refusals = <<>>
  BY BareFields DEF LastId
<1>2. Bare(Admit(m, i)) = Admit(b, i)  BY DEF Bare, Admit, State
<1>3. Bare([m EXCEPT !.failed = TRUE]) = [b EXCEPT !.failed = TRUE]  BY DEF Bare, State
<1>4. Bare([m EXCEPT !.retries = @ + 1]) = [b EXCEPT !.retries = @ + 1]
  BY DEF Bare, State
<1>5. Bare(Drained(m)) = Drained(b)  BY DEF Bare, Drained, State
<1>6. Bare(ReplaceHead(m, i)) = ReplaceHead(b, i)  BY DEF Bare, ReplaceHead, State
<1>7. ASSUME Refuse(m, i) \in State PROVE Custody(Bare(Refuse(m, i)), D)
  <2> DEFINE r == Refuse(m, i)
  <2>1. r.intents = m.intents /\ r.queue = m.queue /\ r.owed = m.owed
    BY DEF Refuse, State
  <2>2. /\ Bare(r) \in State /\ Bare(r).intents = r.intents /\ Bare(r).queue = r.queue
        /\ Bare(r).owed = r.owed /\ Bare(r).refusals = <<>>
    BY <1>7, BareFields
  <2> HIDE DEF r, b
  <2>3. Custody(Bare(r), D)  BY <1>1, <2>1, <2>2, SameCustody DEF b
  <2>4. QED  BY <2>3 DEF r
<1> HIDE DEF b
<1>8. Custody(b, D)  BY DEF b
<1>9. IsLineageHead(m, Head(m.queue)) => IsLineageHead(b, Head(b.queue))
  BY <1>1 DEF IsLineageHead
<1>10. i.n = Len(m.intents) + 1 /\ i.pred = LastId(m) => Custody(Admit(b, i), D)
  BY <1>1, <1>8, AdmitCustody
<1>11. m.queue # <<>> => Custody(Drained(b), D \cup {Head(m.queue)})
  BY <1>1, <1>8, DrainedCustody
<1>12. /\ m.queue # <<>> /\ IsLineageHead(m, Head(m.queue))
       /\ i.n = Head(m.queue).n /\ i.pred = Head(m.queue).pred
       => Custody(ReplaceHead(b, i), D)
  BY <1>1, <1>8, <1>9, ReplaceCustody
<1>13. /\ Custody([b EXCEPT !.failed = TRUE], D) /\ Custody([b EXCEPT !.retries = @ + 1], D)
  BY <1>8, HoldCustody, RetryCustody
<1>14. QED
  BY <1>2, <1>3, <1>4, <1>5, <1>6, <1>7, <1>10, <1>11, <1>12, <1>13

\* The head of the queue is the oldest undelivered intent, so the intent before
\* it in the chain is durable.
LEMMA HeadAnchored ==
  ASSUME NEW m \in State, Custody(Bare(m), log), m.queue # <<>>
  PROVE  Anchored(Head(m.queue))
<1> DEFINE h == m.queue[1]
<1>1. /\ m.intents \in Seq(Intent) /\ m.queue \in Seq(Intent)
      /\ Len(m.queue) \in Nat \ {0} /\ Len(m.intents) \in Nat /\ Head(m.queue) = h
  BY StateFields
<1>2. Linked(m) /\ QueueOfHistory(m)
  BY BareFields DEF Custody, Linked, QueueOfHistory
<1>3. \A k \in 1 .. Len(m.intents) :
        (\E j \in 1 .. Len(m.queue) : m.queue[j] = m.intents[k]) \/ m.intents[k] \in log
  BY BareFields DEF Custody, NothingLost, Kept
<1>4. 1 \in 1 .. Len(m.queue)  BY <1>1
<1>5. h.n \in 1 .. Len(m.intents) /\ h = m.intents[h.n]
  BY <1>2, <1>4 DEF QueueOfHistory
<1>6. CASE h.n = 1  BY <1>1, <1>2, <1>5, <1>6 DEF Linked, Anchored
<1>7. CASE h.n # 1
  <2> DEFINE k == h.n - 1
  <2>1. k \in 1 .. Len(m.intents) /\ k < h.n  BY <1>1, <1>5, <1>7
  <2>2. h.pred = m.intents[k].id  BY <1>2, <1>5, <1>7 DEF Linked
  <2>3. m.intents[k].n = k  BY <1>2, <2>1 DEF Linked
  <2>4. ASSUME NEW j \in 1 .. Len(m.queue) PROVE m.queue[j] # m.intents[k]
    <3>1. CASE j = 1  BY <3>1, <2>1, <2>3
    <3>2. CASE j # 1
      <4>1. h.n < m.queue[j].n  BY <1>1, <1>2, <1>4, <3>2 DEF QueueOfHistory
      <4>2. m.queue[j].n \in 1 .. Len(m.intents)  BY <1>2 DEF QueueOfHistory
      <4>3. QED  BY <4>1, <4>2, <2>1, <2>3, <1>5
    <3>3. QED  BY <3>1, <3>2
  <2>5. m.intents[k] \in log  BY <1>3, <2>1, <2>4
  <2>6. QED  BY <1>1, <2>2, <2>5 DEF Anchored
<1>8. QED  BY <1>6, <1>7

LEMMA BareStep == IInv /\ BareInv /\ [Next]_vars => BareInv'
<1> SUFFICES ASSUME IInv, BareInv, [Next]_vars, ~overflowed' PROVE BareInv'
  BY DEF BareInv
<1> USE DEF HasCheckpoint
<1> DEFINE i == BuildIntent(mem)
           c == CompactRejection(i, 0)
           h == Head(mem.queue)
           d == CompactRejection(h, mem.retries)
<1>1. mem \in State /\ emitted \in Nat /\ log \subseteq Intent  BY DEF IInv, Custody, Kinds, Records
<1>2. /\ i \in Intent /\ i.n = Len(mem.intents) + 1 /\ i.pred = LastId(mem)
      /\ c \in Intent /\ c.n = Len(mem.intents) + 1 /\ c.pred = LastId(mem)
  BY <1>1, BuildIsIntent, CompactIsIntent
<1>3. overflowed' = overflowed /\ ~overflowed
  BY DEF vars, Next, Start, Restore, Crash, Interrupt, TickBegin, BeginWork, TickEnd,
         DrainEnd, Emit, EmitDropped, EmitAdmitted, EmitRefused, EmitCompacted,
         EmitOverflow, Write, WriteAccepted, WriteTransient, WriteRejectedAtHead,
         WriteRejectedBehind, WriteIncorrect, LivenessTrip, LateCommit
<1>4. /\ Custody(Bare(mem), log) /\ (HasCheckpoint => Custody(Bare(ckpt), log))
      /\ \A r \in log \cup sent : Anchored(r)
  BY <1>3 DEF BareInv
<1>5. Custody(Bare(Fresh), log)
  <2>1. Bare(Fresh) = Fresh  BY DEF Bare, Fresh
  <2>2. QED  BY <2>1, FreshCustody
<1> HIDE DEF i, c
\* As the log grows by the head, what was anchored and delivered stays so.
<1>6. ASSUME log \subseteq log', log' \cup sent' \subseteq log \cup sent \cup {h},
             log' \cup sent' = log \cup sent \/ mem.queue # <<>>
      PROVE  /\ \A r \in log' \cup sent' : Anchored(r)'
             /\ Custody(Bare(mem), log')
             /\ HasCheckpoint => Custody(Bare(ckpt), log')
  <2>1. \A r \in log' \cup sent' : Anchored(r)
    BY <1>1, <1>4, <1>6, HeadAnchored
  <2>2. QED  BY <2>1, <1>4, <1>6, CustodyMonotone DEF Anchored
<1>7. CASE EmitAdmitted \/ EmitRefused \/ EmitCompacted
  <2>1. PICK m \in {Admit(mem, i), Admit(mem, c), Refuse(mem, i)} : Publish(m)
    BY <1>7 DEF EmitAdmitted, EmitRefused, EmitCompacted, i, c
  <2>2. Admit(mem, i) \in State /\ Admit(mem, c) \in State /\ Refuse(mem, i) \in State
    BY <1>1, <1>2, AdmitCustody, RefuseCustody DEF IInv, Custody
  <2>3. m \in State /\ Custody(Bare(m), log)
    BY <2>1, <2>2, <1>1, <1>2, <1>4, BareOperators
  <2>4. Custody(Bare([m EXCEPT !.failed = TRUE]), log)
    BY <2>3, <1>2, BareOperators
  <2>5. Custody(Bare(mem'), log) /\ (ckpt' = ckpt \/ ckpt' = mem')
    BY <2>1, <2>3, <2>4 DEF Publish
  <2>6. log' = log /\ sent' = sent
    BY <1>7 DEF EmitAdmitted, EmitRefused, EmitCompacted
  <2>7. QED  BY <2>5, <2>6, <1>4 DEF BareInv, Anchored
<1>8. CASE EmitOverflow  BY <1>3, <1>8 DEF EmitOverflow
<1>9. CASE EmitDropped  BY <1>4, <1>9 DEF EmitDropped, BareInv, Anchored
<1>10. CASE \/ Start \/ Restore \/ Crash \/ Interrupt
            \/ TickBegin \/ BeginWork \/ TickEnd \/ DrainEnd
  <2>1. /\ log' = log /\ sent' = sent
        /\ mem' \in {mem, Fresh} \/ (HasCheckpoint /\ mem' = ckpt)
        /\ ckpt' \in {ckpt, mem, Fresh}
    BY <1>10 DEF Start, Restore, Crash, Interrupt, TickBegin, BeginWork, TickEnd,
       DrainEnd, Stop
  <2>2. Custody(Bare(mem'), log) /\ (HasCheckpoint' => Custody(Bare(ckpt'), log))
    BY <2>1, <1>4, <1>5
  <2>3. QED  BY <2>1, <2>2, <1>4 DEF BareInv, Anchored
<1>11. CASE Write
  <2>1. mem.queue # <<>>
    BY <1>11 DEF Write, WriteAccepted, WriteTransient, WriteRejectedAtHead,
           WriteRejectedBehind, WriteIncorrect, Writing
  <2>2. mem.queue \in Seq(Intent) /\ mem.retries \in Nat  BY <1>1, StateFields
  <2>3. h \in Intent  BY <2>1, <2>2
  <2>4. d \in Intent /\ d.n = h.n /\ d.pred = h.pred  BY <2>2, <2>3, CompactIsIntent
  <2>5. /\ log \subseteq log' /\ log' \cup sent' \subseteq log \cup sent \cup {h}
        /\ ckpt' = ckpt
    BY <1>11 DEF Write, WriteAccepted, WriteTransient, WriteRejectedAtHead,
       WriteRejectedBehind, WriteIncorrect, UncertainCommit
  <2>6. /\ \A r \in log' \cup sent' : Anchored(r)'
        /\ Custody(Bare(mem), log')
        /\ HasCheckpoint => Custody(Bare(ckpt), log')
    BY <1>6, <2>1, <2>5
  <2>7. \/ mem' \in {mem, Fresh, [mem EXCEPT !.failed = TRUE], [mem EXCEPT !.retries = @ + 1]}
        \/ mem' = Drained(mem) /\ log' = log \cup {h}
        \/ mem' = ReplaceHead(mem, d) /\ IsLineageHead(mem, h)
    BY <1>11 DEF Write, WriteAccepted, WriteTransient, WriteRejectedAtHead,
       WriteRejectedBehind, WriteIncorrect, Unwind, Stop
  <2> HIDE DEF d
  <2>8. /\ Custody(Bare([mem EXCEPT !.failed = TRUE]), log')
        /\ Custody(Bare([mem EXCEPT !.retries = @ + 1]), log')
        /\ Custody(Bare(Drained(mem)), log \cup {h})
        /\ IsLineageHead(mem, h) => Custody(Bare(ReplaceHead(mem, d)), log')
    BY <1>1, <1>4, <2>1, <2>4, <2>6, BareOperators
  <2>9. Custody(Bare(mem'), log')
    BY <2>6, <2>7, <2>8, <1>5, CustodyMonotone, <2>5
  <2>10. QED  BY <2>5, <2>6, <2>9 DEF BareInv
<1>12. CASE LivenessTrip
  <2>1. Custody(Bare([mem EXCEPT !.failed = TRUE]), log)
    BY <1>1, <1>2, <1>4, BareOperators
  <2>2. QED  BY <2>1, <1>4, <1>12 DEF LivenessTrip, BareInv, Anchored
<1>13. CASE LateCommit
  <2>1. /\ log \subseteq log' /\ log' \cup sent' = log \cup sent
        /\ mem' = mem /\ ckpt' = ckpt
    BY <1>13 DEF LateCommit
  <2>2. QED  BY <2>1, <1>6 DEF BareInv
<1>14. CASE UNCHANGED vars  BY <1>3, <1>4, <1>14 DEF vars, BareInv, Anchored
<1>15. QED
  BY <1>7, <1>8, <1>9, <1>10, <1>11, <1>12, <1>13, <1>14 DEF Next, Emit

\* Every durable record's predecessor is durable, for every capacity and with
\* every crash, lost answer and rejection, until a compact rejection overflows.
THEOREM LineageIsDurable == Spec => []DurableLineage
<1>1. Init => BareInv
  <2>1. Bare(Fresh) = Fresh  BY DEF Bare, Fresh
  <2>2. QED  BY <2>1, FreshCustody DEF Init, BareInv, HasCheckpoint
<1>2. BareInv => DurableLineage  BY DEF BareInv, Anchored, DurableLineage
<1>3. QED  BY <1>1, <1>2, BareStep, InvariantIInv, PTL DEF Spec

-----------------------------------------------------------------------------
(* One record per sequence.  With a research producer attached the file has *)
(* every intent before the writer can be given it, and when the writer       *)
(* rejects nothing no intent is ever rewritten.                             *)

SavedFirst == CheckpointEachIntent /\ ~WriterRejects

OnFile(i, c) == i.n \in 1 .. Len(c.intents) /\ c.intents[i.n] = i

Extends(m, c) ==
  /\ Len(c.intents) <= Len(m.intents)
  /\ \A k \in 1 .. Len(c.intents) : m.intents[k] = c.intents[k]

\* What is durable, in flight or queued is in the file, whose history the
\* memory only extends.
FileInv ==
  /\ \A r \in log \cup sent : HasCheckpoint /\ OnFile(r, ckpt)
  /\ phase # "Down" =>
       /\ HasCheckpoint /\ Extends(mem, ckpt)
       /\ \A k \in 1 .. Len(mem.queue) : OnFile(mem.queue[k], ckpt)

\* A longer history has what the shorter one has.
LEMMA OnFileExtends ==
  ASSUME NEW m \in State, NEW c \in State, Extends(m, c), NEW i, OnFile(i, c)
  PROVE  OnFile(i, m)
<1>1. Len(c.intents) \in Nat /\ Len(m.intents) \in Nat  BY StateFields
<1>2. QED  BY <1>1 DEF OnFile, Extends

\* A save of a memory that extends the file.
LEMMA FileSaved ==
  ASSUME FileInv, ckpt \in State \cup {NoCheckpoint}, NEW m \in State, QueueOfHistory(m),
         HasCheckpoint => Extends(m, ckpt), ckpt' = m, mem' = m \/ phase' = "Down",
         log' \cup sent' \subseteq log \cup sent
  PROVE  FileInv'
<1>1. HasCheckpoint'  BY NoCheckpointAssumption DEF HasCheckpoint
<1>2. ASSUME NEW r \in log \cup sent PROVE OnFile(r, m)
  BY <1>2, OnFileExtends DEF FileInv, HasCheckpoint
<1>3. \A k \in 1 .. Len(m.queue) : OnFile(m.queue[k], m)
  BY DEF QueueOfHistory, OnFile
<1>4. Extends(m, m)
  <2>1. Len(m.intents) \in Nat  BY StateFields
  <2>2. QED  BY <2>1 DEF Extends
<1>5. QED  BY <1>1, <1>2, <1>3, <1>4 DEF FileInv

\* The file stays; the memory keeps its history and loses queue at most.
LEMMA FileLeft ==
  ASSUME FileInv, ckpt' = ckpt,
         log' \cup sent' \subseteq log \cup sent \cup
           {mem.queue[k] : k \in {j \in 1 .. Len(mem.queue) : phase # "Down"}},
         \/ phase' = "Down"
         \/ /\ phase # "Down" /\ mem'.intents = mem.intents
            /\ \A k \in 1 .. Len(mem'.queue) :
                 \E j \in 1 .. Len(mem.queue) : mem'.queue[k] = mem.queue[j]
  PROVE  FileInv'
<1>1. HasCheckpoint' = HasCheckpoint  BY DEF HasCheckpoint
<1>2. \A r \in log' \cup sent' : HasCheckpoint /\ OnFile(r, ckpt)
  BY DEF FileInv
<1>3. ASSUME phase' # "Down"
      PROVE  /\ HasCheckpoint /\ Extends(mem', ckpt)
             /\ \A k \in 1 .. Len(mem'.queue) : OnFile(mem'.queue[k], ckpt)
  BY <1>3 DEF FileInv, Extends
<1>4. QED  BY <1>1, <1>2, <1>3 DEF FileInv

LEMMA AdmitExtends ==
  ASSUME NEW m \in State, NEW i \in Intent
  PROVE  /\ Extends(Admit(m, i), m) /\ Extends(Refuse(m, i), m) /\ Extends(m, m)
         /\ Extends(Overflow(m, i), m)
<1>1. m.intents \in Seq(Intent) /\ Len(m.intents) \in Nat  BY StateFields
<1>2. Admit(m, i).intents = Append(m.intents, i)  BY DEF Admit, State
<1>3. Overflow(m, i).intents = Append(m.intents, i)  BY DEF Overflow, State
<1>4. Refuse(m, i).intents = m.intents  BY DEF Refuse, State
<1>5. /\ Len(Append(m.intents, i)) = Len(m.intents) + 1
      /\ \A k \in 1 .. Len(m.intents) : Append(m.intents, i)[k] = m.intents[k]
  BY <1>1
<1>6. QED  BY <1>1, <1>2, <1>3, <1>4, <1>5 DEF Extends

LEMMA ExtendsTransitive ==
  ASSUME NEW a \in State, NEW b \in State, NEW c \in State, Extends(a, b), Extends(b, c)
  PROVE  Extends(a, c)
<1>1. Len(a.intents) \in Nat /\ Len(b.intents) \in Nat /\ Len(c.intents) \in Nat
  BY StateFields
<1>2. QED  BY <1>1 DEF Extends

LEMMA FileStep ==
  ASSUME SavedFirst
  PROVE  IInv /\ FileInv /\ [Next]_vars => FileInv'
<1> SUFFICES ASSUME IInv, FileInv, [Next]_vars PROVE FileInv'  OBVIOUS
<1> DEFINE i == BuildIntent(mem)
           c == CompactRejection(i, 0)
<1>0. /\ mem \in State /\ ckpt \in State \cup {NoCheckpoint} /\ QueueOfHistory(mem)
      /\ emitted \in Nat /\ Custody(mem, log)
      /\ HasCheckpoint => ckpt \in State /\ QueueOfHistory(ckpt)
  BY DEF IInv, Custody, Kinds
<1>1. /\ i \in Intent /\ i.n = Len(mem.intents) + 1 /\ i.pred = LastId(mem)
      /\ c \in Intent /\ c.n = Len(mem.intents) + 1 /\ c.pred = LastId(mem)
  BY <1>0, BuildIsIntent, CompactIsIntent
<1>2. phase # "Down" => HasCheckpoint /\ Extends(mem, ckpt)  BY DEF FileInv
<1> HIDE DEF i, c
<1>3. CASE Start
  <2>1. log' \cup sent' = {} /\ ckpt' = Fresh /\ mem' = Fresh
    BY <1>3 DEF Start, FileInv
  <2>2. Fresh \in State /\ QueueOfHistory(Fresh)  BY FreshCustody DEF Custody
  <2>3. ~HasCheckpoint  BY <1>3 DEF Start
  <2>4. QED  BY <1>0, <2>1, <2>2, <2>3, FileSaved
<1>4. CASE Restore
  <2>1. HasCheckpoint /\ Extends(ckpt, ckpt)
    BY <1>0, <1>1, <1>4, AdmitExtends DEF Restore
  <2>2. ckpt' = ckpt /\ mem' = ckpt /\ log' = log /\ sent' = sent
    BY <1>4 DEF Restore
  <2>3. QED  BY <1>0, <2>1, <2>2, FileSaved
<1>5. CASE Crash \/ Interrupt \/ TickBegin \/ BeginWork
  <2>1. /\ ckpt' = ckpt /\ log' = log /\ sent' = sent
        /\ phase' = "Down" \/ (phase # "Down" /\ mem' = mem)
    BY <1>5 DEF Crash, Interrupt, TickBegin, BeginWork, Stop
  <2>2. QED  BY <2>1, FileLeft
<1>6. CASE TickEnd \/ DrainEnd
  <2>1. /\ phase # "Down" /\ ckpt' = mem /\ log' = log /\ sent' = sent
        /\ mem' = mem \/ phase' = "Down"
    BY <1>6 DEF TickEnd, DrainEnd, Stop
  <2>2. QED  BY <1>0, <1>2, <2>1, FileSaved
<1>7. CASE EmitDropped
  <2>1. /\ phase # "Down" /\ ckpt' = mem /\ mem' = mem /\ log' = log /\ sent' = sent
    BY <1>7 DEF EmitDropped, Emitting, SavedFirst
  <2>2. QED  BY <1>0, <1>2, <2>1, FileSaved
<1>8. CASE EmitAdmitted \/ EmitRefused \/ EmitCompacted
  <2>1. PICK m \in {Admit(mem, i), Admit(mem, c), Refuse(mem, i)} : Publish(m)
    BY <1>8 DEF EmitAdmitted, EmitRefused, EmitCompacted, i, c
  <2>2. Custody(m, log) /\ Extends(m, mem)
    BY <1>0, <1>1, <2>1, AdmitCustody, RefuseCustody, AdmitExtends
  <2>3. Custody([m EXCEPT !.failed = TRUE], log)  BY <2>2, HoldCustody
  <2>4. m \in State  BY <2>2 DEF Custody
  <2>5. Extends([m EXCEPT !.failed = TRUE], mem)
    BY <2>2, <2>4 DEF Extends, State
  <2>6. Custody(mem', log) /\ Extends(mem', mem) /\ ckpt' = mem'
    BY <2>1, <2>2, <2>3, <2>5 DEF Publish, SavedFirst
  <2>7. phase # "Down" /\ log' = log /\ sent' = sent
    BY <1>8 DEF EmitAdmitted, EmitRefused, EmitCompacted, Emitting
  <2>8. mem' \in State /\ QueueOfHistory(mem')  BY <2>6 DEF Custody
  <2>9. Extends(mem', ckpt)
    BY <1>0, <1>2, <2>6, <2>7, <2>8, ExtendsTransitive
  <2>10. QED  BY <1>0, <2>6, <2>7, <2>8, <2>9, FileSaved
<1>9. CASE EmitOverflow
  <2> DEFINE o == Overflow(mem, c)
  <2>1. /\ phase # "Down" /\ ckpt' = ckpt /\ log' = log /\ sent' = sent
        /\ phase' = "Down" \/ mem' = o
    BY <1>9 DEF EmitOverflow, Emitting, Unwind, Stop, i, c
  <2>2. o.queue = mem.queue  BY <1>0 DEF Overflow, State
  <2>3. Custody(o, log)  BY <1>0, <1>1, OverflowCustody
  <2>4. Extends(o, mem) /\ o \in State  BY <1>0, <1>1, <2>3, AdmitExtends DEF Custody
  <2> HIDE DEF o
  <2>5. Extends(o, ckpt)  BY <1>0, <1>2, <2>1, <2>4, ExtendsTransitive
  <2>6. QED  BY <2>1, <2>2, <2>5 DEF FileInv, HasCheckpoint
<1>10. CASE Write
  <2>1. /\ ~WriteRejectedAtHead /\ ~WriteRejectedBehind
    BY DEF WriteRejectedAtHead, WriteRejectedBehind, SavedFirst
  <2>2. Writing /\ phase # "Down" /\ mem.queue # <<>>
    BY <1>10, <2>1 DEF Write, WriteAccepted, WriteTransient, WriteIncorrect, Writing
  <2>3. mem.queue \in Seq(Intent) /\ Len(mem.queue) \in Nat \ {0}
    BY <1>0, <2>2, StateFields
  <2>4. Head(mem.queue) = mem.queue[1] /\ 1 \in 1 .. Len(mem.queue)  BY <2>3
  <2>5. /\ ckpt' = ckpt
        /\ log' \cup sent' \subseteq log \cup sent \cup {Head(mem.queue)}
        /\ mem' \in {Drained(mem), [mem EXCEPT !.failed = TRUE], [mem EXCEPT !.retries = @ + 1]}
    BY <1>10, <2>1 DEF Write, WriteAccepted, WriteTransient, WriteIncorrect, UncertainCommit
  <2>6. mem'.intents = mem.intents /\ mem'.queue \in {mem.queue, Tail(mem.queue)}
    BY <1>0, <2>5 DEF Drained, State
  <2>7. ASSUME NEW k \in 1 .. Len(mem'.queue)
        PROVE  \E j \in 1 .. Len(mem.queue) : mem'.queue[k] = mem.queue[j]
    <3>1. CASE mem'.queue = mem.queue  BY <3>1
    <3>2. CASE mem'.queue = Tail(mem.queue)
      <4>1. k + 1 \in 1 .. Len(mem.queue) /\ Tail(mem.queue)[k] = mem.queue[k + 1]
        BY <2>3, <3>2
      <4>2. QED  BY <3>2, <4>1
    <3>3. QED  BY <2>6, <3>1, <3>2
  <2>8. QED  BY <2>2, <2>4, <2>5, <2>6, <2>7, FileLeft
<1>11. CASE LivenessTrip
  <2>1. /\ phase # "Down" /\ ckpt' = ckpt /\ log' = log /\ sent' = sent
        /\ mem' = [mem EXCEPT !.failed = TRUE]
    BY <1>11 DEF LivenessTrip
  <2>2. mem'.intents = mem.intents /\ mem'.queue = mem.queue  BY <1>0, <2>1 DEF State
  <2>3. QED  BY <2>1, <2>2, FileLeft
<1>12. CASE LateCommit
  <2>1. log' \cup sent' = log \cup sent /\ UNCHANGED <<phase, mem, ckpt>>
    BY <1>12 DEF LateCommit
  <2>2. QED  BY <2>1 DEF FileInv, HasCheckpoint
<1>13. CASE UNCHANGED vars  BY <1>13 DEF vars, FileInv, HasCheckpoint
<1>14. QED
  BY <1>3, <1>4, <1>5, <1>6, <1>7, <1>8, <1>9, <1>10, <1>11, <1>12, <1>13
     DEF Next, Emit

\* With a research producer attached and a writer that rejects nothing for good,
\* no restart reuses the sequence of a durable record.  Without the producer's
\* saves the statement is false.
THEOREM OneRecord ==
  ASSUME SavedFirst
  PROVE  Spec => []OneRecordPerSequence
<1>1. Init => FileInv  BY DEF Init, FileInv
<1>2. FileInv => OneRecordPerSequence  BY DEF FileInv, OnFile, OneRecordPerSequence
<1>3. IInv /\ FileInv /\ [Next]_vars => FileInv'  BY FileStep
<1>4. QED  BY <1>1, <1>2, <1>3, InvariantIInv, PTL DEF Spec
=============================================================================
