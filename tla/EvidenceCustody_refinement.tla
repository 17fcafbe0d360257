--------------------- MODULE EvidenceCustody_refinement ---------------------
(***************************************************************************)
(* The checkpoints of EvidenceCustody implement Outbox, for every capacity,*)
(* every bound and both deployments.                                       *)
(*                                                                         *)
(* The argument looks at a copy of the evidence state (the memory or the   *)
(* file) through four values: the contents of its history, the positions   *)
(* its queue waits for, the contents it refused, and its length.  Fine says*)
(* what such a copy satisfies, Descends how the memory of a running process*)
(* relates to the file it was restored from.  The first part is about these*)
(* values alone; the second shows what each operator of the model does to  *)
(* them; the third goes through the actions.                               *)
(***************************************************************************)
EXTENDS EvidenceCustody_proofs

-----------------------------------------------------------------------------
(* Histories, waiting positions and refusals.                               *)

\* A copy with n recorded contents H, of which the positions W wait, and the
\* refusals R, when D is durable, S was given to the writer and e is the newest
\* content.
Fine(n, H, W, R, D, S, e) ==
  /\ n \in Nat /\ e \in Nat
  /\ \A p \in 1 .. n : H[p] \in 1 .. e
  /\ W \subseteq 1 .. n /\ R \subseteq 1 .. e /\ S \subseteq 1 .. e /\ D \subseteq S
  /\ \A p, q \in 1 .. n : q < p => H[q] < H[p]
  /\ \A p \in 1 .. n : p \in W \/ H[p] \in D \cup R
  /\ R \cap S = {}
  /\ \A p \in W : H[p] \notin R
  /\ \A p, q \in 1 .. n : q < p /\ H[p] \in S => H[q] \in D \cup R

\* A copy (n, H, W, R) that a process made of the file (c, G, V, Q).
Descent(n, H, W, R, c, G, V, Q) ==
  /\ c \in Nat /\ n \in Nat /\ c <= n /\ \A p \in 1 .. c : H[p] = G[p]
  /\ W \cap (1 .. c) \subseteq V
  /\ Q \subseteq R
  /\ \A p \in V : G[p] \notin R

LEMMA FineNewer ==
  ASSUME NEW n, NEW H, NEW W, NEW R, NEW D, NEW S, NEW e, Fine(n, H, W, R, D, S, e)
  PROVE  Fine(n, H, W, R, D, S, e + 1)
BY DEF Fine

\* A new content is recorded: it waits, or it is refused at once.
LEMMA FineAdmitted ==
  ASSUME NEW n, NEW H, NEW W, NEW R, NEW D, NEW S, NEW e, Fine(n, H, W, R, D, S, e),
         NEW G, \A p \in 1 .. n : G[p] = H[p], G[n + 1] = e + 1
  PROVE  /\ Fine(n + 1, G, W \cup {n + 1}, R, D, S, e + 1)
         /\ Fine(n + 1, G, W, R \cup {e + 1}, D, S, e + 1)
<1>1. /\ n \in Nat /\ e \in Nat
      /\ \A p \in 1 .. n + 1 : p \in 1 .. n \/ p = n + 1
      /\ \A p \in 1 .. n : p \in 1 .. n + 1 /\ p # n + 1
      /\ n + 1 \in 1 .. n + 1 /\ \A x \in 1 .. e : x \in 1 .. e + 1 /\ x # e + 1 /\ x < e + 1
      /\ e + 1 \in 1 .. e + 1
  BY DEF Fine
<1>2. /\ \A p \in 1 .. n + 1 : G[p] \in 1 .. e + 1
      /\ \A p, q \in 1 .. n + 1 : q < p => q \in 1 .. n /\ G[q] < G[p]
  BY <1>1 DEF Fine
<1>3. \A p \in 1 .. n + 1 : G[p] \in S => p \in 1 .. n
  BY <1>1 DEF Fine
<1>4. \A p, q \in 1 .. n + 1 : q < p /\ G[p] \in S => G[q] \in D \cup R
  BY <1>2, <1>3 DEF Fine
<1>5. Fine(n + 1, G, W \cup {n + 1}, R, D, S, e + 1)
  <2>1. \A p \in 1 .. n + 1 : p \in W \cup {n + 1} \/ G[p] \in D \cup R
    BY <1>1 DEF Fine
  <2>2. \A p \in W \cup {n + 1} : G[p] \notin R
    BY <1>1 DEF Fine
  <2>3. /\ W \cup {n + 1} \subseteq 1 .. n + 1 /\ R \subseteq 1 .. e + 1 /\ S \subseteq 1 .. e + 1
        /\ D \subseteq S /\ R \cap S = {}
    BY <1>1 DEF Fine
  <2>4. QED  BY <1>1, <1>2, <1>4, <2>1, <2>2, <2>3 DEF Fine
<1>6. Fine(n + 1, G, W, R \cup {e + 1}, D, S, e + 1)
  <2>1. \A p \in 1 .. n + 1 : p \in W \/ G[p] \in D \cup (R \cup {e + 1})
    BY <1>1 DEF Fine
  <2>2. \A p \in W : G[p] \notin R \cup {e + 1}
    BY <1>1 DEF Fine
  <2>3. /\ W \subseteq 1 .. n + 1 /\ R \cup {e + 1} \subseteq 1 .. e + 1
        /\ S \subseteq 1 .. e + 1 /\ D \subseteq S /\ (R \cup {e + 1}) \cap S = {}
    BY <1>1 DEF Fine
  <2>4. QED  BY <1>1, <1>2, <1>4, <2>1, <2>2, <2>3 DEF Fine
<1>7. QED  BY <1>5, <1>6

LEMMA FineRefused ==
  ASSUME NEW n, NEW H, NEW W, NEW R, NEW D, NEW S, NEW e, Fine(n, H, W, R, D, S, e)
  PROVE  Fine(n, H, W, R \cup {e + 1}, D, S, e + 1)
<1>1. \A x \in 1 .. e : x \in 1 .. e + 1 /\ x # e + 1  BY DEF Fine
<1>2. e + 1 \in 1 .. e + 1 /\ e + 1 \in Nat  BY DEF Fine
<1>3. QED  BY <1>1, <1>2 DEF Fine

\* The oldest waiting content is given to the writer and may be durable then;
\* when it is, it waits no longer.
LEMMA FineOffered ==
  ASSUME NEW n, NEW H, NEW W, NEW R, NEW D, NEW S, NEW e, Fine(n, H, W, R, D, S, e),
         NEW h \in W, \A q \in W : h <= q,
         NEW E, D \subseteq E, E \subseteq D \cup {H[h]},
         NEW T, T = S \cup {H[h]}
  PROVE  /\ Fine(n, H, W, R, E, T, e)
         /\ H[h] \in E => Fine(n, H, W \ {h}, R, E, T, e)
<1>1. h \in 1 .. n /\ H[h] \in 1 .. e /\ H[h] \notin R /\ n \in Nat  BY DEF Fine
<1>2. \A q \in 1 .. n : q < h => H[q] \in D \cup R
  <2> SUFFICES ASSUME NEW q \in 1 .. n, q < h PROVE q \notin W  BY DEF Fine
  <2> QED BY <1>1
<1>3. \A p \in 1 .. n : H[p] = H[h] => p = h
  <2> SUFFICES ASSUME NEW p \in 1 .. n, H[p] = H[h], p # h PROVE FALSE  OBVIOUS
  <2>1. p < h \/ h < p  BY <1>1
  <2>2. H[p] < H[h] \/ H[h] < H[p]  BY <1>1, <2>1 DEF Fine
  <2>3. QED  BY <1>1, <2>2
<1>4. \A p, q \in 1 .. n : q < p /\ H[p] \in T => H[q] \in E \cup R
  BY <1>2, <1>3 DEF Fine
<1>5. T \subseteq 1 .. e /\ E \subseteq T /\ R \cap T = {}  BY <1>1 DEF Fine
<1>6. Fine(n, H, W, R, E, T, e)  BY <1>4, <1>5 DEF Fine
<1>7. H[h] \in E => Fine(n, H, W \ {h}, R, E, T, e)  BY <1>4, <1>5 DEF Fine
<1>8. QED  BY <1>6, <1>7

\* The file sees the same, although it lags behind.
LEMMA FineOfferedBehind ==
  ASSUME NEW n, NEW H, NEW W, NEW R, NEW D, NEW S, NEW e, Fine(n, H, W, R, D, S, e),
         NEW c, NEW G, NEW V, NEW Q, Fine(c, G, V, Q, D, S, e),
         Descent(n, H, W, R, c, G, V, Q),
         NEW h \in W, \A q \in W : h <= q,
         NEW E, D \subseteq E, E \subseteq D \cup {H[h]},
         NEW T, T = S \cup {H[h]}
  PROVE  Fine(c, G, V, Q, E, T, e)
<1>1. /\ h \in 1 .. n /\ H[h] \in 1 .. e /\ H[h] \notin R /\ n \in Nat /\ c \in Nat
      /\ c <= n /\ \A p \in 1 .. c : p \in 1 .. n /\ H[p] = G[p]
  BY DEF Fine, Descent
<1>2. \A q \in 1 .. n : q < h => H[q] \in D \cup R
  <2> SUFFICES ASSUME NEW q \in 1 .. n, q < h PROVE q \notin W  BY DEF Fine
  <2> QED BY <1>1
<1>3. \A q \in 1 .. c : q < h => G[q] \in D \cup Q
  <2> SUFFICES ASSUME NEW q \in 1 .. c, q < h PROVE G[q] \in D \cup Q  OBVIOUS
  <2>1. G[q] \in D \cup R  BY <1>1, <1>2
  <2>2. q \in V => G[q] \notin R  BY DEF Descent
  <2>3. QED  BY <2>1, <2>2 DEF Fine
<1>4. \A p \in 1 .. c : G[p] = H[h] => p = h
  <2> SUFFICES ASSUME NEW p \in 1 .. c, G[p] = H[h], p # h PROVE FALSE  OBVIOUS
  <2>1. p \in 1 .. n /\ H[p] = H[h] /\ (p < h \/ h < p)  BY <1>1
  <2>2. H[p] < H[h] \/ H[h] < H[p]  BY <1>1, <2>1 DEF Fine
  <2>3. QED  BY <1>1, <2>1, <2>2
<1>5. \A p, q \in 1 .. c : q < p /\ G[p] \in T => G[q] \in E \cup Q
  BY <1>3, <1>4 DEF Fine
<1>6. T \subseteq 1 .. e /\ E \subseteq T  BY <1>1 DEF Fine
<1>7. R \cap T = {}
  <2>1. R \cap S = {}  BY ONLY Fine(n, H, W, R, D, S, e) DEF Fine
  <2>2. QED  BY <1>1, <2>1
<1>8. Q \cap T = {}  BY <1>7 DEF Descent
<1>9. QED  BY <1>5, <1>6, <1>8 DEF Fine

\* What was given to the writer becomes durable late.
LEMMA FineLate ==
  ASSUME NEW n, NEW H, NEW W, NEW R, NEW D, NEW S, NEW e, Fine(n, H, W, R, D, S, e),
         NEW E, D \subseteq E, E \subseteq S
  PROVE  Fine(n, H, W, R, E, S, e)
BY DEF Fine

LEMMA DescentSelf ==
  ASSUME NEW n, NEW H, NEW W, NEW R, NEW D, NEW S, NEW e, Fine(n, H, W, R, D, S, e)
  PROVE  Descent(n, H, W, R, n, H, W, R)
BY DEF Fine, Descent

\* The process records or refuses the next content.
LEMMA DescentEmitted ==
  ASSUME NEW n, NEW H, NEW W, NEW R, NEW c, NEW G, NEW V, NEW Q, NEW D, NEW S, NEW e,
         Fine(c, G, V, Q, D, S, e), Descent(n, H, W, R, c, G, V, Q),
         NEW J, \A p \in 1 .. n : J[p] = H[p]
  PROVE  /\ Descent(n + 1, J, W \cup {n + 1}, R, c, G, V, Q)
         /\ Descent(n + 1, J, W, R \cup {e + 1}, c, G, V, Q)
         /\ Descent(n, H, W, R \cup {e + 1}, c, G, V, Q)
<1>1. /\ n \in Nat /\ c \in Nat /\ c <= n /\ c <= n + 1 /\ n + 1 \in Nat /\ n + 1 \notin 1 .. c
      /\ \A p \in 1 .. c : p \in 1 .. n
  BY DEF Descent
<1>2. \A p \in V : G[p] # e + 1
  <2> SUFFICES ASSUME NEW p \in V PROVE G[p] \in 1 .. e /\ e \in Nat  OBVIOUS
  <2> QED BY DEF Fine
<1>3. \A p \in 1 .. c : J[p] = G[p]  BY <1>1 DEF Descent
<1>4. QED  BY <1>1, <1>2, <1>3 DEF Descent

LEMMA DescentDrained ==
  ASSUME NEW n, NEW H, NEW W, NEW R, NEW c, NEW G, NEW V, NEW Q,
         Descent(n, H, W, R, c, G, V, Q), NEW h
  PROVE  Descent(n, H, W \ {h}, R, c, G, V, Q)
BY DEF Descent

-----------------------------------------------------------------------------
(* The views of a copy, and what each operator of the model does to them.   *)

Hist(m) == [k \in 1 .. Len(m.intents) |-> Content(m.intents[k])]
Waiting(m) == {m.queue[j].n : j \in 1 .. Len(m.queue)}
Refused(m) == ContentsOf(m.refusals)

Named(m) == \A k \in 1 .. Len(m.intents) : m.intents[k].id # <<>>

FineCopy(m, D, S, e) ==
  Named(m) /\ Fine(Len(m.intents), Hist(m), Waiting(m), Refused(m), D, S, e)

Descends(m, c) ==
  Descent(Len(m.intents), Hist(m), Waiting(m), Refused(m),
          Len(c.intents), Hist(c), Waiting(c), Refused(c))

SameView(a, m) ==
  /\ Len(a.intents) = Len(m.intents) /\ Hist(a) = Hist(m)
  /\ Waiting(a) = Waiting(m) /\ Refused(a) = Refused(m)
  /\ Named(m) => Named(a)

LEMMA SameFields ==
  ASSUME NEW a, NEW m, a.intents = m.intents, a.queue = m.queue, a.refusals = m.refusals
  PROVE  SameView(a, m)
BY DEF SameView, Hist, Waiting, Refused, ContentsOf, Named

LEMMA SameFine ==
  ASSUME NEW a, NEW m, SameView(a, m)
  PROVE  /\ \A D, S, e : FineCopy(m, D, S, e) => FineCopy(a, D, S, e)
         /\ \A c : Descends(m, c) => Descends(a, c)
BY DEF SameView, FineCopy, Descends

LEMMA FreshView ==
  /\ Len(Fresh.intents) = 0 /\ Waiting(Fresh) = {} /\ Refused(Fresh) = {} /\ Named(Fresh)
BY DEF Fresh, Waiting, Refused, ContentsOf, Named

LEMMA FreshFine ==
  ASSUME NEW m, NEW D, NEW S, NEW e, FineCopy(m, D, S, e)
  PROVE  FineCopy(Fresh, D, S, e)
BY FreshView DEF FineCopy, Fine

LEMMA FreshDescends == Descends(Fresh, Fresh)
BY FreshView DEF Descends, Descent

LEMMA MarkedView ==
  ASSUME NEW m \in State
  PROVE  /\ SameView(m, m)
         /\ SameView([m EXCEPT !.failed = TRUE], m)
         /\ SameView([m EXCEPT !.retries = @ + 1], m)
<1>1. SameView([m EXCEPT !.failed = TRUE], m)  BY SameFields DEF State
<1>2. SameView([m EXCEPT !.retries = @ + 1], m)  BY SameFields DEF State
<1>3. QED  BY <1>1, <1>2, SameFields

\* The history grows by the content of i.
Recorded(a, m, i) ==
  /\ Len(a.intents) = Len(m.intents) + 1
  /\ \A p \in 1 .. Len(m.intents) : Hist(a)[p] = Hist(m)[p]
  /\ Hist(a)[Len(m.intents) + 1] = Content(i)
  /\ Named(m) /\ i.id # <<>> => Named(a)

LEMMA RecordedAppend ==
  ASSUME NEW m \in State, NEW i \in Intent, NEW a, a.intents = Append(m.intents, i)
  PROVE  Recorded(a, m, i)
<1>1. m.intents \in Seq(Intent) /\ Len(m.intents) \in Nat  BY StateFields
<1>2. /\ Len(a.intents) = Len(m.intents) + 1
      /\ \A k \in 1 .. Len(m.intents) :
           k \in 1 .. Len(a.intents) /\ a.intents[k] = m.intents[k]
      /\ a.intents[Len(m.intents) + 1] = i
      /\ Len(m.intents) + 1 \in 1 .. Len(a.intents)
  BY <1>1
<1>3. \A k \in 1 .. Len(a.intents) : k \in 1 .. Len(m.intents) \/ k = Len(m.intents) + 1
  BY <1>1, <1>2
<1>4. Named(m) /\ i.id # <<>> => Named(a)  BY <1>2, <1>3 DEF Named
<1>5. QED  BY <1>2, <1>4 DEF Recorded, Hist

LEMMA RefusedAppend ==
  ASSUME NEW m \in State, NEW i \in Intent, NEW a, a.refusals = Append(m.refusals, i)
  PROVE  Refused(a) = Refused(m) \cup {Content(i)}
<1>1. m.refusals \in Seq(Intent) /\ Len(m.refusals) \in Nat  BY StateFields
<1>2. /\ Len(a.refusals) = Len(m.refusals) + 1
      /\ \A k \in 1 .. Len(m.refusals) : a.refusals[k] = m.refusals[k]
      /\ a.refusals[Len(m.refusals) + 1] = i
  BY <1>1
<1>3. 1 .. Len(a.refusals) = (1 .. Len(m.refusals)) \cup {Len(m.refusals) + 1}
  BY <1>1, <1>2
<1>4. QED  BY <1>2, <1>3 DEF Refused, ContentsOf

LEMMA AdmitView ==
  ASSUME NEW m \in State, NEW i \in Intent, i.n = Len(m.intents) + 1
  PROVE  /\ Recorded(Admit(m, i), m, i)
         /\ Waiting(Admit(m, i)) = Waiting(m) \cup {Len(m.intents) + 1}
         /\ Refused(Admit(m, i)) = Refused(m)
<1> DEFINE a == Admit(m, i)
<1>1. a.intents = Append(m.intents, i)  BY DEF Admit, State
<1>2. a.queue = Append(m.queue, i)  BY DEF Admit, State
<1>3. a.refusals = m.refusals  BY DEF Admit, State
<1> HIDE DEF a
<1>4. Recorded(a, m, i)  BY <1>1, RecordedAppend
<1>5. Waiting(a) = Waiting(m) \cup {Len(m.intents) + 1}
  <2>1. m.queue \in Seq(Intent) /\ Len(m.queue) \in Nat  BY StateFields
  <2>2. /\ Len(a.queue) = Len(m.queue) + 1
        /\ \A k \in 1 .. Len(m.queue) : a.queue[k] = m.queue[k]
        /\ a.queue[Len(m.queue) + 1] = i
    BY <1>2, <2>1
  <2>3. 1 .. Len(a.queue) = (1 .. Len(m.queue)) \cup {Len(m.queue) + 1}
    BY <2>1, <2>2
  <2>4. QED  BY <2>2, <2>3 DEF Waiting
<1>6. Refused(a) = Refused(m)  BY <1>3 DEF Refused
<1>7. QED  BY <1>4, <1>5, <1>6 DEF a

LEMMA RefuseView ==
  ASSUME NEW m \in State, NEW i \in Intent
  PROVE  /\ Len(Refuse(m, i).intents) = Len(m.intents) /\ Hist(Refuse(m, i)) = Hist(m)
         /\ Waiting(Refuse(m, i)) = Waiting(m)
         /\ Refused(Refuse(m, i)) = Refused(m) \cup {Content(i)}
         /\ Named(m) => Named(Refuse(m, i))
<1> DEFINE a == Refuse(m, i)
<1>1. a.intents = m.intents  BY DEF Refuse, State
<1>2. a.queue = m.queue  BY DEF Refuse, State
<1>3. a.refusals = Append(m.refusals, i)  BY DEF Refuse, State
<1> HIDE DEF a
<1>4. Refused(a) = Refused(m) \cup {Content(i)}  BY <1>3, RefusedAppend
<1>5. Len(a.intents) = Len(m.intents) /\ Hist(a) = Hist(m) /\ (Named(m) => Named(a))
  BY <1>1 DEF Hist, Named
<1>6. Waiting(a) = Waiting(m)  BY <1>2 DEF Waiting
<1>7. QED  BY <1>4, <1>5, <1>6 DEF a

LEMMA OverflowView ==
  ASSUME NEW m \in State, NEW i \in Intent
  PROVE  /\ Recorded(Overflow(m, i), m, i)
         /\ Waiting(Overflow(m, i)) = Waiting(m)
         /\ Refused(Overflow(m, i)) = Refused(m) \cup {Content(i)}
<1> DEFINE a == Overflow(m, i)
<1>1. a.intents = Append(m.intents, i)  BY DEF Overflow, State
<1>2. a.queue = m.queue  BY DEF Overflow, State
<1>3. a.refusals = Append(m.refusals, i)  BY DEF Overflow, State
<1> HIDE DEF a
<1>4. Recorded(a, m, i)  BY <1>1, RecordedAppend
<1>5. Refused(a) = Refused(m) \cup {Content(i)}  BY <1>3, RefusedAppend
<1>6. Waiting(a) = Waiting(m)  BY <1>2 DEF Waiting
<1>7. QED  BY <1>4, <1>5, <1>6 DEF a

\* The head of the queue is the oldest waiting position, and its content the
\* one recorded there.
LEMMA HeadView ==
  ASSUME NEW m \in State, QueueOfHistory(m), m.queue # <<>>
  PROVE  /\ Head(m.queue).n \in Waiting(m)
         /\ \A q \in Waiting(m) : Head(m.queue).n <= q
         /\ Hist(m)[Head(m.queue).n] = Content(Head(m.queue))
         /\ Named(m) => Head(m.queue).id # <<>>
<1>1. /\ m.queue \in Seq(Intent) /\ Len(m.queue) \in Nat \ {0}
      /\ Head(m.queue) = m.queue[1] /\ 1 \in 1 .. Len(m.queue)
  BY StateFields
<1>2. /\ m.queue[1].n \in 1 .. Len(m.intents) /\ m.queue[1] = m.intents[m.queue[1].n]
  BY <1>1 DEF QueueOfHistory
<1>3. ASSUME NEW q \in Waiting(m) PROVE m.queue[1].n <= q
  <2>1. PICK j \in 1 .. Len(m.queue) : q = m.queue[j].n  BY DEF Waiting
  <2>2. q \in Nat /\ m.queue[1].n \in Nat
    <3>1. m.queue[j] \in Intent /\ m.queue[1] \in Intent  BY <1>1
    <3>2. QED  BY <2>1, <3>1 DEF Intent
  <2>3. CASE j = 1  BY <2>1, <2>2, <2>3
  <2>4. CASE j # 1
    <3>1. 1 < j  BY <1>1, <2>4
    <3>2. m.queue[1].n < m.queue[j].n  BY <1>1, <3>1 DEF QueueOfHistory
    <3>3. QED  BY <2>1, <2>2, <3>2
  <2>5. QED  BY <2>3, <2>4
<1>4. m.queue[1].n \in Waiting(m)  BY <1>1 DEF Waiting
<1>5. Hist(m)[m.queue[1].n] = Content(m.queue[1])  BY <1>2 DEF Hist
<1>6. Named(m) => m.queue[1].id # <<>>  BY <1>2 DEF Named
<1>7. QED  BY <1>1, <1>3, <1>4, <1>5, <1>6

LEMMA DrainedView ==
  ASSUME NEW m \in State, QueueOfHistory(m), m.queue # <<>>
  PROVE  /\ Len(Drained(m).intents) = Len(m.intents) /\ Hist(Drained(m)) = Hist(m)
         /\ Waiting(Drained(m)) = Waiting(m) \ {Head(m.queue).n}
         /\ Refused(Drained(m)) = Refused(m)
         /\ Named(m) => Named(Drained(m))
<1> DEFINE a == Drained(m)
<1>1. a.intents = m.intents  BY DEF Drained, State
<1>2. a.queue = Tail(m.queue)  BY DEF Drained, State
<1>3. a.refusals = m.refusals  BY DEF Drained, State
<1> HIDE DEF a
<1>4. /\ m.queue \in Seq(Intent) /\ Len(m.queue) \in Nat \ {0}
      /\ Head(m.queue) = m.queue[1] /\ 1 \in 1 .. Len(m.queue)
      /\ Len(a.queue) = Len(m.queue) - 1
      /\ \A j \in 1 .. Len(a.queue) : a.queue[j] = m.queue[j + 1]
  BY <1>2, StateFields
<1>5. \A j \in 1 .. Len(m.queue) : j # 1 => m.queue[1].n < m.queue[j].n
  <2> SUFFICES ASSUME NEW j \in 1 .. Len(m.queue), j # 1 PROVE m.queue[1].n < m.queue[j].n
    OBVIOUS
  <2>1. 1 < j  BY <1>4
  <2>2. QED  BY <1>4, <2>1 DEF QueueOfHistory
<1>6. ASSUME NEW j \in 1 .. Len(m.queue) PROVE m.queue[j].n \in Nat
  <2>1. m.queue[j] \in Intent  BY <1>4
  <2>2. QED  BY <2>1 DEF Intent
<1>7. Waiting(a) \subseteq Waiting(m) \ {m.queue[1].n}
  <2> SUFFICES ASSUME NEW j \in 1 .. Len(a.queue)
               PROVE  a.queue[j].n \in Waiting(m) \ {m.queue[1].n}
    BY DEF Waiting
  <2>1. j + 1 \in 1 .. Len(m.queue) /\ j + 1 # 1 /\ a.queue[j] = m.queue[j + 1]
    BY <1>4
  <2>2. m.queue[1].n < m.queue[j + 1].n /\ m.queue[1].n \in Nat /\ m.queue[j + 1].n \in Nat
    BY <2>1, <1>4, <1>5, <1>6
  <2>3. QED  BY <2>1, <2>2 DEF Waiting
<1>8. Waiting(m) \ {m.queue[1].n} \subseteq Waiting(a)
  <2> SUFFICES ASSUME NEW j \in 1 .. Len(m.queue), m.queue[j].n # m.queue[1].n
               PROVE  m.queue[j].n \in Waiting(a)
    BY DEF Waiting
  <2>1. j # 1 /\ j - 1 \in 1 .. Len(a.queue) /\ (j - 1) + 1 = j  BY <1>4
  <2>2. a.queue[j - 1] = m.queue[j]  BY <2>1, <1>4
  <2>3. QED  BY <2>1, <2>2 DEF Waiting
<1>9. Refused(a) = Refused(m)  BY <1>3 DEF Refused
<1>10. Len(a.intents) = Len(m.intents) /\ Hist(a) = Hist(m) /\ (Named(m) => Named(a))
  BY <1>1 DEF Hist, Named
<1>11. QED  BY <1>4, <1>7, <1>8, <1>9, <1>10 DEF a

\* A compact rejection has the content of the intent it replaces.
LEMMA CompactContent ==
  ASSUME NEW i \in Intent, i.id # <<>>, NEW r \in Nat
  PROVE  Content(CompactRejection(i, r)) = Content(i) /\ CompactRejection(i, r).id # <<>>
<1>1. i.id \in Seq(Nat) /\ Len(i.id) \in Nat \ {0}  BY DEF Intent
<1>2. CompactRejection(i, r).id = Append(i.id, r)  BY DEF CompactRejection, Intent
<1>3. Append(i.id, r)[1] = i.id[1] /\ Append(i.id, r) # <<>>  BY <1>1
<1>4. QED  BY <1>2, <1>3 DEF Content

LEMMA ReplaceView ==
  ASSUME NEW m \in State, QueueOfHistory(m), m.queue # <<>>,
         IsLineageHead(m, Head(m.queue)),
         NEW i \in Intent, i.n = Head(m.queue).n,
         Content(i) = Content(Head(m.queue)), i.id # <<>>
  PROVE  SameView(ReplaceHead(m, i), m)
<1> DEFINE a == ReplaceHead(m, i)
           top == Len(m.intents)
<1>1. /\ m.queue \in Seq(Intent) /\ m.intents \in Seq(Intent)
      /\ Len(m.queue) \in Nat \ {0} /\ Head(m.queue) = m.queue[1] /\ 1 \in 1 .. Len(m.queue)
  BY StateFields
<1>2. m.queue[1].n = top /\ top \in 1 .. Len(m.intents) /\ m.queue[1] = m.intents[top]
  BY <1>1 DEF IsLineageHead, QueueOfHistory
<1>3. a.intents = [m.intents EXCEPT ![top] = i]  BY DEF ReplaceHead, State
<1>4. a.queue = [m.queue EXCEPT ![1] = i]  BY DEF ReplaceHead, State
<1>5. a.refusals = m.refusals  BY DEF ReplaceHead, State
<1> HIDE DEF a
<1>6. /\ Len(a.intents) = Len(m.intents)
      /\ \A k \in 1 .. Len(m.intents) : a.intents[k] = IF k = top THEN i ELSE m.intents[k]
  BY <1>1, <1>2, <1>3, ExceptSeq
<1>7. /\ Len(a.queue) = Len(m.queue)
      /\ \A k \in 1 .. Len(m.queue) : a.queue[k] = IF k = 1 THEN i ELSE m.queue[k]
  BY <1>1, <1>4, ExceptSeq
<1>8. \A k \in 1 .. Len(m.intents) : Content(a.intents[k]) = Content(m.intents[k])
  BY <1>1, <1>2, <1>6
<1>9. Hist(a) = Hist(m)  BY <1>6, <1>8 DEF Hist
<1>10. \A k \in 1 .. Len(m.queue) : a.queue[k].n = m.queue[k].n  BY <1>1, <1>7
<1>11. Waiting(a) = Waiting(m)  BY <1>7, <1>10 DEF Waiting
<1>12. Refused(a) = Refused(m)  BY <1>5 DEF Refused
<1>13. Named(m) => Named(a)  BY <1>6 DEF Named
<1>14. QED  BY <1>6, <1>9, <1>11, <1>12, <1>13 DEF SameView, a

-----------------------------------------------------------------------------
(* The inductive invariant.  Both copies are fine, and a running process    *)
(* has a memory that descends from the file.                                *)

Durable == {Content(r) : r \in log}
Offered == {Content(r) : r \in log \cup sent}

OutInv ==
  /\ emitted <= MaxEmissions
  /\ FineCopy(mem, Durable, Offered, emitted)
  /\ HasCheckpoint => FineCopy(ckpt, Durable, Offered, emitted)
  /\ phase # "Down" => HasCheckpoint /\ Descends(mem, ckpt)

\* The file is left alone, is created, or descends from what it was; the log
\* grows by one record at most, and only when the file is left alone.
FileGoes ==
  /\ ckpt' = ckpt \/ (HasCheckpoint' /\ log' = log /\ Descends(ckpt', File))
  /\ log' = log \/ \E i : log' = log \cup {i}

\* A step of a running process: the memory becomes a copy m (or is forgotten),
\* the file stays or becomes m too.
LEMMA Running ==
  ASSUME NEW m, FineCopy(m, Durable', Offered', emitted'), Descends(m, ckpt),
         HasCheckpoint, FineCopy(ckpt, Durable', Offered', emitted'),
         emitted' <= MaxEmissions,
         SameView(mem', m) \/ (mem' = Fresh /\ phase' = "Down"),
         ckpt' = ckpt \/ (ckpt' \in State /\ SameView(ckpt', m) /\ log' = log),
         log' = log \/ \E i : log' = log \cup {i}
  PROVE  OutInv' /\ FileGoes
<1>1. FineCopy(mem', Durable', Offered', emitted')  BY SameFine, FreshFine
<1>2. CASE ckpt' = ckpt
  <2>1. phase' # "Down" => Descends(mem', ckpt)  BY SameFine
  <2>2. QED  BY <1>1, <1>2, <2>1 DEF OutInv, FileGoes, HasCheckpoint
<1>3. CASE ckpt' \in State /\ SameView(ckpt', m) /\ log' = log
  <2>1. HasCheckpoint'  BY <1>3, NoCheckpointAssumption DEF HasCheckpoint
  <2>2. FineCopy(ckpt', Durable', Offered', emitted')  BY <1>3, SameFine
  <2>3. Descends(ckpt', ckpt) /\ File = ckpt  BY <1>3, SameFine DEF File
  <2>4. ASSUME SameView(mem', m) PROVE Descends(mem', ckpt')
    <3>1. Descends(ckpt', ckpt')  BY <2>2, DescentSelf DEF FineCopy, Descends
    <3>2. Descends(mem', ckpt') <=> Descends(ckpt', ckpt')
      BY <1>3, <2>4 DEF SameView, Descends
    <3>3. QED  BY <3>1, <3>2
  <2>5. QED  BY <1>1, <1>3, <2>1, <2>2, <2>3, <2>4 DEF OutInv, FileGoes
<1>4. QED  BY <1>2, <1>3

\* The process touches no evidence, or marks it held or tried once more.
LEMMA QuietStep ==
  ASSUME IInv, OutInv,
         \/ Crash \/ Interrupt \/ TickBegin \/ BeginWork \/ TickEnd \/ DrainEnd
         \/ LivenessTrip \/ (WriteIncorrect /\ log' = log)
  PROVE  OutInv' /\ FileGoes
<1>1. mem \in State /\ SameView(mem, mem) /\ SameView([mem EXCEPT !.failed = TRUE], mem)
  BY MarkedView DEF IInv, Custody
<1>2. /\ phase # "Down" /\ log' = log /\ sent' = sent /\ emitted' = emitted
      /\ SameView(mem', mem) \/ (mem' = Fresh /\ phase' = "Down")
      /\ ckpt' \in {ckpt, mem}
  BY <1>1 DEF Crash, Interrupt, TickBegin, BeginWork, TickEnd, DrainEnd, Stop,
              LivenessTrip, WriteIncorrect, Writing
<1>3. Durable' = Durable /\ Offered' = Offered  BY <1>2 DEF Durable, Offered
<1>4. /\ FineCopy(mem, Durable', Offered', emitted') /\ HasCheckpoint
      /\ FineCopy(ckpt, Durable', Offered', emitted') /\ Descends(mem, ckpt)
      /\ emitted' <= MaxEmissions
  BY <1>2, <1>3 DEF OutInv
<1>5. ckpt' = ckpt \/ (ckpt' \in State /\ SameView(ckpt', mem) /\ log' = log)
  BY <1>1, <1>2
<1>6. QED  BY <1>2, <1>4, <1>5, Running

-----------------------------------------------------------------------------
(* The emission of the next content.                                        *)

LEMMA EmittedCopies ==
  ASSUME IInv, OutInv, phase # "Down",
         NEW i \in Intent, i.n = Len(mem.intents) + 1, i.id # <<>>, Content(i) = emitted + 1,
         NEW m \in {mem, Admit(mem, i), Refuse(mem, i), Overflow(mem, i)}
  PROVE  FineCopy(m, Durable, Offered, emitted + 1) /\ Descends(m, ckpt)
<1> DEFINE n == Len(mem.intents)
           H == Hist(mem)
           W == Waiting(mem)
           R == Refused(mem)
           D == Durable
           S == Offered
           e == emitted
           c == Len(ckpt.intents)
           G == Hist(ckpt)
           V == Waiting(ckpt)
           Q == Refused(ckpt)
<1>1. mem \in State  BY DEF IInv, Custody
<1>2. /\ Named(mem) /\ Fine(n, H, W, R, D, S, e) /\ Descent(n, H, W, R, c, G, V, Q)
      /\ Fine(c, G, V, Q, D, S, e) /\ Descends(mem, ckpt)
  BY DEF OutInv, FineCopy, Descends
<1>3. CASE m = mem
  <2>1. Fine(n, H, W, R, D, S, e + 1)  BY <1>2, FineNewer
  <2>2. QED  BY <1>2, <1>3, <2>1 DEF FineCopy
<1>4. CASE m = Admit(mem, i)
  <2>1. Recorded(m, mem, i) /\ Waiting(m) = W \cup {n + 1} /\ Refused(m) = R
    BY <1>1, <1>4, AdmitView
  <2>2. /\ Named(m) /\ Len(m.intents) = n + 1
        /\ \A p \in 1 .. n : Hist(m)[p] = H[p]
        /\ Hist(m)[n + 1] = e + 1
    BY <1>2, <2>1 DEF Recorded
  <2> HIDE DEF n, H, W, R, D, S, e, c, G, V, Q
  <2>3. Fine(n + 1, Hist(m), W \cup {n + 1}, R, D, S, e + 1)
    BY <1>2, <2>2, FineAdmitted
  <2>4. Descent(n + 1, Hist(m), W \cup {n + 1}, R, c, G, V, Q)
    BY <1>2, <2>2, DescentEmitted
  <2>5. QED  BY <2>1, <2>2, <2>3, <2>4 DEF FineCopy, Descends, D, S, e, c, G, V, Q
<1>5. CASE m = Refuse(mem, i)
  <2>1. /\ Len(m.intents) = n /\ Hist(m) = H /\ Waiting(m) = W
        /\ Refused(m) = R \cup {e + 1} /\ Named(m)
    BY <1>1, <1>2, <1>5, RefuseView
  <2> HIDE DEF n, H, W, R, D, S, e, c, G, V, Q
  <2>2. Fine(n, H, W, R \cup {e + 1}, D, S, e + 1)  BY <1>2, FineRefused
  <2>3. Descent(n, H, W, R \cup {e + 1}, c, G, V, Q)  BY <1>2, DescentEmitted
  <2>4. QED  BY <2>1, <2>2, <2>3 DEF FineCopy, Descends, D, S, e, c, G, V, Q
<1>6. CASE m = Overflow(mem, i)
  <2>1. Recorded(m, mem, i) /\ Waiting(m) = W /\ Refused(m) = R \cup {e + 1}
    BY <1>1, <1>6, OverflowView
  <2>2. /\ Named(m) /\ Len(m.intents) = n + 1
        /\ \A p \in 1 .. n : Hist(m)[p] = H[p]
        /\ Hist(m)[n + 1] = e + 1
    BY <1>2, <2>1 DEF Recorded
  <2> HIDE DEF n, H, W, R, D, S, e, c, G, V, Q
  <2>3. Fine(n + 1, Hist(m), W, R \cup {e + 1}, D, S, e + 1)
    BY <1>2, <2>2, FineAdmitted
  <2>4. Descent(n + 1, Hist(m), W, R \cup {e + 1}, c, G, V, Q)
    BY <1>2, <2>2, DescentEmitted
  <2>5. QED  BY <2>1, <2>2, <2>3, <2>4 DEF FineCopy, Descends, D, S, e, c, G, V, Q
<1>7. QED  BY <1>3, <1>4, <1>5, <1>6

\* The intent built next has the next content, compacted or not.
LEMMA BuiltContent ==
  ASSUME NEW m \in State, emitted \in Nat, NEW i,
         i = BuildIntent(m) \/ i = CompactRejection(BuildIntent(m), 0)
  PROVE  i \in Intent /\ i.n = Len(m.intents) + 1 /\ i.id # <<>> /\ Content(i) = emitted + 1
<1> DEFINE b == BuildIntent(m)
<1>1. b \in Intent /\ b.n = Len(m.intents) + 1  BY BuildIsIntent
<1>2. b.id # <<>> /\ Content(b) = emitted + 1  BY DEF BuildIntent, Content
<1> HIDE DEF b
<1>3. CASE i = b  BY <1>1, <1>2, <1>3
<1>4. CASE i = CompactRejection(b, 0)
  BY <1>1, <1>2, <1>4, CompactIsIntent, CompactContent
<1>5. QED  BY <1>3, <1>4 DEF b

LEMMA EmitGoes ==
  ASSUME IInv, OutInv, Emit
  PROVE  OutInv' /\ FileGoes
<1> DEFINE b == BuildIntent(mem)
           c == CompactRejection(b, 0)
<1>1. /\ mem \in State /\ emitted \in Nat /\ Custody(mem, log)
  BY DEF IInv, Custody, Kinds
<1>2. /\ b \in Intent /\ b.n = Len(mem.intents) + 1 /\ b.id # <<>> /\ Content(b) = emitted + 1
      /\ c \in Intent /\ c.n = Len(mem.intents) + 1 /\ c.id # <<>> /\ Content(c) = emitted + 1
  BY <1>1, BuiltContent
<1>3. /\ b.pred = LastId(mem) /\ c.pred = LastId(mem)
  BY <1>1, BuildIsIntent, CompactIsIntent
<1> HIDE DEF b, c
<1>4. PICK m \in {mem, Admit(mem, b), Refuse(mem, b), Admit(mem, c), Overflow(mem, c)} :
        /\ mem' \in {m, [m EXCEPT !.failed = TRUE]} \/ (mem' = Fresh /\ phase' = "Down")
        /\ ckpt' = ckpt \/ (ckpt' = mem' /\ mem' \in {m, [m EXCEPT !.failed = TRUE]})
        /\ phase # "Down" /\ emitted < MaxEmissions /\ emitted' = emitted + 1
        /\ log' = log /\ sent' = sent
  <2>1. phase # "Down" /\ emitted < MaxEmissions /\ emitted' = emitted + 1
        /\ log' = log /\ sent' = sent
    BY DEF Emit, EmitDropped, EmitAdmitted, EmitRefused, EmitCompacted, EmitOverflow, Emitting
  <2>2. CASE EmitDropped  BY <2>1, <2>2 DEF EmitDropped
  <2>3. CASE EmitAdmitted  BY <2>1, <2>3 DEF EmitAdmitted, Publish, b
  <2>4. CASE EmitRefused  BY <2>1, <2>4 DEF EmitRefused, Publish, b
  <2>5. CASE EmitCompacted  BY <2>1, <2>5 DEF EmitCompacted, Publish, b, c
  <2>6. CASE EmitOverflow  BY <2>1, <2>6 DEF EmitOverflow, Unwind, Stop, b, c
  <2>7. QED  BY <2>2, <2>3, <2>4, <2>5, <2>6 DEF Emit
<1>5. m \in State
  BY <1>1, <1>2, <1>3, AdmitCustody, RefuseCustody, OverflowCustody DEF Custody
<1>6. /\ SameView(m, m) /\ SameView([m EXCEPT !.failed = TRUE], m)
      /\ [m EXCEPT !.failed = TRUE] \in State
  BY <1>5, MarkedView DEF State
<1>7. FineCopy(m, Durable, Offered, emitted + 1) /\ Descends(m, ckpt)
  BY <1>2, <1>4, EmittedCopies
<1>8. HasCheckpoint /\ FineCopy(ckpt, Durable, Offered, emitted + 1)
  BY <1>4, FineNewer DEF OutInv, FineCopy
<1>9. Durable' = Durable /\ Offered' = Offered  BY <1>4 DEF Durable, Offered
<1>10. emitted' <= MaxEmissions  BY <1>1, <1>4, CustodyAssumption
<1>11. SameView(mem', m) \/ (mem' = Fresh /\ phase' = "Down")  BY <1>4, <1>6
<1>12. ckpt' = ckpt \/ (ckpt' \in State /\ SameView(ckpt', m) /\ log' = log)
  BY <1>4, <1>5, <1>6
<1>13. QED  BY <1>4, <1>7, <1>8, <1>9, <1>10, <1>11, <1>12, Running

-----------------------------------------------------------------------------
(* The writes.                                                              *)

\* The head is given to the writer and may be durable then.
LEMMA OfferedCopies ==
  ASSUME IInv, OutInv, phase # "Down", mem.queue # <<>>,
         NEW E, Durable \subseteq E, E \subseteq Durable \cup {Content(Head(mem.queue))},
         NEW T, T = Offered \cup {Content(Head(mem.queue))}
  PROVE  /\ FineCopy(mem, E, T, emitted) /\ FineCopy(ckpt, E, T, emitted)
         /\ Content(Head(mem.queue)) \in E => FineCopy(Drained(mem), E, T, emitted)
         /\ Descends(Drained(mem), ckpt)
<1> DEFINE n == Len(mem.intents)
           H == Hist(mem)
           W == Waiting(mem)
           R == Refused(mem)
           c == Len(ckpt.intents)
           G == Hist(ckpt)
           V == Waiting(ckpt)
           Q == Refused(ckpt)
           h == Head(mem.queue).n
           a == Drained(mem)
<1>1. mem \in State /\ QueueOfHistory(mem)  BY DEF IInv, Custody
<1>2. /\ Named(mem) /\ Named(ckpt) /\ Fine(n, H, W, R, Durable, Offered, emitted)
      /\ Descent(n, H, W, R, c, G, V, Q) /\ Fine(c, G, V, Q, Durable, Offered, emitted)
  BY DEF OutInv, FineCopy, Descends
<1>3. h \in W /\ (\A q \in W : h <= q) /\ H[h] = Content(Head(mem.queue))
  BY <1>1, HeadView
<1>4. /\ Len(a.intents) = n /\ Hist(a) = H /\ Waiting(a) = W \ {h} /\ Refused(a) = R
      /\ Named(a)
  BY <1>1, <1>2, DrainedView
<1>5. E \subseteq Durable \cup {H[h]} /\ T = Offered \cup {H[h]}  BY <1>3
<1> HIDE DEF n, H, W, R, c, G, V, Q, h, a
<1>6. Fine(n, H, W, R, E, T, emitted) /\ (H[h] \in E => Fine(n, H, W \ {h}, R, E, T, emitted))
  BY <1>2, <1>3, <1>5, FineOffered
<1>7. Fine(c, G, V, Q, E, T, emitted)  BY <1>2, <1>3, <1>5, FineOfferedBehind
<1>8. Descent(n, H, W \ {h}, R, c, G, V, Q)  BY <1>2, DescentDrained
<1>9. FineCopy(mem, E, T, emitted)  BY <1>2, <1>6 DEF FineCopy, n, H, W, R
<1>10. FineCopy(ckpt, E, T, emitted)  BY <1>2, <1>7 DEF FineCopy, c, G, V, Q
<1>11. H[h] \in E => FineCopy(a, E, T, emitted)  BY <1>4, <1>6 DEF FineCopy
<1>12. Descends(a, ckpt)  BY <1>4, <1>8 DEF Descends, c, G, V, Q
<1>13. QED  BY <1>3, <1>9, <1>10, <1>11, <1>12 DEF a

LEMMA WriteGoes ==
  ASSUME IInv, OutInv,
         \/ WriteAccepted \/ WriteTransient \/ WriteRejectedAtHead \/ WriteRejectedBehind
         \/ (WriteIncorrect /\ log' # log)
  PROVE  OutInv' /\ FileGoes
<1> DEFINE h == Head(mem.queue)
           d == CompactRejection(h, mem.retries)
<1>1. /\ phase # "Down" /\ mem.queue # <<>> /\ ckpt' = ckpt /\ emitted' = emitted
      /\ (log' = log \/ log' = log \cup {h}) /\ log' \cup sent' = log \cup sent \cup {h}
  BY DEF WriteAccepted, WriteTransient, WriteRejectedAtHead, WriteRejectedBehind,
         WriteIncorrect, Writing, UncertainCommit
<1>2. /\ mem \in State /\ QueueOfHistory(mem) /\ mem.retries \in Nat
      /\ mem.queue \in Seq(Intent) /\ h \in Intent
  BY <1>1, StateFields DEF IInv, Custody
<1>3. Named(mem) /\ HasCheckpoint /\ Descends(mem, ckpt) /\ emitted' <= MaxEmissions
  BY <1>1 DEF OutInv, FineCopy
<1>4. Durable' = Durable \/ Durable' = Durable \cup {Content(h)}
  BY <1>1 DEF Durable
<1>5. Offered' = Offered \cup {Content(h)}  BY <1>1 DEF Offered
<1>6. /\ FineCopy(mem, Durable', Offered', emitted')
      /\ FineCopy(ckpt, Durable', Offered', emitted')
      /\ Content(h) \in Durable' => FineCopy(Drained(mem), Durable', Offered', emitted')
      /\ Descends(Drained(mem), ckpt)
  BY <1>1, <1>4, <1>5, OfferedCopies
<1>7. CASE WriteAccepted
  <2>1. mem' = Drained(mem) /\ log' = log \cup {h}  BY <1>7 DEF WriteAccepted
  <2>2. Content(h) \in Durable'  BY <2>1 DEF Durable
  <2>3. SameView(Drained(mem), Drained(mem))  BY SameFields
  <2> HIDE DEF h, d
  <2>4. QED  BY <1>1, <1>3, <1>6, <2>1, <2>2, <2>3, Running
<1>8. CASE WriteTransient \/ WriteRejectedAtHead \/ WriteRejectedBehind \/ WriteIncorrect
  <2>1. h.id # <<>>  BY <1>1, <1>2, <1>3, HeadView
  <2>2. /\ d \in Intent /\ d.n = h.n /\ Content(d) = Content(h) /\ d.id # <<>>
    BY <1>2, <2>1, CompactIsIntent, CompactContent
  <2> HIDE DEF d
  <2>3. IsLineageHead(mem, h) => SameView(ReplaceHead(mem, d), mem)
    BY <1>1, <1>2, <2>2, ReplaceView
  <2>4. /\ SameView(mem, mem) /\ SameView([mem EXCEPT !.retries = @ + 1], mem)
        /\ SameView([mem EXCEPT !.failed = TRUE], mem)
    BY <1>2, MarkedView
  <2>5. SameView(mem', mem) \/ (mem' = Fresh /\ phase' = "Down")
    BY <1>8, <2>3, <2>4 DEF WriteTransient, WriteRejectedAtHead, WriteRejectedBehind,
       WriteIncorrect, Unwind, Stop, d
  <2> HIDE DEF h
  <2>6. QED  BY <1>1, <1>3, <1>6, <2>5, Running
<1>9. QED  BY <1>7, <1>8

LEMMA LateGoes ==
  ASSUME IInv, OutInv, LateCommit
  PROVE  OutInv' /\ FileGoes
<1>1. PICK i \in sent : log' = log \cup {i} /\ sent' = sent \ {i}  BY DEF LateCommit
<1>2. UNCHANGED <<phase, mem, ckpt, emitted>>  BY DEF LateCommit
<1>3. Durable \subseteq Durable' /\ Durable' \subseteq Offered /\ Offered' = Offered
  BY <1>1 DEF Durable, Offered
<1>4. \A m : FineCopy(m, Durable, Offered, emitted) => FineCopy(m, Durable', Offered, emitted)
  BY <1>3, FineLate DEF FineCopy
<1>5. OutInv'  BY <1>2, <1>3, <1>4 DEF OutInv, HasCheckpoint
<1>6. QED  BY <1>1, <1>2, <1>5 DEF FileGoes

-----------------------------------------------------------------------------
LEMMA OutStep ==
  ASSUME IInv, OutInv, [Next]_vars
  PROVE  OutInv' /\ FileGoes
<1>1. CASE Start
  <2>1. /\ ~HasCheckpoint /\ mem' = Fresh /\ ckpt' = Fresh
        /\ log' = log /\ sent' = sent /\ emitted' = emitted
    BY <1>1 DEF Start
  <2>2. Durable' = Durable /\ Offered' = Offered  BY <2>1 DEF Durable, Offered
  <2>3. HasCheckpoint'
    BY <2>1, FreshCustody, NoCheckpointAssumption DEF Custody, HasCheckpoint
  <2>4. FineCopy(Fresh, Durable', Offered', emitted') /\ emitted' <= MaxEmissions
    BY <2>1, <2>2, FreshFine DEF OutInv
  <2>5. OutInv'  BY <2>1, <2>3, <2>4, FreshDescends DEF OutInv
  <2>6. QED  BY <2>1, <2>3, <2>5, FreshDescends DEF FileGoes, File
<1>2. CASE Restore
  <2>1. /\ HasCheckpoint /\ mem' = ckpt /\ ckpt' = ckpt
        /\ log' = log /\ sent' = sent /\ emitted' = emitted
    BY <1>2 DEF Restore
  <2>2. Durable' = Durable /\ Offered' = Offered  BY <2>1 DEF Durable, Offered
  <2>3. HasCheckpoint' /\ FineCopy(ckpt, Durable, Offered, emitted) /\ emitted <= MaxEmissions
    BY <2>1 DEF OutInv, HasCheckpoint
  <2>4. Descends(ckpt, ckpt)  BY <2>3, DescentSelf DEF FineCopy, Descends
  <2>5. QED  BY <2>1, <2>2, <2>3, <2>4 DEF OutInv, FileGoes
<1>3. CASE \/ Crash \/ Interrupt \/ TickBegin \/ BeginWork \/ TickEnd \/ DrainEnd
           \/ LivenessTrip \/ (WriteIncorrect /\ log' = log)
  BY <1>3, QuietStep
<1>4. CASE Emit  BY <1>4, EmitGoes
<1>5. CASE \/ WriteAccepted \/ WriteTransient \/ WriteRejectedAtHead \/ WriteRejectedBehind
           \/ (WriteIncorrect /\ log' # log)
  BY <1>5, WriteGoes
<1>6. CASE LateCommit  BY <1>6, LateGoes
<1>7. CASE UNCHANGED vars
  BY <1>7 DEF vars, OutInv, FileGoes, Durable, Offered, HasCheckpoint
<1>8. QED
  BY <1>1, <1>2, <1>3, <1>4, <1>5, <1>6, <1>7 DEF Next, Write

LEMMA OutInit == Init => OutInv
<1> SUFFICES ASSUME Init PROVE OutInv  OBVIOUS
<1>1. FineCopy(Fresh, {}, {}, 0)  BY FreshView DEF FineCopy, Fine
<1>2. Durable = {} /\ Offered = {}  BY DEF Init, Durable, Offered
<1>3. QED  BY <1>1, <1>2, CustodyAssumption DEF Init, OutInv, HasCheckpoint

-----------------------------------------------------------------------------
(* The step of the outbox.                                                  *)

LEMMA HistLength ==
  ASSUME NEW m \in State PROVE Len(Hist(m)) = Len(m.intents)
<1>1. Len(m.intents) \in Nat  BY StateFields
<1>2. QED  BY <1>1 DEF Hist

\* What a fine copy says in the words of the outbox.
LEMMA FineSound ==
  ASSUME File' \in State, FineCopy(File', Durable', Offered', emitted')
  PROVE  Box!Sound'
<1>1. Len(Hist(File')) = Len(File'.intents)  BY HistLength
<1>2. /\ Waiting(File') \subseteq 1 .. Len(File'.intents)
      /\ \A p, q \in 1 .. Len(File'.intents) : q < p => Hist(File')[q] < Hist(File')[p]
      /\ \A p \in 1 .. Len(File'.intents) :
           p \in Waiting(File') \/ Hist(File')[p] \in Durable' \cup Refused(File')
      /\ Refused(File') \cap Durable' = {}
      /\ \A p \in Waiting(File') : Hist(File')[p] \notin Refused(File')
      /\ \A p, q \in 1 .. Len(File'.intents) :
           q < p /\ Hist(File')[p] \in Durable'
             => Hist(File')[q] \in Durable' \cup Refused(File')
  BY DEF FineCopy, Fine
<1>3. Box!Positions' = 1 .. Len(File'.intents)
  BY <1>1 DEF Box!Positions, Hist
<1>4. Box!Growing'  BY <1>2, <1>3 DEF Box!Growing, Hist
<1>5. Box!Settled'
  BY <1>2, <1>3 DEF Box!Settled, Box!Done, Hist, Waiting, Refused, Durable
<1>6. Box!InOrder'
  BY <1>2, <1>3 DEF Box!InOrder, Box!Done, Hist, Refused, Durable
<1>7. Box!Exclusive'
  BY <1>2 DEF Box!Exclusive, Hist, Waiting, Refused, Durable
<1>8. QED
  BY <1>2, <1>3, <1>4, <1>5, <1>6, <1>7 DEF Box!Sound, Waiting

LEMMA BoxStep ==
  ASSUME IInv, IInv', OutInv, OutInv', HoldInv, FileGoes, [Next]_vars
  PROVE  [Box!Next]_Box!vars
<1>1. File \in State  BY FreshCustody DEF Custody, File, IInv, HasCheckpoint
<1>2. /\ File' \in State /\ FineCopy(File', Durable', Offered', emitted')
  <2>1. Fresh \in State  BY FreshCustody DEF Custody
  <2>2. FineCopy(Fresh, Durable', Offered', emitted')  BY FreshFine DEF OutInv
  <2>3. QED  BY <2>1, <2>2 DEF File, IInv, OutInv, HasCheckpoint
<1>3. Box!Sound'  BY <1>2, FineSound
<1>4. CASE ckpt' = ckpt /\ log' = log
  <2>1. File' = File  BY <1>4 DEF File, HasCheckpoint
  <2>2. QED  BY <1>4, <2>1 DEF Box!vars
<1>5. CASE ckpt' = ckpt /\ log' # log
  <2>1. File' = File  BY <1>5 DEF File, HasCheckpoint
  <2>2. PICK i : log' = log \cup {i}  BY <1>5 DEF FileGoes
  <2>3. Durable' = Durable \cup {Content(i)} /\ Content(i) \in Durable'
    BY <2>2 DEF Durable
  <2>4. Content(i) \in 1 .. MaxEmissions
    <3>1. Durable' \subseteq 1 .. emitted' /\ emitted' \in Nat
      BY <1>2 DEF FineCopy, Fine
    <3>2. emitted' <= MaxEmissions  BY DEF OutInv
    <3>3. QED  BY <2>3, <3>1, <3>2, CustodyAssumption
  <2>5. Box!Deliver(Content(i))
    BY <1>3, <2>1, <2>3 DEF Box!Deliver, Durable
  <2>6. QED  BY <2>4, <2>5 DEF Box!Next
<1>6. CASE ckpt' # ckpt
  <2>1. log' = log /\ HasCheckpoint' /\ Descends(ckpt', File)  BY <1>6 DEF FileGoes
  <2>2. File' = ckpt'  BY <2>1 DEF File, HasCheckpoint
  <2>3. File.failed = FALSE
    <3>1. HasCheckpoint => ~ckpt.failed  BY <1>6, HoldStep
    <3>2. HasCheckpoint => ckpt.failed \in BOOLEAN  BY StateFields DEF IInv, Custody
    <3>3. QED  BY <3>1, <3>2 DEF File, Fresh
  <2>4. /\ Len(Hist(File)) = Len(File.intents) /\ Len(Hist(File')) = Len(File'.intents)
    BY <1>1, <1>2, HistLength
  <2>5. /\ Len(File.intents) <= Len(File'.intents)
        /\ \A p \in 1 .. Len(File.intents) : Hist(File')[p] = Hist(File)[p]
        /\ Waiting(File') \cap (1 .. Len(File.intents)) \subseteq Waiting(File)
        /\ Refused(File) \subseteq Refused(File')
    BY <2>1, <2>2 DEF Descends, Descent
  <2>6. Box!Positions = 1 .. Len(File.intents)  BY <2>4 DEF Box!Positions, Hist
  <2>7. Box!Save
    BY <1>3, <2>1, <2>3, <2>4, <2>5, <2>6 DEF Box!Save, Hist, Waiting, Refused
  <2>8. QED  BY <2>7 DEF Box!Next
<1>7. QED  BY <1>4, <1>5, <1>6

LEMMA BoxInit == Init => Box!Init
<1> SUFFICES ASSUME Init PROVE Box!Init  OBVIOUS
<1>1. File = Fresh /\ log = {}  BY DEF Init, File, HasCheckpoint
<1>2. QED  BY <1>1 DEF Box!Init, Fresh, ContentsOf

\* Over crashes, restarts from files that lag behind, lost and late answers and
\* rejections, for every capacity and both deployments, the checkpoints are one
\* outbox: no recorded content is dropped, reordered, delivered ahead of an older
\* one, owed again after it was settled, or delivered after its refusal.
THEOREM CheckpointsAreAnOutbox == Spec => ImplementsOutbox
<1>1. Init => HoldInv  BY DEF Init, HoldInv, HasCheckpoint
<1>2. HoldInv /\ [Next]_vars => HoldInv'  BY HoldStep
<1>3. IInv /\ OutInv /\ [Next]_vars => OutInv'  BY OutStep
<1>4. IInv /\ IInv' /\ OutInv /\ OutInv' /\ HoldInv /\ [Next]_vars => [Box!Next]_Box!vars
  BY OutStep, BoxStep
<1>5. Spec => Box!Init /\ [][Box!Next]_Box!vars
  BY <1>1, <1>2, <1>3, <1>4, OutInit, BoxInit, InvariantIInv, PTL DEF Spec
<1>6. QED  BY <1>5 DEF ImplementsOutbox, Box!Spec
=============================================================================
