---------------------------- MODULE SymbolPipeline ----------------------------
(***************************************************************************)
(* From a market event or a discovery pulse to a composition: the bounded   *)
(* work queues of the continuous runtime, the provider-bound and deferred   *)
(* symbols beside them, event de-duplication, and what a crash, an          *)
(* exception or a shutdown leaves of them in the checkpoint.                *)
(*                                                                         *)
(* A loop of the process is  release deferred (regular session); schedule   *)
(* discovery; poll events; flush provider-bound; (discovery | readiness |   *)
(* composition)*; save.  The evidence queue stands before these queues: a   *)
(* writer that does not answer ends the loop, which TickEnd may do at any   *)
(* boundary.  Module EvidenceCustody has the evidence side.                 *)
(*                                                                         *)
(* Memory is lost in a crash, so a save in the middle of a piece of work is *)
(* part of the action that ends it: no state between the two differs after  *)
(* the crash.                                                              *)
(***************************************************************************)
EXTENDS Naturals, Sequences, FiniteSets

CONSTANTS
  Symbols,
  Events,                \* material events the event source can deliver
  EventWork,             \* the readiness work of each event
  ReadinessCapacity,     \* config.queues.readiness
  CompositionCapacity,   \* config.queues.composition
  MaxTracked,            \* config.maximum_tracked_symbols
  EventCapacity,         \* config.processed_event_capacity
  SaveMidWork,           \* a research producer is attached
  PulsePriority,         \* the priority of a discovery's readiness work
  MaxTime,               \* bound: the clock stops advancing
  MaxPulses,             \* bound: discovery requests
  MaxStops,              \* bound: crashes, interrupts and exceptions
  NoWork, NoCheckpoint

Sources == Events \cup {"pulse", "rollover"}

\* Two works of a key with equal fields have equal fingerprints.
Work == [key : Symbols, at : Nat, prio : Nat, src : Sources]
Flight == [queue : {"discovery", "readiness", "composition"}, work : Work \cup {NoWork}]

ASSUME PipelineAssumption ==
  /\ ReadinessCapacity \in Nat \ {0} /\ CompositionCapacity \in Nat \ {0}
  /\ MaxTracked \in Nat \ {0} /\ EventCapacity \in Nat \ {0}
  /\ EventWork \in [Events -> Work] /\ \A e \in Events : EventWork[e].src = e
  /\ SaveMidWork \in BOOLEAN /\ PulsePriority \in Nat
  /\ MaxTime \in Nat /\ MaxPulses \in Nat /\ MaxStops \in Nat
  /\ NoWork \notin Work \cup Flight

VARIABLES
  phase,     \* Down, Idle, Poll, Work or Drain
  todo,      \* requests the step in hand still has to enqueue
  mem,       \* the runtime's queues in memory
  ckpt,      \* the checkpoint file, or NoCheckpoint
  emitted,   \* events this process's event source has delivered
  session,   \* premarket or regular
  now, pulses, stops

vars == <<phase, todo, mem, ckpt, emitted, session, now, pulses, stops>>

-----------------------------------------------------------------------------
(* Ordered dictionaries of works: a sequence with one work per key.         *)

Has(q, k) == \E j \in 1 .. Len(q) : q[j].key = k
Place(q, k) == CHOOSE j \in 1 .. Len(q) : q[j].key = k
Without(q, k) ==
  IF Has(q, k)
  THEN [j \in 1 .. Len(q) - 1 |-> IF j < Place(q, k) THEN q[j] ELSE q[j + 1]]
  ELSE q

\* Assignment keeps the place of a key that is there.
Put(q, w) ==
  IF Has(q, w.key) THEN [q EXCEPT ![Place(q, w.key)] = w] ELSE Append(q, w)

\* Mutant: one entry too many stays.
TrimLate(q, n) == IF Len(q) > n THEN SubSeq(q, Len(q) - n, Len(q)) ELSE q

\* _trim_ordered: the oldest entries go.
Trim(q, n) == IF Len(q) > n THEN SubSeq(q, Len(q) - n + 1, Len(q)) ELSE q

\* The first of the works with the least (priority, requested_at).
Below(v, w) == v.prio < w.prio \/ (v.prio = w.prio /\ v.at < w.at)
Lowest(q) ==
  CHOOSE j \in 1 .. Len(q) : \A i \in 1 .. Len(q) :
    ~Below(q[i], q[j]) /\ (i < j => Below(q[j], q[i]))

\* Mutant: a full queue makes room whatever the priorities.
DecisionAnyPriority(q, w, capacity) ==
  IF Has(q, w.key)
  THEN LET old == q[Place(q, w.key)]
       IN  IF old = w THEN "COALESCED_DUPLICATE"
           ELSE IF w.at < old.at THEN "REJECTED_STALE" ELSE "REPLACED_OBSOLETE"
  ELSE IF Len(q) < capacity THEN "ENQUEUED" ELSE "EVICTED_LOWER_PRIORITY"

\* BoundedWorkQueue.enqueue decides ...
Decision(q, w, capacity) ==
  IF Has(q, w.key)
  THEN LET old == q[Place(q, w.key)]
       IN  IF old = w THEN "COALESCED_DUPLICATE"
           ELSE IF w.at < old.at THEN "REJECTED_STALE" ELSE "REPLACED_OBSOLETE"
  ELSE IF Len(q) < capacity THEN "ENQUEUED"
  ELSE IF w.prio > q[Lowest(q)].prio THEN "EVICTED_LOWER_PRIORITY"
  ELSE "REJECTED_CAPACITY"

\* ... and does it.
Enqueued(q, w, capacity) ==
  LET d == Decision(q, w, capacity)
  IN  IF d \in {"ENQUEUED", "REPLACED_OBSOLETE"} THEN Put(q, w)
      ELSE IF d = "EVICTED_LOWER_PRIORITY"
      THEN Append(Without(q, q[Lowest(q)].key), w)
      ELSE q

-----------------------------------------------------------------------------
(* open and ready are history: the symbols with an accepted readiness       *)
(* request not yet answered, and those found ready and not yet composed;    *)
(* lost holds the symbols whose work an exception took.                     *)
Fresh == [discovery |-> FALSE, readiness |-> <<>>, composition |-> <<>>,
          bound |-> <<>>, deferred |-> <<>>, seen |-> <<>>, flight |-> NoWork,
          open |-> {}, ready |-> {}, lost |-> {}]

InFlight(m, name, k) ==
  m.flight # NoWork /\ m.flight.queue = name /\ m.flight.work.key = k

Held(m, k) ==
  Has(m.readiness, k) \/ Has(m.bound, k) \/ Has(m.deferred, k) \/ InFlight(m, "readiness", k)

\* A symbol is answered when none of its requests is held any more.
Settle(m, keys) == [m EXCEPT !.open = {k \in @ : k \in keys => Held(m, k)}]

Keys(q) == {q[j].key : j \in 1 .. Len(q)}

\* A rejected readiness work, or the one displaced, is provider-bound.  What
\* the bound drops is given up without an answer.
RequestReadiness(m, w) ==
  LET q == m.readiness
      d == Decision(q, w, ReadinessCapacity)
      b == IF d = "REJECTED_CAPACITY" THEN Put(m.bound, w)
           ELSE IF d = "EVICTED_LOWER_PRIORITY" THEN Put(m.bound, q[Lowest(q)])
           ELSE m.bound
  IN  Settle([m EXCEPT !.readiness = Enqueued(q, w, ReadinessCapacity),
                       !.bound = Trim(b, MaxTracked),
                       !.open = @ \cup {w.key}, !.lost = @ \ {w.key}],
             Keys(b) \ Keys(Trim(b, MaxTracked)))

\* A composition work that is refused or displaced leaves only a
\* backpressure decision.
RequestComposition(m, w) ==
  LET q == m.composition
      c == Enqueued(q, w, CompositionCapacity)
  IN  [m EXCEPT !.composition = c, !.ready = (@ \cup {w.key}) \cap Keys(c)]

Defer(m, w) ==
  LET d == Append(Without(m.deferred, w.key), w)
  IN  Settle([m EXCEPT !.deferred = Trim(d, MaxTracked)],
             Keys(d) \ Keys(Trim(d, MaxTracked)))

\* The work in hand goes to the end of its queue.
Recovered(c) ==
  LET m == [c EXCEPT !.flight = NoWork]
      w == c.flight.work
  IN  IF c.flight = NoWork THEN m
      ELSE IF c.flight.queue = "discovery" THEN [m EXCEPT !.discovery = TRUE]
      ELSE IF c.flight.queue = "readiness" THEN [m EXCEPT !.readiness = Put(@, w)]
      ELSE [m EXCEPT !.composition = Put(@, w)]

\* restore() raises when a queue or the provider-bound state exceeds its bound.
Restorable(c) ==
  /\ Len(Recovered(c).readiness) <= ReadinessCapacity
  /\ Len(Recovered(c).composition) <= CompositionCapacity
  /\ Len(c.bound) <= MaxTracked

HasCheckpoint == ckpt # NoCheckpoint

-----------------------------------------------------------------------------
Init ==
  /\ phase = "Down" /\ todo = {} /\ mem = Fresh /\ ckpt = NoCheckpoint
  /\ emitted = {} /\ session = "premarket" /\ now = 1
  /\ pulses = 0 /\ stops = 0

Down == phase' = "Down" /\ todo' = {} /\ mem' = Fresh /\ emitted' = {}

Start ==
  /\ phase = "Down" /\ ~HasCheckpoint
  /\ phase' = "Idle" /\ ckpt' = Fresh
  /\ UNCHANGED <<todo, mem, emitted, session, now, pulses, stops>>

\* Mutant: the work in hand is not put back.
RestoreQueuesOnly ==
  /\ phase = "Down" /\ HasCheckpoint /\ Restorable(ckpt)
  /\ phase' = "Idle" /\ mem' = [ckpt EXCEPT !.flight = NoWork] /\ ckpt' = mem'
  /\ UNCHANGED <<todo, emitted, session, now, pulses, stops>>

Restore ==
  /\ phase = "Down" /\ HasCheckpoint /\ Restorable(ckpt)
  /\ phase' = "Idle" /\ mem' = Recovered(ckpt) /\ ckpt' = mem'
  /\ UNCHANGED <<todo, emitted, session, now, pulses, stops>>

Crash ==
  /\ phase # "Down" /\ stops < MaxStops /\ stops' = stops + 1
  /\ Down
  /\ UNCHANGED <<ckpt, session, now, pulses>>

Interrupt ==
  /\ phase \in {"Idle", "Poll", "Work"} /\ stops < MaxStops /\ stops' = stops + 1
  /\ phase' = "Drain" /\ todo' = {}
  /\ UNCHANGED <<mem, ckpt, emitted, session, now, pulses>>

OpenMarket ==
  /\ session = "premarket" /\ session' = "regular"
  /\ UNCHANGED <<phase, todo, mem, ckpt, emitted, now, pulses, stops>>

-----------------------------------------------------------------------------
(* The first half of a loop.                                                *)

\* Mutant: nothing is released when the regular session opens.
TickBeginUnreleased ==
  /\ phase = "Idle" /\ phase' = "Poll"
  /\ now' = IF now < MaxTime THEN now + 1 ELSE now
  /\ todo' = {}
  /\ \/ mem' = mem /\ pulses' = pulses
     \/ /\ pulses < MaxPulses /\ pulses' = pulses + 1
        /\ mem' = [mem EXCEPT !.discovery = TRUE]
  /\ UNCHANGED <<ckpt, emitted, session, stops>>

\* The discovery queue has one key: a second request replaces the first.
TickBegin ==
  /\ phase = "Idle" /\ phase' = "Poll"
  /\ now' = IF now < MaxTime THEN now + 1 ELSE now
  /\ todo' = IF session = "regular"
             THEN {[mem.deferred[j] EXCEPT !.at = now', !.src = "rollover"] :
                     j \in 1 .. Len(mem.deferred)}
             ELSE {}
  /\ \/ mem' = mem /\ pulses' = pulses
     \/ /\ pulses < MaxPulses /\ pulses' = pulses + 1
        /\ mem' = [mem EXCEPT !.discovery = TRUE]
  /\ UNCHANGED <<ckpt, emitted, session, stops>>

Release(w) ==
  /\ phase = "Poll" /\ w \in todo /\ todo' = todo \ {w}
  /\ LET d == Decision(mem.readiness, w, ReadinessCapacity)
         m == RequestReadiness(mem, w)
     IN  mem' = IF d \in {"REJECTED_CAPACITY", "REJECTED_STALE"} THEN m
                ELSE [m EXCEPT !.deferred = Without(@, w.key)]
  /\ UNCHANGED <<phase, ckpt, emitted, session, now, pulses, stops>>

\* submit_event remembers the event, then enqueues its work.
SubmitEvent(e) ==
  /\ phase = "Poll" /\ todo = {}
  /\ e \notin emitted /\ EventWork[e].at <= now
  /\ emitted' = emitted \cup {e}
  /\ mem' = IF \E j \in 1 .. Len(mem.seen) : mem.seen[j] = e THEN mem
            ELSE RequestReadiness([mem EXCEPT !.seen = Trim(Append(@, e), EventCapacity)],
                                  EventWork[e])
  /\ UNCHANGED <<phase, todo, ckpt, session, now, pulses, stops>>

\* The denominator row of the provider-bound symbols is emitted (and saved)
\* before they are cleared; a refused or failed emission keeps them.
FlushProviderBound ==
  /\ phase = "Poll" /\ todo = {} /\ phase' = "Work"
  /\ ckpt' = IF SaveMidWork /\ mem.bound # <<>> THEN mem ELSE ckpt
  /\ mem' \in {mem, Settle([mem EXCEPT !.bound = <<>>], Keys(mem.bound))}
  /\ UNCHANGED <<todo, emitted, session, now, pulses, stops>>

-----------------------------------------------------------------------------
(* _process_one, by queue.                                                  *)

Processing == phase \in {"Work", "Drain"} /\ todo = {}

\* Mutant: the save names the work and not its queue.
SaveWithoutQueue(m, name, w) ==
  ckpt' = IF SaveMidWork THEN [m EXCEPT !.flight = w] ELSE ckpt

\* A save while work is in hand names the work.
SaveWith(m, name, w) ==
  ckpt' = IF SaveMidWork THEN [m EXCEPT !.flight = [queue |-> name, work |-> w]] ELSE ckpt

\* A failed or unrecorded pulse, and one of too many symbols, requests nothing.
ProcessDiscovery ==
  /\ Processing /\ mem.discovery
  /\ mem' = [mem EXCEPT !.discovery = FALSE]
  /\ SaveWith(mem', "discovery", NoWork)
  /\ \E promoted \in {S \in SUBSET Symbols : Cardinality(S) <= MaxTracked} :
       todo' = {[key |-> s, at |-> now, prio |-> PulsePriority, src |-> "pulse"] :
                  s \in promoted}
  /\ UNCHANGED <<phase, emitted, session, now, pulses, stops>>

Promote(w) ==
  /\ phase \in {"Work", "Drain"} /\ w \in todo /\ todo' = todo \ {w}
  /\ mem' = RequestReadiness(mem, w)
  /\ UNCHANGED <<phase, ckpt, emitted, session, now, pulses, stops>>

ReadinessHead == Head(mem.readiness)
ReadinessPopped == [mem EXCEPT !.readiness = Tail(@)]

Evaluating == Processing /\ ~mem.discovery /\ mem.readiness # <<>>

EvaluateFailed ==
  /\ Evaluating
  /\ SaveWith(ReadinessPopped, "readiness", ReadinessHead)
  /\ mem' = Settle(ReadinessPopped, {ReadinessHead.key})
  /\ UNCHANGED <<phase, todo, emitted, session, now, pulses, stops>>

EvaluateDeferred ==
  /\ Evaluating /\ session = "premarket"
  /\ mem' = Defer(ReadinessPopped, ReadinessHead)
  /\ SaveWith(mem', "readiness", ReadinessHead)
  /\ UNCHANGED <<phase, todo, emitted, session, now, pulses, stops>>

EvaluateReady ==
  /\ Evaluating
  /\ LET w == ReadinessHead
         m == [ReadinessPopped EXCEPT !.deferred = Without(@, w.key)]
     IN  mem' = RequestComposition(Settle(m, {w.key}), [w EXCEPT !.at = now])
  /\ UNCHANGED <<phase, todo, ckpt, emitted, session, now, pulses, stops>>

Composing == Processing /\ ~mem.discovery /\ mem.readiness = <<>> /\ mem.composition # <<>>
CompositionPopped == [mem EXCEPT !.composition = Tail(@)]

\* Composed, failed or a duplicate; the last saves nothing.
Compose ==
  /\ Composing
  /\ LET w == Head(mem.composition)
     IN  /\ mem' = [CompositionPopped EXCEPT !.ready = @ \ {w.key}]
         /\ SaveWith(CompositionPopped, "composition", w) \/ UNCHANGED ckpt
  /\ UNCHANGED <<phase, todo, emitted, session, now, pulses, stops>>

\* An exception or an interrupt, before or after a save, leaves _process_one,
\* whose finally clears the work in hand; the host then shuts the runtime
\* down.  Inside shutdown it ends the process.
Raise(popped, name, w, after) ==
  /\ stops < MaxStops /\ stops' = stops + 1
  /\ SaveWith(popped, name, w) \/ UNCHANGED ckpt
  /\ IF phase = "Drain" THEN Down
     ELSE phase' = "Drain" /\ mem' = after /\ UNCHANGED <<todo, emitted>>
  /\ UNCHANGED <<session, now, pulses>>

ReadinessRaises ==
  /\ Evaluating
  /\ Raise(ReadinessPopped, "readiness", ReadinessHead,
           [ReadinessPopped EXCEPT !.lost = @ \cup {ReadinessHead.key}])

CompositionRaises ==
  /\ Composing
  /\ LET w == Head(mem.composition)
     IN  Raise(CompositionPopped, "composition", w,
               [CompositionPopped EXCEPT !.ready = @ \ {w.key}])

-----------------------------------------------------------------------------
TickEnd ==
  /\ phase = "Work" /\ todo = {}
  /\ phase' = "Idle" /\ ckpt' = mem
  /\ UNCHANGED <<todo, mem, emitted, session, now, pulses, stops>>

DrainEnd ==
  /\ phase = "Drain" /\ todo = {}
  /\ ckpt' = mem /\ Down
  /\ UNCHANGED <<session, now, pulses, stops>>

Evaluate == EvaluateFailed \/ EvaluateDeferred \/ EvaluateReady

Loop ==
  \/ Start \/ Restore \/ TickBegin \/ FlushProviderBound \/ TickEnd \/ DrainEnd
  \/ \E w \in todo : Release(w) \/ Promote(w)

Next ==
  \/ Loop \/ Crash \/ Interrupt \/ OpenMarket
  \/ \E e \in Events : SubmitEvent(e)
  \/ ProcessDiscovery \/ Evaluate \/ Compose
  \/ ReadinessRaises \/ CompositionRaises

Spec == Init /\ [][Next]_vars

(* The process is restarted and its loop runs, the market opens, and a       *)
(* writer that keeps coming back leaves the loop time for its work.          *)
Fairness ==
  /\ WF_vars(Loop) /\ WF_vars(OpenMarket)
  /\ SF_vars(ProcessDiscovery) /\ SF_vars(Evaluate)

FairSpec == Spec /\ Fairness

-----------------------------------------------------------------------------
(* Properties.                                                              *)

Record == [discovery : BOOLEAN, readiness : Seq(Work), composition : Seq(Work),
           bound : Seq(Work), deferred : Seq(Work), seen : Seq(Events),
           flight : Flight \cup {NoWork}, open : SUBSET Symbols,
           ready : SUBSET Symbols, lost : SUBSET Symbols]

TypeOK ==
  /\ phase \in {"Down", "Idle", "Poll", "Work", "Drain"}
  /\ todo \subseteq Work /\ mem \in Record /\ ckpt \in Record \cup {NoCheckpoint}
  /\ emitted \subseteq Events /\ session \in {"premarket", "regular"}
  /\ now \in Nat /\ pulses \in Nat /\ stops \in Nat

Keyed(q) == \A i, j \in 1 .. Len(q) : q[i].key = q[j].key => i = j

Bounded(m) ==
  /\ Keyed(m.readiness) /\ Len(m.readiness) <= ReadinessCapacity
  /\ Keyed(m.composition) /\ Len(m.composition) <= CompositionCapacity
  /\ Keyed(m.bound) /\ Len(m.bound) <= MaxTracked
  /\ Keyed(m.deferred) /\ Len(m.deferred) <= MaxTracked
  /\ Len(m.seen) <= EventCapacity

\* The queues and the histories hold one work per symbol within their bounds,
\* and a checkpoint, saved with or without work in hand, still does after
\* that work is put back: restore() accepts what the runtime saved.
BoundedAndRestorable ==
  Bounded(mem) /\ (HasCheckpoint => Bounded(ckpt) /\ Bounded(Recovered(ckpt)))

Remembered(m) ==
  /\ \A k \in m.open : Held(m, k) \/ k \in m.lost
  /\ \A k \in m.ready : Has(m.composition, k) \/ InFlight(m, "composition", k)

\* A symbol whose readiness request was accepted (an event is then never taken
\* again) stays queued, deferred, provider-bound or in hand until it is
\* evaluated, its provider-bound row is emitted or a bound drops it, and one
\* found ready stays queued for composition: in memory and in every
\* checkpoint.  Only an exception in the middle of its work may take it.
NothingForgotten == Remembered(mem) /\ (HasCheckpoint => Remembered(ckpt))

\* A request becomes provider-bound only when every request then in the queue
\* has at least its priority: a full queue never gives up the more urgent one.
BoundHasLeastPriority ==
  [][\A j \in 1 .. Len(mem'.bound) :
       (\A i \in 1 .. Len(mem.bound) : mem.bound[i] # mem'.bound[j]) /\ phase # "Down" =>
         \A i \in 1 .. Len(mem'.readiness) : mem'.readiness[i].prio >= mem'.bound[j].prio]_vars

Saved == IF HasCheckpoint THEN ckpt ELSE Fresh

\* A request a checkpoint holds is answered at last, or is provider-bound
\* (whose flush may fail for ever), or was taken by an exception.
RequestAnswered(k) ==
  (k \in Saved.open) ~>
    (k \notin Saved.open \/ Has(Saved.bound, k) \/ k \in Saved.lost)
=============================================================================
