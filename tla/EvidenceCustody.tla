--------------------------- MODULE EvidenceCustody ---------------------------
(***************************************************************************)
(* Custody of evidence intents in the continuous opportunity runtime:      *)
(* admission, the evidence queue, delivery to the writer, the checkpoint    *)
(* file, crash, restore, shutdown and the terminal writer hold.             *)
(*                                                                         *)
(* One production process runs the loop                                     *)
(*     restore or start; forever: tick, sleep; finally: shutdown            *)
(* and a tick is  ingest; (write evidence | process other work)*; save.     *)
(* The checkpoint is saved at the end of a tick, at start, restore and      *)
(* shutdown and, only while a research producer is attached, after every    *)
(* emitted intent.  A crash may fall between any two actions.               *)
(*                                                                         *)
(* The writer is reduced to what one call can do to the durable records and *)
(* to the class of its answer; module ProductionWriter is the writer.       *)
(* Time (retry back-off, liveness horizon) is left out: an attempt that is  *)
(* not due ends the tick, which TickEnd may do at any loop boundary.        *)
(***************************************************************************)
EXTENDS Naturals, Sequences

CONSTANTS
  QueueCapacity,          \* config.queues.evidence
  HistoryCapacity,        \* config.evidence_history_capacity
  CheckpointEachIntent,   \* a research producer is attached and not terminal
  PayloadMayExceed,       \* some payloads fail the writer's preflight
  WriterRejects,          \* a write may come back as a permanent rejection
  MaxBatch,               \* intents one piece of non-evidence work emits
  MaxEmissions,           \* bound: intents emitted in a behaviour
  MaxStops,               \* bound: crashes and interrupts in a behaviour
  MaxRetries,             \* bound: transient results per queue head
  MaxReplacements,        \* bound: times one record is replaced by a compact one
  NoCheckpoint            \* the checkpoint file does not exist

ASSUME CustodyAssumption ==
  /\ QueueCapacity \in Nat \ {0} /\ HistoryCapacity \in Nat \ {0}
  /\ CheckpointEachIntent \in BOOLEAN /\ PayloadMayExceed \in BOOLEAN
  /\ WriterRejects \in BOOLEAN
  /\ MaxBatch \in Nat \ {0} /\ MaxEmissions \in Nat
  /\ MaxStops \in Nat /\ MaxRetries \in Nat /\ MaxReplacements \in Nat

VARIABLES
  phase,      \* where the process is in its loop
  batch,      \* intents the work in hand still has to emit
  mem,        \* the runtime's evidence state in memory
  ckpt,       \* the checkpoint file, or NoCheckpoint
  log,        \* durable records, the writer's side of the story
  sent,       \* intents whose write may still become durable later
  emitted,    \* intents built so far (each has content of its own)
  stops,
  overflowed  \* history: a compact rejection once met a full queue

vars == <<phase, batch, mem, ckpt, log, sent, emitted, stops, overflowed>>

-----------------------------------------------------------------------------
(* An intent's identity is a digest of its content.  <<k>> is the k-th      *)
(* intent built; a compact rejection of id, built after r retries, has the  *)
(* identity Append(id, r).  <<>> is the absent predecessor.                 *)
NoIntent == <<>>
Intent == [n : Nat, id : Seq(Nat), pred : Seq(Nat)]

State == [intents : Seq(Intent), queue : Seq(Intent), retries : Nat, owed : Nat,
          refusals : Seq(Intent), capacityRejections : Nat, failed : BOOLEAN]

ASSUME NoCheckpointAssumption == NoCheckpoint \notin State

Fresh == [intents |-> <<>>, queue |-> <<>>, retries |-> 0, owed |-> 0,
          refusals |-> <<>>, capacityRejections |-> 0, failed |-> FALSE]

LastId(m) ==
  IF m.intents = <<>> THEN NoIntent ELSE m.intents[Len(m.intents)].id

BuildIntent(m) ==
  [n |-> Len(m.intents) + 1, id |-> <<emitted + 1>>, pred |-> LastId(m)]

CompactRejection(i, retries) == [i EXCEPT !.id = Append(@, retries)]

QueueFull(m) == Len(m.queue) >= QueueCapacity
HistoryFull(m) == Len(m.intents) >= HistoryCapacity

\* _intents, _sequence and _last_intent_id move together with the queue.
Admit(m, i) ==
  [m EXCEPT !.intents = Append(@, i), !.queue = Append(@, i), !.owed = @ + 1]

\* Mutant: a refusal the monitor does not count.
RefuseUncounted(m, i) == [m EXCEPT !.refusals = Append(@, i)]

\* An explicit REJECTED_CAPACITY decision; the intent is not admitted.
Refuse(m, i) ==
  [m EXCEPT !.refusals = Append(@, i), !.capacityRejections = @ + 1]

\* The compact rejection is recorded as admitted before the full queue
\* refuses it; only the backpressure decision is left.
Overflow(m, i) ==
  [m EXCEPT !.intents = Append(@, i), !.refusals = Append(@, i)]

\* Mutant: the compact rejection is queued behind the record it replaces.
ReplaceBehind(m, i) ==
  [m EXCEPT !.intents[Len(m.intents)] = i, !.queue = Append(@, i), !.retries = 0]

\* Mutant: _intents and _last_intent_id keep the rejected intent.
ReplaceInQueueOnly(m, i) == [m EXCEPT !.queue[1] = i, !.retries = 0]

\* A terminal poison record gives its place to its compact rejection.
ReplaceHead(m, i) ==
  [m EXCEPT !.intents[Len(m.intents)] = i, !.queue[1] = i, !.retries = 0]

\* Mutant: any rejected record may be replaced.
AnyRecordIsHead(m, i) == TRUE

IsLineageHead(m, i) == i.n = Len(m.intents) /\ i.id = LastId(m)

\* Mutant: the pop and the acknowledgement both count as a drain.
DrainedTwice(m) ==
  [m EXCEPT !.queue = Tail(@), !.owed = @ - 2, !.retries = 0]

Drained(m) ==
  [m EXCEPT !.queue = Tail(@), !.owed = @ - 1, !.retries = 0]

\* What restore() demands of a checkpoint's writer monitor.
Restorable(c) ==
  /\ c.owed = Len(c.queue)
  /\ Len(c.refusals) <= c.capacityRejections

HasCheckpoint == ckpt # NoCheckpoint

-----------------------------------------------------------------------------
Init ==
  /\ phase = "Down" /\ batch = 0 /\ mem = Fresh /\ ckpt = NoCheckpoint
  /\ log = {} /\ sent = {} /\ emitted = 0 /\ stops = 0
  /\ overflowed = FALSE

Stop == phase' = "Down" /\ batch' = 0 /\ mem' = Fresh

\* An exception leaves tick() for the host's finally: shutdown().  Inside
\* shutdown it leaves the process, which saves nothing.
Unwind(m) ==
  IF phase = "Drain" THEN Stop
  ELSE phase' = "Drain" /\ batch' = 0 /\ mem' = m

Start ==
  /\ phase = "Down" /\ ~HasCheckpoint
  /\ phase' = "Idle" /\ mem' = Fresh /\ ckpt' = Fresh
  /\ UNCHANGED <<batch, log, sent, emitted, stops, overflowed>>

\* Mutant: restore brings the history back without the queue.
RestoreWithoutQueue ==
  /\ phase = "Down" /\ HasCheckpoint
  /\ Restorable(ckpt) /\ ~ckpt.failed
  /\ phase' = "Idle" /\ mem' = [ckpt EXCEPT !.queue = <<>>, !.owed = 0]
  /\ UNCHANGED <<batch, ckpt, log, sent, emitted, stops, overflowed>>

\* Mutant: restore queues the whole history again.
RestoreRequeued ==
  /\ phase = "Down" /\ HasCheckpoint
  /\ Restorable(ckpt) /\ ~ckpt.failed
  /\ phase' = "Idle"
  /\ mem' = [ckpt EXCEPT !.queue = ckpt.intents, !.owed = Len(ckpt.intents)]
  /\ UNCHANGED <<batch, ckpt, log, sent, emitted, stops, overflowed>>

\* Mutant: restore does not look at the terminal writer failure, and clears it.
RestoreHeld ==
  /\ phase = "Down" /\ HasCheckpoint /\ Restorable(ckpt)
  /\ phase' = "Idle" /\ mem' = [ckpt EXCEPT !.failed = FALSE]
  /\ UNCHANGED <<batch, ckpt, log, sent, emitted, stops, overflowed>>

\* A checkpoint that fails its cross-checks raises and the process ends; one
\* that holds a terminal writer failure restores as FAILED and exits at once.
Restore ==
  /\ phase = "Down" /\ HasCheckpoint
  /\ Restorable(ckpt) /\ ~ckpt.failed
  /\ phase' = "Idle" /\ mem' = ckpt
  /\ UNCHANGED <<batch, ckpt, log, sent, emitted, stops, overflowed>>

Crash ==
  /\ phase # "Down" /\ stops < MaxStops
  /\ Stop /\ stops' = stops + 1
  /\ UNCHANGED <<ckpt, log, sent, emitted, overflowed>>

\* Ingest flushes at most one provider-bound batch, hence one intent.
TickBegin ==
  /\ phase = "Idle"
  /\ phase' = "Tick"
  /\ \E k \in 0 .. 1 : k <= MaxEmissions - emitted /\ batch' = k
  /\ UNCHANGED <<mem, ckpt, log, sent, emitted, stops, overflowed>>

\* Other work is taken only when the evidence queue is empty.
BeginWork ==
  /\ phase \in {"Tick", "Drain"} /\ batch = 0
  /\ mem.queue = <<>> /\ ~mem.failed
  /\ \E k \in 1 .. MaxBatch : k <= MaxEmissions - emitted /\ batch' = k
  /\ UNCHANGED <<phase, mem, ckpt, log, sent, emitted, stops, overflowed>>

-----------------------------------------------------------------------------
(* _emit_intent: build, admit, and with a research producer save.           *)

Emitting ==
  /\ phase \in {"Tick", "Drain"} /\ batch > 0 /\ emitted < MaxEmissions
  /\ emitted' = emitted + 1

Admissible == ~mem.failed /\ ~HistoryFull(mem)

\* Mutant: the new intent waits for the end of the tick to be saved.
PublishUnsaved(m) ==
  /\ \/ mem' = m
     \/ m.queue # <<>> /\ mem' = [m EXCEPT !.failed = TRUE]
  /\ ckpt' = ckpt

\* An admission or a refusal ends by asking the liveness monitor, which may
\* impose the terminal hold while the queue is not empty.
Publish(m) ==
  /\ \/ mem' = m
     \/ m.queue # <<>> /\ mem' = [m EXCEPT !.failed = TRUE]
  /\ ckpt' = IF CheckpointEachIntent THEN mem' ELSE ckpt

\* A held runtime, a full history and a preflight that fails for the moment
\* admit nothing; none of them leaves a decision keyed by the sequence.
EmitDropped ==
  /\ Emitting
  /\ ~Admissible \/ PayloadMayExceed
  /\ mem' = mem /\ ckpt' = IF CheckpointEachIntent THEN mem ELSE ckpt
  /\ batch' = batch - 1
  /\ UNCHANGED <<phase, log, sent, stops, overflowed>>

EmitAdmitted ==
  /\ Emitting /\ Admissible /\ ~QueueFull(mem)
  /\ Publish(Admit(mem, BuildIntent(mem))) /\ batch' = batch - 1
  /\ UNCHANGED <<phase, log, sent, stops, overflowed>>

EmitRefused ==
  /\ Emitting /\ Admissible /\ QueueFull(mem)
  /\ Publish(Refuse(mem, BuildIntent(mem))) /\ batch' = batch - 1
  /\ UNCHANGED <<phase, log, sent, stops, overflowed>>

\* Preflight failed: the compact rejection is admitted instead and the
\* caller returns without emitting the rest of its batch.
EmitCompacted ==
  /\ PayloadMayExceed
  /\ Emitting /\ Admissible /\ ~QueueFull(mem)
  /\ Publish(Admit(mem, CompactRejection(BuildIntent(mem), 0)))
  /\ batch' = 0
  /\ UNCHANGED <<phase, log, sent, stops, overflowed>>

EmitOverflow ==
  /\ PayloadMayExceed
  /\ Emitting /\ Admissible /\ QueueFull(mem)
  /\ Unwind(Overflow(mem, CompactRejection(BuildIntent(mem), 0)))
  /\ overflowed' = TRUE
  /\ UNCHANGED <<ckpt, log, sent, stops>>

-----------------------------------------------------------------------------
(* _process_evidence: one call to the writer for the head of the queue.     *)

Writing ==
  /\ phase \in {"Tick", "Drain"} /\ batch = 0
  /\ mem.queue # <<>> /\ ~mem.failed

EndLoop == phase' = IF phase = "Tick" THEN "TickClose" ELSE "DrainClose"

\* The answer is lost, late or an error: the record may or may not be there.
UncertainCommit ==
  \/ log' = log \cup {Head(mem.queue)} /\ sent' = sent
  \/ log' = log /\ sent' = sent \cup {Head(mem.queue)}

WriteAccepted ==
  /\ Writing
  /\ log' = log \cup {Head(mem.queue)}
  /\ mem' = Drained(mem)
  /\ UNCHANGED <<phase, batch, ckpt, sent, emitted, stops, overflowed>>

\* Mutant: an attempt with a transient result still pops the queue.
WriteTransientDrains ==
  /\ Writing /\ mem.retries < MaxRetries
  /\ UncertainCommit
  /\ mem' = Drained(mem)
  /\ EndLoop
  /\ UNCHANGED <<batch, ckpt, emitted, stops, overflowed>>

WriteTransient ==
  /\ Writing /\ mem.retries < MaxRetries
  /\ UncertainCommit
  /\ mem' = [mem EXCEPT !.retries = @ + 1]
  /\ EndLoop
  /\ UNCHANGED <<batch, ckpt, emitted, stops, overflowed>>

WriteRejectedAtHead ==
  /\ WriterRejects
  /\ Writing /\ IsLineageHead(mem, Head(mem.queue))
  /\ Len(Head(mem.queue).id) <= MaxReplacements
  /\ UncertainCommit
  /\ mem' = ReplaceHead(mem, CompactRejection(Head(mem.queue), mem.retries))
  /\ UNCHANGED <<phase, batch, ckpt, emitted, stops, overflowed>>

\* "A terminal poison record is not the checkpoint lineage head."
WriteRejectedBehind ==
  /\ WriterRejects
  /\ Writing /\ ~IsLineageHead(mem, Head(mem.queue))
  /\ UncertainCommit
  /\ Unwind(mem)
  /\ UNCHANGED <<ckpt, emitted, stops, overflowed>>

\* An accepted or duplicate answer whose read-back fails: the hold is final,
\* the intent stays queued, and its record may well be there.
WriteIncorrect ==
  /\ Writing
  /\ log' \in {log, log \cup {Head(mem.queue)}}
  /\ mem' = [mem EXCEPT !.failed = TRUE]
  /\ EndLoop
  /\ UNCHANGED <<batch, ckpt, sent, emitted, stops, overflowed>>

LivenessTrip ==
  /\ phase \in {"Tick", "Drain"} /\ mem.queue # <<>> /\ ~mem.failed
  /\ mem' = [mem EXCEPT !.failed = TRUE]
  /\ UNCHANGED <<phase, batch, ckpt, log, sent, emitted, stops, overflowed>>

\* A writer thread whose caller has gone finishes its record.
LateCommit ==
  /\ \E i \in sent : log' = log \cup {i} /\ sent' = sent \ {i}
  /\ UNCHANGED <<phase, batch, mem, ckpt, emitted, stops, overflowed>>

-----------------------------------------------------------------------------
TickEnd ==
  /\ phase = "TickClose" \/ (phase = "Tick" /\ batch = 0)
  /\ ckpt' = mem
  /\ IF mem.failed THEN Stop ELSE phase' = "Idle" /\ UNCHANGED <<batch, mem>>
  /\ UNCHANGED <<log, sent, emitted, stops, overflowed>>

DrainEnd ==
  /\ phase = "DrainClose" \/ (phase = "Drain" /\ batch = 0)
  /\ ckpt' = mem
  /\ Stop
  /\ UNCHANGED <<log, sent, emitted, stops, overflowed>>

\* An interrupt, or an exception of a source: shutdown() drains and saves,
\* but returns at once when the runtime has already failed.
Interrupt ==
  /\ phase \in {"Idle", "Tick", "TickClose"} /\ stops < MaxStops
  /\ IF mem.failed THEN Stop
     ELSE phase' = "Drain" /\ batch' = 0 /\ UNCHANGED mem
  /\ stops' = stops + 1
  /\ UNCHANGED <<ckpt, log, sent, emitted, overflowed>>

Emit == EmitDropped \/ EmitAdmitted \/ EmitRefused \/ EmitCompacted \/ EmitOverflow

Write == \/ WriteAccepted \/ WriteTransient \/ WriteRejectedAtHead
         \/ WriteRejectedBehind \/ WriteIncorrect

Next ==
  \/ Start \/ Restore \/ Crash \/ Interrupt
  \/ TickBegin \/ BeginWork \/ TickEnd \/ DrainEnd
  \/ Emit \/ Write \/ LivenessTrip \/ LateCommit

Spec == Init /\ [][Next]_vars

(* The service manager restarts the process, the loop keeps ticking, work   *)
(* in hand is finished, and a writer asked for the same intent again and again *)
(* accepts it, or its replacement, at last.                                 *)
Fairness ==
  /\ WF_vars(Start) /\ WF_vars(Restore) /\ WF_vars(TickBegin)
  /\ WF_vars(Emit) /\ WF_vars(TickEnd) /\ WF_vars(DrainEnd)
  /\ \A k \in 1 .. MaxEmissions :
       SF_vars(WriteAccepted /\ Head(mem.queue).id[1] = k)

FairSpec == Spec /\ Fairness

-----------------------------------------------------------------------------
(* Properties.                                                              *)

TypeOK ==
  /\ phase \in {"Down", "Idle", "Tick", "TickClose", "Drain", "DrainClose"}
  /\ batch \in Nat /\ mem \in State /\ ckpt \in State \cup {NoCheckpoint}
  /\ log \subseteq Intent /\ sent \subseteq Intent
  /\ emitted \in Nat /\ stops \in Nat /\ overflowed \in BOOLEAN

Linked(m) ==
  \A k \in 1 .. Len(m.intents) :
    /\ m.intents[k].n = k
    /\ m.intents[k].pred = IF k = 1 THEN NoIntent ELSE m.intents[k - 1].id

QueueOfHistory(m) ==
  /\ \A k \in 1 .. Len(m.queue) :
       m.queue[k].n \in 1 .. Len(m.intents) /\ m.queue[k] = m.intents[m.queue[k].n]
  /\ \A j, k \in 1 .. Len(m.queue) : j < k => m.queue[j].n < m.queue[k].n
  /\ m.owed = Len(m.queue)

\* The intent at sequence k is still owed, is durable, or was refused by name.
Kept(m, k, durable) ==
  \/ \E j \in 1 .. Len(m.queue) : m.queue[j] = m.intents[k]
  \/ m.intents[k] \in durable
  \/ \E j \in 1 .. Len(m.refusals) : m.refusals[j] = m.intents[k]

NothingLost(m, durable) == \A k \in 1 .. Len(m.intents) : Kept(m, k, durable)

\* The admitted history is one chain: every intent, in memory and in the file
\* a restart reads, names the identity of the intent admitted just before it,
\* although a terminal rejection rewrites intents that others point at
\* (_replace_with_compact_rejection's lineage-head check).
LineageLinked == Linked(mem) /\ (HasCheckpoint => Linked(ckpt))

\* The evidence queue holds intents of the admitted history, oldest first,
\* and the monitor's arrivals less its drains is its length; the checkpoint,
\* written between any two of the steps that move them, agrees.
QueueIsOwedHistory ==
  QueueOfHistory(mem) /\ (HasCheckpoint => QueueOfHistory(ckpt))

\* Whatever the crash, the lost answer or the rejection, an admitted intent
\* is still queued, durable at the writer, or named by a retained refusal:
\* nothing the runtime (or a restart from the file) believes admitted is lost.
AdmittedIsKept ==
  NothingLost(mem, log) /\ (HasCheckpoint => NothingLost(ckpt, log))

\* Every durable record's predecessor is durable too, so the lineage can be
\* reconstructed from the evidence store alone (queue order, head-only writes,
\* replacement of the lineage head only), as long as no compact rejection was
\* recorded as admitted and then refused by a full queue.
DurableLineage ==
  ~overflowed =>
    \A r \in log : r.pred = NoIntent \/ \E p \in log : p.id = r.pred

\* Two durable records never share a sequence number: a restart reuses no
\* number whose record was already written.
OneRecordPerSequence == \A r, s \in log : r.n = s.n => r = s

\* A checkpoint the runtime wrote passes the cross-checks of its own restore,
\* unless a compact rejection met a full queue.
RestorableUnlessOverflow ==
  HasCheckpoint /\ ~overflowed => Restorable(ckpt)

\* The same without the exception: what a restart needs of every checkpoint.
CheckpointRestorable == HasCheckpoint => Restorable(ckpt)

\* Once the file records the terminal writer hold no step lifts it, changes
\* the saved custody, or writes a record that was not already in flight.
HoldSurvivesRestart ==
  [][HasCheckpoint /\ ckpt.failed =>
       ckpt' = ckpt /\ log' \subseteq log \cup sent]_vars

Owed(k) == HasCheckpoint /\ \E j \in 1 .. Len(ckpt.queue) : ckpt.queue[j].id[1] = k

\* An intent a checkpoint holds as owed is delivered at last (itself or its
\* compact rejection), or the runtime is in its explicit terminal hold.
OwedIsDelivered ==
  \A k \in 1 .. MaxEmissions :
    Owed(k) ~> (\E r \in log : r.id[1] = k) \/ (HasCheckpoint /\ ckpt.failed)

\* The checkpoint as an outbox: of an intent its content, of the queue the
\* sequence numbers.  A restart reads an empty outbox where no file is.
File == IF HasCheckpoint THEN ckpt ELSE Fresh

Content(i) == i.id[1]
ContentsOf(intents) == {Content(intents[j]) : j \in 1 .. Len(intents)}

Box == INSTANCE Outbox WITH
  Contents <- 1 .. MaxEmissions,
  saved    <- [k \in 1 .. Len(File.intents) |-> Content(File.intents[k])],
  owed     <- {File.queue[j].n : j \in 1 .. Len(File.queue)},
  refused  <- ContentsOf(File.refusals),
  durable  <- {Content(r) : r \in log},
  held     <- File.failed

\* Over crashes and restarts from files that lag behind, the checkpoints are
\* one outbox: no recorded content is dropped, reordered, delivered ahead of an
\* older one, owed again after it was settled, or delivered after its refusal.
ImplementsOutbox == Box!Spec
=============================================================================
