-------------------------- MODULE CompositionCommit --------------------------
(***************************************************************************)
(* A composition of the continuous runtime, from the readiness evaluation*)
(* that asks for it to its pair of evidence records.                     *)
(*                                                                       *)
(* LiveCompositionSource.compose works on a disposable copy of three     *)
(* ledgers (lifecycle, breakouts, producer) and publishes the copy through*)
(* a rollback journal: the originals are backed up, the journal names them,*)
(* the ledgers are replaced one after another, the journal is removed.  The*)
(* runtime then marks the cycle terminal, emits its evidence and produces*)
(* its denominator.  Module SymbolPipeline has the queues before, module *)
(* EvidenceCustody the delivery after; here an intent the runtime admitted*)
(* is a record of its log.  Work is taken only when nothing waits for the*)
(* writer, so an intent is refused only by a full history.               *)
(*                                                                       *)
(* Two memories are bounded: the runtime forgets its oldest terminal     *)
(* cycles, the producer's ledger its oldest records.                     *)
(***************************************************************************)
EXTENDS Naturals, Sequences, FiniteSets

CONSTANTS
  Symbols,
  MaxMaterial,       \* bound: different evidence of a symbol
  MaxCycles,         \* bound: cycles made from new evidence or a new cutoff
  QueueCapacity,     \* of the composition queue
  HistoryCapacity,   \* config.evidence_history_capacity
  TerminalCapacity,  \* config.processed_event_capacity
  ProducerCapacity,  \* _MAX_RECORDS of the producer's ledger
  SaveMidWork,       \* a research producer is attached
  MaxFaults,         \* bound: file operations of a publication that fail, and
                     \* crashes, interrupts and exceptions of the runtime
  NoWork, NoJournal

\* What is composed: a symbol and the evidence of it.
Work == [symbol : Symbols, material : 1 .. MaxMaterial]

\* A cycle's identity is the fingerprint of its evidence and its cutoff; cycles
\* are numbered in the order of their cutoffs.
Cycle == 1 .. MaxCycles

\* "denominator" also stands for the record of its failure.
Kinds == {"composition", "rejection", "denominator"}
Evidence == [kind : Kinds, cycle : Cycle]

\* _authoritative_paths: candidate lifecycle, sequential breakouts, producer.
Ledgers == 1 .. 3
Producer == 3
Contents == [Ledgers -> SUBSET Cycle]

ASSUME CompositionAssumption ==
  /\ MaxMaterial \in Nat /\ MaxCycles \in Nat /\ QueueCapacity \in Nat
  /\ HistoryCapacity \in Nat
  /\ TerminalCapacity \in Nat \ {0} /\ ProducerCapacity \in Nat \ {0}
  /\ SaveMidWork \in BOOLEAN /\ MaxFaults \in Nat
  /\ NoWork \notin Work /\ NoJournal \notin Contents

VARIABLES
  phase,     \* Down, Recover, Idle, Journal, Publish, Rollback, Record or Pair
  files,     \* the cycles each ledger file holds
  journal,   \* the backed-up ledgers the journal names, or NoJournal
  preview,   \* the ledgers the composition in hand was staged from
  cycle,     \* its cycle, or 0
  made,      \* the evidence each cycle was made from
  done,      \* ledgers written by the publication, rollback or recovery
  mem,       \* the runtime in memory
  ckpt,      \* its checkpoint
  live,      \* symbols whose queued request has this process's latest inputs
  damaged,   \* history: a rollback was given up or skipped
  faults

staged == <<preview, cycle, done>>
vars == <<phase, files, journal, staged, made, mem, ckpt, live, damaged, faults>>

-----------------------------------------------------------------------------
\* queue is the composition queue (0: no request of the symbol), flight the work
\* in hand; lost is history, the cycles an exception took.
Fresh == [queue |-> [s \in Symbols |-> 0], terminal |-> <<>>, log |-> <<>>,
          flight |-> NoWork, lost |-> {}]

NoLedgers == [i \in Ledgers |-> {}]

\* The staged copy is a temporary directory.
Discard == preview' = NoLedgers /\ cycle' = 0 /\ done' = 0

\* The ledger holds the cycle, or is full of newer ones.
Remembers(ledger, c) ==
  \/ c \in ledger
  \/ Cardinality(ledger) >= ProducerCapacity /\ \A d \in ledger : d > c

\* The lasting ledgers hold the same cycles, the producer's the newest of them.
Agree(ledgers) ==
  /\ ledgers[1] = ledgers[2] /\ ledgers[Producer] \subseteq ledgers[1]
  /\ \A c \in ledgers[1] : Remembers(ledgers[Producer], c)

Oldest(ledger) == {c \in ledger : \A d \in ledger : c <= d}

\* The producer's ledger with the cycle c: a record that is there is found, a
\* new one displaces the oldest of a full ledger.
Kept(ledger, c) ==
  IF c \in ledger \/ Cardinality(ledger) < ProducerCapacity THEN ledger \cup {c}
  ELSE (ledger \ Oldest(ledger)) \cup {c}

\* The lifecycle and breakout ledgers are append-only.
Gained(i, ledger, c) == IF i = Producer THEN Kept(ledger, c) ELSE ledger \cup {c}

\* The work in hand is queued again.
Recovered(c) ==
  [c EXCEPT !.flight = NoWork,
            !.queue = [s \in Symbols |->
                         IF c.flight # NoWork /\ c.flight.symbol = s
                         THEN c.flight.material ELSE @[s]]]

Admit(log, kind, c) ==
  IF Len(log) < HistoryCapacity THEN Append(log, [kind |-> kind, cycle |-> c]) ELSE log

In(q) == {q[i] : i \in 1 .. Len(q)}

\* _process_one's finally.
Finished(m) == [m EXCEPT !.flight = NoWork]

SaveWith(m) == ckpt' = IF SaveMidWork THEN m ELSE ckpt

Init ==
  /\ phase = "Down" /\ files = NoLedgers /\ journal = NoJournal
  /\ preview = NoLedgers /\ cycle = 0 /\ made = <<>> /\ done = 0
  /\ mem = Fresh /\ ckpt = Fresh /\ live = {}
  /\ damaged = FALSE /\ faults = 0

-----------------------------------------------------------------------------
(* A process starts: the coordinator rolls an interrupted publication back, *)
(* then the runtime restores its checkpoint.                                *)

Start ==
  /\ phase = "Down" /\ phase' = "Recover" /\ done' = 0
  /\ UNCHANGED <<files, journal, preview, cycle, made, mem, ckpt, live, damaged, faults>>

Recover ==
  /\ phase = "Recover" /\ journal # NoJournal /\ done < 3
  /\ done' = done + 1 /\ files' = [files EXCEPT ![done'] = journal[done']]
  /\ UNCHANGED <<phase, journal, preview, cycle, made, mem, ckpt, live, damaged, faults>>

\* Mutant: the checkpoint's terminal cycles are not restored.
RestoreWithoutTerminal ==
  /\ phase = "Recover" /\ (journal = NoJournal \/ done = 3)
  /\ phase' = "Idle" /\ journal' = NoJournal
  /\ mem' = [Recovered(ckpt) EXCEPT !.terminal = <<>>] /\ ckpt' = mem'
  /\ Discard
  /\ UNCHANGED <<files, made, live, damaged, faults>>

Restore ==
  /\ phase = "Recover" /\ (journal = NoJournal \/ done = 3)
  /\ phase' = "Idle" /\ journal' = NoJournal
  /\ mem' = Recovered(ckpt) /\ ckpt' = mem'
  /\ Discard
  /\ UNCHANGED <<files, made, live, damaged, faults>>

\* "Interrupted composition could not be rolled back safely."
RecoverFault ==
  /\ phase = "Recover" /\ journal # NoJournal
  /\ faults < MaxFaults /\ faults' = faults + 1
  /\ phase' = "Down"
  /\ Discard
  /\ UNCHANGED <<files, journal, made, mem, ckpt, live, damaged>>

Crash ==
  /\ phase # "Down" /\ faults < MaxFaults /\ faults' = faults + 1
  /\ phase' = "Down" /\ mem' = Fresh /\ live' = {}
  /\ Discard
  /\ UNCHANGED <<files, journal, made, ckpt, damaged>>

\* The save that ends a tick or a shutdown.
Save ==
  /\ phase = "Idle" /\ ckpt' = mem
  /\ UNCHANGED <<phase, files, journal, staged, made, mem, live, damaged, faults>>

-----------------------------------------------------------------------------
(* LiveMarketDataSource.evaluate replaces the inputs of the symbol, whatever *)
(* it then answers; a ready symbol's request replaces the queued one.        *)

Queued == {s \in Symbols : mem.queue[s] # 0}

\* In a full queue the request takes the place of a less urgent one.
Enqueued(s, m) ==
  IF s \in Queued \/ Cardinality(Queued) < QueueCapacity
  THEN {[mem.queue EXCEPT ![s] = m]}
  ELSE {[mem.queue EXCEPT ![s] = m, ![t] = 0] : t \in Queued}

Ready(s) ==
  /\ phase = "Idle"
  /\ \E m \in 1 .. MaxMaterial : \E q \in Enqueued(s, m) :
       /\ mem' = [mem EXCEPT !.queue = q]
       /\ live' = {t \in live \cup {s} : q[t] # 0}
  /\ UNCHANGED <<phase, files, journal, staged, made, ckpt, damaged, faults>>

\* Not ready, failed, or refused by a full queue: the queued request, if there is
\* one, is no longer of the latest inputs.
NotReady(s) ==
  /\ phase = "Idle" /\ mem.queue[s] # 0 /\ live' = live \ {s}
  /\ UNCHANGED <<phase, files, journal, staged, made, mem, ckpt, damaged, faults>>

-----------------------------------------------------------------------------
(* LiveCompositionSource.compose.                                           *)

Popped(s) ==
  [mem EXCEPT !.queue[s] = 0, !.flight = [symbol |-> s, material |-> mem.queue[s]]]

\* A record of the same evidence makes the cycle again, with its own cutoff;
\* evidence the ledger does not know, or forgot, makes a new one.
Composed(w) ==
  LET known == {c \in files[Producer] : made[c] = w}
  IN  \/ cycle' \in known /\ UNCHANGED made
      \/ /\ known = {} /\ Len(made) < MaxCycles
         /\ made' = Append(made, w) /\ cycle' = Len(made) + 1

\* The inputs are gone (a restart) or not those the request was made from, or
\* the evaluation raises: nothing was published.
StageFails(s) ==
  /\ phase = "Idle" /\ mem.queue[s] # 0
  /\ SaveWith(Popped(s)) /\ mem' = Finished(Popped(s)) /\ live' = live \ {s}
  /\ UNCHANGED <<phase, files, journal, staged, made, damaged, faults>>

\* Mutant: the work in hand is not named.
StageUnnamed(s) ==
  /\ phase = "Idle" /\ mem.queue[s] # 0 /\ s \in live
  /\ mem' = [mem EXCEPT !.queue[s] = 0] /\ preview' = files /\ phase' = "Journal"
  /\ Composed([symbol |-> s, material |-> mem.queue[s]]) /\ live' = live \ {s}
  /\ UNCHANGED <<files, journal, done, ckpt, damaged, faults>>

Stage(s) ==
  /\ phase = "Idle" /\ mem.queue[s] # 0 /\ s \in live
  /\ mem' = Popped(s) /\ preview' = files /\ phase' = "Journal"
  /\ Composed([symbol |-> s, material |-> mem.queue[s]]) /\ live' = live \ {s}
  /\ UNCHANGED <<files, journal, done, ckpt, damaged, faults>>

\* Mutant: a journal left behind by an earlier composition stands.
WriteJournalOnce ==
  /\ phase = "Journal" /\ phase' = "Publish" /\ done' = 0
  /\ journal' = IF journal = NoJournal THEN preview ELSE journal
  /\ UNCHANGED <<files, preview, cycle, made, mem, ckpt, live, damaged, faults>>

\* Backups first; the journal appears in one step.
WriteJournal ==
  /\ phase = "Journal" /\ phase' = "Publish" /\ done' = 0 /\ journal' = preview
  /\ UNCHANGED <<files, preview, cycle, made, mem, ckpt, live, damaged, faults>>

Publish ==
  /\ phase = "Publish" /\ done < 3
  /\ done' = done + 1
  /\ files' = [files EXCEPT ![done'] = Gained(done', preview[done'], cycle)]
  /\ UNCHANGED <<phase, journal, preview, cycle, made, mem, ckpt, live, damaged, faults>>

\* Mutant: the journal of a finished publication is not removed.
PublishedKeepingJournal ==
  /\ phase = "Publish" /\ done = 3
  /\ phase' = "Record" /\ journal' = journal
  /\ preview' = NoLedgers /\ done' = 0
  /\ UNCHANGED <<files, cycle, made, mem, ckpt, live, damaged, faults>>

Published ==
  /\ phase = "Publish" /\ done = 3
  /\ phase' = "Record" /\ journal' = NoJournal
  /\ preview' = NoLedgers /\ done' = 0
  /\ UNCHANGED <<files, cycle, made, mem, ckpt, live, damaged, faults>>

Publishing == phase \in {"Journal", "Publish"}

\* A copy, a replacement or the final read of a ledger fails.
PublishFault ==
  /\ Publishing /\ faults < MaxFaults /\ faults' = faults + 1
  /\ phase' = "Rollback" /\ done' = 0
  /\ UNCHANGED <<files, journal, preview, cycle, made, mem, ckpt, live, damaged>>

Rollback ==
  /\ phase = "Rollback" /\ done < 3
  /\ done' = done + 1 /\ files' = [files EXCEPT ![done'] = preview[done']]
  /\ UNCHANGED <<phase, journal, preview, cycle, made, mem, ckpt, live, damaged, faults>>

\* The composition is a failure of its symbol.
Failed == phase' = "Idle" /\ SaveWith(mem) /\ mem' = Finished(mem) /\ Discard

\* Mutant: the journal goes as soon as the rollback begins.
RolledBackEarly ==
  /\ phase = "Rollback"
  /\ Failed /\ journal' = NoJournal
  /\ UNCHANGED <<files, made, live, damaged, faults>>

RolledBack ==
  /\ phase = "Rollback" /\ done = 3
  /\ Failed /\ journal' = NoJournal
  /\ UNCHANGED <<files, made, live, damaged, faults>>

\* "Composition publication and rollback both failed": the journal stays, and
\* so does the process.
RollbackFault ==
  /\ phase = "Rollback" /\ faults < MaxFaults /\ faults' = faults + 1
  /\ Failed /\ damaged' = (damaged \/ ~Agree(files))
  /\ UNCHANGED <<files, journal, made, live>>

\* The journal cannot be removed after the publication or the rollback.
CleanupFault ==
  /\ phase \in {"Publish", "Rollback"} /\ done = 3
  /\ faults < MaxFaults /\ faults' = faults + 1
  /\ Failed
  /\ UNCHANGED <<files, journal, made, live, damaged>>

\* KeyboardInterrupt is no Exception: nothing is rolled back, and the finally
\* clause removes the journal and the backups.  The host then drains.
Interrupt ==
  /\ Publishing \/ phase = "Rollback"
  /\ faults < MaxFaults /\ faults' = faults + 1
  /\ phase' = "Idle" /\ mem' = Finished(mem) /\ journal' = NoJournal
  /\ damaged' = (damaged \/ ~Agree(files))
  /\ Discard
  /\ UNCHANGED <<files, made, ckpt, live>>

-----------------------------------------------------------------------------
(* _process_composition, with the result in hand.                           *)

RecordDuplicate ==
  /\ phase = "Record" /\ cycle \in In(mem.terminal)
  /\ phase' = "Idle" /\ mem' = Finished(mem) /\ Discard
  /\ UNCHANGED <<files, journal, made, ckpt, live, damaged, faults>>

\* _trim_ordered: the oldest terminal cycle makes room.
Trimmed(q, c) == IF Len(q) < TerminalCapacity THEN Append(q, c) ELSE Append(Tail(q), c)

Terminal == [mem EXCEPT !.terminal = Trimmed(@, cycle)]

\* Mutant: the checkpoint is saved before the evidence is admitted.
RecordSavedFirst ==
  /\ phase = "Record" /\ cycle \notin In(mem.terminal) /\ phase' = "Pair"
  /\ mem' = [Terminal EXCEPT !.log = Admit(@, "composition", cycle)]
  /\ SaveWith(Terminal)
  /\ UNCHANGED <<files, journal, staged, made, live, damaged, faults>>

Record ==
  /\ phase = "Record" /\ cycle \notin In(mem.terminal) /\ phase' = "Pair"
  /\ mem' = [Terminal EXCEPT !.log = Admit(@, "composition", cycle)]
  /\ SaveWith(mem')
  /\ UNCHANGED <<files, journal, staged, made, live, damaged, faults>>

\* Mutant: the caller goes on to the denominator.
RecordCompactThenPair ==
  /\ phase = "Record" /\ cycle \notin In(mem.terminal) /\ phase' = "Pair"
  /\ Len(mem.log) < HistoryCapacity
  /\ LET m == [Terminal EXCEPT !.log = Admit(@, "rejection", cycle)]
     IN  SaveWith(m) /\ mem' = m
  /\ UNCHANGED <<files, journal, staged, made, live, damaged, faults>>

\* The payload fails the preflight: its compact rejection ends the work.
RecordCompact ==
  /\ phase = "Record" /\ cycle \notin In(mem.terminal) /\ phase' = "Idle" /\ Discard
  /\ Len(mem.log) < HistoryCapacity
  /\ LET m == [Terminal EXCEPT !.log = Admit(@, "rejection", cycle)]
     IN  SaveWith(m) /\ mem' = Finished(m)
  /\ UNCHANGED <<files, journal, made, live, damaged, faults>>

\* The denominator, or the failure of its source or of its payload.
Pair ==
  /\ phase = "Pair" /\ phase' = "Idle" /\ Discard
  /\ LET m == [mem EXCEPT !.log = Admit(@, "denominator", cycle)]
     IN  SaveWith(m) /\ mem' = Finished(m)
  /\ UNCHANGED <<files, journal, made, live, damaged, faults>>

\* An interrupt, or a full setup or plan history after the cycle is terminal.
Raises ==
  /\ phase \in {"Record", "Pair"} /\ faults < MaxFaults /\ faults' = faults + 1
  /\ phase' = "Idle" /\ Discard
  /\ \/ mem' = Finished(mem)
     \/ /\ phase = "Record" /\ cycle \notin In(mem.terminal)
        /\ mem' = Finished([Terminal EXCEPT !.lost = @ \cup {cycle}])
  /\ UNCHANGED <<files, journal, made, ckpt, live, damaged>>

-----------------------------------------------------------------------------
Next ==
  \/ Start \/ Recover \/ Restore \/ RecoverFault \/ Crash \/ Save
  \/ \E s \in Symbols : Ready(s) \/ NotReady(s) \/ StageFails(s) \/ Stage(s)
  \/ WriteJournal \/ Publish \/ Published \/ PublishFault
  \/ Rollback \/ RolledBack \/ RollbackFault \/ CleanupFault \/ Interrupt
  \/ RecordDuplicate \/ Record \/ RecordCompact \/ Pair \/ Raises

Spec == Init /\ [][Next]_vars

-----------------------------------------------------------------------------
(* Properties.                                                              *)

Memory == [queue : [Symbols -> 0 .. MaxMaterial], terminal : Seq(Cycle),
           log : Seq(Evidence), flight : Work \cup {NoWork}, lost : SUBSET Cycle]

TypeOK ==
  /\ phase \in {"Down", "Recover", "Idle", "Journal", "Publish", "Rollback", "Record", "Pair"}
  /\ files \in Contents /\ journal \in Contents \cup {NoJournal} /\ preview \in Contents
  /\ cycle \in Cycle \cup {0} /\ made \in Seq(Work) /\ Len(made) <= MaxCycles
  /\ done \in 0 .. 3 /\ mem \in Memory /\ ckpt \in Memory
  /\ live \subseteq Symbols
  /\ damaged \in BOOLEAN /\ faults \in Nat
  /\ phase \in {"Journal", "Publish", "Rollback", "Record", "Pair"} =>
       cycle # 0 /\ mem.flight # NoWork

Trusting == phase \in {"Idle", "Journal", "Record", "Pair"}

\* Whenever the runtime reads or trusts the three ledgers they tell of the
\* same cycles, the producer's of the newest, whatever write of a publication
\* failed and wherever the process died.  The exceptions are a rollback that
\* failed itself, after which the process goes on, and an interrupt between two
\* replacements, which removes the journal that could mend them.
LedgersAgree == Trusting /\ ~damaged => Agree(files)

Of(log, kind) == {log[j].cycle : j \in {i \in 1 .. Len(log) : log[i].kind = kind}}

\* The lasting ledgers hold the cycles, the producer's holds or outgrew them.
Holds(ledgers, cycles) ==
  /\ \A i \in Ledgers \ {Producer} : cycles \subseteq ledgers[i]
  /\ \A c \in cycles : Remembers(ledgers[Producer], c)

\* A cycle the evidence tells of, in memory or in the checkpoint, was committed:
\* it is in the lasting ledgers for good and in the producer's until newer
\* cycles fill it.  No recovery or rollback takes it back.
EvidenceIsCommitted ==
  Holds(files, Of(mem.log, "composition") \cup Of(ckpt.log, "composition"))

\* The other cycles of the log between two of its entries, or that an exception
\* took: what made the runtime forget the cycle of the first.
Between(m, i, j) ==
  ({m.log[k].cycle : k \in i + 1 .. j - 1} \cup m.lost) \ {m.log[i].cycle}

RepeatsApart(m) ==
  \A i, j \in 1 .. Len(m.log) :
    i < j /\ m.log[i].kind = "composition" /\ m.log[j] = m.log[i]
      => Cardinality(Between(m, i, j)) >= TerminalCapacity

\* A cycle composed again, after a restart or from unchanged evidence, is not
\* recorded again while it is one of the newest TerminalCapacity terminal
\* cycles: two records of it are that many other cycles apart.
RepeatsOnlyForgotten == RepeatsApart(mem) /\ RepeatsApart(ckpt)

Follows(log) ==
  \A j \in 1 .. Len(log) : log[j].kind = "denominator" =>
    \E i \in 1 .. j - 1 : log[i].kind = "composition" /\ log[i].cycle = log[j].cycle

\* A denominator, or its failure, is recorded only behind the composition it
\* is about, also when a history of the evidence filled up between the two.
DenominatorFollows == Follows(mem.log) /\ Follows(ckpt.log)

Answered(m) ==
  \A c \in In(m.terminal) :
    \/ c \in Of(m.log, "composition") \cup Of(m.log, "rejection") \cup m.lost
    \/ Len(m.log) >= HistoryCapacity

\* A checkpoint that calls a cycle terminal, so that it is never recorded
\* again, holds its evidence or its rejection: only a full history or an
\* exception of the runtime loses it.
TerminalIsAnswered == Answered(ckpt) /\ (phase \in {"Idle", "Pair"} => Answered(mem))

\* What a start of the process would make of the ledgers: while the journal
\* stands, the copies it names.
Shown == IF journal = NoJournal THEN files ELSE journal

\* The three replacements behind the journal amount to one atomic commit, over
\* crashes, failed writes, repeated recoveries and journals left behind: a cycle
\* enters all ledgers at once, the lasting ones for good and the producer's in
\* the place of its oldest; a publication given up half done, the only one that
\* is not all or nothing, leaves at most its own cycle in some ledgers.
Atomic == INSTANCE AtomicLedgers WITH
  ledgers <- Shown, told <- Of(ckpt.log, "composition"), torn <- damaged,
  Capacity <- ProducerCapacity

ImplementsAtomicLedgers == Atomic!Spec
=============================================================================
