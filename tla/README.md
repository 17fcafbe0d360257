# Momentum Hunter: a TLA+ verification project

Momentum Hunter is a research workstation for momentum trading: Python engines
(`momentum_hunter/`), a Windows workstation in C# (`src/`), tests, tools and a
large body of operational documents (`docs/argus-office/`). It never trades real
money. The parts of it that run unattended, keep durable evidence and have to
survive crashes are the *continuous opportunity runtime* with the *production
evidence writer* beside it, the *automation supervisor* that starts the day's
jobs, and the *Alpaca Paper session*, one of those jobs, which holds a (paper)
position at a broker. This project models those four; the rest is listed below
with the reason it is left out.

All paths in this file are relative to `src/`, the repository's root here.

## 1. The system

```
 provider data      events, pulses         intents            envelopes (TCP)
 ------------->  sources  ------->  runtime  ------->  client  ------->  writer
                                      |  ^              |                  |
                                 save |  | restore      | reads back       | write once
                                      v  |              v                  v
                                   checkpoint file     records, acks, generations

 manifest, clock      launch, exit code              orders, queries
 ------------->  automation supervisor  ------->  Paper session  ------->  broker
                      |  ^                            |  ^
          claim, save |  | load               write   |  | load
                      v  |                    once    v  |
             claims, generations, head, state   intent, active, decision, outcome
```

| component | state | operations | hard behaviour |
|---|---|---|---|
| **Continuous runtime** `continuous_runtime.py` | five bounded work queues, admitted evidence history, provider-bound, deferred and seen-event histories, work in hand, writer monitor, degradations | `start`, `tick`, `submit_event`, `request_discovery`, `release_deferred_readiness`, `shutdown`, `restore`, `_checkpoint` | crash between any two effects; saves in the middle of a piece of work; queues at their limits; retry of uncertain writes; terminal hold |
| **Host** `continuous_production._run_runtime` | none of its own | restore or start, then tick every five seconds, shutdown in `finally` | an exception reaches `shutdown`, which drains and saves |
| **Production writer** `ProductionWriterServer` | session, expected sequence, prior envelope; files: records, acknowledgements, generations | `_handshake`, `_persist`, `_load_checkpoint` | one thread per connection and no lock; crash or failed file operation between two files |
| **Writer client** `ProductionRemoteWriter` | sender (session, next sequence, prior envelope) | `write_intent`, `_connect`, `_verify_durable_ack`, preflight | time-out, lost reply, retry under a new session |
| **Writer liveness** `writer_liveness.py` | arrivals, drains, refusals, windows | `observe`, `restore` | thresholds over windows; a verdict is final |
| **Attempt ledger** `continuous_attempt_ledger.py` | append-only journal, anchored in the checkpoint | `begin`, `finish`, `_load` | torn tail, journal ahead of or behind the checkpoint |
| **Lease registry** `LogicalRuntimeLeaseRegistry` | one lease per runtime identity | `acquire`, `heartbeat`, `release` | expiry races; in one process only |
| **Dedicated v2 writer** `continuous_evidence_writer.py`, `windows_writer_storage.py` | transaction directories, generations | submit, replay, recover | crash inside a multi-file transaction |
| **Science custody** `science_custody_*.py` | request mailbox, receipts, worker thread | poll, commit, publish receipt | two processes and a thread over one directory |
| **Research export** `continuous_research_export.py`, `research_fact_export_v2.py` | per-stream raw envelopes | capture, publish, finalize | dormant unless a descriptor is supplied; when attached it makes the runtime save after every intent |
| **Automation supervisor** `automation_supervisor.py`, `automation_state_recovery.py` | one receipt per job; files: claims, retained generations, admission head, state file; a lease | `load`, `tick`, `_evaluate_job`, `run_job`, `save` | crash between any two of the four durable writes of a save; damaged files; two services on one store; the day's clock |
| **Alpaca Paper session** `alpaca_paper_engineering.py` | four write-once files, three frozen order identities; the broker's orders | `run_session`, `run_decision`, `recover`, `reconcile_active` | the broker moves between any two requests; lost answers, partial fills, relaunch, an orphan session |
| **Shadow trading** `shadow_*.py` | append-only trades | mark, close, load | replayed quotes |
| **Composition producer** `continuous_live_qualification.py`, `continuous_natural_setup.py` | three ledger files and a rollback journal; terminal cycles and evidence in the runtime | `compose`, publication, recovery, `_process_composition`, denominator | three files replaced one after the other; failure, interrupt or crash between two; the pair "one composition, one denominator" |
| **Candidate, universe, setup, denominator, TradePlan producers** | lifecycle records | transitions | pure functions behind the runtime's sources |
| **Event-driven runtime** `event_runtime_*.py` | evidence chain | recover, replay | contract layer without a process |
| **Schwab collection**, **path transactions**, **user state** | token and candle stores, file locks | | locks between processes |
| **Science recorder**, **SQLite mirror**, **read models**, **analytics**, **providers**, **UI** | derived data | | rebuildable, or input/output |
| **C# hosts** | supervised child process, layout autosave | | restart back-off, debounce |

What makes each correct, for the components modelled:

* *Custody*: an admitted intent is owed, durable or refused by name, whatever
  fails; the admitted history is one predecessor chain; the checkpoint agrees
  with itself; the terminal hold is final; what is owed is delivered.
* *Pipeline*: bounds hold in memory and in every checkpoint with the work in
  hand put back; an accepted request is not forgotten, above all one whose event
  will never be taken again; less urgent work gives way, never more urgent work.
* *Writer*: one gap-free log of generations; an answer is the truth about the
  disk; every intent gets an answer.
* *Composition*: the three ledgers tell of the same cycles whenever they are
  trusted, as far as the bounded one reaches; a composition record is backed by the
  ledgers and not repeated while the runtime remembers its cycle; its denominator
  stands behind it; a cycle that will not be recorded again is
  recorded or known to be lost.
* *Supervisor*: a job is claimed, launched once (the Paper job may be relaunched)
  and answered for good, after the job it depends on was completed, whatever
  crashes or is damaged; the store never contradicts itself; every job is answered.
* *Paper session*: a record that says *flat* or *no trade* is true; COMPLETED is
  only said of a flat position; a recorded stop covers the recorded shares; an
  open position is always managed until it is flat or the session has given up.

The hazards, each at the line where it bites, are in `PROJECT.json`.

## 2. Modules

| module | models | state / actions |
|---|---|---|
| `EvidenceCustody` | the runtime's evidence side and the host loop | `mem` and `ckpt` are one record each of the fields that `_checkpoint` saves: `intents` (`_intents`, with `_sequence` and `_last_intent_id` as its length and last identity), `queue`, `retries` of its head, `owed` (monitor arrivals less drains), `refusals` (retained REJECTED_CAPACITY decisions keyed by a sequence), `capacityRejections`, `failed` (the terminal hold). `log` and `sent` are the writer's side: durable records, and writes still under way after their caller gave up. |
| `EvidenceCustody_proofs` | | theorems about `EvidenceCustody` |
| `Outbox` | the abstract custody | recorded contents in order, each owed until durable or refused; a checkpoint adds, never takes back |
| `EvidenceCustody_refinement` | | the checkpoints and the durable records implement `Outbox` |
| `ProductionWriter`, `MC_ProductionWriter` | the writer's threads and files, and its client | one action per file operation or assignment of `_persist`; `thread[h].pc` is the next one. `conn` is the handler the client waits for, so a time-out leaves the thread running. |
| `EvidenceLog` | the abstract writer | one growing log, one final answer per intent; an accepted intent is in the log, a refused one may be |
| `ProductionWriter_proofs` | | theorems about `ProductionWriter`, with the refinement of `EvidenceLog` |
| `SymbolPipeline`, `MC_SymbolPipeline` | the other work queues | queues are sequences with one work per symbol, as the ordered dictionaries of the code are; `bound`, `deferred`, `seen` are `_provider_bound_events`, `_deferred_readiness`, `_seen_events`; `flight` is the checkpoint's `in_flight` and `in_flight_queue` |
| `SymbolPipeline_proofs` | | theorems about `SymbolPipeline` |
| `CompositionCommit`, `MC_CompositionCommit` | the composition producer's publication, and the runtime's recording of it | `files`, `journal`, `preview` are the ledgers, the rollback journal with its backups, and the staged copy; `mem` and `ckpt` are what the checkpoint saves of the runtime: composition queue, the newest terminal cycles, evidence, work in hand; a cycle is numbered by its cutoff, `made` is the evidence it was made from |
| `AtomicLedgers` | the abstract publication | a cycle enters all ledgers in one step, or the publication is torn; the lasting ledgers keep it for good, the producer's until it is full of newer ones; evidence tells only of cycles in the lasting ledgers |
| `CompositionCommit_proofs` | | theorems about `CompositionCommit`, with the refinement of `AtomicLedgers` |
| `AutomationSupervisor`, `MC_AutomationSupervisor` | services, their ticks, and the receipt store | `svc[i]` is a service: the next step `pc`, the loaded state `mem`, whether the state file is still the one it loaded (`fresh`), the jobs left in this tick, its reading of the clock, the receipts it changed (`own`); `claims`, `generations`, `head`, `current` are the files, `unreadable` and `copied` say whether one that every load reads is not what was written, and whether the damaged ones are in custody |
| `AutomationSupervisor_proofs` | | theorems about `AutomationSupervisor`, with the refinement of `JobLedger` |
| `JobLedger` | the abstract supervisor | a job is claimed, then launched, then answered; an answer is final |
| `PaperEngineering` | a session, its broker, its supervisor | `order` is the broker's side, by client order identity; `file`, `activeQty` the write-once files; `me` the session with the next request as `pc`; `job`, `orphan` the supervisor's receipt and whether the session outlived it |
| `PaperEngineering_proofs` | | theorems about `PaperEngineering` |
| `TradeRecord` | the abstract Paper session | shares held, and four write-once files: the order in which they are written, and what they say of the shares |
| `PaperEngineering_refinement` | | the session, its broker and its supervisor implement `TradeRecord` |

`CompositionCommit` stands between `SymbolPipeline`, which has the queues before it,
and `EvidenceCustody`, which has the delivery after it: an intent admitted there is a
record of its `log`. `PaperEngineering` has of the supervisor what one job sees of it
(`Launch`, `ServiceRestarts`); `AutomationSupervisor` has of a job that it starts and
ends. `EvidenceCustody` composes with the writer and the pipeline by interface: its
writer is what `ProductionWriter` can do to the durable records and to the class of an
answer (accepted; transient with the record there or not, now or later; permanently
rejected; incorrect), and `SymbolPipeline` is what produces its batches of intents.
The evidence queue stands before the others in `_next_queue_with_work`, so to the
pipeline a silent writer is a loop that ends early (`TickEnd` at any boundary).

Five modules say what a component promises and nothing of how: `EvidenceLog`,
`JobLedger`, `AtomicLedgers`, `Outbox` and `TradeRecord`. Each detailed module
instantiates its own with a refinement mapping (`Log`, `Ledger`, `Atomic`, `Box`,
`Cycle`), TLC checks the abstract specification as a property of a run, and a
theorem proves it. `Outbox` and `TradeRecord` have few actions and one conjunct,
`Sound'`, that every step must satisfy: what a checkpoint or a set of files may look
like does not depend on how it came about.

### How actions correspond to the code

*Custody.* `Start`/`Restore` are `start`/`restore` up to the first save.
`TickBegin` is the ingest half of `tick`; `BeginWork` takes one piece of other
work, which emits up to `MaxBatch` intents; an `Emit...` action is one call of
`_emit_intent` with everything it does, the save of an attached research producer
and the liveness verdict included. `EmitAdmitted`, `EmitRefused` (full queue),
`EmitCompacted` (payload fails the preflight, so a compact rejection is
admitted), `EmitOverflow` (that compact rejection meets a full queue) and
`EmitDropped` (held, full history, or a
preflight that fails for the moment) are the outcomes of
`admit_evidence_intent`. A `Write...` action is one pass of `_process_evidence`.
`Unwind` is an exception that leaves `tick` for the host's `finally: shutdown`;
inside `shutdown` it ends the process without a save. `TickEnd` and `DrainEnd`
save. `Crash` may come between any two.

*Writer.* `SendHello`/`Hello`, `SendWrite`/`Check`, then `LinkRecord`, `UnlinkTemp`,
`StoreAck`, `StoreGeneration`, `Advance`, `Link` in the order of `_persist`, and
`TakeReply`/`TakeLost`/`Timeout`/`SendRefused` at the client. The first two are the
two halves of `atomic_create`, which gives a finished temporary file its name and
then unlinks it; `linked` are the records that still have both names, which
`atomic_create` refuses from then on. The same halves of an acknowledgement are one
step: its name is never used again. Envelopes are named
by session and sequence; `acks` and `records` are kept as functions from file
name to content; a torn generation is the value `Torn`. `Verified` is the client's
read-back.

*Pipeline.* `TickBegin`, `Release`*, `SubmitEvent`*, `FlushProviderBound`, then
pieces of work, then `TickEnd`. `Decision`/`Enqueued` are
`BoundedWorkQueue.enqueue`, `RequestReadiness` is `_enqueue_readiness` with the
provider-bound bookkeeping of `_enqueue`. Because memory is lost in a crash, the
save in the middle of a piece of work is part of the action that ends the piece:
memory between the two is never seen again after a crash, and nothing else
happens in between. `Raise` is the exception or interrupt that makes
`_process_one`'s `finally` clear the work in hand.

*Composition.* `Start`, `Recover`, `Restore` are the coordinator's recovery and
the runtime's restore. `Ready`/`NotReady` are what an evaluation of a symbol does
to its request and to its inputs, which live in memory only (`live`). `Stage`,
`WriteJournal`, `Publish` (one ledger each), `Published` are `compose`; `Composed`
is what `compose_cycle` makes of the producer's ledger (a cycle of the same
evidence is found again, with its own cutoff), `Kept` the ledger's bound, which
drops the oldest cutoff;
`PublishFault`, `Rollback`, `RolledBack`, `RollbackFault`, `CleanupFault` are its
`except` and `finally` clauses, `Interrupt` a `KeyboardInterrupt` in it, which runs
the `finally` clauses only. `Record`, `RecordDuplicate`, `RecordCompact`, `Pair`
are `_process_composition` and the denominator, with the saves a research
producer causes; `Trimmed` is the trim of the terminal cycles.

*Supervisor.* A tick evaluates the jobs in the order of the code's five loops
(`PassOver` to `Starts`, one branch of `_evaluate_job` each), each group with its own
reading of the clock. A launch runs inside the tick (`LaunchJob`, `JobEnds`) between
two saves; a save is `SaveChecks`, `WriteClaim` for every new claim, `Retain`,
`PromoteHead`, `PromoteState`, `Prune`. `Load` merges claims and generations as `load`
does, copies damaged files into custody, and raises the recovery floor.
`ServiceCrashes` may leave a claim, a generation or a custody copy torn, `LoadCrashes`
a custody copy; `StateDamaged`, `GenerationDamaged` and `ClaimOrHeadDamaged` are
damage to files nobody writes. A torn custody copy is compared by every later load and
save that meets the damaged file, so it is, like a claim or head that cannot be read,
`unreadable`; `ReplaceManifest` disables a job between two ticks.

*Paper session.* One action per request to the broker or file written; the
broker's own steps (`Fill`, `Die`, `CancelSettles`, `Arrives`) come between any
two. Broker orders are external, modelled from what the session asks of them: an
identity is used once, and a sale needs shares no other sale holds. `Find`,
`Post`, `Lost` are `submit_order_idempotently`, `Cancel`, `Delete`, `Settle` are
`cancel_order`, `Settle` the last of its polls: an order still being canceled then
is `left`. A `dead` order is canceled, expired or rejected; `done` is
`done_for_day` or `replaced`, which `_validate_protective_stop` lets pass, so such a
stop is reported as protecting. Prices, which only decide, are nondeterminism.

`open`, `ready` and `lost` in `SymbolPipeline`, `overflowed` in `EvidenceCustody`,
`damaged` and `mem.lost` in `CompositionCommit`, `launches` and `late` in
`AutomationSupervisor` (`launches` with its bound), and `slow` in
`PaperEngineering` are history variables: they say what happened, and the code
has no such state.

## 3. What is checked

| run | specification | states | checks |
|---|---|---|---|
| `custody_producer` | `Spec` | 212 321 | `TypeOK`, `AdmittedIsKept`, `OneRecordPerSequence`, `RestorableUnlessOverflow`, `HoldSurvivesRestart`, `ImplementsOutbox` |
| `custody_rejecting` | `FairSpec` | 242 220 | `LineageLinked`, `QueueIsOwedHistory`, `DurableLineage`, `OwedIsDelivered`, `ImplementsOutbox` |
| `custody_overflow` | `Spec` | | `CheckpointRestorable` is violated |
| `custody_fork` | `Spec` | | `OneRecordPerSequence` is violated |
| `writer` | `FairSpec` | 599 967 | `TypeOK`, `GenerationsContiguous`, `AcceptanceOwnsGeneration`, `EveryIntentAnswered`, `ImplementsEvidenceLog` |
| `writer_rejected` | `Spec` | | `PermanentMeansNotWritten` is violated |
| `pipeline_queues` | `FairSpec` | 655 959 | `TypeOK`, `BoundedAndRestorable`, `NothingForgotten`, `BoundHasLeastPriority`, `DisplaceableRequestAnswered` |
| `composition_publish` | `Spec` | 3 317 183 | `TypeOK`, `LedgersAgree`, `EvidenceIsCommitted`, `RepeatsOnlyForgotten`, `DenominatorFollows`, `TerminalIsAnswered`, `ImplementsAtomicLedgers` |
| `supervisor_damage` | `FairSpec` | 357 794 | `TypeOK`, `LaunchedAfterDependency`, `LedgerSpec`, `EveryJobAnswered` |
| `supervisor_contention` | `FairSpec` | 405 663 | `NeverContradicts`, `LedgerSpec` |
| `supervisor_late` | `Spec` | | `NoLateStart` is violated |
| `paper_session` | `FairSpec` | 1 215 689 | `TypeOK`, `FlatClaimsHold`, `CompletedIsFlat`, `ActiveIsCovered`, `PositionIsManaged`, `ImplementsTradeRecord` |

Every definition under a comment that starts with "Mutant" is a
plausible bug; `PROJECT.json` says which property each breaks. They are not part
of any specification.

### What the runs show

* **Custody.** With a producer attached, no crash, interrupt, lost answer or
  oversized payload loses an admitted intent or reuses a durable sequence. With
  permanent rejections, replacing the head of the queue in place, and only when
  it is the head of the lineage, keeps queue, history and durable records one
  chain.
* **Finding: a checkpoint that cannot be restored** (`custody_overflow`). A
  compact rejection that meets a full evidence queue is recorded as admitted, then
  raises; the shutdown checkpoint then holds a REJECTED_CAPACITY decision the
  monitor did not count, and `restore` refuses it.
* **Finding: the sequence forks** (`custody_fork`). Without a producer, which is
  the default (`build_research_fact_producer` is dormant), the checkpoint is older
  than the durable records until the tick ends. A crash there rolls `_sequence`
  back and two different durable records share a sequence and a predecessor.
  `AdmittedIsKept` still holds: the restored runtime loses nothing it believes in.
  So does `ImplementsOutbox`, in both deployments: what forks is a sequence, never
  what a checkpoint says of the intents it recorded.
* **Finding: a permanent rejection of a durable record** (`writer_rejected`). One
  time-out is enough; the handler thread commits between the retry's handshake and
  its check.
* **Writer.** The write-once generation file makes the races harmless for the
  log: the losing thread fails before it advances anything. `EveryIntentAnswered`
  names three ways in which the intent at the head of the queue waits for ever, each
  met within the bounds of the run. `Stuck`: a generation file that exists but was
  not advanced past (torn by a crash, or its writer failed after creating it)
  conflicts with every later write of that sequence. `Refused`: a record that
  another intent wrote under the same record fingerprint is answered WRITE_FAILED
  each time (`continuous_production.py:602`), and so is a record left with two names
  by a crash or a failed unlink (`windows_writer_storage.py:474-501`). WRITE_FAILED
  is transient to the runtime, which offers the intent again.
* **Pipeline.** A request displaced by more urgent events becomes provider-bound,
  and premarket deferrals survive a full queue at the open. Requests taken by an
  exception (`lost`), dropped by the trim of a bound, or composition requests
  refused by a full queue are *not* protected by the code; the properties say so.
* **Composition.** With the rollback journal, no failure and no crash between two
  ledger replacements leaves the ledgers disagreeing where they are trusted, and no
  recovery takes back a cycle the evidence tells of. Two ways around the journal
  remain, and `LedgersAgree` names them (`damaged`): a rollback that fails itself,
  after which the process goes on, and a `KeyboardInterrupt` between two replacements,
  which no `except Exception` sees and whose `finally` clause removes the journal.
  `docs/argus-office/goal-charters/ARGUS-CONTINUOUS-TRADEPLAN-PRODUCER-001B.md:60-61`
  asks for all-or-nothing publication; both need a failure inside the handling of a
  failure or an operator's interrupt, so they are noted here and are not findings. A
  restored composition request always fails, because the readiness inputs it was made
  from are in memory only; and a cycle that is in the ledgers but whose evidence was
  not saved is not recorded again from them.
  Apart from the two ways around the journal the three replacements are one step:
  `ImplementsAtomicLedgers` is about what the next start makes of the ledgers
  (`Shown`: the copies the journal names while it stands). `DenominatorFollows` says
  nothing of a missing denominator: after a crash between the save of the composition
  and that of its denominator there is none.
* **Two memories of compositions forget**, and the properties say what follows. The
  producer's ledger keeps the 4096 newest records
  (`continuous_tradeplan_producer.py:78,269-270`), the lifecycle and breakout ledgers
  are append-only: so `EvidenceIsCommitted` promises the lasting ledgers for good and
  the producer's until newer cycles fill it, and `Agree` compares as far as it
  reaches. The runtime keeps `processed_event_capacity` terminal cycles (4096 unless
  configured; `continuous_runtime.py:299,2788-2789`) beside up to 65 536 evidence
  records: a cycle composed again after it was forgotten is recorded again, and
  `RepeatsOnlyForgotten` says that this takes as many other cycles in between,
  recorded or taken by an exception, as the memory holds.
* **Supervisor.** Claims are written before the generation they belong to and are
  never removed, so what a load reads depends on nothing that damage or pruning can
  take away; and a service whose state file was replaced under it cannot save.
  That is why the store refines `JobLedger`. `EveryJobAnswered` has the exceptions
  `LockedOut` and `QuarantinedOnDisk`. A store is locked out for good by a claim or
  a head that is torn or damaged (every load refuses it); by a torn custody copy,
  left when a service dies while it copies a damaged file (every later load and save
  compares the copy and raises CORRUPT_CUSTODY_CONFLICT,
  `automation_state_recovery.py:256-263`); by damage that leaves no readable
  candidate; and by a damaged newest generation beside an intact state file (every
  save conflicts when it retains that generation again). A store that contradicts
  itself would be locked too, but no step writes one (`NeverContradicts`).
  `QuarantinedOnDisk`: a crash between the replacement of the head and of the state
  file makes the next load raise the recovery floor, which quarantines jobs that
  were only PENDING
  (`docs/argus-office/reports/ARGUS-SEP09-AUTOMATION-RECOVERY-001.md:16` intends this).
* **Finding: a job is started after its window** (`supervisor_late`). One reading of
  the clock serves the engine host jobs and the reviews; a slow job before a review
  makes that reading stale.
* **Paper session.** Whatever is killed, relaunched, orphaned or half filled, a record
  of a flat position is true and the recorded stop covers the recorded shares;
  together the four files are one record of the position, in which a file is written
  at most once and always after the files it stands on (`ImplementsTradeRecord`).
  `slow` excepts the two things the session cannot see: a submission whose answer was
  lost and which reaches the broker when the session no longer looks for it, and a
  fill of an order that was still being canceled when the session polled it for the
  last time. A fill between the DELETE and that poll is no exception: the session
  reads it and goes on from it. A session that gives up (exit code 1) may leave a
  position whose stop it has canceled; `PositionIsManaged` says so, and the operator's
  document does
  (`docs/argus-office/reports/releases/ARGUS-BROKER-ALPACA-004-paper-engineering.md:16-21`).

### Bounds, and why they are enough

* Queue capacity 2 and history capacity 3 with up to 4 emissions fill both and
  overflow both; batches of 2 make a refusal fall in the middle of a batch. Two stops
  let a crash hit the recovery of an earlier stop. One transient result per queue head
  distinguishes a first from a repeated attempt; one replacement per record lets a
  refused record be replaced by its compact rejection; a compact rejection that is
  itself refused and replaced again lies beyond the bound. `custody_rejecting` uses
  two emissions: a head and one behind it, which is what the lineage check
  distinguishes.
* Two handlers are an abandoned request and its retry; a third would need a second
  time-out. Three intents let a later one be offered while the thread of an earlier
  one is alive, and the last carries the record fingerprint of the first
  (`MC_SharedRecord`), with another intent between them. One time-out, one failed file
  operation and one crash leave each of the files in each of its incomplete forms;
  `writer_rejected` needs one intent and one time-out only. Nine session names are
  never exhausted: a name is reused only when nothing refers to it (`FreshSession`),
  so the bound is not observable.
* Three symbols for two readiness places and one composition place: one symbol
  always competes. The two events have the priorities of the code (90 for a
  completed bar, 80 for history recovery, 60 for discovery). One remembered event
  (`EventCapacity = 1`) makes the de-duplication history forget. `MaxTime`,
  `MaxPulses` and `MaxStops` bound the clock, the pulses and the failures.
* Composition: a queue of one and three symbols keep one work in hand, one behind it
  and one that displaces it. With one state of evidence per symbol a cycle is asked
  for again as itself until the producer's ledger forgot it, and as a new one then:
  the ledger holds two of the three cycles, so the third pushes the first out. A
  terminal memory of one forgets a cycle as soon as another is terminal, so a
  repeated record is reached and stands exactly as far off as `RepeatsOnlyForgotten`
  says. Three records of history are one and a half pairs, so the limit falls between
  a composition and its denominator. Three faults are a failing publication, its
  failing rollback and a crash in the recovery. Symbols are interchangeable
  (`SYMMETRY`), and the run checks no liveness.
* Supervisor: two jobs, one depending on the other, with the kinds that take
  different branches; a clock of two or three values reaches before, inside and
  after a window. `supervisor_damage` has one service and two faults (a crash and a
  damaged file, or the reverse, or a crash of the recovery); `supervisor_contention`
  two services and one fault, and a job that may be relaunched. Two faults are also a
  damaged file and a crash while it is copied into custody. Two retained
  generations are the newest and one to fall back to. `MaxLaunches` bounds the
  relaunches of the Paper job only: no other job reaches 2.
* Paper session: two shares are the least that can be half filled; two faults and
  two restarts allow an orphan, its relaunch and a lost answer in each.

Deadlock is checked for `CompositionCommit`. Elsewhere it is not: a runtime that is
held or refused its checkpoint, a supervisor whose day is over or whose store is
locked, a Paper session that has ended, and every model that has used up its
bounds, has no further step; that is the modelled program stopping.

### Fairness, and why the code justifies it

* Custody: weak fairness of start, restore, tick, emission and end of tick is the
  host's `while True` and the service manager's restart. Strong fairness of
  `WriteAccepted` per intent says that a writer asked for the same intent again
  and again, across back-off and restarts, at last accepts it: a record that will
  never be accepted is a permanent rejection, which is another action. Nothing is
  assumed of `LivenessTrip`, interrupts or crashes.
* Writer: weak fairness of the client (the tick keeps offering its queue head, and
  `socket.create_connection` has a time-out), of each handler thread, and of the
  writer's restart. Time-outs, faults and crashes are bounded, not fair.
* Pipeline: weak fairness of the loop and of the market's opening; strong fairness
  of discovery and readiness work, because a tick may end at the evidence queue at
  any boundary but, unless the runtime is held, not in every tick.
* Supervisor: weak fairness of the clock and of each service's steps: the loop of
  the service sleeps a bounded time, Windows starts a service again whose process
  ended, and a job's process has a time-out. Crashes, damage and edits of the
  manifest are bounded, not fair.
* Paper session: weak fairness of the session's steps (requests have time-outs), of
  `Launch` (the supervisor's tick, of a supervisor whose store can be loaded) and of
  `DayEnds` (the clock). The broker is not
  fair: it need never fill, cancel or answer in the session's favour.

## 4. What is proved

All for every value of the constants, under the assumption named in each module
(`CustodyAssumption`, `NoCheckpointAssumption`, `CompositionAssumption`,
`WriterAssumption`, `SupervisorAssumption`, `PipelineAssumption`,
`PaperAssumption`): no theorem has a bound.

| module | theorem | property |
|---|---|---|
| `EvidenceCustody_proofs` | `TypeCorrect` | `TypeOK` |
| | `LineageIsLinked` | `LineageLinked` |
| | `QueueIsOwed` | `QueueIsOwedHistory` |
| | `NothingAdmittedIsLost` | `AdmittedIsKept` |
| | `HoldIsFinal` | `HoldSurvivesRestart` |
| | `CheckpointsRestore` | `RestorableUnlessOverflow` |
| | `LineageIsDurable` | `DurableLineage` |
| | `OneRecord` | `OneRecordPerSequence`, under `SavedFirst` |
| `EvidenceCustody_refinement` | `CheckpointsAreAnOutbox` | `ImplementsOutbox` |
| `CompositionCommit_proofs` | `TypeCorrect` | `TypeOK` |
| | `RepeatsForgotten` | `RepeatsOnlyForgotten` |
| | `TerminalAnswered` | `TerminalIsAnswered` |
| | `DenominatorBehind` | `DenominatorFollows` |
| | `EvidenceCommitted` | `EvidenceIsCommitted` |
| | `LedgersCorrect` | `LedgersAgree` |
| | `PublicationAtomic` | `ImplementsAtomicLedgers` |
| `ProductionWriter_proofs` | `TypeCorrect` | `TypeOK` |
| | `ContiguousCorrect` | `GenerationsContiguous` |
| | `AcceptanceCorrect` | `AcceptanceOwnsGeneration` |
| | `RefinesEvidenceLog` | `ImplementsEvidenceLog` |
| | `RejectionNeedsBreak` | no run; what `writer_rejected` needs |
| `AutomationSupervisor_proofs` | `TypeCorrect` | `TypeOK` |
| | `StoreAgrees` | `NeverContradicts` |
| | `DependencyFirst` | `LaunchedAfterDependency` |
| | `RefinesJobLedger` | `LedgerSpec` |
| `SymbolPipeline_proofs` | `TypeCorrect` | `TypeOK` |
| | `AlwaysRestorable` | `BoundedAndRestorable` |
| | `NeverForgets` | `NothingForgotten` |
| | `LeastUrgentLeaves` | `BoundHasLeastPriority` |
| `PaperEngineering_proofs` | `TypeCorrect` | `TypeOK` |
| | `FlatClaims` | `FlatClaimsHold` |
| | `CompletedFlat` | `CompletedIsFlat` |
| | `ActiveCovered` | `ActiveIsCovered` |
| `PaperEngineering_refinement` | `FilesAreARecord` | `ImplementsTradeRecord` |

### Custody

The inductive invariant `IInv` is `Kinds` (types, as far as steps need them),
`Records` (what is durable or under way has the type of an intent) and
`Custody(m, log)` for both `mem` and the checkpoint: the history is linked, the
queue is a strictly increasing selection of it, `owed` is its length, and every
history entry is queued, durable or refused. None of its parts is inductive
alone: replacing a queue head keeps the chain only because the head is the last
entry of the history (`IsLineageHead`) and because the queue's entries *are*
history entries; draining keeps `AdmittedIsKept` only because the queue is
strictly increasing, so the entry that leaves is the one that became durable.
The same predicate for the checkpoint is what makes `Restore` preserve it, with
the durable records only growing. One lemma per operator (`Admit`, `Refuse`,
`Overflow`, `ReplaceHead`, `Drained`) says that it preserves custody; the step
theorem has one case per action. `HoldInv` (a saved hold stays with its process)
and `CountInv` (refusals do not outnumber the monitor's count) are proved on top.

`DurableLineage` does not need the refusals, so `BareInv` is about the memory with
its refusals forgotten: without an overflow, whatever stands before an entry of
the queue in the history is durable, in memory and in the file.
`OneRecordPerSequence` is false in general (`custody_fork`). `OneRecord` proves it
under `SavedFirst`, that a producer's saves precede every write and the writer
refuses nothing permanently: `FileInv` then says that a record which is durable or
under way is the entry of the checkpoint's history at its sequence.

`ImplementsOutbox` is about the file, but what a save writes was prepared in memory,
so `OutInv` speaks of both. It looks at a copy of the evidence state through three
values: the contents of its history, the positions its queue waits for, and the
contents it refused. `Fine` says that such a copy is sound against what is durable
*and* against what is still under way at the writer (a late answer must find its
position settled in order, too); `Descends` says that the memory of a running
process only extends the file it came from. A checkpoint is then the step `Save`
because its new content descends from the old, and a record that becomes durable is
`Deliver` because a fine copy stays sound when something under way arrives. The
first part of the module is about sets and sequences of numbers alone, the second
shows what each operator of the model does to such a copy, the third goes through
the actions.

### Composition

`Quiet` and `StepShape` first reduce the actions to the few ways in which they change
memory, checkpoint and files. The invariants: `CutoffInv` (a new cycle has a later
cutoff than all the producer's ledger, the journal or the staged copy holds, so a full
ledger gives up only older cycles for it), `ApartInv` (how far apart a cycle and its
repetition are; for that it also says, of each composition record, that the cycles
which became terminal after it are told of behind it in the log or are lost, so it is
terminal still or they are enough to displace it), `AnsweredInv`, `FollowsInv` (while
a denominator is due its composition is the record it stands behind, unless the
history was full, and then it still is), `CommittedInv` (the cycle of a record is in
the lasting ledgers and remembered by the producer's, also in every backup to which it
could be rolled back) and `LedgersInv` with its `MendableInv` (a ledger that disagrees
has a journal or a staged copy that agrees in itself, and `done` says how far it is
restored). The bounds cost the proofs the counting: `Trimmed` removes at most the
oldest cycle, `Kept` at most one record, and only from a full ledger.

The refinement of `AtomicLedgers` asks what the ledgers hold, and not only that they
agree, also after a torn publication. `JournalInv` says it phase by phase: ledger by
ledger the files are the journal's copies, or what those gain by the one cycle in
flight, and the first `done` of them are already written. The commit is the removal of
the journal, for before it the next start finds the journal's copies: so replacing a
ledger is a stutter, and so are the rollback and every recovery. `ToldInv` says that
no checkpoint takes back a cycle the evidence tells of. Without the journal, in the
two cases counted as `damaged`, a step is `Tear`, of that same one cycle.

### Writer

The threads share memory and files without a lock, so the invariant says what each
thread may still assume at its `pc`. `FrameInv`: what its envelope is, and that
only the thread the client waits for has an answer. `NameInv`: no two threads bear
one envelope name, and the client's next name is new; hence `AckInv`: the
acknowledgement file a thread is about to create does not exist. `DiskInv`: the
record and the generation a thread has passed are as it left them, the record from
its first name on, whether or not its temporary file is still linked. `ChainInv`: the
readable generations are the first *k*, the writer expects *k* or *k + 1*, and at
most one thread may advance; a thread that finds no file of its sequence is
therefore at *k + 1* (`NextGeneration`). The generation file that is created once
is the writer's only mutual exclusion, and this is where the proof uses it. One
lemma per action; lemmas such as `KeepsNames` and `SilentChain` say what a step
that leaves a part alone keeps. In the refinement a whole generation file is
`Commit`, the client's verified answer `Accept`, a permanent failure `Refuse`, and
every other step a stutter; `Accept` needs `DiskInv` and `Commit` needs that a
thread's intent has been offered (`ClientInv`).

`RejectionNeedsBreak` bounds the finding from the other side: as long as the client
has not timed out and the writer has not crashed, no intent is refused for good,
however many file operations fail. Its invariant `SoloInv` is that until then the
one live thread is the one the client waits for, and the two sides of the session
agree on session, sequence and predecessor; a failed operation makes the client
give its session up, never lets the two drift apart.

### Supervisor

A load merges claims and generations, so what it reads of a job would seem to
depend on which generations are readable. `BackedInv` says it does not: whatever a
generation says of a job was claimed first (`EvidenceIsClaimed`), and claims only
grow. The rest is about who may write a claim. `SaveInv`: from its checks to the
end of the launch, a service's memory denies no claimed answer, and from the
retained generation on all it believes is claimed; hence `AnswerInv`, one answer
per job. `StartInv` and `KnowInv` are about launching once: a service that holds
the state on disk knows every launch that must not be repeated. This is where the
proof needs that a replaced state file makes every other service stale: between
`PromoteState` and the launch, whoever is not stale has loaded the claim. A service
may claim a job that another claimed and died before launching; the proof shows
that this is the only case in which two services start the same job in memory, and
that one of them launches it. `Thinks` sums up the ten branches of an evaluation,
`Ambient` the clock, the operator and damage; the rest of the invariant has one
lemma per action. In the refinement a claim file is `Claim` or `Answer`, a launch is
`Launch`, and every other step a stutter. The model's `Damage` strikes while no save
is under way, and so do the theorems.

### Pipeline

The queues are sequences with one work per key, so the proof begins with what each
operation on such a sequence keeps, drops and adds (`WithoutQueue`, `PutQueue`,
`AppendQueue`, `TailQueue`, `TrimQueue`), with removal written as a function rather
than a filter, about which the prover could show nothing. `LowestOf` shows that
the least urgent work exists, by three uses of the well-ordering of the numbers
(priority, time, place); `EnqueuedQueue` is then the promise of
`BoundedWorkQueue.enqueue`: within its capacity, whatever it had or was given is in
it, displaced or refused, and what is displaced is no more urgent than what stays.
`MemOk` is the invariant of memory (no work in hand between two actions, bounds,
nothing forgotten), `CkptOk` of the file, which may have work in hand. The two are
inductive together because of `FlightSaved` and `RecoveredOk`: what is saved in the
middle of a piece of work is memory without that work and with its place free, and
what a restore makes of it is a memory again. `SettleOk` is the only way a symbol
stops being open. One lemma per action.

### Paper session

The argument follows the entry order. Until the intent is written there is none
(`DiskInv`, `EntryNone`), which is why a session without an intent may say NO_TRADE;
when the session polls it for the last time its cancellation is on its way
(`EntryAsked`), so after that poll it buys nothing more, unless it is filled while
left in that state (`EntryDead`, which excepts `slow`); from the comparison of the
position with the order on, the order is over (`EntryOver`), so the position can only
shrink; and a record that says *flat* is put together at a moment the position was
seen to be zero (`SaveOk`), which therefore still holds when the record is written,
however the process is killed and relaunched in between. `EnterOk` and `HoldOk` say
what the session may assume at each request; the broker's steps between two requests
keep them (`Keeps`), the session's own steps either go on within one job or end it
(`GoesOn`, `EndsHere`). What relates a record to the position excepts `slow`, the
history of an order that moved after the session's last look at it; `ActiveIsCovered`
is unconditional.

For the refinement of `TradeRecord` a session is *entering* (the intent is whole,
there is no decision) or *leaving* (the decision says open, the active record is
whole, there is no outcome): `StageOk`. So the file a session is about to write is
never there (`Due`), although `Save` in the model would overwrite it:
`_write_same_or_fail` is never asked to. `FilesInv` says what the files say of the
orders, torn files included: nothing is placed before the intent is whole (this holds
even when `slow`), and nothing more is bought once the active record or the decision
was begun. Steps of the session that write nothing stutter, or complete the job; a
fill is `Buy` or `Sell`, an order that moves late is `Disturb`, and each write, whole
or torn by a kill, is the action of its file.

### Only model-checked

The counterexamples of the four findings, and the liveness properties
(`OwedIsDelivered`, `EveryIntentAnswered`, `DisplaceableRequestAnswered`,
`EveryJobAnswered`, `PositionIsManaged`): liveness under fairness is out of the
prover's reach.

## 5. Not modelled, and limits of what is

* Time: retry back-off, cadences and the liveness windows are nondeterminism. The
  liveness verdict may fall at any time the queue is not empty, which is more than
  the code does.
* The 256-entry diagnostic deque: a decision eventually drops out of it, so an
  unrestorable checkpoint of the first finding may heal after 256 later decisions
  of a process that does not run.
* Payload validation by the writer, authentication tags and frame sizes: they
  decide *which* payload is rejected, never the state the rejection leaves.
* `evidence_history_capacity` is never trimmed: at the limit every further intent
  is refused. `EmitDropped` models the refusal.
* Custody: the terminal hold, which the checkpoint stores in three places
  (`continuous_runtime.py:1818-1828` compares them), is the one field `failed`. A
  save that kept some of them and lost others is beyond the model.
* The live denominator source raises for provider-bound batches
  (`continuous_live_qualification.py:1367`), so there `FlushProviderBound` always
  takes its failing branch; the model allows both.
* Composition: what a composition contains. The lifecycle, breakout and producer
  ledgers are sets of cycles; lifecycle transitions, setups and plan versions are
  functions of market data. The live denominator source raises `KeyError` for a
  cycle that is not among its composition cycles; `Pair` allows it a failure.
* Supervisor: the guardian, the reboot canary and the prospective epoch; the
  contents of a job; receipts' digests and the manifest's own validation. A receipt
  is its status: two unequal receipts of one status, which the code refuses as well
  (`automation_state_recovery.py:334-335`), are no conflict in the model. A job is
  disabled by an edit, and not enabled again.
* Paper session: prices, quantities and risk arithmetic; corporate actions; the
  `reconcile` command run by an operator beside a session; broker time-outs are
  `faults`. The supervisor that launches it is not locked out of its store: the
  fairness of `Launch`, and with it `PositionIsManaged`, assumes what
  `EveryJobAnswered` names as `LockedOut` does not happen. One decision cycle: the
  next day has other identities and files.
* Attempt ledger (`continuous_attempt_ledger.py`): an append-only journal with an
  anchor in the checkpoint; its torn tail refuses the restore. Not modelled.
* Writer liveness: the windowed algorithm of `writer_liveness.py` is abstracted to
  a verdict that may fall at any time while something is owed.
* Lease registry: a dictionary of one process. That two processes of one identity
  may share one checkpoint is the hazard; the models have one runtime.
* Dedicated v2 writer, science custody, shadow trading, candidate lifecycle and
  the other components marked `not_modelled` in `PROJECT.json`, with their reasons.

## 6. Plan

Done: custody, writer and pipeline; composition; supervisor and Paper session; the
proofs of section 4, among them a refinement for every component but the pipeline.
The project keeps to a dozen runs, and has them, so what follows would take the
place of a run or grow a module that has one.

1. An abstract specification of the pipeline's queues (what a request is promised from
   its acceptance to its answer), and its refinement.
2. `AttemptLedger` with its checkpoint anchor, inside `EvidenceCustody`'s crash
   model; `DedicatedWriter` as a second implementation of `EvidenceLog`.
3. `WriterLiveness`: the windowed verdict as operators over bounded sequences of
   observations.
4. Science custody mailbox; the lease registry with two processes; shadow trading
   and candidate lifecycle after them.

## 7. Running

Each run is `tlc -config <cfg> <module>` with the pair listed in `PROJECT.json`;
the proofs are `tlapm <module>` for each module of section 4's table.
`AutomationSupervisor_proofs` takes about four minutes from nothing, the others
less. `EvidenceCustody_refinement` and `PaperEngineering_refinement` are checked after,
and cite, the proofs module of their component.
