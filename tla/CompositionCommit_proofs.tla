----------------------- MODULE CompositionCommit_proofs -----------------------
(***************************************************************************)
(* Theorems about the composition commit, for all symbols, capacities and*)
(* bounds that CompositionAssumption allows.                             *)
(*                                                                       *)
(* The types come first; Quiet then says of every step but four that it  *)
(* admits no evidence and names no cycle terminal, so that the theorems  *)
(* about the evidence have five cases instead of twenty-four.            *)
(***************************************************************************)
EXTENDS CompositionCommit, SequenceTheorems, FiniteSetTheorems, TLAPS

USE CompositionAssumption DEF staged

-----------------------------------------------------------------------------
(* Types.                                                                *)

LEMMA FreshType == Fresh \in Memory
  BY DEF Fresh, Memory

LEMMA WorkFields ==
  ASSUME NEW w \in Work
  PROVE  w.symbol \in Symbols /\ w.material \in 1 .. MaxMaterial
  BY DEF Work

\* A memory is the tuple of its fields.
LEMMA MemoryFields ==
  ASSUME NEW m \in Memory
  PROVE  /\ m.queue \in [Symbols -> 0 .. MaxMaterial] /\ m.terminal \in Seq(Cycle)
         /\ m.log \in Seq(Evidence) /\ m.flight \in Work \cup {NoWork}
         /\ m.lost \in SUBSET Cycle
         /\ m = [queue |-> m.queue, terminal |-> m.terminal, log |-> m.log,
                 flight |-> m.flight, lost |-> m.lost]
  BY DEF Memory

LEMMA FinishedType ==
  ASSUME NEW m \in Memory
  PROVE  Finished(m) \in Memory
  BY DEF Finished, Memory

LEMMA RecoveredType ==
  ASSUME NEW c \in Memory
  PROVE  Recovered(c) \in Memory
<1> DEFINE q == [s \in Symbols |-> IF c.flight # NoWork /\ c.flight.symbol = s
                                   THEN c.flight.material ELSE c.queue[s]]
<1>1. q \in [Symbols -> 0 .. MaxMaterial]
  <2> SUFFICES ASSUME NEW s \in Symbols
               PROVE  (IF c.flight # NoWork /\ c.flight.symbol = s
                       THEN c.flight.material ELSE c.queue[s]) \in 0 .. MaxMaterial
    OBVIOUS
  <2>1. CASE c.flight = NoWork
    BY <2>1, MemoryFields
  <2>2. CASE c.flight # NoWork
    BY <2>2, MemoryFields, WorkFields
  <2> QED BY <2>1, <2>2
<1>2. Recovered(c) = [c EXCEPT !.flight = NoWork, !.queue = q]
  BY DEF Recovered
<1> HIDE DEF q
<1> QED BY <1>1, <1>2, MemoryFields DEF Memory

LEMMA AdmitType ==
  ASSUME NEW log \in Seq(Evidence), NEW kind \in Kinds, NEW c \in Cycle
  PROVE  Admit(log, kind, c) \in Seq(Evidence)
<1>1. [kind |-> kind, cycle |-> c] \in Evidence
  BY DEF Evidence
<1> QED BY <1>1 DEF Admit

LEMMA InitType == Init => TypeOK
<1> SUFFICES ASSUME Init PROVE TypeOK
  OBVIOUS
<1>1. NoLedgers \in Contents
  BY DEF NoLedgers, Contents, Ledgers
<1>2. cycle \in Cycle \cup {0} /\ made \in Seq(Work) /\ Len(made) <= MaxCycles /\ done \in 0 .. 3
  BY DEF Init
<1>3. damaged \in BOOLEAN
  BY DEF Init
<1> QED BY <1>1, <1>2, <1>3, FreshType DEF Init, TypeOK

\* Publishing, rolling back and recovering replace one ledger by a set of cycles.
LEMMA ReplacedType ==
  ASSUME NEW f \in Contents, NEW n \in 0 .. 2, NEW new \in SUBSET Cycle
  PROVE  [f EXCEPT ![n + 1] = new] \in Contents
  BY DEF Contents, Ledgers

LEMMA GainedType ==
  ASSUME NEW i \in Ledgers, NEW f \in Contents, NEW c \in Cycle
  PROVE  Gained(i, f[i], c) \in SUBSET Cycle
  BY DEF Gained, Kept, Contents

LEMMA TrimmedType ==
  ASSUME NEW q \in Seq(Cycle), NEW c \in Cycle
  PROVE  Trimmed(q, c) \in Seq(Cycle)
<1>1. CASE Len(q) < TerminalCapacity
  BY <1>1 DEF Trimmed
<1>2. CASE ~(Len(q) < TerminalCapacity)
  <2>1. q # <<>>
    BY <1>2
  <2>2. Tail(q) \in Seq(Cycle)
    BY <2>1
  <2> QED BY <1>2, <2>2 DEF Trimmed
<1> QED BY <1>1, <1>2

\* A cycle found is of the ledger; a new one is one more.
LEMMA ComposedType ==
  ASSUME TypeOK, NEW w \in Work, Composed(w)
  PROVE  cycle' \in Cycle /\ made' \in Seq(Work) /\ Len(made') <= MaxCycles
<1>1. files[Producer] \in SUBSET Cycle /\ made \in Seq(Work) /\ Len(made) <= MaxCycles
  BY DEF TypeOK, Contents, Ledgers, Producer
<1>2. CASE cycle' \in files[Producer] /\ made' = made
  BY <1>1, <1>2
<1>3. CASE Len(made) < MaxCycles /\ made' = Append(made, w) /\ cycle' = Len(made) + 1
  BY <1>1, <1>3 DEF Cycle
<1> QED BY <1>2, <1>3 DEF Composed

LEMMA PoppedType ==
  ASSUME TypeOK, NEW s \in Symbols, mem.queue[s] # 0
  PROVE  /\ Popped(s) \in Memory /\ Popped(s).flight \in Work
         /\ [symbol |-> s, material |-> mem.queue[s]] \in Work
<1> DEFINE c == [symbol |-> s, material |-> mem.queue[s]]
<1> DEFINE q == [mem.queue EXCEPT ![s] = 0]
<1>1. mem \in Memory
  BY DEF TypeOK
<1>2. mem.queue[s] \in 1 .. MaxMaterial
  BY <1>1, MemoryFields
<1>3. c \in Work
  BY <1>2 DEF Work
<1>4. q \in [Symbols -> 0 .. MaxMaterial]
  BY <1>1, MemoryFields
<1>5. Popped(s) = [mem EXCEPT !.queue = q, !.flight = c]
  BY <1>1, MemoryFields DEF Popped
<1> HIDE DEF q
<1>6. Popped(s) \in Memory /\ Popped(s).flight = c
  <2> HIDE DEF c
  <2> QED BY <1>1, <1>3, <1>4, <1>5, MemoryFields DEF Memory
<1> QED BY <1>3, <1>6

LEMMA TerminalType ==
  ASSUME TypeOK, cycle \in Cycle
  PROVE  /\ Terminal \in Memory /\ Terminal.log = mem.log /\ Terminal.lost = mem.lost
         /\ Terminal.flight = mem.flight
         /\ Terminal.terminal = Trimmed(mem.terminal, cycle)
<1>1. Trimmed(mem.terminal, cycle) \in Seq(Cycle)
  BY TrimmedType, MemoryFields DEF TypeOK
<1> QED BY <1>1, MemoryFields DEF TypeOK, Terminal, Memory

-----------------------------------------------------------------------------
LEMMA TypeStep == TypeOK /\ [Next]_vars => TypeOK'
<1> SUFFICES ASSUME TypeOK, [Next]_vars PROVE TypeOK'
  OBVIOUS
<1> USE DEF TypeOK
<1>0. mem \in Memory /\ ckpt \in Memory /\ NoLedgers \in Contents
  BY DEF NoLedgers, Contents, Ledgers
<1>a. Finished(mem) \in Memory
  BY <1>0, FinishedType
<1>b. phase \in {"Journal", "Publish", "Rollback", "Record", "Pair"} => cycle \in Cycle
  OBVIOUS
<1>1. CASE UNCHANGED vars
  BY <1>1 DEF vars
<1>2. CASE Start
  BY <1>2 DEF Start
<1>3. CASE Recover
  <2>1. /\ journal \in Contents /\ done \in 0 .. 2 /\ journal[done + 1] \in SUBSET Cycle
        /\ files' = [files EXCEPT ![done + 1] = journal[done + 1]]
    BY <1>3 DEF Recover, Contents, Ledgers
  <2>2. files' \in Contents
    BY <2>1, ReplacedType
  <2> QED BY <1>3, <2>1, <2>2 DEF Recover
<1>4. CASE Restore
  BY <1>4, <1>0, RecoveredType DEF Restore, Discard
<1>5. CASE RecoverFault
  BY <1>5, <1>0 DEF RecoverFault, Discard
<1>6. CASE Crash
  BY <1>6, <1>0, FreshType DEF Crash, Discard
<1>7. CASE Save
  BY <1>7 DEF Save
<1>8. ASSUME NEW s \in Symbols, Ready(s) PROVE TypeOK'
  <2>1. PICK m \in 1 .. MaxMaterial : \E q \in Enqueued(s, m) :
          mem' = [mem EXCEPT !.queue = q] /\ live' = {t \in live \cup {s} : q[t] # 0}
    BY <1>8 DEF Ready
  <2>2. PICK q \in Enqueued(s, m) :
          mem' = [mem EXCEPT !.queue = q] /\ live' = {t \in live \cup {s} : q[t] # 0}
    BY <2>1
  <2>3. q \in [Symbols -> 0 .. MaxMaterial]
    <3>1. mem.queue \in [Symbols -> 0 .. MaxMaterial] /\ m \in 0 .. MaxMaterial
      BY <1>0, MemoryFields
    <3>2. PICK t \in Symbols : q \in {[mem.queue EXCEPT ![s] = m], [mem.queue EXCEPT ![s] = m, ![t] = 0]}
      BY DEF Enqueued, Queued
    <3> QED BY <3>1, <3>2
  <2>4. mem' \in Memory
    BY <2>2, <2>3, <1>0, MemoryFields DEF Memory
  <2> QED BY <1>8, <2>2, <2>4 DEF Ready, staged
<1>9. ASSUME NEW s \in Symbols, NotReady(s) PROVE TypeOK'
  BY <1>9 DEF NotReady
<1>10. ASSUME NEW s \in Symbols, StageFails(s) PROVE TypeOK'
  <2>1. Popped(s) \in Memory
    BY <1>10, PoppedType DEF StageFails
  <2> QED BY <1>10, <2>1, FinishedType DEF StageFails, SaveWith, Discard
<1>11. ASSUME NEW s \in Symbols, Stage(s) PROVE TypeOK'
  <2>1. Popped(s) \in Memory /\ Popped(s).flight \in Work
    BY <1>11, PoppedType DEF Stage
  <2>2. cycle' \in Cycle /\ made' \in Seq(Work) /\ Len(made') <= MaxCycles
    BY <1>11, PoppedType, ComposedType DEF Stage
  <2>3. cycle' # 0
    BY <2>2 DEF Cycle
  <2> QED BY <1>11, <2>1, <2>2, <2>3 DEF Stage
<1>12. CASE WriteJournal
  BY <1>12 DEF WriteJournal
<1>13. CASE Publish
  <2>1. /\ done \in 0 .. 2 /\ done + 1 \in Ledgers
        /\ files' = [files EXCEPT ![done + 1] = Gained(done + 1, preview[done + 1], cycle)]
    BY <1>13 DEF Publish, Ledgers
  <2>2. Gained(done + 1, preview[done + 1], cycle) \in SUBSET Cycle
    BY <1>13, <1>b, <2>1, GainedType DEF Publish
  <2>3. files' \in Contents
    BY <2>1, <2>2, ReplacedType
  <2> QED BY <1>13, <2>1, <2>3 DEF Publish
<1>14. CASE Published
  BY <1>14, <1>0 DEF Published, Discard
<1>15. CASE PublishFault
  BY <1>15 DEF PublishFault, Publishing
<1>16. CASE Rollback
  <2>1. /\ done \in 0 .. 2 /\ preview[done + 1] \in SUBSET Cycle
        /\ files' = [files EXCEPT ![done + 1] = preview[done + 1]]
    BY <1>16 DEF Rollback, Contents, Ledgers
  <2>2. files' \in Contents
    BY <2>1, ReplacedType
  <2> QED BY <1>16, <2>1, <2>2 DEF Rollback
<1>17. CASE RolledBack
  BY <1>17, <1>0, <1>a DEF RolledBack, Failed, SaveWith, Discard
<1>18. CASE RollbackFault
  BY <1>18, <1>0, <1>a DEF RollbackFault, Failed, SaveWith, Discard
<1>19. CASE CleanupFault
  BY <1>19, <1>0, <1>a DEF CleanupFault, Failed, SaveWith, Discard
<1>20. CASE Interrupt
  BY <1>20, <1>0, <1>a DEF Interrupt, Discard
<1>21. CASE RecordDuplicate
  BY <1>21, <1>0, <1>a DEF RecordDuplicate, Discard
<1>22. CASE Record
  <2>1. cycle \in Cycle
    BY <1>22 DEF Record
  <2>2. Admit(mem.log, "composition", cycle) \in Seq(Evidence)
    BY <2>1, <1>0, AdmitType, MemoryFields DEF Kinds
  <2>3. mem' \in Memory /\ mem'.flight = mem.flight
    BY <1>22, <2>1, <2>2, TerminalType, MemoryFields DEF Record, Memory
  <2> QED BY <1>22, <2>1, <2>3 DEF Record, SaveWith
<1>23. CASE RecordCompact
  <2>1. cycle \in Cycle
    BY <1>23 DEF RecordCompact
  <2>2. Admit(mem.log, "rejection", cycle) \in Seq(Evidence)
    BY <2>1, <1>0, AdmitType, MemoryFields DEF Kinds
  <2> DEFINE m == [Terminal EXCEPT !.log = Admit(@, "rejection", cycle)]
  <2>3. m \in Memory
    BY <2>1, <2>2, TerminalType, MemoryFields DEF Memory
  <2>4. SaveWith(m) /\ mem' = Finished(m)
    BY <1>23 DEF RecordCompact
  <2> HIDE DEF m
  <2> QED BY <1>23, <1>0, <2>3, <2>4, FinishedType DEF RecordCompact, SaveWith, Discard
<1>24. CASE Pair
  <2>2. Admit(mem.log, "denominator", cycle) \in Seq(Evidence)
    BY <1>24, <1>0, <1>b, AdmitType, MemoryFields DEF Kinds, Pair
  <2> DEFINE m == [mem EXCEPT !.log = Admit(@, "denominator", cycle)]
  <2>3. m \in Memory
    BY <2>2, <1>0, MemoryFields DEF Memory
  <2>4. SaveWith(m) /\ mem' = Finished(m)
    BY <1>24 DEF Pair
  <2> HIDE DEF m
  <2> QED BY <1>24, <1>0, <2>3, <2>4, FinishedType DEF Pair, SaveWith, Discard
<1>25. CASE Raises
  <2>1. cycle \in Cycle
    BY <1>25 DEF Raises
  <2> DEFINE m == [Terminal EXCEPT !.lost = @ \cup {cycle}]
  <2>2. m \in Memory
    BY <2>1, TerminalType, MemoryFields DEF Memory
  <2>3. mem' \in {Finished(mem), Finished(m)}
    BY <1>25 DEF Raises
  <2> HIDE DEF m
  <2> QED BY <1>25, <1>0, <2>2, <2>3, <1>a, FinishedType DEF Raises, Discard
<1> QED
  BY <1>1, <1>2, <1>3, <1>4, <1>5, <1>6, <1>7, <1>8, <1>9, <1>10, <1>11, <1>12, <1>13,
     <1>14, <1>15, <1>16, <1>17, <1>18, <1>19, <1>20, <1>21, <1>22, <1>23, <1>24, <1>25
     DEF Next

\* Every reachable state has the types of TypeOK.
THEOREM TypeCorrect == Spec => []TypeOK
  BY InitType, TypeStep, PTL DEF Spec

-----------------------------------------------------------------------------
(* The log.                                                                *)

LEMMA OfAppend ==
  ASSUME NEW log \in Seq(Evidence), NEW e \in Evidence, NEW kind
  PROVE  Of(Append(log, e), kind) = Of(log, kind) \cup (IF e.kind = kind THEN {e.cycle} ELSE {})
<1> DEFINE l == Append(log, e)
<1>1. /\ Len(l) = Len(log) + 1 /\ Len(log) \in Nat /\ l[Len(log) + 1] = e
      /\ \A i \in 1 .. Len(log) : l[i] = log[i]
  OBVIOUS
<1> HIDE DEF l
<1> QED BY <1>1 DEF Of

\* What an admission adds: nothing to a full history, else one entry at the end.
LEMMA AdmitCases ==
  ASSUME NEW log \in Seq(Evidence), NEW kind \in Kinds, NEW c \in Cycle
  PROVE  \/ Len(log) >= HistoryCapacity /\ Admit(log, kind, c) = log
         \/ /\ Len(log) < HistoryCapacity
            /\ [kind |-> kind, cycle |-> c] \in Evidence
            /\ Admit(log, kind, c) = Append(log, [kind |-> kind, cycle |-> c])
  BY DEF Admit, Evidence

LEMMA EmptyLog ==
  /\ \A kind : Of(<<>>, kind) = {}
  /\ Follows(<<>>)
  BY DEF Of, Follows

\* Nothing of the evidence, the terminal cycles or the lost ones changes.
Same(m, n) == m.log = n.log /\ m.terminal = n.terminal /\ m.lost = n.lost

\* A step that admits no evidence and names no cycle terminal: what it leaves
\* in memory and in the checkpoint was in one of the two, or is fresh.
Quiet ==
  /\ Same(mem', mem) \/ Same(mem', ckpt) \/ Same(mem', Fresh)
  /\ Same(ckpt', ckpt) \/ Same(ckpt', mem)
  /\ phase' # "Pair"

\* The cycle in hand is named terminal, and the exception takes it.
Loses ==
  /\ Raises /\ cycle \notin In(mem.terminal)
  /\ mem' = Finished([Terminal EXCEPT !.lost = @ \cup {cycle}])

LEMMA SameParts ==
  ASSUME NEW m \in Memory
  PROVE  Same(Finished(m), m) /\ Same(Recovered(m), m)
  BY DEF Same, Finished, Recovered, Memory

LEMMA StepShape ==
  TypeOK /\ [Next]_vars =>
    Quiet \/ UNCHANGED vars \/ Record \/ RecordCompact \/ Pair \/ Loses
<1> SUFFICES ASSUME TypeOK, Next
             PROVE  Quiet \/ Record \/ RecordCompact \/ Pair \/ Loses
  OBVIOUS
<1>a. mem \in Memory /\ ckpt \in Memory
  BY DEF TypeOK
<1>b. Same(mem, mem) /\ Same(ckpt, ckpt) /\ Same(Fresh, Fresh)
  BY DEF Same
<1>c. Same(Finished(mem), mem) /\ Same(Recovered(ckpt), ckpt)
  BY <1>a, SameParts
<1>1. CASE \/ Start \/ Recover \/ RecoverFault \/ WriteJournal \/ Publish \/ Published
           \/ PublishFault \/ Rollback \/ \E s \in Symbols : NotReady(s)
  <2>1. mem' = mem /\ ckpt' = ckpt /\ phase' # "Pair"
    BY <1>1 DEF Start, Recover, RecoverFault, WriteJournal, Publish, Published,
                PublishFault, Publishing, Rollback, NotReady
  <2> QED BY <2>1, <1>b DEF Quiet
<1>2. CASE Restore
  BY <1>2, <1>c DEF Restore, Quiet
<1>3. CASE Crash
  BY <1>3, <1>b DEF Crash, Quiet
<1>4. CASE Save
  BY <1>4, <1>b DEF Save, Quiet
<1>5. ASSUME NEW s \in Symbols, Ready(s) PROVE Quiet
  <2>1. Same(mem', mem)
    BY <1>5, <1>a DEF Ready, Same, Memory
  <2> QED BY <1>5, <2>1, <1>b DEF Ready, Quiet
<1>6. ASSUME NEW s \in Symbols, StageFails(s) \/ Stage(s) PROVE Quiet
  <2>1. Popped(s) \in Memory /\ Same(Popped(s), mem)
    BY <1>6, <1>a, PoppedType DEF Popped, Same, Memory, StageFails, Stage
  <2>2. Same(Finished(Popped(s)), mem)
    BY <2>1, SameParts DEF Same
  <2> QED BY <1>6, <2>1, <2>2, <1>b DEF StageFails, Stage, SaveWith, Quiet
<1>7. CASE RolledBack \/ RollbackFault \/ CleanupFault
  BY <1>7, <1>b, <1>c DEF RolledBack, RollbackFault, CleanupFault, Failed, SaveWith, Quiet
<1>8. CASE Interrupt \/ RecordDuplicate
  BY <1>8, <1>b, <1>c DEF Interrupt, RecordDuplicate, Quiet
<1>9. CASE Raises
  BY <1>9, <1>b, <1>c DEF Raises, Quiet, Loses
<1> QED
  BY <1>1, <1>2, <1>3, <1>4, <1>5, <1>6, <1>7, <1>8, <1>9 DEF Next

\* What the four other steps leave behind.
LEMMA RecordEffect ==
  ASSUME TypeOK, Record
  PROVE  /\ cycle \in Cycle /\ cycle \notin In(mem.terminal)
         /\ mem'.log = Admit(mem.log, "composition", cycle)
         /\ mem'.terminal = Trimmed(mem.terminal, cycle)
         /\ mem'.lost = mem.lost /\ cycle' = cycle
         /\ Same(ckpt', ckpt) \/ Same(ckpt', mem')
<1>1. cycle \in Cycle
  BY DEF TypeOK, Record
<1>2. mem' = [Terminal EXCEPT !.log = Admit(Terminal.log, "composition", cycle)]
  BY DEF Record
<1>3. /\ mem'.log = Admit(Terminal.log, "composition", cycle)
      /\ mem'.terminal = Terminal.terminal /\ mem'.lost = Terminal.lost
      /\ mem'.flight = Terminal.flight
  BY <1>1, <1>2, TerminalType, MemoryFields DEF Memory
<1> QED BY <1>1, <1>3, TerminalType DEF Record, SaveWith, Same

LEMMA CompactEffect ==
  ASSUME TypeOK, RecordCompact
  PROVE  /\ cycle \in Cycle /\ cycle \notin In(mem.terminal) /\ Len(mem.log) < HistoryCapacity
         /\ mem'.log = Admit(mem.log, "rejection", cycle)
         /\ mem'.terminal = Trimmed(mem.terminal, cycle)
         /\ mem'.lost = mem.lost
         /\ Same(ckpt', ckpt) \/ Same(ckpt', mem')
<1> DEFINE m == [Terminal EXCEPT !.log = Admit(Terminal.log, "rejection", cycle)]
<1>1. cycle \in Cycle
  BY DEF TypeOK, RecordCompact
<1>2. Admit(mem.log, "rejection", cycle) \in Seq(Evidence)
  BY <1>1, AdmitType, MemoryFields DEF TypeOK, Kinds
<1>3. /\ m \in Memory /\ m.log = Admit(Terminal.log, "rejection", cycle)
      /\ m.terminal = Terminal.terminal /\ m.lost = Terminal.lost
  BY <1>1, <1>2, TerminalType, MemoryFields DEF Memory
<1>4. SaveWith(m) /\ mem' = Finished(m)
  BY DEF RecordCompact
<1> HIDE DEF m
<1> QED BY <1>1, <1>3, <1>4, SameParts, TerminalType DEF RecordCompact, SaveWith, Same

LEMMA PairEffect ==
  ASSUME TypeOK, Pair
  PROVE  /\ cycle \in Cycle
         /\ mem'.log = Admit(mem.log, "denominator", cycle)
         /\ mem'.terminal = mem.terminal /\ mem'.lost = mem.lost
         /\ Same(ckpt', ckpt) \/ Same(ckpt', mem')
<1> DEFINE m == [mem EXCEPT !.log = Admit(mem.log, "denominator", cycle)]
<1>2. cycle \in Cycle /\ mem \in Memory
  BY DEF TypeOK, Pair
<1>3. Admit(mem.log, "denominator", cycle) \in Seq(Evidence)
  BY <1>2, AdmitType, MemoryFields DEF Kinds
<1>4. /\ m \in Memory /\ m.log = Admit(mem.log, "denominator", cycle)
      /\ m.terminal = mem.terminal /\ m.lost = mem.lost
  BY <1>2, <1>3, MemoryFields DEF Memory
<1>5. SaveWith(m) /\ mem' = Finished(m)
  BY DEF Pair
<1> HIDE DEF m
<1> QED BY <1>2, <1>4, <1>5, SameParts DEF SaveWith, Same

LEMMA LosesEffect ==
  ASSUME TypeOK, Loses
  PROVE  /\ cycle \in Cycle /\ cycle \notin In(mem.terminal)
         /\ mem'.log = mem.log /\ mem'.terminal = Trimmed(mem.terminal, cycle)
         /\ mem'.lost = mem.lost \cup {cycle}
         /\ ckpt' = ckpt /\ phase' = "Idle"
<1> DEFINE m == [Terminal EXCEPT !.lost = Terminal.lost \cup {cycle}]
<1>1. cycle \in Cycle
  BY DEF TypeOK, Loses, Raises
<1>2. /\ m \in Memory /\ m.log = Terminal.log /\ m.terminal = Terminal.terminal
      /\ m.lost = Terminal.lost \cup {cycle}
  BY <1>1, TerminalType, MemoryFields DEF Memory
<1>3. mem' = Finished(m)
  BY DEF Loses
<1> HIDE DEF m
<1> QED BY <1>1, <1>2, <1>3, SameParts, TerminalType DEF Same, Loses, Raises

-----------------------------------------------------------------------------
(* A terminal cycle is answered.                                           *)

AnsweredInv == Answered(mem) /\ Answered(ckpt)

\* An admission forgets nothing, and keeps what it was given or is full.
LEMMA AdmitKeeps ==
  ASSUME NEW m \in Memory, NEW kind \in Kinds, NEW c \in Cycle
  PROVE  /\ \A k : Of(m.log, k) \subseteq Of(Admit(m.log, kind, c), k)
         /\ \/ c \in Of(Admit(m.log, kind, c), kind)
            \/ Len(Admit(m.log, kind, c)) >= HistoryCapacity
         /\ Len(m.log) >= HistoryCapacity => Len(Admit(m.log, kind, c)) >= HistoryCapacity
<1> DEFINE e == [kind |-> kind, cycle |-> c]
<1>1. e \in Evidence /\ e.kind = kind /\ e.cycle = c
  BY DEF Evidence
<1>2. m.log \in Seq(Evidence) /\ Len(m.log) \in Nat
  BY MemoryFields
<1>3. \/ Len(m.log) >= HistoryCapacity /\ Admit(m.log, kind, c) = m.log
      \/ Len(m.log) < HistoryCapacity /\ Admit(m.log, kind, c) = Append(m.log, e)
  BY <1>2, AdmitCases
<1> HIDE DEF e
<1>4. ASSUME NEW k
      PROVE  Of(Append(m.log, e), k) = Of(m.log, k) \cup (IF e.kind = k THEN {e.cycle} ELSE {})
  BY <1>1, <1>2, OfAppend
<1>5. ASSUME NEW k PROVE Of(m.log, k) \subseteq Of(Admit(m.log, kind, c), k)
  BY <1>3, <1>4
<1>6. /\ \/ c \in Of(Admit(m.log, kind, c), kind)
         \/ Len(Admit(m.log, kind, c)) >= HistoryCapacity
      /\ Len(m.log) >= HistoryCapacity => Len(Admit(m.log, kind, c)) >= HistoryCapacity
  <2>1. CASE Len(m.log) >= HistoryCapacity /\ Admit(m.log, kind, c) = m.log
    BY <2>1
  <2>2. CASE Len(m.log) < HistoryCapacity /\ Admit(m.log, kind, c) = Append(m.log, e)
    <3>1. c \in Of(Append(m.log, e), kind) /\ ~(Len(m.log) >= HistoryCapacity)
      BY <1>1, <1>2, <1>4, <2>2
    <3> QED BY <2>2, <3>1
  <2> QED BY <1>3, <2>1, <2>2
<1> QED BY <1>5, <1>6

\* The trim forgets terminal cycles and adds one.
LEMMA TrimmedIn ==
  ASSUME NEW q \in Seq(Cycle), NEW c \in Cycle
  PROVE  In(Trimmed(q, c)) \subseteq In(q) \cup {c}
<1>1. CASE Len(q) < TerminalCapacity
  <2>1. /\ Trimmed(q, c) = Append(q, c) /\ Len(Append(q, c)) = Len(q) + 1
        /\ \A i \in 1 .. Len(q) + 1 : Append(q, c)[i] = IF i = Len(q) + 1 THEN c ELSE q[i]
    BY <1>1 DEF Trimmed
  <2> QED BY <2>1 DEF In
<1>2. CASE ~(Len(q) < TerminalCapacity)
  <2>1. q # <<>> /\ Len(q) \in Nat \ {0}
    BY <1>2
  <2> DEFINE t == Tail(q)
  <2>2. /\ t \in Seq(Cycle) /\ Len(t) = Len(q) - 1 /\ \A i \in 1 .. Len(t) : t[i] = q[i + 1]
    BY <2>1
  <2>3. Trimmed(q, c) = Append(t, c)
    BY <1>2 DEF Trimmed
  <2> HIDE DEF t
  <2>4. /\ Len(Append(t, c)) = Len(q)
        /\ \A i \in 1 .. Len(q) : Append(t, c)[i] = IF i = Len(q) THEN c ELSE q[i + 1]
    BY <2>1, <2>2
  <2> QED BY <2>1, <2>2, <2>3, <2>4 DEF In
<1> QED BY <1>1, <1>2

LEMMA AnsweredInit == Init => AnsweredInv
  BY DEF Init, Fresh, AnsweredInv, Answered, In

\* A memory that gains terminal cycles gains their answer, or is full.
LEMMA AnsweredGrows ==
  ASSUME NEW m, NEW n, NEW new, Answered(m),
         In(n.terminal) \subseteq In(m.terminal) \cup new, m.lost \subseteq n.lost,
         \A k : Of(m.log, k) \subseteq Of(n.log, k),
         Len(m.log) >= HistoryCapacity => Len(n.log) >= HistoryCapacity,
         \A c \in new : \/ c \in Of(n.log, "composition") \cup Of(n.log, "rejection") \cup n.lost
                        \/ Len(n.log) >= HistoryCapacity
  PROVE  Answered(n)
  BY DEF Answered

LEMMA AnsweredStep == TypeOK /\ AnsweredInv /\ [Next]_vars => AnsweredInv'
<1> SUFFICES ASSUME TypeOK, AnsweredInv, [Next]_vars PROVE AnsweredInv'
  OBVIOUS
<1>a. mem \in Memory /\ ckpt \in Memory /\ Answered(mem) /\ Answered(ckpt)
  BY DEF TypeOK, AnsweredInv
<1>1. CASE Quiet
  <2>1. Answered(Fresh)
    BY DEF Fresh, Answered, In
  <2>2. ASSUME NEW m, NEW n, Answered(m), Same(n, m) PROVE Answered(n)
    BY <2>2 DEF Same, Answered
  <2>3. Answered(mem')
    BY <1>1, <1>a, <2>1, <2>2 DEF Quiet
  <2>4. Answered(ckpt')
    BY <1>1, <1>a, <2>2 DEF Quiet
  <2> QED BY <2>3, <2>4 DEF AnsweredInv, Answered
<1>2. CASE UNCHANGED vars
  BY <1>2 DEF vars, AnsweredInv, Answered
<1>3. CASE Record
  <2>1. Answered(mem')
    <3> DEFINE new == {cycle}
    <3>1. /\ cycle \in Cycle /\ mem'.log = Admit(mem.log, "composition", cycle)
          /\ mem'.terminal = Trimmed(mem.terminal, cycle) /\ mem.lost \subseteq mem'.lost
      BY <1>3, RecordEffect
    <3>2. /\ \A k : Of(mem.log, k) \subseteq Of(mem'.log, k)
          /\ cycle \in Of(mem'.log, "composition") \/ Len(mem'.log) >= HistoryCapacity
          /\ Len(mem.log) >= HistoryCapacity => Len(mem'.log) >= HistoryCapacity
      BY <1>a, <3>1, AdmitKeeps DEF Kinds
    <3>3. \A c \in new :
            \/ c \in Of(mem'.log, "composition") \cup Of(mem'.log, "rejection") \cup mem'.lost
            \/ Len(mem'.log) >= HistoryCapacity
      BY <3>2
    <3>4. In(mem'.terminal) \subseteq In(mem.terminal) \cup new
      BY <1>a, <3>1, TrimmedIn, MemoryFields
    <3> HIDE DEF new
    <3> QED BY <1>a, <3>1, <3>2, <3>3, <3>4, AnsweredGrows
  <2> QED BY <1>3, <1>a, <2>1, RecordEffect DEF AnsweredInv, Answered, Same
<1>4. CASE RecordCompact
  <2>1. Answered(mem')
    <3> DEFINE new == {cycle}
    <3>1. /\ cycle \in Cycle /\ mem'.log = Admit(mem.log, "rejection", cycle)
          /\ mem'.terminal = Trimmed(mem.terminal, cycle) /\ mem.lost \subseteq mem'.lost
      BY <1>4, CompactEffect
    <3>2. /\ \A k : Of(mem.log, k) \subseteq Of(mem'.log, k)
          /\ cycle \in Of(mem'.log, "rejection") \/ Len(mem'.log) >= HistoryCapacity
          /\ Len(mem.log) >= HistoryCapacity => Len(mem'.log) >= HistoryCapacity
      BY <1>a, <3>1, AdmitKeeps DEF Kinds
    <3>3. \A c \in new :
            \/ c \in Of(mem'.log, "composition") \cup Of(mem'.log, "rejection") \cup mem'.lost
            \/ Len(mem'.log) >= HistoryCapacity
      BY <3>2
    <3>4. In(mem'.terminal) \subseteq In(mem.terminal) \cup new
      BY <1>a, <3>1, TrimmedIn, MemoryFields
    <3> HIDE DEF new
    <3> QED BY <1>a, <3>1, <3>2, <3>3, <3>4, AnsweredGrows
  <2> QED BY <1>4, <1>a, <2>1, CompactEffect DEF AnsweredInv, Answered, Same
<1>5. CASE Pair
  <2>1. Answered(mem')
    <3>1. mem'.log = Admit(mem.log, "denominator", cycle)
      BY <1>5, PairEffect
    <3>2. /\ \A k : Of(mem.log, k) \subseteq Of(mem'.log, k)
          /\ Len(mem.log) >= HistoryCapacity => Len(mem'.log) >= HistoryCapacity
      BY <1>5, <1>a, <3>1, PairEffect, AdmitKeeps DEF Kinds
    <3> DEFINE new == {}
    <3>3. In(mem'.terminal) \subseteq In(mem.terminal) \cup new /\ mem.lost \subseteq mem'.lost
      BY <1>5, PairEffect
    <3>4. \A c \in new :
            \/ c \in Of(mem'.log, "composition") \cup Of(mem'.log, "rejection") \cup mem'.lost
            \/ Len(mem'.log) >= HistoryCapacity
      OBVIOUS
    <3> HIDE DEF new
    <3> QED BY <1>a, <3>2, <3>3, <3>4, AnsweredGrows
  <2> QED BY <1>5, <1>a, <2>1, PairEffect DEF AnsweredInv, Answered, Same
<1>6. CASE Loses
  <2>1. Answered(mem')
    <3> DEFINE new == {cycle}
    <3>1. /\ cycle \in Cycle /\ mem'.log = mem.log
          /\ mem'.terminal = Trimmed(mem.terminal, cycle) /\ mem'.lost = mem.lost \cup new
      BY <1>6, LosesEffect
    <3>2. In(mem'.terminal) \subseteq In(mem.terminal) \cup new
      BY <1>a, <3>1, TrimmedIn, MemoryFields
    <3>3. \A c \in new : c \in mem'.lost
      BY <3>1
    <3> HIDE DEF new
    <3> QED BY <1>a, <3>1, <3>2, <3>3, AnsweredGrows
  <2> QED BY <1>6, <1>a, <2>1, LosesEffect DEF AnsweredInv, Answered
<1> QED BY <1>1, <1>2, <1>3, <1>4, <1>5, <1>6, StepShape

\* No checkpoint calls a cycle terminal without its evidence, its rejection, a
\* full history or an exception.  Memory is answered in every phase: Record and
\* RecordCompact name the cycle and answer it in one step.
THEOREM TerminalAnswered == Spec => []TerminalIsAnswered
<1>1. AnsweredInv => TerminalIsAnswered
  BY DEF AnsweredInv, TerminalIsAnswered
<1> QED BY <1>1, AnsweredInit, AnsweredStep, TypeCorrect, PTL DEF Spec

-----------------------------------------------------------------------------
(* The denominator follows its composition.                                *)

FollowsInv ==
  /\ Follows(mem.log) /\ Follows(ckpt.log)
  /\ phase = "Pair" => \/ cycle \in Of(mem.log, "composition")
                       \/ Len(mem.log) >= HistoryCapacity

LEMMA FollowsAppend ==
  ASSUME NEW log \in Seq(Evidence), NEW e \in Evidence, Follows(log),
         e.kind = "denominator" => e.cycle \in Of(log, "composition")
  PROVE  Follows(Append(log, e))
<1> DEFINE l == Append(log, e)
<1>1. /\ Len(l) = Len(log) + 1 /\ Len(log) \in Nat /\ l[Len(log) + 1] = e
      /\ \A i \in 1 .. Len(log) : l[i] = log[i]
  OBVIOUS
<1> HIDE DEF l
<1>2. ASSUME NEW j \in 1 .. Len(l), l[j].kind = "denominator"
      PROVE  \E i \in 1 .. j - 1 : l[i].kind = "composition" /\ l[i].cycle = l[j].cycle
  <2>1. CASE j \in 1 .. Len(log)
    <3>1. PICK i \in 1 .. j - 1 : log[i].kind = "composition" /\ log[i].cycle = log[j].cycle
      BY <1>1, <1>2, <2>1 DEF Follows
    <3>2. i \in 1 .. Len(log)
      BY <1>1, <2>1
    <3> QED BY <1>1, <2>1, <3>1, <3>2
  <2>2. CASE j = Len(log) + 1
    <3>1. PICK i \in 1 .. Len(log) : log[i].kind = "composition" /\ log[i].cycle = e.cycle
      BY <1>1, <1>2, <2>2 DEF Of
    <3> QED BY <1>1, <2>2, <3>1
  <2> QED BY <1>1, <2>1, <2>2
<1> QED BY <1>2 DEF Follows, l

\* An admission keeps the order unless it puts a denominator or a failure behind
\* a log without the composition.
LEMMA AdmitFollows ==
  ASSUME NEW m \in Memory, NEW kind \in Kinds, NEW c \in Cycle, Follows(m.log),
         kind = "denominator" =>
           c \in Of(m.log, "composition") \/ Len(m.log) >= HistoryCapacity
  PROVE  Follows(Admit(m.log, kind, c))
<1> DEFINE e == [kind |-> kind, cycle |-> c]
<1>1. e \in Evidence /\ e.kind = kind /\ e.cycle = c
  BY DEF Evidence
<1>2. m.log \in Seq(Evidence) /\ Len(m.log) \in Nat
  BY MemoryFields
<1>3. \/ Admit(m.log, kind, c) = m.log
      \/ Len(m.log) < HistoryCapacity /\ Admit(m.log, kind, c) = Append(m.log, e)
  BY <1>2, AdmitCases
<1> HIDE DEF e
<1>4. CASE Admit(m.log, kind, c) = m.log
  BY <1>4
<1>5. CASE Len(m.log) < HistoryCapacity /\ Admit(m.log, kind, c) = Append(m.log, e)
  <2>1. e.kind = "denominator" => e.cycle \in Of(m.log, "composition")
    BY <1>1, <1>2, <1>5
  <2> QED BY <1>1, <1>2, <1>5, <2>1, FollowsAppend
<1> QED BY <1>3, <1>4, <1>5

LEMMA FollowsInit == Init => FollowsInv
  BY EmptyLog DEF Init, Fresh, FollowsInv

LEMMA FollowsStep == TypeOK /\ FollowsInv /\ [Next]_vars => FollowsInv'
<1> SUFFICES ASSUME TypeOK, FollowsInv, [Next]_vars PROVE FollowsInv'
  OBVIOUS
<1>a. mem \in Memory /\ ckpt \in Memory /\ Follows(mem.log) /\ Follows(ckpt.log)
  BY DEF TypeOK, FollowsInv
<1>1. CASE Quiet
  BY <1>1, <1>a, EmptyLog DEF Quiet, Same, Fresh, FollowsInv
<1>2. CASE UNCHANGED vars
  BY <1>2 DEF vars, FollowsInv
<1>3. CASE Record
  <2>1. Follows(mem'.log)
    BY <1>3, <1>a, RecordEffect, AdmitFollows DEF Kinds
  <2>2. cycle \in Of(mem'.log, "composition") \/ Len(mem'.log) >= HistoryCapacity
    BY <1>3, <1>a, RecordEffect, AdmitKeeps DEF Kinds
  <2> QED BY <1>3, <1>a, <2>1, <2>2, RecordEffect DEF FollowsInv, Same
<1>4. CASE RecordCompact
  <2>1. Follows(mem'.log)
    BY <1>4, <1>a, CompactEffect, AdmitFollows DEF Kinds
  <2> QED BY <1>4, <1>a, <2>1, CompactEffect DEF FollowsInv, Same, RecordCompact
<1>5. CASE Pair
  <2>1. Follows(mem'.log)
    BY <1>5, <1>a, PairEffect, AdmitFollows DEF Kinds, FollowsInv, Pair
  <2> QED BY <1>5, <1>a, <2>1, PairEffect DEF FollowsInv, Same, Pair
<1>6. CASE Loses
  BY <1>6, <1>a, LosesEffect DEF FollowsInv
<1> QED BY <1>1, <1>2, <1>3, <1>4, <1>5, <1>6, StepShape

\* A denominator, or its failure, is recorded only behind its composition: between
\* the two the composition is in the log or the history was full before it, and
\* a full history admits no denominator either.
THEOREM DenominatorBehind == Spec => []DenominatorFollows
<1>1. FollowsInv => DenominatorFollows
  BY DEF FollowsInv, DenominatorFollows
<1> QED BY <1>1, FollowsInit, FollowsStep, TypeCorrect, PTL DEF Spec

-----------------------------------------------------------------------------
(* The producer's ledger keeps the newest.                                 *)

\* A cycle the ledger holds, or newer than all it holds.
Fits(ledger, c) == c \in ledger \/ \A d \in ledger : d < c

LEMMA CyclesFinite ==
  ASSUME NEW S \in SUBSET Cycle
  PROVE  IsFiniteSet(S) /\ Cardinality(S) \in Nat
<1>1. IsFiniteSet(1 .. MaxCycles)
  BY FS_Interval
<1>2. IsFiniteSet(S)
  BY <1>1, FS_Subset DEF Cycle
<1> QED BY <1>2, FS_CardinalityType

\* A full ledger that makes room stays full: one cycle at most is the oldest.
LEMMA RoomSize ==
  ASSUME NEW S \in SUBSET Cycle, NEW c \in Cycle, c \notin S
  PROVE  Cardinality((S \ Oldest(S)) \cup {c}) >= Cardinality(S)
<1>0. IsFiniteSet(S) /\ Cardinality(S) \in Nat
  BY CyclesFinite
<1>1. CASE Oldest(S) = {}
  <2>1. (S \ Oldest(S)) \cup {c} = S \cup {c}
    BY <1>1
  <2>2. Cardinality(S \cup {c}) = Cardinality(S) + 1
    BY <1>0, FS_AddElement
  <2>3. Cardinality((S \ Oldest(S)) \cup {c}) = Cardinality(S \cup {c})
    BY <2>1, Zenon
  <2> QED BY <1>0, <2>2, <2>3
<1>2. CASE Oldest(S) # {}
  <2>1. PICK o \in Oldest(S) : TRUE
    BY <1>2
  <2>2. o \in S /\ Oldest(S) = {o}
    <3>1. ASSUME NEW p \in Oldest(S) PROVE p = o
      <4>1. p \in Nat /\ o \in Nat /\ p <= o /\ o <= p
        BY <2>1 DEF Oldest, Cycle
      <4> QED BY <4>1
    <3> QED BY <2>1, <3>1 DEF Oldest
  <2> DEFINE R == S \ {o}
  <2>3. IsFiniteSet(R) /\ Cardinality(R) = Cardinality(S) - 1
    BY <1>0, <2>2, FS_RemoveElement
  <2>4. Cardinality(R \cup {c}) = Cardinality(R) + 1
    BY <2>3, FS_AddElement
  <2> QED BY <1>0, <2>2, <2>3, <2>4
<1> QED BY <1>1, <1>2

\* What the ledger makes of a cycle that fits: the cycle is in, what is out is
\* older than all that is in, and nothing remembered is forgotten.
LEMMA KeptFacts ==
  ASSUME NEW S \in SUBSET Cycle, NEW c \in Cycle, Fits(S, c)
  PROVE  /\ c \in Kept(S, c) /\ Kept(S, c) \subseteq S \cup {c}
         /\ \A x \in Cycle : Remembers(S, x) => Remembers(Kept(S, c), x)
<1>1. CASE c \in S \/ Cardinality(S) < ProducerCapacity
  <2>1. Kept(S, c) = S \cup {c}
    BY <1>1 DEF Kept
  <2>2. ASSUME NEW x \in Cycle, Remembers(S, x) PROVE Remembers(S \cup {c}, x)
    <3>1. CASE c \in S
      <4>1. S \cup {c} = S
        BY <3>1
      <4> QED BY <2>2, <4>1
    <3>2. CASE Cardinality(S) < ProducerCapacity
      BY <2>2, <3>2, CyclesFinite DEF Remembers
    <3> QED BY <1>1, <3>1, <3>2
  <2> QED BY <2>1, <2>2
<1>2. CASE c \notin S /\ ~(Cardinality(S) < ProducerCapacity)
  <2> DEFINE T == (S \ Oldest(S)) \cup {c}
  <2>1. Kept(S, c) = T
    BY <1>2 DEF Kept
  <2>2. /\ Cardinality(S) \in Nat /\ Cardinality(T) \in Nat
        /\ Cardinality(T) >= Cardinality(S)
    BY <1>2, RoomSize, CyclesFinite
  <2>3. Cardinality(T) >= ProducerCapacity /\ S # {}
    BY <1>2, <2>2, FS_EmptySet
  <2>4. \A d \in S : d < c
    BY <1>2 DEF Fits
  <2>5. ASSUME NEW x \in Cycle, Remembers(S, x) PROVE Remembers(T, x)
    <3>1. CASE x \in T
      BY <3>1 DEF Remembers
    <3>2. CASE x \in S /\ x \notin T
      <4>1. x \in Oldest(S)
        BY <3>2
      <4>2. \A d \in T : d > x
        BY <2>4, <3>2, <4>1 DEF Oldest, Cycle
      <4> QED BY <2>3, <4>2 DEF Remembers
    <3>3. CASE x \notin S
      <4>1. \A d \in S : d > x
        BY <2>5, <3>3 DEF Remembers
      <4>2. PICK s \in S : TRUE
        BY <2>3
      <4>3. s \in Nat /\ x \in Nat /\ c \in Nat /\ s < c /\ s > x
        BY <2>4, <4>1, <4>2 DEF Cycle
      <4>4. \A d \in T : d > x
        BY <4>1, <4>3
      <4> QED BY <2>3, <4>4 DEF Remembers
    <3> QED BY <3>1, <3>2, <3>3
  <2> HIDE DEF T
  <2>6. c \in T /\ T \subseteq S \cup {c}
    BY DEF T
  <2> QED BY <2>1, <2>5, <2>6
<1> QED BY <1>1, <1>2

\* What is out of the ledger made room for newer cycles.
LEMMA KeptNewest ==
  ASSUME NEW S \in SUBSET Cycle, NEW c \in Cycle, Fits(S, c), NEW x \in S \ Kept(S, c)
  PROVE  /\ Cardinality(Kept(S, c)) >= ProducerCapacity
         /\ \A d \in Kept(S, c) : d > x
  BY KeptFacts DEF Remembers

-----------------------------------------------------------------------------
(* Cutoffs.                                                                *)

\* Every cycle of a producer's ledger, and the one in hand, has been made: a new
\* cycle is newer than all of them.
CutoffInv ==
  /\ files[Producer] \subseteq 1 .. Len(made)
  /\ journal # NoJournal => journal[Producer] \subseteq 1 .. Len(made)
  /\ preview[Producer] \subseteq 1 .. Len(made)
  /\ cycle <= Len(made)

LEMMA CutoffInit == Init => CutoffInv
  BY DEF Init, CutoffInv, NoLedgers, Ledgers, Producer

LEMMA CutoffStep == TypeOK /\ CutoffInv /\ [Next]_vars => CutoffInv'
<1> SUFFICES ASSUME TypeOK, CutoffInv, [Next]_vars PROVE CutoffInv'
  OBVIOUS
<1>0. /\ files \in Contents /\ preview \in Contents /\ done \in 0 .. 3 /\ made \in Seq(Work)
      /\ journal \in Contents \cup {NoJournal} /\ NoJournal \notin Contents
      /\ Len(made) \in Nat /\ cycle \in Cycle \cup {0}
      /\ Producer \in Ledgers /\ NoLedgers[Producer] = {}
  BY DEF TypeOK, Ledgers, Producer, NoLedgers
\* Another ledger is written, or the producer's from a copy that is in order.
<1>w. ASSUME NEW new, done \in 0 .. 2, files' = [files EXCEPT ![done + 1] = new],
             done + 1 = Producer => new \subseteq 1 .. Len(made)
      PROVE  files'[Producer] \subseteq 1 .. Len(made)
  BY <1>0, <1>w DEF CutoffInv, Contents
<1>1. CASE UNCHANGED vars
  BY <1>1 DEF vars, CutoffInv
<1>2. CASE \/ RecoverFault \/ Crash \/ Save \/ RecordDuplicate \/ RecordCompact \/ Record
           \/ Pair \/ Raises \/ RolledBack \/ RollbackFault \/ CleanupFault \/ Interrupt
           \/ Published \/ PublishFault \/ Start \/ Restore
           \/ \E s \in Symbols : Ready(s) \/ NotReady(s) \/ StageFails(s)
  <2>1. /\ files' = files /\ journal' \in {journal, NoJournal} /\ made' = made
        /\ preview' \in {preview, NoLedgers} /\ cycle' \in {cycle, 0}
    BY <1>2 DEF RecoverFault, Crash, Save, RecordDuplicate, RecordCompact, Record, Pair,
                Raises, RolledBack, RollbackFault, CleanupFault, Interrupt, Published,
                PublishFault, Start, Restore, Ready, NotReady, StageFails, Failed, Discard
  <2> QED BY <1>0, <2>1 DEF CutoffInv
<1>3. CASE Recover
  <2>1. files'[Producer] \subseteq 1 .. Len(made)
    BY <1>0, <1>3, <1>w DEF Recover, CutoffInv
  <2> QED BY <1>3, <2>1 DEF Recover, CutoffInv
<1>4. ASSUME NEW s \in Symbols, Stage(s) PROVE CutoffInv'
  <2>1. PICK w \in Work : Composed(w)
    BY <1>4, PoppedType DEF Stage
  <2>2. Len(made') \in Nat /\ Len(made') >= Len(made) /\ cycle' <= Len(made')
    <3>1. CASE cycle' \in files[Producer] /\ made' = made
      BY <1>0, <3>1 DEF CutoffInv
    <3>2. CASE made' = Append(made, w) /\ cycle' = Len(made) + 1
      BY <1>0, <3>2
    <3> QED BY <2>1, <3>1, <3>2 DEF Composed
  <2> QED BY <1>0, <1>4, <2>2 DEF Stage, CutoffInv
<1>5. CASE WriteJournal
  BY <1>5 DEF WriteJournal, CutoffInv
<1>6. CASE Publish
  <2>1. cycle \in Cycle /\ cycle \in 1 .. Len(made) /\ done \in 0 .. 2
    BY <1>0, <1>6 DEF Publish, TypeOK, CutoffInv, Cycle
  <2>2. Gained(Producer, preview[Producer], cycle) \subseteq 1 .. Len(made)
    BY <2>1 DEF CutoffInv, Gained, Kept
  <2>3. files'[Producer] \subseteq 1 .. Len(made)
    BY <1>6, <1>w, <2>1, <2>2 DEF Publish
  <2> QED BY <1>6, <2>3 DEF Publish, CutoffInv
<1>7. CASE Rollback
  <2>1. files'[Producer] \subseteq 1 .. Len(made)
    BY <1>0, <1>7, <1>w DEF Rollback, CutoffInv
  <2> QED BY <1>7, <2>1 DEF Rollback, CutoffInv
<1> QED BY <1>1, <1>2, <1>3, <1>4, <1>5, <1>6, <1>7 DEF Next

\* The cycle in hand fits the copy it was staged from.
LEMMA StageFits ==
  ASSUME TypeOK, CutoffInv, NEW s \in Symbols, Stage(s)
  PROVE  cycle' \in Cycle /\ Fits(files[Producer], cycle')
<1>1. PICK w \in Work : Composed(w)
  BY PoppedType DEF Stage
<1>2. cycle' \in Cycle
  BY <1>1, ComposedType
<1>3. \A d \in files[Producer] : d < Len(made) + 1
  BY DEF TypeOK, CutoffInv
<1> QED BY <1>1, <1>2, <1>3 DEF Composed, Fits

-----------------------------------------------------------------------------
(* The journal and the ledgers beside it.                                  *)

\* The first n ledgers have gained the cycle, and have been taken from f.
Written(f, c, n) == \A i \in Ledgers : i <= n => files[i] = Gained(i, f[i], c)
Restored(f, n) == \A i \in Ledgers : i <= n => files[i] = f[i]

\* Ledger by ledger, f is g or g with the cycle c.
Ahead(f, g, c) ==
  /\ Fits(g[Producer], c)
  /\ \A i \in Ledgers : f[i] = g[i] \/ f[i] = Gained(i, g[i], c)

\* What the ledgers hold beside the journal, also after a torn publication: at
\* most one cycle more than the journal's copies, and in each phase what the
\* publication, the rollback or the recovery has written so far.
JournalInv ==
  /\ journal # NoJournal => \E c \in Cycle : Ahead(files, journal, c)
  /\ phase = "Journal" => files = preview /\ Fits(preview[Producer], cycle)
  /\ phase = "Publish" =>
       /\ journal = preview /\ Written(preview, cycle, done)
       /\ Ahead(files, preview, cycle)
  /\ phase = "Rollback" =>
       /\ Restored(preview, done)
       /\ files = preview \/ journal = preview
  /\ phase = "Recover" /\ journal # NoJournal => Restored(journal, done)

\* Writing the next ledger.
LEMMA WriteNext ==
  ASSUME NEW new, files \in Contents, done \in 0 .. 2, done' = done + 1,
         files' = [files EXCEPT ![done + 1] = new]
  PROVE  /\ done + 1 \in Ledgers /\ files'[done + 1] = new
         /\ \A i \in Ledgers : i # done + 1 => files'[i] = files[i]
         /\ \A i \in Ledgers : i <= done' => i <= done \/ i = done + 1
  BY DEF Ledgers, Contents

\* Taking ledgers from g, one with or without c, keeps them g or g with c.
LEMMA WriteAhead ==
  ASSUME NEW g \in Contents, NEW c, NEW new,
         files \in Contents, done \in 0 .. 2, done' = done + 1, Ahead(files, g, c),
         new = g[done + 1] \/ new = Gained(done + 1, g[done + 1], c),
         files' = [files EXCEPT ![done + 1] = new]
  PROVE  Ahead(files', g, c)
  BY WriteNext DEF Ahead

LEMMA JournalInit == Init => JournalInv
  BY DEF Init, JournalInv

LEMMA JournalStep == TypeOK /\ CutoffInv /\ JournalInv /\ [Next]_vars => JournalInv'
<1> SUFFICES ASSUME TypeOK, CutoffInv, JournalInv, [Next]_vars PROVE JournalInv'
  OBVIOUS
<1>0. /\ files \in Contents /\ preview \in Contents /\ done \in 0 .. 3
      /\ journal \in Contents \cup {NoJournal} /\ NoJournal \notin Contents
      /\ phase \in {"Journal", "Publish", "Rollback"} => cycle \in Cycle
  BY DEF TypeOK
<1>t. ASSUME NEW f \in Contents PROVE f = [i \in Ledgers |-> f[i]]
  BY DEF Contents
<1> USE DEF JournalInv
<1>1. CASE UNCHANGED vars
  BY <1>1 DEF vars, Written, Restored, Ahead
\* The phase that follows asks for nothing, and the ledgers and the journal stay,
\* or the journal goes.
<1>2. CASE \/ RecoverFault \/ Crash \/ Save \/ Published \/ RolledBack \/ RollbackFault
           \/ CleanupFault \/ Interrupt \/ RecordDuplicate \/ Record \/ RecordCompact
           \/ Pair \/ Raises \/ \E s \in Symbols : Ready(s) \/ NotReady(s) \/ StageFails(s)
  <2>1. /\ phase' \in {"Down", "Idle", "Record", "Pair"} /\ files' = files
        /\ journal' \in {journal, NoJournal}
    BY <1>2 DEF RecoverFault, Crash, Save, Published, RolledBack, RollbackFault,
                CleanupFault, Interrupt, RecordDuplicate, Record, RecordCompact, Pair,
                Raises, Failed, Ready, NotReady, StageFails
  <2> QED BY <2>1 DEF Ahead
<1>3. CASE Start
  BY <1>3 DEF Start, Restored, Ahead, Ledgers
<1>4. CASE Recover
  <2>1. /\ journal \in Contents /\ done \in 0 .. 2 /\ done' = done + 1
        /\ files' = [files EXCEPT ![done + 1] = journal[done + 1]]
        /\ Restored(journal, done) /\ phase = "Recover"
        /\ UNCHANGED <<phase, journal, preview>>
    BY <1>4, <1>0 DEF Recover
  <2>2. PICK c \in Cycle : Ahead(files, journal, c)
    BY <2>1, <1>0
  <2>3. Ahead(files', journal, c)
    BY <2>1, <2>2, <1>0, WriteAhead
  <2>4. \A i \in Ledgers : i <= done' => files'[i] = journal[i]
    BY <2>1, <1>0, WriteNext DEF Restored
  <2> QED BY <2>1, <2>3, <2>4 DEF Restored, Ahead
<1>5. CASE Restore
  BY <1>5 DEF Restore
<1>6. ASSUME NEW s \in Symbols, Stage(s) PROVE JournalInv'
  BY <1>6, StageFits DEF Stage, Ahead
<1>7. CASE WriteJournal
  <2>1. /\ files' = preview /\ journal' = preview /\ preview' = preview /\ cycle' = cycle
        /\ phase' = "Publish" /\ done' = 0 /\ cycle \in Cycle /\ Fits(preview[Producer], cycle)
    BY <1>7, <1>0 DEF WriteJournal
  <2>2. Ahead(files', preview, cycle)
    BY <2>1 DEF Ahead
  <2>3. \A i \in Ledgers : ~(i <= 0)
    BY DEF Ledgers
  <2> QED BY <2>1, <2>2, <2>3 DEF Ahead, Written
<1>8. CASE Publish
  <2>1. /\ done \in 0 .. 2 /\ done' = done + 1 /\ cycle \in Cycle
        /\ files' = [files EXCEPT ![done + 1] = Gained(done + 1, preview[done + 1], cycle)]
        /\ Written(preview, cycle, done) /\ journal = preview /\ phase = "Publish"
        /\ Ahead(files, preview, cycle)
        /\ UNCHANGED <<phase, journal, preview, cycle>>
    BY <1>8, <1>0 DEF Publish
  <2>2. \A i \in Ledgers : i <= done' => files'[i] = Gained(i, preview[i], cycle)
    BY <2>1, <1>0, WriteNext DEF Written
  <2>3. Ahead(files', preview, cycle)
    BY <2>1, <1>0, WriteAhead
  <2> QED BY <2>1, <2>2, <2>3 DEF Written, Ahead
<1>9. CASE PublishFault
  <2>1. /\ phase' = "Rollback" /\ done' = 0 /\ UNCHANGED <<files, journal, preview>>
        /\ files = preview \/ journal = preview
    BY <1>9 DEF PublishFault, Publishing
  <2>2. \A i \in Ledgers : ~(i <= 0)
    BY DEF Ledgers
  <2> QED BY <2>1, <2>2 DEF Restored, Ahead
<1>10. CASE Rollback
  <2>1. /\ done \in 0 .. 2 /\ done' = done + 1
        /\ files' = [files EXCEPT ![done + 1] = preview[done + 1]]
        /\ Restored(preview, done) /\ phase = "Rollback"
        /\ UNCHANGED <<phase, journal, preview>>
    BY <1>10, <1>0 DEF Rollback
  <2>2. \A i \in Ledgers : i <= done' => files'[i] = preview[i]
    BY <2>1, <1>0, WriteNext DEF Restored
  <2>3. files = preview => files' = files
    BY <2>1, <1>0, <1>t
  <2>4. journal # NoJournal => \E c \in Cycle : Ahead(files', journal, c)
    <3>1. CASE files = preview
      BY <2>3, <3>1
    <3>2. CASE journal = preview
      <4>1. PICK c \in Cycle : Ahead(files, preview, c)
        BY <3>2, <1>0
      <4>2. Ahead(files', preview, c)
        BY <2>1, <4>1, <1>0, WriteAhead
      <4> QED BY <3>2, <4>2
    <3> QED BY <2>1, <3>1, <3>2
  <2>5. files' = preview \/ journal = preview
    BY <2>1, <2>3
  <2> QED BY <2>1, <2>2, <2>4, <2>5 DEF Restored, Ahead
<1> QED
  BY <1>1, <1>2, <1>3, <1>4, <1>5, <1>6, <1>7, <1>8, <1>9, <1>10 DEF Next

-----------------------------------------------------------------------------
(* A cycle is recorded again only when it was forgotten.                    *)

Distinct(q) == \A a, b \in 1 .. Len(q) : q[a] = q[b] => a = b

\* What became terminal or was recorded behind entry i of the log.
After(m, i) == {m.log[k].cycle : k \in i + 1 .. Len(m.log)} \cup m.lost

\* The cycle x is terminal and only cycles of A came behind it, or so many of
\* A came that it may be forgotten.
Placed(q, x, A) ==
  \/ Cardinality(A \ {x}) >= TerminalCapacity
  \/ \E p \in 1 .. Len(q) : q[p] = x /\ \A r \in p + 1 .. Len(q) : q[r] \in A

\* While evidence is admitted the terminal cycles are the newest of what the log
\* and the exceptions tell.
Apart(m) ==
  /\ RepeatsApart(m)
  /\ Distinct(m.terminal) /\ Len(m.terminal) <= TerminalCapacity
  /\ Len(m.log) < HistoryCapacity =>
       \A i \in 1 .. Len(m.log) :
         m.log[i].kind = "composition" => Placed(m.terminal, m.log[i].cycle, After(m, i))

ApartInv == Apart(mem) /\ Apart(ckpt)

LEMMA MoreCycles ==
  ASSUME NEW B \in SUBSET Cycle, NEW A \in SUBSET B
  PROVE  Cardinality(A) \in Nat /\ Cardinality(B) \in Nat /\ Cardinality(A) <= Cardinality(B)
  BY CyclesFinite, FS_Subset

\* Distinct entries are as many cycles.
LEMMA DistinctSize ==
  ASSUME NEW q \in Seq(Cycle), Distinct(q), NEW A \in SUBSET Cycle, In(q) \subseteq A
  PROVE  Cardinality(A) >= Len(q)
<1> DEFINE f == [k \in 1 .. Len(q) |-> q[k]]
<1>1. f \in [1 .. Len(q) -> A]
  BY DEF In
<1>2. \A a, b \in 1 .. Len(q) : f[a] = f[b] => a = b
  BY DEF Distinct
<1> HIDE DEF f
<1>3. f \in Injection(1 .. Len(q), A)
  BY <1>1, <1>2 DEF Injection, IsInjective
<1>4. Cardinality(1 .. Len(q)) <= Cardinality(A)
  BY <1>3, CyclesFinite, FS_Injection
<1>5. Cardinality(1 .. Len(q)) = Len(q)
  BY FS_Interval
<1> QED BY <1>4, <1>5, CyclesFinite

LEMMA TrimmedShape ==
  ASSUME NEW q \in Seq(Cycle), NEW c \in Cycle, Distinct(q), c \notin In(q),
         Len(q) <= TerminalCapacity
  PROVE  LET t == Trimmed(q, c)
         IN  /\ t \in Seq(Cycle) /\ Distinct(t) /\ Len(t) <= TerminalCapacity
             /\ Len(t) > 0 /\ t[Len(t)] = c
             /\ \/ Len(t) = Len(q) + 1 /\ \A k \in 1 .. Len(q) : t[k] = q[k]
                \/ /\ Len(t) = Len(q) /\ Len(q) = TerminalCapacity
                   /\ \A k \in 1 .. Len(q) - 1 : t[k] = q[k + 1]
<1> DEFINE t == Trimmed(q, c)
<1>0. t \in Seq(Cycle) /\ Len(q) \in Nat /\ \A k \in 1 .. Len(q) : q[k] # c
  <2>1. \A k \in 1 .. Len(q) : q[k] # c
    BY DEF In
  <2> QED BY <2>1, TrimmedType
<1>1. CASE Len(q) < TerminalCapacity
  <2>1. t = Append(q, c)
    BY <1>1 DEF Trimmed
  <2>2. Len(t) = Len(q) + 1 /\ t[Len(q) + 1] = c /\ \A k \in 1 .. Len(q) : t[k] = q[k]
    BY <2>1
  <2> HIDE DEF t
  <2>3. ASSUME NEW a \in 1 .. Len(t), NEW b \in 1 .. Len(t), t[a] = t[b] PROVE a = b
    BY <1>0, <2>2, <2>3 DEF Distinct
  <2>4. Distinct(t)
    BY <2>3 DEF Distinct
  <2> QED BY <1>0, <1>1, <2>2, <2>4 DEF t
<1>2. CASE ~(Len(q) < TerminalCapacity)
  <2>1. q # <<>> /\ Len(q) = TerminalCapacity
    BY <1>2
  <2> DEFINE u == Tail(q)
  <2>2. u \in Seq(Cycle) /\ Len(u) = Len(q) - 1 /\ \A k \in 1 .. Len(q) - 1 : u[k] = q[k + 1]
    BY <2>1
  <2>3. t = Append(u, c)
    BY <1>2 DEF Trimmed
  <2> HIDE DEF t, u
  <2>4. /\ Len(t) = Len(q) /\ t[Len(q)] = c
        /\ \A k \in 1 .. Len(q) - 1 : t[k] = q[k + 1]
    BY <2>1, <2>2, <2>3
  <2>5. ASSUME NEW a \in 1 .. Len(t), NEW b \in 1 .. Len(t), t[a] = t[b] PROVE a = b
    <3>1. ASSUME NEW k \in 1 .. Len(q) - 1 PROVE t[k] # c
      BY <1>0, <2>4, <3>1
    <3>2. CASE a = Len(q)
      BY <2>4, <2>5, <3>1, <3>2
    <3>3. CASE b = Len(q)
      BY <2>4, <2>5, <3>1, <3>3
    <3>4. CASE a \in 1 .. Len(q) - 1 /\ b \in 1 .. Len(q) - 1
      <4>1. a + 1 \in 1 .. Len(q) /\ b + 1 \in 1 .. Len(q) /\ q[a + 1] = q[b + 1]
        BY <2>4, <2>5, <3>4
      <4> QED BY <4>1 DEF Distinct
    <3> QED BY <2>4, <3>2, <3>3, <3>4
  <2>6. Distinct(t)
    BY <2>5 DEF Distinct
  <2> QED BY <1>0, <2>1, <2>4, <2>6 DEF t
<1> QED BY <1>1, <1>2

\* Cycles may come behind: a placed cycle stays placed.
LEMMA PlacedMore ==
  ASSUME NEW q, NEW x, NEW B \in SUBSET Cycle, NEW A \in SUBSET B, Placed(q, x, A)
  PROVE  Placed(q, x, B)
<1>1. Cardinality(A \ {x}) >= TerminalCapacity => Cardinality(B \ {x}) >= TerminalCapacity
  <2>1. B \ {x} \in SUBSET Cycle /\ A \ {x} \in SUBSET (B \ {x})
    OBVIOUS
  <2> QED BY <2>1, MoreCycles
<1> QED BY <1>1 DEF Placed

\* The trim keeps a cycle placed: what drops it are TerminalCapacity others.
LEMMA PlacedTrim ==
  ASSUME NEW q \in Seq(Cycle), NEW c \in Cycle, Distinct(q), c \notin In(q),
         Len(q) <= TerminalCapacity, NEW x, NEW A \in SUBSET Cycle, Placed(q, x, A)
  PROVE  Placed(Trimmed(q, c), x, A \cup {c})
<1> DEFINE t == Trimmed(q, c)  B == A \cup {c}
<1>0. /\ t \in Seq(Cycle) /\ Distinct(t) /\ Len(t) > 0 /\ t[Len(t)] = c
      /\ Len(q) \in Nat /\ Len(t) \in Nat /\ B \in SUBSET Cycle
      /\ \/ Len(t) = Len(q) + 1 /\ \A k \in 1 .. Len(q) : t[k] = q[k]
         \/ /\ Len(t) = Len(q) /\ Len(q) = TerminalCapacity
            /\ \A k \in 1 .. Len(q) - 1 : t[k] = q[k + 1]
  BY TrimmedShape
<1> HIDE DEF t, B
<1>1. CASE Cardinality(A \ {x}) >= TerminalCapacity
  <2>1. B \ {x} \in SUBSET Cycle /\ A \ {x} \in SUBSET (B \ {x})
    BY DEF B
  <2> QED BY <1>1, <2>1, MoreCycles DEF Placed, t, B
<1>2. ASSUME NEW p \in 1 .. Len(q), q[p] = x, \A r \in p + 1 .. Len(q) : q[r] \in A
      PROVE  Placed(t, x, B)
  <2>1. CASE Len(t) = Len(q) + 1 /\ \A k \in 1 .. Len(q) : t[k] = q[k]
    <3>1. p \in 1 .. Len(t) /\ t[p] = x
      BY <1>0, <1>2, <2>1
    <3>2. ASSUME NEW r \in p + 1 .. Len(t) PROVE t[r] \in B
      BY <1>0, <1>2, <2>1 DEF B
    <3> QED BY <3>1, <3>2 DEF Placed
  <2>2. CASE /\ Len(t) = Len(q) /\ Len(q) = TerminalCapacity
             /\ \A k \in 1 .. Len(q) - 1 : t[k] = q[k + 1]
    <3>1. CASE p > 1
      <4>1. p - 1 \in 1 .. Len(t) /\ t[p - 1] = x
        BY <1>0, <1>2, <2>2, <3>1
      <4>2. ASSUME NEW r \in p .. Len(t) PROVE t[r] \in B
        <5>1. CASE r = Len(t)
          BY <1>0, <5>1 DEF B
        <5>2. CASE r # Len(t)
          <6>1. r + 1 \in p + 1 .. Len(q) /\ t[r] = q[r + 1]
            BY <1>0, <2>2, <3>1, <5>2
          <6> QED BY <1>2, <6>1 DEF B
        <5> QED BY <5>1, <5>2
      <4>3. \A r \in (p - 1) + 1 .. Len(t) : t[r] \in B
        BY <4>2
      <4> QED BY <4>1, <4>3 DEF Placed
    <3>2. CASE p = 1
      <4>1. ASSUME NEW r \in 1 .. Len(t) PROVE t[r] \in B \ {x}
        <5>1. CASE r = Len(t)
          <6>1. t[r] = c /\ c # x
            BY <1>0, <1>2, <5>1 DEF In
          <6> QED BY <6>1 DEF B
        <5>2. CASE r # Len(t)
          <6>1. r + 1 \in 2 .. Len(q) /\ t[r] = q[r + 1]
            BY <1>0, <2>2, <5>2
          <6>2. q[r + 1] \in A /\ q[r + 1] # q[1]
            BY <1>2, <3>2, <6>1 DEF Distinct
          <6> QED BY <1>2, <3>2, <6>1, <6>2 DEF B
        <5> QED BY <5>1, <5>2
      <4>2. In(t) \subseteq B \ {x} /\ B \ {x} \in SUBSET Cycle
        BY <1>0, <4>1 DEF In
      <4>3. Cardinality(B \ {x}) >= Len(t)
        BY <1>0, <4>2, DistinctSize
      <4> QED BY <2>2, <4>3 DEF Placed
    <3> QED BY <3>1, <3>2
  <2> QED BY <1>0, <2>1, <2>2
<1> QED BY <1>1, <1>2 DEF Placed, t, B

LEMMA AfterType ==
  ASSUME NEW m \in Memory, NEW i \in 1 .. Len(m.log)
  PROVE  After(m, i) \in SUBSET Cycle
<1>1. m.log \in Seq(Evidence) /\ m.lost \in SUBSET Cycle
  BY MemoryFields
<1>2. \A k \in 1 .. Len(m.log) : m.log[k] \in Evidence
  BY <1>1
<1>3. \A k \in 1 .. Len(m.log) : m.log[k].cycle \in Cycle
  BY <1>2 DEF Evidence
<1>4. i + 1 .. Len(m.log) \subseteq 1 .. Len(m.log)
  BY <1>1
<1> QED BY <1>1, <1>3, <1>4 DEF After

\* An entry behind the log brings its cycle behind all others.
LEMMA AfterAppend ==
  ASSUME NEW m \in Memory, NEW n \in Memory, NEW e \in Evidence,
         n.log = Append(m.log, e), n.lost = m.lost, NEW i \in 1 .. Len(m.log)
  PROVE  /\ n.log[i] = m.log[i] /\ After(n, i) = After(m, i) \cup {e.cycle}
         /\ Between(n, i, Len(m.log) + 1) = After(m, i) \ {m.log[i].cycle}
         /\ \A j \in 1 .. Len(m.log) : Between(n, i, j) = Between(m, i, j)
<1>1. m.log \in Seq(Evidence) /\ Len(m.log) \in Nat
  BY MemoryFields
<1>2. /\ Len(n.log) = Len(m.log) + 1 /\ n.log[Len(m.log) + 1] = e
      /\ \A k \in 1 .. Len(m.log) : n.log[k] = m.log[k]
  BY <1>1
<1>3. \A k \in i + 1 .. Len(m.log) : n.log[k] = m.log[k]
  BY <1>1, <1>2
<1>4. \A k : k \in i + 1 .. Len(n.log) <=> k \in i + 1 .. Len(m.log) \/ k = Len(m.log) + 1
  BY <1>1, <1>2
<1>5. After(n, i) = After(m, i) \cup {e.cycle}
  BY <1>2, <1>3, <1>4 DEF After
<1>6. (Len(m.log) + 1) - 1 = Len(m.log)
  BY <1>1
<1>7. Between(n, i, Len(m.log) + 1) = After(m, i) \ {m.log[i].cycle}
  BY <1>2, <1>3, <1>6 DEF After, Between
<1>8. ASSUME NEW j \in 1 .. Len(m.log) PROVE Between(n, i, j) = Between(m, i, j)
  <2>1. \A k \in i + 1 .. j - 1 : n.log[k] = m.log[k]
    BY <1>1, <1>2
  <2> QED BY <1>2, <2>1 DEF Between
<1> QED BY <1>2, <1>5, <1>7, <1>8

\* Evidence is admitted behind a log that is not full, and its cycle becomes
\* terminal or is terminal already and not recorded again.
LEMMA ApartAppend ==
  ASSUME NEW m \in Memory, NEW n \in Memory, NEW e \in Evidence, Apart(m),
         Len(m.log) < HistoryCapacity, n.log = Append(m.log, e), n.lost = m.lost,
         \/ /\ e.cycle \notin In(m.terminal)
            /\ n.terminal = Trimmed(m.terminal, e.cycle)
         \/ n.terminal = m.terminal /\ e.kind # "composition"
  PROVE  Apart(n)
<1> DEFINE c == e.cycle
<1>0. /\ m.log \in Seq(Evidence) /\ Len(m.log) \in Nat /\ c \in Cycle
      /\ m.terminal \in Seq(Cycle) /\ Distinct(m.terminal)
      /\ Len(m.terminal) <= TerminalCapacity
  <2>1. c \in Cycle
    BY DEF Evidence
  <2> QED BY <2>1, MemoryFields DEF Apart
<1>1. Len(n.log) = Len(m.log) + 1 /\ n.log[Len(m.log) + 1] = e
  BY <1>0
<1>2. Distinct(n.terminal) /\ Len(n.terminal) <= TerminalCapacity
  BY <1>0, TrimmedShape
<1>3. ASSUME NEW i \in 1 .. Len(m.log), m.log[i].kind = "composition"
      PROVE  /\ Placed(m.terminal, m.log[i].cycle, After(m, i))
             /\ After(m, i) \in SUBSET Cycle
  BY <1>3, AfterType DEF Apart
\* The cycle of the new entry was forgotten if the log has a composition of it.
<1>4. ASSUME NEW i \in 1 .. Len(n.log), NEW j \in 1 .. Len(n.log), i < j,
             n.log[i].kind = "composition", n.log[j] = n.log[i]
      PROVE  Cardinality(Between(n, i, j)) >= TerminalCapacity
  <2>1. i \in 1 .. Len(m.log) /\ n.log[i] = m.log[i]
    <3>1. i \in 1 .. Len(m.log)
      BY <1>0, <1>1, <1>4
    <3> QED BY <3>1, AfterAppend
  <2>2. CASE j \in 1 .. Len(m.log)
    <3>1. n.log[j] = m.log[j] /\ Between(n, i, j) = Between(m, i, j)
      BY <2>1, <2>2, AfterAppend
    <3> QED BY <1>4, <2>1, <2>2, <3>1 DEF Apart, RepeatsApart
  <2>3. CASE j = Len(m.log) + 1
    <3>1. m.log[i] = e /\ e.kind = "composition" /\ c \notin In(m.terminal)
      BY <1>1, <1>4, <2>1, <2>3
    <3>2. Placed(m.terminal, c, After(m, i))
      BY <1>3, <2>1, <3>1
    <3>3. Cardinality(After(m, i) \ {c}) >= TerminalCapacity
      BY <3>1, <3>2 DEF Placed, In
    <3>4. Between(n, i, j) = After(m, i) \ {c}
      BY <2>1, <2>3, <3>1, AfterAppend
    <3> QED BY <3>3, <3>4
  <2> QED BY <1>0, <1>1, <2>2, <2>3
<1>5. ASSUME NEW i \in 1 .. Len(n.log), n.log[i].kind = "composition"
      PROVE  Placed(n.terminal, n.log[i].cycle, After(n, i))
  <2>1. CASE i \in 1 .. Len(m.log)
    <3>1. n.log[i] = m.log[i] /\ After(n, i) = After(m, i) \cup {c}
      BY <2>1, AfterAppend
    <3>2. Placed(m.terminal, m.log[i].cycle, After(m, i)) /\ After(m, i) \in SUBSET Cycle
      BY <1>3, <1>5, <2>1, <3>1
    <3>3. CASE c \notin In(m.terminal) /\ n.terminal = Trimmed(m.terminal, c)
      BY <1>0, <3>1, <3>2, <3>3, PlacedTrim
    <3>4. CASE n.terminal = m.terminal
      <4>1. After(m, i) \cup {c} \in SUBSET Cycle /\ After(m, i) \in SUBSET (After(m, i) \cup {c})
        BY <1>0, <3>2
      <4> QED BY <3>1, <3>2, <3>4, <4>1, PlacedMore
    <3> QED BY <3>3, <3>4
  <2>2. CASE i = Len(m.log) + 1
    <3>1. n.log[i] = e /\ e.kind = "composition" /\ n.terminal = Trimmed(m.terminal, c)
          /\ c \notin In(m.terminal)
      BY <1>1, <1>5, <2>2
    <3>2. /\ Len(n.terminal) \in 1 .. Len(n.terminal) /\ n.terminal[Len(n.terminal)] = c
          /\ \A r \in Len(n.terminal) + 1 .. Len(n.terminal) : n.terminal[r] \in After(n, i)
      BY <1>0, <3>1, TrimmedShape
    <3> QED BY <3>1, <3>2 DEF Placed
  <2> QED BY <1>0, <1>1, <2>1, <2>2
<1>6. RepeatsApart(n)
  BY <1>4 DEF RepeatsApart
<1> QED BY <1>2, <1>5, <1>6 DEF Apart

\* An exception takes the cycle that became terminal.
LEMMA ApartLost ==
  ASSUME NEW m \in Memory, NEW n \in Memory, NEW c \in Cycle, Apart(m),
         c \notin In(m.terminal), n.terminal = Trimmed(m.terminal, c),
         n.log = m.log, n.lost = m.lost \cup {c}
  PROVE  Apart(n)
<1>0. /\ m.terminal \in Seq(Cycle) /\ Distinct(m.terminal)
      /\ Len(m.terminal) <= TerminalCapacity
  BY MemoryFields DEF Apart
<1>1. Distinct(n.terminal) /\ Len(n.terminal) <= TerminalCapacity
  BY <1>0, TrimmedShape
<1>2. ASSUME NEW i \in 1 .. Len(m.log) PROVE After(n, i) = After(m, i) \cup {c}
  BY DEF After
<1>3. ASSUME Len(n.log) < HistoryCapacity, NEW i \in 1 .. Len(n.log),
             n.log[i].kind = "composition"
      PROVE  Placed(n.terminal, n.log[i].cycle, After(n, i))
  <2>1. Placed(m.terminal, m.log[i].cycle, After(m, i)) /\ After(m, i) \in SUBSET Cycle
    BY <1>3, AfterType DEF Apart
  <2> QED BY <1>0, <1>2, <2>1, PlacedTrim
<1>4. ASSUME NEW i \in 1 .. Len(n.log), NEW j \in 1 .. Len(n.log), i < j,
             n.log[i].kind = "composition", n.log[j] = n.log[i]
      PROVE  Cardinality(Between(n, i, j)) >= TerminalCapacity
  <2>1. Cardinality(Between(m, i, j)) >= TerminalCapacity
    BY <1>4 DEF Apart, RepeatsApart
  <2>2. i + 1 .. j - 1 \subseteq 1 .. Len(n.log)
    BY MemoryFields
  <2>3. n.log \in Seq(Evidence) /\ n.lost \in SUBSET Cycle
    BY MemoryFields
  <2>4. \A k \in 1 .. Len(n.log) : n.log[k].cycle \in Cycle
    <3>1. \A k \in 1 .. Len(n.log) : n.log[k] \in Evidence
      BY <2>3
    <3> QED BY <3>1 DEF Evidence
  <2>5. Between(n, i, j) \in SUBSET Cycle
    BY <2>2, <2>3, <2>4 DEF Between
  <2>6. Between(m, i, j) \in SUBSET Between(n, i, j)
    BY DEF Between
  <2> QED BY <2>1, <2>5, <2>6, MoreCycles
<1>5. RepeatsApart(n)
  BY <1>4 DEF RepeatsApart
<1> QED BY <1>1, <1>3, <1>5 DEF Apart

\* A full history admits nothing more.
LEMMA ApartFull ==
  ASSUME NEW m \in Memory, NEW n \in Memory, Apart(m), NEW c \in Cycle,
         Len(m.log) >= HistoryCapacity, n.log = m.log, n.lost = m.lost,
         \/ c \notin In(m.terminal) /\ n.terminal = Trimmed(m.terminal, c)
         \/ n.terminal = m.terminal
  PROVE  Apart(n)
<1>1. m.terminal \in Seq(Cycle) /\ Len(m.log) \in Nat
  BY MemoryFields
<1>2. Distinct(n.terminal) /\ Len(n.terminal) <= TerminalCapacity
  BY <1>1, TrimmedShape DEF Apart
<1>3. RepeatsApart(n)
  BY DEF Apart, RepeatsApart, Between
<1> QED BY <1>1, <1>2, <1>3 DEF Apart

\* Both together: an admission.
LEMMA ApartAdmit ==
  ASSUME NEW m \in Memory, NEW n \in Memory, Apart(m), NEW kind \in Kinds, NEW c \in Cycle,
         n.log = Admit(m.log, kind, c), n.lost = m.lost,
         \/ c \notin In(m.terminal) /\ n.terminal = Trimmed(m.terminal, c)
         \/ n.terminal = m.terminal /\ kind # "composition"
  PROVE  Apart(n)
<1> DEFINE e == [kind |-> kind, cycle |-> c]
<1>1. m.log \in Seq(Evidence) /\ e \in Evidence /\ e.kind = kind /\ e.cycle = c
  BY MemoryFields DEF Evidence
<1>2. CASE Len(m.log) >= HistoryCapacity /\ Admit(m.log, kind, c) = m.log
  BY <1>2, ApartFull
<1>3. CASE Len(m.log) < HistoryCapacity /\ Admit(m.log, kind, c) = Append(m.log, e)
  <2> HIDE DEF e
  <2> QED BY <1>1, <1>3, ApartAppend
<1> QED BY <1>1, <1>2, <1>3, AdmitCases

LEMMA ApartSame ==
  ASSUME NEW m, NEW n, Apart(m), Same(n, m)
  PROVE  Apart(n)
  BY DEF Same, Apart, RepeatsApart, Between, After

LEMMA ApartInit == Init => ApartInv
<1>1. Apart(Fresh)
  BY DEF Fresh, Apart, RepeatsApart, Distinct
<1> QED BY <1>1 DEF Init, ApartInv

LEMMA ApartStep == TypeOK /\ TypeOK' /\ ApartInv /\ [Next]_vars => ApartInv'
<1> SUFFICES ASSUME TypeOK, TypeOK', ApartInv, [Next]_vars PROVE Apart(mem') /\ Apart(ckpt')
  BY DEF ApartInv, Apart, RepeatsApart, Between, After
<1>a. mem \in Memory /\ mem' \in Memory /\ Apart(mem) /\ Apart(ckpt)
  BY DEF TypeOK, ApartInv
<1>b. ASSUME Apart(mem'), Same(ckpt', ckpt) \/ Same(ckpt', mem') PROVE Apart(ckpt')
  BY <1>a, <1>b, ApartSame
<1>1. CASE Quiet
  <2>1. Apart(Fresh)
    BY DEF Fresh, Apart, RepeatsApart, Distinct
  <2> QED BY <1>1, <1>a, <2>1, ApartSame DEF Quiet
<1>2. CASE UNCHANGED vars
  BY <1>2, <1>a DEF vars
<1>3. CASE Record
  <2>1. Apart(mem')
    BY <1>3, <1>a, RecordEffect, ApartAdmit DEF Kinds
  <2> QED BY <1>3, <1>b, <2>1, RecordEffect
<1>4. CASE RecordCompact
  <2>1. Apart(mem')
    BY <1>4, <1>a, CompactEffect, ApartAdmit DEF Kinds
  <2> QED BY <1>4, <1>b, <2>1, CompactEffect
<1>5. CASE Pair
  <2>1. Apart(mem')
    BY <1>5, <1>a, PairEffect, ApartAdmit DEF Kinds
  <2> QED BY <1>5, <1>b, <2>1, PairEffect
<1>6. CASE Loses
  <2>1. Apart(mem')
    BY <1>6, <1>a, LosesEffect, ApartLost
  <2> QED BY <1>6, <1>a, <2>1, LosesEffect
<1> QED BY <1>1, <1>2, <1>3, <1>4, <1>5, <1>6, StepShape

\* A cycle composed again, after a restart or from unchanged evidence, gets a
\* second composition record only when the runtime forgot it: while evidence is
\* admitted a recorded cycle is terminal or TerminalCapacity others came behind
\* it, and _process_composition drops what is terminal.
THEOREM RepeatsForgotten == Spec => []RepeatsOnlyForgotten
<1>1. ApartInv => RepeatsOnlyForgotten
  BY DEF ApartInv, Apart, RepeatsOnlyForgotten
<1> QED BY <1>1, ApartInit, ApartStep, TypeCorrect, PTL DEF Spec

-----------------------------------------------------------------------------
(* Recorded cycles are in the ledger.                                       *)

Recorded == Of(mem.log, "composition") \cup Of(ckpt.log, "composition")

\* The recorded cycles are in the ledgers, and in every copy that could still take
\* the ledgers' place: the journal's and the one in hand.
CommittedInv ==
  /\ Holds(files, Recorded)
  /\ journal # NoJournal => Holds(journal, Recorded)
  /\ phase \in {"Journal", "Publish", "Rollback"} => Holds(preview, Recorded)
  /\ phase = "Record" => Holds(files, {cycle}) /\ journal = NoJournal

\* One ledger holds them.
HoldsAt(i, ledger, cycles) ==
  IF i = Producer THEN \A c \in cycles : Remembers(ledger, c) ELSE cycles \subseteq ledger

LEMMA HoldsParts ==
  ASSUME NEW f, NEW cycles
  PROVE  Holds(f, cycles) <=> \A i \in Ledgers : HoldsAt(i, f[i], cycles)
  BY DEF Holds, HoldsAt, Ledgers, Producer

LEMMA HoldsUnion ==
  ASSUME NEW f, NEW a, NEW b, NEW cycles, Holds(f, a), Holds(f, b), cycles \subseteq a \cup b
  PROVE  Holds(f, cycles)
  BY DEF Holds

\* A ledger that gains a cycle that fits holds it, and what it held.
LEMMA GainedHolds ==
  ASSUME NEW f \in Contents, NEW c \in Cycle, Fits(f[Producer], c),
         NEW cycles \in SUBSET Cycle, NEW i \in Ledgers, HoldsAt(i, f[i], cycles)
  PROVE  HoldsAt(i, Gained(i, f[i], c), cycles) /\ HoldsAt(i, Gained(i, f[i], c), {c})
<1>1. f[i] \in SUBSET Cycle
  BY DEF Contents
<1>2. CASE i = Producer
  <2>1. /\ c \in Kept(f[i], c)
        /\ \A x \in Cycle : Remembers(f[i], x) => Remembers(Kept(f[i], c), x)
    BY <1>1, <1>2, KeptFacts
  <2> QED BY <1>2, <2>1 DEF HoldsAt, Gained, Remembers
<1>3. CASE i # Producer
  BY <1>3 DEF HoldsAt, Gained
<1> QED BY <1>2, <1>3

LEMMA OfType ==
  ASSUME NEW log \in Seq(Evidence), NEW kind
  PROVE  Of(log, kind) \in SUBSET Cycle
<1>1. \A k \in 1 .. Len(log) : log[k] \in Evidence
  OBVIOUS
<1>2. \A k \in 1 .. Len(log) : log[k].cycle \in Cycle
  BY <1>1 DEF Evidence
<1> QED BY <1>2 DEF Of

LEMMA RecordedType == TypeOK => Recorded \in SUBSET Cycle
  BY OfType, MemoryFields DEF TypeOK, Recorded

\* Only Record adds to the recorded cycles.
LEMMA RecordedStep ==
  ASSUME TypeOK, [Next]_vars
  PROVE  \/ Recorded' \subseteq Recorded
         \/ Record /\ Recorded' \subseteq Recorded \cup {cycle}
<1>a. mem \in Memory /\ ckpt \in Memory
  BY DEF TypeOK
<1>b. ASSUME NEW kind \in Kinds \ {"composition"}, NEW c \in Cycle
      PROVE  Of(Admit(mem.log, kind, c), "composition") = Of(mem.log, "composition")
  <2> DEFINE e == [kind |-> kind, cycle |-> c]
  <2>1. e \in Evidence /\ e.kind # "composition"
    BY DEF Evidence
  <2>2. Admit(mem.log, kind, c) \in {mem.log, Append(mem.log, e)}
    BY DEF Admit
  <2> HIDE DEF e
  <2>3. mem.log \in Seq(Evidence)
    BY <1>a, MemoryFields
  <2>4. Of(Append(mem.log, e), "composition")
          = Of(mem.log, "composition") \cup (IF e.kind = "composition" THEN {e.cycle} ELSE {})
    BY <2>1, <2>3, OfAppend
  <2> QED BY <2>1, <2>2, <2>4
<1>1. CASE Quiet
  BY <1>1, EmptyLog DEF Quiet, Same, Fresh, Recorded
<1>2. CASE UNCHANGED vars
  BY <1>2 DEF vars, Recorded
<1>3. CASE Record
  <2> DEFINE e == [kind |-> "composition", cycle |-> cycle]
  <2>1. cycle \in Cycle /\ e \in Evidence /\ e.cycle = cycle
    BY <1>3, RecordEffect DEF Evidence, Kinds
  <2>2. mem'.log \in {mem.log, Append(mem.log, e)}
    BY <1>3, RecordEffect DEF Admit
  <2> HIDE DEF e
  <2>3. Of(mem'.log, "composition") \subseteq Of(mem.log, "composition") \cup {cycle}
    <3>1. mem.log \in Seq(Evidence)
      BY <1>a, MemoryFields
    <3>2. Of(Append(mem.log, e), "composition")
            \subseteq Of(mem.log, "composition") \cup {e.cycle}
      BY <2>1, <3>1, OfAppend
    <3> QED BY <2>1, <2>2, <3>2
  <2> QED BY <1>3, <2>3, RecordEffect DEF Same, Recorded
<1>4. CASE RecordCompact
  <2>1. Of(mem'.log, "composition") = Of(mem.log, "composition")
    <3>1. /\ "rejection" \in Kinds \ {"composition"} /\ cycle \in Cycle
          /\ mem'.log = Admit(mem.log, "rejection", cycle)
      BY <1>4, CompactEffect DEF Kinds
    <3>2. Of(Admit(mem.log, "rejection", cycle), "composition")
            = Of(mem.log, "composition")
      BY <3>1, <1>b
    <3> QED BY <3>1, <3>2
  <2> QED BY <1>4, <2>1, CompactEffect DEF Same, Recorded
<1>5. CASE Pair
  <2>1. Of(mem'.log, "composition") = Of(mem.log, "composition")
    BY <1>5, <1>b, PairEffect DEF Kinds
  <2> QED BY <1>5, <2>1, PairEffect DEF Same, Recorded
<1>6. CASE Loses
  BY <1>6, LosesEffect DEF Recorded
<1> QED BY <1>1, <1>2, <1>3, <1>4, <1>5, <1>6, StepShape

LEMMA CommittedInit == Init => CommittedInv
  BY EmptyLog DEF Init, Fresh, CommittedInv, Recorded, Holds

LEMMA CommittedStep ==
  TypeOK /\ JournalInv /\ CommittedInv /\ [Next]_vars => CommittedInv'
<1> SUFFICES ASSUME TypeOK, JournalInv, CommittedInv, [Next]_vars PROVE CommittedInv'
  OBVIOUS
<1> USE DEF CommittedInv
<1>0. /\ files \in Contents /\ preview \in Contents /\ done \in 0 .. 3
      /\ journal \in Contents \cup {NoJournal} /\ NoJournal \notin Contents
      /\ phase \in {"Journal", "Publish", "Rollback", "Record", "Pair"} => cycle \in Cycle
  BY DEF TypeOK
<1>r. Recorded \in SUBSET Cycle
  BY RecordedType
<1>s. ASSUME ~Record PROVE Recorded' \subseteq Recorded
  BY <1>s, RecordedStep
<1>h. ASSUME NEW f, Holds(f, Recorded), Recorded' \subseteq Recorded PROVE Holds(f, Recorded')
  BY <1>h, HoldsUnion
\* Another ledger is taken from a copy, with the cycle in hand or without.
<1>w. ASSUME NEW f, Holds(f, Recorded), done \in 0 .. 2, done' = done + 1, NEW new,
             files' = [files EXCEPT ![done + 1] = new], HoldsAt(done + 1, new, Recorded)
      PROVE  Holds(files', Recorded)
  <2>1. \A i \in Ledgers : HoldsAt(i, files[i], Recorded)
    BY HoldsParts
  <2>2. \A i \in Ledgers : HoldsAt(i, files'[i], Recorded)
    BY <1>0, <1>w, <2>1, WriteNext
  <2>3. ASSUME NEW g, \A i \in Ledgers : HoldsAt(i, g[i], Recorded) PROVE Holds(g, Recorded)
    BY <2>3, HoldsParts
  <2> QED BY <2>2, <2>3
<1>1. CASE UNCHANGED vars
  BY <1>1 DEF vars, Recorded, Holds
<1>2. CASE Start \/ RecoverFault \/ Crash \/ Save \/ RecordDuplicate \/ RecordCompact
           \/ Pair \/ Raises \/ Restore \/ RolledBack \/ RollbackFault \/ CleanupFault
           \/ Interrupt \/ \E s \in Symbols : Ready(s) \/ NotReady(s) \/ StageFails(s)
  <2>1. ~Record
    BY <1>2 DEF Start, RecoverFault, Crash, Save, RecordDuplicate, RecordCompact, Pair,
                Raises, Ready, NotReady, StageFails, Record, Restore, RolledBack,
                RollbackFault, CleanupFault, Interrupt, Publishing
  <2>2. /\ phase' \in {"Down", "Recover", "Idle"} /\ files' = files
        /\ journal' \in {journal, NoJournal}
    BY <1>2 DEF Start, RecoverFault, Crash, Save, RecordDuplicate, RecordCompact, Pair,
                Raises, Ready, NotReady, StageFails, Restore, RolledBack, RollbackFault,
                CleanupFault, Interrupt, Failed
  <2> QED BY <1>s, <1>h, <2>1, <2>2
<1>3. CASE Recover
  <2>1. /\ ~Record /\ UNCHANGED <<journal, phase>> /\ phase = "Recover"
        /\ journal # NoJournal /\ done \in 0 .. 2 /\ done' = done + 1
        /\ files' = [files EXCEPT ![done + 1] = journal[done + 1]]
    BY <1>3, <1>0 DEF Recover, Record
  <2>2. HoldsAt(done + 1, journal[done + 1], Recorded)
    BY <1>0, <2>1, HoldsParts, WriteNext
  <2>3. Holds(files', Recorded)
    BY <1>w, <2>1, <2>2
  <2> QED BY <1>s, <1>h, <2>1, <2>3
<1>4. ASSUME NEW s \in Symbols, Stage(s) PROVE CommittedInv'
  BY <1>4, <1>s, <1>h DEF Stage, Record
<1>5. CASE WriteJournal \/ PublishFault
  <2>1. /\ ~Record /\ UNCHANGED <<files, preview>> /\ phase' \in {"Publish", "Rollback"}
        /\ journal' \in {journal, preview} /\ phase \in {"Journal", "Publish"}
    BY <1>5 DEF WriteJournal, PublishFault, Publishing, Record
  <2> QED BY <1>s, <1>h, <2>1
<1>6. CASE Publish
  <2>1. /\ ~Record /\ UNCHANGED <<journal, preview, phase>> /\ phase = "Publish"
        /\ done \in 0 .. 2 /\ done' = done + 1 /\ cycle \in Cycle
        /\ files' = [files EXCEPT ![done + 1] = Gained(done + 1, preview[done + 1], cycle)]
        /\ Fits(preview[Producer], cycle)
    BY <1>6, <1>0 DEF Publish, Record, JournalInv, Ahead
  <2>2. done + 1 \in Ledgers /\ HoldsAt(done + 1, preview[done + 1], Recorded)
    BY <1>0, <2>1, HoldsParts, WriteNext
  <2>3. HoldsAt(done + 1, Gained(done + 1, preview[done + 1], cycle), Recorded)
    BY <1>0, <1>r, <2>1, <2>2, GainedHolds
  <2>4. Holds(files', Recorded)
    BY <1>w, <2>1, <2>3
  <2> QED BY <1>s, <1>h, <2>1, <2>4
<1>7. CASE Published
  <2>1. /\ ~Record /\ UNCHANGED <<files, cycle>> /\ phase = "Publish" /\ phase' = "Record"
        /\ journal' = NoJournal /\ cycle \in Cycle /\ Fits(preview[Producer], cycle)
        /\ \A i \in Ledgers : files[i] = Gained(i, preview[i], cycle)
    BY <1>7, <1>0 DEF Published, Record, JournalInv, Ahead, Written, Ledgers
  <2>2. ASSUME NEW i \in Ledgers PROVE HoldsAt(i, files[i], {cycle})
    <3>1. HoldsAt(i, preview[i], {})
      BY DEF HoldsAt
    <3> QED BY <1>0, <2>1, <3>1, GainedHolds
  <2>3. Holds(files, {cycle})
    BY <2>2, HoldsParts
  <2> QED BY <1>s, <1>h, <2>1, <2>3
<1>8. CASE Rollback
  <2>1. /\ ~Record /\ UNCHANGED <<journal, preview, phase>> /\ phase = "Rollback"
        /\ done \in 0 .. 2 /\ done' = done + 1
        /\ files' = [files EXCEPT ![done + 1] = preview[done + 1]]
    BY <1>8, <1>0 DEF Rollback, Record
  <2>2. HoldsAt(done + 1, preview[done + 1], Recorded)
    BY <1>0, <2>1, HoldsParts, WriteNext
  <2>3. Holds(files', Recorded)
    BY <1>w, <2>1, <2>2
  <2> QED BY <1>s, <1>h, <2>1, <2>3
<1>9. CASE Record
  <2>1. /\ Recorded' \subseteq Recorded \cup {cycle} /\ phase' = "Pair"
        /\ UNCHANGED <<files, journal>> /\ Holds(files, {cycle}) /\ journal = NoJournal
    BY <1>9, RecordedStep DEF Record
  <2>2. Holds(files, Recorded')
    BY <2>1, HoldsUnion
  <2> QED BY <2>1, <2>2
<1> QED BY <1>1, <1>2, <1>3, <1>4, <1>5, <1>6, <1>7, <1>8, <1>9 DEF Next

\* A cycle the evidence tells of is in the lasting ledgers for good, and in the
\* producer's until it is full of newer ones: whatever a rollback or a recovery
\* puts back already held it.
THEOREM EvidenceCommitted == Spec => []EvidenceIsCommitted
<1>1. CommittedInv => EvidenceIsCommitted
  BY DEF CommittedInv, Recorded, EvidenceIsCommitted
<1> QED
  BY <1>1, CommittedInit, CommittedStep, JournalInit, JournalStep, CutoffInit, CutoffStep,
     TypeCorrect, PTL DEF Spec

-----------------------------------------------------------------------------
(* The three ledgers agree.                                                *)

\* What makes an unfinished publication mendable: as long as the ledgers may
\* differ, the journal names copies that agree.
MendableInv ==
  /\ journal # NoJournal => Agree(journal)
  /\ phase \in {"Journal", "Publish", "Rollback"} => Agree(preview)
  /\ Trusting => Agree(files)
  /\ phase \in {"Down", "Recover"} => Agree(files) \/ journal # NoJournal

LedgersInv == ~damaged => MendableInv

LEMMA LedgersInit == Init => LedgersInv
  BY DEF Init, LedgersInv, MendableInv, Agree, NoLedgers, Trusting, Ledgers, Producer

\* Ledgers all written from ledgers that agree, agree.
LEMMA RestoredAgree ==
  ASSUME NEW f \in Contents, files \in Contents, Agree(f), Restored(f, 3)
  PROVE  Agree(files)
  BY DEF Agree, Restored, Ledgers, Producer

LEMMA WrittenAgree ==
  ASSUME NEW f \in Contents, NEW c \in Cycle, files \in Contents, Agree(f),
         Fits(f[Producer], c), Written(f, c, 3)
  PROVE  Agree(files)
<1>1. /\ files[1] = f[1] \cup {c} /\ files[2] = f[2] \cup {c}
      /\ files[Producer] = Kept(f[Producer], c)
  BY DEF Written, Gained, Ledgers, Producer
<1>2. f[Producer] \in SUBSET Cycle /\ f[1] \in SUBSET Cycle
  BY DEF Contents, Ledgers, Producer
<1>3. /\ c \in files[Producer] /\ files[Producer] \subseteq f[Producer] \cup {c}
      /\ \A x \in Cycle : Remembers(f[Producer], x) => Remembers(files[Producer], x)
  BY <1>1, <1>2, KeptFacts
<1>4. ASSUME NEW x \in files[1] PROVE Remembers(files[Producer], x)
  <2>1. CASE x = c
    BY <1>3, <2>1 DEF Remembers
  <2>2. CASE x \in f[1]
    BY <1>2, <1>3, <2>2 DEF Agree
  <2> QED BY <1>1, <2>1, <2>2
<1> QED BY <1>1, <1>3, <1>4 DEF Agree

\* A step damages the ledgers only where it says so: a failed or skipped
\* rollback of ledgers that differ.
LEMMA DamageSticks ==
  ASSUME TypeOK, [Next]_vars
  PROVE  damaged => damaged'
  BY DEF Next, vars, Start, Recover, Restore, RecoverFault, Crash, Save, Ready, NotReady,
         StageFails, Stage, WriteJournal, Publish, Published, PublishFault, Rollback,
         RolledBack, RollbackFault, CleanupFault, Interrupt, RecordDuplicate, Record,
         RecordCompact, Pair, Raises

LEMMA LedgersStep == TypeOK /\ JournalInv /\ LedgersInv /\ [Next]_vars => LedgersInv'
<1> SUFFICES ASSUME TypeOK, JournalInv, MendableInv, ~damaged, [Next]_vars, ~damaged'
             PROVE  MendableInv'
  BY DamageSticks DEF LedgersInv
<1>0. /\ files \in Contents /\ preview \in Contents /\ done \in 0 .. 3
      /\ journal \in Contents \cup {NoJournal} /\ NoJournal \notin Contents
  BY DEF TypeOK
<1> USE DEF MendableInv
<1>1. CASE UNCHANGED vars
  BY <1>1 DEF vars, Trusting, Agree
\* The next ledger is written; the copies stay.
<1>2. CASE Start \/ RecoverFault \/ Recover \/ Publish \/ Rollback
  <2>1. /\ phase' = phase \/ phase' \in {"Down", "Recover"}
        /\ phase \in {"Down", "Recover", "Publish", "Rollback"}
        /\ UNCHANGED journal
        /\ phase' \in {"Publish", "Rollback"} => UNCHANGED preview /\ phase' = phase
        /\ phase' \in {"Down", "Recover"} => UNCHANGED files \/ journal # NoJournal
        /\ phase \in {"Publish", "Rollback"} => phase' = phase
    BY <1>2 DEF Start, RecoverFault, Recover, Publish, Rollback
  <2> QED BY <2>1 DEF Trusting, Agree
\* The recovery, the publication or the rollback is complete.
<1>3. CASE Restore
  <2>1. Agree(files)
    <3>1. CASE journal = NoJournal
      BY <3>1, <1>3 DEF Restore
    <3>2. CASE journal # NoJournal
      BY <3>2, <1>3, <1>0, RestoredAgree DEF Restore, JournalInv
    <3> QED BY <3>1, <3>2
  <2> QED BY <1>3, <2>1 DEF Restore, Trusting, Agree
<1>4. CASE Published
  <2>1. Agree(files)
    <3>1. cycle \in Cycle /\ Fits(preview[Producer], cycle) /\ Written(preview, cycle, 3)
      BY <1>4 DEF Published, JournalInv, Ahead, TypeOK
    <3> QED BY <1>4, <1>0, <3>1, WrittenAgree DEF Published
  <2> QED BY <1>4, <2>1 DEF Published, Trusting, Agree
<1>5. CASE RolledBack \/ CleanupFault
  <2>1. Agree(files)
    <3>1. CASE phase = "Publish"
      <4>1. /\ cycle \in Cycle /\ Fits(preview[Producer], cycle)
            /\ Written(preview, cycle, 3)
        BY <1>5, <3>1 DEF RolledBack, CleanupFault, JournalInv, Ahead, TypeOK
      <4> QED BY <3>1, <1>0, <4>1, WrittenAgree
    <3>2. CASE phase = "Rollback"
      BY <1>5, <3>2, <1>0, RestoredAgree DEF RolledBack, CleanupFault, JournalInv
    <3> QED BY <1>5, <3>1, <3>2 DEF RolledBack, CleanupFault
  <2> QED BY <1>5, <2>1 DEF RolledBack, CleanupFault, Failed, Trusting, Agree
\* It is given up or skipped, with ledgers that agree.
<1>6. CASE RollbackFault \/ Interrupt
  <2>1. Agree(files) /\ phase' = "Idle" /\ files' = files /\ journal' \in {journal, NoJournal}
    BY <1>6 DEF RollbackFault, Interrupt, Failed
  <2> QED BY <2>1 DEF Trusting, Agree
<1>7. CASE Crash
  <2>1. Agree(files) \/ journal # NoJournal
    <3>1. CASE phase = "Publish"
      BY <3>1, <1>0 DEF JournalInv
    <3>2. CASE phase = "Rollback"
      BY <3>2, <1>0 DEF JournalInv
    <3> QED BY <3>1, <3>2, <1>7 DEF Crash, Trusting, TypeOK
  <2> QED BY <1>7, <2>1 DEF Crash, Trusting, Agree
<1>8. CASE \/ Save \/ RecordDuplicate \/ Record \/ RecordCompact \/ Pair \/ Raises
           \/ \E s \in Symbols : Ready(s) \/ NotReady(s) \/ StageFails(s)
  <2>1. /\ phase \in {"Idle", "Record", "Pair"} /\ phase' \in {"Idle", "Record", "Pair"}
        /\ files' = files /\ journal' = journal
    BY <1>8 DEF Save, RecordDuplicate, Record, RecordCompact, Pair, Raises, Ready,
                NotReady, StageFails
  <2> QED BY <2>1 DEF Trusting, Agree
<1>9. ASSUME NEW s \in Symbols, Stage(s) PROVE MendableInv'
  BY <1>9 DEF Stage, Trusting, Agree
<1>10. CASE WriteJournal
  BY <1>10, <1>0 DEF WriteJournal, Trusting, Agree
<1>11. CASE PublishFault
  BY <1>11, <1>0 DEF PublishFault, Publishing, Trusting, Agree
<1> QED
  BY <1>1, <1>2, <1>3, <1>4, <1>5, <1>6, <1>7, <1>8, <1>9, <1>10, <1>11 DEF Next

\* Whenever the runtime trusts the three ledgers they tell of the same cycles:
\* they differ only while a journal of agreeing copies can mend them, except
\* after a rollback that was itself given up or skipped.
THEOREM LedgersCorrect == Spec => []LedgersAgree
<1>1. LedgersInv => LedgersAgree
  BY DEF LedgersInv, MendableInv, LedgersAgree
<1> QED BY <1>1, JournalInit, JournalStep, CutoffInit, CutoffStep, LedgersInit, LedgersStep, TypeCorrect, PTL DEF Spec

-----------------------------------------------------------------------------
(* The publication is atomic.                                              *)

\* What the evidence of a running process tells, its checkpoint tells no more
\* of, and no less either when it is saved in mid-work.
ToldInv ==
  phase \notin {"Down", "Recover"} =>
    /\ Of(ckpt.log, "composition") \subseteq Of(mem.log, "composition")
    /\ SaveMidWork => Of(ckpt.log, "composition") = Of(mem.log, "composition")

LEMMA ToldInit == Init => ToldInv
  BY DEF Init, ToldInv

\* What the checkpoint tells only grows, and only where evidence is saved.
LEMMA ToldStep ==
  ASSUME TypeOK, ToldInv, [Next]_vars
  PROVE  /\ ToldInv'
         /\ Of(ckpt.log, "composition") \subseteq Of(ckpt'.log, "composition")
         /\ Of(ckpt'.log, "composition") = Of(ckpt.log, "composition")
              \/ (Shown' = Shown /\ damaged' = damaged)
<1> DEFINE told(m) == Of(m.log, "composition")
<1> SUFFICES /\ ToldInv' /\ told(ckpt) \subseteq told(ckpt')
             /\ told(ckpt') = told(ckpt) \/ (Shown' = Shown /\ damaged' = damaged)
  OBVIOUS
<1>a. mem \in Memory /\ ckpt \in Memory
  BY DEF TypeOK
<1>b. told(Finished(mem)) = told(mem) /\ told(Recovered(ckpt)) = told(ckpt)
  BY <1>a, SameParts DEF Same
\* The composition in hand changes no evidence; a checkpoint it saves on the way
\* tells what memory tells.
<1>c. ASSUME phase \notin {"Down", "Recover"}, told(mem') = told(mem),
             told(ckpt') = told(ckpt) \/ (SaveMidWork /\ told(ckpt') = told(mem))
      PROVE  ToldInv' /\ told(ckpt') = told(ckpt)
  BY <1>c DEF ToldInv
\* Evidence is admitted; the checkpoint keeps what it was or gets the memory.
<1>d. ASSUME phase \notin {"Down", "Recover"}, told(mem) \subseteq told(mem'),
             IF SaveMidWork THEN told(ckpt') = told(mem') ELSE told(ckpt') = told(ckpt)
      PROVE  ToldInv' /\ told(ckpt) \subseteq told(ckpt')
  BY <1>d DEF ToldInv
<1>e. ASSUME NEW kind \in Kinds, cycle \in Cycle
      PROVE  told(mem) \subseteq Of(Admit(mem.log, kind, cycle), "composition")
  BY <1>a, <1>e, AdmitKeeps
<1>1. CASE UNCHANGED vars
  BY <1>1 DEF vars, ToldInv
<1>2. CASE Start \/ Recover \/ RecoverFault \/ Crash
  BY <1>2 DEF Start, Recover, RecoverFault, Crash, ToldInv
<1>3. CASE Restore
  BY <1>3, <1>b DEF Restore, ToldInv
<1>4. CASE Save
  <2>1. ckpt' = mem /\ mem' = mem /\ phase \notin {"Down", "Recover"}
    BY <1>4 DEF Save
  <2>2. Shown' = Shown /\ damaged' = damaged
    BY <1>4 DEF Save, Shown
  <2> QED BY <2>1, <2>2 DEF ToldInv
<1>5. ASSUME NEW s \in Symbols, Ready(s) \/ NotReady(s)
      PROVE  ToldInv' /\ told(ckpt') = told(ckpt)
  <2>1. told(mem') = told(mem) /\ ckpt' = ckpt /\ phase = "Idle"
    BY <1>5, <1>a DEF Ready, NotReady, Memory
  <2> QED BY <1>c, <2>1
<1>6. ASSUME NEW s \in Symbols, StageFails(s) \/ Stage(s)
      PROVE  ToldInv' /\ told(ckpt') = told(ckpt)
  <2>1. Popped(s) \in Memory /\ told(Popped(s)) = told(mem) /\ phase = "Idle"
    BY <1>6, <1>a, PoppedType DEF Popped, Memory, StageFails, Stage
  <2>2. told(Finished(Popped(s))) = told(mem)
    BY <2>1, SameParts DEF Same
  <2>3. told(mem') = told(mem)
    BY <1>6, <2>1, <2>2 DEF StageFails, Stage
  <2>4. told(ckpt') = told(ckpt) \/ (SaveMidWork /\ told(ckpt') = told(mem))
    BY <1>6, <2>1 DEF StageFails, Stage, SaveWith
  <2> QED BY <1>c, <2>1, <2>3, <2>4
<1>7. CASE WriteJournal \/ Publish \/ Published \/ PublishFault \/ Rollback
  <2>1. mem' = mem /\ ckpt' = ckpt /\ phase \notin {"Down", "Recover"}
    BY <1>7 DEF WriteJournal, Publish, Published, PublishFault, Publishing, Rollback
  <2> QED BY <1>c, <2>1
<1>8. CASE RolledBack \/ RollbackFault \/ CleanupFault
  <2>1. /\ mem' = Finished(mem) /\ SaveWith(mem) /\ phase \notin {"Down", "Recover"}
    BY <1>8 DEF RolledBack, RollbackFault, CleanupFault, Failed
  <2> QED BY <1>b, <1>c, <2>1 DEF SaveWith
<1>9. CASE Interrupt \/ RecordDuplicate
  <2>1. mem' = Finished(mem) /\ ckpt' = ckpt /\ phase \notin {"Down", "Recover"}
    BY <1>9 DEF Interrupt, Publishing, RecordDuplicate
  <2> QED BY <1>b, <1>c, <2>1
<1>10. CASE Raises
  <2>1. cycle \in Cycle /\ ckpt' = ckpt /\ phase \notin {"Down", "Recover"}
    BY <1>10 DEF Raises, TypeOK
  <2> DEFINE m == [Terminal EXCEPT !.lost = @ \cup {cycle}]
  <2>2. m \in Memory /\ m.log = mem.log
    BY <2>1, TerminalType, MemoryFields DEF Memory
  <2>3. mem' \in {Finished(mem), Finished(m)}
    BY <1>10 DEF Raises
  <2> HIDE DEF m
  <2>4. told(mem') = told(mem)
    BY <1>b, <2>2, <2>3, SameParts DEF Same
  <2> QED BY <1>c, <2>1, <2>4
<1>11. ASSUME Record \/ RecordCompact \/ Pair
       PROVE  Shown' = Shown /\ damaged' = damaged
  BY <1>11 DEF Record, RecordCompact, Pair, Shown
<1>12. CASE Record
  <2>1. told(mem) \subseteq told(mem')
    BY <1>12, <1>e, RecordEffect DEF Kinds
  <2>2. IF SaveMidWork THEN told(ckpt') = told(mem') ELSE told(ckpt') = told(ckpt)
    BY <1>12 DEF Record, SaveWith
  <2> QED BY <1>12, <1>11, <1>d, <2>1, <2>2 DEF Record
<1>13. CASE RecordCompact
  <2>1. told(mem) \subseteq told(mem')
    BY <1>13, <1>e, CompactEffect DEF Kinds
  <2> DEFINE m == [Terminal EXCEPT !.log = Admit(@, "rejection", cycle)]
  <2>2. m \in Memory
    <3>1. cycle \in Cycle
      BY <1>13, CompactEffect
    <3>2. Admit(mem.log, "rejection", cycle) \in Seq(Evidence)
      BY <3>1, <1>a, AdmitType, MemoryFields DEF Kinds
    <3> QED BY <3>1, <3>2, TerminalType, MemoryFields DEF Memory
  <2>3. SaveWith(m) /\ mem' = Finished(m)
    BY <1>13 DEF RecordCompact
  <2> HIDE DEF m
  <2>4. IF SaveMidWork THEN told(ckpt') = told(mem') ELSE told(ckpt') = told(ckpt)
    BY <2>2, <2>3, SameParts DEF SaveWith, Same
  <2> QED BY <1>13, <1>11, <1>d, <2>1, <2>4 DEF RecordCompact
<1>14. CASE Pair
  <2> DEFINE m == [mem EXCEPT !.log = Admit(@, "denominator", cycle)]
  <2>2. cycle \in Cycle /\ "denominator" \in Kinds
    BY <1>14, PairEffect DEF Kinds
  <2>3. m \in Memory /\ m.log = Admit(mem.log, "denominator", cycle)
    <3>1. Admit(mem.log, "denominator", cycle) \in Seq(Evidence)
      BY <2>2, <1>a, AdmitType, MemoryFields
    <3> QED BY <3>1, <1>a, MemoryFields DEF Memory
  <2>4. SaveWith(m) /\ mem' = Finished(m)
    BY <1>14 DEF Pair
  <2>5. told(mem) \subseteq told(m)
    BY <1>e, <2>2, <2>3
  <2> HIDE DEF m
  <2>6. told(mem') = told(m)
    BY <2>3, <2>4, SameParts DEF Same
  <2>7. IF SaveMidWork THEN told(ckpt') = told(mem') ELSE told(ckpt') = told(ckpt)
    BY <2>4, <2>6 DEF SaveWith
  <2> QED BY <1>14, <1>11, <1>d, <2>5, <2>6, <2>7 DEF Pair
<1> HIDE DEF told
<1> QED
  BY <1>1, <1>2, <1>3, <1>4, <1>5, <1>6, <1>7, <1>8, <1>9, <1>10, <1>11, <1>12, <1>13,
     <1>14 DEF Next

\* What the abstract ledger allows of one that gains the cycle.
Gains(i, old, c, new) ==
  /\ c \in new /\ new \subseteq old \cup {c}
  /\ \A x \in old \ new :
       i = Producer /\ Cardinality(new) >= ProducerCapacity /\ \A d \in new : d > x

LEMMA GainedGains ==
  ASSUME NEW g \in Contents, NEW i \in Ledgers, NEW c \in Cycle, Fits(g[Producer], c)
  PROVE  Gains(i, g[i], c, Gained(i, g[i], c))
<1>1. g[i] \in SUBSET Cycle
  BY DEF Contents
<1>2. CASE i = Producer
  <2>1. c \in Kept(g[i], c) /\ Kept(g[i], c) \subseteq g[i] \cup {c}
    BY <1>1, <1>2, KeptFacts
  <2>2. \A x \in g[i] \ Kept(g[i], c) :
          Cardinality(Kept(g[i], c)) >= ProducerCapacity /\ \A d \in Kept(g[i], c) : d > x
    BY <1>1, <1>2, KeptNewest
  <2> QED BY <1>2, <2>1, <2>2 DEF Gains, Gained
<1>3. CASE i # Producer
  BY <1>3 DEF Gains, Gained
<1> QED BY <1>2, <1>3

\* A ledger that is full and remembers the cycle is not empty.
LEMMA FullIsNewer ==
  ASSUME NEW S \in SUBSET Cycle, NEW c \in Cycle, c \notin S, Remembers(S, c)
  PROVE  ~Fits(S, c)
<1>1. Cardinality(S) >= ProducerCapacity /\ \A d \in S : d > c
  BY DEF Remembers
<1>2. S # {}
  BY <1>1, FS_EmptySet
<1>3. PICK d \in S : TRUE
  BY <1>2
<1>4. d > c /\ d \in Nat /\ c \in Nat
  BY <1>1, <1>3 DEF Cycle
<1> QED BY <1>3, <1>4 DEF Fits

\* Ledgers and copies that agree differ everywhere or nowhere.
LEMMA AheadAgree ==
  ASSUME NEW f \in Contents, NEW g \in Contents, NEW c \in Cycle, Ahead(f, g, c),
         Agree(f), Agree(g)
  PROVE  f = g \/ \A i \in Ledgers : Gains(i, g[i], c, f[i])
<1>1. f = [i \in Ledgers |-> f[i]] /\ g = [i \in Ledgers |-> g[i]]
  BY DEF Contents
<1>2. /\ 1 \in Ledgers /\ 2 \in Ledgers /\ Producer \in Ledgers /\ Producer = 3
      /\ \A i \in Ledgers : i = 1 \/ i = 2 \/ i = Producer
      /\ f[Producer] \in SUBSET Cycle /\ g[Producer] \in SUBSET Cycle
  BY DEF Ledgers, Producer, Contents
<1>3. /\ Fits(g[Producer], c)
      /\ f[1] = g[1] \/ f[1] = g[1] \cup {c}
      /\ f[Producer] = g[Producer] \/ f[Producer] = Gained(Producer, g[Producer], c)
  <2>1. Gained(1, g[1], c) = g[1] \cup {c}
    BY <1>2 DEF Gained
  <2> QED BY <1>2, <2>1 DEF Ahead
<1>4. Gains(Producer, g[Producer], c, Gained(Producer, g[Producer], c))
  BY <1>2, <1>3, GainedGains
<1>5. f[1] = f[2] /\ g[1] = g[2] /\ f[Producer] \subseteq f[1] /\ g[Producer] \subseteq g[1]
  BY DEF Agree
<1>6. ASSUME f[1] = g[1] \cup {c} PROVE Gains(1, g[1], c, f[1]) /\ Gains(2, g[2], c, f[2])
  BY <1>5, <1>6 DEF Gains
<1>7. CASE c \in g[1]
  <2>1. f[1] = g[1] \cup {c} /\ f[1] = g[1]
    BY <1>3, <1>7
  <2>2. CASE f[Producer] = g[Producer]
    <3>1. \A i \in Ledgers : f[i] = g[i]
      BY <1>2, <1>5, <2>1, <2>2
    <3> QED BY <1>1, <3>1
  <2>3. CASE f[Producer] = Gained(Producer, g[Producer], c)
    BY <1>2, <1>4, <1>6, <2>1, <2>3
  <2> QED BY <1>3, <2>2, <2>3
<1>8. CASE c \notin g[1] /\ f[1] = g[1]
  <2>1. c \notin f[Producer]
    BY <1>5, <1>8
  <2>2. f[Producer] = g[Producer]
    BY <1>3, <1>4, <2>1 DEF Gains
  <2>3. \A i \in Ledgers : f[i] = g[i]
    BY <1>2, <1>5, <1>8, <2>2
  <2> QED BY <1>1, <2>3
<1>9. CASE c \notin g[1] /\ f[1] = g[1] \cup {c}
  <2>1. Remembers(f[Producer], c)
    BY <1>9 DEF Agree
  <2>2. f[Producer] # g[Producer]
    BY <1>2, <1>3, <1>5, <1>9, <2>1, FullIsNewer
  <2>3. f[Producer] = Gained(Producer, g[Producer], c)
    BY <1>3, <2>2
  <2> QED BY <1>2, <1>4, <1>6, <1>9, <2>3
<1> QED BY <1>3, <1>7, <1>8, <1>9

Mapped == <<Shown, Of(ckpt.log, "composition"), damaged>>

LEMMA GainsMaps ==
  ASSUME NEW i, NEW c, NEW new, Gains(i, Shown[i], c, new)
  PROVE  Atomic!Gain(i, c, new)
  BY DEF Gains, Atomic!Gain, Cardinality, Atomic!Cardinality, IsFiniteSet, Atomic!IsFiniteSet

\* The journal goes, or is replaced by the ledgers as they are: what it kept back
\* shows at once, in all ledgers unless the publication is torn.
LEMMA JournalGoes ==
  ASSUME TypeOK, JournalInv, LedgersInv, journal # NoJournal,
         Shown' = files, UNCHANGED Of(ckpt.log, "composition"),
         \/ damaged' = TRUE
         \/ damaged' = damaged /\ Agree(files)
  PROVE  [Atomic!Next]_Mapped
<1>1. PICK c \in Cycle : Ahead(files, journal, c)
  BY DEF JournalInv
<1>2. /\ files \in Contents /\ journal \in Contents /\ Shown = journal /\ damaged \in BOOLEAN
      /\ Fits(journal[Producer], c)
  BY <1>1 DEF TypeOK, Shown, Ahead
<1>3. Shown' \in [Ledgers -> SUBSET Cycle]
  BY <1>2 DEF Contents
<1>4. CASE damaged' = TRUE
  <2> DEFINE some == {j \in Ledgers : files[j] # journal[j]}
  <2>1. ASSUME NEW j \in some PROVE Gains(j, journal[j], c, files[j])
    <3>1. j \in Ledgers /\ files[j] = Gained(j, journal[j], c)
      BY <1>1 DEF Ahead
    <3> QED BY <1>2, <3>1, GainedGains
  <2>2. \A j \in some : Atomic!Gain(j, c, Shown'[j])
    BY <1>2, <2>1, GainsMaps
  <2>3. \A j \in Ledgers \ some : Shown'[j] = Shown[j]
    BY <1>2
  <2>4. some \in SUBSET Ledgers
    OBVIOUS
  <2> HIDE DEF some
  <2>5. Atomic!Enter(c, some)
    BY <1>3, <2>2, <2>3 DEF Atomic!Enter
  <2>6. Atomic!Tear(c, some)
    BY <1>4, <2>5 DEF Atomic!Tear
  <2> QED BY <2>4, <2>6 DEF Atomic!Next
<1>5. CASE damaged = FALSE /\ damaged' = damaged /\ Agree(files)
  <2>1. Agree(journal)
    BY <1>5 DEF LedgersInv, MendableInv
  <2>2. \/ files = journal
        \/ \A i \in Ledgers : Gains(i, journal[i], c, files[i])
    BY <1>1, <1>2, <1>5, <2>1, AheadAgree
  <2>3. CASE \A i \in Ledgers : Gains(i, journal[i], c, files[i])
    <3>1. \A i \in Ledgers : Atomic!Gain(i, c, Shown'[i])
      BY <1>2, <2>3, GainsMaps
    <3>2. Atomic!Enter(c, Ledgers)
      BY <1>3, <3>1 DEF Atomic!Enter
    <3> QED BY <1>5, <3>2 DEF Atomic!Next, Atomic!Commit
  <2>4. CASE files = journal
    BY <1>2, <1>5, <2>4 DEF Mapped
  <2> QED BY <2>2, <2>3, <2>4
<1> QED BY <1>2, <1>4, <1>5

\* Evidence is saved: the ledgers, as a start would find them, have its cycles.
LEMMA EvidenceTold ==
  ASSUME TypeOK', CommittedInv', Shown' = Shown, damaged' = damaged,
         Of(ckpt.log, "composition") \subseteq Of(ckpt'.log, "composition")
  PROVE  [Atomic!Next]_Mapped
<1> DEFINE new == Of(ckpt'.log, "composition")
<1>1. Holds(files', Recorded') /\ (journal' # NoJournal => Holds(journal', Recorded'))
  BY DEF CommittedInv
<1>2. Holds(Shown', Recorded')
  BY <1>1 DEF Shown
<1>3. \A i \in Ledgers \ {Producer} : new \subseteq Shown[i]
  BY <1>2 DEF Holds, Recorded
<1>4. new \in SUBSET Cycle
  <2>1. ckpt' \in Memory
    BY DEF TypeOK
  <2> QED BY <2>1, OfType, MemoryFields
<1>5. Atomic!Tell(new)
  BY <1>3 DEF Atomic!Tell
<1> QED BY <1>4, <1>5 DEF Atomic!Next

LEMMA AtomicStep ==
  ASSUME TypeOK, JournalInv, LedgersInv, ToldInv, [Next]_vars, TypeOK', CommittedInv'
  PROVE  [Atomic!Next]_Mapped
<1>0. /\ files \in Contents /\ preview \in Contents /\ done \in 0 .. 3
      /\ journal \in Contents \cup {NoJournal} /\ NoJournal \notin Contents
      /\ damaged \in BOOLEAN
  BY DEF TypeOK
<1>t. /\ Of(ckpt.log, "composition") \subseteq Of(ckpt'.log, "composition")
      /\ Of(ckpt'.log, "composition") = Of(ckpt.log, "composition")
           \/ (Shown' = Shown /\ damaged' = damaged)
  BY ToldStep
<1>s. ASSUME Shown' = Shown, damaged' = damaged
      PROVE  [Atomic!Next]_Mapped
  BY <1>s, <1>t, EvidenceTold
<1>u. ASSUME ~(Shown' = Shown /\ damaged' = damaged)
      PROVE  UNCHANGED Of(ckpt.log, "composition")
  BY <1>t, <1>u
<1>1. CASE UNCHANGED vars
  BY <1>1, <1>s DEF vars, Shown
<1>2. CASE \/ Start \/ RecoverFault \/ Crash \/ Save \/ PublishFault \/ CleanupFault
           \/ RecordDuplicate \/ Record \/ RecordCompact \/ Pair \/ Raises
           \/ \E s \in Symbols : Ready(s) \/ NotReady(s) \/ StageFails(s) \/ Stage(s)
  <2>1. UNCHANGED <<files, journal, damaged>>
    BY <1>2 DEF Start, RecoverFault, Crash, Save, PublishFault, CleanupFault,
                RecordDuplicate, Record, RecordCompact, Pair, Raises, Ready, NotReady,
                StageFails, Stage
  <2> QED BY <2>1, <1>s DEF Shown
<1>3. CASE Recover
  BY <1>3, <1>s DEF Recover, Shown
\* The recovery is complete: the ledgers are the copies.
<1>4. CASE Restore
  <2>1. /\ journal' = NoJournal /\ UNCHANGED <<files, damaged>> /\ phase = "Recover"
        /\ journal = NoJournal \/ done = 3
    BY <1>4 DEF Restore
  <2>2. journal # NoJournal => files = journal
    <3> SUFFICES ASSUME journal # NoJournal PROVE files = journal
      OBVIOUS
    <3>1. Restored(journal, 3) /\ journal \in Contents
      BY <1>0, <2>1 DEF JournalInv
    <3>2. \A i \in Ledgers : files[i] = journal[i]
      BY <3>1 DEF Restored, Ledgers
    <3> QED BY <1>0, <3>1, <3>2 DEF Contents
  <2> QED BY <2>1, <2>2, <1>s DEF Shown
\* A journal left behind by an earlier composition is replaced.
<1>5. CASE WriteJournal
  <2>1. /\ journal' = files /\ UNCHANGED <<files, ckpt, damaged>> /\ Trusting
    BY <1>5 DEF WriteJournal, JournalInv, Trusting
  <2>2. Shown' = files
    BY <2>1, <1>0 DEF Shown
  <2>3. CASE journal = NoJournal
    BY <2>1, <2>2, <2>3, <1>s DEF Shown
  <2>4. CASE journal # NoJournal
    <3>1. damaged' = TRUE \/ (damaged' = damaged /\ Agree(files))
      BY <2>1, <1>0 DEF LedgersInv, MendableInv
    <3> QED BY <2>1, <2>2, <2>4, <3>1, JournalGoes
  <2> QED BY <2>3, <2>4
<1>6. CASE Publish
  <2>1. journal # NoJournal /\ UNCHANGED <<journal, damaged>>
    BY <1>6, <1>0 DEF Publish, JournalInv
  <2> QED BY <2>1, <1>s DEF Shown
\* The commit point: the journal is removed.
<1>7. CASE Published
  <2>1. /\ journal = preview /\ journal' = NoJournal /\ UNCHANGED <<files, ckpt, damaged>>
        /\ Written(preview, cycle, 3) /\ cycle \in Cycle /\ Fits(preview[Producer], cycle)
    BY <1>7 DEF Published, JournalInv, TypeOK, Ahead
  <2>2. Shown = preview /\ Shown' = files
    BY <2>1, <1>0 DEF Shown
  <2>3. \A i \in Ledgers : Gains(i, preview[i], cycle, files[i])
    <3>1. \A i \in Ledgers : files[i] = Gained(i, preview[i], cycle)
      BY <2>1 DEF Written, Ledgers
    <3> QED BY <1>0, <2>1, <3>1, GainedGains
  <2>4. \A i \in Ledgers : Atomic!Gain(i, cycle, Shown'[i])
    BY <2>2, <2>3, GainsMaps
  <2>5. Shown' \in [Ledgers -> SUBSET Cycle]
    BY <1>0, <2>2 DEF Contents
  <2>6. Atomic!Enter(cycle, Ledgers)
    BY <2>4, <2>5 DEF Atomic!Enter
  <2>7. Atomic!Commit(cycle)
    BY <2>1, <2>6 DEF Atomic!Commit
  <2> QED BY <2>1, <2>7 DEF Atomic!Next
<1>8. CASE Rollback
  <2>1. /\ done \in 0 .. 2 /\ UNCHANGED <<journal, damaged>>
        /\ files' = [files EXCEPT ![done + 1] = preview[done + 1]]
        /\ files = preview \/ journal = preview
    BY <1>8, <1>0 DEF Rollback, JournalInv
  <2>2. journal = NoJournal => files' = files
    BY <2>1, <1>0 DEF Contents
  <2> QED BY <2>1, <2>2, <1>s DEF Shown
<1>9. CASE RolledBack \/ Interrupt
  <2>1. /\ journal' = NoJournal /\ UNCHANGED files /\ Shown' = files
        /\ damaged' = TRUE \/ (damaged' = damaged /\ Agree(files))
    <3>1. CASE RolledBack
      <4>1. Restored(preview, 3)
        BY <3>1 DEF RolledBack, JournalInv
      <4>2. ~damaged => Agree(files)
        BY <3>1, <4>1, <1>0, RestoredAgree DEF RolledBack, LedgersInv, MendableInv
      <4> QED BY <3>1, <4>2, <1>0 DEF RolledBack, Shown
    <3>2. CASE Interrupt
      BY <3>2, <1>0 DEF Interrupt, Shown
    <3> QED BY <1>9, <3>1, <3>2
  <2>2. cycle \in Cycle
    BY <1>9 DEF RolledBack, Interrupt, Publishing, TypeOK
  <2>3. CASE Shown' = Shown /\ damaged' = damaged
    BY <2>3, <1>s
  <2>4. CASE ~(Shown' = Shown /\ damaged' = damaged) /\ journal # NoJournal
    BY <2>1, <2>4, <1>u, JournalGoes
  <2>5. CASE ~(Shown' = Shown /\ damaged' = damaged) /\ journal = NoJournal
    <3>1. Shown' = Shown /\ damaged' = TRUE
      BY <2>1, <2>5 DEF Shown
    <3>2. Atomic!Enter(cycle, {})
      BY <2>5, <3>1, <1>0 DEF Atomic!Enter, Shown, Contents
    <3>3. Atomic!Tear(cycle, {})
      BY <2>5, <3>1, <3>2, <1>u DEF Atomic!Tear
    <3> QED BY <2>2, <3>3 DEF Atomic!Next
  <2> QED BY <2>3, <2>4, <2>5
\* The rollback is given up: the journal stays for the next start.
<1>10. CASE RollbackFault
  <2>1. /\ UNCHANGED <<files, journal>> /\ cycle \in Cycle
        /\ damaged' = damaged \/ damaged' = TRUE
    BY <1>10, <1>0 DEF RollbackFault, TypeOK
  <2>2. Shown' = Shown /\ Shown \in Contents
    BY <2>1, <1>0 DEF Shown
  <2>3. CASE damaged' = damaged
    BY <2>2, <2>3, <1>s
  <2>4. CASE damaged' # damaged
    <3>1. Atomic!Enter(cycle, {})
      BY <2>2 DEF Atomic!Enter, Contents
    <3>2. Atomic!Tear(cycle, {})
      BY <2>1, <2>4, <3>1, <1>u DEF Atomic!Tear
    <3> QED BY <2>1, <3>2 DEF Atomic!Next
  <2> QED BY <2>3, <2>4
<1> QED
  BY <1>1, <1>2, <1>3, <1>4, <1>5, <1>6, <1>7, <1>8, <1>9, <1>10 DEF Next

\* The three replacements behind the journal amount to one atomic commit: its
\* point is the removal of the journal, or its replacement by the next
\* composition's, and nothing a crash, a failed write or an interrupt leaves
\* behind takes a cycle out of a lasting ledger again, or out of the producer's
\* except for newer ones that fill it.
THEOREM PublicationAtomic == Spec => ImplementsAtomicLedgers
<1>1. Init => Atomic!Init
  BY EmptyLog DEF Init, Atomic!Init, Shown, Fresh, NoLedgers
<1>2. /\ TypeOK /\ JournalInv /\ LedgersInv /\ ToldInv /\ [Next]_vars
      /\ TypeOK' /\ CommittedInv'
      => [Atomic!Next]_Mapped
  BY AtomicStep
<1>3. TypeOK /\ ToldInv /\ [Next]_vars => ToldInv'
  BY ToldStep
<1> QED
  BY <1>1, <1>2, <1>3, TypeCorrect, JournalInit, JournalStep, CutoffInit, CutoffStep, LedgersInit, LedgersStep,
     ToldInit, CommittedInit, CommittedStep, PTL
     DEF Spec, ImplementsAtomicLedgers, Atomic!Spec, Mapped
=============================================================================
