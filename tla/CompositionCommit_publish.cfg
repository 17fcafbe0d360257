SPECIFICATION Spec
CONSTANTS
  Symbols = {a, b, c}
  MaxMaterial = 1
  MaxCycles = 3
  QueueCapacity = 1
  HistoryCapacity = 3
  TerminalCapacity = 1
  ProducerCapacity = 2
  SaveMidWork = TRUE
  MaxFaults = 3
  NoWork = NoWork
  NoJournal = NoJournal
SYMMETRY SymbolSymmetry
INVARIANTS TypeOK LedgersAgree EvidenceIsCommitted RepeatsOnlyForgotten DenominatorFollows TerminalIsAnswered
PROPERTY ImplementsAtomicLedgers
