------------------------ MODULE MC_CompositionCommit ------------------------
EXTENDS CompositionCommit, TLC

\* Symbols are interchangeable; the run checks no liveness.
SymbolSymmetry == Permutations(Symbols)
=============================================================================
