------------------------ MODULE MC_ProductionWriter ------------------------
(***************************************************************************)
(* Small instances of ProductionWriter for TLC.                             *)
(***************************************************************************)
EXTENDS ProductionWriter

\* Every intent has a record fingerprint of its own.
MC_DistinctRecords == [i \in Intents |-> i]

\* The first and the last intent carry one record fingerprint.
MC_SharedRecord == [i \in Intents |-> IF i = NumIntents THEN 1 ELSE i]
=============================================================================
