-------------------------- MODULE MC_SymbolPipeline --------------------------
(***************************************************************************)
(* A small instance of SymbolPipeline: three symbols compete for two        *)
(* readiness places; two have events of their own, with the priorities of a *)
(* completed bar and of a history recovery, and a bar received in the first *)
(* second is older than any pulse.                                          *)
(***************************************************************************)
EXTENDS SymbolPipeline

MC_Events == {"barA", "historyC"}

MC_EventWork ==
  [e \in MC_Events |->
     CASE e = "barA"     -> [key |-> "A", at |-> 1, prio |-> 90, src |-> "barA"]
       [] e = "historyC" -> [key |-> "C", at |-> 2, prio |-> 80, src |-> "historyC"]]

\* The saved request of the symbol that only discovery asks for, and that
\* either event may displace from the readiness queue, is answered at last
\* (or is provider-bound, or an exception took it).
DisplaceableRequestAnswered == RequestAnswered("B")
=============================================================================
