---------------------------- MODULE AtomicLedgers ----------------------------
(***************************************************************************)
(* What the publication of compositions promises, over all crashes, failed*)
(* writes and interrupts: a cycle enters all ledgers in one step, unless *)
(* the publication is torn, and then it is that one cycle that some of   *)
(* them lack; the lasting ledgers only gain cycles, the producer's gives up*)
(* cycles only for newer ones and only when it is full of newer ones; and*)
(* the durable evidence tells only of cycles in the lasting ledgers.     *)
(***************************************************************************)
EXTENDS Naturals, FiniteSets

CONSTANTS
  Cycle,            \* numbered in the order of their cutoffs
  Ledgers,
  Producer,         \* the ledger that is bounded
  Capacity          \* by this many cycles

VARIABLES
  ledgers,          \* the cycles of each ledger, as the next start finds them
  told,             \* the cycles the durable evidence tells of
  torn              \* a publication was left half done for good

Init ==
  /\ ledgers = [i \in Ledgers |-> {}]
  /\ told = {}
  /\ torn = FALSE

\* What ledger i may hold once it gained the cycle c.
Gain(i, c, new) ==
  /\ c \in new /\ new \subseteq ledgers[i] \cup {c}
  /\ \A old \in ledgers[i] \ new :
       i = Producer /\ Cardinality(new) >= Capacity /\ \A d \in new : d > old

\* Some ledgers gain the cycle; the others stay.
Enter(c, some) ==
  /\ ledgers' \in [Ledgers -> SUBSET Cycle]
  /\ \A i \in some : Gain(i, c, ledgers'[i])
  /\ \A i \in Ledgers \ some : ledgers'[i] = ledgers[i]

Commit(c) ==
  /\ Enter(c, Ledgers)
  /\ UNCHANGED <<told, torn>>

Tear(c, some) ==
  /\ torn' = TRUE
  /\ Enter(c, some)
  /\ UNCHANGED told

Tell(cycles) ==
  /\ \A i \in Ledgers \ {Producer} : cycles \subseteq ledgers[i]
  /\ told' = told \cup cycles
  /\ UNCHANGED <<ledgers, torn>>

Next ==
  \/ \E c \in Cycle : Commit(c) \/ \E some \in SUBSET Ledgers : Tear(c, some)
  \/ \E cycles \in SUBSET Cycle : Tell(cycles)

Spec == Init /\ [][Next]_<<ledgers, told, torn>>
=============================================================================
