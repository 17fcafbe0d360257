------------------------------- MODULE Outbox -------------------------------
(***************************************************************************)
(* What the runtime's checkpoint promises of the evidence it records as    *)
(* admitted, over crashes, restarts from an older file, lost answers and   *)
(* rejections.  The recorded contents only grow, each of them newer than   *)
(* all before it.  A recorded content is owed until it is durable at the    *)
(* writer or refused by name, in the order of the record; what is settled  *)
(* is never owed again, what is refused never becomes durable, and once    *)
(* the terminal hold is recorded the checkpoint is final.                  *)
(***************************************************************************)
EXTENDS Naturals, Sequences

CONSTANT Contents   \* numbered in the order they come up

VARIABLES
  saved,            \* the recorded contents, oldest first
  owed,             \* positions of saved that still wait for delivery
  refused,          \* contents refused by name
  durable,          \* contents with a durable record
  held              \* the terminal hold is recorded

vars == <<saved, owed, refused, durable, held>>

Positions == 1 .. Len(saved)

-----------------------------------------------------------------------------
(* What every record satisfies.                                             *)

Done(p) == saved[p] \in durable \cup refused

Growing == \A p, q \in Positions : q < p => saved[q] < saved[p]

Settled == \A p \in Positions \ owed : Done(p)

InOrder ==
  \A p, q \in Positions : q < p /\ saved[p] \in durable => Done(q)

Exclusive == refused \cap durable = {} /\ \A p \in owed : saved[p] \notin refused

Sound == owed \subseteq Positions /\ Growing /\ Settled /\ InOrder /\ Exclusive

-----------------------------------------------------------------------------
Init == saved = <<>> /\ owed = {} /\ refused = {} /\ durable = {} /\ held = FALSE

\* The next checkpoint: nothing recorded is changed or owed again.
Save ==
  /\ ~held
  /\ Len(saved) <= Len(saved') /\ \A p \in Positions : saved'[p] = saved[p]
  /\ owed' \cap Positions \subseteq owed
  /\ refused \subseteq refused'
  /\ Sound'
  /\ UNCHANGED durable

Deliver(k) ==
  /\ durable' = durable \cup {k}
  /\ Sound'
  /\ UNCHANGED <<saved, owed, refused, held>>

Next == Save \/ \E k \in Contents : Deliver(k)

Spec == Init /\ [][Next]_vars
=============================================================================
