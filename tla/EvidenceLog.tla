----------------------------- MODULE EvidenceLog -----------------------------
(***************************************************************************)
(* What the runtime is promised by the evidence writer, whatever happens on *)
(* the connection or in the writer's process: one growing log of committed  *)
(* intents, and for each intent one final answer.  An accepted intent is in *)
(* the log.  A refused one may be in it or may still enter it.              *)
(***************************************************************************)
EXTENDS Naturals, Sequences

CONSTANT Intents        \* 1 .. n: intents in the order the runtime offers them

VARIABLES
  log,                  \* committed intents, oldest first (one may recur)
  outcome               \* the answer each intent got

vars == <<log, outcome>>

Committed == {log[k] : k \in 1 .. Len(log)}

\* The runtime offers an intent once every earlier one is answered.
Offered(i) == \A j \in Intents : j < i => outcome[j] # "pending"

Init == log = <<>> /\ outcome = [i \in Intents |-> "pending"]

Commit(i) ==
  /\ Offered(i)
  /\ log' = Append(log, i)
  /\ UNCHANGED outcome

Accept(i) ==
  /\ Offered(i) /\ outcome[i] = "pending" /\ i \in Committed
  /\ outcome' = [outcome EXCEPT ![i] = "accepted"]
  /\ UNCHANGED log

Refuse(i) ==
  /\ Offered(i) /\ outcome[i] = "pending"
  /\ outcome' = [outcome EXCEPT ![i] = "rejected"]
  /\ UNCHANGED log

Next == \E i \in Intents : Commit(i) \/ Accept(i) \/ Refuse(i)

Spec == Init /\ [][Next]_vars
=============================================================================
