------------------------------ MODULE JobLedger ------------------------------
(***************************************************************************)
(* What the automation supervisor promises of its jobs, whatever crashes or*)
(* is damaged: a job is claimed, then launched, then answered, in that   *)
(* order; an answer is final; and only a job that recovers its own intent*)
(* is launched a second time.                                            *)
(***************************************************************************)
EXTENDS Naturals

CONSTANTS
  Jobs,
  Recovering,      \* the jobs whose process recovers idempotently
  Answers          \* the final states of a receipt

VARIABLES
  receipt,         \* "open", "RUNNING", or an answer
  launches         \* processes started for the job

Init ==
  /\ receipt = [j \in Jobs |-> "open"]
  /\ launches = [j \in Jobs |-> 0]

Claim(j) ==
  /\ receipt[j] = "open"
  /\ receipt' = [receipt EXCEPT ![j] = "RUNNING"]
  /\ UNCHANGED launches

Launch(j) ==
  /\ receipt[j] = "RUNNING"
  /\ j \in Recovering \/ launches[j] = 0
  /\ launches' = [launches EXCEPT ![j] = @ + 1]
  /\ UNCHANGED receipt

\* Without a launch, the job was missed, disabled, blocked or rejected.
Answer(j, answer) ==
  /\ receipt[j] \notin Answers
  /\ receipt' = [receipt EXCEPT ![j] = answer]
  /\ answer = "COMPLETED" => launches[j] > 0
  /\ UNCHANGED launches

Next ==
  \E j \in Jobs : Claim(j) \/ Launch(j) \/ \E answer \in Answers : Answer(j, answer)

Spec == Init /\ [][Next]_<<receipt, launches>>
=============================================================================
