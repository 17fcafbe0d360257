---------------------------- MODULE TradeRecord ----------------------------
(***************************************************************************)
(* What the four write-once files of a decision cycle promise about the    *)
(* shares it holds at the broker, over crashes, relaunches and orphaned    *)
(* sessions.  Nothing is bought before the intent is on file, nor after    *)
(* the active record or the decision is; a file once created never changes,*)
(* not even one a crash left torn; and what the decision, the outcome and  *)
(* the completed job say of the position is true for ever.                 *)
(*                                                                         *)
(* An order that moves after it was looked at for the last time disturbs it:*)
(* from then on only the order of the writes is promised.                  *)
(***************************************************************************)
EXTENDS Naturals

VARIABLES
  held,        \* shares held at the broker
  intent, active, decision, outcome,    \* the files: "absent", "torn", or a text
  stated,      \* the shares the whole active record states, or 0
  completed,   \* the job is reported complete
  disturbed

files == <<intent, active, decision, outcome, stated>>
vars == <<held, files, completed, disturbed>>

-----------------------------------------------------------------------------
(* What the files say.                                                      *)

Nothing == decision \in {"NO_TRADE", "FLAT"} \/ outcome = "FLAT"

Written == decision # "absent" \/ active # "absent"

Ordered ==
  /\ active # "absent" \/ decision \in {"FLAT", "OPEN"} => intent = "whole"
  /\ outcome # "absent" => active = "whole" /\ decision = "OPEN"
  /\ completed => decision \in {"NO_TRADE", "FLAT"} \/ outcome \in {"FLAT", "OPEN"}

Truthful ==
  ~disturbed =>
    /\ Nothing \/ completed => held = 0
    /\ decision = "OPEN" => active = "whole"
    /\ outcome # "OPEN"
    /\ active = "whole" => held <= stated

Sound == held \in Nat /\ Ordered /\ Truthful

-----------------------------------------------------------------------------
Init ==
  /\ held = 0 /\ stated = 0 /\ completed = FALSE /\ disturbed = FALSE
  /\ intent = "absent" /\ active = "absent" /\ decision = "absent" /\ outcome = "absent"

Buy ==
  /\ intent = "whole" /\ (Written => disturbed')
  /\ held' = held + 1
  /\ UNCHANGED <<files, completed>>

Sell ==
  /\ held' = held - 1
  /\ UNCHANGED <<files, completed>>

Disturb == UNCHANGED <<held, files, completed>>

Intend ==
  /\ intent = "absent" /\ decision = "absent" /\ intent' \in {"torn", "whole"}
  /\ UNCHANGED <<held, active, decision, outcome, stated, completed, disturbed>>

Activate ==
  /\ active = "absent" /\ decision = "absent" /\ active' \in {"torn", "whole"}
  /\ active' # "whole" => stated' = stated
  /\ UNCHANGED <<held, intent, decision, outcome, completed, disturbed>>

Decide ==
  /\ decision = "absent" /\ decision' \in {"torn", "NO_TRADE", "FLAT", "OPEN"}
  /\ UNCHANGED <<held, intent, active, outcome, stated, disturbed>>

Conclude ==
  /\ outcome = "absent" /\ outcome' \in {"torn", "FLAT", "OPEN"}
  /\ UNCHANGED <<held, intent, active, decision, stated, completed, disturbed>>

Complete == completed' = TRUE /\ UNCHANGED <<held, files, disturbed>>

Next ==
  /\ Buy \/ Sell \/ Disturb \/ Intend \/ Activate \/ Decide \/ Conclude \/ Complete
  /\ Sound' /\ (completed => completed') /\ (disturbed => disturbed')

Spec == Init /\ [][Next]_vars
=============================================================================
