---------------------- MODULE MC_AutomationSupervisor ----------------------
(* Two manifests: a nonmarket canary with a review of it, whose windows      *)
(* overlap, and an opening capture with the Paper session of the day.        *)
EXTENDS AutomationSupervisor

Day == {"canary", "review"}
DayOrder == <<"canary", "review">>
DayKind == [canary |-> "nonmarket_canary", review |-> "codex_review"]
DayScheduled == [canary |-> 1, review |-> 2]
DayLatest == [canary |-> 2, review |-> 2]
DayDependency == [canary |-> None, review |-> "canary"]

Pair == {"opening", "paper"}
PairOrder == <<"opening", "paper">>
PairKind == [opening |-> "opening_capture", paper |-> "paper_engineering"]
PairScheduled == [opening |-> 1, paper |-> 1]
PairLatest == [opening |-> 1, paper |-> 1]
PairDependency == [opening |-> None, paper |-> "opening"]
=============================================================================
