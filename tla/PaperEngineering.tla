-------------------------- MODULE PaperEngineering --------------------------
(***************************************************************************)
(* One decision cycle of the Alpaca Paper engineering lane.              *)
(*                                                                       *)
(* A session process (alpaca_paper_engineering run-session) takes one    *)
(* decision, enters a position at the broker, hangs a protective stop under*)
(* it, and supervises it until it is flat. It is launched by the automation*)
(* supervisor, which relaunches it after a restart of the service. What  *)
(* survives a crash is the broker's orders and four write-once files:    *)
(* intent, active, decision, outcome.                                    *)
(*                                                                       *)
(* Every request to the broker is a step of its own: the broker fills,   *)
(* cancels and expires orders between any two of them. The three client  *)
(* order identities are frozen in the intent.                            *)
(***************************************************************************)
EXTENDS Integers

CONSTANTS
  MaxQty,          \* bound: shares of the entry, when it fills completely
  MaxFaults,       \* bound: requests that fail or lose their answer, kills
  MaxRestarts      \* bound: restarts of the service, reruns by an operator

ASSUME PaperAssumption ==
  /\ MaxQty \in Nat \ {0} /\ MaxFaults \in Nat /\ MaxRestarts \in Nat

Ids == {"entry", "stop", "exit"}
Sells == {"stop", "exit"}

VARIABLES
  order,           \* the broker's orders, by client order identity
  late,            \* submissions given up and still on their way: id -> shares
  forced,          \* forcedFlatAt has passed
  file,            \* the write-once files
  activeQty,       \* the quantity written in the active record
  me,              \* the session process
  job,             \* status of the supervisor's receipt
  orphan,          \* the session outlived the supervisor that launched it
  faults, restarts,
  slow             \* history: an order moved after the session's last look at it

broker == <<order, late, forced, slow>>
disk == <<file, activeQty>>
service == <<job, orphan>>
counts == <<faults, restarts>>
vars == <<broker, disk, me, service, counts>>

-----------------------------------------------------------------------------
(* The broker.                                                              *)

NoOrder == [status |-> "none", qty |-> 0, filled |-> 0]
Order(s, q) == [status |-> s, qty |-> q, filled |-> 0]

\* left: its cancellation was still pending when the session polled it last.
\* dead: rejected or expired; done: done for the day, or replaced.
Working == {"live", "canceling", "left"}
Terminal == {"filled", "canceled", "dead", "done"}

Position == order["entry"].filled - order["stop"].filled - order["exit"].filled

Open(id) == IF order[id].status \in Working THEN order[id].qty - order[id].filled ELSE 0
Held == Open("stop") + Open("exit")

\* A client order identity is used once; a sale needs shares no other sale holds.
Acceptable(id, q) ==
  /\ order[id] = NoOrder
  /\ id \in Sells => q <= Position - Held

Fill(id) ==
  /\ order[id].status \in Working
  /\ id \in Sells => Position > 0
  /\ LET done == order[id].filled + 1 = order[id].qty
     IN order' = [order EXCEPT ![id].filled = @ + 1,
                               ![id].status = IF done THEN "filled" ELSE @]
  /\ slow' = (slow \/ order[id].status = "left")
  /\ UNCHANGED <<late, forced, disk, me, service, counts>>

Die(id) ==
  /\ order[id].status = "live"
  /\ \E s \in {"dead", "done"} : order' = [order EXCEPT ![id].status = s]
  /\ UNCHANGED <<late, forced, slow, disk, me, service, counts>>

CancelSettles(id) ==
  /\ order[id].status \in {"canceling", "left"}
  /\ order' = [order EXCEPT ![id].status = "canceled"]
  /\ UNCHANGED <<late, forced, slow, disk, me, service, counts>>

\* A submission that was given up arrives; the session may still look for it.
Arrives(id) ==
  /\ late[id] > 0
  /\ late' = [late EXCEPT ![id] = 0]
  /\ order' = IF Acceptable(id, late[id]) THEN [order EXCEPT ![id] = Order("live", late[id])]
              ELSE order
  /\ slow' = (slow \/ ~(me.pc = "lost" /\ me.id = id))
  /\ UNCHANGED <<forced, disk, me, service, counts>>

DayEnds ==
  /\ ~forced /\ forced' = TRUE
  /\ UNCHANGED <<order, late, slow, disk, me, service, counts>>

-----------------------------------------------------------------------------
(* The session process. pc names the next request or write; the rest is     *)
(* what earlier requests returned: filled quantity of the entry, position   *)
(* quantity, status of the stop. goal says for which record the position is *)
(* being closed: the decision, the outcome after a protection anomaly, or   *)
(* the outcome of a regular exit.                                           *)

Gone == [pc |-> "gone", id |-> "entry", recover |-> FALSE, entry |-> 0, qty |-> 0,
         stop |-> "none", goal |-> "decision", doc |-> "none", text |-> "none"]
Started == [Gone EXCEPT !.pc = "load"]

Alive == me.pc # "gone"

Ends(status) ==
  /\ me' = Gone /\ orphan' = FALSE
  /\ job' = IF orphan THEN job ELSE status
Stops == Ends("FAILED")         \* an exception: exit code 1
Finishes == Ends("COMPLETED")

\* Goes on with the next request or write.
Goes(m) == me' = m /\ UNCHANGED service
Ask(pc) == Goes([me EXCEPT !.pc = pc])
Submit(m, id) == Goes([m EXCEPT !.pc = "find", !.id = id])
Write(doc, text) == Goes([me EXCEPT !.pc = "save", !.doc = doc, !.text = text])

NoTrade == Write("decision", "NO_TRADE")

\* Mutant: a decision found on disk ends the session, whatever it says.
LoadAnyDecisionEnds ==
  /\ me.pc = "load"
  /\ \/ file.decision = "torn" /\ Stops
     \/ file.decision \in {"NO_TRADE", "FLAT", "OPEN"} /\ Finishes
     \/ file.decision = "absent" /\ file.intent = "torn" /\ Stops
     \/ file.decision = "absent" /\ file.intent = "whole"
        /\ Goes([me EXCEPT !.pc = "recover", !.recover = TRUE])
     \/ file.decision = "absent" /\ file.intent = "absent"
        /\ (NoTrade \/ Write("intent", "whole"))
  /\ UNCHANGED <<broker, disk, counts>>

\* Mutant: the entry goes out before the intent is on file.
LoadEntersAtOnce ==
  /\ me.pc = "load"
  /\ \/ file.decision = "torn" /\ Stops
     \/ file.decision \in {"NO_TRADE", "FLAT"} /\ Finishes
     \/ file.decision = "OPEN" /\ Ask("monitor")
     \/ file.decision = "absent" /\ (NoTrade \/ Ask("asset"))
  /\ UNCHANGED <<broker, disk, counts>>

(* run_decision: a decision is returned, an intent is recovered, otherwise  *)
(* the report is evaluated: NO_TRADE, or an intent is written.              *)
Load ==
  /\ me.pc = "load"
  /\ \/ file.decision = "torn" /\ Stops
     \/ file.decision \in {"NO_TRADE", "FLAT"} /\ Finishes
     \/ file.decision = "OPEN" /\ Ask("monitor")
     \/ file.decision = "absent" /\ file.intent = "torn" /\ Stops
     \/ file.decision = "absent" /\ file.intent = "whole"
        /\ Goes([me EXCEPT !.pc = "recover", !.recover = TRUE])
     \/ file.decision = "absent" /\ file.intent = "absent"
        /\ (NoTrade \/ Write("intent", "whole"))
  /\ UNCHANGED <<broker, disk, counts>>

\* get_asset, then the last look at the account before the entry is submitted.
Asset ==
  /\ me.pc = "asset"
  /\ \/ NoTrade
     \/ Position > 0 /\ Stops
     \/ Position = 0 /\ Submit(me, "entry")
  /\ UNCHANGED <<broker, disk, counts>>

(* submit_order_idempotently: look the identity up, submit, and look it up  *)
(* again when the answer is an error or is lost.                            *)

Wanted == IF me.id = "entry" THEN MaxQty ELSE me.qty

Resolved(status) ==
  CASE me.id = "entry" -> Ask("entry_read")
    [] me.id = "stop" -> Goes([me EXCEPT !.pc = "stop_check", !.stop = status])
    [] me.id = "exit" -> Ask("exit_read")

\* AlpacaPaperBrokerError: only a failed stop is answered, with an exit.
BrokerError == IF me.id = "stop" THEN Submit([me EXCEPT !.goal = "decision"], "exit") ELSE Stops

Recovered == IF order[me.id].qty = Wanted THEN Resolved(order[me.id].status) ELSE BrokerError

Find ==
  /\ me.pc = "find"
  /\ IF order[me.id] = NoOrder THEN Ask("post") ELSE Recovered
  /\ UNCHANGED <<broker, disk, counts>>

Post ==
  /\ me.pc = "post" /\ Acceptable(me.id, Wanted)
  /\ \E s \in {"live", "dead"} :
       /\ order' = [order EXCEPT ![me.id] = Order(s, Wanted)]
       /\ Resolved(s)
  /\ UNCHANGED <<late, forced, slow, disk, counts>>

PostRefused ==
  /\ me.pc = "post" /\ ~Acceptable(me.id, Wanted)
  /\ Ask("lost")
  /\ UNCHANGED <<broker, disk, counts>>

PostUnanswered ==
  /\ me.pc = "post" /\ faults < MaxFaults /\ faults' = faults + 1
  /\ \/ /\ Acceptable(me.id, Wanted)
        /\ order' = [order EXCEPT ![me.id] = Order("live", Wanted)]
        /\ UNCHANGED late
     \/ late' = [late EXCEPT ![me.id] = Wanted] /\ UNCHANGED order
     \/ UNCHANGED <<order, late>>
  /\ Ask("lost")
  /\ UNCHANGED <<forced, slow, disk, restarts>>

Lost ==
  /\ me.pc = "lost"
  /\ IF order[me.id] = NoOrder THEN BrokerError ELSE Recovered
  /\ UNCHANGED <<broker, disk, counts>>

(* cancel_order: read the order, DELETE it unless it is terminal, and poll. *)

Settled(status) ==
  CASE me.id = "entry" -> Goes([me EXCEPT !.pc = "position", !.entry = order["entry"].filled])
    [] me.id = "stop" /\ me.goal = "outcome" -> Ask("exit_position")
    [] me.id = "stop" /\ me.goal # "outcome" ->
         IF status = "canceled" THEN Ask("close_position") ELSE Stops

Cancel ==
  /\ me.pc = "cancel"
  /\ IF order[me.id].status \in Terminal THEN Settled(order[me.id].status) ELSE Ask("delete")
  /\ UNCHANGED <<broker, disk, counts>>

Delete ==
  /\ me.pc = "delete"
  /\ IF order[me.id].status \in Terminal
     THEN Stops /\ UNCHANGED <<order, counts>>
     ELSE /\ \E s \in {"canceled", IF order[me.id].status = "left" THEN "left" ELSE "canceling"} :
               order' = [order EXCEPT ![me.id].status = s]
          /\ \/ Ask("settle") /\ UNCHANGED counts
             \/ faults < MaxFaults /\ faults' = faults + 1 /\ Stops /\ UNCHANGED restarts
  /\ UNCHANGED <<late, forced, slow, disk>>

\* The last poll; an order still being canceled then is not looked at again.
Settle ==
  /\ me.pc = "settle"
  /\ Settled(order[me.id].status)
  /\ order' = [order EXCEPT ![me.id].status = IF @ = "canceling" THEN "left" ELSE @]
  /\ UNCHANGED <<late, forced, slow, disk, counts>>

(* The entry: poll, cancel the remainder, and compare with the position.    *)

\* Mutant: the fill is read without canceling what is left of the entry.
EntryReadNotCanceled ==
  /\ me.pc = "entry_read"
  /\ Goes([me EXCEPT !.pc = "position", !.entry = order["entry"].filled])
  /\ UNCHANGED <<broker, disk, counts>>

EntryRead ==
  /\ me.pc = "entry_read"
  /\ IF order["entry"].status \in Terminal
     THEN Goes([me EXCEPT !.pc = "position", !.entry = order["entry"].filled])
     ELSE Goes([me EXCEPT !.pc = "cancel", !.id = "entry"])
  /\ UNCHANGED <<broker, disk, counts>>

Risk == Goes([me EXCEPT !.pc = "risk", !.qty = Position])

PositionFirst ==
  /\ me.pc = "position" /\ ~me.recover
  /\ \/ me.entry = 0 /\ NoTrade
     \/ me.entry > 0 /\ Position = me.entry /\ Risk
     \/ me.entry > 0 /\ Position # me.entry /\ Stops
  /\ UNCHANGED <<broker, disk, counts>>

PositionRecovered ==
  /\ me.pc = "position" /\ me.recover
  /\ \/ me.entry = 0 /\ Position = 0 /\ NoTrade
     \/ /\ me.entry > 0 /\ Position = 0
        /\ IF \E id \in Sells : order[id].filled > 0 THEN Write("decision", "FLAT") ELSE Stops
     \/ Position > me.entry /\ Stops
     \/ Position > 0 /\ Position <= me.entry /\ Risk
  /\ UNCHANGED <<broker, disk, counts>>

\* Recovery looks the entry up, then the account.
Recover ==
  /\ me.pc = "recover"
  /\ IF order["entry"] = NoOrder THEN Ask("recover_account") ELSE Ask("entry_read")
  /\ UNCHANGED <<broker, disk, counts>>

RecoverAccount ==
  /\ me.pc = "recover_account"
  /\ IF Position = 0 /\ \A id \in Ids : order[id].status \notin Working THEN NoTrade ELSE Stops
  /\ UNCHANGED <<broker, disk, counts>>

\* _post_fill_risk_evidence: prices decide, the model leaves it open.
PostFillRisk ==
  /\ me.pc = "risk"
  /\ \/ Submit([me EXCEPT !.goal = "decision"], "exit")
     \/ ~me.recover /\ Submit(me, "stop")
     \/ me.recover /\ Ask("recover_stop")
  /\ UNCHANGED <<broker, disk, counts>>

-----------------------------------------------------------------------------
(* The protective stop, and closing after a protection anomaly.             *)

\* _validate_protective_stop of the stop as the broker last showed it: a stop
\* that is done for the day still passes.
Passing == Working \cup {"done"}

Protects(status, q) ==
  status \in Passing /\ order["stop"].filled = 0 /\ order["stop"].qty = q

Close(goal, status) ==
  Goes([me EXCEPT !.goal = goal, !.stop = status, !.id = "stop",
                  !.pc = IF status \in Working THEN "cancel" ELSE "close_position"])

RecoverStop ==
  /\ me.pc = "recover_stop"
  /\ IF order["stop"] = NoOrder THEN Submit(me, "stop")
     ELSE Goes([me EXCEPT !.pc = "stop_check", !.stop = order["stop"].status])
  /\ UNCHANGED <<broker, disk, counts>>

\* Mutant: a recovered stop is used without validating its quantity.
StopCheckTrusting ==
  /\ me.pc = "stop_check"
  /\ IF me.stop \in Passing THEN Ask("stop_position") ELSE Close("decision", me.stop)
  /\ UNCHANGED <<broker, disk, counts>>

StopCheck ==
  /\ me.pc = "stop_check"
  /\ IF Protects(me.stop, me.qty) THEN Ask("stop_position") ELSE Close("decision", me.stop)
  /\ UNCHANGED <<broker, disk, counts>>

StopPosition ==
  /\ me.pc = "stop_position"
  /\ \/ Position # me.qty /\ Close("decision", me.stop)
     \/ Position = me.qty /\ file.active = "absent" /\ Write("active", "whole")
     \/ Position = me.qty /\ file.active = "whole" /\ Write("decision", "OPEN")
     \/ Position = me.qty /\ file.active = "torn" /\ Stops
  /\ UNCHANGED <<broker, disk, counts>>

ClosePosition ==
  /\ me.pc = "close_position"
  /\ IF Position = 0
     THEN Write(IF me.goal = "decision" THEN "decision" ELSE "outcome", "FLAT")
     ELSE Submit([me EXCEPT !.qty = Position], "exit")
  /\ UNCHANGED <<broker, disk, counts>>

(* _emergency_exit and what its callers do with it.                         *)

ExitRead ==
  /\ me.pc = "exit_read"
  /\ IF order["exit"].filled < me.qty THEN Stops ELSE Ask("exit_flat")
  /\ UNCHANGED <<broker, disk, counts>>

ExitFlat ==
  /\ me.pc = "exit_flat"
  /\ IF Position # 0 THEN Stops ELSE Ask("conclude")
  /\ UNCHANGED <<broker, disk, counts>>

\* Mutant: the outcome is written over the active record.
ConcludeWrongPath ==
  /\ me.pc = "conclude"
  /\ LET claim == IF Position = 0 THEN "FLAT" ELSE "OPEN"
     IN  Write(IF me.goal = "decision" THEN "decision" ELSE "active", claim)
  /\ UNCHANGED <<broker, disk, counts>>

Conclude ==
  /\ me.pc = "conclude"
  /\ LET claim == IF Position = 0 THEN "FLAT" ELSE "OPEN"
     IN  CASE me.goal = "decision" -> Write("decision", claim)
           [] me.goal = "anomaly" -> Write("outcome", claim)
           [] me.goal = "outcome" -> IF Position = 0 THEN Write("outcome", "FLAT") ELSE Stops
  /\ UNCHANGED <<broker, disk, counts>>

-----------------------------------------------------------------------------
(* run_session: reconcile_active every few seconds until the outcome.       *)

Monitor ==
  /\ me.pc = "monitor"
  /\ \/ file.active = "torn" /\ Stops
     \/ file.active = "whole" /\ file.outcome = "torn" /\ Stops
     \/ file.active = "whole" /\ file.outcome \in {"FLAT", "OPEN"} /\ Finishes
     \/ file.active = "whole" /\ file.outcome = "absent" /\ Ask("watch_stop")
     \/ forced /\ Stops                       \* the finite limit is reached
  /\ UNCHANGED <<broker, disk, counts>>

WatchStop ==
  /\ me.pc = "watch_stop"
  /\ Goes([me EXCEPT !.pc = "watch_position",
                     !.stop = IF Protects(order["stop"].status, order["stop"].qty)
                              THEN order["stop"].status
                              ELSE IF order["stop"].status \in Working THEN "touched"
                              ELSE "over"])
  /\ UNCHANGED <<broker, disk, counts>>

WatchPosition ==
  /\ me.pc = "watch_position"
  /\ \/ Position = 0 /\ Write("outcome", "FLAT")
     \/ /\ Position > 0
        /\ IF me.stop \in Passing /\ order["stop"].qty = Position /\ Position = activeQty
           THEN Ask("watch_clock")
           ELSE Close("anomaly", IF me.stop \in {"over", "done"} THEN "dead" ELSE "live")
  /\ UNCHANGED <<broker, disk, counts>>

\* Mutant: only the target closes the position, not the time.
WatchClockNoForcedFlat ==
  /\ me.pc = "watch_clock"
  /\ \/ Goes([me EXCEPT !.pc = "cancel", !.id = "stop", !.goal = "outcome"])
     \/ Goes([Started EXCEPT !.pc = "monitor"])
  /\ UNCHANGED <<broker, disk, counts>>

\* The target is reached, the session must be flat, or the position is working.
WatchClock ==
  /\ me.pc = "watch_clock"
  /\ \/ Goes([me EXCEPT !.pc = "cancel", !.id = "stop", !.goal = "outcome"])
     \/ ~forced /\ Goes([Started EXCEPT !.pc = "monitor"])
  /\ UNCHANGED <<broker, disk, counts>>

ExitPosition ==
  /\ me.pc = "exit_position"
  /\ \/ Position = 0 /\ Write("outcome", "FLAT")
     \/ Position > activeQty /\ Stops
     \/ Position > 0 /\ Position <= activeQty /\ Submit([me EXCEPT !.qty = Position], "exit")
  /\ UNCHANGED <<broker, disk, counts>>

(* _write_same_or_fail creates a file; a crash may leave a part of it.      *)
Save ==
  /\ me.pc = "save"
  /\ file' = [file EXCEPT ![me.doc] = me.text]
  /\ activeQty' = IF me.doc = "active" THEN me.qty ELSE activeQty
  /\ CASE me.doc = "intent" -> Ask("asset")
       [] me.doc = "active" -> Write("decision", "OPEN")
       [] me.doc = "decision" ->
            IF me.text = "OPEN" THEN Goes([Started EXCEPT !.pc = "monitor"]) ELSE Finishes
       [] me.doc = "outcome" -> Goes([Started EXCEPT !.pc = "monitor"])
  /\ UNCHANGED <<broker, counts>>

-----------------------------------------------------------------------------
(* Failures of a request, of the session, and of the service.               *)

Requests == {"asset", "find", "lost", "cancel", "settle", "entry_read", "position",
             "recover", "recover_account", "recover_stop", "stop_position",
             "close_position", "exit_read", "exit_flat", "conclude", "watch_stop",
             "watch_position", "watch_clock", "exit_position"}

\* Of the requests of a first pass, those of the stop are answered with an exit.
RequestFails ==
  /\ me.pc \in Requests /\ faults < MaxFaults /\ faults' = faults + 1
  /\ CASE me.pc \in {"find", "lost"} -> BrokerError
       [] me.pc = "stop_position" /\ ~me.recover ->
            Submit([me EXCEPT !.goal = "decision"], "exit")
       [] OTHER -> Stops
  /\ UNCHANGED <<broker, disk, restarts>>

MaybeTorn ==
  \/ UNCHANGED disk
  \/ me.pc = "save" /\ file' = [file EXCEPT ![me.doc] = "torn"] /\ UNCHANGED activeQty

SessionKilled ==
  /\ Alive /\ faults < MaxFaults /\ faults' = faults + 1
  /\ Stops /\ MaybeTorn
  /\ UNCHANGED <<broker, restarts>>

\* The supervisor claims the job, and finds the mutex taken or starts a session.
Launch ==
  /\ job = "PENDING"
  /\ IF Alive THEN job' = "FAILED" /\ UNCHANGED me ELSE job' = "RUNNING" /\ me' = Started
  /\ UNCHANGED <<broker, disk, orphan, counts>>

\* The receipt of a RUNNING paper job becomes PENDING when the service restarts.
ServiceRestarts ==
  /\ job = "RUNNING" /\ restarts < MaxRestarts /\ restarts' = restarts + 1
  /\ job' = "PENDING"
  /\ \/ orphan' = Alive /\ UNCHANGED <<me, disk>>
     \/ Alive /\ me' = Gone /\ orphan' = FALSE /\ MaybeTorn
  /\ UNCHANGED <<broker, faults>>

OperatorReruns ==
  /\ ~Alive /\ job = "FAILED" /\ restarts < MaxRestarts /\ restarts' = restarts + 1
  /\ me' = Started /\ orphan' = TRUE
  /\ UNCHANGED <<broker, disk, job, faults>>

-----------------------------------------------------------------------------
Init ==
  /\ order = [id \in Ids |-> NoOrder] /\ late = [id \in Ids |-> 0] /\ forced = FALSE
  /\ file = [intent |-> "absent", active |-> "absent", decision |-> "absent", outcome |-> "absent"]
  /\ activeQty = 0 /\ me = Gone
  /\ job = "PENDING" /\ orphan = FALSE /\ faults = 0 /\ restarts = 0 /\ slow = FALSE

SessionStep ==
  \/ Load \/ Asset \/ Find \/ Post \/ PostRefused \/ Lost
  \/ Cancel \/ Delete \/ Settle \/ EntryRead \/ PositionFirst \/ PositionRecovered
  \/ Recover \/ RecoverAccount \/ PostFillRisk
  \/ RecoverStop \/ StopCheck \/ StopPosition \/ ClosePosition
  \/ ExitRead \/ ExitFlat \/ Conclude
  \/ Monitor \/ WatchStop \/ WatchPosition \/ WatchClock \/ ExitPosition \/ Save

BrokerStep ==
  \/ \E id \in Ids : Fill(id) \/ Die(id) \/ CancelSettles(id) \/ Arrives(id)
  \/ DayEnds

Failure == PostUnanswered \/ RequestFails \/ SessionKilled \/ ServiceRestarts \/ OperatorReruns

Next == SessionStep \/ BrokerStep \/ Failure \/ Launch

Spec == Init /\ [][Next]_vars

FairSpec == Spec /\ WF_vars(SessionStep) /\ WF_vars(Launch) /\ WF_vars(DayEnds)

-----------------------------------------------------------------------------
Statuses == {"none"} \cup Working \cup Terminal
Locations == Requests \cup {"gone", "load", "post", "delete", "risk", "stop_check", "monitor", "save"}

\* Types, and the broker never holds fewer than no shares.
TypeOK ==
  /\ order \in [Ids -> [status : Statuses, qty : 0 .. MaxQty, filled : 0 .. MaxQty]]
  /\ late \in [Ids -> 0 .. MaxQty] /\ forced \in BOOLEAN
  /\ file.intent \in {"absent", "torn", "whole"} /\ file.active \in {"absent", "torn", "whole"}
  /\ file.decision \in {"absent", "torn", "NO_TRADE", "FLAT", "OPEN"}
  /\ file.outcome \in {"absent", "torn", "FLAT", "OPEN"}
  /\ activeQty \in 0 .. MaxQty
  /\ me.pc \in Locations /\ me.id \in Ids /\ me.qty \in 0 .. MaxQty /\ me.entry \in 0 .. MaxQty
  /\ job \in {"PENDING", "RUNNING", "COMPLETED", "FAILED"} /\ orphan \in BOOLEAN
  /\ Position \in 0 .. MaxQty

\* A record that says no trade, or flat, stays true: whatever was restarted,
\* orphaned or half filled when it was written, the broker holds no share of
\* the cycle, unless an order was filled after the session's last poll of it, or
\* a submission arrived that the session had given up.
FlatClaimsHold ==
  ~slow /\ (file.decision \in {"NO_TRADE", "FLAT"} \/ file.outcome = "FLAT") => Position = 0

\* The supervisor reports the job COMPLETED, which ends its supervision for
\* good, only when the position is flat.
CompletedIsFlat == ~slow /\ job = "COMPLETED" => Position = 0

\* The record the monitor works from names a stop for exactly the shares it
\* states, and never more shares than the entry bought.
ActiveIsCovered ==
  file.active = "whole" =>
    /\ order["stop"].qty = activeQty /\ activeQty > 0
    /\ activeQty <= order["entry"].filled

\* The session is killed by a restart of the service, relaunched or orphaned in
\* the middle of anything, and still a position is closed, unless the session
\* gave up with exit code 1 or an order moved after the session's last look at it.
PositionIsManaged == Position > 0 ~> (Position = 0 \/ (~Alive /\ job = "FAILED") \/ slow)

\* The four files and the position, to a reader who knows nothing of sessions,
\* requests and restarts.
Cycle == INSTANCE TradeRecord WITH
  held      <- Position,
  intent    <- file.intent,
  active    <- file.active,
  decision  <- file.decision,
  outcome   <- file.outcome,
  stated    <- IF file.active = "whole" THEN activeQty ELSE 0,
  completed <- job = "COMPLETED",
  disturbed <- slow

\* Whoever is killed, relaunched or orphaned, the cycle keeps one record of its
\* position: the intent is on file before a share is bought, no file is written
\* twice (_write_same_or_fail is never asked to overwrite), nothing is bought
\* once the active record or the decision is there, and what they say stays true.
ImplementsTradeRecord == Cycle!Spec
=============================================================================
