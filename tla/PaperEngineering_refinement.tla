--------------------- MODULE PaperEngineering_refinement ---------------------
(***************************************************************************)
(* The four files of a decision cycle are one record of its position        *)
(* (module TradeRecord), for any quantity and any number of faults, kills   *)
(* and restarts.                                                            *)
(*                                                                         *)
(* A session is entering or leaving.  While it enters, the intent is whole  *)
(* and there is no decision; while it leaves, the decision says open and    *)
(* there is no outcome (StageOk).  So a file is always written where none   *)
(* was, and only the order of the writes has to be followed.  What the      *)
(* files say of the position comes from the invariant of                    *)
(* PaperEngineering_proofs, here with the files a crash left torn.          *)
(***************************************************************************)
EXTENDS PaperEngineering_proofs

-----------------------------------------------------------------------------
(* The inductive invariant.                                                 *)

Opening == {"asset", "entry_read", "position", "recover", "recover_account",
            "risk", "recover_stop", "stop_check", "stop_position"}
Closing == {"close_position", "exit_read", "exit_flat", "conclude"}

\* The session works towards the decision,
Enters(pc, id, goal) ==
  \/ pc \in Opening
  \/ pc \in Submitting /\ id # "exit"
  \/ pc \in Canceling /\ id = "entry"
  \/ pc \in Closing \cup Submitting \cup Canceling /\ goal = "decision"

\* or towards the outcome.
Leaves(pc, id, goal) ==
  \/ pc \in Watching
  \/ pc = "exit_position"
  \/ pc \in Closing /\ goal # "decision"
  \/ pc \in Submitting /\ id = "exit" /\ goal # "decision"
  \/ pc \in Canceling /\ id = "stop" /\ goal # "decision"

Undecided == file.intent = "whole" /\ file.decision = "absent"
InTrade == file.decision = "OPEN" /\ file.active = "whole" /\ file.outcome = "absent"
Within(q) == slow \/ Position <= q

\* The file about to be written is not there, and it is its turn.
Due(doc, text, q) ==
  \/ doc = "intent" /\ file.intent = "absent" /\ file.decision = "absent"
  \/ doc = "active" /\ file.active = "absent" /\ Undecided /\ Within(q)
  \/ doc = "decision" /\ file.decision = "absent" /\ text = "NO_TRADE"
  \/ doc = "decision" /\ Undecided /\ text = "FLAT"
  \/ doc = "decision" /\ Undecided /\ text = "OPEN" /\ (slow \/ file.active = "whole")
  \/ doc = "outcome" /\ InTrade

StageOk(m) ==
  /\ Enters(m.pc, m.id, m.goal) => Undecided
  /\ Leaves(m.pc, m.id, m.goal) => InTrade
  /\ m.pc = "monitor" => file.decision = "OPEN"
  /\ m.pc = "exit_position" => m.goal = "outcome"
  /\ m.pc = "save" => Due(m.doc, m.text, m.qty)

\* Nothing is ordered before the intent, nothing more is bought once the active
\* record or the decision was begun, and the record states what is held.
Intended == Placed("entry") \/ late["entry"] > 0 => file.intent = "whole"
Shut ==
  /\ file.active # "absent" => EntryOver
  /\ file.decision # "absent" => EntryDead
Stated == file.active = "whole" => Within(activeQty)
OpenHasRecord == file.decision = "OPEN" => slow \/ file.active = "whole"

FilesInv == Cycle!Ordered /\ Intended /\ Shut /\ Stated /\ OpenHasRecord

RInv == FilesInv /\ StageOk(me)

\* A step taken under both invariants, and what it is to show.
Known == IInv /\ IInv' /\ RInv
Follows == RInv' /\ [Cycle!Next]_(Cycle!vars)

-----------------------------------------------------------------------------
(* From a step of the cycle to a step of its record.                        *)

LEMMA SoundNext == ASSUME IInv', FilesInv' PROVE Cycle!Sound'
<1>1. Position' \in Nat
  <2>1. \A id \in Ids : order'[id].filled \in Nat
    BY DEF IInv, TypeInv, BrokerOrder
  <2> QED BY <2>1 DEF IInv, Rest, OrdersInv, Position, Ids
<1>2. Cycle!Ordered'
  BY DEF FilesInv
<1>3. ~slow' => (file'.decision \in {"NO_TRADE", "FLAT"} \/ file'.outcome = "FLAT"
                 \/ job' = "COMPLETED" => Position' = 0)
  BY DEF IInv, Rest, DiskInv, JobInv, Flat
<1>4. ~slow' => file'.outcome # "OPEN"
  BY DEF IInv, Rest, DiskInv
<1>5. Cycle!Truthful'
  BY <1>3, <1>4 DEF Cycle!Truthful, Cycle!Nothing, FilesInv, Stated, OpenHasRecord, Within
<1> QED BY <1>1, <1>2, <1>5 DEF Cycle!Sound

\* Files and orders stay: the record stutters, or the job is completed.
LEMMA Quiet ==
  ASSUME Known, UNCHANGED <<broker, disk>>, StageOk(me)',
         job = "COMPLETED" => job' = "COMPLETED",
         job' = "COMPLETED" =>
           \/ job = "COMPLETED"
           \/ file.decision \in {"NO_TRADE", "FLAT"} \/ file.outcome \in {"FLAT", "OPEN"}
  PROVE  Follows
<1>1. FilesInv'
  <2>1. Cycle!Ordered'
    BY DEF Known, RInv, FilesInv, Cycle!Ordered, broker, disk
  <2> QED BY <2>1 DEF Known, RInv, FilesInv, Intended, Shut, Stated, OpenHasRecord, Within,
     Placed, EntryDead, EntryOver, Position, broker, disk
<1>2. Cycle!Sound'
  BY <1>1, SoundNext DEF Known
<1>3. Position' = Position /\ UNCHANGED <<file, activeQty, slow>>
  BY DEF broker, disk, Position
<1>4. [Cycle!Next]_(Cycle!vars)
  <2>1. CASE (job' = "COMPLETED") = (job = "COMPLETED")
    BY <1>3, <2>1 DEF Cycle!vars, Cycle!files
  <2>2. CASE job' = "COMPLETED" /\ job # "COMPLETED"
    BY <1>2, <1>3, <2>2 DEF Cycle!Next, Cycle!Complete, Cycle!files
  <2> QED BY <2>1, <2>2
<1> QED BY <1>1, <1>4 DEF Follows, Known, RInv

LEMMA GoesQuietly ==
  ASSUME Known, NEW m, Goes(m), StageOk(m), UNCHANGED <<broker, disk>>
  PROVE  Follows
<1>1. StageOk(me)'
  BY DEF Goes, StageOk, Due, Undecided, InTrade, Within, Position, Enters, Leaves, broker, disk
<1> QED BY <1>1, Quiet DEF Goes, service

LEMMA GoneStage == StageOk(Gone) /\ StageOk(Started) /\ StageOk(Gone)' /\ StageOk(Started)'
<1>1. Gone.pc = "gone" /\ Started.pc = "load"
  BY StartedType DEF Gone
<1> QED BY <1>1 DEF StageOk, Enters, Leaves, Opening, Closing, Submitting, Canceling, Watching

LEMMA EndsQuietly ==
  ASSUME Known, NEW status \in {"COMPLETED", "FAILED"}, Ends(status), Alive,
         status = "COMPLETED" =>
           file.decision \in {"NO_TRADE", "FLAT"} \/ file.outcome \in {"FLAT", "OPEN"},
         UNCHANGED <<broker, disk>>
  PROVE  Follows
<1>1. StageOk(me)'
  BY GoneStage DEF Ends, StageOk, Due, Undecided, InTrade, Within, Position
<1>2. job # "COMPLETED"
  BY DEF Known, IInv, Rest, JobInv
<1> QED BY <1>1, <1>2, Quiet DEF Ends

LEMMA StopsQuietly ==
  ASSUME Known, Stops, Alive, UNCHANGED <<broker, disk>> PROVE Follows
BY EndsQuietly DEF Stops

\* The session goes on, entering or leaving.
LEMMA EntersOn ==
  ASSUME NEW m, Enters(m.pc, m.id, m.goal), Undecided
  PROVE  StageOk(m) /\ m.pc # "save"
BY DEF StageOk, Enters, Leaves, Opening, Closing, Submitting, Canceling, Watching

LEMMA LeavesOn ==
  ASSUME NEW m, Leaves(m.pc, m.id, m.goal), InTrade, m.pc = "exit_position" => m.goal = "outcome"
  PROVE  StageOk(m) /\ m.pc # "save"
BY DEF StageOk, Enters, Leaves, Opening, Closing, Submitting, Canceling, Watching

LEMMA GoesEntering ==
  ASSUME Known, NEW m, Goes(m), Enters(m.pc, m.id, m.goal), Undecided, UNCHANGED <<broker, disk>>
  PROVE  Follows
BY EntersOn, GoesQuietly

LEMMA GoesLeaving ==
  ASSUME Known, NEW m, Goes(m), Leaves(m.pc, m.id, m.goal), InTrade,
         m.pc = "exit_position" => m.goal = "outcome", UNCHANGED <<broker, disk>>
  PROVE  Follows
BY LeavesOn, GoesQuietly

LEMMA AskKeeps ==
  ASSUME Known, NEW pc
  PROVE  /\ me \in Session
         /\ [me EXCEPT !.pc = pc].pc = pc
         /\ [me EXCEPT !.pc = pc].id = me.id
         /\ [me EXCEPT !.pc = pc].goal = me.goal
BY DEF Known, IInv, TypeInv, Session

LEMMA AsksEntering ==
  ASSUME Known, NEW pc, Ask(pc), Enters(pc, me.id, me.goal), Undecided, UNCHANGED <<broker, disk>>
  PROVE  Follows
<1> DEFINE m == [me EXCEPT !.pc = pc]
<1>1. m.pc = pc /\ m.id = me.id /\ m.goal = me.goal
  BY AskKeeps
<1>2. Goes(m)
  BY DEF Ask
<1> HIDE DEF m
<1> QED BY <1>1, <1>2, GoesEntering

LEMMA AsksLeaving ==
  ASSUME Known, NEW pc, Ask(pc), Leaves(pc, me.id, me.goal), InTrade,
         pc = "exit_position" => me.goal = "outcome", UNCHANGED <<broker, disk>>
  PROVE  Follows
<1> DEFINE m == [me EXCEPT !.pc = pc]
<1>1. m.pc = pc /\ m.id = me.id /\ m.goal = me.goal
  BY AskKeeps
<1>2. Goes(m)
  BY DEF Ask
<1> HIDE DEF m
<1> QED BY <1>1, <1>2, GoesLeaving

LEMMA SubmitsQuietly ==
  ASSUME Known, NEW m \in Session, NEW id \in Ids, Submit(m, id),
         IF id = "exit" /\ m.goal # "decision" THEN InTrade ELSE Undecided,
         UNCHANGED <<broker, disk>>
  PROVE  Follows
<1> DEFINE n == [m EXCEPT !.pc = "find", !.id = id]
<1>1. n.pc = "find" /\ n.id = id /\ n.goal = m.goal
  BY DEF Session
<1>2. Goes(n)
  BY DEF Submit
<1> HIDE DEF n
<1>3. CASE id = "exit" /\ m.goal # "decision"
  BY <1>1, <1>2, <1>3, GoesLeaving DEF Leaves, Submitting
<1>4. CASE id # "exit" \/ m.goal = "decision"
  BY <1>1, <1>2, <1>4, GoesEntering DEF Enters, Submitting
<1> QED BY <1>3, <1>4

LEMMA WritesQuietly ==
  ASSUME Known, NEW doc, NEW text, Write(doc, text), Due(doc, text, me.qty),
         UNCHANGED <<broker, disk>>
  PROVE  Follows
<1> DEFINE m == [me EXCEPT !.pc = "save", !.doc = doc, !.text = text]
<1>1. m.pc = "save" /\ m.doc = doc /\ m.text = text /\ m.qty = me.qty
  BY DEF Known, IInv, TypeInv, Session
<1>2. Goes(m)
  BY DEF Write
<1> HIDE DEF m
<1>3. StageOk(m)
  BY <1>1 DEF StageOk, Enters, Leaves, Opening, Closing, Submitting, Canceling, Watching
<1> QED BY <1>2, <1>3, GoesQuietly

LEMMA NoTradeQuietly ==
  ASSUME Known, NoTrade, file.decision = "absent", UNCHANGED <<broker, disk>>
  PROVE  Follows
BY WritesQuietly DEF NoTrade, Due

LEMMA BrokerErrorQuietly ==
  ASSUME Known, me.pc \in Submitting, BrokerError, UNCHANGED <<broker, disk>>
  PROVE  Follows
<1>1. Alive
  BY DEF Alive, Submitting
<1>2. CASE me.id = "stop"
  <2> DEFINE m == [me EXCEPT !.goal = "decision"]
  <2>1. m \in Session /\ m.goal = "decision"
    BY DEF Known, IInv, TypeInv, Session
  <2>2. Submit(m, "exit")
    BY <1>2 DEF BrokerError
  <2>3. Undecided
    BY <1>2 DEF Known, RInv, StageOk, Enters
  <2> HIDE DEF m
  <2> QED BY <2>1, <2>2, <2>3, SubmitsQuietly DEF Ids
<1>3. CASE me.id # "stop"
  BY <1>1, <1>3, StopsQuietly DEF BrokerError
<1> QED BY <1>2, <1>3

-----------------------------------------------------------------------------
(* The requests of the session, in the order of the module.                 *)

\* What the place of the session says of the files.
LEMMA Place ==
  ASSUME Known
  PROVE  /\ me \in Session /\ me.id \in Ids /\ me.goal \in {"decision", "anomaly", "outcome"}
         /\ Enters(me.pc, me.id, me.goal) => Undecided
         /\ Leaves(me.pc, me.id, me.goal) => InTrade
         /\ me.pc = "monitor" => file.decision = "OPEN"
         /\ me.pc = "exit_position" => me.goal = "outcome"
         /\ me.pc \in Canceling => me.id \in {"entry", "stop"}
BY DEF Known, RInv, StageOk, IInv, TypeInv, Session, Rest, SessionOk, EnterOk, Ids

LEMMA LoadFollows == ASSUME Known, Load PROVE Follows
<1> USE DEF Load
<1>1. Alive
  BY DEF Alive
<1>2. CASE Stops
  BY <1>1, <1>2, StopsQuietly
<1>3. CASE file.decision \in {"NO_TRADE", "FLAT"} /\ Finishes
  BY <1>1, <1>3, EndsQuietly DEF Finishes
<1>4. CASE file.decision = "OPEN" /\ Ask("monitor")
  <2> DEFINE m == [me EXCEPT !.pc = "monitor"]
  <2>1. m.pc = "monitor" /\ Goes(m)
    BY <1>4, AskKeeps DEF Ask
  <2>2. StageOk(m)
    BY <1>4, <2>1 DEF StageOk, Enters, Leaves, Opening, Closing, Submitting, Canceling, Watching
  <2> QED BY <2>1, <2>2, GoesQuietly
<1>5. CASE /\ file.decision = "absent" /\ file.intent = "whole"
           /\ Goes([me EXCEPT !.pc = "recover", !.recover = TRUE])
  <2> DEFINE m == [me EXCEPT !.pc = "recover", !.recover = TRUE]
  <2>1. m.pc = "recover"
    BY Place DEF Session
  <2> QED BY <1>5, <2>1, GoesEntering DEF Enters, Opening, Undecided
<1>6. CASE file.decision = "absent" /\ NoTrade
  BY <1>6, NoTradeQuietly
<1>7. CASE file.decision = "absent" /\ file.intent = "absent" /\ Write("intent", "whole")
  BY <1>7, WritesQuietly DEF Due
<1> QED BY <1>2, <1>3, <1>4, <1>5, <1>6, <1>7

LEMMA AssetFollows == ASSUME Known, Asset PROVE Follows
<1> USE DEF Asset
<1>1. Alive /\ me \in Session /\ Undecided
  BY Place DEF Alive, Enters, Opening
<1>2. CASE NoTrade
  BY <1>1, <1>2, NoTradeQuietly DEF Undecided
<1>3. CASE Stops
  BY <1>1, <1>3, StopsQuietly
<1>4. CASE Submit(me, "entry")
  BY <1>1, <1>4, SubmitsQuietly DEF Ids
<1> QED BY <1>2, <1>3, <1>4

\* Where the session goes on, by a request or past one, and writes nothing yet.
GoesTo(m) == Goes(m) /\ StageOk(m) /\ m.pc # "save"

LEMMA ResolvedStage ==
  ASSUME Known, me.pc \in Submitting, NEW status, Resolved(status)
  PROVE  \E m : GoesTo(m)
<1>1. CASE me.id = "entry"
  <2> DEFINE m == [me EXCEPT !.pc = "entry_read"]
  <2>1. Goes(m) /\ m.pc = "entry_read" /\ Undecided
    BY <1>1, Place, AskKeeps DEF Resolved, Ask, Enters
  <2> HIDE DEF m
  <2> QED BY <2>1, EntersOn DEF GoesTo, Enters, Opening
<1>2. CASE me.id = "stop"
  <2> DEFINE m == [me EXCEPT !.pc = "stop_check", !.stop = status]
  <2>1. Goes(m) /\ m.pc = "stop_check" /\ Undecided
    BY <1>2, Place DEF Resolved, Session, Enters
  <2> HIDE DEF m
  <2> QED BY <2>1, EntersOn DEF GoesTo, Enters, Opening
<1>3. CASE me.id = "exit"
  <2> DEFINE m == [me EXCEPT !.pc = "exit_read"]
  <2>1. Goes(m) /\ m.pc = "exit_read" /\ m.goal = me.goal
    BY <1>3, AskKeeps DEF Resolved, Ask
  <2>2. IF me.goal = "decision" THEN Undecided ELSE InTrade
    BY <1>3, Place DEF Enters, Leaves
  <2> HIDE DEF m
  <2> QED BY <2>1, <2>2, EntersOn, LeavesOn DEF GoesTo, Enters, Leaves, Closing
<1> QED BY <1>1, <1>2, <1>3, Place DEF Ids

LEMMA RecoveredFollows ==
  ASSUME Known, me.pc \in Submitting, Recovered, UNCHANGED <<broker, disk>>
  PROVE  Follows
<1>1. CASE BrokerError
  BY <1>1, BrokerErrorQuietly
<1>2. CASE Resolved(order[me.id].status)
  <2>1. PICK m : GoesTo(m)
    BY <1>2, ResolvedStage
  <2> QED BY <2>1, GoesQuietly DEF GoesTo
<1> QED BY <1>1, <1>2 DEF Recovered

\* Another request of the same submission, or of the same cancellation.
LEMMA AgainStage ==
  ASSUME Known, NEW pc, Ask(pc),
         \/ me.pc \in Submitting /\ pc \in Submitting
         \/ me.pc \in Canceling /\ pc \in Canceling
  PROVE  GoesTo([me EXCEPT !.pc = pc])
<1> DEFINE m == [me EXCEPT !.pc = pc]
<1>1. Goes(m) /\ m.pc = pc /\ m.id = me.id /\ m.goal = me.goal
  BY AskKeeps DEF Ask
<1> HIDE DEF m
<1>2. \/ Enters(pc, me.id, me.goal) /\ Enters(me.pc, me.id, me.goal)
      \/ Leaves(pc, me.id, me.goal) /\ Leaves(me.pc, me.id, me.goal)
  BY Place DEF Enters, Leaves, Ids
<1>3. pc # "exit_position"
  BY DEF Submitting, Canceling
<1>4. GoesTo(m)
  BY <1>1, <1>2, <1>3, Place, EntersOn, LeavesOn DEF GoesTo
<1> QED BY <1>4 DEF m

LEMMA AgainFollows ==
  ASSUME Known, NEW pc, Ask(pc), UNCHANGED <<broker, disk>>,
         \/ me.pc \in Submitting /\ pc \in Submitting
         \/ me.pc \in Canceling /\ pc \in Canceling
  PROVE  Follows
BY AgainStage, GoesQuietly DEF GoesTo

LEMMA FindFollows == ASSUME Known, Find PROVE Follows
BY AgainFollows, RecoveredFollows DEF Find, Submitting

LEMMA PostRefusedFollows == ASSUME Known, PostRefused PROVE Follows
BY AgainFollows DEF PostRefused, Submitting

LEMMA LostFollows == ASSUME Known, Lost PROVE Follows
BY BrokerErrorQuietly, RecoveredFollows DEF Lost, Submitting

LEMMA SettledFollows ==
  ASSUME Known, me.pc \in Canceling, NEW status, Settled(status), UNCHANGED <<broker, disk>>
  PROVE  Follows
<1>1. Alive /\ me.id \in {"entry", "stop"}
  BY Place DEF Alive, Canceling
<1>2. CASE me.id = "entry"
  <2> DEFINE m == [me EXCEPT !.pc = "position", !.entry = order["entry"].filled]
  <2>1. Goes(m)
    BY <1>2 DEF Settled
  <2>2. m.pc = "position" /\ Undecided
    BY <1>2, Place DEF Session, Enters
  <2> HIDE DEF m
  <2> QED BY <2>1, <2>2, GoesEntering DEF Enters, Opening
<1>3. CASE me.id = "stop" /\ me.goal = "outcome"
  <2>1. Ask("exit_position") /\ InTrade
    BY <1>3, Place DEF Settled, Leaves
  <2> QED BY <1>3, <2>1, AsksLeaving DEF Leaves
<1>4. CASE me.id = "stop" /\ me.goal # "outcome"
  <2>1. CASE Stops
    BY <1>1, <2>1, StopsQuietly
  <2>2. CASE Ask("close_position") /\ me.goal = "decision"
    <3>1. Undecided
      BY <2>2, Place DEF Enters
    <3> QED BY <2>2, <3>1, AsksEntering DEF Enters, Closing
  <2>3. CASE Ask("close_position") /\ me.goal # "decision"
    <3>1. InTrade
      BY <1>4, <2>3, Place DEF Leaves
    <3> QED BY <2>3, <3>1, AsksLeaving DEF Leaves, Closing
  <2> QED BY <1>4, <2>1, <2>2, <2>3 DEF Settled
<1> QED BY <1>1, <1>2, <1>3, <1>4

LEMMA CancelFollows == ASSUME Known, Cancel PROVE Follows
BY SettledFollows, AgainFollows DEF Cancel, Canceling

LEMMA EntryReadFollows == ASSUME Known, EntryRead PROVE Follows
<1> USE DEF EntryRead
<1>1. me \in Session /\ Undecided
  BY Place DEF Enters, Opening
<1>2. CASE Goes([me EXCEPT !.pc = "position", !.entry = order["entry"].filled])
  <2> DEFINE m == [me EXCEPT !.pc = "position", !.entry = order["entry"].filled]
  <2>1. m.pc = "position"
    BY <1>1 DEF Session
  <2> QED BY <1>1, <1>2, <2>1, GoesEntering DEF Enters, Opening
<1>3. CASE Goes([me EXCEPT !.pc = "cancel", !.id = "entry"])
  <2> DEFINE m == [me EXCEPT !.pc = "cancel", !.id = "entry"]
  <2>1. m.pc = "cancel" /\ m.id = "entry"
    BY <1>1 DEF Session
  <2> QED BY <1>1, <1>3, <2>1, GoesEntering DEF Enters, Canceling
<1> QED BY <1>2, <1>3

LEMMA RiskFollows ==
  ASSUME Known, Risk, Undecided, UNCHANGED <<broker, disk>> PROVE Follows
<1> DEFINE m == [me EXCEPT !.pc = "risk", !.qty = Position]
<1>1. m.pc = "risk"
  BY Place DEF Session
<1> QED BY <1>1, GoesEntering DEF Risk, Enters, Opening

LEMMA PositionFollows == ASSUME Known, PositionFirst \/ PositionRecovered PROVE Follows
<1> USE DEF PositionFirst, PositionRecovered
<1>1. Alive /\ Undecided /\ UNCHANGED <<broker, disk>>
  BY Place DEF Alive, Enters, Opening
<1>2. CASE NoTrade
  BY <1>1, <1>2, NoTradeQuietly DEF Undecided
<1>3. CASE Write("decision", "FLAT")
  BY <1>1, <1>3, WritesQuietly DEF Due
<1>4. CASE Risk
  BY <1>1, <1>4, RiskFollows
<1>5. CASE Stops
  BY <1>1, <1>5, StopsQuietly
<1> QED BY <1>2, <1>3, <1>4, <1>5

LEMMA RecoverFollows == ASSUME Known, Recover PROVE Follows
<1>1. Undecided
  BY Place DEF Recover, Enters, Opening
<1> QED BY <1>1, AsksEntering DEF Recover, Enters, Opening

LEMMA RecoverAccountFollows == ASSUME Known, RecoverAccount PROVE Follows
<1>1. Alive /\ Undecided
  BY Place DEF RecoverAccount, Alive, Enters, Opening
<1> QED BY <1>1, NoTradeQuietly, StopsQuietly DEF RecoverAccount, Undecided

\* An exit that belongs to the decision.
LEMMA ExitForDecision ==
  ASSUME Known, Undecided, Submit([me EXCEPT !.goal = "decision"], "exit"), UNCHANGED <<broker, disk>>
  PROVE  Follows
<1> DEFINE m == [me EXCEPT !.goal = "decision"]
<1>1. m \in Session /\ m.goal = "decision"
  BY Place DEF Session
<1> QED BY <1>1, SubmitsQuietly DEF Ids

LEMMA PostFillRiskFollows == ASSUME Known, PostFillRisk PROVE Follows
<1> USE DEF PostFillRisk
<1>1. me \in Session /\ Undecided
  BY Place DEF Enters, Opening
<1>2. CASE Submit([me EXCEPT !.goal = "decision"], "exit")
  BY <1>1, <1>2, ExitForDecision
<1>3. CASE Submit(me, "stop")
  BY <1>1, <1>3, SubmitsQuietly DEF Ids
<1>4. CASE Ask("recover_stop")
  BY <1>1, <1>4, AsksEntering DEF Enters, Opening
<1> QED BY <1>2, <1>3, <1>4

-----------------------------------------------------------------------------
(* The protective stop, the closing, and the monitor.                       *)

LEMMA CloseFollows ==
  ASSUME Known, NEW goal, NEW status, Close(goal, status),
         IF goal = "decision" THEN Undecided ELSE InTrade, UNCHANGED <<broker, disk>>
  PROVE  Follows
<1> DEFINE pc == IF status \in Working THEN "cancel" ELSE "close_position"
           m == [me EXCEPT !.goal = goal, !.stop = status, !.id = "stop", !.pc = pc]
<1>1. m.pc \in {"cancel", "close_position"} /\ m.goal = goal /\ m.id = "stop"
  BY Place DEF Session
<1>2. Goes(m)
  BY DEF Close
<1> HIDE DEF m
<1>3. CASE goal = "decision"
  BY <1>1, <1>2, <1>3, GoesEntering DEF Enters, Closing, Canceling
<1>4. CASE goal # "decision"
  BY <1>1, <1>2, <1>4, GoesLeaving DEF Leaves, Closing, Canceling
<1> QED BY <1>3, <1>4

LEMMA RecoverStopFollows == ASSUME Known, RecoverStop PROVE Follows
<1> USE DEF RecoverStop
<1>1. me \in Session /\ Undecided
  BY Place DEF Enters, Opening
<1>2. CASE Submit(me, "stop")
  BY <1>1, <1>2, SubmitsQuietly DEF Ids
<1>3. CASE Goes([me EXCEPT !.pc = "stop_check", !.stop = order["stop"].status])
  <2> DEFINE m == [me EXCEPT !.pc = "stop_check", !.stop = order["stop"].status]
  <2>1. m.pc = "stop_check"
    BY <1>1 DEF Session
  <2> QED BY <1>1, <1>3, <2>1, GoesEntering DEF Enters, Opening
<1> QED BY <1>2, <1>3

LEMMA StopCheckFollows == ASSUME Known, StopCheck PROVE Follows
<1>1. Undecided
  BY Place DEF StopCheck, Enters, Opening
<1>2. CASE Ask("stop_position")
  BY <1>1, <1>2, AsksEntering DEF StopCheck, Enters, Opening
<1>3. CASE Close("decision", me.stop)
  BY <1>1, <1>3, CloseFollows DEF StopCheck
<1> QED BY <1>2, <1>3 DEF StopCheck

LEMMA StopPositionFollows == ASSUME Known, StopPosition PROVE Follows
<1> USE DEF StopPosition
<1>1. Alive /\ Undecided
  BY Place DEF Alive, Enters, Opening
<1>2. CASE Close("decision", me.stop)
  BY <1>1, <1>2, CloseFollows
<1>3. CASE Position = me.qty /\ file.active = "absent" /\ Write("active", "whole")
  <2>1. Within(me.qty)
    BY <1>3, PositionType DEF Within, Known
  <2> QED BY <1>1, <1>3, <2>1, WritesQuietly DEF Due
<1>4. CASE file.active = "whole" /\ Write("decision", "OPEN")
  BY <1>1, <1>4, WritesQuietly DEF Due
<1>5. CASE Stops
  BY <1>1, <1>5, StopsQuietly
<1> QED BY <1>2, <1>3, <1>4, <1>5

LEMMA ClosePositionFollows == ASSUME Known, ClosePosition PROVE Follows
<1> USE DEF ClosePosition
<1>1. IF me.goal = "decision" THEN Undecided ELSE InTrade
  BY Place DEF Enters, Leaves, Closing
<1>2. CASE Position = 0
  BY <1>1, <1>2, WritesQuietly DEF Due
<1>3. CASE Submit([me EXCEPT !.qty = Position], "exit")
  <2> DEFINE m == [me EXCEPT !.qty = Position]
  <2>1. m \in Session /\ m.goal = me.goal
    BY Place, PositionType DEF Session, Known
  <2> HIDE DEF m
  <2>2. Submit(m, "exit")
    BY <1>3 DEF m
  <2> QED BY <1>1, <2>1, <2>2, SubmitsQuietly DEF Ids
<1> QED BY <1>2, <1>3

\* The exit goes on to its next look, or the session gives up.
LEMMA ExitFollows == ASSUME Known, ExitRead \/ ExitFlat PROVE Follows
<1>1. /\ Alive /\ UNCHANGED <<broker, disk>>
      /\ IF me.goal = "decision" THEN Undecided ELSE InTrade
      /\ Stops \/ \E pc \in {"exit_flat", "conclude"} : Ask(pc)
  BY Place DEF ExitRead, ExitFlat, Alive, Enters, Leaves, Closing
<1>2. CASE Stops
  BY <1>1, <1>2, StopsQuietly
<1>3. ASSUME NEW pc \in {"exit_flat", "conclude"}, Ask(pc) PROVE Follows
  <2>1. CASE me.goal = "decision"
    BY <1>1, <1>3, <2>1, AsksEntering DEF Enters, Closing
  <2>2. CASE me.goal # "decision"
    BY <1>1, <1>3, <2>2, AsksLeaving DEF Leaves, Closing
  <2> QED BY <2>1, <2>2
<1> QED BY <1>1, <1>2, <1>3

LEMMA ConcludeFollows == ASSUME Known, Conclude PROVE Follows
<1> USE DEF Conclude
<1>1. /\ Alive /\ me.goal \in {"decision", "anomaly", "outcome"}
      /\ IF me.goal = "decision" THEN Undecided ELSE InTrade
  BY Place DEF Alive, Enters, Leaves, Closing
<1>2. Position # 0 => slow
  BY DEF Known, IInv, Rest, SessionOk, HoldOk, Flat
<1>3. CASE me.goal = "decision"
  <2>1. CASE Position = 0 /\ Write("decision", "FLAT")
    BY <1>1, <1>3, <2>1, WritesQuietly DEF Due
  <2>2. CASE Position # 0 /\ Write("decision", "OPEN")
    BY <1>1, <1>2, <1>3, <2>2, WritesQuietly DEF Due
  <2> QED BY <1>3, <2>1, <2>2
<1>4. CASE me.goal # "decision"
  <2>1. ASSUME NEW text, Write("outcome", text) PROVE Follows
    BY <1>1, <1>4, <2>1, WritesQuietly DEF Due
  <2>2. CASE Stops
    BY <1>1, <2>2, StopsQuietly
  <2> QED BY <1>1, <1>4, <2>1, <2>2
<1> QED BY <1>3, <1>4

LEMMA MonitorFollows == ASSUME Known, Monitor PROVE Follows
<1> USE DEF Monitor
<1>1. Alive /\ file.decision = "OPEN"
  BY Place DEF Alive
<1>2. CASE Stops
  BY <1>1, <1>2, StopsQuietly
<1>3. CASE file.outcome \in {"FLAT", "OPEN"} /\ Finishes
  BY <1>1, <1>3, EndsQuietly DEF Finishes
<1>4. CASE file.active = "whole" /\ file.outcome = "absent" /\ Ask("watch_stop")
  BY <1>1, <1>4, AsksLeaving DEF Leaves, Watching, InTrade
<1> QED BY <1>2, <1>3, <1>4

LEMMA WatchStopFollows == ASSUME Known, WatchStop PROVE Follows
<1>1. InTrade
  BY Place DEF WatchStop, Leaves, Watching
<1>2. PICK s : Goes([me EXCEPT !.pc = "watch_position", !.stop = s])
  BY DEF WatchStop
<1> DEFINE m == [me EXCEPT !.pc = "watch_position", !.stop = s]
<1>3. m.pc = "watch_position"
  BY Place DEF Session
<1> QED BY <1>1, <1>2, <1>3, GoesLeaving DEF WatchStop, Leaves, Watching

LEMMA WatchPositionFollows == ASSUME Known, WatchPosition PROVE Follows
<1> USE DEF WatchPosition
<1>1. InTrade
  BY Place DEF Leaves, Watching
<1>2. CASE Write("outcome", "FLAT")
  BY <1>1, <1>2, WritesQuietly DEF Due
<1>3. CASE Ask("watch_clock")
  BY <1>1, <1>3, AsksLeaving DEF Leaves, Watching
<1>4. CASE Close("anomaly", IF me.stop \in {"over", "done"} THEN "dead" ELSE "live")
  BY <1>1, <1>4, CloseFollows
<1> QED BY <1>2, <1>3, <1>4

LEMMA MonitorsAgainStage ==
  ASSUME file.decision = "OPEN" PROVE StageOk([Started EXCEPT !.pc = "monitor"])
<1> DEFINE m == [Started EXCEPT !.pc = "monitor"]
<1>1. m.pc = "monitor"
  BY StartedType DEF Session
<1> QED BY <1>1 DEF StageOk, Enters, Leaves, Opening, Closing, Submitting, Canceling, Watching

LEMMA WatchClockFollows == ASSUME Known, WatchClock PROVE Follows
<1> USE DEF WatchClock
<1>1. me \in Session /\ InTrade
  BY Place DEF Leaves, Watching
<1>2. CASE Goes([me EXCEPT !.pc = "cancel", !.id = "stop", !.goal = "outcome"])
  <2> DEFINE m == [me EXCEPT !.pc = "cancel", !.id = "stop", !.goal = "outcome"]
  <2>1. m.pc = "cancel" /\ m.id = "stop" /\ m.goal = "outcome"
    BY <1>1 DEF Session
  <2> QED BY <1>1, <1>2, <2>1, GoesLeaving DEF Leaves, Canceling
<1>3. CASE Goes([Started EXCEPT !.pc = "monitor"])
  BY <1>1, <1>3, MonitorsAgainStage, GoesQuietly DEF InTrade
<1> QED BY <1>2, <1>3

LEMMA ExitPositionFollows == ASSUME Known, ExitPosition PROVE Follows
<1> USE DEF ExitPosition
<1>1. Alive /\ InTrade /\ me.goal = "outcome"
  BY Place DEF Alive, Leaves
<1>2. CASE Write("outcome", "FLAT")
  BY <1>1, <1>2, WritesQuietly DEF Due
<1>3. CASE Stops
  BY <1>1, <1>3, StopsQuietly
<1>4. CASE Submit([me EXCEPT !.qty = Position], "exit")
  <2> DEFINE m == [me EXCEPT !.qty = Position]
  <2>1. m \in Session /\ m.goal = "outcome"
    BY <1>1, Place, PositionType DEF Session, Known
  <2> QED BY <1>1, <1>4, <2>1, SubmitsQuietly DEF Ids
<1> QED BY <1>2, <1>3, <1>4

LEMMA RequestFailsFollows == ASSUME Known, RequestFails PROVE Follows
<1> USE DEF RequestFails
<1>1. Alive
  BY DEF Alive, Requests
<1>2. CASE me.pc \in {"find", "lost"}
  BY <1>2, BrokerErrorQuietly DEF Submitting
<1>3. CASE me.pc = "stop_position" /\ Submit([me EXCEPT !.goal = "decision"], "exit")
  <2>1. Undecided
    BY <1>3, Place DEF Enters, Opening
  <2> QED BY <1>3, <2>1, ExitForDecision
<1>4. CASE Stops
  BY <1>1, <1>4, StopsQuietly
<1> QED BY <1>2, <1>3, <1>4

\* A session that starts has no place yet.
LEMMA StartsQuietly ==
  ASSUME Known, me' \in {me, Started}, UNCHANGED <<broker, disk>>,
         job # "COMPLETED", job' # "COMPLETED"
  PROVE  Follows
<1>1. StageOk(me)'
  <2>1. CASE me' = me
    BY <2>1 DEF Known, RInv, StageOk, Due, Undecided, InTrade, Within, Position, broker, disk
  <2>2. CASE me' = Started
    BY <2>2, GoneStage DEF StageOk, Due, Undecided, InTrade, Within, Position
  <2> QED BY <2>1, <2>2
<1> QED BY <1>1, Quiet

LEMMA LaunchFollows == ASSUME Known, Launch PROVE Follows
BY StartsQuietly DEF Launch

LEMMA OperatorRerunsFollows == ASSUME Known, OperatorReruns PROVE Follows
BY StartsQuietly DEF OperatorReruns

-----------------------------------------------------------------------------
(* Steps that move an order.                                                *)

\* What is about to be written stays due when an order moves.
LEMMA StageMoves ==
  ASSUME Known, NEW m, StageOk(m), UNCHANGED disk, slow => slow',
         m.pc = "save" => m.qty \in Int /\ (EntryDead \/ m.doc # "active"),
         EntryDead => slow' \/ Position' <= Position
  PROVE  StageOk(m)'
<1>1. Position \in Int /\ Position' \in Int
  <2>1. \A id \in Ids : order[id].filled \in Int /\ order'[id].filled \in Int
    BY DEF Known, IInv, TypeInv, BrokerOrder
  <2> QED BY <2>1 DEF Position, Ids
<1>2. ASSUME m.pc = "save", Due(m.doc, m.text, m.qty) PROVE Due(m.doc, m.text, m.qty)'
  <2>1. m.doc = "active" => Within(m.qty)
    BY <1>2 DEF Due
  <2>2. m.doc = "active" => Within(m.qty)'
    BY <1>1, <1>2, <2>1 DEF Within
  <2> QED BY <1>2, <2>2 DEF Due, Undecided, InTrade, disk
<1> QED BY <1>2 DEF StageOk, Undecided, InTrade, disk

\* Where the session is, or the place without a memory it was killed to.
LEMMA MeStage ==
  ASSUME Known, UNCHANGED disk, slow => slow',
         EntryDead => slow' \/ Position' <= Position,
         me' \in {me, Gone} \/ \E m : me' = m /\ StageOk(m) /\ m.pc # "save"
  PROVE  StageOk(me)'
<1>1. CASE me' = me
  <2>1. me.pc = "save" => me.qty \in Int /\ (EntryDead \/ me.doc # "active")
    BY Place DEF Known, IInv, Rest, SessionOk, SaveOk, EntryOver, Session
  <2>2. StageOk(me)
    BY DEF Known, RInv
  <2>3. PICK m : m = me
    OBVIOUS
  <2>4. StageOk(m)'
    BY <2>1, <2>2, <2>3, StageMoves
  <2> QED BY <1>1, <2>3, <2>4 DEF StageOk, Due, Undecided, InTrade, Within, Position
<1>2. CASE me' = Gone
  BY <1>2, GoneStage DEF StageOk, Due, Undecided, InTrade, Within, Position
<1>3. ASSUME NEW m, me' = m, StageOk(m), m.pc # "save" PROVE StageOk(me)'
  <2>1. StageOk(m)'
    BY <1>3, StageMoves
  <2> QED BY <1>3, <2>1 DEF StageOk, Due, Undecided, InTrade, Within, Position
<1> QED BY <1>1, <1>2, <1>3

LEMMA Moves ==
  ASSUME Known, UNCHANGED disk, slow => slow', Intended',
         me' \in {me, Gone} \/ \E m : me' = m /\ StageOk(m) /\ m.pc # "save",
         EntryOver => EntryOver',
         file.decision = "absent" \/ (EntryDead => EntryDead'),
         EntryDead => slow' \/ Position' <= Position,
         job' = "COMPLETED" <=> job = "COMPLETED",
         \/ Position' = Position
         \/ Position' = Position - 1
         \/ Position' = Position + 1 /\ file.intent = "whole"
  PROVE  Follows
<1>1. StageOk(me)'
  BY MeStage
<1>2. file' = file /\ activeQty' = activeQty /\ activeQty \in Int
  BY DEF disk, Known, IInv, TypeInv
<1>3. Position \in Int /\ Position' \in Int
  <2>1. \A id \in Ids : order[id].filled \in Int /\ order'[id].filled \in Int
    BY DEF Known, IInv, TypeInv, BrokerOrder
  <2> QED BY <2>1 DEF Position, Ids
<1>4. FilesInv'
  <2>1. FilesInv
    BY DEF Known, RInv
  <2>2. Cycle!Ordered'
    BY <1>2, <2>1 DEF FilesInv, Cycle!Ordered
  <2>3. Shut'
    BY <1>2, <2>1 DEF FilesInv, Shut
  <2>4. Stated'
    <3>1. file.active = "whole" => Within(activeQty) /\ EntryDead
      BY <2>1 DEF FilesInv, Stated, Shut, EntryOver
    <3> QED BY <1>2, <1>3, <3>1 DEF Stated, Within
  <2>5. OpenHasRecord'
    BY <1>2, <2>1 DEF FilesInv, OpenHasRecord
  <2> QED BY <2>2, <2>3, <2>4, <2>5 DEF FilesInv
<1>5. Cycle!Sound'
  BY <1>4, SoundNext DEF Known
<1>6. UNCHANGED <<Cycle!files, job = "COMPLETED">>
  BY <1>2 DEF Cycle!files
<1>7. Cycle!Buy \/ Cycle!Sell \/ Cycle!Disturb
  <2>1. CASE Position' = Position
    BY <1>6, <2>1 DEF Cycle!Disturb
  <2>2. CASE Position' = Position - 1
    BY <1>6, <2>2 DEF Cycle!Sell
  <2>3. CASE Position' = Position + 1 /\ file.intent = "whole"
    <3>1. Cycle!Written => EntryDead
      BY DEF Cycle!Written, Known, RInv, FilesInv, Shut, EntryOver
    <3>2. Cycle!Written => slow'
      BY <1>3, <2>3, <3>1
    <3> QED BY <1>6, <2>3, <3>2 DEF Cycle!Buy
  <2> QED BY <2>1, <2>2, <2>3
<1>8. Cycle!Next
  BY <1>5, <1>7 DEF Cycle!Next
<1> QED BY <1>1, <1>4, <1>8 DEF Follows, RInv

\* An order that was placed was placed under an intent.
LEMMA UnderIntent ==
  ASSUME Known, \A id \in Ids : Placed(id)' => Placed(id) \/ late[id] > 0 \/ file.intent = "whole",
         late'["entry"] > 0 => late["entry"] > 0 \/ file.intent = "whole", UNCHANGED disk
  PROVE  Intended'
BY DEF Known, RInv, FilesInv, Intended, disk, Ids

LEMMA FillFollows == ASSUME Known, NEW id \in Ids, Fill(id) PROVE Follows
<1> USE DEF Fill
<1>1. /\ order \in [Ids -> BrokerOrder] /\ order[id].status \in Working
      /\ \A k \in Ids : order[k].filled \in Int
  BY DEF Known, IInv, TypeInv, BrokerOrder
<1>2. /\ order'[id].filled = order[id].filled + 1
      /\ order'[id].status \in {"filled", order[id].status}
      /\ \A k \in Ids \ {id} : order'[k] = order[k]
  BY <1>1 DEF BrokerOrder
<1>3. Position' = IF id = "entry" THEN Position + 1 ELSE Position - 1
  <2>1. CASE id = "entry"
    BY <1>1, <1>2, <2>1 DEF Position, Ids
  <2>2. CASE id = "stop"
    BY <1>1, <1>2, <2>2 DEF Position, Ids
  <2>3. CASE id = "exit"
    BY <1>1, <1>2, <2>3 DEF Position, Ids
  <2> QED BY <2>1, <2>2, <2>3 DEF Ids
<1>4. Position \in Int
  BY <1>1 DEF Position, Ids
<1>5. Placed(id) /\ \A k \in Ids : Placed(k)' => Placed(k)
  BY <1>1, <1>2 DEF Placed, Working
<1>6. Intended'
  BY <1>5, UnderIntent
<1>7. id = "entry" => file.intent = "whole"
  BY <1>5 DEF Known, RInv, FilesInv, Intended
<1>8. (EntryOver => EntryOver') /\ (EntryDead => EntryDead')
  <2>1. slow => slow'
    OBVIOUS
  <2>2. CASE id = "entry"
    BY <1>1, <1>2, <2>1, <2>2 DEF EntryOver, EntryDead, Placed, Working
  <2>3. CASE id # "entry"
    BY <1>2, <2>1, <2>3 DEF EntryOver, EntryDead, Placed, Ids
  <2> QED BY <2>2, <2>3
<1>9. EntryDead => slow' \/ Position' <= Position
  <2>1. CASE id = "entry"
    BY <1>1, <2>1 DEF EntryDead, Working
  <2>2. CASE id # "entry"
    BY <1>3, <1>4, <2>2
  <2> QED BY <2>1, <2>2
<1>10. me' = me /\ job' = job /\ (slow => slow') /\ UNCHANGED disk
  BY DEF service
<1> QED BY <1>3, <1>6, <1>7, <1>8, <1>9, <1>10, Moves

\* An order that only changes its status.
LEMMA StatusFollows ==
  ASSUME Known, NEW id \in Ids, NEW s \in {"canceling", "left", "canceled", "dead", "done"},
         order[id].status \in Working, s = "canceling" => order[id].status # "left",
         s = "left" => order[id].status # "live", order' = [order EXCEPT ![id].status = s],
         UNCHANGED <<late, slow, disk>>, job' = "COMPLETED" <=> job = "COMPLETED",
         me' \in {me, Gone} \/ \E m : me' = m /\ StageOk(m) /\ m.pc # "save"
  PROVE  Follows
<1>1. Keeps /\ order \in [Ids -> BrokerOrder]
  BY StatusMoves DEF Known, IInv, TypeInv
<1>2. \A k \in Ids : order'[k].filled = order[k].filled
  BY <1>1 DEF BrokerOrder
<1>3. Position' = Position
  BY <1>2 DEF Position, Ids
<1>4. Placed(id) /\ \A k \in Ids : Placed(k)' => Placed(k)
  BY <1>1 DEF Placed, Working
<1>5. Intended'
  BY <1>4, UnderIntent
<1>6. (EntryOver => EntryOver') /\ (EntryDead => EntryDead')
  BY <1>1 DEF Keeps
<1>7. Position' <= Position
  <2>1. Position \in Int
    BY PositionType DEF Known
  <2> QED BY <1>3, <2>1
<1> QED BY <1>3, <1>5, <1>6, <1>7, Moves

LEMMA DieFollows == ASSUME Known, NEW id \in Ids, Die(id) PROVE Follows
<1>1. PICK s \in {"dead", "done"} : order' = [order EXCEPT ![id].status = s]
  BY DEF Die
<1> QED BY <1>1, StatusFollows DEF Die, Working, service

LEMMA CancelSettlesFollows == ASSUME Known, NEW id \in Ids, CancelSettles(id) PROVE Follows
BY StatusFollows DEF CancelSettles, Working, service

LEMMA DeleteFollows == ASSUME Known, Delete PROVE Follows
<1> USE DEF Delete
<1>1. Alive /\ me.id \in Ids /\ me.pc \in Canceling /\ job # "COMPLETED"
  BY Place DEF Alive, Canceling, Known, IInv, Rest, JobInv
<1>2. CASE order[me.id].status \in Terminal
  BY <1>1, <1>2, StopsQuietly DEF broker
<1>3. CASE order[me.id].status \notin Terminal
  <2>1. order[me.id].status \in Working
    BY <1>1, <1>3 DEF Known, IInv, Rest, TypeInv, BrokerOrder, Statuses, SessionOk, EnterOk, Placed
  <2>2. PICK s \in {"canceled", "canceling", "left"} :
          /\ order' = [order EXCEPT ![me.id].status = s]
          /\ s = "canceling" => order[me.id].status # "left"
          /\ s = "left" => order[me.id].status = "left"
    BY <1>3
  <2>3. CASE Ask("settle")
    <3>1. GoesTo([me EXCEPT !.pc = "settle"])
      BY <1>1, <2>3, AgainStage DEF Canceling
    <3>2. (\E m : me' = m /\ StageOk(m) /\ m.pc # "save") /\ job' = job
      BY <3>1 DEF GoesTo, Goes, service
    <3> QED BY <1>1, <2>1, <2>2, <3>2, StatusFollows
  <2>4. CASE Stops
    <3>1. me' = Gone /\ job' # "COMPLETED"
      BY <1>1, <2>4 DEF Stops, Ends
    <3> QED BY <1>1, <2>1, <2>2, <3>1, StatusFollows
  <2> QED BY <1>3, <2>3, <2>4
<1> QED BY <1>2, <1>3

LEMMA SettleFollows == ASSUME Known, Settle PROVE Follows
<1> USE DEF Settle
<1>1. /\ Alive /\ me.id \in {"entry", "stop"} /\ me.pc \in Canceling /\ job # "COMPLETED"
      /\ me \in Session /\ order \in [Ids -> BrokerOrder]
  BY Place DEF Alive, Canceling, Known, IInv, Rest, JobInv, TypeInv
<1>2. CASE order[me.id].status # "canceling"
  <2>1. order' = order
    BY <1>1, <1>2 DEF Ids, BrokerOrder
  <2> QED BY <1>1, <2>1, SettledFollows DEF broker
<1>3. CASE order[me.id].status = "canceling"
  <2>1. /\ me.id \in Ids /\ order' = [order EXCEPT ![me.id].status = "left"]
        /\ order[me.id].status \in Working
    BY <1>1, <1>3 DEF Ids, Working
  <2>2. ASSUME me' = Gone \/ \E m : me' = m /\ StageOk(m) /\ m.pc # "save", job' # "COMPLETED"
        PROVE  Follows
    BY <1>1, <1>3, <2>1, <2>2, StatusFollows
  <2>3. CASE me.id = "entry"
    <3> DEFINE m == [me EXCEPT !.pc = "position", !.entry = order["entry"].filled]
    <3>1. Goes(m)
      BY <2>3 DEF Settled
    <3>2. m.pc = "position" /\ Undecided
      BY <1>1, <2>3, Place DEF Enters
    <3> HIDE DEF m
    <3>3. StageOk(m) /\ m.pc # "save"
      BY <3>2, EntersOn DEF Enters, Opening
    <3> QED BY <1>1, <2>2, <3>1, <3>3 DEF Goes, service
  <2>4. CASE me.id = "stop" /\ me.goal = "outcome"
    <3> DEFINE m == [me EXCEPT !.pc = "exit_position"]
    <3>1. Goes(m) /\ InTrade
      BY <1>1, <2>4, Place DEF Settled, Leaves, Ask
    <3>2. m.pc = "exit_position" /\ m.goal = "outcome"
      BY <1>1, <2>4 DEF Session
    <3> HIDE DEF m
    <3>3. StageOk(m) /\ m.pc # "save"
      BY <3>1, <3>2, LeavesOn DEF Leaves
    <3> QED BY <1>1, <2>2, <3>1, <3>3 DEF Goes, service
  <2>5. CASE me.id = "stop" /\ me.goal # "outcome"
    BY <1>1, <1>3, <2>2, <2>5 DEF Settled, Stops, Ends
  <2> QED BY <1>1, <2>3, <2>4, <2>5
<1> QED BY <1>2, <1>3

\* An order that is placed.
LEMMA PlacedFollows ==
  ASSUME Known, NEW id \in Ids, NEW q \in 1 .. MaxQty, NEW s \in {"live", "dead"},
         order[id] = NoOrder, order' = [order EXCEPT ![id] = Order(s, q)],
         late'["entry"] > 0 => late["entry"] > 0 \/ file.intent = "whole",
         UNCHANGED disk, slow => slow', job' = job,
         id = "entry" => slow' \/ file.decision = "absent",
         id = "entry" => file.intent = "whole",
         me' = me \/ \E m : me' = m /\ StageOk(m) /\ m.pc # "save"
  PROVE  Follows
<1>1. /\ Position' = Position /\ ~Placed(id)
      /\ \A k \in Ids \ {id} : order'[k] = order[k]
  BY NewOrder DEF Known
<1>2. Intended'
  BY <1>1 DEF Known, RInv, FilesInv, Intended, Placed, disk, Ids
<1>3. (EntryOver => EntryOver') /\ (file.decision = "absent" \/ (EntryDead => EntryDead'))
  <2>1. CASE id = "entry"
    BY <1>1, <2>1 DEF EntryOver, EntryDead
  <2>2. CASE id # "entry"
    BY <1>1, <2>2 DEF EntryOver, EntryDead, Placed, Ids
  <2> QED BY <2>1, <2>2
<1>4. Position' <= Position
  <2>1. Position \in Int
    BY PositionType DEF Known
  <2> QED BY <1>1, <2>1
<1> QED BY <1>1, <1>2, <1>3, <1>4, Moves

\* No order changes.
LEMMA StillFollows ==
  ASSUME Known, UNCHANGED <<order, disk>>, slow => slow', job' = job,
         late'["entry"] > 0 => late["entry"] > 0 \/ file.intent = "whole",
         me' = me \/ \E m : me' = m /\ StageOk(m) /\ m.pc # "save"
  PROVE  Follows
<1>1. Position' = Position /\ Position \in Int
  BY PositionType DEF Position, Known
<1>2. Position' <= Position
  BY <1>1
<1>3. Intended' /\ (EntryOver => EntryOver') /\ (EntryDead => EntryDead')
  BY DEF Known, RInv, FilesInv, Intended, EntryOver, EntryDead, Placed, disk
<1> QED BY <1>1, <1>2, <1>3, Moves

LEMMA ArrivesFollows == ASSUME Known, NEW id \in Ids, Arrives(id) PROVE Follows
<1> USE DEF Arrives
<1>1. /\ late[id] \in 1 .. MaxQty /\ me' = me /\ job' = job /\ (slow => slow') /\ UNCHANGED disk
      /\ late'["entry"] > 0 => late["entry"] > 0
  BY DEF Known, IInv, TypeInv, service, Ids
<1>4. id = "entry" => slow' \/ file.decision = "absent"
  BY Place DEF Enters, Submitting, Undecided
<1>2. CASE order' = order
  BY <1>1, <1>2, StillFollows
<1>3. CASE Acceptable(id, late[id]) /\ order' = [order EXCEPT ![id] = Order("live", late[id])]
  <2>1. order[id] = NoOrder /\ (id = "entry" => file.intent = "whole")
    BY <1>1, <1>3 DEF Acceptable, Known, RInv, FilesInv, Intended
  <2> QED BY <1>1, <1>3, <1>4, <2>1, PlacedFollows
<1> QED BY <1>2, <1>3

LEMMA DayEndsFollows == ASSUME Known, DayEnds PROVE Follows
BY StillFollows DEF DayEnds, service

LEMMA PostFollows == ASSUME Known, Post PROVE Follows
<1> USE DEF Post
<1>1. /\ me.id \in Ids /\ Wanted \in 1 .. MaxQty /\ order[me.id] = NoOrder
      /\ me.id = "entry" => file.decision = "absent" /\ file.intent = "whole"
  BY PostUnplaced DEF Known
<1>2. PICK s \in {"live", "dead"} :
        order' = [order EXCEPT ![me.id] = Order(s, Wanted)] /\ Resolved(s)
  OBVIOUS
<1>3. PICK m : GoesTo(m)
  BY <1>2, ResolvedStage DEF Submitting
<1> QED BY <1>1, <1>2, <1>3, PlacedFollows DEF GoesTo, Goes, service

LEMMA PostUnansweredFollows == ASSUME Known, PostUnanswered PROVE Follows
<1> USE DEF PostUnanswered
<1>1. GoesTo([me EXCEPT !.pc = "lost"])
  BY AgainStage DEF Submitting
<1>2. PICK m : GoesTo(m)
  BY <1>1
<1>3. me' = m /\ StageOk(m) /\ m.pc # "save" /\ job' = job /\ UNCHANGED <<slow, disk>>
  BY <1>2 DEF GoesTo, Goes, service
<1>4. me.id \in Ids /\ (me.id = "entry" => file.intent = "whole")
  BY Place DEF Enters, Submitting, Undecided
<1>5. CASE /\ Acceptable(me.id, Wanted)
           /\ late' = late
           /\ order' = [order EXCEPT ![me.id] = Order("live", Wanted)]
  <2>1. /\ Wanted \in 1 .. MaxQty /\ order[me.id] = NoOrder
        /\ me.id = "entry" => file.decision = "absent"
    BY <1>5, PostUnplaced DEF Known
  <2>2. PICK s \in {"live", "dead"} : order' = [order EXCEPT ![me.id] = Order(s, Wanted)]
    BY <1>5
  <2>3. late'["entry"] > 0 => late["entry"] > 0 \/ file.intent = "whole"
    BY <1>5
  <2> HIDE DEF PostUnanswered
  <2> QED BY <1>3, <1>4, <2>1, <2>2, <2>3, PlacedFollows
<1>6. CASE late' = [late EXCEPT ![me.id] = Wanted] /\ order' = order
  <2>1. late'["entry"] > 0 => late["entry"] > 0 \/ file.intent = "whole"
    BY <1>4, <1>6 DEF Known, IInv, TypeInv
  <2> QED BY <1>3, <1>6, <2>1, StillFollows
<1>7. CASE UNCHANGED <<order, late>>
  BY <1>3, <1>7, StillFollows
<1> QED BY <1>5, <1>6, <1>7

-----------------------------------------------------------------------------
(* The writes, whole or torn.                                               *)

\* A file is created: by itself, or with the completion of the job.
LEMMA WrittenFollows ==
  ASSUME Known, NEW doc \in {"intent", "active", "decision", "outcome"}, NEW text,
         Due(doc, text, me.qty) \/ (text = "torn" /\ \E t : Due(doc, t, me.qty)),
         doc = "active" => EntryOver, doc = "decision" => EntryDead,
         doc \in {"intent", "active"} => text \in {"torn", "whole"},
         doc = "decision" => text \in {"torn", "NO_TRADE", "FLAT", "OPEN"},
         doc = "outcome" => text \in {"torn", "FLAT", "OPEN"},
         file' = [file EXCEPT ![doc] = text],
         activeQty' = IF doc = "active" /\ text = "whole" THEN me.qty ELSE activeQty,
         UNCHANGED broker, StageOk(me)',
         job # "COMPLETED",
         job' = "COMPLETED" => doc = "decision" /\ text \in {"NO_TRADE", "FLAT"}
  PROVE  Follows
<1>1. /\ file'.intent = IF doc = "intent" THEN text ELSE file.intent
      /\ file'.active = IF doc = "active" THEN text ELSE file.active
      /\ file'.decision = IF doc = "decision" THEN text ELSE file.decision
      /\ file'.outcome = IF doc = "outcome" THEN text ELSE file.outcome
  BY FileWritten DEF Known, IInv, TypeInv
<1>2. /\ Position' = Position /\ slow' = slow /\ (EntryDead' <=> EntryDead)
      /\ (EntryOver' <=> EntryOver) /\ late' = late /\ (Placed("entry")' <=> Placed("entry"))
  BY Unmoved DEF broker, Position, Ids
<1>3. FilesInv /\ Cycle!Ordered
  BY DEF Known, RInv, FilesInv
<1>4. CASE doc = "intent"
  <2>1. file.intent = "absent" /\ file.decision = "absent"
    BY <1>4 DEF Due
  <2>2. FilesInv'
    <3>1. activeQty' = activeQty
      BY <1>4
    <3>2. Cycle!Ordered'
      BY <1>1, <1>3, <1>4, <2>1 DEF Cycle!Ordered
    <3>3. Intended' /\ Shut' /\ Stated' /\ OpenHasRecord'
      BY <1>1, <1>2, <1>3, <1>4, <2>1, <3>1 DEF FilesInv, Intended, Shut, Stated, OpenHasRecord, Within
    <3> QED BY <3>2, <3>3 DEF FilesInv
  <2>3. Cycle!Intend
    BY <1>1, <1>2, <1>4, <2>1 DEF Cycle!Intend
  <2>4. Cycle!Next
    BY <1>2, <1>4, <2>2, <2>3, SoundNext DEF Cycle!Next, Known
  <2> QED BY <2>2, <2>4 DEF Follows, RInv
<1>5. CASE doc = "active"
  <2>1. file.active = "absent" /\ Undecided /\ Within(me.qty)
    BY <1>5 DEF Due
  <2>2. FilesInv'
    <3>1. Cycle!Ordered'
      BY <1>1, <1>3, <1>5, <2>1 DEF Cycle!Ordered, Undecided
    <3>2. Intended' /\ Shut' /\ OpenHasRecord'
      BY <1>1, <1>2, <1>3, <1>5, <2>1 DEF FilesInv, Intended, Shut, OpenHasRecord, Undecided
    <3>3. Stated'
      BY <1>1, <1>2, <1>5, <2>1 DEF Stated, Within
    <3> QED BY <3>1, <3>2, <3>3 DEF FilesInv
  <2>3. Cycle!Activate
    BY <1>1, <1>2, <1>5, <2>1 DEF Cycle!Activate, Undecided
  <2>4. Cycle!Next
    BY <1>2, <1>5, <2>2, <2>3, SoundNext DEF Cycle!Next, Known
  <2> QED BY <2>2, <2>4 DEF Follows, RInv
<1>6. CASE doc = "decision"
  <2>1. /\ file.decision = "absent"
        /\ text \in {"FLAT", "OPEN"} => file.intent = "whole"
        /\ text = "OPEN" => slow \/ file.active = "whole"
    BY <1>6 DEF Due, Undecided
  <2>2. FilesInv'
    <3>1. Cycle!Ordered'
      BY <1>1, <1>3, <1>6, <2>1 DEF Cycle!Ordered
    <3>2. Intended' /\ Shut' /\ OpenHasRecord' /\ Stated'
      BY <1>1, <1>2, <1>3, <1>6, <2>1 DEF FilesInv, Intended, Shut, OpenHasRecord, Stated, Within
    <3> QED BY <3>1, <3>2 DEF FilesInv
  <2>3. Cycle!Decide
    BY <1>1, <1>2, <1>6, <2>1 DEF Cycle!Decide
  <2>4. Cycle!Next
    BY <1>2, <2>2, <2>3, SoundNext DEF Cycle!Next, Known
  <2> QED BY <2>2, <2>4 DEF Follows, RInv
<1>7. CASE doc = "outcome"
  <2>1. InTrade
    BY <1>7 DEF Due
  <2>2. FilesInv'
    <3>1. Cycle!Ordered'
      BY <1>1, <1>3, <1>7, <2>1 DEF Cycle!Ordered, InTrade
    <3>2. Intended' /\ Shut' /\ OpenHasRecord' /\ Stated'
      BY <1>1, <1>2, <1>3, <1>7 DEF FilesInv, Intended, Shut, OpenHasRecord, Stated, Within
    <3> QED BY <3>1, <3>2 DEF FilesInv
  <2>3. Cycle!Conclude
    BY <1>1, <1>2, <1>7, <2>1 DEF Cycle!Conclude, InTrade
  <2>4. Cycle!Next
    BY <1>2, <1>7, <2>2, <2>3, SoundNext DEF Cycle!Next, Known
  <2> QED BY <2>2, <2>4 DEF Follows, RInv
<1> QED BY <1>4, <1>5, <1>6, <1>7

LEMMA Saving ==
  ASSUME Known, me.pc = "save"
  PROVE  /\ me \in Session /\ me.doc \in {"intent", "active", "decision", "outcome"}
         /\ Due(me.doc, me.text, me.qty)
         /\ me.doc = "active" => EntryOver
         /\ me.doc = "decision" => EntryDead
         /\ me.doc \in {"intent", "active"} => me.text = "whole"
         /\ me.doc = "decision" => me.text \in {"NO_TRADE", "FLAT", "OPEN"}
         /\ me.doc = "outcome" => me.text \in {"FLAT", "OPEN"}
         /\ job # "COMPLETED" /\ Alive
BY Place DEF Known, RInv, StageOk, IInv, Rest, SessionOk, SaveOk, EntryOver, JobInv, Alive

LEMMA SaveFollows == ASSUME Known, Save PROVE Follows
<1> USE DEF Save
<1>1. /\ me \in Session /\ me.doc \in {"intent", "active", "decision", "outcome"}
      /\ Due(me.doc, me.text, me.qty)
      /\ me.doc \in {"intent", "active"} => me.text = "whole"
      /\ me.doc = "decision" => me.text \in {"NO_TRADE", "FLAT", "OPEN"}
      /\ job # "COMPLETED"
  BY Saving
<1>2. PICK doc, text : doc = me.doc /\ text = me.text
  OBVIOUS
<1>3. /\ file'.intent = IF doc = "intent" THEN text ELSE file.intent
      /\ file'.active = IF doc = "active" THEN text ELSE file.active
      /\ file'.decision = IF doc = "decision" THEN text ELSE file.decision
      /\ file'.outcome = IF doc = "outcome" THEN text ELSE file.outcome
  BY <1>1, <1>2, FileWritten DEF Known, IInv, TypeInv
<1>4. StageOk(me)' /\ (job' = "COMPLETED" => doc = "decision" /\ text \in {"NO_TRADE", "FLAT"})
  <2>1. CASE doc = "intent"
    <3> DEFINE m == [me EXCEPT !.pc = "asset"]
    <3>1. me' = m /\ UNCHANGED service
      BY <1>2, <2>1 DEF Ask, Goes
    <3>2. m.pc = "asset"
      BY AskKeeps
    <3> HIDE DEF m
    <3>3. me'.pc = "asset"
      BY <3>1, <3>2
    <3>4. file'.intent = "whole" /\ file'.decision = "absent"
      BY <1>1, <1>2, <1>3, <2>1 DEF Due
    <3>5. StageOk(me)'
      BY <3>3, <3>4 DEF StageOk, Undecided, Leaves, Closing, Submitting, Canceling, Watching
    <3> QED BY <1>1, <3>1, <3>5 DEF service
  <2>2. CASE doc = "active"
    <3> DEFINE m == [me EXCEPT !.pc = "save", !.doc = "decision", !.text = "OPEN"]
    <3>1. me' = m /\ UNCHANGED service
      BY <1>2, <2>2 DEF Write, Goes
    <3>2. m.pc = "save" /\ m.doc = "decision" /\ m.text = "OPEN"
      BY <1>1 DEF Session
    <3> HIDE DEF m
    <3>3. me'.pc = "save" /\ me'.doc = "decision" /\ me'.text = "OPEN"
      BY <3>1, <3>2
    <3>4. file'.intent = "whole" /\ file'.decision = "absent" /\ file'.active = "whole"
      BY <1>1, <1>2, <1>3, <2>2 DEF Due, Undecided
    <3>5. Due(me.doc, me.text, me.qty)'
      BY <3>3, <3>4 DEF Due, Undecided
    <3>6. StageOk(me)'
      BY <3>3, <3>5 DEF StageOk, Enters, Leaves, Opening, Closing, Submitting, Canceling, Watching
    <3> QED BY <1>1, <3>1, <3>6 DEF service
  <2>3. CASE doc = "outcome" \/ (doc = "decision" /\ text = "OPEN")
    <3>1. me' = [Started EXCEPT !.pc = "monitor"] /\ UNCHANGED service
      BY <1>2, <2>3 DEF Goes
    <3>2. me'.pc = "monitor"
      BY <3>1, StartedType DEF Session
    <3>3. file'.decision = "OPEN"
      BY <1>1, <1>2, <1>3, <2>3 DEF Due, InTrade
    <3>4. StageOk(me)'
      BY <3>2, <3>3 DEF StageOk, Enters, Leaves, Opening, Closing, Submitting, Canceling, Watching
    <3> QED BY <1>1, <3>1, <3>4 DEF service
  <2>4. CASE doc = "decision" /\ text # "OPEN"
    <3>1. me' = Gone
      BY <1>2, <2>4 DEF Finishes, Ends
    <3>2. StageOk(me)'
      BY <3>1, GoneStage DEF StageOk, Due, Undecided, InTrade, Within, Position
    <3> QED BY <1>1, <1>2, <2>4, <3>2
  <2> QED BY <1>1, <1>2, <2>1, <2>2, <2>3, <2>4
<1>5. /\ file' = [file EXCEPT ![doc] = text] /\ UNCHANGED broker
      /\ activeQty' = IF doc = "active" /\ text = "whole" THEN me.qty ELSE activeQty
  BY <1>1, <1>2
<1> HIDE DEF Save
<1>6. /\ doc \in {"intent", "active", "decision", "outcome"} /\ Due(doc, text, me.qty)
      /\ (doc = "active" => EntryOver) /\ (doc = "decision" => EntryDead)
      /\ doc \in {"intent", "active"} => text \in {"torn", "whole"}
      /\ doc = "decision" => text \in {"torn", "NO_TRADE", "FLAT", "OPEN"}
      /\ doc = "outcome" => text \in {"torn", "FLAT", "OPEN"}
  BY <1>2, Saving DEF Save
<1> QED BY <1>1, <1>4, <1>5, <1>6, WrittenFollows

\* A killed session leaves its file absent, or torn for ever.
LEMMA KilledFollows ==
  ASSUME Known, Alive, MaybeTorn, me' = Gone, UNCHANGED broker, job' # "COMPLETED"
  PROVE  Follows
<1>1. StageOk(me)' /\ job # "COMPLETED"
  BY GoneStage DEF StageOk, Due, Undecided, InTrade, Within, Position, Known, IInv, Rest, JobInv
<1>2. CASE UNCHANGED disk
  BY <1>1, <1>2, Quiet
<1>3. CASE me.pc = "save" /\ file' = [file EXCEPT ![me.doc] = "torn"] /\ UNCHANGED activeQty
  <2>1. PICK doc, text : doc = me.doc /\ text = "torn"
    OBVIOUS
  <2>2. /\ doc \in {"intent", "active", "decision", "outcome"} /\ \E t : Due(doc, t, me.qty)
        /\ (doc = "active" => EntryOver) /\ (doc = "decision" => EntryDead)
    BY <1>3, <2>1, Saving
  <2>3. /\ file' = [file EXCEPT ![doc] = text]
        /\ activeQty' = IF doc = "active" /\ text = "whole" THEN me.qty ELSE activeQty
    BY <1>3, <2>1
  <2> QED BY <1>1, <2>1, <2>2, <2>3, WrittenFollows
<1> QED BY <1>2, <1>3 DEF MaybeTorn

LEMMA SessionKilledFollows == ASSUME Known, SessionKilled PROVE Follows
<1>1. job # "COMPLETED"
  BY DEF SessionKilled, Known, IInv, Rest, JobInv
<1> QED BY <1>1, KilledFollows DEF SessionKilled, Stops, Ends

LEMMA ServiceRestartsFollows == ASSUME Known, ServiceRestarts PROVE Follows
<1>1. CASE UNCHANGED <<me, disk>>
  BY <1>1, StartsQuietly DEF ServiceRestarts
<1>2. CASE Alive /\ me' = Gone /\ orphan' = FALSE /\ MaybeTorn
  BY <1>2, KilledFollows DEF ServiceRestarts
<1> QED BY <1>1, <1>2 DEF ServiceRestarts

-----------------------------------------------------------------------------
(* The theorem.                                                             *)

LEMMA InitRecord == Init => RInv /\ Cycle!Init
<1> SUFFICES ASSUME Init PROVE RInv /\ Cycle!Init
  OBVIOUS
<1> USE DEF Init
<1>1. Position = 0
  BY DEF Position, NoOrder, Ids
<1>2. FilesInv
  BY DEF FilesInv, Cycle!Ordered, Intended, Shut, Stated, OpenHasRecord, Placed, NoOrder, Ids
<1>3. StageOk(me)
  BY GoneStage
<1> QED BY <1>1, <1>2, <1>3 DEF RInv, Cycle!Init

LEMMA NextFollows == ASSUME Known, [Next]_vars PROVE Follows
<1>1. CASE SessionStep
  BY <1>1, LoadFollows, AssetFollows, FindFollows, PostFollows, PostRefusedFollows, LostFollows,
     CancelFollows, DeleteFollows, SettleFollows, EntryReadFollows, PositionFollows,
     RecoverFollows, RecoverAccountFollows, PostFillRiskFollows, RecoverStopFollows,
     StopCheckFollows, StopPositionFollows, ClosePositionFollows, ExitFollows, ConcludeFollows,
     MonitorFollows, WatchStopFollows, WatchPositionFollows, WatchClockFollows,
     ExitPositionFollows, SaveFollows
     DEF SessionStep
<1>2. CASE BrokerStep
  BY <1>2, FillFollows, DieFollows, CancelSettlesFollows, ArrivesFollows, DayEndsFollows
     DEF BrokerStep
<1>3. CASE Failure
  BY <1>3, PostUnansweredFollows, RequestFailsFollows, SessionKilledFollows,
     ServiceRestartsFollows, OperatorRerunsFollows DEF Failure
<1>4. CASE Launch
  BY <1>4, LaunchFollows
<1>5. CASE UNCHANGED vars
  <2>1. UNCHANGED <<me, job, broker, disk>>
    BY <1>5 DEF vars, service
  <2>2. StageOk(me)'
    BY <2>1 DEF Known, RInv, StageOk, Due, Undecided, InTrade, Within, Position, broker, disk
  <2> QED BY <2>1, <2>2, Quiet
<1> QED BY <1>1, <1>2, <1>3, <1>4, <1>5 DEF Next

\* The decision cycle, with its sessions, faults and restarts, is one record of
\* its position: intent before shares, every file written once, nothing bought
\* after the active record or the decision, and what they say stays true.
THEOREM FilesAreARecord == Spec => ImplementsTradeRecord
<1>1. Init => RInv /\ Cycle!Init
  BY InitRecord
<1>2. IInv /\ IInv' /\ RInv /\ [Next]_vars => RInv' /\ [Cycle!Next]_(Cycle!vars)
  BY NextFollows DEF Known, Follows
<1>3. Spec => []IInv
  BY Inductive
<1>4. QED
  BY <1>1, <1>2, <1>3, PTL DEF Spec, ImplementsTradeRecord, Cycle!Spec
=============================================================================
