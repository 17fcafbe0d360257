----------------------- MODULE PaperEngineering_proofs -----------------------
(***************************************************************************)
(* Theorems about one decision cycle of the Alpaca Paper lane, for any      *)
(* quantity and any number of faults, kills and restarts: what the          *)
(* write-once files say of the position is true of the broker.              *)
(*                                                                         *)
(* The argument follows the entry order.  Until the intent is written there *)
(* is none (DiskInv); from the comparison with the position on it is over   *)
(* (EntryOver), so the position can only shrink; and a claim is made at a   *)
(* moment the position was seen to be zero (SaveOk).                        *)
(***************************************************************************)
EXTENDS PaperEngineering, TLAPS

USE PaperAssumption

-----------------------------------------------------------------------------
(* The inductive invariant.                                                 *)

BrokerOrder == [status : Statuses, qty : 0 .. MaxQty, filled : 0 .. MaxQty]

Session ==
  [pc : Locations, id : Ids, recover : BOOLEAN, entry : 0 .. MaxQty, qty : 0 .. MaxQty,
   stop : Statuses \cup {"touched", "over"}, goal : {"decision", "anomaly", "outcome"},
   doc : {"none", "intent", "active", "decision", "outcome"},
   text : {"none", "whole", "NO_TRADE", "FLAT", "OPEN"}]

Files ==
  [intent : {"absent", "torn", "whole"}, active : {"absent", "torn", "whole"},
   decision : {"absent", "torn", "NO_TRADE", "FLAT", "OPEN"},
   outcome : {"absent", "torn", "FLAT", "OPEN"}]

TypeInv ==
  /\ order \in [Ids -> BrokerOrder] /\ late \in [Ids -> 0 .. MaxQty]
  /\ forced \in BOOLEAN /\ slow \in BOOLEAN
  /\ file \in Files /\ activeQty \in 0 .. MaxQty
  /\ me \in Session
  /\ job \in {"PENDING", "RUNNING", "COMPLETED", "FAILED"} /\ orphan \in BOOLEAN

Placed(id) == order[id].status # "none"

\* An order is for some shares, a working one is not filled, and what was sold
\* was bought.
OrdersInv ==
  /\ \A id \in Ids :
       /\ Placed(id) => order[id].qty > 0
       /\ ~Placed(id) => order[id].qty = 0 /\ order[id].filled = 0
       /\ order[id].status \in Working => order[id].filled < order[id].qty
  /\ Position >= 0

\* While no order has moved after the session's last look at it:
EntryNone == slow \/ ~Placed("entry")                  \* nothing was ordered,
EntryAsked == slow \/ order["entry"].status # "live"   \* its cancellation is on its way,
EntryDead == slow \/ order["entry"].status \notin {"live", "canceling"}  \* nothing more is bought,
EntryOver == EntryDead /\ (slow \/ Placed("entry"))    \* what was ordered is over,
Flat == slow \/ Position = 0                           \* nothing is held.

\* The files.
DiskInv ==
  /\ file.intent # "whole" => EntryNone
  /\ file.decision = "NO_TRADE" => EntryDead /\ Flat
  /\ file.decision = "FLAT" => EntryOver /\ Flat
  /\ file.decision = "OPEN" => EntryOver
  /\ file.active = "whole" => EntryOver
  /\ file.outcome = "FLAT" => EntryOver /\ Flat
  /\ file.outcome = "OPEN" => slow

Submitting == {"find", "post", "lost"}
Canceling == {"cancel", "delete", "settle"}
Sized == {"risk", "recover_stop", "stop_check", "stop_position", "exit_read"}
Entered == Sized \cup {"close_position", "exit_flat", "conclude", "exit_position"}
Watching == {"watch_stop", "watch_position", "watch_clock"}

\* What the session is about to write.
SaveOk(m) ==
  m.pc = "save" =>
    \/ m.doc = "intent" /\ m.text = "whole" /\ file.decision = "absent" /\ EntryNone
    \/ /\ m.doc = "active" /\ m.text = "whole" /\ EntryOver
       /\ order["stop"].qty = m.qty /\ m.qty > 0 /\ m.qty <= order["entry"].filled
    \/ m.doc = "decision" /\ m.text = "NO_TRADE" /\ EntryDead /\ Flat
    \/ m.doc = "decision" /\ m.text = "FLAT" /\ EntryOver /\ Flat
    \/ m.doc = "decision" /\ m.text = "OPEN" /\ EntryOver
    \/ m.doc = "outcome" /\ m.text = "FLAT" /\ EntryOver /\ Flat
    \/ m.doc = "outcome" /\ m.text = "OPEN" /\ EntryOver /\ slow

\* The session before and while it enters the position.
EnterOk(m) ==
  /\ m.pc = "asset" \/ (m.pc \in Submitting /\ m.id = "entry") =>
       file.decision = "absent" /\ file.intent = "whole"
  /\ m.pc = "asset" => EntryNone
  /\ m.pc \in Canceling => m.id # "exit" /\ Placed(m.id)
  /\ m.pc = "entry_read" => Placed("entry")
  /\ m.pc = "settle" /\ m.id = "entry" => EntryAsked
  /\ m.pc = "position" => EntryOver /\ (slow \/ m.entry = order["entry"].filled)

\* The session that has entered.
HoldOk(m) ==
  /\ m.pc \in Sized \/ (m.pc \in Submitting /\ m.id # "entry") => m.qty > 0
  /\ \/ m.pc \in Entered
     \/ m.pc \in Submitting /\ m.id # "entry"
     \/ m.pc \in Canceling /\ m.id = "stop"
     => EntryOver
  /\ m.pc \in {"stop_check", "stop_position"} => Placed("stop")
  /\ m.pc = "stop_position" => order["stop"].qty = m.qty
  /\ m.pc \in Watching => file.active = "whole"
  /\ m.pc = "conclude" => Flat

SessionOk(m) == SaveOk(m) /\ EnterOk(m) /\ HoldOk(m)

\* The job is COMPLETED by a session that ended on a true claim.
JobInv == job = "COMPLETED" => ~Alive /\ EntryDead /\ Flat

Rest == OrdersInv /\ DiskInv /\ SessionOk(me) /\ JobInv /\ ActiveIsCovered

IInv == TypeInv /\ Rest

-----------------------------------------------------------------------------
(* What a step of the session does besides its request.                     *)

LEMMA StartedType == Gone \in Session /\ Started \in Session /\ Started.pc = "load"
<1>1. Gone \in Session
  BY DEF Gone, Session, Locations, Ids, Statuses
<1> HIDE DEF Gone
<1> QED BY <1>1 DEF Started, Session, Locations

\* The session goes on: only what the new state of the session claims is to
\* be shown.
LEMMA GoesOn ==
  ASSUME IInv, NEW m \in Session, SessionOk(m), Alive, Goes(m), UNCHANGED <<broker, disk>>
  PROVE  IInv'
<1> USE DEF IInv, Rest, broker, disk, service, Goes, Alive
<1>1. TypeInv'
  BY DEF TypeInv
<1>2. OrdersInv' /\ DiskInv' /\ ActiveIsCovered'
  BY DEF OrdersInv, DiskInv, ActiveIsCovered, Placed, Position, EntryNone, EntryAsked, EntryDead, EntryOver, Flat
<1>3. SessionOk(me)'
  BY DEF SessionOk, SaveOk, EnterOk, HoldOk, Placed, Position, EntryNone, EntryAsked, EntryDead, EntryOver, Flat
<1>4. JobInv'
  BY DEF JobInv
<1> QED BY <1>1, <1>2, <1>3, <1>4

\* The session ends, and COMPLETED only when nothing is held.
LEMMA EndsHere ==
  ASSUME IInv, Alive, NEW status \in {"COMPLETED", "FAILED"}, Ends(status),
         status = "COMPLETED" => EntryDead /\ Flat,
         UNCHANGED <<broker, disk>>
  PROVE  IInv'
<1> USE DEF IInv, Rest, broker, disk, Ends, Alive, Gone
<1>1. TypeInv'
  <2> HIDE DEF Gone
  <2> QED BY StartedType DEF TypeInv
<1>2. OrdersInv' /\ DiskInv' /\ ActiveIsCovered'
  BY DEF OrdersInv, DiskInv, ActiveIsCovered, Placed, Position, EntryNone, EntryAsked, EntryDead, EntryOver, Flat
<1>3. SessionOk(me)'
  BY DEF SessionOk, SaveOk, EnterOk, HoldOk, Submitting, Canceling, Sized, Entered, Watching
<1>4. JobInv'
  BY DEF JobInv, EntryDead, Flat, Position
<1> QED BY <1>1, <1>2, <1>3, <1>4

LEMMA StopsHere ==
  ASSUME IInv, Alive, Stops, UNCHANGED <<broker, disk>>
  PROVE  IInv'
BY EndsHere DEF Stops

LEMMA FinishesHere ==
  ASSUME IInv, Alive, Finishes, EntryDead, Flat, UNCHANGED <<broker, disk>>
  PROVE  IInv'
BY EndsHere DEF Finishes

LEMMA AsksNext ==
  ASSUME IInv, Alive, NEW pc \in Locations, Ask(pc), SessionOk([me EXCEPT !.pc = pc]),
         UNCHANGED <<broker, disk>>
  PROVE  IInv'
<1>1. [me EXCEPT !.pc = pc] \in Session
  BY DEF IInv, TypeInv, Session
<1> QED BY <1>1, GoesOn DEF Ask

\* The identity is looked up before the order is submitted.
LEMMA SubmitsNext ==
  ASSUME IInv, Alive, NEW m \in Session, NEW id \in Ids, Submit(m, id),
         id = "entry" => file.decision = "absent" /\ file.intent = "whole",
         id # "entry" => m.qty > 0 /\ EntryOver,
         UNCHANGED <<broker, disk>>
  PROVE  IInv'
<1> DEFINE n == [m EXCEPT !.pc = "find", !.id = id]
<1>1. n \in Session
  BY DEF Session, Locations, Requests
<1>2. SessionOk(n)
  BY DEF SessionOk, SaveOk, EnterOk, HoldOk, Session, Submitting, Canceling, Sized, Entered, Watching
<1> QED BY <1>1, <1>2, GoesOn DEF Submit

LEMMA WritesNext ==
  ASSUME IInv, Alive,
         NEW doc \in {"intent", "active", "decision", "outcome"},
         NEW text \in {"whole", "NO_TRADE", "FLAT", "OPEN"},
         Write(doc, text),
         SaveOk([me EXCEPT !.pc = "save", !.doc = doc, !.text = text]),
         UNCHANGED <<broker, disk>>
  PROVE  IInv'
<1> DEFINE m == [me EXCEPT !.pc = "save", !.doc = doc, !.text = text]
<1>1. m \in Session
  BY DEF IInv, TypeInv, Session, Locations
<1>2. SessionOk(m)
  <2>1. me \in Session
    BY DEF IInv, TypeInv
  <2>2. m.pc = "save"
    BY <2>1 DEF Session
  <2> QED BY <2>2 DEF SessionOk, EnterOk, HoldOk, Submitting, Canceling, Sized, Entered, Watching
<1> QED BY <1>1, <1>2, GoesOn DEF Write

LEMMA NoTradeHere ==
  ASSUME IInv, Alive, NoTrade, EntryDead, Flat, UNCHANGED <<broker, disk>>
  PROVE  IInv'
<1>1. SaveOk([me EXCEPT !.pc = "save", !.doc = "decision", !.text = "NO_TRADE"])
  BY DEF SaveOk, IInv, TypeInv, Session
<1> QED BY <1>1, WritesNext DEF NoTrade

\* A decision or an outcome that says flat.
LEMMA FlatHere ==
  ASSUME IInv, Alive, NEW doc \in {"decision", "outcome"}, Write(doc, "FLAT"), EntryOver, Flat,
         UNCHANGED <<broker, disk>>
  PROVE  IInv'
<1>1. SaveOk([me EXCEPT !.pc = "save", !.doc = doc, !.text = "FLAT"])
  BY DEF SaveOk, IInv, TypeInv, Session
<1> QED BY <1>1, WritesNext

\* A broker error ends the session, or the failed stop is answered by an exit.
LEMMA BrokerErrorHere ==
  ASSUME IInv, me.pc \in Submitting, BrokerError, UNCHANGED <<broker, disk>>
  PROVE  IInv'
<1>1. Alive
  BY DEF Alive, Submitting
<1>2. CASE me.id = "stop"
  <2> DEFINE m == [me EXCEPT !.goal = "decision"]
  <2>1. m \in Session /\ m.qty > 0 /\ EntryOver
    BY <1>2 DEF IInv, TypeInv, Rest, Session, SessionOk, HoldOk
  <2>2. Submit(m, "exit")
    BY <1>2 DEF BrokerError
  <2> QED BY <1>1, <2>1, <2>2, SubmitsNext DEF Ids
<1>3. CASE me.id # "stop"
  BY <1>1, <1>3, StopsHere DEF BrokerError
<1> QED BY <1>2, <1>3

-----------------------------------------------------------------------------
(* The actions of the session, in the order of the module.                  *)

LEMMA EntryNoneIsFlat == ASSUME IInv, EntryNone PROVE EntryDead /\ Flat
<1>1. ~slow => order["entry"].filled = 0 /\ order["entry"].status = "none"
  BY DEF EntryNone, IInv, Rest, OrdersInv, Placed, Ids
<1>2. \A id \in Ids : order[id].filled \in Nat
  BY DEF IInv, TypeInv, BrokerOrder
<1> QED BY <1>1, <1>2 DEF EntryDead, Flat, Position, IInv, Rest, OrdersInv, Ids

LEMMA LoadStep == ASSUME IInv, Load PROVE IInv'
<1> USE DEF IInv, Rest, Load
<1>1. Alive
  BY DEF Alive
<1>2. CASE Stops
  BY <1>1, <1>2, StopsHere
<1>3. CASE Finishes /\ file.decision \in {"NO_TRADE", "FLAT"}
  BY <1>1, <1>3, FinishesHere DEF DiskInv, EntryOver
<1>4. CASE Ask("monitor")
  <2>1. SessionOk([me EXCEPT !.pc = "monitor"])
    BY DEF SessionOk, SaveOk, EnterOk, HoldOk, TypeInv, Session,
           Submitting, Canceling, Sized, Entered, Watching
  <2> QED BY <1>1, <1>4, <2>1, AsksNext DEF Locations
<1>5. CASE Goes([me EXCEPT !.pc = "recover", !.recover = TRUE])
  <2> DEFINE m == [me EXCEPT !.pc = "recover", !.recover = TRUE]
  <2>1. m \in Session /\ m.pc = "recover"
    BY DEF TypeInv, Session, Locations, Requests
  <2>2. SessionOk(m)
    BY <2>1 DEF SessionOk, SaveOk, EnterOk, HoldOk, Submitting, Canceling, Sized, Entered, Watching
  <2> QED BY <1>1, <1>5, <2>1, <2>2, GoesOn
<1>6. CASE file.decision = "absent" /\ file.intent = "absent" /\ (NoTrade \/ Write("intent", "whole"))
  <2>1. EntryNone
    BY <1>6 DEF DiskInv
  <2>2. EntryDead /\ Flat
    BY <2>1, EntryNoneIsFlat
  <2>3. CASE NoTrade
    BY <1>1, <2>2, <2>3, NoTradeHere
  <2>4. CASE Write("intent", "whole")
    <3>1. SaveOk([me EXCEPT !.pc = "save", !.doc = "intent", !.text = "whole"])
      BY <1>6, <2>1 DEF SaveOk, TypeInv, Session
    <3> QED BY <1>1, <2>4, <3>1, WritesNext
  <2> QED BY <1>6, <2>3, <2>4
<1> QED BY <1>2, <1>3, <1>4, <1>5, <1>6

LEMMA AssetStep == ASSUME IInv, Asset PROVE IInv'
<1> USE DEF Asset
<1>1. Alive
  BY DEF Alive
<1>2. EntryDead /\ Flat
  BY EntryNoneIsFlat DEF IInv, Rest, SessionOk, EnterOk
<1>3. CASE NoTrade
  BY <1>1, <1>2, <1>3, NoTradeHere
<1>4. CASE Stops
  BY <1>1, <1>4, StopsHere
<1>5. CASE Submit(me, "entry")
  <2>1. me \in Session /\ file.decision = "absent" /\ file.intent = "whole"
    BY DEF IInv, TypeInv, Rest, SessionOk, EnterOk
  <2> QED BY <1>1, <1>5, <2>1, SubmitsNext DEF Ids
<1> QED BY <1>3, <1>4, <1>5

\* An order found by its identity, whoever submitted it.
LEMMA RecoveredStep ==
  ASSUME IInv, me.pc \in Submitting, Placed(me.id), Recovered, UNCHANGED <<broker, disk>>
  PROVE  IInv'
<1> USE DEF Recovered
<1>1. Alive
  BY DEF Alive, Submitting
<1>2. CASE BrokerError
  BY <1>2, BrokerErrorHere
<1>3. CASE order[me.id].qty = Wanted /\ Resolved(order[me.id].status)
  <2>1. me \in Session /\ me.id \in Ids
    BY DEF IInv, TypeInv, Session
  <2>2. CASE me.id = "entry"
    <3>1. Ask("entry_read")
      BY <1>3, <2>2 DEF Resolved
    <3>2. SessionOk([me EXCEPT !.pc = "entry_read"])
      BY <2>1, <2>2 DEF SessionOk, SaveOk, EnterOk, HoldOk, Session,
         Submitting, Canceling, Sized, Entered, Watching
    <3> QED BY <1>1, <3>1, <3>2, AsksNext DEF Locations, Requests
  <2>3. CASE me.id = "stop"
    <3> DEFINE m == [me EXCEPT !.pc = "stop_check", !.stop = order["stop"].status]
    <3>1. Goes(m)
      BY <1>3, <2>3 DEF Resolved
    <3>2. m \in Session
      BY <2>1 DEF Session, Locations, IInv, TypeInv, BrokerOrder, Ids
    <3>3. SessionOk(m)
      BY <2>1, <2>3 DEF IInv, Rest, SessionOk, SaveOk, EnterOk, HoldOk, Session,
         Submitting, Canceling, Sized, Entered, Watching
    <3> QED BY <1>1, <3>1, <3>2, <3>3, GoesOn
  <2>4. CASE me.id = "exit"
    <3>1. Ask("exit_read")
      BY <1>3, <2>4 DEF Resolved
    <3>2. SessionOk([me EXCEPT !.pc = "exit_read"])
      BY <2>1, <2>4 DEF IInv, Rest, SessionOk, SaveOk, EnterOk, HoldOk, Session,
         Submitting, Canceling, Sized, Entered, Watching
    <3> QED BY <1>1, <3>1, <3>2, AsksNext DEF Locations, Requests
  <2> QED BY <2>1, <2>2, <2>3, <2>4 DEF Ids
<1> QED BY <1>2, <1>3

LEMMA NoOrderIsUnplaced ==
  ASSUME IInv, NEW id \in Ids
  PROVE  order[id] = NoOrder <=> ~Placed(id)
<1>1. order[id] = [status |-> order[id].status, qty |-> order[id].qty, filled |-> order[id].filled]
  BY DEF IInv, TypeInv, BrokerOrder
<1> QED BY <1>1 DEF NoOrder, Placed, IInv, Rest, OrdersInv

LEMMA FindStep == ASSUME IInv, Find PROVE IInv'
<1> USE DEF Find
<1>1. Alive /\ me.pc \in Submitting /\ me \in Session /\ me.id \in Ids
  BY DEF Alive, Submitting, IInv, TypeInv, Session
<1>2. CASE order[me.id] = NoOrder
  <2> DEFINE m == [me EXCEPT !.pc = "post"]
  <2>1. m.pc = "post" /\ m.id = me.id /\ m.qty = me.qty
    BY <1>1 DEF Session
  <2>2. SessionOk(m)
    BY <1>1, <2>1 DEF IInv, Rest, SessionOk, SaveOk, EnterOk, HoldOk,
       Submitting, Canceling, Sized, Entered, Watching
  <2> QED BY <1>1, <1>2, <2>2, AsksNext DEF Locations
<1>3. CASE order[me.id] # NoOrder
  BY <1>1, <1>3, NoOrderIsUnplaced, RecoveredStep
<1> QED BY <1>2, <1>3

LEMMA LostStep == ASSUME IInv, Lost PROVE IInv'
<1> USE DEF Lost
<1>1. me.pc \in Submitting /\ me.id \in Ids
  BY DEF Submitting, IInv, TypeInv, Session
<1>2. CASE order[me.id] = NoOrder
  BY <1>1, <1>2, BrokerErrorHere
<1>3. CASE order[me.id] # NoOrder
  BY <1>1, <1>3, NoOrderIsUnplaced, RecoveredStep
<1> QED BY <1>2, <1>3

\* The entry order is settled: what is known at "position".
LEMMA EntrySettledStep ==
  ASSUME IInv, Alive, EntryOver,
         Goes([me EXCEPT !.pc = "position", !.entry = order["entry"].filled]),
         UNCHANGED <<broker, disk>>
  PROVE  IInv'
<1> DEFINE m == [me EXCEPT !.pc = "position", !.entry = order["entry"].filled]
<1>1. m \in Session
  BY DEF IInv, TypeInv, Session, Locations, Requests, BrokerOrder, Ids
<1>2. m.pc = "position" /\ m.entry = order["entry"].filled
  BY DEF IInv, TypeInv, Session
<1>3. SessionOk(m)
  BY <1>2 DEF SessionOk, SaveOk, EnterOk, HoldOk, Submitting, Canceling, Sized, Entered, Watching
<1> QED BY <1>1, <1>3, GoesOn

\* The end of a cancellation, with the order as the broker shows it.
LEMMA SettledStep ==
  ASSUME IInv, me.pc \in Canceling, Settled(order[me.id].status),
         me.id = "entry" => EntryOver,
         UNCHANGED <<broker, disk>>
  PROVE  IInv'
<1>1. Alive
  BY DEF Alive, Canceling
<1>2. me \in Session /\ me.id \in {"entry", "stop"} /\ SessionOk(me)
  BY DEF IInv, Rest, TypeInv, Session, Ids, SessionOk, EnterOk
<1>3. CASE me.id = "entry"
  BY <1>1, <1>3, EntrySettledStep DEF Settled
<1>4. CASE me.id = "stop"
  <2>1. EntryOver
    BY <1>2, <1>4 DEF SessionOk, HoldOk
  <2>2. CASE Ask("exit_position")
    <3>1. SessionOk([me EXCEPT !.pc = "exit_position"])
      BY <1>2, <2>1 DEF SessionOk, SaveOk, EnterOk, HoldOk, Session,
         Submitting, Canceling, Sized, Entered, Watching
    <3> QED BY <1>1, <2>2, <3>1, AsksNext DEF Locations, Requests
  <2>3. CASE Ask("close_position")
    <3>1. SessionOk([me EXCEPT !.pc = "close_position"])
      BY <1>2, <2>1 DEF SessionOk, SaveOk, EnterOk, HoldOk, Session,
         Submitting, Canceling, Sized, Entered, Watching
    <3> QED BY <1>1, <2>3, <3>1, AsksNext DEF Locations, Requests
  <2>4. CASE Stops
    BY <1>1, <2>4, StopsHere
  <2> QED BY <1>4, <2>2, <2>3, <2>4 DEF Settled
<1> QED BY <1>2, <1>3, <1>4

LEMMA CancelStep == ASSUME IInv, Cancel PROVE IInv'
<1> USE DEF Cancel
<1>1. Alive /\ me.pc \in Canceling /\ me \in Session /\ SessionOk(me)
  BY DEF Alive, Canceling, IInv, Rest, TypeInv
<1>2. CASE order[me.id].status \in Terminal
  <2>1. me.id = "entry" => EntryOver
    BY <1>1, <1>2 DEF SessionOk, EnterOk, EntryOver, EntryDead, Placed, Terminal
  <2> QED BY <1>1, <1>2, <2>1, SettledStep
<1>3. CASE Ask("delete")
  <2>1. SessionOk([me EXCEPT !.pc = "delete"])
    BY <1>1 DEF SessionOk, SaveOk, EnterOk, HoldOk, Session, Submitting, Canceling, Sized, Entered, Watching
  <2> QED BY <1>1, <1>3, <2>1, AsksNext DEF Locations
<1> QED BY <1>2, <1>3

LEMMA EntryReadStep == ASSUME IInv, EntryRead PROVE IInv'
<1> USE DEF EntryRead
<1>1. Alive /\ me \in Session /\ Placed("entry")
  BY DEF Alive, IInv, TypeInv, Rest, SessionOk, EnterOk
<1>2. CASE order["entry"].status \in Terminal
  <2>1. EntryOver
    BY <1>1, <1>2 DEF EntryOver, EntryDead, Terminal
  <2> QED BY <1>1, <1>2, <2>1, EntrySettledStep
<1>3. CASE Goes([me EXCEPT !.pc = "cancel", !.id = "entry"])
  <2> DEFINE m == [me EXCEPT !.pc = "cancel", !.id = "entry"]
  <2>1. m \in Session /\ m.pc = "cancel" /\ m.id = "entry"
    BY <1>1 DEF Session, Locations, Requests, Ids
  <2>2. SessionOk(m)
    BY <1>1, <2>1 DEF SessionOk, SaveOk, EnterOk, HoldOk, Submitting, Canceling, Sized, Entered, Watching
  <2> QED BY <1>1, <1>3, <2>1, <2>2, GoesOn
<1> QED BY <1>2, <1>3

LEMMA PositionType == ASSUME IInv PROVE Position \in 0 .. MaxQty
<1>1. \A id \in Ids : order[id].filled \in 0 .. MaxQty
  BY DEF IInv, TypeInv, BrokerOrder
<1> QED BY <1>1 DEF Position, IInv, Rest, OrdersInv, Ids

\* The risk is looked at with the position that was read.
LEMMA RiskStep ==
  ASSUME IInv, Alive, Risk, EntryOver, Position > 0, UNCHANGED <<broker, disk>>
  PROVE  IInv'
<1> DEFINE m == [me EXCEPT !.pc = "risk", !.qty = Position]
<1>1. Position \in 0 .. MaxQty
  BY PositionType
<1>2. m \in Session /\ m.pc = "risk" /\ m.qty = Position
  BY <1>1 DEF IInv, TypeInv, Session, Locations
<1>3. SessionOk(m)
  BY <1>2 DEF SessionOk, SaveOk, EnterOk, HoldOk, Submitting, Canceling, Sized, Entered, Watching
<1> QED BY <1>2, <1>3, GoesOn DEF Risk

LEMMA PositionFirstStep == ASSUME IInv, PositionFirst PROVE IInv'
<1> USE DEF PositionFirst
<1>1. Alive /\ me \in Session
  BY DEF Alive, IInv, TypeInv
<1>2. EntryOver /\ (slow \/ me.entry = order["entry"].filled)
  BY DEF IInv, Rest, SessionOk, EnterOk
<1>3. CASE me.entry = 0 /\ NoTrade
  <2>1. \A id \in Ids : order[id].filled \in Nat
    BY DEF IInv, TypeInv, BrokerOrder
  <2>2. Flat
    BY <1>2, <1>3, <2>1 DEF Flat, Position, IInv, Rest, OrdersInv, Ids
  <2> QED BY <1>1, <1>2, <1>3, <2>2, NoTradeHere DEF EntryOver
<1>4. CASE me.entry > 0 /\ Position = me.entry /\ Risk
  BY <1>1, <1>2, <1>4, RiskStep
<1>5. CASE Stops
  BY <1>1, <1>5, StopsHere
<1> QED BY <1>3, <1>4, <1>5

LEMMA PositionRecoveredStep == ASSUME IInv, PositionRecovered PROVE IInv'
<1> USE DEF PositionRecovered
<1>1. Alive /\ me \in Session
  BY DEF Alive, IInv, TypeInv
<1>2. EntryOver
  BY DEF IInv, Rest, SessionOk, EnterOk
<1>3. CASE Position = 0 /\ NoTrade
  BY <1>1, <1>2, <1>3, NoTradeHere DEF EntryOver, Flat
<1>4. CASE Position = 0 /\ Write("decision", "FLAT")
  BY <1>1, <1>2, <1>4, FlatHere DEF Flat
<1>5. CASE Stops
  BY <1>1, <1>5, StopsHere
<1>6. CASE Position > 0 /\ Risk
  BY <1>1, <1>2, <1>6, RiskStep
<1> QED BY <1>3, <1>4, <1>5, <1>6

LEMMA RecoverStep == ASSUME IInv, Recover PROVE IInv'
<1> USE DEF Recover
<1>1. Alive /\ me \in Session
  BY DEF Alive, IInv, TypeInv
<1>2. CASE Ask("recover_account")
  <2>1. SessionOk([me EXCEPT !.pc = "recover_account"])
    BY <1>1 DEF SessionOk, SaveOk, EnterOk, HoldOk, Session, Submitting, Canceling, Sized, Entered, Watching
  <2> QED BY <1>1, <1>2, <2>1, AsksNext DEF Locations, Requests
<1>3. CASE order["entry"] # NoOrder /\ Ask("entry_read")
  <2>1. Placed("entry")
    BY <1>3, NoOrderIsUnplaced DEF Ids
  <2>2. SessionOk([me EXCEPT !.pc = "entry_read"])
    BY <1>1, <2>1 DEF SessionOk, SaveOk, EnterOk, HoldOk, Session, Submitting, Canceling, Sized, Entered, Watching
  <2> QED BY <1>1, <1>3, <2>2, AsksNext DEF Locations, Requests
<1> QED BY <1>2, <1>3

LEMMA RecoverAccountStep == ASSUME IInv, RecoverAccount PROVE IInv'
<1> USE DEF RecoverAccount
<1>1. Alive
  BY DEF Alive
<1>2. CASE Position = 0 /\ (\A id \in Ids : order[id].status \notin Working) /\ NoTrade
  BY <1>1, <1>2, NoTradeHere DEF EntryDead, Flat, Ids, Working
<1>3. CASE Stops
  BY <1>1, <1>3, StopsHere
<1> QED BY <1>2, <1>3

LEMMA PostFillRiskStep == ASSUME IInv, PostFillRisk PROVE IInv'
<1> USE DEF PostFillRisk
<1>1. Alive /\ me \in Session
  BY DEF Alive, IInv, TypeInv
<1>2. EntryOver /\ me.qty > 0
  BY DEF IInv, Rest, SessionOk, HoldOk, Sized, Entered
<1>3. CASE Submit([me EXCEPT !.goal = "decision"], "exit")
  <2>1. [me EXCEPT !.goal = "decision"] \in Session /\ [me EXCEPT !.goal = "decision"].qty > 0
    BY <1>1, <1>2 DEF Session
  <2> QED BY <1>1, <1>2, <1>3, <2>1, SubmitsNext DEF Ids
<1>4. CASE Submit(me, "stop")
  BY <1>1, <1>2, <1>4, SubmitsNext DEF Ids
<1>5. CASE Ask("recover_stop")
  <2>1. SessionOk([me EXCEPT !.pc = "recover_stop"])
    BY <1>1, <1>2 DEF SessionOk, SaveOk, EnterOk, HoldOk, Session, Submitting, Canceling, Sized, Entered, Watching
  <2> QED BY <1>1, <1>5, <2>1, AsksNext DEF Locations, Requests
<1> QED BY <1>3, <1>4, <1>5

-----------------------------------------------------------------------------
(* The protective stop, the closing, and the monitor.                       *)

LEMMA CloseStep ==
  ASSUME IInv, Alive, NEW goal \in {"decision", "anomaly", "outcome"},
         NEW status \in Statuses \cup {"touched", "over"}, Close(goal, status), EntryOver, Placed("stop"),
         UNCHANGED <<broker, disk>>
  PROVE  IInv'
<1> DEFINE pc == IF status \in Working THEN "cancel" ELSE "close_position"
           m == [me EXCEPT !.goal = goal, !.stop = status, !.id = "stop", !.pc = pc]
<1>1. m \in Session /\ m.pc \in {"cancel", "close_position"} /\ m.id = "stop"
  <2>1. pc \in {"cancel", "close_position"}
    OBVIOUS
  <2> HIDE DEF pc
  <2>2. pc \in Locations
    BY <2>1 DEF Locations, Requests
  <2> QED BY <2>1, <2>2 DEF IInv, TypeInv, Session, Ids
<1>2. SessionOk(m)
  BY <1>1 DEF SessionOk, SaveOk, EnterOk, HoldOk, Submitting, Canceling, Sized, Entered, Watching
<1> QED BY <1>1, <1>2, GoesOn DEF Close

LEMMA RecoverStopStep == ASSUME IInv, RecoverStop PROVE IInv'
<1> USE DEF RecoverStop
<1>1. Alive /\ me \in Session
  BY DEF Alive, IInv, TypeInv
<1>2. EntryOver /\ me.qty > 0
  BY DEF IInv, Rest, SessionOk, HoldOk, Sized, Entered
<1>3. CASE Submit(me, "stop")
  BY <1>1, <1>2, <1>3, SubmitsNext DEF Ids
<1>4. CASE order["stop"] # NoOrder /\ Goes([me EXCEPT !.pc = "stop_check", !.stop = order["stop"].status])
  <2> DEFINE m == [me EXCEPT !.pc = "stop_check", !.stop = order["stop"].status]
  <2>1. Placed("stop")
    BY <1>4, NoOrderIsUnplaced DEF Ids
  <2>2. order["stop"].status \in Statuses
    BY DEF IInv, TypeInv, BrokerOrder, Ids
  <2>3. m \in Session /\ m.pc = "stop_check" /\ m.qty = me.qty
    BY <1>1, <2>2 DEF Session, Locations
  <2>4. SessionOk(m)
    BY <1>2, <2>1, <2>3 DEF SessionOk, SaveOk, EnterOk, HoldOk, Submitting, Canceling, Sized, Entered, Watching
  <2> QED BY <1>1, <1>4, <2>3, <2>4, GoesOn
<1> QED BY <1>3, <1>4

LEMMA StopCheckStep == ASSUME IInv, StopCheck PROVE IInv'
<1> USE DEF StopCheck
<1>1. Alive /\ me \in Session
  BY DEF Alive, IInv, TypeInv
<1>2. EntryOver /\ me.qty > 0 /\ Placed("stop")
  BY DEF IInv, Rest, SessionOk, HoldOk, Sized, Entered
<1>3. CASE Protects(me.stop, me.qty) /\ Ask("stop_position")
  <2>1. order["stop"].qty = me.qty
    BY <1>3 DEF Protects
  <2>2. SessionOk([me EXCEPT !.pc = "stop_position"])
    BY <1>1, <1>2, <2>1 DEF SessionOk, SaveOk, EnterOk, HoldOk, Session, Submitting, Canceling, Sized, Entered, Watching
  <2> QED BY <1>1, <1>3, <2>2, AsksNext DEF Locations, Requests
<1>4. CASE Close("decision", me.stop)
  BY <1>1, <1>2, <1>4, CloseStep DEF Session
<1> QED BY <1>3, <1>4

LEMMA StopPositionStep == ASSUME IInv, StopPosition PROVE IInv'
<1> USE DEF StopPosition
<1>1. Alive /\ me \in Session
  BY DEF Alive, IInv, TypeInv
<1>2. EntryOver /\ me.qty > 0 /\ Placed("stop") /\ order["stop"].qty = me.qty
  BY DEF IInv, Rest, SessionOk, HoldOk, Sized, Entered
<1>3. CASE Close("decision", me.stop)
  BY <1>1, <1>2, <1>3, CloseStep DEF Session
<1>4. CASE Position = me.qty /\ Write("active", "whole")
  <2>1. me.qty <= order["entry"].filled
    <3>1. \A id \in Ids : order[id].filled \in Nat
      BY DEF IInv, TypeInv, BrokerOrder
    <3> QED BY <1>4, <3>1 DEF Position, Ids
  <2>2. SaveOk([me EXCEPT !.pc = "save", !.doc = "active", !.text = "whole"])
    BY <1>1, <1>2, <2>1 DEF SaveOk, Session
  <2> QED BY <1>1, <1>4, <2>2, WritesNext
<1>5. CASE Write("decision", "OPEN")
  <2>1. SaveOk([me EXCEPT !.pc = "save", !.doc = "decision", !.text = "OPEN"])
    BY <1>1, <1>2 DEF SaveOk, Session
  <2> QED BY <1>1, <1>5, <2>1, WritesNext
<1>6. CASE Stops
  BY <1>1, <1>6, StopsHere
<1> QED BY <1>3, <1>4, <1>5, <1>6

\* What is held is sold.
LEMMA SellStep ==
  ASSUME IInv, Alive, EntryOver, Position > 0, Submit([me EXCEPT !.qty = Position], "exit"),
         UNCHANGED <<broker, disk>>
  PROVE  IInv'
<1> DEFINE m == [me EXCEPT !.qty = Position]
<1>1. m \in Session /\ m.qty > 0
  BY PositionType DEF IInv, TypeInv, Session
<1> QED BY <1>1, SubmitsNext DEF Ids

LEMMA ClosePositionStep == ASSUME IInv, ClosePosition PROVE IInv'
<1> USE DEF ClosePosition
<1>1. Alive
  BY DEF Alive
<1>2. EntryOver
  BY DEF IInv, Rest, SessionOk, HoldOk, Entered
<1>3. CASE Position = 0
  BY <1>1, <1>2, <1>3, FlatHere DEF Flat
<1>4. CASE Position # 0
  BY <1>1, <1>2, <1>4, PositionType, SellStep
<1> QED BY <1>3, <1>4

LEMMA ExitReadStep == ASSUME IInv, ExitRead PROVE IInv'
<1> USE DEF ExitRead
<1>1. Alive /\ me \in Session
  BY DEF Alive, IInv, TypeInv
<1>2. EntryOver
  BY DEF IInv, Rest, SessionOk, HoldOk, Sized, Entered
<1>3. CASE Stops
  BY <1>1, <1>3, StopsHere
<1>4. CASE Ask("exit_flat")
  <2>1. SessionOk([me EXCEPT !.pc = "exit_flat"])
    BY <1>1, <1>2 DEF SessionOk, SaveOk, EnterOk, HoldOk, Session, Submitting, Canceling, Sized, Entered, Watching
  <2> QED BY <1>1, <1>4, <2>1, AsksNext DEF Locations, Requests
<1> QED BY <1>3, <1>4

LEMMA ExitFlatStep == ASSUME IInv, ExitFlat PROVE IInv'
<1> USE DEF ExitFlat
<1>1. Alive /\ me \in Session
  BY DEF Alive, IInv, TypeInv
<1>2. EntryOver
  BY DEF IInv, Rest, SessionOk, HoldOk, Entered
<1>3. CASE Stops
  BY <1>1, <1>3, StopsHere
<1>4. CASE Position = 0 /\ Ask("conclude")
  <2>1. SessionOk([me EXCEPT !.pc = "conclude"])
    BY <1>1, <1>2, <1>4 DEF SessionOk, SaveOk, EnterOk, HoldOk, Flat, Session,
       Submitting, Canceling, Sized, Entered, Watching
  <2> QED BY <1>1, <1>4, <2>1, AsksNext DEF Locations, Requests
<1> QED BY <1>3, <1>4

LEMMA ConcludeStep == ASSUME IInv, Conclude PROVE IInv'
<1> USE DEF Conclude
<1>1. Alive /\ me \in Session /\ me.goal \in {"decision", "anomaly", "outcome"}
  BY DEF Alive, IInv, TypeInv, Session
<1>2. EntryOver /\ Flat
  BY DEF IInv, Rest, SessionOk, HoldOk, Entered
<1>3. CASE Stops
  BY <1>1, <1>3, StopsHere
<1>4. ASSUME NEW doc \in {"decision", "outcome"}, Write(doc, "FLAT") PROVE IInv'
  BY <1>1, <1>2, <1>4, FlatHere
<1>5. ASSUME NEW doc \in {"decision", "outcome"}, Position # 0, Write(doc, "OPEN") PROVE IInv'
  <2>1. slow
    BY <1>2, <1>5 DEF Flat
  <2>2. SaveOk([me EXCEPT !.pc = "save", !.doc = doc, !.text = "OPEN"])
    BY <1>1, <1>2, <2>1 DEF SaveOk, Session
  <2> QED BY <1>1, <1>5, <2>2, WritesNext
<1> QED BY <1>1, <1>3, <1>4, <1>5

LEMMA MonitorStep == ASSUME IInv, Monitor PROVE IInv'
<1> USE DEF Monitor
<1>1. Alive /\ me \in Session
  BY DEF Alive, IInv, TypeInv
<1>2. CASE Stops
  BY <1>1, <1>2, StopsHere
<1>3. CASE file.outcome \in {"FLAT", "OPEN"} /\ Finishes
  <2>1. EntryDead /\ Flat
    BY <1>3 DEF IInv, Rest, DiskInv, EntryOver, EntryDead, Flat
  <2> QED BY <1>1, <1>3, <2>1, FinishesHere
<1>4. CASE file.active = "whole" /\ Ask("watch_stop")
  <2>1. SessionOk([me EXCEPT !.pc = "watch_stop"])
    BY <1>1, <1>4 DEF SessionOk, SaveOk, EnterOk, HoldOk, Session, Submitting, Canceling, Sized, Entered, Watching
  <2> QED BY <1>1, <1>4, <2>1, AsksNext DEF Locations, Requests
<1> QED BY <1>2, <1>3, <1>4

\* A position is watched under its active record.
LEMMA WatchesActive ==
  ASSUME IInv, me.pc \in Watching
  PROVE  /\ Alive /\ me \in Session /\ file.active = "whole" /\ EntryOver
         /\ Placed("stop") /\ activeQty > 0
<1>1. Alive /\ me \in Session /\ file.active = "whole"
  BY DEF Alive, IInv, TypeInv, Rest, SessionOk, HoldOk, Watching
<1>2. EntryOver /\ activeQty > 0 /\ order["stop"].qty = activeQty
  BY <1>1 DEF IInv, Rest, DiskInv, ActiveIsCovered
<1>3. Placed("stop")
  BY <1>2 DEF IInv, Rest, OrdersInv, Ids
<1> QED BY <1>1, <1>2, <1>3

LEMMA WatchStopStep == ASSUME IInv, WatchStop PROVE IInv'
<1>1. Alive /\ me \in Session /\ file.active = "whole"
  BY WatchesActive DEF WatchStop, Watching
<1>2. PICK s \in Statuses \cup {"touched", "over"} : Goes([me EXCEPT !.pc = "watch_position", !.stop = s])
  <2>1. order["stop"].status \in Statuses
    BY DEF IInv, TypeInv, BrokerOrder, Ids
  <2> QED BY <2>1 DEF WatchStop
<1> DEFINE m == [me EXCEPT !.pc = "watch_position", !.stop = s]
<1>3. m \in Session /\ m.pc = "watch_position"
  BY <1>1 DEF Session, Locations, Requests
<1>4. SessionOk(m)
  BY <1>1, <1>3 DEF SessionOk, SaveOk, EnterOk, HoldOk, Submitting, Canceling, Sized, Entered, Watching
<1> QED BY <1>1, <1>2, <1>3, <1>4, GoesOn DEF WatchStop

LEMMA WatchPositionStep == ASSUME IInv, WatchPosition PROVE IInv'
<1> USE DEF WatchPosition
<1>1. Alive /\ me \in Session /\ file.active = "whole" /\ EntryOver /\ Placed("stop")
  BY WatchesActive DEF Watching
<1>2. CASE Position = 0 /\ Write("outcome", "FLAT")
  BY <1>1, <1>2, FlatHere DEF Flat
<1>3. CASE Ask("watch_clock")
  <2>1. SessionOk([me EXCEPT !.pc = "watch_clock"])
    BY <1>1 DEF SessionOk, SaveOk, EnterOk, HoldOk, Session, Submitting, Canceling, Sized, Entered, Watching
  <2> QED BY <1>1, <1>3, <2>1, AsksNext DEF Locations, Requests
<1>4. CASE Close("anomaly", IF me.stop \in {"over", "done"} THEN "dead" ELSE "live")
  BY <1>1, <1>4, CloseStep DEF Statuses, Working, Terminal
<1> QED BY <1>2, <1>3, <1>4

\* A look that leaves the position working, or a new round of the loop.
LEMMA MonitorsAgain ==
  ASSUME IInv, Alive, Goes([Started EXCEPT !.pc = "monitor"]), UNCHANGED <<broker, disk>>
  PROVE  IInv'
<1> DEFINE m == [Started EXCEPT !.pc = "monitor"]
<1>1. m \in Session /\ m.pc = "monitor"
  BY StartedType DEF Session, Locations
<1>2. SessionOk(m)
  BY <1>1 DEF SessionOk, SaveOk, EnterOk, HoldOk, Submitting, Canceling, Sized, Entered, Watching
<1> QED BY <1>1, <1>2, GoesOn

LEMMA WatchClockStep == ASSUME IInv, WatchClock PROVE IInv'
<1> USE DEF WatchClock
<1>1. Alive /\ me \in Session /\ EntryOver /\ Placed("stop")
  BY WatchesActive DEF Watching
<1>2. CASE Goes([me EXCEPT !.pc = "cancel", !.id = "stop", !.goal = "outcome"])
  <2> DEFINE m == [me EXCEPT !.pc = "cancel", !.id = "stop", !.goal = "outcome"]
  <2>1. m \in Session /\ m.pc = "cancel" /\ m.id = "stop"
    BY <1>1 DEF Session, Locations, Requests, Ids
  <2>2. SessionOk(m)
    BY <1>1, <2>1 DEF SessionOk, SaveOk, EnterOk, HoldOk, Submitting, Canceling, Sized, Entered, Watching
  <2> QED BY <1>1, <1>2, <2>1, <2>2, GoesOn
<1>3. CASE Goes([Started EXCEPT !.pc = "monitor"])
  BY <1>1, <1>3, MonitorsAgain
<1> QED BY <1>2, <1>3

LEMMA ExitPositionStep == ASSUME IInv, ExitPosition PROVE IInv'
<1> USE DEF ExitPosition
<1>1. Alive
  BY DEF Alive
<1>2. EntryOver
  BY DEF IInv, Rest, SessionOk, HoldOk, Entered
<1>3. CASE Position = 0 /\ Write("outcome", "FLAT")
  BY <1>1, <1>2, <1>3, FlatHere DEF Flat
<1>4. CASE Stops
  BY <1>1, <1>4, StopsHere
<1>5. CASE Position > 0 /\ Submit([me EXCEPT !.qty = Position], "exit")
  BY <1>1, <1>2, <1>5, SellStep
<1> QED BY <1>3, <1>4, <1>5

-----------------------------------------------------------------------------
(* Steps that move an order: the broker's own, and the session's POST and   *)
(* DELETE.                                                                  *)

\* What never gets lost when an order moves.
Keeps ==
  /\ EntryNone => EntryNone'
  /\ EntryAsked /\ Placed("entry") => EntryAsked'
  /\ EntryDead => EntryDead'
  /\ EntryOver => EntryOver'
  /\ EntryDead /\ Flat => Flat'
  /\ EntryOver /\ ~slow' => order'["entry"].filled = order["entry"].filled
  /\ slow => slow'
  /\ \A id \in Ids : Placed(id) => Placed(id)' /\ order'[id].qty = order[id].qty
  /\ order'["entry"].filled >= order["entry"].filled

LEMMA KeepsRest ==
  ASSUME IInv, Keeps, OrdersInv', order' \in [Ids -> BrokerOrder], UNCHANGED disk
  PROVE  /\ DiskInv' /\ ActiveIsCovered'
         /\ \A m \in Session : SessionOk(m) => SessionOk(m)'
<1> USE DEF IInv, Rest, Keeps, disk
<1>1. DiskInv'
  BY DEF DiskInv, EntryOver
<1>2. order["stop"].qty > 0 => order'["stop"].qty = order["stop"].qty
  BY DEF OrdersInv, Ids
<1>3. /\ order["entry"].filled \in Nat /\ order'["entry"].filled \in Nat
      /\ order'["entry"].filled >= order["entry"].filled
  BY DEF TypeInv, BrokerOrder, Ids
<1>4. ActiveIsCovered'
  BY <1>2, <1>3 DEF ActiveIsCovered, TypeInv
<1>5. ASSUME NEW m \in Session, SessionOk(m) PROVE SessionOk(m)'
  <2>1. SaveOk(m)'
    <3>1. order["stop"].qty = m.qty /\ m.qty > 0 => order'["stop"].qty = m.qty
      BY <1>2
    <3>2. m.qty \in Nat
      BY DEF Session
    <3>3. m.qty <= order["entry"].filled => m.qty <= order'["entry"].filled
      BY <1>3, <3>2
    <3>4. EntryOver => EntryOver'
      OBVIOUS
    <3>5. (EntryOver /\ Flat => Flat') /\ (EntryDead /\ Flat => Flat')
      BY DEF EntryOver
    <3> QED BY <1>5, <3>1, <3>3, <3>4, <3>5 DEF SessionOk, SaveOk
  <2>2. EnterOk(m)'
    BY <1>5 DEF SessionOk, EnterOk, Session, Ids, EntryOver, Canceling
  <2>3. HoldOk(m)'
    BY <1>2, <1>5 DEF SessionOk, HoldOk, Session, EntryOver, Ids, Sized, Entered, Submitting, Canceling
  <2> QED BY <2>1, <2>2, <2>3 DEF SessionOk
<1> QED BY <1>1, <1>4, <1>5

\* A step of the broker, which the session does not see.
LEMMA BrokerMoves ==
  ASSUME IInv, Keeps, OrdersInv', order' \in [Ids -> BrokerOrder], late' \in [Ids -> 0 .. MaxQty],
         forced' \in BOOLEAN, slow' \in BOOLEAN, UNCHANGED <<disk, me, service>>
  PROVE  IInv'
<1> USE DEF IInv, Rest, service, disk
<1>1. TypeInv'
  BY DEF TypeInv
<1>2. DiskInv' /\ ActiveIsCovered' /\ SessionOk(me)'
  <2>1. SessionOk(me) => SessionOk(me)'
    <3>1. me \in Session /\ me' = me
      BY DEF TypeInv
    <3>2. \A m \in Session : SessionOk(m) => SessionOk(m)'
      BY KeepsRest
    <3> QED BY <3>1, <3>2 DEF SessionOk, SaveOk, EnterOk, HoldOk
  <2> QED BY <2>1, KeepsRest
<1>3. JobInv'
  BY DEF JobInv, Keeps, Alive
<1> QED BY <1>1, <1>2, <1>3

LEMMA FillStep == ASSUME IInv, NEW id \in Ids, Fill(id) PROVE IInv'
<1> USE DEF IInv, Rest, Fill
<1>1. /\ order \in [Ids -> BrokerOrder] /\ OrdersInv /\ slow \in BOOLEAN
      /\ order[id].filled \in Nat /\ order[id].qty \in 0 .. MaxQty
      /\ order[id].filled < order[id].qty /\ order[id].status \in Working
  BY DEF TypeInv, BrokerOrder, OrdersInv
<1>2. /\ order'[id].filled = order[id].filled + 1
      /\ order'[id].qty = order[id].qty
      /\ order'[id].status \in {"filled", order[id].status}
      /\ order'[id].status = order[id].status => order'[id].filled # order[id].qty
      /\ \A k \in Ids \ {id} : order'[k] = order[k]
  BY <1>1 DEF BrokerOrder, Working
<1>3. order' \in [Ids -> BrokerOrder]
  <2>1. order'[id] \in BrokerOrder
    <3>1. PICK o, s : o = order[id] /\ s = IF o.filled + 1 = o.qty THEN "filled" ELSE o.status
      OBVIOUS
    <3>2. o \in BrokerOrder /\ s \in Statuses /\ o.filled + 1 \in 0 .. MaxQty
      BY <1>1, <3>1 DEF Statuses, Terminal
    <3>3. order'[id] = [o EXCEPT !.filled = @ + 1, !.status = s]
      BY <1>1, <3>1
    <3>4. [o EXCEPT !.filled = @ + 1, !.status = s] \in BrokerOrder
      BY ONLY <3>2 DEF BrokerOrder
    <3> QED BY <3>3, <3>4
  <2> QED BY <1>1, <2>1
<1>4. \A k \in Ids : order[k].filled \in Nat
  BY <1>1 DEF BrokerOrder
<1>5. OrdersInv'
  <2>1. Position' >= 0
    BY <1>1, <1>2, <1>4 DEF OrdersInv, Position, Sells, Ids
  <2>2. order'[id].filled < order'[id].qty \/ order'[id].status \notin Working
    BY <1>1, <1>2 DEF Working
  <2> QED BY <1>1, <1>2, <2>1, <2>2 DEF OrdersInv, Placed, Working
<1>6. Keeps
  <2>1. id = "entry" => slow' \/ (order["entry"].status \in {"live", "canceling"} /\ ~slow)
    BY <1>1 DEF Working
  <2>2. id # "entry" => order'["entry"] = order["entry"] /\ Position > 0
    BY <1>1, <1>2 DEF Sells, Ids
  <2>3. \A k \in Ids : Placed(k) => Placed(k)' /\ order'[k].qty = order[k].qty
    BY <1>1, <1>2 DEF Placed, Working
  <2>4. order'["entry"].filled >= order["entry"].filled
    <3>1. order["entry"].filled \in Nat
      BY <1>4 DEF Ids
    <3>2. CASE id = "entry"
      BY <1>2, <3>1, <3>2
    <3>3. CASE id # "entry"
      BY <2>2, <3>1, <3>3
    <3> QED BY <3>2, <3>3
  <2>5. slow => slow'
    OBVIOUS
  <2>6. Placed(id)
    BY <1>1 DEF Placed, Working
  <2>7. EntryNone => EntryNone'
    BY <2>1, <2>2, <2>5, <2>6 DEF EntryNone, Placed
  <2>11. EntryAsked /\ Placed("entry") => EntryAsked'
    BY <1>2, <2>2, <2>5 DEF EntryAsked
  <2>8. (EntryDead => EntryDead') /\ (EntryOver => EntryOver')
    BY <2>1, <2>2, <2>5 DEF EntryDead, EntryOver, Placed
  <2>9. EntryDead /\ Flat => Flat'
    BY <2>1, <2>2, <2>5 DEF EntryDead, Flat
  <2>10. EntryOver /\ ~slow' => order'["entry"].filled = order["entry"].filled
    BY <2>1, <2>2, <2>5 DEF EntryDead, EntryOver
  <2> QED BY <2>3, <2>4, <2>5, <2>7, <2>8, <2>9, <2>10, <2>11 DEF Keeps
<1> QED BY <1>3, <1>5, <1>6, BrokerMoves DEF TypeInv

\* An order that only changes its status, and does not become live; one that
\* was left is not asked for again.
LEMMA StatusMoves ==
  ASSUME IInv, NEW id \in Ids, NEW s \in {"canceling", "left", "canceled", "dead", "done"},
         order[id].status \in Working, s = "canceling" => order[id].status # "left",
         s = "left" => order[id].status # "live", order' = [order EXCEPT ![id].status = s], slow' = slow
  PROVE  Keeps /\ OrdersInv' /\ order' \in [Ids -> BrokerOrder] /\ order'[id].status = s
<1> USE DEF IInv, Rest
<1>1. order \in [Ids -> BrokerOrder] /\ OrdersInv
  BY DEF TypeInv
<1>2. /\ order'[id] = [order[id] EXCEPT !.status = s]
      /\ \A k \in Ids \ {id} : order'[k] = order[k]
  BY <1>1
<1>3. /\ order'[id].status = s /\ order'[id].qty = order[id].qty
      /\ order'[id].filled = order[id].filled
  BY <1>1, <1>2 DEF BrokerOrder
<1>4. order' \in [Ids -> BrokerOrder]
  BY <1>1, <1>3 DEF BrokerOrder, Statuses, Working, Terminal
<1>5. \A k \in Ids : order'[k].filled = order[k].filled /\ order'[k].qty = order[k].qty
  BY <1>2, <1>3
<1>6. Position' = Position
  BY <1>5 DEF Position, Ids
<1>7. Placed(id) /\ \A k \in Ids : Placed(k)' <=> Placed(k)
  BY <1>2, <1>3 DEF Placed, Working
<1>8. OrdersInv'
  BY <1>1, <1>2, <1>3, <1>5, <1>6, <1>7 DEF OrdersInv, Placed, Working
<1>9. /\ order'["entry"].status = "live" => order["entry"].status = "live"
      /\ order'["entry"].status \in {"live", "canceling"} => order["entry"].status \in {"live", "canceling"}
  BY <1>2, <1>3 DEF Ids, Working
<1>10. order["entry"].filled \in Nat
  BY <1>1 DEF BrokerOrder, Ids
<1>11. Keeps
  BY <1>5, <1>6, <1>7, <1>9, <1>10 DEF Keeps, EntryNone, EntryAsked, EntryDead, EntryOver, Flat, Ids
<1> QED BY <1>3, <1>4, <1>8, <1>11

LEMMA DieStep == ASSUME IInv, NEW id \in Ids, Die(id) PROVE IInv'
<1>1. Keeps /\ OrdersInv' /\ order' \in [Ids -> BrokerOrder]
  <2>1. PICK s \in {"dead", "done"} : order' = [order EXCEPT ![id].status = s]
    BY DEF Die
  <2> QED BY <2>1, StatusMoves DEF Die, Working
<1> QED BY <1>1, BrokerMoves DEF Die, IInv, TypeInv

LEMMA CancelSettlesStep == ASSUME IInv, NEW id \in Ids, CancelSettles(id) PROVE IInv'
<1>1. Keeps /\ OrdersInv' /\ order' \in [Ids -> BrokerOrder]
  BY StatusMoves DEF CancelSettles, Working
<1> QED BY <1>1, BrokerMoves DEF CancelSettles, IInv, TypeInv

\* A new order: nothing has been filled of it.
LEMMA NewOrder ==
  ASSUME IInv, NEW id \in Ids, NEW q \in 1 .. MaxQty, NEW s \in {"live", "dead"},
         order[id] = NoOrder, order' = [order EXCEPT ![id] = Order(s, q)]
  PROVE  /\ OrdersInv' /\ order' \in [Ids -> BrokerOrder] /\ Position' = Position
         /\ order'[id].status = s /\ order'[id].qty = q /\ order'[id].filled = 0
         /\ \A k \in Ids \ {id} : order'[k] = order[k]
         /\ Placed(id)' /\ ~Placed(id)
<1> USE DEF IInv, Rest
<1>1. order \in [Ids -> BrokerOrder] /\ OrdersInv
  BY DEF TypeInv
<1>2. order'[id] = Order(s, q) /\ \A k \in Ids \ {id} : order'[k] = order[k]
  BY <1>1
<1>3. Order(s, q) \in BrokerOrder
  BY DEF Order, BrokerOrder, Statuses, Working, Terminal
<1>4. order' \in [Ids -> BrokerOrder]
  BY <1>1, <1>3
<1>5. order'[id].status = s /\ order'[id].qty = q /\ order'[id].filled = 0
  BY <1>2 DEF Order
<1>6. order[id].status = "none" /\ order[id].filled = 0
  BY DEF NoOrder
<1>7. Position' = Position
  <2>1. \A k \in Ids : order'[k].filled = order[k].filled
    BY <1>2, <1>5, <1>6
  <2> QED BY <2>1 DEF Position, Ids
<1>8. OrdersInv'
  BY <1>1, <1>2, <1>5, <1>7 DEF OrdersInv, Placed, Working
<1> QED BY <1>2, <1>4, <1>5, <1>6, <1>7, <1>8 DEF Placed

LEMMA DayEndsStep == ASSUME IInv, DayEnds PROVE IInv'
<1>1. OrdersInv' /\ order' \in [Ids -> BrokerOrder]
  BY DEF DayEnds, IInv, Rest, TypeInv, OrdersInv, Placed, Position
<1>2. order["entry"].filled \in Nat
  BY DEF IInv, TypeInv, BrokerOrder, Ids
<1>3. Keeps
  BY <1>2 DEF DayEnds, Keeps, EntryNone, EntryAsked, EntryDead, EntryOver, Flat, Placed, Position
<1> QED BY <1>1, <1>3, BrokerMoves DEF DayEnds, IInv, TypeInv

LEMMA PostUnplaced ==
  ASSUME IInv, me.pc = "post", Acceptable(me.id, Wanted)
  PROVE  /\ Alive /\ me \in Session /\ me.id \in Ids /\ Wanted \in 1 .. MaxQty
         /\ order[me.id] = NoOrder
         /\ me.id = "entry" => file.decision = "absent" /\ file.intent = "whole"
         /\ me.id # "entry" => me.qty > 0 /\ EntryOver
<1>1. Alive /\ me \in Session /\ me.id \in Ids
  BY DEF Alive, IInv, TypeInv, Session
<1>2. me.id = "entry" => file.decision = "absent" /\ file.intent = "whole"
  BY DEF IInv, Rest, SessionOk, EnterOk, Submitting
<1>3. me.id # "entry" => me.qty > 0 /\ EntryOver
  BY DEF IInv, Rest, SessionOk, HoldOk, Submitting
<1>4. Wanted \in 1 .. MaxQty
  BY <1>1, <1>3 DEF Wanted, Session
<1> QED BY <1>1, <1>2, <1>3, <1>4 DEF Acceptable

\* What the session's own order disturbs of the files: nothing, because no
\* decision is written while the entry is submitted.
LEMMA PlacedRest ==
  ASSUME IInv, NEW id \in Ids, NEW q \in 1 .. MaxQty, NEW s \in {"live", "dead"},
         order[id] = NoOrder, order' = [order EXCEPT ![id] = Order(s, q)],
         UNCHANGED <<disk, slow>>,
         id = "entry" => file.decision = "absent" /\ file.intent = "whole"
  PROVE  DiskInv' /\ ActiveIsCovered' /\ (id # "entry" /\ EntryOver => EntryOver')
<1> USE DEF IInv, Rest, disk
<1>1. /\ Position' = Position /\ ~Placed(id)
      /\ \A k \in Ids \ {id} : order'[k] = order[k]
  BY NewOrder
<1>2. order[id].qty = 0
  BY DEF NoOrder
<1>3. CASE id = "entry"
  <2>1. EntryOver => slow
    BY <1>1, <1>3 DEF EntryOver
  <2>2. DiskInv'
    BY <1>3, <2>1 DEF DiskInv, EntryOver, EntryDead, Flat
  <2>3. ActiveIsCovered'
    <3>1. file.active # "whole" \/ activeQty <= 0
      BY <1>3 DEF ActiveIsCovered, NoOrder, TypeInv
    <3> QED BY <3>1 DEF ActiveIsCovered, TypeInv
  <2> QED BY <1>3, <2>2, <2>3
<1>4. CASE id # "entry"
  <2>1. order'["entry"] = order["entry"]
    BY <1>1, <1>4 DEF Ids
  <2>2. DiskInv' /\ (EntryOver => EntryOver')
    BY <1>1, <2>1 DEF DiskInv, EntryNone, EntryOver, EntryDead, Flat, Placed
  <2>3. ActiveIsCovered'
    BY <1>1, <1>2, <2>1 DEF ActiveIsCovered, Ids
  <2> QED BY <2>2, <2>3
<1> QED BY <1>3, <1>4

\* A submission that was given up arrives. When the session still looks for
\* it, it is as if it had been submitted now.
LEMMA ArrivesStep == ASSUME IInv, NEW id \in Ids, Arrives(id) PROVE IInv'
<1> USE DEF Arrives
<1>1. /\ late[id] \in 1 .. MaxQty /\ late' \in [Ids -> 0 .. MaxQty]
      /\ slow \in BOOLEAN /\ slow' \in BOOLEAN /\ (slow => slow')
      /\ slow' \/ (me.pc = "lost" /\ me.id = id)
  <2>1. late[id] \in 1 .. MaxQty /\ late' \in [Ids -> 0 .. MaxQty]
    BY DEF IInv, TypeInv
  <2>2. slow \in BOOLEAN
    BY DEF IInv, TypeInv
  <2>3. slow' = (slow \/ ~(me.pc = "lost" /\ me.id = id))
    BY DEF Arrives
  <2>4. slow' \in BOOLEAN /\ (slow => slow') /\ (slow' \/ (me.pc = "lost" /\ me.id = id))
    BY ONLY <2>2, <2>3, Zenon
  <2> QED BY <2>1, <2>2, <2>4
<1>2. CASE order' = order
  <2>1. OrdersInv' /\ order' \in [Ids -> BrokerOrder]
    BY <1>2 DEF IInv, Rest, TypeInv, OrdersInv, Placed, Position
  <2>2. Keeps
    <3>1. order["entry"].filled \in Nat
      BY DEF IInv, TypeInv, BrokerOrder, Ids
    <3>2. Position' = Position /\ \A k \in Ids : Placed(k)' <=> Placed(k)
      BY <1>2 DEF Position, Placed
    <3> QED BY <1>1, <1>2, <3>1, <3>2 DEF Keeps, EntryNone, EntryAsked, EntryDead, EntryOver, Flat, Ids
  <2> QED BY <1>1, <2>1, <2>2, BrokerMoves DEF IInv, TypeInv
<1>3. CASE Acceptable(id, late[id]) /\ order' = [order EXCEPT ![id] = Order("live", late[id])]
  <2>1. order[id] = NoOrder /\ order[id].filled = 0
    BY <1>3 DEF Acceptable, NoOrder
  <2>2. /\ OrdersInv' /\ order' \in [Ids -> BrokerOrder] /\ order'[id].filled = 0
        /\ \A k \in Ids \ {id} : order'[k] = order[k]
        /\ Position' = Position /\ Placed(id)' /\ ~Placed(id)
    BY <1>1, <1>3, <2>1, NewOrder
  <2>3. ASSUME id # "entry" \/ slow' PROVE IInv'
    <3>1. \A k \in Ids : Placed(k) => Placed(k)' /\ order'[k].qty = order[k].qty
      BY <2>2 DEF Placed
    <3>2. order'["entry"].filled >= order["entry"].filled
      <4>1. order["entry"].filled \in Nat
        BY DEF IInv, TypeInv, BrokerOrder, Ids
      <4> QED BY <2>1, <2>2, <4>1 DEF Ids
    <3>3. id # "entry" => order'["entry"] = order["entry"]
      BY <2>2 DEF Ids
    <3>4. Keeps
      BY <2>2, <2>3, <3>1, <3>2, <3>3
         DEF Keeps, EntryNone, EntryAsked, EntryDead, EntryOver, Flat, Placed
    <3> QED BY <1>1, <2>2, <3>4, BrokerMoves DEF IInv, TypeInv
  <2>4. ASSUME id = "entry", ~slow' PROVE IInv'
    <3>1. me.pc = "lost" /\ me.id = "entry" /\ slow' = slow
      BY <1>1, <2>4
    <3>2. file.decision = "absent" /\ file.intent = "whole"
      BY <3>1 DEF IInv, Rest, SessionOk, EnterOk, Submitting
    <3>3. DiskInv' /\ ActiveIsCovered'
      BY <1>1, <1>3, <2>1, <3>1, <3>2, PlacedRest
    <3>4. TypeInv'
      BY <1>1, <2>2 DEF IInv, TypeInv, disk, service
    <3>5. SessionOk(me)'
      BY <3>1, <3>2 DEF disk, SessionOk, SaveOk, EnterOk, HoldOk,
         Submitting, Canceling, Sized, Entered, Watching
    <3>6. JobInv'
      BY <3>1 DEF IInv, Rest, JobInv, Alive, service
    <3> QED BY <2>2, <3>3, <3>4, <3>5, <3>6 DEF IInv, Rest
  <2> QED BY <2>3, <2>4
<1> QED BY <1>2, <1>3

LEMMA PostStep == ASSUME IInv, Post PROVE IInv'
<1> USE DEF Post
<1>1. /\ Alive /\ me \in Session /\ me.id \in Ids /\ Wanted \in 1 .. MaxQty
      /\ order[me.id] = NoOrder
      /\ me.id = "entry" => file.decision = "absent" /\ file.intent = "whole"
      /\ me.id # "entry" => me.qty > 0 /\ EntryOver
  BY PostUnplaced
<1>2. PICK s \in {"live", "dead"} :
        order' = [order EXCEPT ![me.id] = Order(s, Wanted)] /\ Resolved(s)
  OBVIOUS
<1>3. OrdersInv' /\ order' \in [Ids -> BrokerOrder] /\ order'[me.id].status # "none"
  BY <1>1, <1>2, NewOrder DEF Placed
<1>4. DiskInv' /\ ActiveIsCovered' /\ (me.id # "entry" /\ EntryOver => EntryOver')
  BY <1>1, <1>2, PlacedRest DEF disk
<1>5. ASSUME NEW m \in Session, Goes(m), SessionOk(m)', m.pc # "gone"
      PROVE  IInv'
  <2>1. TypeInv'
    BY <1>3, <1>5 DEF IInv, TypeInv, Goes, service, disk
  <2>2. SessionOk(me)'
    BY <1>5 DEF Goes, SessionOk, SaveOk, EnterOk, HoldOk
  <2>3. JobInv'
    BY <1>1, <1>5 DEF IInv, Rest, JobInv, Goes, service
  <2> QED BY <1>3, <1>4, <2>1, <2>2, <2>3 DEF IInv, Rest
<1>6. CASE me.id = "entry"
  <2>1. PICK m \in Session : m = [me EXCEPT !.pc = "entry_read"] /\ m.pc = "entry_read"
    <3> DEFINE n == [me EXCEPT !.pc = "entry_read"]
    <3>1. n \in Session
      BY <1>1 DEF Session, Locations, Requests
    <3>2. n.pc = "entry_read" /\ n.qty = me.qty /\ n.id = me.id
      BY <1>1 DEF Session
    <3> QED BY <3>1, <3>2
  <2>2. SessionOk(m)'
    BY <1>3, <1>6, <2>1 DEF SessionOk, SaveOk, EnterOk, HoldOk, Placed,
       Submitting, Canceling, Sized, Entered, Watching
  <2> QED BY <1>2, <1>5, <1>6, <2>1, <2>2 DEF Resolved, Ask, Goes
<1>7. CASE me.id = "stop"
  <2>1. PICK m \in Session :
          m = [me EXCEPT !.pc = "stop_check", !.stop = s] /\ m.pc = "stop_check" /\ m.qty = me.qty
    <3> DEFINE n == [me EXCEPT !.pc = "stop_check", !.stop = s]
    <3>1. n \in Session
      BY <1>1 DEF Session, Locations, Statuses, Working, Terminal
    <3>2. n.pc = "stop_check" /\ n.qty = me.qty /\ n.id = me.id
      BY <1>1 DEF Session
    <3> QED BY <3>1, <3>2
  <2>2. SessionOk(m)'
    BY <1>1, <1>3, <1>4, <1>7, <2>1 DEF SessionOk, SaveOk, EnterOk, HoldOk, Placed,
       Submitting, Canceling, Sized, Entered, Watching
  <2> QED BY <1>2, <1>5, <1>7, <2>1, <2>2 DEF Resolved, Goes
<1>8. CASE me.id = "exit"
  <2>1. PICK m \in Session : m = [me EXCEPT !.pc = "exit_read"] /\ m.pc = "exit_read" /\ m.qty = me.qty
    <3> DEFINE n == [me EXCEPT !.pc = "exit_read"]
    <3>1. n \in Session
      BY <1>1 DEF Session, Locations, Requests
    <3>2. n.pc = "exit_read" /\ n.qty = me.qty /\ n.id = me.id
      BY <1>1 DEF Session
    <3> QED BY <3>1, <3>2
  <2>2. SessionOk(m)'
    BY <1>1, <1>4, <1>8, <2>1 DEF SessionOk, SaveOk, EnterOk, HoldOk,
       Submitting, Canceling, Sized, Entered, Watching
  <2> QED BY <1>2, <1>5, <1>8, <2>1, <2>2 DEF Resolved, Ask, Goes
<1> QED BY <1>1, <1>6, <1>7, <1>8 DEF Ids

LEMMA LostIsOk ==
  ASSUME IInv, me.pc = "post"
  PROVE  [me EXCEPT !.pc = "lost"] \in Session /\ SessionOk([me EXCEPT !.pc = "lost"])
<1> DEFINE m == [me EXCEPT !.pc = "lost"]
<1>1. m \in Session /\ m.pc = "lost" /\ m.id = me.id /\ m.qty = me.qty
  BY DEF IInv, TypeInv, Session, Locations, Requests
<1>2. SessionOk(m)
  BY <1>1 DEF IInv, Rest, SessionOk, SaveOk, EnterOk, HoldOk, Submitting, Canceling, Sized, Entered, Watching
<1> QED BY <1>1, <1>2

LEMMA PostRefusedStep == ASSUME IInv, PostRefused PROVE IInv'
<1> USE DEF PostRefused
<1>1. Alive
  BY DEF Alive
<1> QED BY <1>1, LostIsOk, AsksNext DEF Locations, Requests

LEMMA PostUnansweredStep == ASSUME IInv, PostUnanswered PROVE IInv'
<1> USE DEF PostUnanswered
<1> DEFINE m == [me EXCEPT !.pc = "lost"]
<1>1. m \in Session /\ SessionOk(m) /\ m.pc = "lost" /\ m.id = me.id /\ m.qty = me.qty
  BY LostIsOk DEF IInv, TypeInv, Session
<1>2. /\ Alive /\ me \in Session /\ me' = m /\ UNCHANGED service
      /\ UNCHANGED <<forced, slow, disk>>
  BY DEF Alive, IInv, TypeInv, Ask, Goes
<1>3. JobInv'
  BY <1>2 DEF IInv, Rest, JobInv, service
<1>4. ASSUME OrdersInv', order' \in [Ids -> BrokerOrder], late' \in [Ids -> 0 .. MaxQty],
             DiskInv', ActiveIsCovered', SessionOk(m)'
      PROVE  IInv'
  <2>1. TypeInv'
    BY <1>1, <1>2, <1>4 DEF IInv, TypeInv, service, disk
  <2>2. SessionOk(me)'
    BY <1>2, <1>4 DEF SessionOk, SaveOk, EnterOk, HoldOk
  <2> QED BY <1>3, <1>4, <2>1, <2>2 DEF IInv, Rest
<1>5. CASE Acceptable(me.id, Wanted) /\ late' = late /\ order' = [order EXCEPT ![me.id] = Order("live", Wanted)]
  <2>1. /\ me.id \in Ids /\ Wanted \in 1 .. MaxQty /\ order[me.id] = NoOrder
        /\ me.id = "entry" => file.decision = "absent" /\ file.intent = "whole"
        /\ me.id # "entry" => me.qty > 0 /\ EntryOver
    BY <1>5, PostUnplaced
  <2>2. OrdersInv' /\ order' \in [Ids -> BrokerOrder]
    BY <1>5, <2>1, NewOrder
  <2>3. DiskInv' /\ ActiveIsCovered' /\ (me.id # "entry" /\ EntryOver => EntryOver')
    BY <1>2, <1>5, <2>1, PlacedRest
  <2>4. SessionOk(m)'
    BY <1>1, <1>2, <2>1, <2>3 DEF SessionOk, SaveOk, EnterOk, HoldOk, disk,
       Submitting, Canceling, Sized, Entered, Watching
  <2> QED BY <1>4, <1>5, <2>2, <2>3, <2>4 DEF IInv, TypeInv
<1>6. CASE UNCHANGED order /\ late' \in [Ids -> 0 .. MaxQty]
  <2>1. OrdersInv' /\ DiskInv' /\ ActiveIsCovered' /\ SessionOk(m)'
    BY <1>1, <1>2, <1>6 DEF IInv, Rest, OrdersInv, DiskInv, ActiveIsCovered, disk, EntryNone, EntryAsked, EntryOver,
       EntryDead, Flat, Placed, Position, SessionOk, SaveOk, EnterOk, HoldOk
  <2> QED BY <1>4, <1>6, <2>1 DEF IInv, TypeInv
<1>7. late' = [late EXCEPT ![me.id] = Wanted] => late' \in [Ids -> 0 .. MaxQty]
  BY <1>2 DEF IInv, TypeInv, Session, Wanted
<1> QED BY <1>5, <1>6, <1>7 DEF IInv, TypeInv

LEMMA DeleteStep == ASSUME IInv, Delete PROVE IInv'
<1> USE DEF Delete
<1>1. /\ Alive /\ me \in Session /\ me.id \in {"entry", "stop"} /\ Placed(me.id)
      /\ me.id = "stop" => EntryOver
  BY DEF Alive, IInv, TypeInv, Rest, SessionOk, EnterOk, HoldOk, Canceling, Session, Ids
<1>2. CASE order[me.id].status \in Terminal
  <2>1. Stops /\ UNCHANGED <<broker, disk>>
    BY <1>2 DEF broker
  <2> QED BY <1>1, <2>1, StopsHere
<1>3. CASE order[me.id].status \notin Terminal
  <2>1. me.id \in Ids /\ order[me.id].status \in Working
    BY <1>1, <1>3 DEF Ids, Placed, IInv, TypeInv, BrokerOrder, Statuses
  <2>2. PICK s \in {"canceled", "canceling", "left"} :
          /\ order' = [order EXCEPT ![me.id].status = s]
          /\ s = "canceling" => order[me.id].status # "left"
          /\ s = "left" => order[me.id].status = "left"
    BY <1>3
  <2>3. Keeps /\ OrdersInv' /\ order' \in [Ids -> BrokerOrder] /\ order'[me.id].status = s
    BY <2>1, <2>2, StatusMoves
  <2>4. DiskInv' /\ ActiveIsCovered'
    BY <2>3, KeepsRest
  <2>5. ASSUME me' \in Session, SessionOk(me)', job' \in {"PENDING", "RUNNING", "COMPLETED", "FAILED"},
               orphan' \in BOOLEAN, job' # "COMPLETED"
        PROVE  IInv'
    BY <2>3, <2>4, <2>5 DEF IInv, Rest, TypeInv, JobInv, disk
  <2>6. CASE Ask("settle")
    <3>1. PICK m \in Session :
            m = [me EXCEPT !.pc = "settle"] /\ m.pc = "settle" /\ m.id = me.id
      <4> DEFINE n == [me EXCEPT !.pc = "settle"]
      <4>1. n \in Session
        BY <1>1 DEF Session, Locations, Requests
      <4>2. n.pc = "settle" /\ n.qty = me.qty /\ n.id = me.id
        BY <1>1 DEF Session
      <4> QED BY <4>1, <4>2
    <3>2. me.id = "entry" => EntryAsked'
      BY <2>3 DEF EntryAsked
    <3>3. (me.id = "stop" => EntryOver') /\ order'[me.id].status # "none"
      BY <1>1, <2>3 DEF Keeps
    <3>4. SessionOk(m)'
      BY <1>1, <3>1, <3>2, <3>3 DEF SessionOk, SaveOk, EnterOk, HoldOk, Placed,
         Submitting, Canceling, Sized, Entered, Watching
    <3>5. me' = m /\ UNCHANGED service
      BY <2>6, <3>1 DEF Ask, Goes
    <3>6. SessionOk(me)'
      BY <3>4, <3>5 DEF SessionOk, SaveOk, EnterOk, HoldOk
    <3> QED BY <1>1, <2>5, <3>1, <3>5, <3>6 DEF IInv, Rest, TypeInv, JobInv, service
  <2>7. CASE Stops
    <3>1. me' = Gone /\ orphan' = FALSE /\ job' = IF orphan THEN job ELSE "FAILED"
      BY <2>7 DEF Stops, Ends
    <3>2. me' \in Session
      BY <3>1, StartedType
    <3>3. SessionOk(me)'
      BY <3>1 DEF Gone, SessionOk, SaveOk, EnterOk, HoldOk, Submitting, Canceling, Sized, Entered, Watching
    <3> QED BY <1>1, <2>5, <3>1, <3>2, <3>3 DEF IInv, Rest, TypeInv, JobInv
  <2> QED BY <1>3, <2>6, <2>7
<1> QED BY <1>2, <1>3

\* The last poll: an order that is still being canceled is not looked at again,
\* so from here on what it may still fill is the exception.
LEMMA SettleStep == ASSUME IInv, Settle PROVE IInv'
<1> USE DEF Settle
<1>1. /\ Alive /\ me \in Session /\ me.pc \in Canceling /\ me.id \in {"entry", "stop"} /\ Placed(me.id)
      /\ me.id = "stop" => EntryOver
      /\ me.id = "entry" => EntryAsked
      /\ order \in [Ids -> BrokerOrder]
  BY DEF Alive, Canceling, IInv, TypeInv, Rest, SessionOk, EnterOk, HoldOk, Session, Ids
<1>2. CASE order[me.id].status # "canceling"
  <2>1. order' = order
    BY <1>1, <1>2 DEF Ids, BrokerOrder
  <2>2. me.id = "entry" => EntryOver
    BY <1>1, <1>2 DEF EntryAsked, EntryDead, EntryOver
  <2> QED BY <1>1, <2>1, <2>2, SettledStep DEF broker
<1>3. CASE order[me.id].status = "canceling"
  <2>1. me.id \in Ids /\ order' = [order EXCEPT ![me.id].status = "left"]
    BY <1>1, <1>3 DEF Ids
  <2>2. /\ Keeps /\ OrdersInv' /\ order' \in [Ids -> BrokerOrder] /\ order'[me.id].status = "left"
        /\ order'[me.id].filled = order[me.id].filled
    <3>1. order[me.id] \in BrokerOrder /\ order'[me.id] = [order[me.id] EXCEPT !.status = "left"]
      BY <1>1, <2>1
    <3>2. order'[me.id].filled = order[me.id].filled
      BY <3>1 DEF BrokerOrder
    <3>3. slow' = slow /\ order[me.id].status \in Working
      BY <1>3 DEF Working
    <3> QED BY <1>3, <2>1, <3>2, <3>3, StatusMoves
  <2>3. DiskInv' /\ ActiveIsCovered'
    BY <2>2, KeepsRest
  <2>4. EntryOver'
    <3>1. CASE me.id = "stop"
      BY <1>1, <2>2, <3>1 DEF Keeps
    <3>2. CASE me.id = "entry"
      BY <2>2, <3>2 DEF EntryOver, EntryDead, Placed
    <3> QED BY <1>1, <3>1, <3>2
  <2>5. ASSUME NEW m \in Session, Goes(m), SessionOk(m)', m.pc # "gone"
        PROVE  IInv'
    <3>1. TypeInv'
      BY <2>2, <2>5 DEF IInv, TypeInv, Goes, service, disk
    <3>2. SessionOk(me)'
      BY <2>5 DEF Goes, SessionOk, SaveOk, EnterOk, HoldOk
    <3>3. JobInv'
      BY <1>1, <2>5 DEF IInv, Rest, JobInv, Goes, service
    <3> QED BY <2>2, <2>3, <3>1, <3>2, <3>3 DEF IInv, Rest
  <2>6. CASE me.id = "entry"
    <3> DEFINE n == [me EXCEPT !.pc = "position", !.entry = order["entry"].filled]
    <3>1. order["entry"].filled \in 0 .. MaxQty
      BY <1>1 DEF Ids, BrokerOrder
    <3>2. PICK m \in Session : m = n /\ m.pc = "position" /\ m.entry = order["entry"].filled
      <4>1. n \in Session /\ n.pc = "position" /\ n.entry = order["entry"].filled
        BY <1>1, <3>1 DEF Session, Locations, Requests
      <4> QED BY <4>1
    <3>3. SessionOk(m)'
      BY <2>2, <2>4, <2>6, <3>2 DEF SessionOk, SaveOk, EnterOk, HoldOk,
         Submitting, Canceling, Sized, Entered, Watching
    <3>4. Goes(m)
      BY <2>6, <3>2 DEF Settled
    <3> QED BY <2>5, <3>2, <3>3, <3>4
  <2>7. CASE me.id = "stop" /\ me.goal = "outcome"
    <3> DEFINE n == [me EXCEPT !.pc = "exit_position"]
    <3>1. PICK m \in Session : m = n /\ m.pc = "exit_position"
      <4>1. n \in Session /\ n.pc = "exit_position"
        BY <1>1 DEF Session, Locations, Requests
      <4> QED BY <4>1
    <3>2. SessionOk(m)'
      BY <2>4, <3>1 DEF SessionOk, SaveOk, EnterOk, HoldOk,
         Submitting, Canceling, Sized, Entered, Watching
    <3>3. Goes(m)
      BY <2>7, <3>1 DEF Settled, Ask
    <3> QED BY <2>5, <3>1, <3>2, <3>3
  <2>8. CASE me.id = "stop" /\ me.goal # "outcome"
    <3>1. me' = Gone /\ orphan' = FALSE /\ job' = IF orphan THEN job ELSE "FAILED"
      BY <1>3, <2>8 DEF Settled, Stops, Ends
    <3>2. me' \in Session
      BY <3>1, StartedType
    <3>3. SessionOk(me)'
      BY <3>1 DEF Gone, SessionOk, SaveOk, EnterOk, HoldOk, Submitting, Canceling, Sized, Entered, Watching
    <3>4. job' # "COMPLETED" /\ job' \in {"PENDING", "RUNNING", "COMPLETED", "FAILED"}
      BY <1>1, <3>1 DEF IInv, TypeInv, Rest, JobInv
    <3> QED BY <2>2, <2>3, <3>1, <3>2, <3>3, <3>4 DEF IInv, Rest, TypeInv, JobInv, disk
  <2> QED BY <1>1, <2>6, <2>7, <2>8
<1> QED BY <1>2, <1>3

-----------------------------------------------------------------------------
(* The write-once files, and what interrupts a session.                     *)

\* The files other than the one written stay.
LEMMA FileWritten ==
  ASSUME file \in Files, NEW doc \in {"intent", "active", "decision", "outcome"}, NEW text,
         file' = [file EXCEPT ![doc] = text]
  PROVE  /\ file'.intent = IF doc = "intent" THEN text ELSE file.intent
         /\ file'.active = IF doc = "active" THEN text ELSE file.active
         /\ file'.decision = IF doc = "decision" THEN text ELSE file.decision
         /\ file'.outcome = IF doc = "outcome" THEN text ELSE file.outcome
         /\ file' = [intent |-> file'.intent, active |-> file'.active,
                     decision |-> file'.decision, outcome |-> file'.outcome]
<1>1. file = [intent |-> file.intent, active |-> file.active,
              decision |-> file.decision, outcome |-> file.outcome]
  BY DEF Files
<1>2. CASE doc = "intent"
  BY <1>1, <1>2
<1>3. CASE doc = "active"
  BY <1>1, <1>3
<1>4. CASE doc = "decision"
  BY <1>1, <1>4
<1>5. CASE doc = "outcome"
  BY <1>1, <1>5
<1> QED BY <1>2, <1>3, <1>4, <1>5

\* What is still claimed when only the files and the session change.
LEMMA Unmoved ==
  ASSUME UNCHANGED broker
  PROVE  /\ (EntryNone' <=> EntryNone) /\ (EntryDead' <=> EntryDead)
         /\ (EntryOver' <=> EntryOver) /\ (Flat' <=> Flat)
         /\ (OrdersInv' <=> OrdersInv) /\ \A id \in Ids : Placed(id)' <=> Placed(id)
BY DEF broker, EntryNone, EntryAsked, EntryDead, EntryOver, Flat, Placed, Position, OrdersInv

LEMMA SaveStep == ASSUME IInv, Save PROVE IInv'
<1> USE DEF Save
<1>1. /\ Alive /\ me \in Session /\ SaveOk(me) /\ file \in Files /\ activeQty \in 0 .. MaxQty
      /\ UNCHANGED broker /\ me.pc = "save" /\ OrdersInv'
  BY Unmoved DEF Alive, IInv, TypeInv, Rest, SessionOk
<1>2. me.doc \in {"intent", "active", "decision", "outcome"}
  BY <1>1 DEF SaveOk
<1>3. /\ file'.intent = IF me.doc = "intent" THEN me.text ELSE file.intent
      /\ file'.active = IF me.doc = "active" THEN me.text ELSE file.active
      /\ file'.decision = IF me.doc = "decision" THEN me.text ELSE file.decision
      /\ file'.outcome = IF me.doc = "outcome" THEN me.text ELSE file.outcome
      /\ file' = [intent |-> file'.intent, active |-> file'.active,
                  decision |-> file'.decision, outcome |-> file'.outcome]
  <2>1. PICK doc \in {"intent", "active", "decision", "outcome"} : doc = me.doc
    BY <1>2
  <2>2. PICK text : text = me.text
    OBVIOUS
  <2>3. file' = [file EXCEPT ![doc] = text]
    BY <2>1, <2>2
  <2> QED BY <1>1, <2>1, <2>2, <2>3, FileWritten
<1>4. file' \in Files
  BY <1>1, <1>3 DEF SaveOk, Files
<1>5. DiskInv'
  <2>1. DiskInv /\ slow' = slow
    BY <1>1 DEF IInv, Rest, broker
  <2>2. CASE me.doc = "intent"
    BY <1>1, <1>3, <2>1, <2>2, Unmoved DEF SaveOk, DiskInv
  <2>3. CASE me.doc = "active"
    BY <1>1, <1>3, <2>1, <2>3, Unmoved DEF SaveOk, DiskInv
  <2>4. CASE me.doc = "decision"
    BY <1>1, <1>3, <2>1, <2>4, Unmoved DEF SaveOk, DiskInv
  <2>5. CASE me.doc = "outcome"
    BY <1>1, <1>3, <2>1, <2>5, Unmoved DEF SaveOk, DiskInv
  <2> QED BY <1>2, <2>2, <2>3, <2>4, <2>5
<1>6. activeQty' \in 0 .. MaxQty
  BY <1>1 DEF Session
<1>7. ActiveIsCovered'
  BY <1>1, <1>3 DEF SaveOk, ActiveIsCovered, IInv, Rest, broker
<1>8. ASSUME me' \in Session, SessionOk(me)', UNCHANGED service
      PROVE  IInv'
  <2>1. JobInv'
    BY <1>1, <1>8 DEF IInv, Rest, JobInv, service
  <2> QED BY <1>1, <1>4, <1>5, <1>6, <1>7, <1>8, <2>1 DEF IInv, TypeInv, Rest, broker, service
<1>9. CASE me.doc = "intent"
  <2>1. PICK m \in Session : m = [me EXCEPT !.pc = "asset"] /\ m.pc = "asset"
    <3> DEFINE n == [me EXCEPT !.pc = "asset"]
    <3>1. n \in Session /\ n.pc = "asset"
      BY <1>1 DEF Session, Locations, Requests
    <3> QED BY <3>1
  <2>2. me' = m /\ UNCHANGED service
    BY <1>9, <2>1 DEF Ask, Goes
  <2>3. file'.intent = "whole" /\ file'.decision = "absent" /\ EntryNone'
    BY <1>1, <1>3, <1>9, Unmoved DEF SaveOk
  <2>4. SessionOk(me)'
    BY <2>1, <2>2, <2>3 DEF SessionOk, SaveOk, EnterOk, HoldOk,
       Submitting, Canceling, Sized, Entered, Watching
  <2> QED BY <1>8, <2>1, <2>2, <2>4
<1>10. CASE me.doc = "active"
  <2>1. PICK m \in Session :
          /\ m = [me EXCEPT !.pc = "save", !.doc = "decision", !.text = "OPEN"]
          /\ m.pc = "save" /\ m.doc = "decision" /\ m.text = "OPEN"
    <3> DEFINE n == [me EXCEPT !.pc = "save", !.doc = "decision", !.text = "OPEN"]
    <3>1. n \in Session /\ n.pc = "save" /\ n.doc = "decision" /\ n.text = "OPEN"
      BY <1>1 DEF Session, Locations
    <3> QED BY <3>1
  <2>2. me' = m /\ UNCHANGED service
    BY <1>10, <2>1 DEF Write, Goes
  <2>3. EntryOver'
    BY <1>1, <1>10, Unmoved DEF SaveOk
  <2>4. SessionOk(me)'
    BY <2>1, <2>2, <2>3 DEF SessionOk, SaveOk, EnterOk, HoldOk,
       Submitting, Canceling, Sized, Entered, Watching
  <2> QED BY <1>8, <2>1, <2>2, <2>4
<1>11. CASE me.doc = "outcome" \/ (me.doc = "decision" /\ me.text = "OPEN")
  <2>1. me' = [Started EXCEPT !.pc = "monitor"] /\ UNCHANGED service
    BY <1>11 DEF Goes
  <2>2. me' \in Session /\ me'.pc = "monitor"
    BY <2>1, StartedType DEF Session, Locations
  <2>3. SessionOk(me)'
    BY <2>2 DEF SessionOk, SaveOk, EnterOk, HoldOk, Submitting, Canceling, Sized, Entered, Watching
  <2> QED BY <1>8, <2>1, <2>2, <2>3
<1>12. CASE me.doc = "decision" /\ me.text # "OPEN"
  <2>1. me' = Gone /\ orphan' = FALSE /\ job' = IF orphan THEN job ELSE "COMPLETED"
    BY <1>12 DEF Finishes, Ends
  <2>2. me' \in Session /\ SessionOk(me)'
    BY <2>1, StartedType DEF Gone, SessionOk, SaveOk, EnterOk, HoldOk,
       Submitting, Canceling, Sized, Entered, Watching
  <2>3. EntryDead' /\ Flat'
    BY <1>1, <1>12, Unmoved DEF SaveOk, EntryOver
  <2>4. JobInv'
    BY <2>1, <2>3 DEF JobInv, Alive, Gone
  <2> QED BY <1>1, <1>4, <1>5, <1>6, <1>7, <2>1, <2>2, <2>4 DEF IInv, TypeInv, Rest, broker
<1> QED BY <1>2, <1>9, <1>10, <1>11, <1>12

LEMMA RequestFailsStep == ASSUME IInv, RequestFails PROVE IInv'
<1> USE DEF RequestFails
<1>1. Alive /\ me \in Session
  BY DEF Alive, Requests, IInv, TypeInv
<1>2. CASE me.pc \in {"find", "lost"}
  BY <1>2, BrokerErrorHere DEF Submitting
<1>3. CASE me.pc = "stop_position" /\ Submit([me EXCEPT !.goal = "decision"], "exit")
  <2> DEFINE m == [me EXCEPT !.goal = "decision"]
  <2>1. EntryOver /\ me.qty > 0
    BY <1>3 DEF IInv, Rest, SessionOk, HoldOk, Sized, Entered
  <2>2. m \in Session /\ m.qty > 0
    BY <1>1, <2>1 DEF Session
  <2> QED BY <1>1, <1>3, <2>1, <2>2, SubmitsNext DEF Ids
<1>4. CASE Stops
  BY <1>1, <1>4, StopsHere
<1> QED BY <1>2, <1>3, <1>4

\* A session that is killed leaves at most a torn file.
LEMMA KilledStep ==
  ASSUME IInv, Alive, MaybeTorn, me' = Gone, orphan' = FALSE, UNCHANGED broker,
         job' \in {"PENDING", "RUNNING", "COMPLETED", "FAILED"}, job' # "COMPLETED"
  PROVE  IInv'
<1>1. /\ file \in Files /\ activeQty' \in 0 .. MaxQty /\ SaveOk(me) /\ DiskInv
      /\ OrdersInv'
  BY Unmoved DEF IInv, TypeInv, Rest, SessionOk, MaybeTorn, disk
<1>2. me' \in Session /\ SessionOk(me)' /\ JobInv'
  BY StartedType DEF Gone, SessionOk, SaveOk, EnterOk, HoldOk, JobInv,
     Submitting, Canceling, Sized, Entered, Watching
<1>3. file' \in Files /\ DiskInv' /\ ActiveIsCovered'
  <2>1. CASE UNCHANGED disk
    BY <1>1, <2>1, Unmoved DEF disk, DiskInv, ActiveIsCovered, IInv, Rest, broker
  <2>2. CASE me.pc = "save" /\ file' = [file EXCEPT ![me.doc] = "torn"] /\ UNCHANGED activeQty
    <3>1. me.doc \in {"intent", "active", "decision", "outcome"} /\ (me.doc = "intent" => EntryNone)
      BY <1>1, <2>2 DEF SaveOk
    <3>2. /\ file'.intent = IF me.doc = "intent" THEN "torn" ELSE file.intent
          /\ file'.active = IF me.doc = "active" THEN "torn" ELSE file.active
          /\ file'.decision = IF me.doc = "decision" THEN "torn" ELSE file.decision
          /\ file'.outcome = IF me.doc = "outcome" THEN "torn" ELSE file.outcome
          /\ file' = [intent |-> file'.intent, active |-> file'.active,
                      decision |-> file'.decision, outcome |-> file'.outcome]
      BY <1>1, <2>2, <3>1, FileWritten
    <3>3. file' \in Files
      BY <1>1, <3>2 DEF Files
    <3>4. DiskInv'
      <4>1. slow' = slow
        BY DEF broker
      <4> QED BY <1>1, <3>1, <3>2, <4>1, Unmoved DEF DiskInv
    <3>5. ActiveIsCovered'
      BY <2>2, <3>2 DEF ActiveIsCovered, IInv, Rest, broker
    <3> QED BY <3>3, <3>4, <3>5
  <2> QED BY <2>1, <2>2 DEF MaybeTorn
<1> QED BY <1>1, <1>2, <1>3 DEF IInv, TypeInv, Rest, broker

LEMMA SessionKilledStep == ASSUME IInv, SessionKilled PROVE IInv'
<1>1. job' # "COMPLETED" /\ job' \in {"PENDING", "RUNNING", "COMPLETED", "FAILED"}
  BY DEF SessionKilled, Stops, Ends, IInv, TypeInv, Rest, JobInv
<1> QED BY <1>1, KilledStep DEF SessionKilled, Stops, Ends

\* A session that starts claims nothing yet.
LEMMA StartsHere ==
  ASSUME IInv, me' \in {me, Started}, UNCHANGED <<broker, disk>>, orphan' \in BOOLEAN,
         job' \in {"PENDING", "RUNNING", "FAILED"}
  PROVE  IInv'
<1> USE DEF IInv, Rest, broker, disk
<1>1. me' \in Session
  BY StartedType DEF TypeInv
<1>2. SessionOk(me)'
  <2>1. CASE me' = me
    BY <2>1 DEF SessionOk, SaveOk, EnterOk, HoldOk, Placed, EntryNone, EntryAsked, EntryDead, EntryOver, Flat, Position
  <2>2. CASE me' = Started
    BY <2>2, StartedType DEF SessionOk, SaveOk, EnterOk, HoldOk,
       Submitting, Canceling, Sized, Entered, Watching
  <2> QED BY <2>1, <2>2
<1>3. OrdersInv' /\ DiskInv' /\ ActiveIsCovered'
  BY DEF OrdersInv, DiskInv, ActiveIsCovered, Placed, Position, EntryNone, EntryAsked, EntryDead, EntryOver, Flat
<1>4. JobInv'
  BY DEF JobInv
<1> QED BY <1>1, <1>2, <1>3, <1>4 DEF TypeInv

LEMMA LaunchStep == ASSUME IInv, Launch PROVE IInv'
BY StartsHere DEF Launch, IInv, TypeInv

LEMMA OperatorRerunsStep == ASSUME IInv, OperatorReruns PROVE IInv'
BY StartsHere DEF OperatorReruns

LEMMA ServiceRestartsStep == ASSUME IInv, ServiceRestarts PROVE IInv'
<1>1. CASE orphan' = Alive /\ UNCHANGED <<me, disk>>
  BY <1>1, StartsHere DEF ServiceRestarts, Alive
<1>2. CASE Alive /\ me' = Gone /\ orphan' = FALSE /\ MaybeTorn
  BY <1>2, KilledStep DEF ServiceRestarts
<1> QED BY <1>1, <1>2 DEF ServiceRestarts

-----------------------------------------------------------------------------
(* The theorems.                                                            *)

LEMMA InitInv == Init => IInv
<1> SUFFICES ASSUME Init PROVE IInv
  OBVIOUS
<1> USE DEF Init
<1>1. TypeInv
  <2>1. NoOrder \in BrokerOrder
    BY DEF NoOrder, BrokerOrder, Statuses
  <2>2. file \in Files
    BY DEF Files
  <2>3. me \in Session
    BY StartedType
  <2>4. MaxQty \in Nat
    OBVIOUS
  <2> HIDE DEF NoOrder
  <2>5. order \in [Ids -> BrokerOrder] /\ late \in [Ids -> 0 .. MaxQty]
    BY <2>1, <2>4
  <2>6. forced \in BOOLEAN /\ slow \in BOOLEAN /\ orphan \in BOOLEAN
    OBVIOUS
  <2>7. activeQty \in 0 .. MaxQty
    BY <2>4
  <2>8. job \in {"PENDING", "RUNNING", "COMPLETED", "FAILED"}
    OBVIOUS
  <2> HIDE DEF Init
  <2> QED BY <2>2, <2>3, <2>5, <2>6, <2>7, <2>8 DEF TypeInv
<1>2. OrdersInv /\ DiskInv /\ JobInv /\ ActiveIsCovered
  BY DEF OrdersInv, DiskInv, JobInv, ActiveIsCovered, NoOrder, Placed, Working, Position, Ids, EntryNone
<1>3. SessionOk(me)
  BY DEF Gone, SessionOk, SaveOk, EnterOk, HoldOk, Submitting, Canceling, Sized, Entered, Watching
<1> QED BY <1>1, <1>2, <1>3 DEF IInv, Rest

LEMMA StutterInv == ASSUME IInv, UNCHANGED vars PROVE IInv'
<1>1. me' \in {me, Started} /\ UNCHANGED <<broker, disk, service>>
  BY DEF vars
<1> USE DEF IInv, Rest, broker, disk, service
<1>2. TypeInv'
  BY <1>1 DEF TypeInv, vars
<1>3. OrdersInv' /\ DiskInv' /\ ActiveIsCovered' /\ JobInv'
  BY <1>1 DEF vars, OrdersInv, DiskInv, ActiveIsCovered, JobInv, Alive, Placed, Position,
     EntryNone, EntryAsked, EntryDead, EntryOver, Flat
<1>4. SessionOk(me)'
  BY <1>1 DEF vars, SessionOk, SaveOk, EnterOk, HoldOk, Placed, Position,
     EntryNone, EntryAsked, EntryDead, EntryOver, Flat
<1> QED BY <1>2, <1>3, <1>4

LEMMA NextInv == IInv /\ [Next]_vars => IInv'
<1> SUFFICES ASSUME IInv, [Next]_vars PROVE IInv'
  OBVIOUS
<1>1. CASE SessionStep
  BY <1>1, LoadStep, AssetStep, FindStep, PostStep, PostRefusedStep, LostStep,
     CancelStep, DeleteStep, SettleStep, EntryReadStep, PositionFirstStep, PositionRecoveredStep,
     RecoverStep, RecoverAccountStep, PostFillRiskStep, RecoverStopStep, StopCheckStep,
     StopPositionStep, ClosePositionStep, ExitReadStep, ExitFlatStep, ConcludeStep,
     MonitorStep, WatchStopStep, WatchPositionStep, WatchClockStep, ExitPositionStep, SaveStep
     DEF SessionStep
<1>2. CASE BrokerStep
  BY <1>2, FillStep, DieStep, CancelSettlesStep, ArrivesStep, DayEndsStep DEF BrokerStep
<1>3. CASE Failure
  BY <1>3, PostUnansweredStep, RequestFailsStep, SessionKilledStep, ServiceRestartsStep,
     OperatorRerunsStep DEF Failure
<1>4. CASE Launch
  BY <1>4, LaunchStep
<1>5. CASE UNCHANGED vars
  BY <1>5, StutterInv
<1> QED BY <1>1, <1>2, <1>3, <1>4, <1>5 DEF Next

LEMMA Inductive == Spec => []IInv
<1> QED BY InitInv, NextInv, PTL DEF Spec

\* The state keeps its types, and the broker never holds a negative position:
\* nothing is sold that was not bought, whatever is submitted twice or late.
THEOREM TypeCorrect == Spec => []TypeOK
<1>1. IInv => TypeOK
  <2> SUFFICES ASSUME IInv PROVE TypeOK
    OBVIOUS
  <2>1. me.pc \in Locations /\ me.id \in Ids /\ me.qty \in 0 .. MaxQty /\ me.entry \in 0 .. MaxQty
    BY DEF IInv, TypeInv, Session
  <2> QED BY <2>1, PositionType DEF TypeOK, IInv, TypeInv, Files, BrokerOrder
<1> QED BY <1>1, Inductive, PTL

\* A decision or an outcome that says no trade, or flat, stays true of the
\* broker, unless an order moved after the session had
\* looked at it for the last time.
THEOREM FlatClaims == Spec => []FlatClaimsHold
<1>1. IInv => FlatClaimsHold
  BY DEF IInv, Rest, DiskInv, FlatClaimsHold, Flat
<1> QED BY <1>1, Inductive, PTL

\* A job the supervisor holds COMPLETED left no position behind.
THEOREM CompletedFlat == Spec => []CompletedIsFlat
<1>1. IInv => CompletedIsFlat
  BY DEF IInv, Rest, JobInv, CompletedIsFlat, Flat
<1> QED BY <1>1, Inductive, PTL

\* The active record names a stop for exactly its shares, and never more than
\* the entry bought.
THEOREM ActiveCovered == Spec => []ActiveIsCovered
<1>1. IInv => ActiveIsCovered
  BY DEF IInv, Rest
<1> QED BY <1>1, Inductive, PTL
=============================================================================
