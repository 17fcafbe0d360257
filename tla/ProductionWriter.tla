-------------------------- MODULE ProductionWriter --------------------------
(***************************************************************************)
(* The production evidence writer and its one client.                      *)
(*                                                                         *)
(* ProductionRemoteWriter (in the runtime's process) opens one connection   *)
(* per request: a HELLO that starts a session, or a WRITE of one envelope.  *)
(* ProductionWriter answers each connection in a thread of its own and      *)
(* takes no lock, so the steps of _persist interleave with those of a       *)
(* request whose client has already timed out.                              *)
(*                                                                         *)
(* _persist: check session, sequence and predecessor; create the record;    *)
(* create the acknowledgement; write the generation file once; advance      *)
(* expected_sequence; set prior_envelope; answer.                           *)
(*                                                                         *)
(* A file is created by giving a finished temporary file its name, a second *)
(* link, and then unlinking the temporary one.  A record both of whose names *)
(* stay is refused whenever it is written again.                            *)
(***************************************************************************)
EXTENDS Naturals, Sequences, FiniteSets

CONSTANTS
  NumIntents,         \* intents the runtime offers, one after the other
  RecordOf,           \* record_fingerprint of each intent
  Sessions,           \* session names; one is reused when nothing names it
  Handlers,           \* handler threads alive at once
  GenerationFaults,   \* a generation file may be left torn, or fail after
                      \* it was written
  MaxTimeouts,        \* bound: client timeouts
  MaxFaults,          \* bound: failed file operations of the writer
  MaxCrashes          \* bound: crashes of the writer's process

Intents == 1 .. NumIntents

ASSUME WriterAssumption ==
  /\ NumIntents \in Nat \ {0} /\ RecordOf \in [Intents -> Nat \ {0}]
  /\ Sessions \subseteq Nat \ {0} /\ Handlers \subseteq Nat \ {0}
  /\ GenerationFaults \in BOOLEAN
  /\ MaxTimeouts \in Nat /\ MaxFaults \in Nat /\ MaxCrashes \in Nat

VARIABLES
  cur,          \* the intent at the head of the runtime's queue
  outcome,      \* the final answer of each intent
  sender,       \* the client's session state, or NoSender
  conn,         \* the handler the client waits for, or 0
  thread,       \* what each handler thread is doing
  up,           \* the writer's process runs
  session,      \* session_id, 0 before the first HELLO
  expected,     \* expected_sequence
  prior,        \* prior_envelope
  records,      \* files under records/: fingerprint -> intent
  linked,       \* those of them whose temporary file is still linked
  acks,         \* files under sessions/: <<session, n>> -> acknowledgement
  gens,         \* files under index/generations/: n -> generation
  timeouts, faults, crashes

client == <<cur, outcome, sender, conn>>
memory == <<session, expected, prior>>
files  == <<records, linked, acks, gens>>
counts == <<timeouts, faults, crashes>>
vars == <<client, thread, up, memory, files, counts>>

-----------------------------------------------------------------------------
(* An envelope is named by its session and sequence: a session builds each  *)
(* sequence once.                                                           *)
Genesis == <<0, 0>>
EnvelopeName == (Sessions \cup {0}) \X Nat
NoSender == [session |-> 0, next |-> 0, prior |-> Genesis]

Envelope == [session : Sessions, n : Nat, prior : EnvelopeName, intent : Intents]
NameOf(e) == <<e.session, e.n>>

Torn == [name |-> Genesis, prior |-> Genesis, intent |-> 0]
GenerationOf(e) == [name |-> NameOf(e), prior |-> e.prior, intent |-> e.intent]

NoFrame == [session |-> 0, n |-> 0, prior |-> Genesis, intent |-> 0]
Reply(status, n, p) == [status |-> status, n |-> n, prior |-> p]
NoReply == Reply("NONE", 0, Genesis)
Idle == [pc |-> "free", frame |-> NoFrame, reply |-> NoReply]

Complete == {n \in DOMAIN gens : gens[n] # Torn}
Latest == CHOOSE n \in Complete : \A m \in Complete : m <= n

PermanentFailures == {"IPC_PROTOCOL_REJECTED"}

\* secrets.token_hex(16) never repeats; the model reuses a name once no
\* thread, file or side of the session refers to it.
NamedSessions ==
  {session, sender.session, sender.prior[1]}
  \cup UNION {{thread[h].frame.session, thread[h].frame.prior[1]} : h \in Handlers}
  \cup {gens[n].name[1] : n \in DOMAIN gens}
  \cup {gens[n].prior[1] : n \in DOMAIN gens} \cup {prior[1]}

FreshSession(s) == s \notin NamedSessions

\* A file that is there stays.
Created(directory, name, content) ==
  [f \in DOMAIN directory \cup {name} |->
     IF f \in DOMAIN directory THEN directory[f] ELSE content]

-----------------------------------------------------------------------------
Init ==
  /\ cur = 1 /\ outcome = [i \in Intents |-> "pending"]
  /\ sender = NoSender /\ conn = 0
  /\ thread = [h \in Handlers |-> Idle]
  /\ up = TRUE /\ session = 0 /\ expected = 1 /\ prior = Genesis
  /\ records = <<>> /\ linked = {} /\ acks = <<>> /\ gens = <<>>
  /\ timeouts = 0 /\ faults = 0 /\ crashes = 0

(* The client: write_intent.                                                *)

Offering == cur <= NumIntents /\ outcome[cur] = "pending" /\ conn = 0

Open(h, pc, frame) ==
  /\ up /\ thread[h].pc = "free"
  /\ thread' = [thread EXCEPT ![h] = [pc |-> pc, frame |-> frame, reply |-> NoReply]]
  /\ conn' = h

SendHello(h) ==
  /\ Offering /\ sender = NoSender
  /\ \E s \in Sessions :
       /\ FreshSession(s) /\ \A t \in Sessions : t < s => ~FreshSession(t)
       /\ Open(h, "hello", [NoFrame EXCEPT !.session = s])
       /\ acks' = [a \in {k \in DOMAIN acks : k[1] # s} |-> acks[a]]
  /\ UNCHANGED <<cur, outcome, sender, up, memory, records, linked, gens, counts>>

SendWrite(h) ==
  /\ Offering /\ sender # NoSender
  /\ Open(h, "check", [session |-> sender.session, n |-> sender.next,
                       prior |-> sender.prior, intent |-> cur])
  /\ sender' = [session |-> sender.session, next |-> sender.next + 1,
                 prior |-> <<sender.session, sender.next>>]
  /\ UNCHANGED <<cur, outcome, up, memory, files, counts>>

\* WRITER_UNAVAILABLE: the session is given up and the intent kept.
SendRefused ==
  /\ Offering /\ sender # NoSender /\ ~up
  /\ sender' = NoSender
  /\ UNCHANGED <<cur, outcome, conn, thread, up, memory, files, counts>>

Timeout ==
  /\ conn # 0 /\ thread[conn].pc \notin {"replied", "lost"}
  /\ timeouts < MaxTimeouts /\ timeouts' = timeouts + 1
  /\ conn' = 0 /\ sender' = NoSender
  /\ UNCHANGED <<cur, outcome, thread, up, memory, files, faults, crashes>>

\* The runtime replaces a permanently rejected intent and goes on; after any
\* other failure it offers the same intent again.
Settle(result) ==
  /\ outcome' = [outcome EXCEPT ![cur] = result]
  /\ cur' = IF result = "incorrect" THEN cur ELSE cur + 1

Fail(class) ==
  /\ sender' = NoSender
  /\ IF class \in PermanentFailures THEN Settle("rejected") ELSE UNCHANGED <<cur, outcome>>

Close == conn' = 0 /\ thread' = [thread EXCEPT ![conn] = Idle]

\* _verify_durable_ack reads the acknowledgement and the record back.
Verified(e, status) ==
  /\ NameOf(e) \in DOMAIN acks /\ acks[NameOf(e)] = [status |-> status, intent |-> e.intent]
  /\ RecordOf[e.intent] \in DOMAIN records /\ records[RecordOf[e.intent]] = e.intent

TakeReply ==
  /\ conn # 0 /\ thread[conn].pc = "replied"
  /\ Close
  /\ LET r == thread[conn].reply
         e == thread[conn].frame
     IN  \/ /\ r.status = "READY"
            /\ sender' = [session |-> e.session, next |-> r.n, prior |-> r.prior]
            /\ UNCHANGED <<cur, outcome>>
         \/ /\ r.status \in {"ACCEPTED", "DUPLICATE"}
            /\ IF Verified(e, r.status)
               THEN Settle("accepted") /\ UNCHANGED sender
               ELSE Settle("incorrect") /\ sender' = NoSender
         \/ /\ r.status \notin {"READY", "ACCEPTED", "DUPLICATE"}
            /\ Fail(r.status)
  /\ UNCHANGED <<up, memory, files, counts>>

\* The writer died: a reset connection is an OSError, an empty answer is not
\* JSON, and a ValueError is classed as a protocol rejection.
TakeLost ==
  /\ conn # 0 /\ thread[conn].pc = "lost"
  /\ Close
  /\ Fail("WRITER_UNAVAILABLE") \/ Fail("IPC_PROTOCOL_REJECTED")
  /\ UNCHANGED <<up, memory, files, counts>>

-----------------------------------------------------------------------------
(* The writer's handler threads.                                            *)

At(h, pc) == up /\ thread[h].pc = pc

Goto(h, pc) == thread' = [thread EXCEPT ![h].pc = pc]

\* An answer reaches the client that still waits; otherwise the thread ends.
Answer(h, r) ==
  thread' = [thread EXCEPT ![h] =
               IF conn = h THEN [pc |-> "replied", frame |-> @.frame, reply |-> r] ELSE Idle]

Reject(h, class) == Answer(h, Reply(class, 0, Genesis))

Fault == faults < MaxFaults /\ faults' = faults + 1
NoFault == UNCHANGED faults

\* Mutant: the handshake answers without opening the session.
HelloWithoutSession(h) ==
  /\ At(h, "hello")
  /\ NoFault /\ Answer(h, Reply("READY", expected, prior))
  /\ UNCHANGED <<client, up, memory, files, timeouts, crashes>>

\* The status file is written after the session is set; the client takes its
\* failure for IPC_AUTH_REJECTED and connects again.
Hello(h) ==
  /\ At(h, "hello")
  /\ session' = thread[h].frame.session
  /\ \/ NoFault /\ Answer(h, Reply("READY", expected, prior))
     \/ Fault /\ Reject(h, "WRITE_FAILED")
  /\ UNCHANGED <<client, up, expected, prior, files, timeouts, crashes>>

Check(h) ==
  /\ At(h, "check")
  /\ LET e == thread[h].frame
     IN  \/ e.session # session /\ Reject(h, "IPC_AUTH_REJECTED")
         \/ /\ e.session = session
            /\ e.n # expected \/ e.prior # prior
            /\ Reject(h, "IPC_PROTOCOL_REJECTED")
         \/ /\ e.session = session /\ e.n = expected /\ e.prior = prior
            /\ Goto(h, "record")
  /\ UNCHANGED <<client, up, memory, files, counts>>

Stored(h, status) ==
  thread' = [thread EXCEPT ![h] =
               [pc |-> "ack", frame |-> @.frame, reply |-> Reply(status, 0, Genesis)]]

\* Mutant: an error of the record store is swallowed.
LinkRecordUnchecked(h) ==
  /\ At(h, "record") /\ RecordOf[thread[h].frame.intent] \notin DOMAIN records
  /\ \/ NoFault /\ records' = Created(records, RecordOf[thread[h].frame.intent], thread[h].frame.intent)
     \/ Fault /\ UNCHANGED records
  /\ Stored(h, "ACCEPTED")
  /\ UNCHANGED <<client, up, memory, linked, acks, gens, timeouts, crashes>>

\* The record gets its name.  One that is there must have that name alone
\* and carry the same intent.
LinkRecord(h) ==
  /\ At(h, "record")
  /\ LET i == thread[h].frame.intent
         r == RecordOf[i]
     IN  \/ /\ r \notin DOMAIN records /\ NoFault
            /\ records' = Created(records, r, i) /\ linked' = linked \cup {r}
            /\ Goto(h, "unlink")
         \/ /\ r \in DOMAIN records \ linked /\ records[r] = i
            /\ Stored(h, "DUPLICATE")
            /\ NoFault /\ UNCHANGED <<records, linked>>
         \/ /\ r \in DOMAIN records
            /\ r \in linked \/ records[r] # i
            /\ Reject(h, "WRITE_FAILED") /\ NoFault /\ UNCHANGED <<records, linked>>
         \/ Fault /\ Reject(h, "WRITE_FAILED") /\ UNCHANGED <<records, linked>>
  /\ UNCHANGED <<client, up, memory, acks, gens, timeouts, crashes>>

\* The temporary file is unlinked.  After an error it is unlinked once more,
\* which may fail as well.
UnlinkTemp(h) ==
  /\ At(h, "unlink")
  /\ LET r == RecordOf[thread[h].frame.intent]
     IN  \/ linked' = linked \ {r} /\ Stored(h, "ACCEPTED") /\ NoFault
         \/ linked' \in {linked, linked \ {r}} /\ Reject(h, "WRITE_FAILED") /\ Fault
  /\ UNCHANGED <<client, up, memory, records, acks, gens, timeouts, crashes>>

\* The answer of atomic_create is not looked at.  It refuses a file that is
\* there; none of this name is (AckInv in the proofs), and a name is never
\* used again, so a temporary file left linked to it refuses nothing.  The
\* file may be there although its creation failed.
StoreAck(h) ==
  /\ At(h, "ack")
  /\ LET e == thread[h].frame
         a == [status |-> thread[h].reply.status, intent |-> e.intent]
     IN  \/ /\ acks' = Created(acks, NameOf(e), a)
            /\ Goto(h, "generation") /\ NoFault
         \/ /\ acks' \in {acks, Created(acks, NameOf(e), a)}
            /\ Reject(h, "WRITE_FAILED") /\ Fault
  /\ UNCHANGED <<client, up, memory, records, linked, gens, timeouts, crashes>>

\* Mutant: the generation file is replaced rather than written once.
OverwriteGeneration(h) ==
  /\ At(h, "generation")
  /\ LET e == thread[h].frame
     IN  gens' = [Created(gens, e.n, Torn) EXCEPT ![e.n] = GenerationOf(e)]
  /\ Goto(h, "advance")
  /\ UNCHANGED <<client, up, memory, records, linked, acks, counts>>

\* Two generations of one sequence never have equal bytes (checkpointAt), so
\* an existing file is a conflict.
StoreGeneration(h) ==
  /\ At(h, "generation")
  /\ LET e == thread[h].frame
     IN  \/ /\ e.n \notin DOMAIN gens
            /\ gens' = Created(gens, e.n, GenerationOf(e))
            /\ Goto(h, "advance") /\ NoFault
         \/ /\ e.n \in DOMAIN gens
            /\ Reject(h, "WRITE_FAILED") /\ NoFault /\ UNCHANGED gens
         \/ Fault /\ Reject(h, "WRITE_FAILED") /\ UNCHANGED gens
         \/ /\ GenerationFaults /\ e.n \notin DOMAIN gens /\ Fault
            /\ \E g \in {GenerationOf(e), Torn} : gens' = Created(gens, e.n, g)
            /\ Reject(h, "WRITE_FAILED")
  /\ UNCHANGED <<client, up, memory, records, linked, acks, timeouts, crashes>>

Advance(h) ==
  /\ At(h, "advance")
  /\ expected' = expected + 1
  /\ Goto(h, "link")
  /\ UNCHANGED <<client, up, session, prior, files, counts>>

\* prior_envelope is a statement of its own; then the status file, whose
\* failure is answered as WRITE_FAILED although the record is committed.
Link(h) ==
  /\ At(h, "link")
  /\ prior' = NameOf(thread[h].frame)
  /\ \/ NoFault /\ Answer(h, thread[h].reply)
     \/ Fault /\ Reject(h, "WRITE_FAILED")
  /\ UNCHANGED <<client, up, session, expected, files, timeouts, crashes>>

-----------------------------------------------------------------------------
\* A crash ends every thread; one in the middle of a generation file may
\* leave it torn, one about to unlink a temporary file leaves it linked.  The
\* client that waits finds its connection lost.
Crash ==
  /\ up /\ crashes < MaxCrashes /\ crashes' = crashes + 1
  /\ up' = FALSE
  /\ thread' = [h \in Handlers |->
                  IF h = conn /\ thread[h].pc # "replied"
                  THEN [thread[h] EXCEPT !.pc = "lost"]
                  ELSE IF h = conn THEN thread[h] ELSE Idle]
  /\ \/ UNCHANGED gens
     \/ /\ GenerationFaults
        /\ \E h \in Handlers :
             /\ At(h, "generation") /\ thread[h].frame.n \notin DOMAIN gens
             /\ gens' = Created(gens, thread[h].frame.n, Torn)
  /\ UNCHANGED <<client, memory, records, linked, acks, timeouts, faults>>

\* Mutant: the sequence of the newest generation is expected again.
LoadSame == IF Complete = {} THEN 0 ELSE Latest

\* _load_checkpoint skips the files it cannot read.
LoadExpected == IF Complete = {} THEN 1 ELSE Latest + 1
LoadPrior == IF Complete = {} THEN Genesis ELSE gens[Latest].name

Restart ==
  /\ ~up /\ up' = TRUE
  /\ session' = 0 /\ expected' = LoadExpected /\ prior' = LoadPrior
  /\ UNCHANGED <<client, thread, files, counts>>

-----------------------------------------------------------------------------
ClientStep ==
  \/ \E h \in Handlers : SendHello(h) \/ SendWrite(h)
  \/ SendRefused \/ TakeReply \/ TakeLost

HandlerStep(h) ==
  \/ Hello(h) \/ Check(h) \/ LinkRecord(h) \/ UnlinkTemp(h) \/ StoreAck(h)
  \/ StoreGeneration(h) \/ Advance(h) \/ Link(h)

Next ==
  \/ ClientStep \/ Timeout \/ Crash \/ Restart
  \/ \E h \in Handlers : HandlerStep(h)

Spec == Init /\ [][Next]_vars

(* The runtime's tick keeps offering the head of its queue, threads run, and *)
(* the service manager restarts the writer.                                 *)
Fairness ==
  /\ WF_vars(ClientStep) /\ WF_vars(Restart)
  /\ \A h \in Handlers : WF_vars(HandlerStep(h))

FairSpec == Spec /\ Fairness

-----------------------------------------------------------------------------
(* Properties.                                                              *)

TypeOK ==
  /\ cur \in 1 .. NumIntents + 1
  /\ outcome \in [Intents -> {"pending", "accepted", "rejected", "incorrect"}]
  /\ sender \in [session : Sessions \cup {0}, next : Nat, prior : EnvelopeName]
  /\ conn \in Handlers \cup {0}
  /\ \A h \in Handlers :
       /\ thread[h].pc \in {"free", "hello", "check", "record", "unlink", "ack",
                            "generation", "advance", "link", "replied", "lost"}
       /\ thread[h].pc \in {"check", "record", "unlink", "ack", "generation", "advance", "link"}
            => thread[h].frame \in Envelope
  /\ up \in BOOLEAN /\ session \in Sessions \cup {0}
  /\ expected \in Nat \ {0} /\ prior \in EnvelopeName
  /\ \A r \in DOMAIN records : records[r] \in Intents
  /\ linked \subseteq DOMAIN records
  /\ \A n \in DOMAIN gens : gens[n].intent \in Intents \cup {0}

\* The readable generation files are 1 .. k without a gap, an unreadable one
\* can only be the next, and the running writer expects k + 1 (k while the
\* winner of generation k has not advanced): racing threads and crashes
\* neither skip nor repeat a sequence.
GenerationsContiguous ==
  /\ Complete = 1 .. Cardinality(Complete)
  /\ DOMAIN gens \subseteq 1 .. Cardinality(Complete) + 1
  /\ up => expected \in {Cardinality(Complete), Cardinality(Complete) + 1}

\* An acceptance on its way to the client is of an envelope that owns its
\* generation, whose acknowledgement and record are on disk: a thread that
\* lost the race for the generation never answers ACCEPTED or DUPLICATE.
AcceptanceOwnsGeneration ==
  \A h \in Handlers :
    thread[h].pc = "replied" /\ thread[h].reply.status \in {"ACCEPTED", "DUPLICATE"} =>
      LET e == thread[h].frame
      IN  /\ e.n \in DOMAIN gens /\ gens[e.n] = GenerationOf(e)
          /\ Verified(e, thread[h].reply.status)

\* The committed log: the readable generation files in order.
CommittedLog == [n \in 1 .. Cardinality(Complete) |-> gens[n].intent]

Log == INSTANCE EvidenceLog WITH log <- CommittedLog

\* The writer keeps its promise: commits only append, an accepted intent is
\* committed, no answer is given twice, and the read-back never fails.
ImplementsEvidenceLog == Log!Spec

\* The writer is stuck behind a generation file it neither advanced past nor
\* replaces.
Stuck == expected \in DOMAIN gens

\* The record of the intent is on disk and is refused whenever it is written:
\* it carries another intent, or its temporary file is still linked.
Refused(i) ==
  LET r == RecordOf[i]
  IN  r \in DOMAIN records /\ (records[r] # i \/ r \in linked)

\* Every intent the runtime offers gets a final answer, through time-outs,
\* failed files and crashes, unless the one offered waits for ever: behind a
\* generation file that blocks the sequence, or for a record that another
\* intent wrote or that was left with two names.
EveryIntentAnswered ==
  <>(cur > NumIntents) \/ <>[]Stuck \/ <>[](cur <= NumIntents /\ Refused(cur))

\* A permanent rejection means the record was not, and will not be, written.
PermanentMeansNotWritten ==
  \A i \in Intents : outcome[i] = "rejected" =>
    \A n \in Complete : gens[n].intent # i
=============================================================================
