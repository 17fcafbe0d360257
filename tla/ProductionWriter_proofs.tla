----------------------- MODULE ProductionWriter_proofs -----------------------
(***************************************************************************)
(* Theorems about the production writer and its client, for any number of*)
(* intents, sessions and handler threads and with every bound on the     *)
(* faults: its generations are contiguous, what it accepts owns its      *)
(* generation, it implements EvidenceLog, and no intent is refused for   *)
(* good unless the client timed out or the writer crashed.               *)
(*                                                                       *)
(* The threads share memory and files without a lock.  The invariant says*)
(* what each thread may still assume: what its envelope is (FrameInv), which*)
(* files its own steps left (AckInv, DiskInv), that no other thread bears*)
(* its envelope's name (NameInv), and where the sequence stands (ChainInv).*)
(***************************************************************************)
EXTENDS ProductionWriter, FiniteSetTheorems, TLAPS

USE WriterAssumption

-----------------------------------------------------------------------------
(* The inductive invariant.                                              *)

Working == {"check", "record", "unlink", "ack", "generation", "advance", "link"}
Pcs == Working \cup {"free", "hello", "replied", "lost"}
Agreed == {"ACCEPTED", "DUPLICATE"}

Frame == [session : Sessions \cup {0}, n : Nat, prior : EnvelopeName, intent : Intents \cup {0}]
Statuses == Agreed \cup
  {"NONE", "READY", "IPC_AUTH_REJECTED", "IPC_PROTOCOL_REJECTED", "WRITE_FAILED"}
Answers == [status : Statuses, n : Nat, prior : EnvelopeName]
Thread == [pc : Pcs, frame : Frame, reply : Answers]
Generation == [name : EnvelopeName, prior : EnvelopeName, intent : Intents \cup {0}]
Sender == [session : Sessions \cup {0}, next : Nat, prior : EnvelopeName]

Live(h) == thread[h].pc # "free"
Accepted(h) == thread[h].pc = "replied" /\ thread[h].reply.status \in Agreed

TypeInv ==
  /\ cur \in 1 .. NumIntents + 1
  /\ outcome \in [Intents -> {"pending", "accepted", "rejected", "incorrect"}]
  /\ sender \in Sender /\ conn \in Handlers \cup {0}
  /\ thread \in [Handlers -> Thread]
  /\ up \in BOOLEAN /\ session \in Sessions \cup {0}
  /\ expected \in Nat \ {0} /\ prior \in EnvelopeName
  /\ \A r \in DOMAIN records : records[r] \in Intents
  /\ linked \subseteq DOMAIN records
  /\ DOMAIN acks \subseteq EnvelopeName
  /\ \A n \in DOMAIN gens : gens[n] \in Generation

\* A thread's frame is a HELLO (intent 0) or an envelope, of an intent the
\* client has reached; only the thread the client waits for has an answer.
FrameInv ==
  \A h \in Handlers :
    LET t == thread[h]
    IN  /\ t.pc # "free" => t.frame.session \in Sessions
        /\ t.pc \in Working => t.frame.intent # 0
        /\ t.pc = "hello" => t.frame.intent = 0
        /\ ~up => t.pc \in {"free", "replied", "lost"}
        /\ t.pc \in {"replied", "lost"} => conn = h
        /\ conn = h => t.pc # "free"
        /\ t.frame.intent <= cur
        /\ t.pc \in {"ack", "generation", "advance", "link"} => t.reply.status \in Agreed
        /\ t.pc = "replied" /\ t.reply.status = "READY" => t.frame.intent = 0
        /\ Accepted(h) => t.frame.intent # 0

\* The intents before the current one have their answer, and no others.
ClientInv ==
  /\ sender = NoSender \/ sender.session \in Sessions
  /\ conn # 0 => cur <= NumIntents /\ thread[conn].frame.intent \in {0, cur}
  /\ \A j \in Intents :
       outcome[j] \in (IF j < cur THEN {"accepted", "rejected"} ELSE {"pending"})

\* k readable generations: the first k, and at most a torn one behind them.
Whole(k) ==
  /\ Complete = 1 .. k /\ DOMAIN gens \subseteq 1 .. k + 1
  /\ up => expected \in {k, k + 1}

\* The one thread that may advance has written the generation expected.
ChainInv ==
  /\ \E k \in Nat : Whole(k)
  /\ \A h \in Handlers :
       /\ thread[h].pc \in {"record", "unlink", "ack", "generation"} =>
            thread[h].frame.n \in 1 .. expected
       /\ thread[h].pc = "advance" => thread[h].frame.n = expected /\ expected \in Complete
       /\ \A g \in Handlers : thread[h].pc = "advance" /\ thread[g].pc = "advance" => h = g

\* No two threads bear one name, a HELLO has its session to itself, and the
\* client's next envelope is new.
NameInv ==
  /\ \A h \in Handlers : Live(h) =>
       /\ thread[h].frame.session = sender.session =>
            thread[h].frame.intent # 0 /\ thread[h].frame.n < sender.next
       /\ \A g \in Handlers \ {h} : Live(g) => NameOf(thread[g].frame) # NameOf(thread[h].frame)
       /\ thread[h].frame.intent = 0 =>
            /\ \A g \in Handlers \ {h} :
                 Live(g) => thread[g].frame.session # thread[h].frame.session
            /\ \A a \in DOMAIN acks : a[1] # thread[h].frame.session
  /\ sender # NoSender => \A a \in DOMAIN acks : a[1] = sender.session => a[2] < sender.next

\* The acknowledgement of a name is written by the one thread that bears it.
AckInv ==
  \A h \in Handlers :
    LET t == thread[h]
        name == NameOf(t.frame)
    IN  /\ t.pc \in {"check", "record", "unlink", "ack"} => name \notin DOMAIN acks
        /\ t.pc \in {"generation", "advance", "link"} \/ Accepted(h) =>
             name \in DOMAIN acks
             /\ acks[name] = [status |-> t.reply.status, intent |-> t.frame.intent]

\* A thread past a file finds it as it left it.
DiskInv ==
  \A h \in Handlers :
    LET e == thread[h].frame
    IN  /\ thread[h].pc \in {"unlink", "ack", "generation", "advance", "link"} \/ Accepted(h) =>
             RecordOf[e.intent] \in DOMAIN records /\ records[RecordOf[e.intent]] = e.intent
        /\ thread[h].pc \in {"advance", "link"} \/ Accepted(h) =>
             e.n \in DOMAIN gens /\ gens[e.n] = GenerationOf(e)

IInv == TypeInv /\ FrameInv /\ ClientInv /\ ChainInv /\ NameInv /\ AckInv /\ DiskInv

-----------------------------------------------------------------------------
(* Data.                                                                   *)

LEMMA Names ==
  /\ Genesis \in EnvelopeName /\ NoSender \in Sender /\ NoFrame \in Frame
  /\ NoReply \in Answers /\ Idle \in Thread /\ Torn \in Generation
  /\ Idle.pc = "free" /\ Idle.frame = NoFrame
<1>1. Genesis \in EnvelopeName
  BY DEF Genesis, EnvelopeName
<1>2. NoSender \in Sender /\ NoFrame \in Frame /\ Torn \in Generation
  BY <1>1 DEF NoSender, Sender, NoFrame, Frame, Torn, Generation
<1>3. NoReply \in Answers
  BY <1>1 DEF NoReply, Reply, Answers, Statuses
<1> QED BY <1>1, <1>2, <1>3 DEF Idle, Thread, Pcs

LEMMA ThreadFields ==
  ASSUME NEW t \in Thread
  PROVE  /\ t.pc \in Pcs /\ t.frame \in Frame /\ t.reply \in Answers
         /\ t = [pc |-> t.pc, frame |-> t.frame, reply |-> t.reply]
  BY DEF Thread

LEMMA FrameFields ==
  ASSUME NEW e \in Frame
  PROVE  /\ e.session \in Sessions \cup {0} /\ e.n \in Nat /\ e.prior \in EnvelopeName
         /\ e.intent \in Intents \cup {0} /\ NameOf(e) \in EnvelopeName
         /\ NameOf(e)[1] = e.session /\ NameOf(e)[2] = e.n
         /\ GenerationOf(e) \in Generation /\ GenerationOf(e).intent = e.intent
         /\ GenerationOf(e).name = NameOf(e)
<1>1. /\ e.session \in Sessions \cup {0} /\ e.n \in Nat /\ e.prior \in EnvelopeName
      /\ e.intent \in Intents \cup {0}
  BY DEF Frame
<1>2. NameOf(e) \in EnvelopeName /\ NameOf(e)[1] = e.session /\ NameOf(e)[2] = e.n
  BY <1>1 DEF NameOf, EnvelopeName
<1> QED BY <1>1, <1>2 DEF GenerationOf, Generation

-----------------------------------------------------------------------------
(* What the helpers do to the threads.                                     *)

Moved(h) ==
  /\ thread' \in [Handlers -> Thread]
  /\ \A g \in Handlers \ {h} : thread'[g] = thread[g]

\* The thread goes on with its frame.
Continues(h, pc) ==
  /\ Moved(h) /\ thread'[h].pc = pc /\ thread'[h].frame = thread[h].frame

\* The thread answers the client that waits, or ends.
Answers_(h, r) ==
  /\ Moved(h)
  /\ \/ conn = h /\ thread'[h] = [pc |-> "replied", frame |-> thread[h].frame, reply |-> r]
     \/ conn # h /\ thread'[h] = Idle

LEMMA GotoEffect ==
  ASSUME TypeInv, NEW h \in Handlers, NEW pc \in Pcs, Goto(h, pc)
  PROVE  Continues(h, pc) /\ thread'[h].reply = thread[h].reply
  BY ThreadFields DEF TypeInv, Goto, Continues, Moved, Thread

LEMMA AnswerEffect ==
  ASSUME TypeInv, NEW h \in Handlers, NEW r \in Answers, Answer(h, r)
  PROVE  Answers_(h, r)
<1>1. thread[h] \in Thread /\ thread \in [Handlers -> Thread]
  BY DEF TypeInv
<1>3. [pc |-> "replied", frame |-> thread[h].frame, reply |-> r] \in Thread
  BY <1>1, ThreadFields DEF Thread, Pcs
<1> QED BY <1>1, <1>3, Names DEF Answer, Answers_, Moved

LEMMA RejectEffect ==
  ASSUME TypeInv, NEW h \in Handlers, NEW class \in Statuses, Reject(h, class)
  PROVE  Answers_(h, Reply(class, 0, Genesis))
<1>1. Reply(class, 0, Genesis) \in Answers
  BY Names DEF Reply, Answers
<1> QED BY <1>1, AnswerEffect DEF Reject

-----------------------------------------------------------------------------
(* What a step that leaves a part alone keeps of the invariant.             *)

\* Nothing is known of such a thread's files.
Silent(t) ==
  \/ t.pc \in {"free", "lost", "hello"}
  \/ t.pc = "replied" /\ t.reply.status \notin Agreed

KeptOrSilent == \A g \in Handlers : thread'[g] = thread[g] \/ Silent(thread'[g])

LEMMA KeepsAcks ==
  ASSUME AckInv, acks' = acks, KeptOrSilent
  PROVE  AckInv'
  BY DEF AckInv, KeptOrSilent, Silent, Accepted

LEMMA KeepsDisk ==
  ASSUME DiskInv, KeptOrSilent,
         \A r \in DOMAIN records : r \in DOMAIN records' /\ records'[r] = records[r],
         \A n \in DOMAIN gens : n \in DOMAIN gens' /\ gens'[n] = gens[n]
  PROVE  DiskInv'
  BY DEF DiskInv, KeptOrSilent, Silent, Accepted

LEMMA KeepsChain ==
  ASSUME ChainInv, gens' = gens, expected' = expected, up' => up,
         \A g \in Handlers :
           /\ thread'[g].pc \in {"record", "unlink", "ack", "generation"} =>
                /\ thread[g].pc \in {"record", "unlink", "ack", "generation"}
                /\ thread'[g].frame = thread[g].frame
           /\ thread'[g].pc = "advance" => thread'[g] = thread[g]
  PROVE  ChainInv'
<1>1. Complete' = Complete
  BY DEF Complete
<1>2. PICK k \in Nat : Whole(k)
  BY DEF ChainInv
<1>3. Whole(k)'
  BY <1>1, <1>2 DEF Whole
<1> QED BY <1>1, <1>3 DEF ChainInv

LEMMA SilentChain ==
  ASSUME ChainInv, KeptOrSilent, gens' = gens, expected' = expected, up' => up
  PROVE  ChainInv'
<1>1. \A g \in Handlers :
        thread'[g].pc \in {"record", "unlink", "ack", "generation", "advance"} =>
          thread'[g] = thread[g]
  BY DEF KeptOrSilent, Silent
<1> QED BY <1>1, KeepsChain

LEMMA KeepsNames ==
  ASSUME FrameInv, NameInv, acks' = acks, sender' = sender \/ sender' = NoSender,
         \A g \in Handlers : thread'[g].pc # "free" =>
           thread[g].pc # "free" /\ thread'[g].frame = thread[g].frame
  PROVE  NameInv'
<1>1. \A g \in Handlers : Live(g)' => Live(g) /\ thread'[g].frame = thread[g].frame
  BY DEF Live
<1>2. \A g \in Handlers : Live(g) => thread[g].frame.session # 0
  BY DEF Live, FrameInv
<1>3. NoSender.session = 0
  BY DEF NoSender
<1> QED BY <1>1, <1>2, <1>3 DEF NameInv

LEMMA KeepsFrames ==
  ASSUME FrameInv, ClientInv, NEW h \in Handlers, UNCHANGED client, up, up',
         \A g \in Handlers \ {h} : thread'[g] = thread[g],
         thread[h].pc \in Working \cup {"hello"},
         \/ thread'[h].pc = "free" /\ conn # h /\ thread'[h].frame.intent = 0
         \/ /\ thread'[h].frame = thread[h].frame
            /\ thread'[h].pc \in Working \cup {"replied"}
            /\ thread'[h].pc \in Working => thread[h].pc # "hello"
            /\ thread'[h].pc \in {"ack", "generation", "advance", "link"} =>
                 thread'[h].reply.status \in Agreed
            /\ thread'[h].pc = "replied" =>
                 /\ conn = h
                 /\ thread'[h].reply.status = "READY" => thread[h].frame.intent = 0
                 /\ thread'[h].reply.status \in Agreed => thread[h].frame.intent # 0,
         cur \in Nat, conn \in Handlers \cup {0}
  PROVE  FrameInv' /\ ClientInv'
<1>1. cur' = cur /\ outcome' = outcome /\ sender' = sender /\ conn' = conn
  BY DEF client
<1>2. FrameInv'
  <2> SUFFICES ASSUME NEW g \in Handlers
               PROVE  (FrameInv!(g))'
    BY DEF FrameInv
  <2>1. CASE g = h
    <3>1. CASE thread'[h].pc = "free"
      BY <1>1, <2>1, <3>1 DEF FrameInv, Working, Accepted
    <3>2. CASE thread'[h].pc # "free"
      <4>1. thread[h].frame.session \in Sessions /\ thread[h].frame.intent <= cur
        BY DEF FrameInv, Working
      <4>2. thread'[h].pc \in Working => thread[h].frame.intent # 0
        BY DEF FrameInv, Working
      <4> QED BY <1>1, <2>1, <3>2, <4>1, <4>2 DEF Working, Accepted
    <3> QED BY <3>1, <3>2
  <2>2. CASE g # h
    BY <1>1, <2>2 DEF FrameInv, Accepted
  <2> QED BY <2>1, <2>2
<1>3. conn # 0 => thread'[conn].frame.intent \in {0, cur}
  <2>1. CASE conn = h
    BY <2>1 DEF ClientInv
  <2>2. CASE conn # h
    BY <2>2 DEF ClientInv
  <2> QED BY <2>1, <2>2
<1>4. ClientInv'
  BY <1>1, <1>3 DEF ClientInv
<1> QED BY <1>2, <1>4

\* A handler that answers without a commitment, or ends.
LEMMA Hushed ==
  ASSUME TypeInv, FrameInv, ClientInv, NEW h \in Handlers, NEW r \in Answers,
         thread[h].pc \in Working \cup {"hello"}, Answers_(h, r), r.status \notin Agreed,
         r.status = "READY" => thread[h].pc = "hello", up, up', UNCHANGED client
  PROVE  /\ thread' \in [Handlers -> Thread] /\ KeptOrSilent /\ FrameInv' /\ ClientInv'
         /\ \A g \in Handlers \ {h} : thread'[g] = thread[g]
         /\ Silent(thread'[h])
         /\ thread'[h].pc # "free" => Live(h) /\ thread'[h].frame = thread[h].frame
<1>0. /\ thread \in [Handlers -> Thread] /\ cur \in Nat /\ conn \in Handlers \cup {0}
      /\ Idle.pc = "free" /\ Idle.frame.intent = 0
  BY Names DEF TypeInv, NoFrame
<1>1. \A g \in Handlers \ {h} : thread'[g] = thread[g]
  BY DEF Answers_, Moved
<1>2. \/ conn = h /\ thread'[h].pc = "replied" /\ thread'[h].frame = thread[h].frame
         /\ thread'[h].reply = r
      \/ conn # h /\ thread'[h].pc = "free" /\ thread'[h].frame.intent = 0
  BY <1>0 DEF Answers_
<1>3. Silent(thread'[h])
  BY <1>2 DEF Silent
<1>4. r.status = "READY" => thread[h].frame.intent = 0
  BY DEF FrameInv
<1>5. FrameInv' /\ ClientInv'
  BY <1>0, <1>1, <1>2, <1>4, KeepsFrames DEF Working
<1>6. Live(h)
  BY DEF Working, Live
<1> QED BY <1>1, <1>2, <1>3, <1>5, <1>6 DEF Answers_, Moved, KeptOrSilent

LEMMA Silenced ==
  ASSUME TypeInv, FrameInv, ClientInv, NameInv, AckInv, NEW h \in Handlers, NEW r \in Answers,
         thread[h].pc \in Working \cup {"hello"}, Answers_(h, r), r.status \notin Agreed,
         r.status = "READY" => thread[h].pc = "hello",
         up, up', UNCHANGED <<client, acks>>
  PROVE  /\ thread' \in [Handlers -> Thread] /\ KeptOrSilent
         /\ FrameInv' /\ ClientInv' /\ NameInv' /\ AckInv'
<1>1. /\ thread' \in [Handlers -> Thread] /\ KeptOrSilent /\ FrameInv' /\ ClientInv'
      /\ \A g \in Handlers \ {h} : thread'[g] = thread[g]
      /\ thread'[h].pc # "free" => Live(h) /\ thread'[h].frame = thread[h].frame
  BY Hushed
<1>2. NameInv'
  BY <1>1, KeepsNames DEF client, Live
<1>3. AckInv'
  BY <1>1, KeepsAcks
<1> QED BY <1>1, <1>2, <1>3

LEMMA HelloStep ==
  ASSUME IInv, NEW h \in Handlers, Hello(h)
  PROVE  IInv'
<1>1. /\ TypeInv /\ FrameInv /\ ClientInv /\ ChainInv /\ NameInv /\ AckInv /\ DiskInv
      /\ thread[h].pc = "hello" /\ up /\ up'
      /\ UNCHANGED <<client, expected, prior, records, linked, acks, gens>>
      /\ session' = thread[h].frame.session
  BY DEF IInv, Hello, At, files
<1>2. PICK r \in Answers : Answers_(h, r) /\ r.status \notin Agreed
  <2>1. Reply("READY", expected, prior) \in Answers
    BY <1>1 DEF TypeInv, Reply, Answers, Statuses
  <2>2. CASE Answer(h, Reply("READY", expected, prior))
    <3>1. Answers_(h, Reply("READY", expected, prior))
      BY <1>1, <2>1, <2>2, AnswerEffect
    <3>2. Reply("READY", expected, prior).status \notin Agreed
      BY DEF Reply, Agreed
    <3> QED BY <2>1, <3>1, <3>2
  <2>3. CASE Reject(h, "WRITE_FAILED")
    <3>1. Reply("WRITE_FAILED", 0, Genesis) \in Answers
      BY Names DEF Reply, Answers, Statuses
    <3>2. Answers_(h, Reply("WRITE_FAILED", 0, Genesis))
      BY <1>1, <2>3, RejectEffect DEF Statuses
    <3>3. Reply("WRITE_FAILED", 0, Genesis).status \notin Agreed
      BY DEF Reply, Agreed
    <3> QED BY <3>1, <3>2, <3>3
  <2> QED BY <2>2, <2>3 DEF Hello
<1>3. /\ thread' \in [Handlers -> Thread] /\ KeptOrSilent
      /\ FrameInv' /\ ClientInv' /\ NameInv' /\ AckInv'
  BY <1>1, <1>2, Silenced
<1>4. session' \in Sessions
  BY <1>1 DEF FrameInv
<1>5. TypeInv'
  BY <1>1, <1>3, <1>4 DEF TypeInv, client
<1>6. ChainInv'
  BY <1>1, <1>3, SilentChain
<1>7. DiskInv'
  BY <1>1, <1>3, KeepsDisk
<1> QED BY <1>3, <1>5, <1>6, <1>7 DEF IInv

\* A handler that answers in the middle of _persist without a commitment,
\* and no file but a temporary one changed.
LEMMA RejectedStep ==
  ASSUME IInv, NEW h \in Handlers, NEW class \in Statuses \ (Agreed \cup {"READY"}),
         up, up', thread[h].pc \in Working, Reject(h, class), linked' \subseteq DOMAIN records,
         UNCHANGED <<client, memory, records, acks, gens>>
  PROVE  IInv'
<1>1. TypeInv /\ FrameInv /\ ClientInv /\ ChainInv /\ NameInv /\ AckInv /\ DiskInv
  BY DEF IInv
<1>2. Answers_(h, Reply(class, 0, Genesis))
  BY <1>1, RejectEffect
<1>3. Reply(class, 0, Genesis) \in Answers /\ Reply(class, 0, Genesis).status = class
  BY Names DEF Reply, Answers
<1>4. /\ thread' \in [Handlers -> Thread] /\ KeptOrSilent
      /\ FrameInv' /\ ClientInv' /\ NameInv' /\ AckInv'
  BY <1>1, <1>2, <1>3, Silenced
<1>5. TypeInv'
  BY <1>1, <1>4 DEF TypeInv, client, memory
<1>6. ChainInv'
  BY <1>1, <1>4, SilentChain DEF memory
<1>7. DiskInv'
  BY <1>1, <1>4, KeepsDisk
<1> QED BY <1>4, <1>5, <1>6, <1>7 DEF IInv

\* A handler that goes on with its envelope.
LEMMA Continued ==
  ASSUME TypeInv, FrameInv, ClientInv, NEW h \in Handlers, NEW pc \in Working,
         up, up', thread[h].pc \in Working, Continues(h, pc),
         pc \in {"ack", "generation", "advance", "link"} => thread'[h].reply.status \in Agreed,
         UNCHANGED client
  PROVE  /\ thread' \in [Handlers -> Thread] /\ FrameInv' /\ ClientInv'
         /\ \A g \in Handlers : Live(g)' => Live(g) /\ thread'[g].frame = thread[g].frame
<1>1. /\ \A g \in Handlers \ {h} : thread'[g] = thread[g]
      /\ thread'[h].pc = pc /\ thread'[h].frame = thread[h].frame
      /\ cur \in Nat /\ conn \in Handlers \cup {0}
      /\ thread' \in [Handlers -> Thread]
  BY DEF Continues, Moved, TypeInv
<1>2. thread[h].pc # "hello" /\ thread[h].pc # "free" /\ pc # "replied"
  BY DEF Working
<1>3. FrameInv' /\ ClientInv'
  BY <1>1, <1>2, KeepsFrames
<1>4. \A g \in Handlers : Live(g)' => Live(g) /\ thread'[g].frame = thread[g].frame
  BY <1>1, <1>2 DEF Live
<1> QED BY <1>1, <1>3, <1>4

\* A thread that goes on leaves the files it relies on as they are.
LEMMA GoesOnDisk ==
  ASSUME DiskInv, NEW h \in Handlers, NEW pc \in {"ack", "generation", "link"},
         Continues(h, pc), UNCHANGED <<records, gens>>,
         thread[h].pc \in {"unlink", "ack", "advance"},
         pc = "link" => thread[h].pc = "advance"
  PROVE  DiskInv'
<1> SUFFICES ASSUME NEW g \in Handlers PROVE (DiskInv!(g))'
  BY DEF DiskInv
<1>1. CASE g = h
  BY <1>1 DEF Continues, DiskInv, Accepted
<1>2. CASE g # h
  BY <1>2 DEF Continues, Moved, DiskInv, Accepted
<1> QED BY <1>1, <1>2

LEMMA CheckStep ==
  ASSUME IInv, NEW h \in Handlers, Check(h)
  PROVE  IInv'
<1>1. /\ TypeInv /\ FrameInv /\ ClientInv /\ ChainInv /\ NameInv /\ AckInv /\ DiskInv
      /\ thread[h].pc = "check" /\ up /\ up'
      /\ UNCHANGED <<client, memory, records, linked, acks, gens>>
  BY DEF IInv, Check, At, files
<1>2. CASE Reject(h, "IPC_AUTH_REJECTED") \/ Reject(h, "IPC_PROTOCOL_REJECTED")
  BY <1>1, <1>2, RejectedStep DEF Working, Statuses, Agreed, TypeInv
<1>3. CASE thread[h].frame.n = expected /\ Goto(h, "record")
  <2>1. Continues(h, "record")
    BY <1>1, <1>3, GotoEffect DEF Pcs, Working
  <2>2. /\ thread' \in [Handlers -> Thread] /\ FrameInv' /\ ClientInv'
        /\ \A g \in Handlers : Live(g)' => Live(g) /\ thread'[g].frame = thread[g].frame
    BY <1>1, <2>1, Continued DEF Working
  <2>3. TypeInv'
    BY <1>1, <2>2 DEF TypeInv, client, memory
  <2>4. NameInv'
    BY <1>1, <2>2, KeepsNames DEF client, Live
  <2>5. ChainInv'
    <3>1. Complete' = Complete /\ expected \in Nat \ {0} /\ expected' = expected
      BY <1>1 DEF Complete, TypeInv, memory
    <3>2. PICK k \in Nat : Whole(k)
      BY <1>1 DEF ChainInv
    <3>3. Whole(k)'
      BY <1>1, <3>1, <3>2 DEF Whole
    <3>4. \A g \in Handlers :
            thread'[g].pc \in {"unlink", "ack", "generation", "advance"} => thread'[g] = thread[g]
      BY <2>1 DEF Continues, Moved
    <3>5. \A g \in Handlers : thread'[g].pc = "record" => thread'[g].frame.n \in 1 .. expected
      <4> SUFFICES ASSUME NEW g \in Handlers, thread'[g].pc = "record"
                   PROVE  thread'[g].frame.n \in 1 .. expected
        OBVIOUS
      <4>1. CASE g = h
        BY <1>3, <2>1, <3>1, <4>1 DEF Continues
      <4>2. CASE g # h
        BY <1>1, <2>1, <4>2 DEF Continues, Moved, ChainInv
      <4> QED BY <4>1, <4>2
    <3> QED BY <1>1, <3>1, <3>3, <3>4, <3>5 DEF ChainInv
  <2>6. AckInv'
    BY <1>1, <2>1 DEF AckInv, Continues, Moved, Accepted
  <2>7. DiskInv'
    BY <1>1, <2>1 DEF DiskInv, Continues, Moved, Accepted
  <2> QED BY <2>2, <2>3, <2>4, <2>5, <2>6, <2>7 DEF IInv
<1> QED BY <1>2, <1>3 DEF Check

LEMMA StoredEffect ==
  ASSUME TypeInv, NEW h \in Handlers, NEW status \in Agreed, Stored(h, status)
  PROVE  Continues(h, "ack") /\ thread'[h].reply.status = status
<1>1. thread[h] \in Thread /\ thread \in [Handlers -> Thread]
  BY DEF TypeInv
<1>2. Reply(status, 0, Genesis) \in Answers /\ Reply(status, 0, Genesis).status = status
  BY Names DEF Reply, Answers, Statuses
<1>3. [pc |-> "ack", frame |-> thread[h].frame, reply |-> Reply(status, 0, Genesis)] \in Thread
  BY <1>1, <1>2, ThreadFields DEF Thread, Pcs, Working
<1> QED BY <1>1, <1>2, <1>3 DEF Stored, Continues, Moved

LEMMA LinkRecordStep ==
  ASSUME IInv, NEW h \in Handlers, LinkRecord(h)
  PROVE  IInv'
<1> DEFINE i == thread[h].frame.intent
           r == RecordOf[i]
<1>1. /\ TypeInv /\ FrameInv /\ ClientInv /\ ChainInv /\ NameInv /\ AckInv /\ DiskInv
      /\ thread[h].pc = "record" /\ up /\ up'
      /\ UNCHANGED <<client, memory, acks, gens>>
  BY DEF IInv, LinkRecord, At
<1>2. i \in Intents
  <2>1. i # 0
    BY <1>1 DEF FrameInv, Working
  <2>2. thread[h].frame \in Frame
    BY <1>1, ThreadFields DEF TypeInv
  <2> QED BY <2>1, <2>2, FrameFields
<1>3. CASE Reject(h, "WRITE_FAILED") /\ UNCHANGED <<records, linked>>
  BY <1>1, <1>3, RejectedStep DEF Working, Statuses, Agreed, TypeInv
<1>4. CASE \/ /\ r \notin DOMAIN records /\ records' = Created(records, r, i)
              /\ linked' = linked \cup {r} /\ Goto(h, "unlink")
           \/ /\ r \in DOMAIN records /\ records[r] = i /\ UNCHANGED <<records, linked>>
              /\ Stored(h, "DUPLICATE")
  <2>1. \/ Continues(h, "unlink")
        \/ Continues(h, "ack") /\ thread'[h].reply.status \in Agreed
    BY <1>1, <1>4, StoredEffect, GotoEffect DEF Agreed, Pcs, Working
  <2>2. /\ thread' \in [Handlers -> Thread] /\ FrameInv' /\ ClientInv'
        /\ \A g \in Handlers : Live(g)' => Live(g) /\ thread'[g].frame = thread[g].frame
    BY <1>1, <2>1, Continued DEF Working
  <2>3. /\ \A x \in DOMAIN records : x \in DOMAIN records' /\ records'[x] = records[x]
        /\ r \in DOMAIN records' /\ records'[r] = i
        /\ DOMAIN records' \subseteq DOMAIN records \cup {r}
        /\ linked' \subseteq linked \cup {r}
    <3>1. CASE /\ r \notin DOMAIN records /\ records' = Created(records, r, i)
               /\ linked' = linked \cup {r}
      BY <3>1 DEF Created
    <3>2. CASE r \in DOMAIN records /\ records[r] = i /\ UNCHANGED <<records, linked>>
      BY <3>2
    <3> QED BY <1>4, <3>1, <3>2
  <2>4. TypeInv'
    <3>1. /\ \A x \in DOMAIN records' : records'[x] \in Intents
          /\ linked' \subseteq DOMAIN records'
      BY <1>1, <1>2, <2>3 DEF TypeInv
    <3> HIDE DEF i, r
    <3> QED BY <1>1, <2>2, <3>1 DEF TypeInv, client, memory
  <2>5. NameInv'
    BY <1>1, <2>2, KeepsNames DEF client, Live
  <2>6. ChainInv'
    BY <1>1, <2>1, KeepsChain DEF Continues, Moved, memory
  <2>7. AckInv'
    BY <1>1, <2>1 DEF AckInv, Continues, Moved, Accepted
  <2>8. DiskInv'
    <3> SUFFICES ASSUME NEW g \in Handlers PROVE (DiskInv!(g))'
      BY DEF DiskInv
    <3>1. CASE g = h
      BY <1>1, <2>1, <2>3, <3>1 DEF Continues, Accepted
    <3>2. CASE g # h
      <4>1. thread'[g] = thread[g]
        BY <2>1, <3>2 DEF Continues, Moved
      <4> QED BY <1>1, <2>3, <4>1 DEF DiskInv, Accepted
    <3> QED BY <3>1, <3>2
  <2> QED BY <2>2, <2>4, <2>5, <2>6, <2>7, <2>8 DEF IInv
<1> QED BY <1>3, <1>4 DEF LinkRecord

LEMMA UnlinkTempStep ==
  ASSUME IInv, NEW h \in Handlers, UnlinkTemp(h)
  PROVE  IInv'
<1> DEFINE r == RecordOf[thread[h].frame.intent]
<1>1. /\ TypeInv /\ FrameInv /\ ClientInv /\ ChainInv /\ NameInv /\ AckInv /\ DiskInv
      /\ thread[h].pc = "unlink" /\ up /\ up' /\ linked \subseteq DOMAIN records
      /\ UNCHANGED <<client, memory, records, acks, gens>>
  BY DEF IInv, UnlinkTemp, At, TypeInv
<1>2. linked' \subseteq DOMAIN records
  BY <1>1 DEF UnlinkTemp
<1>3. CASE Reject(h, "WRITE_FAILED")
  BY <1>1, <1>2, <1>3, RejectedStep DEF Working, Statuses, Agreed
<1>4. CASE Stored(h, "ACCEPTED")
  <2>1. Continues(h, "ack") /\ thread'[h].reply.status \in Agreed
    BY <1>1, <1>4, StoredEffect DEF Agreed
  <2>2. /\ thread' \in [Handlers -> Thread] /\ FrameInv' /\ ClientInv'
        /\ \A g \in Handlers : Live(g)' => Live(g) /\ thread'[g].frame = thread[g].frame
    BY <1>1, <2>1, Continued DEF Working
  <2>3. TypeInv'
    BY <1>1, <1>2, <2>2 DEF TypeInv, client, memory
  <2>4. NameInv'
    BY <1>1, <2>2, KeepsNames DEF client, Live
  <2>5. ChainInv'
    BY <1>1, <2>1, KeepsChain DEF Continues, Moved, memory
  <2>6. AckInv'
    BY <1>1, <2>1 DEF AckInv, Continues, Moved, Accepted
  <2>7. DiskInv'
    BY <1>1, <2>1, GoesOnDisk
  <2> QED BY <2>2, <2>3, <2>4, <2>5, <2>6, <2>7 DEF IInv
<1> QED BY <1>3, <1>4 DEF UnlinkTemp

\* An acknowledgement of its own name is added by a thread that goes on to the
\* generation or answers without a commitment.
LEMMA AckAdded ==
  ASSUME TypeInv, FrameInv, NameInv, AckInv, NEW h \in Handlers, thread[h].pc = "ack",
         acks' = Created(acks, NameOf(thread[h].frame),
                         [status |-> thread[h].reply.status, intent |-> thread[h].frame.intent]),
         \A g \in Handlers \ {h} : thread'[g] = thread[g],
         \/ /\ thread'[h].pc = "generation" /\ thread'[h].frame = thread[h].frame
            /\ thread'[h].reply = thread[h].reply
         \/ /\ Silent(thread'[h])
            /\ thread'[h].pc # "free" => thread'[h].frame = thread[h].frame,
         UNCHANGED client
  PROVE  DOMAIN acks' \subseteq EnvelopeName /\ NameInv' /\ AckInv'
<1> DEFINE e == thread[h].frame
           a == [status |-> thread[h].reply.status, intent |-> e.intent]
<1>1. NameOf(e) \notin DOMAIN acks /\ Live(h) /\ e.intent # 0
  BY DEF AckInv, Live, FrameInv, Working
<1>2. /\ DOMAIN acks' = DOMAIN acks \cup {NameOf(e)} /\ acks'[NameOf(e)] = a
      /\ \A x \in DOMAIN acks : acks'[x] = acks[x]
  BY <1>1 DEF Created
<1>3. e \in Frame
  BY ThreadFields DEF TypeInv
<1>4. NameOf(e)[1] = e.session /\ NameOf(e)[2] = e.n /\ NameOf(e) \in EnvelopeName
  BY <1>3, FrameFields
<1>5. \A g \in Handlers : Live(g)' => Live(g) /\ thread'[g].frame = thread[g].frame
  BY <1>1 DEF Live
<1> HIDE DEF e, a
<1>6. NameInv'
  <2>1. sender' = sender
    BY DEF client
  <2>2. ASSUME NEW g \in Handlers, Live(g)'
        PROVE  (NameInv!1!(g)!2)'
    <3>1. CASE g = h
      BY <1>1, <1>5, <2>1, <2>2, <3>1 DEF NameInv, Live, e
    <3>2. CASE g # h
      <4>1. thread[g].frame.intent = 0 => e.session # thread[g].frame.session
        BY <1>1, <1>5, <2>2, <3>2 DEF NameInv, e
      <4> QED BY <1>2, <1>4, <1>5, <2>1, <2>2, <4>1 DEF NameInv
    <3> QED BY <3>1, <3>2
  <2>3. sender # NoSender =>
          \A x \in DOMAIN acks' : x[1] = sender.session => x[2] < sender.next
    BY <1>1, <1>2, <1>4 DEF NameInv, e
  <2> QED BY <2>1, <2>2, <2>3 DEF NameInv
<1>7. AckInv'
  <2> SUFFICES ASSUME NEW g \in Handlers PROVE (AckInv!(g))'
    BY DEF AckInv
  <2>1. CASE g = h
    BY <1>2, <2>1 DEF Silent, Accepted, e, a
  <2>2. CASE g # h
    <3>1. thread'[g] = thread[g]
      BY <2>2
    <3>2. Live(g) => NameOf(thread[g].frame) # NameOf(e)
      BY <1>1, <2>2 DEF NameInv, e
    <3> QED BY <1>2, <3>1, <3>2 DEF AckInv, Accepted, Live
  <2> QED BY <2>1, <2>2
<1> QED BY <1>2, <1>4, <1>6, <1>7 DEF TypeInv

LEMMA StoreAckStep ==
  ASSUME IInv, NEW h \in Handlers, StoreAck(h)
  PROVE  IInv'
<1> DEFINE e == thread[h].frame
           a == [status |-> thread[h].reply.status, intent |-> e.intent]
<1>1. /\ TypeInv /\ FrameInv /\ ClientInv /\ ChainInv /\ NameInv /\ AckInv /\ DiskInv
      /\ thread[h].pc = "ack" /\ up /\ up'
      /\ UNCHANGED <<client, memory, records, linked, gens>>
  BY DEF IInv, StoreAck, At
<1>2. CASE Reject(h, "WRITE_FAILED") /\ UNCHANGED acks
  BY <1>1, <1>2, RejectedStep DEF Working, Statuses, Agreed, TypeInv
<1>3. CASE Reject(h, "WRITE_FAILED") /\ acks' = Created(acks, NameOf(e), a)
  <2>1. /\ Answers_(h, Reply("WRITE_FAILED", 0, Genesis))
        /\ Reply("WRITE_FAILED", 0, Genesis) \in Answers
        /\ Reply("WRITE_FAILED", 0, Genesis).status \notin Agreed \cup {"READY"}
    BY <1>1, <1>3, RejectEffect, Names DEF Reply, Answers, Statuses, Agreed
  <2>2. /\ thread' \in [Handlers -> Thread] /\ KeptOrSilent /\ FrameInv' /\ ClientInv'
        /\ \A g \in Handlers \ {h} : thread'[g] = thread[g]
        /\ Silent(thread'[h])
        /\ thread'[h].pc # "free" => thread'[h].frame = thread[h].frame
    BY <1>1, <2>1, Hushed DEF Working
  <2>3. DOMAIN acks' \subseteq EnvelopeName /\ NameInv' /\ AckInv'
    BY <1>1, <1>3, <2>2, AckAdded
  <2>4. TypeInv'
    BY <1>1, <2>2, <2>3 DEF TypeInv, client, memory
  <2>5. ChainInv'
    BY <1>1, <2>2, SilentChain DEF memory
  <2>6. DiskInv'
    BY <1>1, <2>2, KeepsDisk
  <2> QED BY <2>2, <2>3, <2>4, <2>5, <2>6 DEF IInv
<1>4. CASE acks' = Created(acks, NameOf(e), a) /\ Goto(h, "generation")
  <2>1. /\ Continues(h, "generation") /\ thread'[h].reply = thread[h].reply
        /\ thread[h].reply.status \in Agreed
    BY <1>1, <1>4, GotoEffect DEF Pcs, Working, FrameInv
  <2>2. thread' \in [Handlers -> Thread] /\ FrameInv' /\ ClientInv'
    BY <1>1, <2>1, Continued DEF Working
  <2>3. DOMAIN acks' \subseteq EnvelopeName /\ NameInv' /\ AckInv'
    BY <1>1, <1>4, <2>1, AckAdded DEF Continues, Moved
  <2>4. TypeInv'
    BY <1>1, <2>2, <2>3 DEF TypeInv, client, memory
  <2>5. ChainInv'
    BY <1>1, <2>1, KeepsChain DEF Continues, Moved, memory
  <2>6. DiskInv'
    BY <1>1, <2>1, GoesOnDisk
  <2> QED BY <2>2, <2>3, <2>4, <2>5, <2>6 DEF IInv
<1> QED BY <1>2, <1>3, <1>4 DEF StoreAck

\* A thread that finds no generation of its sequence has the next one.
LEMMA NextGeneration ==
  ASSUME TypeInv, FrameInv, ChainInv, NEW h \in Handlers, thread[h].pc = "generation", up,
         thread[h].frame.n \notin DOMAIN gens, NEW k \in Nat, Whole(k),
         NEW x \in Generation, gens' = Created(gens, thread[h].frame.n, x)
  PROVE  /\ thread[h].frame.n = k + 1 /\ expected = k + 1
         /\ x = Torn => Complete' = 1 .. k
         /\ x # Torn => Complete' = 1 .. k + 1
         /\ DOMAIN gens' = DOMAIN gens \cup {k + 1} /\ gens'[k + 1] = x
         /\ DOMAIN gens' \subseteq 1 .. k + 1
         /\ \A n \in DOMAIN gens : n \in DOMAIN gens' /\ gens'[n] = gens[n]
<1> DEFINE m == thread[h].frame.n
<1>1. m \in 1 .. expected /\ m \notin DOMAIN gens
  BY DEF ChainInv
<1>2. Complete = 1 .. k /\ DOMAIN gens \subseteq 1 .. k + 1 /\ expected \in {k, k + 1}
  BY DEF Whole
<1>3. Complete \subseteq DOMAIN gens
  BY DEF Complete
<1>4. m = k + 1 /\ expected = k + 1
  BY <1>1, <1>2, <1>3
<1>5. /\ DOMAIN gens' = DOMAIN gens \cup {k + 1} /\ gens'[k + 1] = x
      /\ \A n \in DOMAIN gens : n \in DOMAIN gens' /\ gens'[n] = gens[n]
  BY <1>1, <1>4 DEF Created
<1>6. DOMAIN gens' \subseteq 1 .. k + 1
  BY <1>2, <1>5
<1>7. Complete' = IF x = Torn THEN Complete ELSE Complete \cup {k + 1}
  <2>1. k + 1 \notin DOMAIN gens
    BY <1>1, <1>4
  <2> QED BY <1>5, <2>1 DEF Complete
<1>8. 1 .. k + 1 = 1 .. k \cup {k + 1}
  OBVIOUS
<1> QED BY <1>2, <1>4, <1>5, <1>6, <1>7, <1>8

LEMMA OwnGeneration ==
  ASSUME TypeInv, FrameInv, NEW h \in Handlers, thread[h].pc \in Working
  PROVE  /\ GenerationOf(thread[h].frame) \in Generation
         /\ GenerationOf(thread[h].frame) # Torn /\ Torn \in Generation
         /\ thread[h].frame.intent \in Intents
<1>1. thread[h].frame \in Frame
  BY ThreadFields DEF TypeInv
<1>2. thread[h].frame.intent # 0
  BY DEF FrameInv
<1>3. Torn.intent = 0
  BY DEF Torn
<1>4. GenerationOf(thread[h].frame).intent # 0
  BY <1>1, <1>2, FrameFields
<1> QED BY <1>1, <1>2, <1>3, <1>4, FrameFields, Names

LEMMA StoreGenerationStep ==
  ASSUME IInv, NEW h \in Handlers, StoreGeneration(h)
  PROVE  IInv'
<1> DEFINE e == thread[h].frame
<1>1. /\ TypeInv /\ FrameInv /\ ClientInv /\ ChainInv /\ NameInv /\ AckInv /\ DiskInv
      /\ thread[h].pc = "generation" /\ up /\ up'
      /\ UNCHANGED <<client, memory, records, linked, acks>>
  BY DEF IInv, StoreGeneration, At
<1>2. CASE Reject(h, "WRITE_FAILED") /\ UNCHANGED gens
  BY <1>1, <1>2, RejectedStep DEF Working, Statuses, Agreed, TypeInv
<1>3. /\ GenerationOf(e) \in Generation /\ GenerationOf(e) # Torn /\ Torn \in Generation
  BY <1>1, OwnGeneration DEF Working
<1>4. PICK k \in Nat : Whole(k)
  BY <1>1 DEF ChainInv
<1>5. ASSUME e.n \notin DOMAIN gens, NEW x \in {GenerationOf(e), Torn}, gens' = Created(gens, e.n, x)
      PROVE  /\ \E m \in Nat : Whole(m)'
             /\ e.n = k + 1 /\ expected = k + 1 /\ expected' = expected
             /\ x # Torn => expected \in Complete' /\ gens'[e.n] = x
             /\ \A n \in DOMAIN gens : n \in DOMAIN gens' /\ gens'[n] = gens[n]
             /\ DOMAIN gens' = DOMAIN gens \cup {e.n}
             /\ \A n \in DOMAIN gens' : gens'[n] \in Generation
  <2>0. x \in Generation
    BY <1>3, <1>5
  <2>1. /\ e.n = k + 1 /\ expected = k + 1
        /\ x = Torn => Complete' = 1 .. k
        /\ x # Torn => Complete' = 1 .. k + 1
        /\ DOMAIN gens' = DOMAIN gens \cup {k + 1} /\ gens'[k + 1] = x
        /\ DOMAIN gens' \subseteq 1 .. k + 1
        /\ \A n \in DOMAIN gens : n \in DOMAIN gens' /\ gens'[n] = gens[n]
    BY <1>1, <1>4, <1>5, <2>0, NextGeneration
  <2>2. expected' = expected
    BY <1>1 DEF memory
  <2>3. x = Torn => Whole(k)'
    BY <2>1, <2>2 DEF Whole
  <2>4. x # Torn => Whole(k + 1)'
    BY <2>1, <2>2 DEF Whole
  <2>5. \A n \in DOMAIN gens' : gens'[n] \in Generation
    BY <1>1, <1>3, <1>5, <2>1 DEF TypeInv
  <2> QED BY <2>1, <2>2, <2>3, <2>4, <2>5
<1>6. CASE /\ e.n \notin DOMAIN gens /\ gens' = Created(gens, e.n, GenerationOf(e))
           /\ Goto(h, "advance")
  <2>1. /\ \E m \in Nat : Whole(m)'
        /\ e.n = k + 1 /\ expected = k + 1 /\ expected' = expected
        /\ expected \in Complete' /\ gens'[e.n] = GenerationOf(e) /\ e.n \in DOMAIN gens'
        /\ \A n \in DOMAIN gens : n \in DOMAIN gens' /\ gens'[n] = gens[n]
        /\ \A n \in DOMAIN gens' : gens'[n] \in Generation
    BY <1>3, <1>5, <1>6
  <2>2. /\ Continues(h, "advance") /\ thread'[h].reply = thread[h].reply
        /\ thread[h].reply.status \in Agreed
    BY <1>1, <1>6, GotoEffect DEF Pcs, Working, FrameInv
  <2>3. /\ thread' \in [Handlers -> Thread] /\ FrameInv' /\ ClientInv'
        /\ \A g \in Handlers : Live(g)' => Live(g) /\ thread'[g].frame = thread[g].frame
    BY <1>1, <2>2, Continued DEF Working
  <2>4. TypeInv'
    BY <1>1, <2>1, <2>3 DEF TypeInv, client, memory
  <2>5. NameInv'
    BY <1>1, <2>3, KeepsNames DEF client, Live
  <2>6. ChainInv'
    <3>1. \A g \in Handlers \ {h} : thread'[g] = thread[g]
      BY <2>2 DEF Continues, Moved
    <3>2. \A g \in Handlers \ {h} : thread[g].pc # "advance"
      BY <1>1, <1>4, <2>1 DEF ChainInv, Whole
    <3>3. thread'[h].pc = "advance" /\ thread'[h].frame.n = expected
      BY <2>1, <2>2 DEF Continues
    <3> DEFINE Early == {"record", "unlink", "ack", "generation"}
    <3>4. \A g \in Handlers : thread[g].pc \in Early => thread[g].frame.n \in 1 .. expected
      BY <1>1 DEF ChainInv
    <3>5. \A g \in Handlers : thread'[g].pc \in Early => thread'[g].frame.n \in 1 .. expected'
      BY <2>1, <3>1, <3>3, <3>4
    <3>6. \A g \in Handlers : thread'[g].pc = "advance" => g = h
      BY <3>1, <3>2
    <3> QED BY <2>1, <3>3, <3>5, <3>6 DEF ChainInv
  <2>7. AckInv'
    BY <1>1, <2>2 DEF AckInv, Continues, Moved, Accepted
  <2>8. DiskInv'
    <3> SUFFICES ASSUME NEW g \in Handlers PROVE (DiskInv!(g))'
      BY DEF DiskInv
    <3>1. CASE g = h
      <4>1. thread'[g].pc = "advance" /\ thread'[g].frame = e
        BY <2>2, <3>1 DEF Continues
      <4> QED BY <1>1, <2>1, <3>1, <4>1 DEF DiskInv
    <3>2. CASE g # h
      <4>1. thread'[g] = thread[g]
        BY <2>2, <3>2 DEF Continues, Moved
      <4> QED BY <1>1, <2>1, <4>1 DEF DiskInv, Accepted
    <3> QED BY <3>1, <3>2
  <2> QED BY <2>3, <2>4, <2>5, <2>6, <2>7, <2>8 DEF IInv
<1>7. CASE /\ e.n \notin DOMAIN gens /\ Reject(h, "WRITE_FAILED")
           /\ \E x \in {GenerationOf(e), Torn} : gens' = Created(gens, e.n, x)
  <2>1. /\ \E m \in Nat : Whole(m)'
        /\ expected = k + 1 /\ expected' = expected
        /\ \A n \in DOMAIN gens : n \in DOMAIN gens' /\ gens'[n] = gens[n]
        /\ \A n \in DOMAIN gens' : gens'[n] \in Generation
    BY <1>5, <1>7
  <2>2. /\ Answers_(h, Reply("WRITE_FAILED", 0, Genesis))
        /\ Reply("WRITE_FAILED", 0, Genesis) \in Answers
        /\ Reply("WRITE_FAILED", 0, Genesis).status \notin Agreed \cup {"READY"}
    BY <1>1, <1>7, RejectEffect, Names DEF Reply, Answers, Statuses, Agreed
  <2>3. /\ thread' \in [Handlers -> Thread] /\ KeptOrSilent
        /\ FrameInv' /\ ClientInv' /\ NameInv' /\ AckInv'
    BY <1>1, <2>2, Silenced DEF Working
  <2>4. TypeInv'
    BY <1>1, <2>1, <2>3 DEF TypeInv, client, memory
  <2>5. ChainInv'
    <3>1. \A g \in Handlers : thread'[g].pc \in {"record", "unlink", "ack", "generation", "advance"} =>
            thread'[g] = thread[g]
      BY <2>3 DEF KeptOrSilent, Silent
    <3>2. \A g \in Handlers : thread[g].pc # "advance"
      BY <1>1, <1>4, <2>1 DEF ChainInv, Whole
    <3> QED BY <1>1, <2>1, <3>1, <3>2 DEF ChainInv
  <2>6. DiskInv'
    BY <1>1, <2>1, <2>3, KeepsDisk
  <2> QED BY <2>3, <2>4, <2>5, <2>6 DEF IInv
<1> QED BY <1>2, <1>6, <1>7 DEF StoreGeneration

LEMMA AdvanceStep ==
  ASSUME IInv, NEW h \in Handlers, Advance(h)
  PROVE  IInv'
<1>1. /\ TypeInv /\ FrameInv /\ ClientInv /\ ChainInv /\ NameInv /\ AckInv /\ DiskInv
      /\ thread[h].pc = "advance" /\ up /\ up' /\ expected' = expected + 1
      /\ UNCHANGED <<client, session, prior, records, linked, acks, gens>>
  BY DEF IInv, Advance, At, files
<1>2. /\ Continues(h, "link") /\ thread'[h].reply = thread[h].reply
      /\ thread[h].reply.status \in Agreed
  BY <1>1, GotoEffect DEF Pcs, Working, FrameInv, Advance
<1>3. /\ thread' \in [Handlers -> Thread] /\ FrameInv' /\ ClientInv'
      /\ \A g \in Handlers : Live(g)' => Live(g) /\ thread'[g].frame = thread[g].frame
  BY <1>1, <1>2, Continued DEF Working
<1>4. TypeInv'
  BY <1>1, <1>3 DEF TypeInv, client
<1>5. NameInv'
  BY <1>1, <1>3, KeepsNames DEF client, Live
<1>6. ChainInv'
  <2>1. PICK k \in Nat : Whole(k)
    BY <1>1 DEF ChainInv
  <2>2. expected = k
    BY <1>1, <2>1 DEF ChainInv, Whole
  <2>3. Complete' = Complete
    BY <1>1 DEF Complete
  <2>4. Whole(k)'
    BY <1>1, <2>1, <2>2, <2>3 DEF Whole
  <2>5. \A g \in Handlers : thread'[g].pc # "advance"
    BY <1>1, <1>2 DEF ChainInv, Continues, Moved
  <2>6. ASSUME NEW g \in Handlers, thread'[g].pc \in {"record", "unlink", "ack", "generation"}
        PROVE  thread'[g].frame.n \in 1 .. expected'
    <3>1. thread'[g] = thread[g]
      BY <1>2, <2>6 DEF Continues, Moved
    <3>2. thread[g].frame.n \in 1 .. expected /\ expected \in Nat
      BY <1>1, <2>6, <3>1 DEF ChainInv, TypeInv
    <3> QED BY <1>1, <3>1, <3>2
  <2> QED BY <2>4, <2>5, <2>6 DEF ChainInv
<1>7. AckInv'
  BY <1>1, <1>2 DEF AckInv, Continues, Moved, Accepted
<1>8. DiskInv'
  BY <1>1, <1>2, GoesOnDisk
<1> QED BY <1>3, <1>4, <1>5, <1>6, <1>7, <1>8 DEF IInv

LEMMA LinkStep ==
  ASSUME IInv, NEW h \in Handlers, Link(h)
  PROVE  IInv'
<1> DEFINE r == thread[h].reply
<1>1. /\ TypeInv /\ FrameInv /\ ClientInv /\ ChainInv /\ NameInv /\ AckInv /\ DiskInv
      /\ thread[h].pc = "link" /\ up /\ up' /\ prior' = NameOf(thread[h].frame)
      /\ UNCHANGED <<client, session, expected, records, linked, acks, gens>>
  BY DEF IInv, Link, At, files
<1>2. /\ thread[h] \in Thread /\ thread[h].frame \in Frame /\ r \in Answers
      /\ r.status \in Agreed /\ thread[h].frame.intent # 0
      /\ cur \in Nat /\ conn \in Handlers \cup {0} /\ thread \in [Handlers -> Thread]
  BY <1>1, ThreadFields DEF TypeInv, FrameInv, Working
<1>3. prior' \in EnvelopeName
  BY <1>1, <1>2, FrameFields
<1>4. CASE Reject(h, "WRITE_FAILED")
  <2>1. /\ Answers_(h, Reply("WRITE_FAILED", 0, Genesis))
        /\ Reply("WRITE_FAILED", 0, Genesis) \in Answers
        /\ Reply("WRITE_FAILED", 0, Genesis).status \notin Agreed \cup {"READY"}
    BY <1>1, <1>4, RejectEffect, Names DEF Reply, Answers, Statuses, Agreed
  <2>2. /\ thread' \in [Handlers -> Thread] /\ KeptOrSilent
        /\ FrameInv' /\ ClientInv' /\ NameInv' /\ AckInv'
    BY <1>1, <2>1, Silenced DEF Working
  <2>3. TypeInv'
    BY <1>1, <1>3, <2>2 DEF TypeInv, client
  <2>4. ChainInv'
    BY <1>1, <2>2, SilentChain
  <2>5. DiskInv'
    BY <1>1, <2>2, KeepsDisk
  <2> QED BY <2>2, <2>3, <2>4, <2>5 DEF IInv
<1>5. CASE Answer(h, r)
  <2>1. Answers_(h, r)
    BY <1>1, <1>2, <1>5, AnswerEffect
  <2>2. /\ \A g \in Handlers \ {h} : thread'[g] = thread[g]
        /\ thread' \in [Handlers -> Thread]
        /\ \/ conn = h /\ thread'[h].pc = "replied" /\ thread'[h].frame = thread[h].frame
              /\ thread'[h].reply = r
           \/ conn # h /\ thread'[h].pc = "free" /\ thread'[h].frame.intent = 0
    BY <2>1, Names DEF Answers_, Moved, NoFrame
  <2>3. FrameInv' /\ ClientInv'
    <3>1. r.status # "READY"
      BY <1>2 DEF Agreed
    <3> HIDE DEF r
    <3> QED BY <1>1, <1>2, <2>2, <3>1, KeepsFrames DEF Working
  <2>4. TypeInv'
    BY <1>1, <1>3, <2>2 DEF TypeInv, client
  <2>5. NameInv'
    BY <1>1, <2>2, KeepsNames DEF client
  <2>6. ChainInv'
    BY <1>1, <2>2, KeepsChain
  <2>7. AckInv'
    <3> SUFFICES ASSUME NEW g \in Handlers PROVE (AckInv!(g))'
      BY DEF AckInv
    <3>1. CASE g = h
      BY <1>1, <2>2, <3>1 DEF AckInv, Accepted
    <3>2. CASE g # h
      BY <1>1, <2>2, <3>2 DEF AckInv, Accepted
    <3> QED BY <3>1, <3>2
  <2>8. DiskInv'
    <3> SUFFICES ASSUME NEW g \in Handlers PROVE (DiskInv!(g))'
      BY DEF DiskInv
    <3>1. CASE g = h
      BY <1>1, <2>2, <3>1 DEF DiskInv, Accepted
    <3>2. CASE g # h
      BY <1>1, <2>2, <3>2 DEF DiskInv, Accepted
    <3> QED BY <3>1, <3>2
  <2> QED BY <2>3, <2>4, <2>5, <2>6, <2>7, <2>8 DEF IInv
<1> QED BY <1>4, <1>5 DEF Link

-----------------------------------------------------------------------------
(* The client.                                                              *)

\* A connection is opened: a handler has the frame, and nothing else changed
\* for the threads.
LEMMA Opened ==
  ASSUME TypeInv, FrameInv, NEW h \in Handlers, NEW pc \in {"hello", "check"}, NEW f \in Frame,
         Offering, Open(h, pc, f), up', cur' = cur,
         f.session \in Sessions, pc = "check" <=> f.intent # 0, f.intent <= cur
  PROVE  /\ thread' \in [Handlers -> Thread] /\ FrameInv'
         /\ conn = 0 /\ conn' = h /\ thread[h].pc = "free"
         /\ \A g \in Handlers \ {h} : thread'[g] = thread[g]
         /\ thread'[h].pc = pc /\ thread'[h].frame = f
<1>1. [pc |-> pc, frame |-> f, reply |-> NoReply] \in Thread
  BY Names DEF Thread, Pcs, Working
<1>2. /\ thread' \in [Handlers -> Thread] /\ conn = 0 /\ conn' = h /\ thread[h].pc = "free"
      /\ \A g \in Handlers \ {h} : thread'[g] = thread[g]
      /\ thread'[h].pc = pc /\ thread'[h].frame = f
  BY <1>1 DEF TypeInv, Open, Offering
<1>3. FrameInv'
  <2> SUFFICES ASSUME NEW g \in Handlers PROVE (FrameInv!(g))'
    BY DEF FrameInv
  <2>1. CASE g = h
    BY <1>2, <2>1 DEF Working, Accepted
  <2>2. CASE g # h
    <3>1. thread'[g] = thread[g] /\ g # 0 /\ up
      BY <1>2, <2>2 DEF Open
    <3> QED BY <1>2, <2>2, <3>1 DEF FrameInv, Accepted
  <2> QED BY <2>1, <2>2
<1> QED BY <1>2, <1>3

LEMMA SendHelloStep ==
  ASSUME IInv, NEW h \in Handlers, SendHello(h)
  PROVE  IInv'
<1>1. /\ TypeInv /\ FrameInv /\ ClientInv /\ ChainInv /\ NameInv /\ AckInv /\ DiskInv
      /\ Offering /\ sender = NoSender
      /\ UNCHANGED <<cur, outcome, sender, up, session, expected, prior, records, linked, gens>>
  BY DEF IInv, SendHello, memory
<1>2. PICK s \in Sessions :
        /\ FreshSession(s) /\ Open(h, "hello", [NoFrame EXCEPT !.session = s])
        /\ acks' = [a \in {k \in DOMAIN acks : k[1] # s} |-> acks[a]]
  BY DEF SendHello
<1> DEFINE f == [NoFrame EXCEPT !.session = s]
<1>3. f \in Frame /\ f.session = s /\ f.intent = 0
  BY Names DEF NoFrame, Frame
<1>4. cur \in Nat /\ 0 <= cur /\ up /\ up' /\ cur' = cur /\ cur <= NumIntents
  BY <1>1, <1>2 DEF TypeInv, Open, Offering
<1> HIDE DEF f
<1>5. /\ thread' \in [Handlers -> Thread] /\ FrameInv'
      /\ conn = 0 /\ conn' = h /\ thread[h].pc = "free"
      /\ \A g \in Handlers \ {h} : thread'[g] = thread[g]
      /\ thread'[h].pc = "hello" /\ thread'[h].frame = f
  <2>1. /\ TypeInv /\ FrameInv /\ Offering /\ up' /\ cur' = cur /\ f \in Frame
        /\ f.session \in Sessions /\ f.intent = 0 /\ f.intent <= cur
        /\ Open(h, "hello", f)
    BY <1>1, <1>2, <1>3, <1>4 DEF f
  <2> QED BY <2>1, Opened
<1>6. KeptOrSilent
  BY <1>5 DEF KeptOrSilent, Silent
<1>8. ClientInv'
  BY <1>1, <1>3, <1>4, <1>5 DEF ClientInv
<1>9. ChainInv' /\ DiskInv'
  BY <1>1, <1>6, SilentChain, KeepsDisk
<1>10. \A g \in Handlers : thread[g].frame.session # s
  <2> SUFFICES ASSUME NEW g \in Handlers PROVE thread[g].frame.session \in NamedSessions
    BY <1>2 DEF FreshSession
  <2> DEFINE S(k) == {thread[k].frame.session, thread[k].frame.prior[1]}
  <2>1. thread[g].frame.session \in S(g)
    OBVIOUS
  <2>2. S(g) \in {S(k) : k \in Handlers}
    OBVIOUS
  <2> HIDE DEF S
  <2>3. thread[g].frame.session \in UNION {S(k) : k \in Handlers}
    BY <2>1, <2>2
  <2> QED BY <2>3 DEF NamedSessions, S
<1>11. /\ DOMAIN acks' = {k \in DOMAIN acks : k[1] # s}
       /\ \A a \in DOMAIN acks' : acks'[a] = acks[a]
  BY <1>2
<1>7. TypeInv'
  BY <1>1, <1>5, <1>11 DEF TypeInv
<1>12. \A g \in Handlers : NameOf(thread[g].frame)[1] = thread[g].frame.session
  BY DEF NameOf
<1>13. NameOf(f)[1] = s
  BY <1>3 DEF NameOf
<1>14. NameInv'
  <2>1. s # 0 /\ NoSender.session = 0
    BY DEF NoSender
  <2>2. ASSUME NEW g \in Handlers, Live(g)'
        PROVE  (NameInv!1!(g)!2)'
    <3>1. CASE g = h
      BY <1>1, <1>3, <1>5, <1>10, <1>11, <1>12, <1>13, <2>1, <3>1
    <3>2. CASE g # h
      <4>1. Live(g) /\ thread'[g] = thread[g]
        BY <1>5, <2>2, <3>2 DEF Live
      <4> QED BY <1>1, <1>3, <1>5, <1>10, <1>11, <1>12, <1>13, <3>2, <4>1 DEF NameInv, Live
    <3> QED BY <3>1, <3>2
  <2> QED BY <1>1, <2>2 DEF NameInv
<1>15. AckInv'
  <2> SUFFICES ASSUME NEW g \in Handlers PROVE (AckInv!(g))'
    BY DEF AckInv
  <2>1. CASE g = h
    BY <1>5, <2>1 DEF Accepted
  <2>2. CASE g # h
    <3>1. thread'[g] = thread[g]
      BY <1>5, <2>2
    <3> QED BY <1>1, <1>10, <1>11, <1>12, <3>1 DEF AckInv, Accepted
  <2> QED BY <2>1, <2>2
<1> QED BY <1>5, <1>7, <1>8, <1>9, <1>14, <1>15 DEF IInv

LEMMA SendWriteStep ==
  ASSUME IInv, NEW h \in Handlers, SendWrite(h)
  PROVE  IInv'
<1> DEFINE f == [session |-> sender.session, n |-> sender.next,
                 prior |-> sender.prior, intent |-> cur]
<1>1. /\ TypeInv /\ FrameInv /\ ClientInv /\ ChainInv /\ NameInv /\ AckInv /\ DiskInv
      /\ Offering /\ sender # NoSender /\ Open(h, "check", f)
      /\ sender' = [session |-> sender.session, next |-> sender.next + 1,
                    prior |-> <<sender.session, sender.next>>]
      /\ UNCHANGED <<cur, outcome, up, session, expected, prior, records, linked, acks, gens>>
  BY DEF IInv, SendWrite, memory, files
<1>2. /\ sender.session \in Sessions /\ sender.next \in Nat /\ sender.prior \in EnvelopeName
      /\ cur \in Intents /\ cur # 0 /\ cur <= NumIntents /\ cur \in Nat
  BY <1>1 DEF ClientInv, TypeInv, Sender, Offering, Intents
<1>3. /\ f \in Frame /\ f.session = sender.session /\ f.intent = cur /\ f.n = sender.next
      /\ up /\ up'
  BY <1>1, <1>2 DEF Frame, Open
<1>4. NameOf(f) = <<sender.session, sender.next>>
  BY DEF NameOf
<1> HIDE DEF f
<1>5. /\ thread' \in [Handlers -> Thread] /\ FrameInv'
      /\ conn = 0 /\ conn' = h /\ thread[h].pc = "free"
      /\ \A g \in Handlers \ {h} : thread'[g] = thread[g]
      /\ thread'[h].pc = "check" /\ thread'[h].frame = f
  <2>1. /\ TypeInv /\ FrameInv /\ Offering /\ up' /\ cur' = cur /\ f \in Frame
        /\ f.session \in Sessions /\ f.intent # 0 /\ f.intent <= cur
        /\ Open(h, "check", f)
    BY <1>1, <1>2, <1>3
  <2> QED BY <2>1, Opened
<1>6. /\ sender' \in Sender /\ sender'.session = sender.session
      /\ sender'.next = sender.next + 1
  BY <1>1, <1>2 DEF Sender, EnvelopeName
<1>7. TypeInv'
  BY <1>1, <1>5, <1>6 DEF TypeInv
<1>8. ClientInv'
  BY <1>1, <1>2, <1>3, <1>5, <1>6 DEF ClientInv
<1>9. ChainInv'
  BY <1>1, <1>5, KeepsChain
<1>10. \A g \in Handlers : NameOf(thread[g].frame) = <<thread[g].frame.session, thread[g].frame.n>>
  BY DEF NameOf
<1>11. \A a \in DOMAIN acks : a[1] = sender.session => a[2] < sender.next
  BY <1>1 DEF NameInv
<1>12. NameOf(f) \notin DOMAIN acks
  BY <1>2, <1>4, <1>11
<1>13. \A g \in Handlers : Live(g) /\ thread[g].frame.session = sender.session =>
         thread[g].frame.intent # 0 /\ thread[g].frame.n < sender.next
  BY <1>1 DEF NameInv
<1>14. \A g \in Handlers : thread[g].frame.n \in Nat
  BY <1>1, ThreadFields, FrameFields DEF TypeInv
<1>15. \A g \in Handlers : Live(g) => NameOf(thread[g].frame) # NameOf(f)
  <2> SUFFICES ASSUME NEW g \in Handlers, Live(g),
                      NameOf(thread[g].frame) = NameOf(f)
               PROVE  FALSE
    OBVIOUS
  <2>1. thread[g].frame.session = sender.session /\ thread[g].frame.n = sender.next
    BY <1>4, <1>10
  <2> QED BY <1>2, <1>13, <2>1 DEF Live
<1>16. NameInv'
  <2>1. ASSUME NEW g \in Handlers, Live(g)'
        PROVE  (NameInv!1!(g)!2)'
    <3>1. CASE g = h
      <4>1. \A k \in Handlers \ {h} : Live(k)' => Live(k) /\ thread'[k] = thread[k]
        BY <1>5 DEF Live
      <4> QED BY <1>1, <1>2, <1>3, <1>5, <1>6, <1>15, <3>1, <4>1
    <3>2. CASE g # h
      <4>1. Live(g) /\ thread'[g] = thread[g]
        BY <1>5, <2>1, <3>2 DEF Live
      <4>2. thread[g].frame.session = sender.session =>
              thread[g].frame.intent # 0 /\ thread[g].frame.n < sender.next + 1
        <5>1. thread[g].frame.n \in Nat /\ sender.next \in Nat
          BY <1>2, <1>14
        <5>2. thread[g].frame.session = sender.session =>
                thread[g].frame.intent # 0 /\ thread[g].frame.n < sender.next
          BY <1>13, <4>1
        <5> QED BY <5>1, <5>2
      <4>3. \A k \in Handlers \ {g} :
              Live(k)' => NameOf(thread'[k].frame) # NameOf(thread[g].frame)
        BY <1>1, <1>5, <1>15, <4>1 DEF NameInv, Live
      <4>4. ASSUME thread[g].frame.intent = 0
            PROVE  /\ \A k \in Handlers \ {g} :
                        Live(k)' => thread'[k].frame.session # thread[g].frame.session
                   /\ \A a \in DOMAIN acks : a[1] # thread[g].frame.session
        BY <1>1, <1>3, <1>5, <1>13, <4>1, <4>4 DEF NameInv, Live
      <4> QED BY <1>1, <1>6, <4>1, <4>2, <4>3, <4>4
    <3> QED BY <3>1, <3>2
  <2>2. \A a \in DOMAIN acks' : a[1] = sender'.session => a[2] < sender'.next
    <3>1. \A a \in DOMAIN acks : a[1] = sender.session => a[2] < sender.next + 1
      <4>1. \A a \in DOMAIN acks : a[2] \in Nat
        BY <1>1 DEF TypeInv, EnvelopeName
      <4> QED BY <1>2, <1>11, <4>1
    <3> QED BY <1>1, <1>6, <3>1
  <2> QED BY <2>1, <2>2 DEF NameInv
<1>17. AckInv'
  <2> SUFFICES ASSUME NEW g \in Handlers PROVE (AckInv!(g))'
    BY DEF AckInv
  <2>1. CASE g = h
    BY <1>1, <1>5, <1>12, <2>1 DEF Accepted
  <2>2. CASE g # h
    BY <1>1, <1>5, <2>2 DEF AckInv, Accepted
  <2> QED BY <2>1, <2>2
<1>18. DiskInv'
  BY <1>1, <1>5 DEF DiskInv, Accepted
<1> QED BY <1>5, <1>7, <1>8, <1>9, <1>16, <1>17, <1>18 DEF IInv

\* The client has its answer: the handler that gave it ends.
LEMMA Closed ==
  ASSUME TypeInv, FrameInv, conn # 0, Close
  PROVE  /\ conn \in Handlers /\ conn' = 0 /\ thread' \in [Handlers -> Thread]
         /\ thread'[conn] = Idle /\ thread'[conn].pc = "free" /\ KeptOrSilent
         /\ \A g \in Handlers \ {conn} :
              thread'[g] = thread[g] /\ thread[g].pc \notin {"replied", "lost"}
  BY Names DEF TypeInv, FrameInv, Close, KeptOrSilent, Silent

Settled ==
  \/ UNCHANGED <<cur, outcome>>
  \/ \E result \in {"accepted", "rejected"} : Settle(result)

\* What the client makes of the answer, apart from its session.
LEMMA ClosedStep ==
  ASSUME IInv, conn # 0, thread[conn].pc \in {"replied", "lost"}, Close, Settled,
         sender' \in Sender, sender' = NoSender \/ sender'.session \in Sessions,
         UNCHANGED <<up, memory, files>>
  PROVE  TypeInv' /\ FrameInv' /\ ClientInv' /\ ChainInv' /\ AckInv' /\ DiskInv'
<1>1. TypeInv /\ FrameInv /\ ClientInv /\ ChainInv /\ AckInv /\ DiskInv
  BY DEF IInv
<1>2. /\ conn \in Handlers /\ conn' = 0 /\ thread' \in [Handlers -> Thread]
      /\ thread'[conn] = Idle /\ thread'[conn].pc = "free" /\ KeptOrSilent
      /\ \A g \in Handlers \ {conn} :
           thread'[g] = thread[g] /\ thread[g].pc \notin {"replied", "lost"}
  BY <1>1, Closed
<1>3. cur \in Intents /\ cur \in Nat /\ cur <= NumIntents
  BY <1>1 DEF ClientInv, TypeInv, Intents
<1> DEFINE Moves ==
           /\ cur' \in {cur, cur + 1} /\ cur' \in 1 .. NumIntents + 1
           /\ outcome' \in [Intents -> {"pending", "accepted", "rejected", "incorrect"}]
           /\ \A j \in Intents :
                outcome'[j] \in (IF j < cur' THEN {"accepted", "rejected"} ELSE {"pending"})
<1>4. Moves
  <2>1. CASE UNCHANGED <<cur, outcome>>
    BY <1>1, <2>1 DEF TypeInv, ClientInv
  <2>2. ASSUME NEW result \in {"accepted", "rejected"}, Settle(result)
        PROVE  Moves
    <3>1. cur' = cur + 1 /\ outcome' = [outcome EXCEPT ![cur] = result]
      BY <2>2 DEF Settle
    <3>2. outcome' \in [Intents -> {"pending", "accepted", "rejected", "incorrect"}]
      BY <1>1, <2>2, <3>1 DEF TypeInv
    <3>3. ASSUME NEW j \in Intents
          PROVE  outcome'[j] \in (IF j < cur' THEN {"accepted", "rejected"} ELSE {"pending"})
      <4>1. j \in Nat /\ outcome[j] \in (IF j < cur THEN {"accepted", "rejected"} ELSE {"pending"})
        BY <1>1 DEF ClientInv, Intents
      <4>2. CASE j = cur
        BY <1>1, <1>3, <2>2, <3>1, <4>2 DEF TypeInv
      <4>3. CASE j # cur
        <5>1. outcome'[j] = outcome[j] /\ (j < cur' <=> j < cur)
          BY <1>1, <1>3, <3>1, <4>1, <4>3 DEF TypeInv
        <5> QED BY <4>1, <5>1
      <4> QED BY <4>2, <4>3
    <3> QED BY <1>3, <3>1, <3>2, <3>3
  <2> QED BY <2>1, <2>2 DEF Settled
<1>5. TypeInv'
  BY <1>1, <1>2, <1>4 DEF TypeInv, memory, files
<1>6. FrameInv'
  <2> SUFFICES ASSUME NEW g \in Handlers PROVE (FrameInv!(g))'
    BY DEF FrameInv
  <2>1. up' = up
    OBVIOUS
  <2>2. CASE g = conn
    BY <1>2, <1>3, <1>4, <2>2, Names DEF Working, Accepted, NoFrame
  <2>3. CASE g # conn
    <3>1. thread'[g] = thread[g] /\ thread[g].pc \notin {"replied", "lost"} /\ g # 0
      BY <1>2, <2>3
    <3>2. thread[g].frame.intent \in Intents \cup {0}
      BY <1>1, ThreadFields, FrameFields DEF TypeInv
    <3>3. thread'[g].frame.intent <= cur'
      BY <1>1, <1>3, <1>4, <3>1, <3>2 DEF FrameInv, Intents
    <3> QED BY <1>1, <1>2, <2>1, <3>1, <3>3 DEF FrameInv, Accepted
  <2> QED BY <2>2, <2>3
<1>7. ClientInv'
  BY <1>2, <1>4 DEF ClientInv
<1>8. ChainInv' /\ DiskInv' /\ AckInv'
  BY <1>1, <1>2, SilentChain, KeepsDisk, KeepsAcks DEF memory, files
<1> QED BY <1>5, <1>6, <1>7, <1>8

LEMMA ClosedNames ==
  ASSUME IInv, conn # 0, Close, sender' = sender \/ sender' = NoSender, UNCHANGED files
  PROVE  NameInv'
<1>1. TypeInv /\ FrameInv /\ NameInv
  BY DEF IInv
<1>2. \A g \in Handlers : thread'[g].pc # "free" => g # conn /\ thread'[g] = thread[g]
  BY <1>1, Closed
<1> QED BY <1>1, <1>2, KeepsNames DEF files

LEMMA FailStep ==
  ASSUME IInv, conn # 0, thread[conn].pc \in {"replied", "lost"}, Close, NEW class,
         Fail(class), UNCHANGED <<up, memory, files>>
  PROVE  IInv'
<1>1. sender' = NoSender /\ Settled
  BY DEF Fail, Settled
<1> QED BY <1>1, ClosedStep, ClosedNames, Names DEF IInv

\* The client verifies what it is told was accepted.
LEMMA AcceptedIsVerified ==
  ASSUME FrameInv, AckInv, DiskInv, NEW h \in Handlers, Accepted(h)
  PROVE  Verified(thread[h].frame, thread[h].reply.status)
  BY DEF AckInv, DiskInv, Verified

LEMMA TakeReplyStep ==
  ASSUME IInv, TakeReply
  PROVE  IInv'
<1> DEFINE r == thread[conn].reply
           e == thread[conn].frame
<1>1. /\ TypeInv /\ FrameInv /\ ClientInv /\ ChainInv /\ NameInv /\ AckInv /\ DiskInv
      /\ conn # 0 /\ thread[conn].pc = "replied" /\ Close
      /\ UNCHANGED <<up, memory, files>>
  BY DEF IInv, TakeReply
<1>2. /\ conn \in Handlers /\ thread'[conn].pc = "free"
      /\ \A g \in Handlers \ {conn} : thread'[g] = thread[g]
  BY <1>1, Closed
<1>3. CASE /\ r.status = "READY" /\ UNCHANGED <<cur, outcome>>
           /\ sender' = [session |-> e.session, next |-> r.n, prior |-> r.prior]
  <2>1. r \in Answers /\ e \in Frame
    BY <1>1, <1>2, ThreadFields DEF TypeInv
  <2>2. e.session \in Sessions /\ e.intent = 0 /\ Live(conn)
    BY <1>1, <1>2, <1>3 DEF FrameInv, Live
  <2> DEFINE s == e.session
  <2>3. sender' \in Sender /\ sender'.session = s
    <3>1. r.n \in Nat /\ r.prior \in EnvelopeName
      BY <2>1 DEF Answers
    <3> QED BY <1>3, <2>2, <3>1 DEF Sender
  <2>4. TypeInv' /\ FrameInv' /\ ClientInv' /\ ChainInv' /\ AckInv' /\ DiskInv'
    BY <1>1, <1>3, <2>2, <2>3, ClosedStep DEF Settled
  <2>5. /\ \A g \in Handlers \ {conn} : Live(g) => thread[g].frame.session # s
        /\ \A a \in DOMAIN acks : a[1] # s
    BY <1>1, <1>2, <2>2 DEF NameInv
  <2> HIDE DEF s
  <2>6. acks' = acks
    BY <1>1 DEF files
  <2>7. \A g \in Handlers : Live(g)' => g # conn /\ Live(g) /\ thread'[g] = thread[g]
    BY <1>2 DEF Live
  <2>8. ASSUME NEW g \in Handlers, Live(g)'
        PROVE  (NameInv!1!(g)!2)'
    BY <1>1, <2>3, <2>5, <2>6, <2>7, <2>8 DEF NameInv
  <2>9. NameInv'
    BY <2>3, <2>5, <2>6, <2>8 DEF NameInv
  <2> QED BY <2>4, <2>9 DEF IInv
<1>4. CASE /\ r.status \in Agreed
           /\ IF Verified(e, r.status)
              THEN Settle("accepted") /\ UNCHANGED sender
              ELSE Settle("incorrect") /\ sender' = NoSender
  <2>1. Settle("accepted") /\ UNCHANGED sender
    BY <1>1, <1>2, <1>4, AcceptedIsVerified DEF Accepted
  <2>2. sender' \in Sender /\ (sender' = NoSender \/ sender'.session \in Sessions)
    BY <1>1, <2>1 DEF TypeInv, ClientInv
  <2> QED BY <1>1, <2>1, <2>2, ClosedStep, ClosedNames DEF IInv, Settled
<1>5. CASE Fail(r.status)
  BY <1>1, <1>5, FailStep
<1> QED BY <1>3, <1>4, <1>5 DEF TakeReply, Agreed

LEMMA TimeoutStep ==
  ASSUME IInv, Timeout
  PROVE  IInv'
<1>1. /\ TypeInv /\ FrameInv /\ ClientInv /\ ChainInv /\ NameInv /\ AckInv /\ DiskInv
      /\ conn # 0 /\ thread[conn].pc \notin {"replied", "lost"}
      /\ conn' = 0 /\ sender' = NoSender
      /\ UNCHANGED <<cur, outcome, thread, up, session, expected, prior, records, linked, acks, gens>>
  BY DEF IInv, Timeout, memory, files
<1>2. TypeInv'
  BY <1>1, Names DEF TypeInv
<1>3. FrameInv'
  <2> SUFFICES ASSUME NEW g \in Handlers PROVE (FrameInv!(g))'
    BY DEF FrameInv
  <2>1. g # 0 /\ thread'[g] = thread[g] /\ thread[g].pc \notin {"replied", "lost"}
    BY <1>1 DEF FrameInv
  <2> QED BY <1>1, <2>1 DEF FrameInv, Accepted
<1>4. ClientInv'
  BY <1>1 DEF ClientInv
<1>5. NameInv'
  BY <1>1, KeepsNames
<1>6. ChainInv' /\ DiskInv' /\ AckInv'
  BY <1>1, SilentChain, KeepsDisk, KeepsAcks DEF KeptOrSilent
<1> QED BY <1>2, <1>3, <1>4, <1>5, <1>6 DEF IInv

LEMMA SendRefusedStep ==
  ASSUME IInv, SendRefused
  PROVE  IInv'
<1>1. /\ TypeInv /\ FrameInv /\ ClientInv /\ ChainInv /\ NameInv /\ AckInv /\ DiskInv
      /\ sender' = NoSender /\ UNCHANGED <<cur, outcome, conn, thread, up, memory, files>>
  BY DEF IInv, SendRefused
<1>2. TypeInv' /\ FrameInv' /\ ClientInv'
  BY <1>1, Names DEF TypeInv, FrameInv, ClientInv, Accepted, memory, files
<1>3. NameInv'
  BY <1>1, KeepsNames DEF files
<1>4. ChainInv' /\ DiskInv' /\ AckInv'
  BY <1>1, SilentChain, KeepsDisk, KeepsAcks DEF KeptOrSilent, memory, files
<1> QED BY <1>2, <1>3, <1>4 DEF IInv

-----------------------------------------------------------------------------
(* Crash and restart.                                                       *)

LEMMA CrashStep ==
  ASSUME IInv, Crash
  PROVE  IInv'
<1>1. /\ TypeInv /\ FrameInv /\ ClientInv /\ ChainInv /\ NameInv /\ AckInv /\ DiskInv
      /\ up /\ ~up' /\ up' \in BOOLEAN
      /\ UNCHANGED <<cur, outcome, sender, conn, session, expected, prior, records, linked, acks>>
  BY DEF IInv, Crash, client, memory
<1>2. PICK k \in Nat : Whole(k)
  BY <1>1 DEF ChainInv
<1>3. \A g \in Handlers :
        /\ thread'[g] \in Thread
        /\ thread'[g].pc \in {"free", "replied", "lost"}
        /\ thread'[g].pc \in {"replied", "lost"} => conn = g /\ thread'[g].frame = thread[g].frame
        /\ conn = g => thread'[g].pc # "free"
        /\ thread'[g].pc = "replied" => thread'[g] = thread[g]
        /\ thread'[g].pc = "free" => thread'[g] = Idle
  <2> SUFFICES ASSUME NEW g \in Handlers PROVE (<1>3!(g))
    OBVIOUS
  <2>1. CASE g = conn /\ thread[g].pc # "replied"
    <3>1. thread'[g] = [thread[g] EXCEPT !.pc = "lost"] /\ thread[g] \in Thread
      BY <1>1, <2>1 DEF Crash, TypeInv
    <3>2. thread'[g].pc = "lost" /\ thread'[g].frame = thread[g].frame /\ thread'[g] \in Thread
      BY <3>1, ThreadFields DEF Thread, Pcs
    <3> QED BY <2>1, <3>2
  <2>2. CASE g = conn /\ thread[g].pc = "replied"
    BY <1>1, <2>2 DEF Crash, TypeInv
  <2>3. CASE g # conn
    BY <1>1, <2>3, Names DEF Crash
  <2> QED BY <2>1, <2>2, <2>3
<1>4. thread' \in [Handlers -> Thread]
  <2>1. thread' = [g \in Handlers |-> thread'[g]]
    BY DEF Crash
  <2> QED BY <1>3, <2>1
<1>5. /\ \A n \in DOMAIN gens : n \in DOMAIN gens' /\ gens'[n] = gens[n]
      /\ \A n \in DOMAIN gens' : gens'[n] \in Generation
      /\ \E m \in Nat : Complete' = 1 .. m /\ DOMAIN gens' \subseteq 1 .. m + 1
  <2>1. CASE UNCHANGED gens
    <3>1. Complete' = Complete
      BY <2>1 DEF Complete
    <3> QED BY <1>1, <1>2, <2>1, <3>1 DEF TypeInv, Whole
  <2>2. CASE \E h \in Handlers :
               /\ At(h, "generation") /\ thread[h].frame.n \notin DOMAIN gens
               /\ gens' = Created(gens, thread[h].frame.n, Torn)
    <3>1. PICK h \in Handlers :
            /\ thread[h].pc = "generation" /\ thread[h].frame.n \notin DOMAIN gens
            /\ gens' = Created(gens, thread[h].frame.n, Torn)
      BY <2>2 DEF At
    <3>2. PICK x \in Generation : x = Torn
      BY Names
    <3>3. /\ Complete' = 1 .. k /\ DOMAIN gens' \subseteq 1 .. k + 1
          /\ DOMAIN gens' = DOMAIN gens \cup {k + 1} /\ gens'[k + 1] = Torn
          /\ \A n \in DOMAIN gens : n \in DOMAIN gens' /\ gens'[n] = gens[n]
      <4>1. TypeInv /\ FrameInv /\ ChainInv /\ up
        BY <1>1
      <4>2. gens' = Created(gens, thread[h].frame.n, x)
        BY <3>1, <3>2
      <4>3. /\ thread[h].frame.n = k + 1 /\ expected = k + 1
            /\ x = Torn => Complete' = 1 .. k
            /\ x # Torn => Complete' = 1 .. k + 1
            /\ DOMAIN gens' = DOMAIN gens \cup {k + 1} /\ gens'[k + 1] = x
            /\ DOMAIN gens' \subseteq 1 .. k + 1
            /\ \A n \in DOMAIN gens : n \in DOMAIN gens' /\ gens'[n] = gens[n]
        BY <4>1, <4>2, <1>2, <3>1, NextGeneration, Zenon
      <4> QED BY <4>3, <3>2
    <3> QED BY <1>1, <3>2, <3>3 DEF TypeInv
  <2> QED BY <2>1, <2>2 DEF Crash
<1>6. TypeInv'
  BY <1>1, <1>4, <1>5 DEF TypeInv
<1>7. KeptOrSilent
  BY <1>3, Names DEF KeptOrSilent, Silent
<1>8. FrameInv'
  <2> SUFFICES ASSUME NEW g \in Handlers PROVE (FrameInv!(g))'
    BY DEF FrameInv
  <2>1. CASE thread'[g].pc = "free"
    <3>1. thread'[g].frame.intent = 0 /\ cur \in Nat /\ conn # g
      BY <1>1, <1>3, <2>1, Names DEF NoFrame, TypeInv
    <3> QED BY <1>1, <2>1, <3>1 DEF Working, Accepted
  <2>2. CASE thread'[g].pc = "replied"
    <3>1. thread'[g] = thread[g]
      BY <1>3, <2>2
    <3> QED BY <1>1, <2>2, <3>1 DEF FrameInv, Working, Accepted
  <2>3. CASE thread'[g].pc = "lost"
    <3>1. thread'[g].frame = thread[g].frame /\ conn = g
      BY <1>3, <2>3
    <3> QED BY <1>1, <2>3, <3>1 DEF FrameInv, Working, Accepted
  <2> QED BY <1>3, <2>1, <2>2, <2>3
<1>9. ClientInv'
  <2>1. conn # 0 => thread'[conn].frame = thread[conn].frame
    BY <1>1, <1>3 DEF TypeInv
  <2> QED BY <1>1, <2>1 DEF ClientInv
<1>10. ChainInv'
  <2>1. \E m \in Nat : Whole(m)'
    BY <1>1, <1>5 DEF Whole
  <2> QED BY <1>3, <2>1 DEF ChainInv
<1>11. NameInv'
  <2>1. \A g \in Handlers : thread'[g].pc # "free" =>
          thread[g].pc # "free" /\ thread'[g].frame = thread[g].frame
    BY <1>1, <1>3 DEF FrameInv
  <2> QED BY <1>1, <2>1, KeepsNames
<1>12. AckInv' /\ DiskInv'
  BY <1>1, <1>5, <1>7, KeepsAcks, KeepsDisk
<1> QED BY <1>6, <1>8, <1>9, <1>10, <1>11, <1>12 DEF IInv

\* The newest of the first k is the k-th.
LEMMA LatestIsLast ==
  ASSUME NEW k \in Nat, Complete = 1 .. k
  PROVE  IF k = 0 THEN Complete = {} ELSE Complete # {} /\ Latest = k
<1>1. CASE k = 0
  BY <1>1
<1>2. CASE k # 0
  <2>1. k \in Complete /\ \A m \in Complete : m <= k
    BY <1>2
  <2>2. Latest \in Complete /\ \A m \in Complete : m <= Latest
    BY <2>1 DEF Latest
  <2>3. Latest \in Nat /\ k <= Latest /\ Latest <= k
    BY <2>1, <2>2
  <2> QED BY <1>2, <2>1, <2>3
<1> QED BY <1>1, <1>2

LEMMA RestartStep ==
  ASSUME IInv, Restart
  PROVE  IInv'
<1>1. /\ TypeInv /\ FrameInv /\ ClientInv /\ ChainInv /\ NameInv /\ AckInv /\ DiskInv
      /\ ~up /\ up' = TRUE /\ session' = 0 /\ expected' = LoadExpected /\ prior' = LoadPrior
      /\ UNCHANGED <<client, thread, records, linked, acks, gens>>
  BY DEF IInv, Restart, files
<1>2. PICK k \in Nat : Whole(k)
  BY <1>1 DEF ChainInv
<1>3. Complete = 1 .. k /\ DOMAIN gens \subseteq 1 .. k + 1 /\ Complete \subseteq DOMAIN gens
  BY <1>2 DEF Whole, Complete
<1>4. expected' = k + 1 /\ prior' \in EnvelopeName
  <2>1. CASE k = 0
    <3>1. Complete = {}
      BY <1>3, <2>1, LatestIsLast
    <3> QED BY <1>1, <2>1, <3>1, Names DEF LoadExpected, LoadPrior
  <2>2. CASE k # 0
    <3>1. Complete # {} /\ Latest = k
      BY <1>3, <2>2, LatestIsLast
    <3>2. k \in DOMAIN gens
      BY <1>3, <2>2
    <3>3. gens[k].name \in EnvelopeName
      BY <1>1, <3>2 DEF TypeInv, Generation
    <3> QED BY <1>1, <3>1, <3>3 DEF LoadExpected, LoadPrior
  <2> QED BY <2>1, <2>2
<1>5. TypeInv'
  BY <1>1, <1>4 DEF TypeInv, client
<1>6. FrameInv' /\ ClientInv'
  BY <1>1 DEF FrameInv, ClientInv, client, Accepted
<1>7. NameInv'
  BY <1>1, KeepsNames DEF client
<1>8. AckInv' /\ DiskInv'
  BY <1>1, KeepsAcks, KeepsDisk DEF KeptOrSilent
<1>9. ChainInv'
  <2>1. Complete' = Complete
    BY <1>1 DEF Complete
  <2>2. Whole(k)'
    BY <1>3, <1>1, <1>4, <2>1 DEF Whole
  <2>3. \A g \in Handlers : thread'[g].pc \in {"free", "replied", "lost"}
    BY <1>1 DEF FrameInv
  <2> QED BY <2>2, <2>3 DEF ChainInv
<1> QED BY <1>5, <1>6, <1>7, <1>8, <1>9 DEF IInv

-----------------------------------------------------------------------------
(* The invariant.                                                           *)

LEMMA InitInv == Init => IInv
<1> SUFFICES ASSUME Init PROVE IInv
  OBVIOUS
<1> USE DEF Init
<1>1. \A h \in Handlers : thread[h] = Idle
  OBVIOUS
<1>2. Idle.pc = "free" /\ Idle.frame.intent = 0 /\ Idle \in Thread /\ Genesis \in EnvelopeName
  BY Names DEF NoFrame
<1>3. DOMAIN records = {} /\ DOMAIN acks = {} /\ DOMAIN gens = {}
  OBVIOUS
<1>4. TypeInv
  BY <1>1, <1>2, <1>3, Names DEF TypeInv, Intents
<1>5. FrameInv
  BY <1>1, <1>2, <1>4 DEF FrameInv, Working, Accepted
<1>6. ClientInv
  BY DEF ClientInv, Intents
<1>7. ChainInv
  <2>1. Complete = {}
    BY <1>3 DEF Complete
  <2>2. Whole(0)
    BY <1>3, <2>1 DEF Whole
  <2> QED BY <1>1, <1>2, <2>2 DEF ChainInv
<1>8. NameInv /\ AckInv /\ DiskInv
  BY <1>1, <1>2, <1>3 DEF NameInv, AckInv, DiskInv, Live, Accepted
<1> QED BY <1>4, <1>5, <1>6, <1>7, <1>8 DEF IInv

LEMMA TakeLostStep ==
  ASSUME IInv, TakeLost
  PROVE  IInv'
  BY FailStep DEF TakeLost

LEMMA StutterStep ==
  ASSUME IInv, UNCHANGED vars
  PROVE  IInv'
<1>1. /\ TypeInv /\ FrameInv /\ ClientInv /\ ChainInv /\ NameInv /\ AckInv /\ DiskInv
      /\ UNCHANGED <<cur, outcome, sender, conn, thread, up, session, expected, prior,
                     records, linked, acks, gens>>
  BY DEF IInv, vars, client, memory, files
<1>2. TypeInv' /\ FrameInv' /\ ClientInv'
  BY <1>1 DEF TypeInv, FrameInv, ClientInv, Accepted
<1>3. ChainInv' /\ NameInv' /\ AckInv' /\ DiskInv'
  BY <1>1, SilentChain, KeepsNames, KeepsAcks, KeepsDisk DEF KeptOrSilent
<1> QED BY <1>2, <1>3 DEF IInv

LEMMA InvStep == IInv /\ [Next]_vars => IInv'
<1> SUFFICES ASSUME IInv, [Next]_vars PROVE IInv'
  OBVIOUS
<1>1. ASSUME NEW h \in Handlers, HandlerStep(h) PROVE IInv'
  BY <1>1, HelloStep, CheckStep, LinkRecordStep, UnlinkTempStep, StoreAckStep,
     StoreGenerationStep, AdvanceStep, LinkStep DEF HandlerStep
<1>2. CASE ClientStep
  BY <1>2, SendHelloStep, SendWriteStep, SendRefusedStep, TakeReplyStep, TakeLostStep
     DEF ClientStep
<1>3. CASE Timeout \/ Crash \/ Restart
  BY <1>3, TimeoutStep, CrashStep, RestartStep
<1>4. CASE UNCHANGED vars
  BY <1>4, StutterStep
<1> QED BY <1>1, <1>2, <1>3, <1>4 DEF Next

LEMMA Invariant == Spec => []IInv
  BY InitInv, InvStep, PTL DEF Spec

-----------------------------------------------------------------------------
(* The theorems.                                                            *)

\* Every variable keeps its type, whatever the threads, the client's timeouts
\* and the crashes do.
THEOREM TypeCorrect == Spec => []TypeOK
<1>1. IInv => TypeOK
  <2> SUFFICES ASSUME IInv PROVE TypeOK
    OBVIOUS
  <2>1. TypeInv /\ FrameInv
    BY DEF IInv
  <2>2. \A h \in Handlers : thread[h] \in Thread
    BY <2>1 DEF TypeInv
  <2>3. ASSUME NEW h \in Handlers, thread[h].pc \in Working
        PROVE  thread[h].frame \in Envelope
    <3>1. thread[h].frame \in Frame
      BY <2>2, ThreadFields
    <3>2. thread[h].frame.session \in Sessions /\ thread[h].frame.intent # 0
      BY <2>1, <2>3 DEF FrameInv, Working
    <3> QED BY <3>1, <3>2 DEF Frame, Envelope
  <2>4. \A h \in Handlers : thread[h].pc \in Pcs
    BY <2>2, ThreadFields
  <2>5. \A n \in DOMAIN gens : gens[n].intent \in Intents \cup {0}
    BY <2>1 DEF TypeInv, Generation
  <2> QED BY <2>1, <2>3, <2>4, <2>5 DEF TypeOK, TypeInv, Sender, Pcs, Working
<1> QED BY <1>1, Invariant, PTL

LEMMA CountComplete ==
  ASSUME NEW k \in Nat, Complete = 1 .. k
  PROVE  Cardinality(Complete) = k
  BY FS_Interval

\* However the handler threads race, and wherever the writer crashes, its
\* generation files are numbered without a gap and without a repetition.
THEOREM ContiguousCorrect == Spec => []GenerationsContiguous
<1>1. IInv => GenerationsContiguous
  BY CountComplete DEF IInv, ChainInv, Whole, GenerationsContiguous
<1> QED BY <1>1, Invariant, PTL

\* What the writer says it accepted is the generation of its sequence, with
\* its record and its acknowledgement on disk.
THEOREM AcceptanceCorrect == Spec => []AcceptanceOwnsGeneration
<1>1. IInv => AcceptanceOwnsGeneration
  <2> SUFFICES ASSUME IInv, NEW h \in Handlers, Accepted(h)
               PROVE  LET e == thread[h].frame
                      IN  /\ e.n \in DOMAIN gens /\ gens[e.n] = GenerationOf(e)
                          /\ Verified(e, thread[h].reply.status)
    BY DEF AcceptanceOwnsGeneration, Accepted, Agreed
  <2>1. FrameInv /\ AckInv /\ DiskInv
    BY DEF IInv
  <2> QED BY <2>1, AcceptedIsVerified DEF DiskInv
<1> QED BY <1>1, Invariant, PTL

-----------------------------------------------------------------------------
(* The refinement.                                                          *)

LEMMA LogOf ==
  ASSUME NEW k \in Nat, Complete = 1 .. k
  PROVE  CommittedLog = [n \in 1 .. k |-> gens[n].intent] /\ Len(CommittedLog) = k
  BY CountComplete DEF CommittedLog

\* The readable generations stay as they are.
LEMMA LogKept ==
  ASSUME IInv, Complete' = Complete, \A n \in Complete : gens'[n] = gens[n]
  PROVE  CommittedLog' = CommittedLog
<1>1. PICK k \in Nat : Complete = 1 .. k
  BY DEF IInv, ChainInv, Whole
<1> DEFINE m == Cardinality(Complete)
<1>2. m = k /\ m' = m
  BY <1>1, CountComplete
<1>3. \A n \in 1 .. m : gens'[n] = gens[n]
  BY <1>1, <1>2
<1> QED BY <1>2, <1>3 DEF CommittedLog

LEMMA LogGrows ==
  ASSUME IInv, NEW h \in Handlers, thread[h].pc = "generation", up,
         thread[h].frame.n \notin DOMAIN gens,
         gens' = Created(gens, thread[h].frame.n, GenerationOf(thread[h].frame)),
         UNCHANGED <<cur, outcome>>
  PROVE  Log!Commit(thread[h].frame.intent) /\ thread[h].frame.intent \in Intents
<1> DEFINE e == thread[h].frame
<1>1. TypeInv /\ FrameInv /\ ClientInv /\ ChainInv
  BY DEF IInv
<1>2. PICK k \in Nat : Whole(k)
  BY <1>1 DEF ChainInv
<1>3. GenerationOf(e) \in Generation /\ GenerationOf(e) # Torn /\ e.intent \in Intents
  BY <1>1, OwnGeneration DEF Working
<1>4. PICK x \in Generation : x = GenerationOf(e)
  BY <1>3
<1>5. /\ thread[h].frame.n = k + 1 /\ expected = k + 1
      /\ x = Torn => Complete' = 1 .. k
      /\ x # Torn => Complete' = 1 .. k + 1
      /\ DOMAIN gens' = DOMAIN gens \cup {k + 1} /\ gens'[k + 1] = x
      /\ DOMAIN gens' \subseteq 1 .. k + 1
      /\ \A n \in DOMAIN gens : n \in DOMAIN gens' /\ gens'[n] = gens[n]
  <2>1. gens' = Created(gens, thread[h].frame.n, x)
    BY <1>4
  <2> QED BY <1>1, <1>2, <2>1, NextGeneration, Zenon
<1>6. Complete = 1 .. k /\ Complete \subseteq DOMAIN gens
  BY <1>2 DEF Whole, Complete
<1>7. CommittedLog = [n \in 1 .. k |-> gens[n].intent]
  BY <1>6, LogOf
<1>8. CommittedLog' = [n \in 1 .. k + 1 |-> gens'[n].intent]
  <2> DEFINE m == Cardinality(Complete)
  <2>1. Complete' = 1 .. k + 1
    BY <1>3, <1>4, <1>5
  <2>2. m' = k + 1
    <3>1. Cardinality(1 .. k + 1) = k + 1
      BY FS_Interval
    <3> QED BY <2>1, <3>1
  <2> QED BY <2>2 DEF CommittedLog
<1>9. gens'[k + 1].intent = e.intent
  BY <1>4, <1>5 DEF GenerationOf
<1>10. \A n \in 1 .. k : gens'[n] = gens[n]
  BY <1>5, <1>6
<1>11. CommittedLog' = Append(CommittedLog, e.intent)
  BY <1>7, <1>8, <1>9, <1>10
<1>12. ASSUME NEW j \in Intents, j < e.intent PROVE outcome[j] # "pending"
  <2>1. e.intent <= cur /\ cur \in Nat /\ j \in Nat /\ e.intent \in Nat
    BY <1>1, <1>3 DEF FrameInv, TypeInv, Intents
  <2>2. j < cur
    BY <1>12, <2>1
  <2> QED BY <1>1, <2>2 DEF ClientInv
<1> QED BY <1>3, <1>11, <1>12 DEF Log!Commit, Log!Offered

\* Every handler step but a whole generation file leaves the log alone.
LEMMA HandlerLog ==
  ASSUME IInv, NEW h \in Handlers, HandlerStep(h)
  PROVE  [Log!Next]_(Log!vars)
<1>1. UNCHANGED <<cur, outcome>>
  BY DEF HandlerStep, Hello, Check, LinkRecord, UnlinkTemp, StoreAck, StoreGeneration, Advance, Link, client
<1> DEFINE e == thread[h].frame
<1>2. CASE UNCHANGED gens
  <2>1. CommittedLog' = CommittedLog
    BY <1>2, LogKept DEF Complete
  <2> QED BY <1>1, <2>1 DEF Log!vars
<1>3. CASE StoreGeneration(h) /\ e.n \notin DOMAIN gens /\ gens' = Created(gens, e.n, GenerationOf(e))
  <2>1. Log!Commit(e.intent) /\ e.intent \in Intents
    BY <1>1, <1>3, LogGrows DEF StoreGeneration, At
  <2> QED BY <2>1 DEF Log!Next
<1>4. CASE StoreGeneration(h) /\ e.n \notin DOMAIN gens /\ gens' = Created(gens, e.n, Torn)
  <2>1. Complete' = Complete /\ \A n \in Complete : gens'[n] = gens[n]
    BY <1>4 DEF Complete, Created
  <2>2. CommittedLog' = CommittedLog
    BY <2>1, LogKept
  <2> QED BY <1>1, <2>2 DEF Log!vars
<1>5. CASE StoreGeneration(h)
  BY <1>2, <1>3, <1>4, <1>5 DEF StoreGeneration
<1> QED BY <1>2, <1>5
        DEF HandlerStep, Hello, Check, LinkRecord, UnlinkTemp, StoreAck, Advance, Link, files

\* The client answers the intent it offers.
LEMMA ClientLog ==
  ASSUME IInv, conn # 0, thread[conn].pc \in {"replied", "lost"}, UNCHANGED gens,
         \/ UNCHANGED <<cur, outcome>>
         \/ Accepted(conn) /\ Settle("accepted")
         \/ Settle("rejected")
  PROVE  [Log!Next]_(Log!vars)
<1>1. TypeInv /\ FrameInv /\ ClientInv /\ ChainInv /\ DiskInv
  BY DEF IInv
<1>2. cur \in Intents /\ conn \in Handlers /\ cur # 0 /\ cur \in Nat
  BY <1>1 DEF TypeInv, ClientInv, Intents
<1>3. CommittedLog' = CommittedLog
  BY LogKept DEF Complete
<1>4. Log!Offered(cur) /\ outcome[cur] = "pending"
  <2>1. \A j \in Intents : j < cur => outcome[j] # "pending"
    BY <1>1 DEF ClientInv
  <2>2. outcome[cur] = "pending"
    BY <1>1, <1>2 DEF ClientInv
  <2> QED BY <2>1, <2>2 DEF Log!Offered
<1>5. CASE UNCHANGED <<cur, outcome>>
  BY <1>3, <1>5 DEF Log!vars
<1>6. CASE Settle("rejected")
  <2>1. Log!Refuse(cur)
    BY <1>3, <1>4, <1>6 DEF Log!Refuse, Settle
  <2> QED BY <1>2, <2>1 DEF Log!Next
<1>7. CASE Accepted(conn) /\ Settle("accepted")
  <2> DEFINE e == thread[conn].frame
  <2>1. e.intent = cur /\ thread[conn].pc \in {"replied"}
    BY <1>1, <1>2, <1>7 DEF FrameInv, ClientInv, Accepted
  <2>2. e.n \in DOMAIN gens /\ gens[e.n] = GenerationOf(e)
    BY <1>1, <1>2, <1>7 DEF DiskInv
  <2>3. gens[e.n].intent = cur
    BY <2>1, <2>2 DEF GenerationOf
  <2>4. e.n \in Complete
    <3>1. Torn.intent = 0
      BY DEF Torn
    <3>2. gens[e.n] # Torn
      BY <1>2, <2>3, <3>1
    <3> QED BY <2>2, <3>2 DEF Complete
  <2>5. PICK k \in Nat : Complete = 1 .. k
    BY <1>1 DEF ChainInv, Whole
  <2>6. CommittedLog = [n \in 1 .. k |-> gens[n].intent] /\ Len(CommittedLog) = k
    BY <2>5, LogOf
  <2>7. e.n \in 1 .. Len(CommittedLog) /\ CommittedLog[e.n] = cur
    BY <2>3, <2>4, <2>5, <2>6
  <2>8. cur \in Log!Committed
    BY <2>7 DEF Log!Committed
  <2>9. Log!Accept(cur)
    BY <1>3, <1>4, <1>7, <2>8 DEF Log!Accept, Settle
  <2> QED BY <1>2, <2>9 DEF Log!Next
<1> QED BY <1>5, <1>6, <1>7

LEMMA LogStep == IInv /\ [Next]_vars => [Log!Next]_(Log!vars)
<1> SUFFICES ASSUME IInv, [Next]_vars PROVE [Log!Next]_(Log!vars)
  OBVIOUS
<1>1. ASSUME UNCHANGED <<outcome, gens>> PROVE [Log!Next]_(Log!vars)
  <2>1. CommittedLog' = CommittedLog
    BY <1>1, LogKept DEF Complete
  <2> QED BY <1>1, <2>1 DEF Log!vars
<1>2. ASSUME NEW h \in Handlers, HandlerStep(h) PROVE [Log!Next]_(Log!vars)
  BY <1>2, HandlerLog
<1>3. CASE TakeReply
  <2>1. /\ conn # 0 /\ thread[conn].pc = "replied" /\ UNCHANGED gens /\ Close
    BY <1>3 DEF TakeReply, files
  <2>2. TypeInv /\ FrameInv /\ AckInv /\ DiskInv
    BY DEF IInv
  <2>3. conn \in Handlers
    BY <2>1, <2>2 DEF TypeInv
  <2>4. Accepted(conn) => Verified(thread[conn].frame, thread[conn].reply.status)
    BY <2>2, <2>3, AcceptedIsVerified
  <2>5. \/ UNCHANGED <<cur, outcome>>
        \/ Accepted(conn) /\ Settle("accepted")
        \/ Settle("rejected")
    BY <1>3, <2>1, <2>4 DEF TakeReply, Fail, Accepted, Agreed
  <2> QED BY <2>1, <2>5, ClientLog
<1>4. CASE TakeLost
  <2>1. /\ conn # 0 /\ thread[conn].pc = "lost" /\ UNCHANGED gens
        /\ UNCHANGED <<cur, outcome>> \/ Settle("rejected")
    BY <1>4 DEF TakeLost, files, Fail
  <2> QED BY <2>1, ClientLog
<1>5. CASE Crash
  <2>1. UNCHANGED outcome
    BY <1>5 DEF Crash, client
  <2>2. Complete' = Complete /\ \A n \in Complete : gens'[n] = gens[n]
    <3>1. CASE UNCHANGED gens
      BY <3>1 DEF Complete
    <3>2. ASSUME NEW n, n \notin DOMAIN gens, gens' = Created(gens, n, Torn)
          PROVE  Complete' = Complete /\ \A m \in Complete : gens'[m] = gens[m]
      BY <3>2 DEF Complete, Created
    <3> QED BY <1>5, <3>1, <3>2 DEF Crash
  <2>3. CommittedLog' = CommittedLog
    BY <2>2, LogKept
  <2> QED BY <2>1, <2>3 DEF Log!vars
<1>6. CASE (\E h \in Handlers : SendHello(h) \/ SendWrite(h)) \/ SendRefused \/ Timeout \/ Restart
  BY <1>1, <1>6 DEF SendHello, SendWrite, SendRefused, Timeout, Restart, client, files
<1>7. CASE UNCHANGED vars
  BY <1>1, <1>7 DEF vars, client, files
<1> QED BY <1>2, <1>3, <1>4, <1>5, <1>6, <1>7 DEF Next, ClientStep

LEMMA LogInit == Init => Log!Init
<1> SUFFICES ASSUME Init PROVE Log!Init
  OBVIOUS
<1>1. Complete = {}
  BY DEF Init, Complete
<1>2. Cardinality(Complete) = 0
  BY <1>1, FS_EmptySet
<1>3. CommittedLog = <<>>
  BY <1>2 DEF CommittedLog
<1> QED BY <1>3 DEF Init, Log!Init

\* The writer, its threads, its files, its crashes and its client together
\* keep the promise of EvidenceLog: the log only grows, an accepted intent is
\* in it, and no intent is answered twice.
THEOREM RefinesEvidenceLog == Spec => ImplementsEvidenceLog
<1>1. Init => Log!Init
  BY LogInit
<1>2. IInv /\ [Next]_vars => [Log!Next]_(Log!vars)
  BY LogStep
<1> QED BY <1>1, <1>2, Invariant, PTL DEF Spec, ImplementsEvidenceLog, Log!Spec

-----------------------------------------------------------------------------
(* What it takes to be rejected for good.                                   *)

Before == {"check", "record", "unlink", "ack", "generation", "advance"}

Undisturbed == timeouts = 0 /\ crashes = 0

\* An envelope continues the session where the writer stands.
Current(s, n, p) == s = session /\ n = expected /\ p = prior

\* As long as the client never gives up waiting, one thread is alive, the one it
\* waits for, and the two sides of the session agree.
Agreement(h) ==
  LET t == thread[h]
      e == t.frame
  IN  /\ t.pc \notin {"free", "lost"}
      /\ t.pc \in Before => Current(e.session, e.n, e.prior)
      /\ t.pc \in Working =>
           sender.session = e.session /\ sender.next = e.n + 1 /\ sender.prior = NameOf(e)
      /\ t.pc = "link" => e.session = session /\ expected = e.n + 1
      /\ t.pc = "replied" =>
           /\ t.reply.status = "READY" => Current(e.session, t.reply.n, t.reply.prior)
           /\ t.reply.status \in Agreed => Current(sender.session, sender.next, sender.prior)
           /\ t.reply.status \notin PermanentFailures

SoloInv ==
  /\ up /\ \A i \in Intents : outcome[i] # "rejected"
  /\ \A h \in Handlers : Live(h) => conn = h
  /\ conn = 0 /\ sender # NoSender => Current(sender.session, sender.next, sender.prior)
  /\ conn # 0 => Agreement(conn)

CauseInv == timeouts \in Nat /\ crashes \in Nat /\ (Undisturbed => SoloInv)

\* A step of the one thread: it goes on, or answers.
LEMMA SoloThread ==
  ASSUME IInv, SoloInv, NEW h \in Handlers, Live(h), Moved(h), UNCHANGED <<client, up>>,
         thread'[h].pc # "free", Agreement(h)'
  PROVE  SoloInv'
<1>1. conn = h /\ conn' = h /\ h # 0
  BY DEF SoloInv, client
<1>2. \A g \in Handlers : Live(g)' => g = h
  BY <1>1 DEF Moved, Live, SoloInv
<1>3. (\A i \in Intents : outcome[i] # "rejected")' /\ up'
  BY DEF SoloInv, client
<1> QED BY <1>1, <1>2, <1>3 DEF SoloInv

LEMMA SoloAnswers ==
  ASSUME IInv, SoloInv, NEW h \in Handlers, Live(h), NEW r, Answers_(h, r), UNCHANGED <<client, up>>,
         r.status \notin PermanentFailures,
         r.status = "READY" =>
           session' = thread[h].frame.session /\ expected' = r.n /\ prior' = r.prior,
         r.status \in Agreed => Current(sender.session, sender.next, sender.prior)'
  PROVE  SoloInv'
<1>1. conn = h
  BY DEF SoloInv
<1>2. Moved(h) /\ thread'[h] = [pc |-> "replied", frame |-> thread[h].frame, reply |-> r]
  BY <1>1 DEF Answers_
<1>3. thread'[h].frame = thread[h].frame /\ thread'[h].pc = "replied" /\ thread'[h].reply = r
  BY <1>2
<1>4. Agreement(h)'
  BY <1>3 DEF Agreement, Before, Working, Current, client
<1> QED BY <1>2, <1>3, <1>4, SoloThread

LEMMA SoloRejects ==
  ASSUME IInv, SoloInv, NEW h \in Handlers, Live(h), UNCHANGED <<client, up>>,
         NEW class \in Statuses \ (Agreed \cup PermanentFailures \cup {"READY"}), Reject(h, class)
  PROVE  SoloInv'
<1>1. Answers_(h, Reply(class, 0, Genesis))
  BY RejectEffect DEF IInv
<1>2. Reply(class, 0, Genesis).status = class
  BY DEF Reply
<1> QED BY <1>1, <1>2, SoloAnswers

LEMMA SoloHandler ==
  ASSUME IInv, SoloInv, NEW h \in Handlers, HandlerStep(h)
  PROVE  SoloInv'
<1> USE DEF IInv
<1>1. UNCHANGED <<client, up>> /\ Live(h)
  BY DEF HandlerStep, Hello, Check, LinkRecord, UnlinkTemp, StoreAck, StoreGeneration, Advance, Link, At, Live
<1>2. conn = h /\ h # 0 /\ Agreement(h) /\ thread[h] \in Thread
  BY <1>1 DEF SoloInv, TypeInv
<1>3. "WRITE_FAILED" \in Statuses \ (Agreed \cup PermanentFailures \cup {"READY"})
  BY DEF Statuses, Agreed, PermanentFailures
<1>4. CASE Reject(h, "WRITE_FAILED")
  BY <1>1, <1>3, <1>4, SoloRejects
<1>5. CASE Hello(h)
  <2> DEFINE r == Reply("READY", expected, prior)
  <2>1. r \in Answers /\ r.status = "READY" /\ r.n = expected /\ r.prior = prior
    BY DEF Reply, Answers, Statuses, TypeInv
  <2>2. UNCHANGED <<expected, prior>> /\ session' = thread[h].frame.session
    BY <1>5 DEF Hello
  <2>3. CASE Answer(h, r)
    <3> HIDE DEF r
    <3>1. Answers_(h, r)
      BY <2>1, <2>3, AnswerEffect
    <3> QED BY <1>1, <2>1, <2>2, <3>1, SoloAnswers DEF PermanentFailures, Agreed
  <2> QED BY <1>4, <1>5, <2>3 DEF Hello
<1>6. CASE Check(h)
  <2>1. /\ thread[h].pc = "check"
        /\ Current(thread[h].frame.session, thread[h].frame.n, thread[h].frame.prior)
    BY <1>2, <1>6 DEF Check, At, Agreement, Before
  <2>2. Goto(h, "record")
    BY <1>6, <2>1 DEF Check, Current
  <2>3. Continues(h, "record")
    BY <2>2, GotoEffect DEF Pcs, Working
  <2>4. Agreement(h)'
    BY <1>1, <1>2, <1>6, <2>1, <2>3
       DEF Continues, Check, Agreement, Before, Working, Current, client, memory
  <2> QED BY <1>1, <2>3, <2>4, SoloThread DEF Continues
<1>7. CASE LinkRecord(h) \/ UnlinkTemp(h)
  <2>1. CASE Goto(h, "unlink") \/ \E status \in Agreed : Stored(h, status)
    <3>1. PICK pc \in {"unlink", "ack"} : Continues(h, pc)
      BY <2>1, StoredEffect, GotoEffect DEF Pcs, Working
    <3>2. thread[h].pc \in {"record", "unlink"} /\ UNCHANGED memory
      BY <1>7 DEF LinkRecord, UnlinkTemp, At
    <3>3. Agreement(h)'
      BY <1>1, <1>2, <3>1, <3>2
         DEF Continues, Agreement, Before, Working, Current, client, memory
    <3> QED BY <1>1, <3>1, <3>3, SoloThread DEF Continues
  <2> QED BY <1>4, <1>7, <2>1 DEF LinkRecord, UnlinkTemp, Agreed
<1>8. CASE StoreAck(h)
  <2>1. CASE Goto(h, "generation")
    <3>1. Continues(h, "generation")
      BY <2>1, GotoEffect DEF Pcs, Working
    <3>2. Agreement(h)'
      BY <1>1, <1>2, <1>8, <3>1
         DEF Continues, StoreAck, At, Agreement, Before, Working, Current, client, memory
    <3> QED BY <1>1, <3>1, <3>2, SoloThread DEF Continues
  <2> QED BY <1>4, <1>8, <2>1 DEF StoreAck
<1>9. CASE StoreGeneration(h)
  <2>1. CASE Goto(h, "advance")
    <3>1. Continues(h, "advance")
      BY <2>1, GotoEffect DEF Pcs, Working
    <3>2. Agreement(h)'
      BY <1>1, <1>2, <1>9, <3>1
         DEF Continues, StoreGeneration, At, Agreement, Before, Working, Current, client, memory
    <3> QED BY <1>1, <3>1, <3>2, SoloThread DEF Continues
  <2> QED BY <1>4, <1>9, <2>1 DEF StoreGeneration
<1>10. CASE Advance(h)
  <2>1. Continues(h, "link")
    BY <1>10, GotoEffect DEF Advance, Pcs, Working
  <2>2. Agreement(h)'
    BY <1>1, <1>2, <1>10, <2>1
       DEF Continues, Advance, At, Agreement, Before, Working, Current, client
  <2> QED BY <1>1, <2>1, <2>2, SoloThread DEF Continues
<1>11. CASE Link(h)
  <2>1. Current(sender.session, sender.next, sender.prior)'
    BY <1>1, <1>2, <1>11 DEF Link, At, Agreement, Working, Current, client
  <2>2. thread[h].reply \in Answers /\ thread[h].reply.status \in Agreed
    BY <1>2, <1>11, ThreadFields DEF Link, At, FrameInv
  <2>3. CASE Answer(h, thread[h].reply)
    <3>1. Answers_(h, thread[h].reply)
      BY <2>2, <2>3, AnswerEffect
    <3> QED BY <1>1, <2>1, <2>2, <3>1, SoloAnswers DEF Agreed, PermanentFailures
  <2> QED BY <1>4, <1>11, <2>3 DEF Link
<1> QED BY <1>5, <1>6, <1>7, <1>8, <1>9, <1>10, <1>11 DEF HandlerStep

LEMMA SoloOpens ==
  ASSUME IInv, SoloInv, NEW h \in Handlers, NEW pc \in {"hello", "check"}, NEW f, Offering,
         Open(h, pc, f), UNCHANGED <<cur, outcome, up, memory>>,
         pc = "check" =>
           /\ Current(f.session, f.n, f.prior)
           /\ sender'.session = f.session /\ sender'.next = f.n + 1 /\ sender'.prior = NameOf(f)
  PROVE  SoloInv'
<1>1. /\ conn = 0 /\ conn' = h /\ h # 0 /\ thread \in [Handlers -> Thread]
      /\ thread' = [thread EXCEPT ![h] = [pc |-> pc, frame |-> f, reply |-> NoReply]]
  BY DEF Offering, Open, IInv, TypeInv
<1>2. thread'[h].pc = pc /\ thread'[h].frame = f /\ \A g \in Handlers \ {h} : thread'[g] = thread[g]
  BY <1>1
<1>3. \A g \in Handlers : ~Live(g)
  BY <1>1 DEF SoloInv
<1>4. Agreement(h)'
  BY <1>2 DEF Agreement, Before, Working, Current, memory
<1> QED BY <1>1, <1>2, <1>3, <1>4 DEF SoloInv, Live

LEMMA SoloTakes ==
  ASSUME IInv, SoloInv, TakeReply
  PROVE  SoloInv'
<1> DEFINE r == thread[conn].reply
           e == thread[conn].frame
<1>1. conn \in Handlers /\ conn # 0 /\ thread[conn].pc = "replied" /\ Close /\ UNCHANGED <<up, memory>>
  BY DEF TakeReply, IInv, TypeInv
<1>2. Agreement(conn)
  BY <1>1 DEF SoloInv
<1>3. /\ r.status = "READY" => Current(e.session, r.n, r.prior)
      /\ r.status \in Agreed => Current(sender.session, sender.next, sender.prior)
      /\ r.status \notin PermanentFailures
  BY <1>1, <1>2 DEF Agreement
<1>4. conn' = 0 /\ \A g \in Handlers : ~Live(g)'
  <2>1. /\ conn' = 0 /\ thread'[conn].pc = "free"
        /\ \A g \in Handlers \ {conn} : thread'[g] = thread[g]
    BY <1>1, Closed DEF IInv
  <2> QED BY <1>1, <2>1 DEF SoloInv, Live
<1>5. /\ \A i \in Intents : outcome'[i] # "rejected"
      /\ sender' # NoSender => Current(sender.session, sender.next, sender.prior)'
  <2>1. CASE r.status = "READY" /\ UNCHANGED outcome
             /\ sender' = [session |-> e.session, next |-> r.n, prior |-> r.prior]
    BY <1>1, <1>3, <2>1 DEF SoloInv, Current, memory
  <2>2. CASE r.status \in Agreed /\ Settle("accepted") /\ UNCHANGED sender
    <3>1. /\ outcome' = [outcome EXCEPT ![cur] = "accepted"]
          /\ outcome \in [Intents -> {"pending", "accepted", "rejected", "incorrect"}]
      BY <2>2 DEF Settle, IInv, TypeInv
    <3>2. \A i \in Intents : outcome'[i] # "rejected"
      BY <3>1 DEF SoloInv
    <3> QED BY <1>1, <1>3, <2>2, <3>2 DEF Current, memory
  <2>3. CASE r.status \notin Agreed /\ Fail(r.status)
    BY <1>3, <2>3 DEF Fail, SoloInv
  <2>4. r.status \in Agreed => Verified(e, r.status)
    BY <1>1, AcceptedIsVerified DEF IInv, Accepted
  <2> QED BY <2>1, <2>2, <2>3, <2>4 DEF TakeReply, Agreed
<1> QED BY <1>1, <1>4, <1>5 DEF SoloInv

LEMMA CauseStep ==
  ASSUME IInv, CauseInv, [Next]_vars
  PROVE  CauseInv'
<1>1. CASE Timeout
  BY <1>1 DEF Timeout, CauseInv, Undisturbed
<1>2. CASE Crash
  BY <1>2 DEF Crash, CauseInv, Undisturbed
<1>3. CASE ~Timeout /\ ~Crash
  <2>1. UNCHANGED <<timeouts, crashes>>
    BY <1>3 DEF Next, ClientStep, SendHello, SendWrite, SendRefused, TakeReply, TakeLost, Restart,
       HandlerStep, Hello, Check, LinkRecord, UnlinkTemp, StoreAck, StoreGeneration, Advance, Link, vars, counts
  <2> SUFFICES ASSUME SoloInv PROVE SoloInv'
    BY <2>1 DEF CauseInv, Undisturbed
  <2>2. ASSUME NEW h \in Handlers, HandlerStep(h) PROVE SoloInv'
    BY <2>2, SoloHandler
  <2>3. ASSUME NEW h \in Handlers, SendHello(h) PROVE SoloInv'
    <3>1. UNCHANGED <<cur, outcome, up, memory>> /\ Offering /\ \E f : Open(h, "hello", f)
      BY <2>3 DEF SendHello
    <3> QED BY <3>1, SoloOpens
  <2>4. ASSUME NEW h \in Handlers, SendWrite(h) PROVE SoloInv'
    <3> DEFINE f == [session |-> sender.session, n |-> sender.next,
                     prior |-> sender.prior, intent |-> cur]
    <3>1. UNCHANGED <<cur, outcome, up, memory>> /\ Offering /\ Open(h, "check", f)
      BY <2>4 DEF SendWrite
    <3>2. Current(f.session, f.n, f.prior)
      BY <2>4 DEF SendWrite, Offering, SoloInv
    <3>3. sender'.session = f.session /\ sender'.next = f.n + 1 /\ sender'.prior = NameOf(f)
      BY <2>4 DEF SendWrite, NameOf
    <3> HIDE DEF f
    <3> QED BY <3>1, <3>2, <3>3, SoloOpens
  <2>5. CASE TakeReply
    BY <2>5, SoloTakes
  <2>6. CASE SendRefused \/ TakeLost \/ Restart
    BY <2>6 DEF SendRefused, TakeLost, Restart, SoloInv, Agreement
  <2>7. CASE UNCHANGED vars
    BY <2>7 DEF vars, client, memory, SoloInv, Live, Agreement, Current, Before, Working
  <2> QED BY <1>3, <2>2, <2>3, <2>4, <2>5, <2>6, <2>7 DEF Next, ClientStep
<1> QED BY <1>1, <1>2, <1>3

\* The runtime drops an intent for good only after a time-out of the client or
\* a crash of the writer: failed file operations alone, however many, end in
\* another attempt.  So the permanent answer of a committed record (the
\* disagreement PermanentMeansNotWritten shows) needs a connection given up by
\* one side while the other is at work.
THEOREM RejectionNeedsBreak ==
  Spec => [](timeouts = 0 /\ crashes = 0 => \A i \in Intents : outcome[i] # "rejected")
<1> DEFINE Good == timeouts = 0 /\ crashes = 0 => \A i \in Intents : outcome[i] # "rejected"
<1>1. Init => CauseInv
  BY Names DEF Init, CauseInv, SoloInv, Live
<1>2. IInv /\ CauseInv /\ [Next]_vars => CauseInv'
  BY CauseStep
<1>3. CauseInv => Good
  BY DEF CauseInv, Undisturbed, SoloInv
<1> QED BY <1>1, <1>2, <1>3, Invariant, PTL DEF Spec
=============================================================================
