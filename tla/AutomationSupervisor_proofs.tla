--------------------- MODULE AutomationSupervisor_proofs ---------------------
(***************************************************************************)
(* Theorems about the automation supervisor and the store of its receipts,*)
(* for any manifest, any number of services and any number of faults: the*)
(* store never contradicts itself, a job is launched only after the one it*)
(* depends on, and the store implements JobLedger.                       *)
(*                                                                       *)
(* What a load reads of a job depends on the claims alone, because whatever*)
(* a generation says was claimed first (BackedInv, EvidenceIsClaimed).   *)
(* Claims only grow, and only the service inside a tick writes them, after*)
(* it has checked that they do not deny what it is about to write (SaveInv).*)
(***************************************************************************)
EXTENDS AutomationSupervisor, FiniteSetTheorems, SequenceTheorems, WellFoundedInduction, TLAPS

USE SupervisorAssumption

-----------------------------------------------------------------------------
(* The inductive invariant.                                              *)

Files == {"anchor", "promote", "prune"}
Checked == Files \cup {"claims", "launch", "run"}
Stored == Checked \ {"claims"}

Service ==
  [pc : Locations, mem : States, fresh : BOOLEAN, todo : Seq(Jobs), now : 0 .. MaxTime,
   own : SUBSET Jobs, then : {"eval", "launch", "sleep"}]

Generation == [ok : BOOLEAN, state : States]

TypeInv ==
  /\ clock \in 0 .. MaxTime /\ enabled \subseteq Jobs
  /\ launches \in [Jobs -> 0 .. MaxLaunches] /\ late \subseteq Jobs /\ faults \in 0 .. MaxFaults
  /\ generations \in Seq(Generation)
  /\ head \in 1 .. Len(generations)
  /\ current \in [ok : BOOLEAN, at : 1 .. Len(generations)]
  /\ claims \subseteq Jobs \X Claimed /\ unreadable \in BOOLEAN /\ copied \in BOOLEAN
  /\ lease \in Services \cup {None}
  /\ svc \in [Services -> Service]
  /\ \A i \in Services : svc[i].pc \notin {"down", "idle"} <=> lease = i

\* The generation a save has retained stays whole until the save is over.
WholeInv ==
  \A i \in Services : svc[i].pc \in Files => generations[Len(generations)].ok

\* What a generation says of a job has been claimed.
BackedInv ==
  \A k \in 1 .. Len(generations), j \in Jobs :
    generations[k].state.jobs[j] \in Claimed => <<j, generations[k].state.jobs[j]>> \in claims

\* A save that passed its checks denies no claimed answer, and from the
\* retained generation on every receipt of the service is claimed.
SaveOk(s) ==
  \A j \in Jobs :
    /\ s.pc \in Checked => \A t \in FinalJobStates : <<j, t>> \in claims => s.mem.jobs[j] = t
    /\ s.pc \in Stored /\ s.mem.jobs[j] \in Claimed => <<j, s.mem.jobs[j]>> \in claims

SaveInv == \A i \in Services : SaveOk(svc[i])

\* The claims hold one answer of a job.
AnswerInv ==
  \A j \in Jobs, s, t \in FinalJobStates : <<j, s>> \in claims /\ <<j, t>> \in claims => s = t

\* A save on the way to a launch, and the launch itself.
Starting(s) == (s.pc \in Files \cup {"check", "claims"} /\ s.then = "launch") \/ s.pc = "launch"

\* The job about to be launched is RUNNING in memory and what it depends on is
\* COMPLETED; unless it recovers it was never launched, or the save will fail.
StartOk(s) ==
  LET j == Head(s.todo)
  IN  /\ Starting(s) \/ s.pc = "run" =>
           /\ s.todo # <<>> /\ s.mem.jobs[j] = "RUNNING"
           /\ Dependency[j] # None => s.mem.jobs[Dependency[j]] = "COMPLETED"
      /\ Starting(s) =>
           /\ launches[j] < MaxLaunches
           /\ j \notin Recovering /\ (s.pc = "check" => s.fresh) => launches[j] = 0
      /\ s.pc = "run" => launches[j] > 0

StartInv == \A i \in Services : StartOk(svc[i])

\* What is COMPLETED was launched, and what was launched is claimed, after the
\* completion of what it depends on.
HonestInv ==
  \A j \in Jobs :
    /\ \A i \in Services : svc[i].mem.jobs[j] = "COMPLETED" => launches[j] > 0
    /\ <<j, "COMPLETED">> \in claims => launches[j] > 0
    /\ launches[j] > 0 =>
         /\ <<j, "RUNNING">> \in claims
         /\ Dependency[j] # None => <<Dependency[j], "COMPLETED">> \in claims

\* A service that holds the state on disk knows every launch that must not be
\* repeated; when a launch is near, it knows every claim.
KnowsLaunches(s) ==
  \A j \in Jobs \ Recovering : s.fresh /\ launches[j] > 0 => s.mem.jobs[j] \in Claimed

KnowsClaims(s) == \A c \in claims : s.mem.jobs[c[1]] \in Claimed

KnowInv ==
  /\ \A i \in Services :
       KnowsLaunches(svc[i]) /\ (svc[i].pc \in Files \cup {"claims"} => svc[i].fresh)
  /\ \A i, k \in Services :
       svc[i].pc \in {"prune", "launch"} /\ k # i /\ svc[k].fresh => KnowsClaims(svc[k])

Rest == WholeInv /\ BackedInv /\ SaveInv /\ AnswerInv /\ StartInv /\ HonestInv /\ KnowInv

IInv == TypeInv /\ Rest

-----------------------------------------------------------------------------
(* What a load reads.                                                      *)

LEMMA Greatest ==
  ASSUME NEW S, NEW n \in Nat, S \subseteq 0 .. n, S # {}
  PROVE  \E k \in S : \A l \in S : l <= k
<1> DEFINE T == {n - k : k \in S}
<1>1. T \subseteq Nat /\ T # {}
  <2>1. \A k \in S : n - k \in Nat
    OBVIOUS
  <2>2. PICK k \in S : TRUE
    OBVIOUS
  <2>3. n - k \in T
    OBVIOUS
  <2> QED BY <2>1, <2>3
<1>2. PICK x \in T : \A y \in T : ~(<<y, x>> \in OpToRel(<, Nat))
  <2> HIDE DEF T
  <2> QED BY <1>1, NatLessThanWellFounded, WFMin
<1>3. \A y \in T : ~(y < x)
  <2> TAKE y \in T
  <2>1. <<y, x>> \in Nat \X Nat
    BY <1>1
  <2>2. ~(<<y, x>>[1] < <<y, x>>[2])
    BY <1>2, <2>1 DEF OpToRel
  <2> QED BY <2>2
<1>4. PICK k \in S : x = n - k
  OBVIOUS
<1>5. \A l \in S : l <= k
  <2> TAKE l \in S
  <2>1. ~(n - l < n - k)
    BY <1>3, <1>4
  <2> QED BY <2>1
<1> QED BY <1>5

\* A candidate exists, so there is a newest one.
LEMMA NewestIsCandidate ==
  ASSUME TypeInv, Candidates # {}
  PROVE  Newest \in Candidates /\ \A l \in Candidates : l <= Newest
<1>1. Len(generations) \in Nat
  BY DEF TypeInv
<1>2. Candidates \subseteq 0 .. Len(generations)
  BY <1>1 DEF Candidates, Readable, TypeInv
<1>3. \E k \in Candidates : \A l \in Candidates : l <= k
  <2> HIDE DEF Candidates
  <2> QED BY <1>1, <1>2, Greatest
<1> QED BY <1>3 DEF Newest

\* A receipt a load reads is a claimed one, whatever the generations are.
LEMMA EvidenceIsClaimed ==
  ASSUME TypeInv, BackedInv, NEW j \in Jobs
  PROVE  Evidence(j) = {s \in Claimed : <<j, s>> \in claims}
<1>1. \A k \in Candidates : generations[k].state.jobs[j] \in Claimed =>
        <<j, generations[k].state.jobs[j]>> \in claims
  BY DEF BackedInv, Candidates, Readable, TypeInv
<1>2. {generations[k].state.jobs[j] : k \in Candidates} \cap Claimed \subseteq
        {s \in Claimed : <<j, s>> \in claims}
  <2> HIDE DEF Candidates
  <2> QED BY <1>1
<1> QED BY <1>2 DEF Evidence

LEMMA MergedIsClaimed ==
  ASSUME TypeInv, BackedInv, AnswerInv, NEW j \in Jobs
  PROVE  /\ \A s \in FinalJobStates : <<j, s>> \in claims => Merged(j) = s
         /\ Merged(j) \in FinalJobStates => <<j, Merged(j)>> \in claims
         /\ Merged(j) = "open" <=> \A s \in Claimed : <<j, s>> \notin claims
         /\ Merged(j) = "RUNNING" =>
              <<j, "RUNNING">> \in claims /\ \A s \in FinalJobStates : <<j, s>> \notin claims
         /\ Merged(j) \in Claimed \cup {"open"}
<1> DEFINE evidence == Evidence(j)
           final == evidence \cap FinalJobStates
<1>1. evidence = {s \in Claimed : <<j, s>> \in claims}
  BY EvidenceIsClaimed
<1>2. Merged(j) = IF final # {} THEN CHOOSE s \in final : TRUE
                  ELSE IF evidence # {} THEN "RUNNING" ELSE "open"
  BY DEF Merged
<1>3. \A s \in FinalJobStates : s \in final <=> <<j, s>> \in claims
  BY <1>1 DEF Claimed
<1> HIDE DEF evidence
<1>4. CASE final # {}
  <2>1. Merged(j) \in final
    BY <1>2, <1>4
  <2>2. Merged(j) \in FinalJobStates /\ <<j, Merged(j)>> \in claims
    BY <2>1, <1>3
  <2>3. \A s \in FinalJobStates : <<j, s>> \in claims => Merged(j) = s
    BY <2>2 DEF AnswerInv
  <2>4. Merged(j) # "open" /\ Merged(j) # "RUNNING" /\ Merged(j) \in Claimed
    BY <2>2 DEF FinalJobStates, Claimed
  <2> QED BY <2>2, <2>3, <2>4
<1>5. CASE final = {}
  <2>1. \A s \in FinalJobStates : <<j, s>> \notin claims
    BY <1>3, <1>5
  <2>2. evidence # {} <=> <<j, "RUNNING">> \in claims
    BY <1>1, <2>1 DEF Claimed
  <2>3. Merged(j) = IF evidence # {} THEN "RUNNING" ELSE "open"
    BY <1>2, <1>5
  <2> QED BY <2>1, <2>2, <2>3 DEF Claimed, FinalJobStates
<1> QED BY <1>4, <1>5

\* The same claims are read as the same receipts, whatever happened to the
\* generations and the state file.
LEMMA NoConflict ==
  ASSUME TypeInv, BackedInv, AnswerInv
  PROVE  ~Conflict
<1> SUFFICES ASSUME NEW j \in Jobs
             PROVE  ~(Cardinality(Evidence(j) \cap FinalJobStates) > 1)
  BY DEF Conflict
<1> DEFINE final == Evidence(j) \cap FinalJobStates
<1>1. \A s \in final : s \in FinalJobStates /\ <<j, s>> \in claims
  BY EvidenceIsClaimed
<1>4. \A s, t \in final : s = t
  <2> HIDE DEF final
  <2> QED BY <1>1 DEF AnswerInv
<1> HIDE DEF final
<1>2. CASE final = {}
  <2>1. Cardinality(final) = 0
    BY <1>2, FS_EmptySet
  <2> QED BY <2>1 DEF final
<1>3. CASE final # {}
  <2>1. PICK s \in final : TRUE
    BY <1>3
  <2>2. final = {s}
    BY <2>1, <1>4
  <2>3. Cardinality(final) = 1
    BY <2>2, FS_Singleton
  <2> QED BY <2>3 DEF final
<1> QED BY <1>2, <1>3

-----------------------------------------------------------------------------
(* Types, and what the actions do to a service.                            *)

LEMMA DownIsService == Down \in Service
BY DEF Down, Service, State, States, Statuses, Locations

LEMMA ServiceFields ==
  ASSUME NEW s \in Service
  PROVE  /\ s.pc \in Locations /\ s.mem \in States /\ s.fresh \in BOOLEAN /\ s.todo \in Seq(Jobs)
         /\ s.own \subseteq Jobs /\ s.then \in {"eval", "launch", "sleep"}
         /\ LET t == [s EXCEPT !.fresh = FALSE]
            IN  t \in Service /\ t.pc = s.pc /\ t.mem = s.mem /\ t.todo = s.todo /\ t.then = s.then
                /\ t.fresh = FALSE
BY DEF Service

LEMMA InitType ==
  ASSUME Init
  PROVE  TypeInv
<1>1. State([j \in Jobs |-> "none"], 0) \in States
  BY DEF State, States, Statuses
<1>2. generations \in Seq(Generation) /\ Len(generations) = 1
  BY <1>1 DEF Init, Generation
<1>3. svc \in [Services -> Service] /\ \A i \in Services : svc[i].pc = "down"
  BY DownIsService DEF Init, Down
<1>4. \A i \in Services : lease # i
  BY DEF Init
<1>5. current \in [ok : BOOLEAN, at : 1 .. Len(generations)] /\ head \in 1 .. Len(generations)
  BY <1>2 DEF Init
<1>6. lease \in Services \cup {None} /\ claims \subseteq Jobs \X Claimed
  BY DEF Init
<1>7. launches \in [Jobs -> 0 .. MaxLaunches]
  BY DEF Init
<1>8. clock \in 0 .. MaxTime /\ enabled \subseteq Jobs /\ late \subseteq Jobs /\ faults \in 0 .. MaxFaults
      /\ unreadable \in BOOLEAN /\ copied \in BOOLEAN
  <2>1. clock = 0 /\ enabled = Jobs /\ late = {} /\ faults = 0
      /\ unreadable = FALSE /\ copied = TRUE
    BY DEF Init
  <2>2. 0 \in 0 .. MaxTime /\ 0 \in 0 .. MaxFaults
    OBVIOUS
  <2> QED BY <2>1, <2>2
<1>9. \A i \in Services : svc[i].pc \notin {"down", "idle"} <=> lease = i
  BY <1>3, <1>4
<1> QED BY <1>2, <1>3, <1>5, <1>6, <1>7, <1>8, <1>9 DEF TypeInv

\* A service is replaced; the others are as they were.
Becomes(i, s) == svc' = [svc EXCEPT ![i] = s] /\ s \in Service

LEMMA BecomesOnly ==
  ASSUME TypeInv, NEW i \in Services, NEW s, Becomes(i, s)
  PROVE  svc'[i] = s /\ \A k \in Services \ {i} : svc'[k] = svc[k]
<1>1. svc \in [Services -> Service]
  BY DEF TypeInv
<1> QED BY <1>1 DEF Becomes

\* The same types, whatever changes in one service and in the lease.
LEMMA ServiceType ==
  ASSUME TypeInv, NEW i \in Services, NEW s \in Service, Becomes(i, s),
         lease = i \/ svc[i].pc \in {"down", "idle"},
         \/ s.pc \notin {"down", "idle"} /\ lease' = i /\ lease \in {i, None}
         \/ s.pc \in {"down", "idle"} /\ lease' = IF lease = i THEN None ELSE lease
  PROVE  /\ svc' \in [Services -> Service] /\ svc'[i] = s
         /\ \A k \in Services \ {i} : svc'[k] = svc[k]
         /\ lease' \in Services \cup {None}
         /\ \A k \in Services : svc'[k].pc \notin {"down", "idle"} <=> lease' = k
<1>1. svc' \in [Services -> Service] /\ svc'[i] = s /\ \A k \in Services \ {i} : svc'[k] = svc[k]
  BY DEF TypeInv, Becomes
<1>2. lease' \in Services \cup {None}
  BY DEF TypeInv
<1>3. ASSUME NEW k \in Services
      PROVE  svc'[k].pc \notin {"down", "idle"} <=> lease' = k
  <2>1. /\ svc[k].pc \notin {"down", "idle"} <=> lease = k
        /\ svc[i].pc \notin {"down", "idle"} <=> lease = i
        /\ None \notin Services
    BY SupervisorAssumption DEF TypeInv
  <2>2. CASE k = i
    BY <1>1, <2>1, <2>2
  <2>3. CASE k # i
    BY <1>1, <2>1, <2>3
  <2> QED BY <2>2, <2>3
<1> QED BY <1>1, <1>2, <1>3

\* What an evaluation and the end of a tick do: nothing in the store, and a
\* receipt that changes is not COMPLETED and stays claimed unless it recovers.
Thinks(i) ==
  /\ UNCHANGED <<clock, enabled, launches, faults, store, lease>> /\ late' \subseteq Jobs
  /\ svc[i].pc = "eval"
  /\ \E s \in Service :
       /\ Becomes(i, s)
       /\ s.fresh = svc[i].fresh /\ s.pc \in {"eval", "check"}
       /\ \A j \in Jobs : s.mem.jobs[j] # svc[i].mem.jobs[j] =>
            /\ s.mem.jobs[j] # "COMPLETED"
            /\ j \notin Recovering /\ svc[i].mem.jobs[j] \in Claimed => s.mem.jobs[j] \in Claimed
       /\ s.pc = "check" /\ s.then = "launch" =>
            LET j == Head(s.todo)
            IN  /\ s.todo # <<>> /\ s.mem.jobs[j] = "RUNNING" /\ launches[j] < MaxLaunches
                /\ j \notin Recovering => svc[i].mem.jobs[j] \notin Claimed
                /\ Dependency[j] # None => s.mem.jobs[Dependency[j]] = "COMPLETED"

\* What the branches of an evaluation have in common.
LEMMA DoneIsService ==
  ASSUME TypeInv, NEW i \in Services, NEW j \in Jobs, Evaluates(i, j)
  PROVE  /\ svc[i] \in Service /\ svc[i].pc = "eval" /\ svc[i].todo # <<>> /\ j = Head(svc[i].todo)
         /\ Done(i, j) \in Service
         /\ Done(i, j).mem = svc[i].mem /\ Done(i, j).fresh = svc[i].fresh
         /\ Done(i, j).pc = "eval" /\ Done(i, j).own = svc[i].own
<1>1. svc[i] \in Service /\ svc[i].pc = "eval" /\ svc[i].todo # <<>> /\ j = Head(svc[i].todo)
  BY DEF Evaluates, At, TypeInv
<1>2. Now(i, j) \in 0 .. MaxTime
  BY <1>1 DEF Now, Service, TypeInv
<1>3. Tail(svc[i].todo) \in Seq(Jobs)
  BY <1>1 DEF Service
<1> QED BY <1>1, <1>2, <1>3 DEF Done, Service

LEMMA RecordsIsService ==
  ASSUME TypeInv, NEW i \in Services, NEW j \in Jobs, Evaluates(i, j), NEW status \in Statuses
  PROVE  LET s == Records(i, j, status)
         IN  /\ s \in Service /\ s.fresh = svc[i].fresh /\ s.pc = "eval"
             /\ s.mem.jobs[j] = status
             /\ \A k \in Jobs \ {j} : s.mem.jobs[k] = svc[i].mem.jobs[k]
<1>1. Done(i, j) \in Service /\ Done(i, j).mem = svc[i].mem
  BY DoneIsService
<1>2. svc[i].mem \in States
  BY DoneIsService DEF Service
<1> DEFINE jobs == [svc[i].mem.jobs EXCEPT ![j] = status]
           mem == [svc[i].mem EXCEPT !.jobs = jobs]
           own == Done(i, j).own \cup {j}
<1>3. Records(i, j, status) = [Done(i, j) EXCEPT !.mem = mem, !.own = own]
  BY <1>1, <1>2 DEF Records, Service, States
<1>4. /\ mem \in States /\ mem.jobs = jobs
      /\ jobs[j] = status /\ \A k \in Jobs \ {j} : jobs[k] = svc[i].mem.jobs[k]
  BY <1>2 DEF States
<1>5. own \in SUBSET Jobs
  BY <1>1 DEF Service
<1> HIDE DEF mem, own, jobs
<1>6. /\ Records(i, j, status) \in Service /\ Records(i, j, status).mem = mem
      /\ Records(i, j, status).fresh = Done(i, j).fresh
      /\ Records(i, j, status).pc = Done(i, j).pc
  BY <1>1, <1>3, <1>4, <1>5 DEF Service
<1> QED BY <1>4, <1>6, DoneIsService

LEMMA RecordThinks ==
  ASSUME TypeInv, NEW i \in Services, NEW j \in Jobs, Evaluates(i, j),
         NEW status \in Statuses \ {"COMPLETED"},
         j \notin Recovering /\ Receipt(i, j) \in Claimed => status \in Claimed,
         NEW s \in Service, s.mem = Records(i, j, status).mem, s.fresh = svc[i].fresh,
         s.pc \in {"eval", "check"}, s.pc = "check" => s.then # "launch",
         Set(i, s), UNCHANGED <<world, store, lease>>
  PROVE  Thinks(i)
<1>1. /\ s.mem.jobs[j] = status
      /\ \A k \in Jobs \ {j} : s.mem.jobs[k] = svc[i].mem.jobs[k]
  BY RecordsIsService
<1>2. \A k \in Jobs : s.mem.jobs[k] # svc[i].mem.jobs[k] =>
        /\ s.mem.jobs[k] # "COMPLETED"
        /\ k \notin Recovering /\ svc[i].mem.jobs[k] \in Claimed => s.mem.jobs[k] \in Claimed
  BY <1>1 DEF Receipt
<1>3. Becomes(i, s)
  BY DEF Becomes, Set
<1>4. UNCHANGED <<clock, enabled, launches, faults, store, lease>> /\ late' \subseteq Jobs
  BY DEF world, TypeInv
<1> QED BY <1>2, <1>3, <1>4, DoneIsService DEF Thinks

LEMMA DoneThinks ==
  ASSUME TypeInv, NEW i \in Services, NEW j \in Jobs, Evaluates(i, j),
         Set(i, Done(i, j)), UNCHANGED <<world, store, lease>>
  PROVE  Thinks(i)
<1>1. Becomes(i, Done(i, j))
  BY DoneIsService DEF Becomes, Set
<1>2. UNCHANGED <<clock, enabled, launches, faults, store, lease>> /\ late' \subseteq Jobs
  BY DEF world, TypeInv
<1> QED BY <1>1, <1>2, DoneIsService DEF Thinks

LEMMA StartThinks ==
  ASSUME TypeInv, NEW i \in Services, NEW j \in Jobs, Starts(i, j)
  PROVE  Thinks(i)
<1> DEFINE s == [Saves(Records(i, j, "RUNNING"), "launch") EXCEPT !.todo = svc[i].todo]
<1>1. Evaluates(i, j) /\ Receipt(i, j) \notin FinalJobStates
      /\ (Receipt(i, j) = "RUNNING" => j \in Recovering)
      /\ DependencyState(i, j) = "COMPLETED" /\ launches[j] < MaxLaunches
  BY DEF Starts, Due, Open, Considered
<1>2. svc[i] \in Service /\ svc[i].pc = "eval" /\ svc[i].todo # <<>> /\ j = Head(svc[i].todo)
  BY <1>1, DoneIsService
<1>3. "RUNNING" \in Statuses
  BY DEF Statuses, Claimed
<1> DEFINE r == Records(i, j, "RUNNING")
<1>4. /\ r \in Service /\ r.fresh = svc[i].fresh /\ r.mem.jobs[j] = "RUNNING"
      /\ \A k \in Jobs \ {j} : r.mem.jobs[k] = svc[i].mem.jobs[k]
  BY <1>1, <1>3, RecordsIsService
<1> HIDE DEF r
<1>5. /\ s \in Service /\ s.fresh = svc[i].fresh /\ s.mem = r.mem
      /\ s.pc = "check" /\ s.then = "launch" /\ s.todo = svc[i].todo
  BY <1>2, <1>4 DEF Saves, Service, r, Locations
<1>6. Becomes(i, s)
  BY <1>5 DEF Starts, Becomes, Set
<1> HIDE DEF s
<1>7. \A k \in Jobs : s.mem.jobs[k] # svc[i].mem.jobs[k] =>
        /\ s.mem.jobs[k] # "COMPLETED"
        /\ k \notin Recovering /\ svc[i].mem.jobs[k] \in Claimed => s.mem.jobs[k] \in Claimed
  BY <1>4, <1>5 DEF Claimed
<1>8. ASSUME Dependency[j] # None
      PROVE  s.mem.jobs[Dependency[j]] = "COMPLETED"
  <2>1. Dependency[j] \in Jobs
    BY <1>8
  <2>2. svc[i].mem.jobs[Dependency[j]] = "COMPLETED"
    BY <1>1, <1>8 DEF DependencyState, Receipt
  <2>3. Dependency[j] # j
    BY <1>1, <2>2 DEF Receipt, FinalJobStates
  <2> QED BY <2>1, <2>2, <2>3, <1>4, <1>5
<1>9. j \notin Recovering => svc[i].mem.jobs[j] \notin Claimed
  BY <1>1 DEF Receipt, Claimed
<1>10. UNCHANGED <<clock, enabled, launches, faults, store, lease>> /\ late' \subseteq Jobs
  BY DEF Starts, TypeInv
<1>11. /\ s.todo # <<>> /\ s.mem.jobs[Head(s.todo)] = "RUNNING" /\ launches[Head(s.todo)] < MaxLaunches
       /\ Head(s.todo) \notin Recovering => svc[i].mem.jobs[Head(s.todo)] \notin Claimed
       /\ Dependency[Head(s.todo)] # None => s.mem.jobs[Dependency[Head(s.todo)]] = "COMPLETED"
  <2>1. s.todo = svc[i].todo /\ Head(s.todo) = j /\ s.todo # <<>>
    BY <1>2, <1>5
  <2> QED BY <1>1, <1>4, <1>5, <1>8, <1>9, <2>1
<1>12. s.fresh = svc[i].fresh /\ s.pc \in {"eval", "check"} /\ s \in Service /\ svc[i].pc = "eval"
  BY <1>2, <1>4, <1>5
<1> QED BY <1>6, <1>7, <1>10, <1>11, <1>12 DEF Thinks

LEMMA EvaluateThinks ==
  ASSUME TypeInv, NEW i \in Services, Evaluate(i) \/ EndOfTick(i)
  PROVE  Thinks(i)
<1>1. CASE EndOfTick(i)
  <2> DEFINE s == Saves(svc[i], "sleep")
  <2>1. svc[i] \in Service /\ svc[i].pc = "eval"
    BY <1>1 DEF EndOfTick, At, TypeInv
  <2>2. /\ s \in Service /\ s.fresh = svc[i].fresh /\ s.mem = svc[i].mem
        /\ s.pc = "check" /\ s.then = "sleep"
    BY <2>1 DEF Saves, Service, Locations
  <2>3. Becomes(i, s)
    BY <1>1, <2>2 DEF EndOfTick, Becomes, Set
  <2>4. UNCHANGED <<clock, enabled, launches, faults, store, lease>> /\ late' \subseteq Jobs
    BY <1>1 DEF EndOfTick, world, TypeInv
  <2> HIDE DEF s
  <2> QED BY <2>1, <2>2, <2>3, <2>4 DEF Thinks
<1>2. ASSUME NEW j \in Jobs, PassOver(i, j)
      PROVE  Thinks(i)
  BY <1>2, DoneThinks DEF PassOver
<1>3. ASSUME NEW j \in Jobs, NEW status \in Statuses \ {"COMPLETED"}, Considered(i, j),
             j \notin Recovering /\ Receipt(i, j) \in Claimed => status \in Claimed,
             Set(i, Records(i, j, status)), UNCHANGED <<world, store, lease>>
      PROVE  Thinks(i)
  <2> DEFINE r == Records(i, j, status)
  <2>1. Evaluates(i, j)
    BY <1>3 DEF Considered
  <2>2. r \in Service /\ r.fresh = svc[i].fresh /\ r.pc = "eval"
    BY <2>1, RecordsIsService
  <2>3. r.mem = Records(i, j, status).mem /\ Set(i, r)
    BY <1>3
  <2> HIDE DEF r
  <2> QED BY <1>3, <2>1, <2>2, <2>3, RecordThinks
<1> USE DEF Statuses, Claimed, FinalJobStates
<1>4. ASSUME NEW j \in Jobs, Disabled(i, j)
      PROVE  Thinks(i)
  BY <1>3, <1>4 DEF Disabled
<1>5. ASSUME NEW j \in Jobs, Interrupted(i, j)
      PROVE  Thinks(i)
  BY <1>3, <1>5 DEF Interrupted
<1>6. ASSUME NEW j \in Jobs, NotYet(i, j)
      PROVE  Thinks(i)
  BY <1>3, <1>6 DEF NotYet, Open
<1>7. ASSUME NEW j \in Jobs, Missed(i, j)
      PROVE  Thinks(i)
  BY <1>3, <1>7 DEF Missed, Open
<1>8. ASSUME NEW j \in Jobs, EngineHostUnhealthy(i, j)
      PROVE  Thinks(i)
  BY <1>3, <1>8 DEF EngineHostUnhealthy, Due, Open
<1>9. ASSUME NEW j \in Jobs, Waits(i, j)
      PROVE  Thinks(i)
  <2>1. Considered(i, j) /\ (Receipt(i, j) = "RUNNING" => j \in Recovering)
    BY <1>9 DEF Waits, Due, Open
  <2>2. UNCHANGED <<world, store, lease>>
    BY <1>9 DEF Waits
  <2>3. CASE Receipt(i, j) = "RUNNING"
    <3>1. Set(i, Records(i, j, "PENDING"))
      BY <1>9, <2>3 DEF Waits
    <3> QED BY <2>1, <2>2, <2>3, <3>1, <1>3
  <2>4. CASE Receipt(i, j) # "RUNNING"
    <3>1. Set(i, Done(i, j))
      BY <1>9, <2>4 DEF Waits
    <3> QED BY <2>1, <2>2, <3>1, DoneThinks DEF Considered
  <2> QED BY <2>3, <2>4
<1>10. ASSUME NEW j \in Jobs, Blocked(i, j)
       PROVE  Thinks(i)
  BY <1>3, <1>10 DEF Blocked, Due, Open
<1>11. ASSUME NEW j \in Jobs, GateRejects(i, j)
       PROVE  Thinks(i)
  <2> DEFINE r == Records(i, j, "FAILED")
             s == Saves(r, "eval")
  <2>1. Evaluates(i, j) /\ UNCHANGED <<world, store, lease>> /\ Set(i, s)
    BY <1>11 DEF GateRejects, Due, Open, Considered
  <2>2. r \in Service /\ r.fresh = svc[i].fresh
    BY <2>1, RecordsIsService
  <2> HIDE DEF r
  <2>3. s \in Service /\ s.mem = r.mem /\ s.fresh = svc[i].fresh /\ s.pc = "check" /\ s.then = "eval"
    BY <2>2 DEF Saves, Service, Locations
  <2> HIDE DEF s
  <2> QED BY <2>1, <2>3, RecordThinks DEF r
<1> QED
  BY <1>1, <1>2, <1>4, <1>5, <1>6, <1>7, <1>8, <1>9, <1>10, <1>11, StartThinks DEF Evaluate

LEMMA LoadedType ==
  ASSUME TypeInv, BackedInv, AnswerInv, Candidates # {}
  PROVE  /\ State(Loaded, LoadedFloor) \in States
         /\ State(Loaded, LoadedFloor).jobs = Loaded
         /\ \A c \in claims : Loaded[c[1]] \in Claimed
         /\ \A j \in Jobs : Loaded[j] = "COMPLETED" => <<j, "COMPLETED">> \in claims
<1>1. Newest \in 1 .. Len(generations)
  BY NewestIsCandidate DEF Candidates, Readable, TypeInv
<1>2. Selected \in States
  <2>1. generations \in Seq(Generation)
    BY DEF TypeInv
  <2>2. generations[Newest] \in Generation
    BY <1>1, <2>1
  <2> QED BY <2>2 DEF Selected, Generation
<1>3. \A j \in Jobs : Merged(j) \in Claimed \cup {"open"}
  BY MergedIsClaimed
<1>4. Loaded \in [Jobs -> Statuses]
  BY <1>2, <1>3 DEF Loaded, States, Statuses
<1>5. LoadedFloor \in 0 .. MaxTime
  BY <1>2 DEF LoadedFloor, Later, States, TypeInv
<1>6. ASSUME NEW c \in claims
      PROVE  Loaded[c[1]] \in Claimed
  <2>1. c[1] \in Jobs /\ c[2] \in Claimed /\ c = <<c[1], c[2]>>
    <3>1. c \in Jobs \X Claimed
      BY DEF TypeInv
    <3> QED BY <3>1
  <2>2. <<c[1], c[2]>> \in claims
    BY <2>1
  <2>3. Merged(c[1]) # "open"
    BY <2>1, <2>2, MergedIsClaimed
  <2> QED BY <2>1, <2>3, <1>3 DEF Loaded
<1>7. ASSUME NEW j \in Jobs, Loaded[j] = "COMPLETED"
      PROVE  <<j, "COMPLETED">> \in claims
  <2>1. CASE Merged(j) = "open"
    <3>1. generations[Newest].state.jobs[j] = "COMPLETED"
      BY <1>7, <2>1 DEF Loaded, Selected
    <3> QED BY <1>1, <3>1 DEF BackedInv, Claimed, FinalJobStates
  <2>2. CASE Merged(j) # "open"
    <3>1. Merged(j) = "COMPLETED"
      BY <1>7, <2>2 DEF Loaded
    <3> QED BY <3>1, MergedIsClaimed DEF FinalJobStates
  <2> QED BY <2>1, <2>2
<1> QED BY <1>4, <1>5, <1>6, <1>7 DEF State, States

\* No receipt moves; a load or a save may have copied damaged files.
Same == UNCHANGED <<world, generations, head, current, claims, unreadable>> /\ copied' \in BOOLEAN
Leaves(i) == Becomes(i, Down) /\ lease' = (IF lease = i THEN None ELSE lease)

LEMMA SameType ==
  ASSUME TypeInv, NEW i \in Services, NEW s \in Service, Becomes(i, s), Same,
         lease = i \/ svc[i].pc \in {"down", "idle"},
         \/ s.pc \notin {"down", "idle"} /\ lease' = i /\ lease \in {i, None}
         \/ s.pc \in {"down", "idle"} /\ lease' = IF lease = i THEN None ELSE lease
  PROVE  TypeInv'
<1>1. /\ svc' \in [Services -> Service]
      /\ lease' \in Services \cup {None}
      /\ \A k \in Services : svc'[k].pc \notin {"down", "idle"} <=> lease' = k
  BY ServiceType
<1> QED BY <1>1 DEF TypeInv, Same, world, store

LEMMA LoadEffect ==
  ASSUME TypeInv, BackedInv, AnswerInv, NEW i \in Services, Load(i)
  PROVE  /\ TypeInv' /\ Same /\ lease' = lease
         /\ \E s \in Service : /\ Becomes(i, s) /\ s.pc = "idle" /\ s.fresh /\ s.mem.jobs = Loaded
<1> DEFINE mem == State(Loaded, LoadedFloor)
           s == [Down EXCEPT !.pc = "idle", !.mem = mem, !.fresh = TRUE]
<1>1. svc[i].pc = "down" /\ lease' = lease /\ Same /\ svc' = [svc EXCEPT ![i] = s]
  BY DEF Load, At, Set, Same
<1>2. mem \in States /\ mem.jobs = Loaded
  BY LoadedType DEF Load, Admissible
<1> HIDE DEF mem
<1>3. s \in Service /\ s.pc = "idle" /\ s.fresh = TRUE /\ s.mem = mem
  BY <1>2, DownIsService DEF Service, Locations, Down
<1> HIDE DEF s
<1>4. Becomes(i, s) /\ lease # i
  BY <1>1, <1>3 DEF Becomes, TypeInv
<1> QED BY <1>1, <1>2, <1>3, <1>4, SameType

LEMMA LeavesType ==
  ASSUME TypeInv, NEW i \in Services, Leaves(i), Same
  PROVE  TypeInv'
<1>1. Down \in Service /\ Down.pc = "down"
  BY DownIsService DEF Down
<1>2. lease = i \/ svc[i].pc \in {"down", "idle"}
  BY DEF TypeInv
<1> QED BY <1>1, <1>2, SameType DEF Leaves

LEMMA ExitsLeaves ==
  ASSUME NEW i \in Services, Exits(i)
  PROVE  Leaves(i)
BY DownIsService DEF Exits, Set, Becomes, Leaves

LEMMA BeginTickEffect ==
  ASSUME TypeInv, NEW i \in Services, BeginTick(i)
  PROVE  /\ TypeInv' /\ Same
         /\ \/ Leaves(i)
            \/ \E s \in Service :
                 Becomes(i, s) /\ s.pc = "eval" /\ s.mem = svc[i].mem /\ s.fresh = svc[i].fresh
<1>1. svc[i].pc = "idle" /\ svc[i] \in Service /\ lease = None /\ Same
  BY DEF BeginTick, At, TypeInv, Same, store
<1>2. CASE svc[i].fresh
  <2> DEFINE s == [svc[i] EXCEPT !.pc = "eval", !.todo = Order]
  <2>1. lease' = i /\ svc' = [svc EXCEPT ![i] = s]
    BY <1>2 DEF BeginTick, Set
  <2>2. s \in Service /\ s.pc = "eval" /\ s.mem = svc[i].mem /\ s.fresh = svc[i].fresh
    BY <1>1 DEF Service, Locations
  <2> HIDE DEF s
  <2>3. Becomes(i, s)
    BY <2>1, <2>2 DEF Becomes
  <2> QED BY <1>1, <2>1, <2>2, <2>3, SameType
<1>3. CASE ~svc[i].fresh
  BY <1>1, <1>3, ExitsLeaves, LeavesType DEF BeginTick
<1> QED BY <1>2, <1>3

LEMMA ThinksType ==
  ASSUME TypeInv, NEW i \in Services, Thinks(i)
  PROVE  TypeInv'
<1>1. PICK s \in Service : Becomes(i, s) /\ s.pc \in {"eval", "check"}
  BY DEF Thinks
<1>2. lease = i /\ lease' = lease
  BY DEF Thinks, TypeInv
<1>3. /\ svc' \in [Services -> Service]
      /\ lease' \in Services \cup {None}
      /\ \A k \in Services : svc'[k].pc \notin {"down", "idle"} <=> lease' = k
  BY <1>1, <1>2, ServiceType
<1> QED BY <1>3 DEF Thinks, TypeInv, store

LEMMA LaunchEffect ==
  ASSUME TypeInv, StartInv, NEW i \in Services, LaunchJob(i)
  PROVE  LET j == Head(svc[i].todo)
         IN  /\ TypeInv' /\ UNCHANGED store
             /\ j \in Jobs /\ launches[j] \in Nat /\ launches'[j] = launches[j] + 1
             /\ \A k \in Jobs \ {j} : launches'[k] = launches[k]
             /\ \E s \in Service : /\ Becomes(i, s) /\ s.pc = "run" /\ s.mem = svc[i].mem
                                   /\ s.todo = svc[i].todo /\ s.fresh = svc[i].fresh
<1> DEFINE j == Head(svc[i].todo)
           s == [svc[i] EXCEPT !.pc = "run"]
<1>1. svc[i].pc = "launch" /\ svc[i] \in Service /\ lease = i
  BY DEF LaunchJob, At, TypeInv
<1>2. svc[i].todo # <<>> /\ launches[j] < MaxLaunches
  BY <1>1 DEF StartInv, StartOk, Starting
<1>3. j \in Jobs
  BY <1>1, <1>2 DEF Service
<1>4. launches' = [launches EXCEPT ![j] = launches[j] + 1]
  BY DEF LaunchJob
<1>5. /\ launches' \in [Jobs -> 0 .. MaxLaunches] /\ launches[j] \in Nat /\ launches'[j] = launches[j] + 1
      /\ \A k \in Jobs \ {j} : launches'[k] = launches[k]
  <2>1. launches \in [Jobs -> 0 .. MaxLaunches]
    BY DEF TypeInv
  <2> HIDE DEF j
  <2>2. launches[j] \in 0 .. MaxLaunches
    BY <1>3, <2>1
  <2>3. launches[j] \in Nat /\ launches[j] + 1 \in 0 .. MaxLaunches
    BY <1>2, <2>2
  <2> QED BY <1>3, <1>4, <2>1, <2>3
<1>6. /\ s \in Service /\ s.pc = "run" /\ s.mem = svc[i].mem
      /\ s.todo = svc[i].todo /\ s.fresh = svc[i].fresh
  BY <1>1 DEF Service, Locations
<1>7. svc' = [svc EXCEPT ![i] = s] /\ lease' = lease /\ UNCHANGED store
  BY DEF LaunchJob, Goto
<1> HIDE DEF s
<1>8. Becomes(i, s)
  BY <1>6, <1>7 DEF Becomes
<1>9. /\ svc' \in [Services -> Service]
      /\ lease' \in Services \cup {None}
      /\ \A k \in Services : svc'[k].pc \notin {"down", "idle"} <=> lease' = k
  BY <1>1, <1>6, <1>7, <1>8, ServiceType
<1>10. TypeInv'
  <2>1. UNCHANGED <<clock, enabled, late, faults>>
    BY DEF LaunchJob
  <2> HIDE DEF j
  <2> QED BY <1>5, <1>7, <1>9, <2>1 DEF TypeInv, store
<1> QED BY <1>3, <1>5, <1>6, <1>7, <1>8, <1>10

LEMMA EndsEffect ==
  ASSUME TypeInv, StartInv, NEW i \in Services, JobEnds(i)
  PROVE  /\ TypeInv' /\ Same /\ lease' = lease
         /\ \E s \in Service :
              /\ Becomes(i, s) /\ s.pc = "check" /\ s.then = "eval" /\ s.fresh = svc[i].fresh
              /\ LET j == Head(svc[i].todo)
                 IN  /\ j \in Jobs /\ launches[j] > 0
                     /\ s.mem.jobs[j] \in {"COMPLETED", "FAILED"}
                     /\ \A k \in Jobs \ {j} : s.mem.jobs[k] = svc[i].mem.jobs[k]
<1> DEFINE j == Head(svc[i].todo)
<1>1. svc[i].pc = "run" /\ svc[i] \in Service /\ lease = i
  BY DEF JobEnds, At, TypeInv
<1>2. svc[i].todo # <<>> /\ launches[j] > 0
  BY <1>1 DEF StartInv, StartOk
<1>3. j \in Jobs /\ Tail(svc[i].todo) \in Seq(Jobs)
  BY <1>1, <1>2 DEF Service
<1>4. PICK status \in {"COMPLETED", "FAILED"} :
        Set(i, Saves([svc[i] EXCEPT !.todo = Tail(@), !.mem.jobs[j] = status, !.own = @ \cup {j}], "eval"))
  BY DEF JobEnds
<1> DEFINE jobs == [svc[i].mem.jobs EXCEPT ![j] = status]
           mem == [svc[i].mem EXCEPT !.jobs = jobs]
           rest == Tail(svc[i].todo)
           own == svc[i].own \cup {j}
           s == [svc[i] EXCEPT !.todo = rest, !.mem = mem, !.own = own, !.pc = "check", !.then = "eval"]
<1>5. svc[i].mem \in States /\ own \subseteq Jobs
  BY <1>1, <1>3 DEF Service
<1>6. svc' = [svc EXCEPT ![i] = s]
  BY <1>1, <1>4, <1>5 DEF Set, Saves, Service, States
<1>7. mem \in States /\ mem.jobs = jobs /\ jobs[j] = status /\ \A k \in Jobs \ {j} : jobs[k] = svc[i].mem.jobs[k]
  BY <1>3, <1>5 DEF States, Statuses, Claimed, FinalJobStates
<1> HIDE DEF mem, jobs, own, rest
<1>8. /\ s \in Service /\ s.pc = "check" /\ s.then = "eval" /\ s.mem = mem /\ s.fresh = svc[i].fresh
  BY <1>1, <1>3, <1>5, <1>7 DEF Service, Locations, rest
<1> HIDE DEF s
<1>9. Becomes(i, s) /\ Same /\ lease' = lease
  BY <1>6, <1>8 DEF Becomes, JobEnds, Same, store, TypeInv
<1>10. TypeInv'
  BY <1>1, <1>8, <1>9, SameType
<1> HIDE DEF j
<1>11. s.mem.jobs[j] \in {"COMPLETED", "FAILED"} /\ \A k \in Jobs \ {j} : s.mem.jobs[k] = svc[i].mem.jobs[k]
  BY <1>7, <1>8
<1> QED BY <1>2, <1>3, <1>8, <1>9, <1>10, <1>11 DEF j

-----------------------------------------------------------------------------
(* What the writes of a save do.                                           *)

\* A service goes on with what it has in memory.
Moves(i, s) ==
  /\ Becomes(i, s)
  /\ s.mem = svc[i].mem /\ s.todo = svc[i].todo /\ s.then = svc[i].then

LEMMA GotoMoves ==
  ASSUME TypeInv, NEW i \in Services, lease = i, NEW pc \in Locations \ {"down", "idle"},
         Goto(i, pc), lease' = lease
  PROVE  /\ \E s \in Service : Moves(i, s) /\ s.pc = pc /\ s.fresh = svc[i].fresh
         /\ svc' \in [Services -> Service]
         /\ \A k \in Services : svc'[k].pc \notin {"down", "idle"} <=> lease' = k
<1> DEFINE s == [svc[i] EXCEPT !.pc = pc]
<1>1. svc[i] \in Service
  BY DEF TypeInv
<1>2. /\ s \in Service /\ s.pc = pc /\ s.mem = svc[i].mem /\ s.fresh = svc[i].fresh
      /\ s.todo = svc[i].todo /\ s.then = svc[i].then
  BY <1>1 DEF Service
<1>3. svc' = [svc EXCEPT ![i] = s]
  BY DEF Goto
<1> HIDE DEF s
<1>4. Moves(i, s) /\ Becomes(i, s)
  BY <1>2, <1>3 DEF Moves, Becomes
<1> QED BY <1>2, <1>4, ServiceType

LEMMA ChecksEffect ==
  ASSUME TypeInv, BackedInv, AnswerInv, NEW i \in Services, SaveChecks(i)
  PROVE  /\ TypeInv' /\ Same
         /\ \/ Leaves(i)
            \/ /\ svc[i].pc = "check" /\ svc[i].fresh /\ lease' = lease
               /\ \A j \in Jobs, t \in FinalJobStates : <<j, t>> \in claims => svc[i].mem.jobs[j] = t
               /\ \E s \in Service : Moves(i, s) /\ s.pc = "claims" /\ s.fresh
<1>1. svc[i].pc = "check" /\ svc[i] \in Service /\ Same /\ lease = i
  BY DEF SaveChecks, At, TypeInv, Same
<1>2. CASE Exits(i)
  BY <1>1, <1>2, ExitsLeaves, LeavesType
<1>3. CASE ~Exits(i)
  <2> DEFINE s == [svc[i] EXCEPT !.pc = "claims", !.own = {}]
  <2>1. svc[i].fresh /\ HistoryKept(i) /\ svc' = [svc EXCEPT ![i] = s] /\ lease' = lease
    BY <1>3 DEF SaveChecks, Set
  <2>2. /\ s \in Service /\ s.pc = "claims" /\ s.mem = svc[i].mem /\ s.fresh = svc[i].fresh
        /\ s.todo = svc[i].todo /\ s.then = svc[i].then
    BY <1>1 DEF Service, Locations
  <2> HIDE DEF s
  <2>3. Moves(i, s) /\ Becomes(i, s)
    BY <2>1, <2>2 DEF Moves, Becomes
  <2>4. \A j \in Jobs, t \in FinalJobStates : <<j, t>> \in claims => svc[i].mem.jobs[j] = t
    <3> TAKE j \in Jobs, t \in FinalJobStates
    <3>1. <<j, t>> \in claims => Merged(j) = t
      BY MergedIsClaimed
    <3> QED BY <2>1, <3>1 DEF HistoryKept, Receipt
  <2> QED BY <1>1, <2>1, <2>2, <2>3, <2>4, SameType
<1> QED BY <1>2, <1>3

LEMMA ClaimEffect ==
  ASSUME TypeInv, NEW i \in Services, WriteClaim(i)
  PROVE  /\ TypeInv' /\ svc[i].pc = "claims"
         /\ UNCHANGED <<world, generations, head, current, unreadable, copied, lease, svc>>
         /\ \E j \in Jobs : /\ svc[i].mem.jobs[j] \in Claimed
                            /\ <<j, svc[i].mem.jobs[j]>> \notin claims
                            /\ claims' = claims \cup {<<j, svc[i].mem.jobs[j]>>}
<1>1. PICK c \in Unclaimed(i) : claims' = claims \cup {c}
  BY DEF WriteClaim
<1>2. PICK j \in Jobs : /\ svc[i].mem.jobs[j] \in Claimed /\ c = <<j, svc[i].mem.jobs[j]>> /\ c \notin claims
  BY DEF Unclaimed, Receipt
<1>3. claims' \subseteq Jobs \X Claimed
  <2>1. claims \subseteq Jobs \X Claimed
    BY DEF TypeInv
  <2>2. c \in Jobs \X Claimed
    BY <1>2
  <2> QED BY <1>1, <2>1, <2>2
<1>4. UNCHANGED <<world, generations, head, current, unreadable, copied, lease, svc>> /\ svc[i].pc = "claims"
  BY DEF WriteClaim, At
<1>5. TypeInv'
  BY <1>3, <1>4 DEF TypeInv, world
<1> QED BY <1>1, <1>2, <1>4, <1>5

LEMMA RetainEffect ==
  ASSUME TypeInv, NEW i \in Services, Retain(i)
  PROVE  /\ TypeInv' /\ svc[i].pc = "claims" /\ lease' = lease
         /\ \A j \in Jobs : svc[i].mem.jobs[j] \in Claimed => <<j, svc[i].mem.jobs[j]>> \in claims
         /\ generations' = Append(generations, [ok |-> TRUE, state |-> svc[i].mem])
         /\ UNCHANGED <<world, claims>>
         /\ \E s \in Service : Moves(i, s) /\ s.pc = "anchor" /\ s.fresh = svc[i].fresh
<1>1. svc[i].pc = "claims" /\ svc[i] \in Service /\ lease = i /\ Unclaimed(i) = {}
  BY DEF Retain, At, TypeInv
<1>2. \A j \in Jobs : svc[i].mem.jobs[j] \in Claimed => <<j, svc[i].mem.jobs[j]>> \in claims
  BY <1>1 DEF Unclaimed, Receipt
<1>3. /\ generations' = Append(generations, [ok |-> TRUE, state |-> svc[i].mem])
      /\ UNCHANGED <<world, head, current, claims, unreadable, copied, lease>> /\ Goto(i, "anchor")
  BY DEF Retain
<1>4. [ok |-> TRUE, state |-> svc[i].mem] \in Generation
  BY <1>1 DEF Service, Generation
<1>5. generations' \in Seq(Generation) /\ Len(generations') = Len(generations) + 1
  BY <1>3, <1>4 DEF TypeInv
<1>6. "anchor" \in Locations \ {"down", "idle"}
  BY DEF Locations
<1>7. /\ \E s \in Service : Moves(i, s) /\ s.pc = "anchor" /\ s.fresh = svc[i].fresh
      /\ svc' \in [Services -> Service]
      /\ \A k \in Services : svc'[k].pc \notin {"down", "idle"} <=> lease' = k
  BY <1>1, <1>3, <1>6, GotoMoves
<1>8. head' \in 1 .. Len(generations') /\ current' \in [ok : BOOLEAN, at : 1 .. Len(generations')]
  BY <1>3, <1>5 DEF TypeInv
<1>9. TypeInv'
  BY <1>3, <1>5, <1>7, <1>8 DEF TypeInv, world
<1> QED BY <1>1, <1>2, <1>3, <1>7, <1>9

LEMMA HeadEffect ==
  ASSUME TypeInv, NEW i \in Services, PromoteHead(i)
  PROVE  /\ TypeInv' /\ svc[i].pc = "anchor" /\ UNCHANGED <<world, generations, claims, lease>>
         /\ \E s \in Service : Moves(i, s) /\ s.pc = "promote" /\ s.fresh = svc[i].fresh
<1>1. svc[i].pc = "anchor" /\ svc[i] \in Service /\ lease = i
  BY DEF PromoteHead, At, TypeInv
<1>2. /\ UNCHANGED <<world, generations, current, claims, unreadable, copied, lease>> /\ Goto(i, "promote")
      /\ head' = Len(generations)
  BY DEF PromoteHead
<1>3. "promote" \in Locations \ {"down", "idle"}
  BY DEF Locations
<1>4. /\ \E s \in Service : Moves(i, s) /\ s.pc = "promote" /\ s.fresh = svc[i].fresh
      /\ svc' \in [Services -> Service]
      /\ \A k \in Services : svc'[k].pc \notin {"down", "idle"} <=> lease' = k
  BY <1>1, <1>2, <1>3, GotoMoves
<1>5. head' \in 1 .. Len(generations')
  BY <1>2 DEF TypeInv
<1>6. TypeInv'
  BY <1>2, <1>4, <1>5 DEF TypeInv, world
<1> QED BY <1>1, <1>2, <1>4, <1>6

LEMMA StateEffect ==
  ASSUME TypeInv, NEW i \in Services, PromoteState(i)
  PROVE  /\ TypeInv' /\ svc[i].pc = "promote" /\ UNCHANGED <<world, generations, claims, lease>>
         /\ svc'[i].pc = "prune" /\ svc'[i].mem = svc[i].mem /\ svc'[i].fresh
         /\ svc'[i].todo = svc[i].todo /\ svc'[i].then = svc[i].then
         /\ \A k \in Services \ {i} :
              svc'[k].pc = svc[k].pc /\ svc'[k].mem = svc[k].mem /\ ~svc'[k].fresh
<1> DEFINE s == [svc[i] EXCEPT !.pc = "prune", !.fresh = TRUE]
           t(k) == [svc[k] EXCEPT !.fresh = FALSE]
<1>1. svc[i].pc = "promote" /\ lease = i /\ \A k \in Services : svc[k] \in Service
  BY DEF PromoteState, At, TypeInv
<1>2. /\ UNCHANGED <<world, generations, head, claims, unreadable, copied, lease>>
      /\ current' = [ok |-> TRUE, at |-> Len(generations)]
      /\ svc' = [k \in Services |-> IF k = i THEN s ELSE t(k)]
  BY DEF PromoteState
<1>3. /\ s \in Service /\ s.pc = "prune" /\ s.mem = svc[i].mem /\ s.fresh
      /\ s.todo = svc[i].todo /\ s.then = svc[i].then
  <2>1. svc[i] \in Service /\ "prune" \in Locations
    BY <1>1 DEF Locations
  <2> QED BY <2>1 DEF Service
<1>4. \A k \in Services : t(k) \in Service /\ t(k).pc = svc[k].pc /\ t(k).mem = svc[k].mem /\ ~t(k).fresh
  BY <1>1, ServiceFields
<1> HIDE DEF s, t
<1>5. svc' \in [Services -> Service] /\ svc'[i] = s /\ \A k \in Services \ {i} : svc'[k] = t(k)
  BY <1>2, <1>3, <1>4
<1>6. \A k \in Services : svc'[k].pc \notin {"down", "idle"} <=> lease' = k
  BY <1>1, <1>2, <1>3, <1>4, <1>5 DEF TypeInv
<1>7. current' \in [ok : BOOLEAN, at : 1 .. Len(generations')]
  BY <1>2 DEF TypeInv
<1>8. TypeInv'
  BY <1>2, <1>5, <1>6, <1>7 DEF TypeInv, world
<1> QED BY <1>1, <1>2, <1>3, <1>4, <1>5, <1>8

LEMMA IsASequence ==
  ASSUME NEW S, NEW n \in Nat, NEW f \in [1 .. n -> S]
  PROVE  f \in Seq(S) /\ Len(f) = n
OBVIOUS

LEMMA FaultType ==
  ASSUME TypeInv, Fault
  PROVE  faults' \in 0 .. MaxFaults
<1>1. faults \in 0 .. MaxFaults
  BY DEF TypeInv
<1> QED BY <1>1 DEF Fault

\* A pruned store: each of its generations was one before, and there is one.
Pruned ==
  \A k \in 1 .. Len(generations') : \E l \in 1 .. Len(generations) : generations'[k] = generations[l]

LEMMA PruneEffect ==
  ASSUME TypeInv, WholeInv, NEW i \in Services, Prune(i)
  PROVE  /\ TypeInv' /\ svc[i].pc = "prune" /\ UNCHANGED <<world, claims>> /\ Pruned
         /\ \E s \in Service :
              /\ Moves(i, s) \/ (s.pc = "idle" /\ Becomes(i, s))
              /\ s.pc = "idle" \/ s.pc = svc[i].then
              /\ s.mem = svc[i].mem /\ s.fresh = svc[i].fresh
<1>1. svc[i].pc = "prune" /\ svc[i] \in Service /\ lease = i
  BY DEF Prune, At, TypeInv
<1> DEFINE n == Len(generations)
           kept == {k \in Readable : Cardinality({l \in Readable : l > k}) < RetainedGenerations}
           size == Cardinality(kept)
<1>2. n \in Nat /\ n \in 1 .. n /\ generations[n].ok /\ generations \in Seq(Generation)
  BY <1>1 DEF TypeInv, WholeInv, Files
<1>3. n \in kept
  <2>1. n \in Readable
    BY <1>2 DEF Readable
  <2>2. {l \in Readable : l > n} = {}
    BY <1>2 DEF Readable
  <2>3. Cardinality({l \in Readable : l > n}) = 0
    BY <2>2, FS_EmptySet
  <2> QED BY <2>1, <2>3
<1>4. size \in Nat /\ size > 0
  <2>1. IsFiniteSet(1 .. n)
    BY <1>2, FS_Interval
  <2>2. kept \in SUBSET (1 .. n)
    BY DEF Readable
  <2> HIDE DEF kept
  <2>3. IsFiniteSet(kept)
    BY <2>1, <2>2, FS_Subset
  <2>4. Cardinality(kept) \in Nat /\ Cardinality(kept) # 0
    BY <2>3, <1>3, FS_EmptySet, FS_CardinalityType
  <2> QED BY <2>4
<1>5. kept \subseteq 1 .. n
  BY DEF Readable
<1>6. PICK chosen \in [1 .. size -> kept] : generations' = [k \in 1 .. size |-> generations[chosen[k]]]
  BY DEF Prune
<1>7. head' = size /\ current' = [current EXCEPT !.at = size] /\ UNCHANGED <<world, claims, unreadable, copied>>
  BY DEF Prune
<1> HIDE DEF kept, size
<1>8. /\ \A k \in 1 .. size : generations[chosen[k]] \in Generation
      /\ generations' \in Seq(Generation) /\ Len(generations') = size
  <2>1. \A k \in 1 .. size : chosen[k] \in 1 .. n
    BY <1>5, <1>6
  <2>2. \A k \in 1 .. size : generations[chosen[k]] \in Generation
    BY <1>2, <2>1
  <2>3. generations' \in [1 .. size -> Generation]
    BY <1>6, <2>2
  <2> QED BY <1>4, <2>2, <2>3, IsASequence
<1>9. Pruned
  BY <1>4, <1>5, <1>6, <1>8 DEF Pruned
<1>10. head' \in 1 .. Len(generations') /\ current' \in [ok : BOOLEAN, at : 1 .. Len(generations')]
  <2>1. size \in 1 .. size /\ current.ok \in BOOLEAN /\ current \in [ok : BOOLEAN, at : 1 .. n]
    BY <1>4 DEF TypeInv
  <2> QED BY <1>7, <1>8, <2>1
<1>11. ASSUME svc[i].then = "sleep"
       PROVE  \E s \in Service :
                /\ Becomes(i, s) /\ s.pc = "idle" /\ lease' = None
                /\ s.mem = svc[i].mem /\ s.fresh = svc[i].fresh
  <2> DEFINE s == [svc[i] EXCEPT !.pc = "idle", !.now = 0, !.then = "eval"]
  <2>1. /\ s \in Service /\ s.pc = "idle" /\ s.mem = svc[i].mem /\ s.fresh = svc[i].fresh
    <3>1. "idle" \in Locations /\ 0 \in 0 .. MaxTime
      BY DEF Locations
    <3> QED BY <1>1, <3>1 DEF Service
  <2>2. svc' = [svc EXCEPT ![i] = s] /\ lease' = None
    BY <1>11 DEF Prune, Set
  <2> HIDE DEF s
  <2> QED BY <2>1, <2>2 DEF Becomes
<1>12. ASSUME svc[i].then # "sleep"
       PROVE  \E s \in Service :
                /\ Moves(i, s) /\ s.pc = svc[i].then /\ s.pc \in {"eval", "launch"} /\ lease' = lease
                /\ s.mem = svc[i].mem /\ s.fresh = svc[i].fresh
  <2>1. Goto(i, svc[i].then) /\ lease' = lease
    BY <1>12 DEF Prune
  <2>2. svc[i].then \in {"eval", "launch"} /\ svc[i].then \in Locations \ {"down", "idle"}
    BY <1>1, <1>12 DEF Service, Locations
  <2>3. \E s \in Service : Moves(i, s) /\ s.pc = svc[i].then /\ s.fresh = svc[i].fresh
    BY <1>1, <2>1, <2>2, GotoMoves
  <2> QED BY <2>1, <2>2, <2>3 DEF Moves
<1>13. /\ svc' \in [Services -> Service] /\ lease' \in Services \cup {None}
       /\ \A k \in Services : svc'[k].pc \notin {"down", "idle"} <=> lease' = k
  <2>1. CASE svc[i].then = "sleep"
    <3>1. PICK s \in Service : Becomes(i, s) /\ s.pc = "idle" /\ lease' = None
      BY <1>11, <2>1
    <3> QED BY <1>1, <3>1, ServiceType
  <2>2. CASE svc[i].then # "sleep"
    <3>1. PICK s \in Service : Moves(i, s) /\ s.pc \in {"eval", "launch"} /\ lease' = lease
      BY <1>12, <2>2
    <3> QED BY <1>1, <3>1, ServiceType DEF Moves
  <2> QED BY <2>1, <2>2
<1>14. TypeInv'
  BY <1>7, <1>8, <1>10, <1>13 DEF TypeInv, world
<1> QED BY <1>1, <1>7, <1>9, <1>11, <1>12, <1>14

LEMMA CrashEffect ==
  ASSUME TypeInv, NEW i \in Services, ServiceCrashes(i)
  PROVE  /\ TypeInv' /\ Leaves(i) /\ UNCHANGED <<launches, claims>>
         /\ \/ generations' = generations
            \/ /\ \A j \in Jobs : svc[i].mem.jobs[j] \in Claimed => <<j, svc[i].mem.jobs[j]>> \in claims
               /\ svc[i].pc = "claims"
               /\ generations' = Append(generations, [ok |-> FALSE, state |-> svc[i].mem])
<1>1. Leaves(i) /\ svc[i] \in Service
  BY ExitsLeaves DEF ServiceCrashes, TypeInv
<1>2. /\ svc' \in [Services -> Service] /\ lease' \in Services \cup {None}
      /\ \A k \in Services : svc'[k].pc \notin {"down", "idle"} <=> lease' = k
  <2>1. Down \in Service /\ Down.pc = "down"
    BY DownIsService DEF Down
  <2>2. lease = i \/ svc[i].pc \in {"down", "idle"}
    BY DEF TypeInv
  <2> QED BY <1>1, <2>1, <2>2, ServiceType DEF Leaves
<1>3. UNCHANGED <<clock, enabled, launches, late, head, current, claims>> /\ faults' \in 0 .. MaxFaults
      /\ unreadable' \in BOOLEAN /\ copied' \in BOOLEAN
  BY FaultType DEF ServiceCrashes, CopyTorn, store, TypeInv
<1>4. \/ generations' = generations
      \/ /\ svc[i].pc = "claims" /\ Unclaimed(i) = {}
         /\ generations' = Append(generations, [ok |-> FALSE, state |-> svc[i].mem])
  BY DEF ServiceCrashes, CopyTorn, store, At
<1>5. Unclaimed(i) = {} =>
        \A j \in Jobs : svc[i].mem.jobs[j] \in Claimed => <<j, svc[i].mem.jobs[j]>> \in claims
  BY DEF Unclaimed, Receipt
<1>6. generations' \in Seq(Generation) /\ Len(generations') >= Len(generations)
  <2>1. [ok |-> FALSE, state |-> svc[i].mem] \in Generation
    BY <1>1 DEF Service, Generation
  <2>2. generations \in Seq(Generation)
    BY DEF TypeInv
  <2>3. Append(generations, [ok |-> FALSE, state |-> svc[i].mem]) \in Seq(Generation)
        /\ Len(Append(generations, [ok |-> FALSE, state |-> svc[i].mem])) = Len(generations) + 1
    BY <2>1, <2>2
  <2>4. Len(generations) \in Nat
    BY <2>2
  <2> QED BY <1>4, <2>2, <2>3, <2>4
<1>7. head' \in 1 .. Len(generations') /\ current' \in [ok : BOOLEAN, at : 1 .. Len(generations')]
  BY <1>3, <1>6 DEF TypeInv
<1>8. TypeInv'
  BY <1>2, <1>3, <1>6, <1>7 DEF TypeInv
<1> QED BY <1>1, <1>3, <1>4, <1>5, <1>8

\* The clock, the operator and damage leave every receipt as it is; a state
\* file that is damaged is noticed by whoever loaded it.
Ambient ==
  /\ TypeInv' /\ UNCHANGED <<launches, claims, lease>>
  /\ Len(generations') = Len(generations)
  /\ \A k \in 1 .. Len(generations) : generations'[k].state = generations[k].state
  /\ UNCHANGED <<generations, svc>> \/ \A i \in Services : svc[i].pc \notin Files \cup {"claims"}
  /\ \A i \in Services :
       /\ svc'[i].pc = svc[i].pc /\ svc'[i].mem = svc[i].mem /\ svc'[i].todo = svc[i].todo
       /\ svc'[i].then = svc[i].then /\ svc'[i].fresh = (svc[i].fresh /\ svc'[i].fresh)

LEMMA AmbientEffect ==
  ASSUME TypeInv,
         \/ TimePasses \/ Damage \/ \E i \in Services : LoadCrashes(i)
         \/ \E i \in Services, j \in Jobs : ReplaceManifest(i, j)
  PROVE  Ambient
<1>1. CASE TimePasses \/ \E i \in Services, j \in Jobs : ReplaceManifest(i, j)
  <2>1. clock' \in 0 .. MaxTime /\ faults' \in 0 .. MaxFaults /\ enabled' \subseteq Jobs
    <3>1. clock \in 0 .. MaxTime /\ faults \in 0 .. MaxFaults /\ enabled \subseteq Jobs
      BY DEF TypeInv
    <3>2. CASE TimePasses
      BY <3>1, <3>2 DEF TimePasses
    <3>3. CASE \E i \in Services, j \in Jobs : ReplaceManifest(i, j)
      BY <3>1, <3>3, FaultType DEF ReplaceManifest
    <3> QED BY <1>1, <3>2, <3>3
  <2>2. UNCHANGED <<launches, late, store, lease, svc>>
    BY <1>1 DEF TimePasses, ReplaceManifest
  <2>3. TypeInv'
    BY <2>1, <2>2 DEF TypeInv, store
  <2>4. \A i \in Services : svc[i].fresh \in BOOLEAN
    BY ServiceFields DEF TypeInv
  <2> QED BY <2>2, <2>3, <2>4 DEF Ambient, store
<1>2. CASE Damage
  <2>1. \A i \in Services : svc[i].pc \notin Files \cup {"claims"}
    BY <1>2 DEF Damage, Files
  <2>2. /\ faults' \in 0 .. MaxFaults /\ copied' \in BOOLEAN /\ unreadable' \in BOOLEAN
        /\ UNCHANGED <<clock, enabled, launches, late, head, claims, lease>>
    BY <1>2, FaultType DEF Damage, StateDamaged, GenerationDamaged, ClaimOrHeadDamaged, TypeInv
  <2>3. CASE StateDamaged
    <3> DEFINE t(k) == [svc[k] EXCEPT !.fresh = FALSE]
    <3>1. svc' = [k \in Services |-> t(k)] /\ generations' = generations
          /\ current' = [current EXCEPT !.ok = FALSE]
      BY <2>3 DEF StateDamaged
    <3>2. \A k \in Services : /\ t(k) \in Service /\ t(k).pc = svc[k].pc /\ t(k).mem = svc[k].mem
                              /\ t(k).todo = svc[k].todo /\ t(k).then = svc[k].then /\ t(k).fresh = FALSE
      <4>1. \A k \in Services : svc[k] \in Service
        BY DEF TypeInv
      <4> QED BY <4>1, ServiceFields
    <3> HIDE DEF t
    <3>3. current' \in [ok : BOOLEAN, at : 1 .. Len(generations')]
      BY <3>1 DEF TypeInv
    <3>4. svc' \in [Services -> Service] /\ \A k \in Services : svc'[k].pc = svc[k].pc
      BY <3>1, <3>2
    <3>5. TypeInv'
      BY <2>2, <3>1, <3>3, <3>4 DEF TypeInv
    <3> QED BY <2>1, <2>2, <3>1, <3>2, <3>5 DEF Ambient
  <2>4. CASE \E k \in 1 .. Len(generations) : GenerationDamaged(k)
    <3>1. PICK k \in 1 .. Len(generations) : GenerationDamaged(k)
      BY <2>4
    <3> DEFINE g == [generations[k] EXCEPT !.ok = FALSE]
    <3>2. generations' = [generations EXCEPT ![k] = g] /\ UNCHANGED <<current, svc>>
      BY <3>1 DEF GenerationDamaged
    <3>3. generations \in Seq(Generation) /\ g \in Generation /\ g.state = generations[k].state
      <4>1. generations \in Seq(Generation)
        BY DEF TypeInv
      <4>2. generations[k] \in Generation
        BY <4>1
      <4> QED BY <4>1, <4>2 DEF Generation
    <3> HIDE DEF g
    <3>4. /\ generations' \in Seq(Generation) /\ Len(generations') = Len(generations)
          /\ \A l \in 1 .. Len(generations) : generations'[l].state = generations[l].state
      BY <3>2, <3>3, ExceptSeq
    <3>5. TypeInv'
      BY <2>2, <3>2, <3>4 DEF TypeInv
    <3>6. \A l \in Services : svc[l].fresh \in BOOLEAN
      BY ServiceFields DEF TypeInv
    <3> QED BY <2>1, <2>2, <3>2, <3>4, <3>5, <3>6 DEF Ambient
  <2>5. CASE ClaimOrHeadDamaged
    <3>1. UNCHANGED <<generations, current, svc>>
      BY <2>5 DEF ClaimOrHeadDamaged
    <3>2. TypeInv'
      BY <2>2, <3>1 DEF TypeInv
    <3>3. \A l \in Services : svc[l].fresh \in BOOLEAN
      BY ServiceFields DEF TypeInv
    <3> QED BY <2>2, <3>1, <3>2, <3>3 DEF Ambient
  <2> QED BY <1>2, <2>3, <2>4, <2>5 DEF Damage
<1>3. CASE \E i \in Services : LoadCrashes(i)
  <2>1. faults' \in 0 .. MaxFaults /\ unreadable' \in BOOLEAN
    BY <1>3, FaultType DEF LoadCrashes, CopyTorn
  <2>2. UNCHANGED <<clock, enabled, launches, late, generations, head, current, claims, copied, lease, svc>>
    BY <1>3 DEF LoadCrashes, CopyTorn
  <2>3. TypeInv'
    BY <2>1, <2>2 DEF TypeInv
  <2>4. \A i \in Services : svc[i].fresh \in BOOLEAN
    BY ServiceFields DEF TypeInv
  <2> QED BY <2>2, <2>3, <2>4 DEF Ambient
<1> QED BY <1>1, <1>2, <1>3

-----------------------------------------------------------------------------
(* Every step preserves the rest of the invariant.                         *)

LEMMA InitRest ==
  ASSUME Init
  PROVE  Rest
<1>1. \A i \in Services : svc[i] = Down
  BY DEF Init
<1>2. \A j \in Jobs : launches[j] = 0
  BY DEF Init
<1>3. claims = {} /\ Len(generations) = 1
      /\ \A j \in Jobs : generations[1].state.jobs[j] = "none"
  BY DEF Init, State
<1>4. \A j \in Jobs : Down.mem.jobs[j] = "none"
  BY DEF Down, State
<1>5. Down.pc = "down" /\ ~Down.fresh
  BY DEF Down
<1>6. WholeInv
  BY <1>1, <1>5 DEF WholeInv, Files
<1>7. BackedInv
  <2> SUFFICES ASSUME NEW k \in 1 .. Len(generations), NEW j \in Jobs
               PROVE  generations[k].state.jobs[j] \notin Claimed
    BY DEF BackedInv
  <2>1. k = 1
    BY <1>3
  <2> QED BY <1>3, <2>1 DEF Claimed, FinalJobStates
<1>8. SaveInv /\ AnswerInv
  BY <1>1, <1>3, <1>5 DEF SaveInv, SaveOk, AnswerInv, Checked, Stored, Files
<1>9. StartInv
  BY <1>1, <1>5 DEF StartInv, StartOk, Starting, Files
<1>10. HonestInv
  <2>1. \A i \in Services, j \in Jobs : svc[i].mem.jobs[j] # "COMPLETED"
    BY <1>1, <1>4
  <2>2. \A j \in Jobs : ~(launches[j] > 0)
    <3> TAKE j \in Jobs
    <3>1. launches[j] = 0
      BY <1>2
    <3> QED BY <3>1
  <2>3. \A j \in Jobs : <<j, "COMPLETED">> \notin claims
    BY <1>3
  <2> QED BY <2>1, <2>2, <2>3 DEF HonestInv
<1>11. KnowInv
  BY <1>1, <1>5 DEF KnowInv, KnowsLaunches, Files
<1> QED BY <1>6, <1>7, <1>8, <1>9, <1>10, <1>11 DEF Rest

\* Only the service inside a tick is anywhere but idle.
LEMMA OneTick ==
  ASSUME TypeInv, NEW i \in Services, svc[i].pc \notin {"down", "idle"}
  PROVE  lease = i /\ \A k \in Services \ {i} : svc[k].pc \in {"down", "idle"}
BY DEF TypeInv

\* A service changes outside of its writes and the files do not.
LEMMA ServiceRest ==
  ASSUME TypeInv, Rest, NEW i \in Services, NEW s \in Service, Becomes(i, s),
         UNCHANGED <<generations, claims, launches>>,
         s.pc \in {"down", "idle", "eval", "check", "claims"},
         SaveOk(s), StartOk(s), KnowsLaunches(s),
         \A j \in Jobs : s.mem.jobs[j] = "COMPLETED" => launches[j] > 0,
         s.fresh => lease = i \/ lease = None \/ KnowsClaims(s),
         s.pc = "claims" => s.fresh
  PROVE  Rest'
<1>1. svc'[i] = s /\ \A k \in Services \ {i} : svc'[k] = svc[k]
  BY BecomesOnly
<1>2. WholeInv'
  BY <1>1 DEF Rest, WholeInv, Files
<1>3. BackedInv' /\ AnswerInv'
  BY DEF Rest, BackedInv, AnswerInv
<1>4. SaveInv'
  <2>1. \A k \in Services : SaveOk(svc'[k])
    BY <1>1 DEF Rest, SaveInv
  <2>2. \A k \in Services : SaveOk(svc[k])'
    BY <2>1 DEF SaveOk
  <2> QED BY <2>2 DEF SaveInv
<1>5. StartInv'
  <2>1. \A k \in Services : StartOk(svc'[k])
    BY <1>1 DEF Rest, StartInv
  <2>2. \A k \in Services : StartOk(svc[k])'
    BY <2>1 DEF StartOk, Starting
  <2> QED BY <2>2 DEF StartInv
<1>6. HonestInv'
  BY <1>1 DEF Rest, HonestInv
<1>7. KnowInv'
  <2>1. \A k \in Services : KnowsLaunches(svc[k])'
    BY <1>1 DEF Rest, KnowInv, KnowsLaunches
  <2>2. ASSUME NEW l \in Services, NEW k \in Services, svc'[l].pc \in {"prune", "launch"}, k # l, svc'[k].fresh
        PROVE  KnowsClaims(svc[k])'
    <3>1. l # i /\ svc[l].pc \in {"prune", "launch"}
      BY <1>1, <2>2
    <3>2. lease = l
      BY <3>1 DEF TypeInv
    <3>3. lease # None
      BY <3>2
    <3>4. CASE k = i
      BY <1>1, <2>2, <3>1, <3>2, <3>3, <3>4 DEF KnowsClaims
    <3>5. CASE k # i
      BY <1>1, <2>2, <3>1, <3>5 DEF Rest, KnowInv, KnowsClaims
    <3> QED BY <3>4, <3>5
  <2>3. \A k \in Services : svc'[k].pc \in Files \cup {"claims"} => svc'[k].fresh
    BY <1>1 DEF Rest, KnowInv, Files
  <2> QED BY <2>1, <2>2, <2>3 DEF KnowInv
<1> QED BY <1>2, <1>3, <1>4, <1>5, <1>6, <1>7 DEF Rest

LEMMA LeavesRest ==
  ASSUME TypeInv, Rest, NEW i \in Services, Leaves(i), UNCHANGED <<generations, claims, launches>>
  PROVE  Rest'
<1>1. Down \in Service /\ Down.pc = "down" /\ ~Down.fresh /\ \A j \in Jobs : Down.mem.jobs[j] = "none"
  BY DownIsService DEF Down, State
<1>2. SaveOk(Down) /\ StartOk(Down) /\ KnowsLaunches(Down)
  BY <1>1 DEF SaveOk, StartOk, KnowsLaunches, Checked, Stored, Files, Starting
<1> QED BY <1>1, <1>2, ServiceRest DEF Leaves

\* What is claimed COMPLETED was launched, so a load is honest.
LEMMA LoadRest ==
  ASSUME TypeInv, Rest, NEW i \in Services, Load(i)
  PROVE  Rest'
<1>1. PICK s \in Service : Becomes(i, s) /\ s.pc = "idle" /\ s.fresh /\ s.mem.jobs = Loaded
  BY LoadEffect DEF Rest
<1>2. Candidates # {} /\ UNCHANGED <<generations, claims, launches>>
  BY DEF Load, Admissible, world, store
<1>3. /\ \A c \in claims : Loaded[c[1]] \in Claimed
      /\ \A j \in Jobs : Loaded[j] = "COMPLETED" => <<j, "COMPLETED">> \in claims
  BY <1>2, LoadedType DEF Rest
<1>4. SaveOk(s) /\ StartOk(s)
  BY <1>1 DEF SaveOk, StartOk, Checked, Stored, Files, Starting
<1>5. KnowsClaims(s)
  BY <1>1, <1>3 DEF KnowsClaims
<1>6. KnowsLaunches(s)
  <2> SUFFICES ASSUME NEW j \in Jobs \ Recovering, launches[j] > 0
               PROVE  s.mem.jobs[j] \in Claimed
    BY DEF KnowsLaunches
  <2>1. <<j, "RUNNING">> \in claims
    BY DEF Rest, HonestInv
  <2>2. <<j, "RUNNING">>[1] = j
    OBVIOUS
  <2> QED BY <2>1, <2>2, <1>5 DEF KnowsClaims
<1>7. \A j \in Jobs : s.mem.jobs[j] = "COMPLETED" => launches[j] > 0
  BY <1>1, <1>3 DEF Rest, HonestInv
<1> QED BY <1>1, <1>2, <1>4, <1>5, <1>6, <1>7, ServiceRest

LEMMA BeginTickRest ==
  ASSUME TypeInv, Rest, NEW i \in Services, BeginTick(i)
  PROVE  Rest'
<1>1. UNCHANGED <<generations, claims, launches>> /\ lease = None
  BY DEF BeginTick, world, store
<1>2. CASE Leaves(i)
  BY <1>1, <1>2, LeavesRest
<1>3. CASE ~Leaves(i)
  <2>1. PICK s \in Service : Becomes(i, s) /\ s.pc = "eval" /\ s.mem = svc[i].mem /\ s.fresh = svc[i].fresh
    BY <1>3, BeginTickEffect
  <2>2. SaveOk(s) /\ StartOk(s)
    BY <2>1 DEF SaveOk, StartOk, Checked, Stored, Files, Starting
  <2>3. KnowsLaunches(s)
    BY <2>1 DEF Rest, KnowInv, KnowsLaunches
  <2>4. \A j \in Jobs : s.mem.jobs[j] = "COMPLETED" => launches[j] > 0
    BY <2>1 DEF Rest, HonestInv
  <2> QED BY <1>1, <2>1, <2>2, <2>3, <2>4, ServiceRest
<1> QED BY <1>2, <1>3

LEMMA ThinksRest ==
  ASSUME TypeInv, Rest, NEW i \in Services, Thinks(i)
  PROVE  Rest'
<1>1. UNCHANGED <<generations, claims, launches>> /\ svc[i].pc = "eval" /\ lease = i
  BY DEF Thinks, store, TypeInv
<1>2. PICK s \in Service :
       /\ Becomes(i, s)
       /\ s.fresh = svc[i].fresh /\ s.pc \in {"eval", "check"}
       /\ \A j \in Jobs : s.mem.jobs[j] # svc[i].mem.jobs[j] =>
            /\ s.mem.jobs[j] # "COMPLETED"
            /\ j \notin Recovering /\ svc[i].mem.jobs[j] \in Claimed => s.mem.jobs[j] \in Claimed
       /\ s.pc = "check" /\ s.then = "launch" =>
            LET j == Head(s.todo)
            IN  /\ s.todo # <<>> /\ s.mem.jobs[j] = "RUNNING" /\ launches[j] < MaxLaunches
                /\ j \notin Recovering => svc[i].mem.jobs[j] \notin Claimed
                /\ Dependency[j] # None => s.mem.jobs[Dependency[j]] = "COMPLETED"
  BY DEF Thinks
<1>3. SaveOk(s)
  BY <1>2 DEF SaveOk, Checked, Stored, Files
<1>4. KnowsLaunches(s)
  <2>1. KnowsLaunches(svc[i])
    BY DEF Rest, KnowInv
  <2>2. s.fresh = svc[i].fresh
    BY <1>2
  <2>3. ASSUME NEW j \in Jobs \ Recovering, svc[i].mem.jobs[j] \in Claimed
        PROVE  s.mem.jobs[j] \in Claimed
    <3>1. CASE s.mem.jobs[j] = svc[i].mem.jobs[j]
      BY <2>3, <3>1
    <3>2. CASE s.mem.jobs[j] # svc[i].mem.jobs[j]
      BY <1>2, <2>3, <3>2
    <3> QED BY <3>1, <3>2
  <2> QED BY <2>1, <2>2, <2>3 DEF KnowsLaunches
<1>6. \A j \in Jobs : s.mem.jobs[j] = "COMPLETED" => launches[j] > 0
  BY <1>2 DEF Rest, HonestInv
<1>5. StartOk(s)
  <2> DEFINE j == Head(s.todo)
  <2>1. s.pc # "run" /\ (Starting(s) => s.pc = "check" /\ s.then = "launch")
    BY <1>2 DEF Starting, Files
  <2>2. ASSUME Starting(s)
        PROVE  j \in Jobs
    <3>1. s.todo \in Seq(Jobs) /\ s.todo # <<>>
      BY <1>2, <2>1, <2>2, ServiceFields
    <3> QED BY <3>1
  <2>3. ASSUME Starting(s), j \notin Recovering, s.fresh
        PROVE  launches[j] = 0
    <3>1. svc[i].mem.jobs[j] \notin Claimed /\ svc[i].fresh
      BY <1>2, <2>1, <2>3
    <3>2. ~(launches[j] > 0)
      BY <2>2, <2>3, <3>1 DEF Rest, KnowInv, KnowsLaunches
    <3>3. launches[j] \in Nat
      BY <2>2, <2>3 DEF TypeInv
    <3> QED BY <3>2, <3>3
  <2> QED BY <1>2, <2>1, <2>3 DEF StartOk
<1> QED BY <1>1, <1>2, <1>3, <1>4, <1>5, <1>6, ServiceRest

LEMMA EndsRest ==
  ASSUME TypeInv, Rest, NEW i \in Services, JobEnds(i)
  PROVE  Rest'
<1>1. UNCHANGED <<generations, claims, launches>> /\ lease = i
  BY DEF JobEnds, world, store, At, TypeInv
<1> DEFINE j == Head(svc[i].todo)
<1>2. PICK s \in Service :
              /\ Becomes(i, s) /\ s.pc = "check" /\ s.then = "eval" /\ s.fresh = svc[i].fresh
              /\ j \in Jobs /\ launches[j] > 0
              /\ s.mem.jobs[j] \in {"COMPLETED", "FAILED"}
              /\ \A k \in Jobs \ {j} : s.mem.jobs[k] = svc[i].mem.jobs[k]
  BY EndsEffect DEF Rest
<1> HIDE DEF j
<1>3. SaveOk(s) /\ StartOk(s)
  BY <1>2 DEF SaveOk, StartOk, Checked, Stored, Files, Starting
<1>4. KnowsLaunches(s)
  <2>1. KnowsLaunches(svc[i])
    BY DEF Rest, KnowInv
  <2>2. s.fresh = svc[i].fresh
    BY <1>2
  <2>3. ASSUME NEW k \in Jobs, svc[i].mem.jobs[k] \in Claimed
        PROVE  s.mem.jobs[k] \in Claimed
    <3>1. CASE k = j
      BY <1>2, <3>1 DEF Claimed, FinalJobStates
    <3>2. CASE k # j
      BY <1>2, <2>3, <3>2
    <3> QED BY <3>1, <3>2
  <2> QED BY <2>1, <2>2, <2>3 DEF KnowsLaunches
<1>5. \A k \in Jobs : s.mem.jobs[k] = "COMPLETED" => launches[k] > 0
  BY <1>2 DEF Rest, HonestInv
<1> QED BY <1>1, <1>2, <1>3, <1>4, <1>5, ServiceRest

LEMMA ChecksRest ==
  ASSUME TypeInv, Rest, NEW i \in Services, SaveChecks(i)
  PROVE  Rest'
<1>1. UNCHANGED <<generations, claims, launches>> /\ lease = i /\ svc[i].pc = "check"
  BY DEF SaveChecks, world, store, At, TypeInv
<1>2. CASE Leaves(i)
  BY <1>1, <1>2, LeavesRest
<1>3. CASE ~Leaves(i)
  <2>1. /\ svc[i].fresh
        /\ \A j \in Jobs, t \in FinalJobStates : <<j, t>> \in claims => svc[i].mem.jobs[j] = t
        /\ \E s \in Service : Moves(i, s) /\ s.pc = "claims" /\ s.fresh
    BY <1>3, ChecksEffect DEF Rest
  <2>2. PICK s \in Service : Moves(i, s) /\ s.pc = "claims" /\ s.fresh
    BY <2>1
  <2>3. SaveOk(s)
    BY <2>1, <2>2 DEF SaveOk, Stored, Checked, Files, Moves
  <2>4. StartOk(s)
    BY <1>1, <2>1, <2>2 DEF Rest, StartInv, StartOk, Starting, Files, Moves
  <2>5. KnowsLaunches(s)
    BY <2>1, <2>2 DEF Rest, KnowInv, KnowsLaunches, Moves
  <2>6. \A j \in Jobs : s.mem.jobs[j] = "COMPLETED" => launches[j] > 0
    BY <2>2 DEF Rest, HonestInv, Moves
  <2> QED BY <1>1, <2>2, <2>3, <2>4, <2>5, <2>6, ServiceRest DEF Moves
<1> QED BY <1>2, <1>3

LEMMA LaunchRest ==
  ASSUME TypeInv, Rest, NEW i \in Services, LaunchJob(i)
  PROVE  Rest'
<1> DEFINE j == Head(svc[i].todo)
<1>1. svc[i].pc = "launch" /\ lease = i /\ UNCHANGED <<generations, claims>>
  BY DEF LaunchJob, At, TypeInv, store
<1>2. /\ j \in Jobs /\ launches[j] \in Nat /\ launches'[j] = launches[j] + 1
      /\ \A k \in Jobs \ {j} : launches'[k] = launches[k]
      /\ \E s \in Service : /\ Becomes(i, s) /\ s.pc = "run" /\ s.mem = svc[i].mem
                            /\ s.todo = svc[i].todo /\ s.fresh = svc[i].fresh
  BY LaunchEffect DEF Rest
<1>3. PICK s \in Service : /\ Becomes(i, s) /\ s.pc = "run" /\ s.mem = svc[i].mem
                           /\ s.todo = svc[i].todo /\ s.fresh = svc[i].fresh
  BY <1>2
<1>4. svc'[i] = s /\ \A k \in Services \ {i} : svc'[k] = svc[k] /\ svc[k].pc \in {"down", "idle"}
  <2>1. svc[i].pc \notin {"down", "idle"}
    BY <1>1
  <2> QED BY <1>3, <2>1, OneTick, BecomesOnly
<1>5. /\ svc[i].todo # <<>> /\ svc[i].mem.jobs[j] = "RUNNING"
      /\ Dependency[j] # None => svc[i].mem.jobs[Dependency[j]] = "COMPLETED"
  BY <1>1 DEF Rest, StartInv, StartOk, Starting
<1>6. \A k \in Jobs : svc[i].mem.jobs[k] \in Claimed => <<k, svc[i].mem.jobs[k]>> \in claims
  BY <1>1 DEF Rest, SaveInv, SaveOk, Stored, Checked, Files
<1>7. <<j, "RUNNING">> \in claims
  BY <1>2, <1>5, <1>6 DEF Claimed
<1>8. Dependency[j] # None => <<Dependency[j], "COMPLETED">> \in claims
  BY <1>2, <1>5, <1>6 DEF Claimed, FinalJobStates
<1> HIDE DEF j
<1>9. launches'[j] > 0 /\ \A k \in Jobs : launches[k] > 0 => launches'[k] > 0
  <2>1. launches'[j] > 0
    <3>1. launches[j] \in Nat /\ launches'[j] = launches[j] + 1
      BY <1>2
    <3> QED BY <3>1
  <2>2. \A k \in Jobs : k # j => launches'[k] = launches[k]
    BY <1>2
  <2> QED BY <2>1, <2>2
<1>10. \A k \in Jobs : launches'[k] > 0 => k = j \/ launches[k] > 0
  BY <1>2
<1>11. WholeInv' /\ BackedInv' /\ AnswerInv'
  BY <1>1, <1>3, <1>4 DEF Rest, WholeInv, BackedInv, AnswerInv, Files
<1>12. SaveInv'
  <2>3. SaveOk(s)
    <3>1. SaveOk(svc[i]) /\ svc[i].pc \in Checked /\ svc[i].pc \in Stored
      BY <1>1 DEF Rest, SaveInv, Checked, Stored, Files
    <3> QED BY <1>3, <3>1 DEF SaveOk
  <2>1. \A k \in Services : SaveOk(svc'[k])
    BY <1>4, <2>3 DEF Rest, SaveInv
  <2>2. \A k \in Services : SaveOk(svc[k])'
    BY <1>1, <2>1 DEF SaveOk
  <2> QED BY <2>2 DEF SaveInv
<1>13. StartInv'
  <2> SUFFICES ASSUME NEW k \in Services PROVE StartOk(svc[k])'
    BY DEF StartInv
  <2>1. CASE k # i
    BY <1>4, <2>1 DEF StartOk, Starting, Files
  <2>2. CASE k = i
    BY <1>3, <1>4, <1>5, <1>9, <2>2 DEF StartOk, Starting, Files, j
  <2> QED BY <2>1, <2>2
<1>14. HonestInv'
  <2>1. ASSUME NEW k \in Jobs, NEW l \in Services, svc'[l].mem.jobs[k] = "COMPLETED"
        PROVE  launches'[k] > 0
    <3>1. svc[l].mem.jobs[k] = "COMPLETED"
      BY <1>3, <1>4, <2>1
    <3> QED BY <1>9, <3>1 DEF Rest, HonestInv
  <2>2. \A k \in Jobs : <<k, "COMPLETED">> \in claims => launches'[k] > 0
    BY <1>9 DEF Rest, HonestInv
  <2>3. \A k \in Jobs : launches'[k] > 0 =>
          <<k, "RUNNING">> \in claims /\ (Dependency[k] # None => <<Dependency[k], "COMPLETED">> \in claims)
    BY <1>7, <1>8, <1>10 DEF Rest, HonestInv
  <2> QED BY <1>1, <2>1, <2>2, <2>3 DEF HonestInv
<1>15. KnowInv'
  <2>1. ASSUME NEW k \in Services, NEW l \in Jobs \ Recovering, svc'[k].fresh, launches'[l] > 0
        PROVE  svc'[k].mem.jobs[l] \in Claimed
    <3>1. svc'[k].mem = svc[k].mem /\ svc[k].fresh
      BY <1>3, <1>4, <2>1
    <3>2. CASE launches[l] > 0
      BY <2>1, <3>1, <3>2 DEF Rest, KnowInv, KnowsLaunches
    <3>3. CASE l = j /\ k = i
      BY <1>5, <3>1, <3>3 DEF Claimed
    <3>4. CASE l = j /\ k # i
      <4>1. KnowsClaims(svc[k])
        BY <1>1, <3>1, <3>4 DEF Rest, KnowInv
      <4>2. <<j, "RUNNING">>[1] = j
        OBVIOUS
      <4> QED BY <1>7, <3>1, <3>4, <4>1, <4>2 DEF KnowsClaims
    <3> QED BY <1>10, <2>1, <3>2, <3>3, <3>4
  <2>2. \A k \in Services : svc'[k].pc \notin {"prune", "launch"}
    BY <1>3, <1>4
  <2>3. \A k \in Services : svc'[k].pc \notin Files \cup {"claims"}
    BY <1>3, <1>4 DEF Files
  <2> QED BY <2>1, <2>2, <2>3 DEF KnowInv, KnowsLaunches
<1> QED BY <1>11, <1>12, <1>13, <1>14, <1>15 DEF Rest

\* A claim is new: no answer of the job is claimed yet, or the service would
\* have had to agree with it.
LEMMA ClaimRest ==
  ASSUME TypeInv, Rest, NEW i \in Services, WriteClaim(i)
  PROVE  Rest'
<1>1. PICK j \in Jobs : /\ svc[i].mem.jobs[j] \in Claimed
                        /\ <<j, svc[i].mem.jobs[j]>> \notin claims
                        /\ claims' = claims \cup {<<j, svc[i].mem.jobs[j]>>}
  BY ClaimEffect
<1> DEFINE r == svc[i].mem.jobs[j]
<1>2. svc[i].pc = "claims" /\ UNCHANGED <<generations, launches, svc>>
  BY ClaimEffect DEF world
<1>3. \A k \in Services \ {i} : svc[k].pc \in {"down", "idle"}
  BY <1>2, OneTick
<1>4. \A t \in FinalJobStates : <<j, t>> \notin claims
  <2>1. \A t \in FinalJobStates : <<j, t>> \in claims => r = t
    BY <1>2 DEF Rest, SaveInv, SaveOk, Checked
  <2> QED BY <1>1, <2>1
<1> HIDE DEF r
<1>5. claims' = claims \cup {<<j, r>>} /\ r \in Claimed
  BY <1>1 DEF r
<1>6. WholeInv'
  BY <1>2 DEF Rest, WholeInv
<1>7. BackedInv'
  BY <1>2, <1>5 DEF Rest, BackedInv
<1>8. AnswerInv'
  BY <1>4, <1>5 DEF Rest, AnswerInv
<1>9. SaveInv'
  <2> SUFFICES ASSUME NEW k \in Services PROVE SaveOk(svc[k])'
    BY DEF SaveInv
  <2>1. CASE k # i
    BY <1>2, <1>3, <2>1 DEF SaveOk, Checked, Stored, Files
  <2>2. CASE k = i
    <3>1. \A l \in Jobs, t \in FinalJobStates : <<l, t>> \in claims => svc[i].mem.jobs[l] = t
      BY <1>2 DEF Rest, SaveInv, SaveOk, Checked
    <3>2. \A l \in Jobs, t \in FinalJobStates : <<l, t>> \in claims' => svc[i].mem.jobs[l] = t
      BY <1>5, <3>1 DEF r
    <3> QED BY <1>2, <2>2, <3>2 DEF SaveOk, Stored, Files
  <2> QED BY <2>1, <2>2
<1>10. StartInv'
  BY <1>2 DEF Rest, StartInv, StartOk, Starting
<1>11. HonestInv'
  <2>1. r = "COMPLETED" => launches[j] > 0
    BY DEF Rest, HonestInv, r
  <2>2. \A k \in Jobs : <<k, "COMPLETED">> \in claims' => launches[k] > 0
    BY <1>5, <2>1 DEF Rest, HonestInv
  <2> QED BY <1>2, <1>5, <2>2 DEF Rest, HonestInv
<1>12. KnowInv'
  <2>1. \A k \in Services : KnowsLaunches(svc[k])'
    BY <1>2 DEF Rest, KnowInv, KnowsLaunches
  <2>2. \A k \in Services : svc'[k].pc \notin {"prune", "launch"}
    BY <1>2, <1>3
  <2>3. \A k \in Services : svc'[k].pc \in Files \cup {"claims"} => svc'[k].fresh
    BY <1>2 DEF Rest, KnowInv
  <2> QED BY <2>1, <2>2, <2>3 DEF KnowInv
<1> QED BY <1>6, <1>7, <1>8, <1>9, <1>10, <1>11, <1>12 DEF Rest

\* A generation is retained with receipts that are claimed.
LEMMA AppendBacked ==
  ASSUME TypeInv, BackedInv, NEW g \in Generation, generations' = Append(generations, g),
         claims' = claims, \A j \in Jobs : g.state.jobs[j] \in Claimed => <<j, g.state.jobs[j]>> \in claims
  PROVE  BackedInv' /\ Len(generations') = Len(generations) + 1 /\ generations'[Len(generations')] = g
<1>1. generations \in Seq(Generation) /\ Len(generations) \in Nat
  BY DEF TypeInv
<1>2. /\ Len(generations') = Len(generations) + 1 /\ generations'[Len(generations) + 1] = g
      /\ \A k \in 1 .. Len(generations) : generations'[k] = generations[k]
  BY <1>1
<1>3. \A k \in 1 .. Len(generations') : k = Len(generations) + 1 \/ k \in 1 .. Len(generations)
  BY <1>1, <1>2
<1> QED BY <1>2, <1>3 DEF BackedInv

\* A step of a save between two writes: memory, claims and launches stay.
LEMMA WriteRest ==
  ASSUME TypeInv, Rest, NEW i \in Services, lease = i, NEW s, svc'[i] = s,
         UNCHANGED <<claims, launches>>,
         s.mem = svc[i].mem, s.todo = svc[i].todo, s.then = svc[i].then,
         svc[i].pc \in {"claims", "anchor", "promote"}, s.pc \in Files,
         KnowsLaunches(s), s.fresh, WholeInv', BackedInv',
         \A j \in Jobs : s.mem.jobs[j] \in Claimed => <<j, s.mem.jobs[j]>> \in claims,
         \A k \in Services \ {i} : svc'[k].pc = svc[k].pc /\ svc'[k].mem = svc[k].mem,
         \A k \in Services \ {i} : s.pc = "prune" => ~svc'[k].fresh,
         \A k \in Services \ {i} : svc'[k].fresh => svc[k].fresh
  PROVE  Rest'
<1>1. svc[i].pc \notin {"down", "idle"} /\ s.pc \notin {"check", "launch", "run"} /\ s.pc \in Stored
  BY DEF Files, Stored, Checked
<1>2. \A k \in Services \ {i} : svc[k].pc \in {"down", "idle"}
  BY <1>1, OneTick
<1>3. AnswerInv'
  BY DEF Rest, AnswerInv
<1>4. SaveInv'
  <2> SUFFICES ASSUME NEW k \in Services PROVE SaveOk(svc[k])'
    BY DEF SaveInv
  <2>1. CASE k # i
    BY <1>2, <2>1 DEF SaveOk, Checked, Stored, Files
  <2>2. CASE k = i
    <3>1. \A j \in Jobs, t \in FinalJobStates : <<j, t>> \in claims => svc[i].mem.jobs[j] = t
      <4>1. SaveOk(svc[i]) /\ svc[i].pc \in Checked
        BY DEF Rest, SaveInv, Checked, Files
      <4> QED BY <4>1 DEF SaveOk
    <3>2. ASSUME NEW j \in Jobs
          PROVE  /\ \A t \in FinalJobStates : <<j, t>> \in claims' => svc'[i].mem.jobs[j] = t
                 /\ svc'[i].mem.jobs[j] \in Claimed => <<j, svc'[i].mem.jobs[j]>> \in claims'
      <4>1. svc'[i].mem.jobs[j] = svc[i].mem.jobs[j] /\ svc'[i].mem.jobs[j] = s.mem.jobs[j]
        OBVIOUS
      <4> QED BY <3>1, <4>1
    <3> QED BY <2>2, <3>2 DEF SaveOk
  <2> QED BY <2>1, <2>2
<1>5. StartInv'
  <2> SUFFICES ASSUME NEW k \in Services PROVE StartOk(svc[k])'
    BY DEF StartInv
  <2>1. CASE k # i
    BY <1>2, <2>1 DEF StartOk, Starting, Files
  <2>2. CASE k = i
    <3>1. StartOk(svc[i]) /\ svc[i].pc # "check"
      BY DEF Rest, StartInv
    <3>2. Starting(s) => Starting(svc[i])
      BY <1>1 DEF Starting, Files
    <3> QED BY <1>1, <2>2, <3>1, <3>2 DEF StartOk, Starting
  <2> QED BY <2>1, <2>2
<1>6. HonestInv'
  <2>1. \A k \in Services : svc'[k].mem = svc[k].mem
    OBVIOUS
  <2>2. ASSUME NEW k \in Services, NEW j \in Jobs, svc'[k].mem.jobs[j] = "COMPLETED"
        PROVE  launches[j] > 0
    <3>1. svc[k].mem.jobs[j] = "COMPLETED"
      BY <2>1, <2>2
    <3> QED BY <3>1 DEF Rest, HonestInv
  <2> QED BY <2>2 DEF Rest, HonestInv
<1>7. KnowInv'
  <2>1. ASSUME NEW k \in Services
        PROVE  KnowsLaunches(svc[k])'
    <3>1. CASE k = i
      BY <3>1 DEF KnowsLaunches
    <3>2. CASE k # i
      BY <3>2 DEF Rest, KnowInv, KnowsLaunches
    <3> QED BY <3>1, <3>2
  <2>2. \A l, k \in Services : svc'[l].pc \in {"prune", "launch"} /\ k # l => ~svc'[k].fresh
    BY <1>1, <1>2
  <2>3. \A k \in Services : svc'[k].pc \in Files \cup {"claims"} => svc'[k].fresh
    BY <1>2 DEF Files
  <2> QED BY <2>1, <2>2, <2>3 DEF KnowInv
<1> QED BY <1>3, <1>4, <1>5, <1>6, <1>7 DEF Rest

LEMMA RetainRest ==
  ASSUME TypeInv, Rest, NEW i \in Services, Retain(i)
  PROVE  Rest'
<1>1. /\ svc[i].pc = "claims" /\ UNCHANGED <<claims, launches>> /\ lease = i /\ svc[i] \in Service
      /\ \A j \in Jobs : svc[i].mem.jobs[j] \in Claimed => <<j, svc[i].mem.jobs[j]>> \in claims
      /\ generations' = Append(generations, [ok |-> TRUE, state |-> svc[i].mem])
  BY RetainEffect DEF world, TypeInv
<1>2. PICK s \in Service : Moves(i, s) /\ s.pc = "anchor" /\ s.fresh = svc[i].fresh
  BY RetainEffect
<1>3. svc'[i] = s /\ \A k \in Services \ {i} : svc'[k] = svc[k]
  BY <1>2, BecomesOnly DEF Moves
<1> DEFINE g == [ok |-> TRUE, state |-> svc[i].mem]
<1>4. g \in Generation /\ g.ok /\ g.state = svc[i].mem
  BY <1>1, ServiceFields DEF Generation
<1> HIDE DEF g
<1>5. BackedInv' /\ generations'[Len(generations')] = g
  BY <1>1, <1>4, AppendBacked DEF g, Rest
<1>6. WholeInv'
  BY <1>4, <1>5 DEF WholeInv
<1>7. KnowsLaunches(s) /\ s.fresh
  BY <1>1, <1>2 DEF Rest, KnowInv, KnowsLaunches, Moves
<1>8. s.mem = svc[i].mem /\ s.todo = svc[i].todo /\ s.then = svc[i].then /\ s.pc \in Files
      /\ s.pc # "prune"
  BY <1>2 DEF Moves, Files
<1> QED BY <1>1, <1>3, <1>5, <1>6, <1>7, <1>8, WriteRest

LEMMA HeadRest ==
  ASSUME TypeInv, Rest, NEW i \in Services, PromoteHead(i)
  PROVE  Rest'
<1>1. svc[i].pc = "anchor" /\ UNCHANGED <<generations, claims, launches>> /\ lease = i
  BY HeadEffect DEF world, TypeInv
<1>2. PICK s \in Service : Moves(i, s) /\ s.pc = "promote" /\ s.fresh = svc[i].fresh
  BY HeadEffect
<1>3. svc'[i] = s /\ \A k \in Services \ {i} : svc'[k] = svc[k]
  BY <1>2, BecomesOnly DEF Moves
<1>4. BackedInv' /\ WholeInv'
  <2>1. generations[Len(generations)].ok
    BY <1>1 DEF Rest, WholeInv, Files
  <2> QED BY <1>1, <2>1 DEF Rest, BackedInv, WholeInv
<1>5. KnowsLaunches(s) /\ s.fresh
  BY <1>1, <1>2 DEF Rest, KnowInv, KnowsLaunches, Moves, Files
<1>6. s.mem = svc[i].mem /\ s.todo = svc[i].todo /\ s.then = svc[i].then /\ s.pc \in Files
      /\ s.pc # "prune"
  BY <1>2 DEF Moves, Files
<1>7. \A j \in Jobs : s.mem.jobs[j] \in Claimed => <<j, s.mem.jobs[j]>> \in claims
  BY <1>1, <1>6 DEF Rest, SaveInv, SaveOk, Stored, Checked, Files
<1> QED BY <1>1, <1>3, <1>4, <1>5, <1>6, <1>7, WriteRest

\* Nothing was launched that this service does not know: its state was fresh
\* when it was checked, or it knows it because it claimed it itself.
LEMMA StateRest ==
  ASSUME TypeInv, Rest, NEW i \in Services, PromoteState(i)
  PROVE  Rest'
<1>1. svc[i].pc = "promote" /\ UNCHANGED <<generations, claims, launches>> /\ lease = i
  BY StateEffect DEF world, TypeInv
<1>2. /\ svc'[i].pc = "prune" /\ svc'[i].mem = svc[i].mem /\ svc'[i].fresh
      /\ svc'[i].todo = svc[i].todo /\ svc'[i].then = svc[i].then
      /\ \A k \in Services \ {i} :
           svc'[k].pc = svc[k].pc /\ svc'[k].mem = svc[k].mem /\ ~svc'[k].fresh
  BY StateEffect
<1>3. BackedInv' /\ WholeInv'
  <2>1. generations[Len(generations)].ok
    BY <1>1 DEF Rest, WholeInv, Files
  <2> QED BY <1>1, <2>1 DEF Rest, BackedInv, WholeInv
<1>4. KnowsLaunches(svc'[i]) /\ svc'[i].fresh
  <2>1. svc[i].fresh /\ KnowsLaunches(svc[i])
    BY <1>1 DEF Rest, KnowInv, Files
  <2> QED BY <1>2, <2>1 DEF KnowsLaunches
<1>5. \A j \in Jobs : svc[i].mem.jobs[j] \in Claimed => <<j, svc[i].mem.jobs[j]>> \in claims
  BY <1>1 DEF Rest, SaveInv, SaveOk, Stored, Checked, Files
<1>6. "prune" \in Files
  BY DEF Files
<1> QED BY <1>1, <1>2, <1>3, <1>4, <1>5, <1>6, WriteRest

LEMMA PruneRest ==
  ASSUME TypeInv, Rest, NEW i \in Services, Prune(i)
  PROVE  Rest'
<1>1. svc[i].pc = "prune" /\ lease = i /\ UNCHANGED <<claims, launches>> /\ Pruned
  BY PruneEffect DEF Rest, world, TypeInv
<1>2. PICK s \in Service :
        /\ Moves(i, s) \/ (s.pc = "idle" /\ Becomes(i, s))
        /\ s.pc = "idle" \/ s.pc = svc[i].then
        /\ s.mem = svc[i].mem /\ s.fresh = svc[i].fresh
  BY PruneEffect DEF Rest
<1>3. svc'[i] = s /\ \A k \in Services \ {i} : svc'[k] = svc[k] /\ svc[k].pc \in {"down", "idle"}
  <2>1. Becomes(i, s) /\ svc[i].pc \notin {"down", "idle"}
    BY <1>1, <1>2 DEF Moves
  <2> QED BY <2>1, OneTick, BecomesOnly
<1>4. s.pc \in {"idle", "eval", "launch", "sleep"} /\ (s.pc = "launch" => Moves(i, s) /\ svc[i].then = "launch")
      /\ s.pc \notin Files \cup {"claims", "check", "run"}
  BY <1>2, ServiceFields DEF TypeInv, Files
<1>5. WholeInv'
  BY <1>3, <1>4 DEF WholeInv, Files
<1>6. BackedInv'
  <2> SUFFICES ASSUME NEW k \in 1 .. Len(generations'), NEW j \in Jobs, generations'[k].state.jobs[j] \in Claimed
               PROVE  <<j, generations'[k].state.jobs[j]>> \in claims'
    BY DEF BackedInv
  <2>1. PICK l \in 1 .. Len(generations) : generations'[k] = generations[l]
    BY <1>1 DEF Pruned
  <2> QED BY <1>1, <2>1 DEF Rest, BackedInv
<1>7. AnswerInv'
  BY <1>1 DEF Rest, AnswerInv
<1>8. SaveInv'
  <2>1. SaveOk(svc[i]) /\ svc[i].pc \in Checked /\ svc[i].pc \in Stored
    BY <1>1 DEF Rest, SaveInv, Checked, Stored, Files
  <2>2. SaveOk(s)
    BY <1>2, <2>1 DEF SaveOk
  <2> SUFFICES ASSUME NEW k \in Services PROVE SaveOk(svc[k])'
    BY DEF SaveInv
  <2>3. SaveOk(svc'[k])
    BY <1>3, <2>2 DEF Rest, SaveInv
  <2> QED BY <1>1, <2>3 DEF SaveOk
<1>9. StartInv'
  <2> SUFFICES ASSUME NEW k \in Services PROVE StartOk(svc[k])'
    BY DEF StartInv
  <2>1. CASE k # i
    BY <1>3, <2>1 DEF StartOk, Starting, Files
  <2>2. CASE k = i /\ s.pc # "launch"
    BY <1>3, <1>4, <2>2 DEF StartOk, Starting
  <2>3. CASE k = i /\ s.pc = "launch"
    <3>1. StartOk(svc[i]) /\ Starting(svc[i]) /\ svc[i].pc # "check"
      BY <1>1, <1>4, <2>3 DEF Rest, StartInv, Starting, Files
    <3>2. s.mem = svc[i].mem /\ s.todo = svc[i].todo
      BY <1>4, <2>3 DEF Moves
    <3> QED BY <1>1, <1>3, <2>3, <3>1, <3>2 DEF StartOk
  <2> QED BY <2>1, <2>2, <2>3
<1>10. HonestInv'
  <2>1. \A k \in Services : svc'[k].mem = svc[k].mem
    BY <1>2, <1>3
  <2>2. \A k \in Services, j \in Jobs : svc'[k].mem.jobs[j] = "COMPLETED" => launches[j] > 0
    BY <2>1 DEF Rest, HonestInv
  <2> QED BY <1>1, <2>2 DEF Rest, HonestInv
<1>11. KnowInv'
  <2>1. \A k \in Services : svc'[k].mem = svc[k].mem /\ svc'[k].fresh = svc[k].fresh
    BY <1>2, <1>3
  <2>2. \A k \in Services : KnowsLaunches(svc[k])'
    BY <1>1, <2>1 DEF Rest, KnowInv, KnowsLaunches
  <2>3. ASSUME NEW l \in Services, NEW k \in Services, svc'[l].pc \in {"prune", "launch"}, k # l, svc'[k].fresh
        PROVE  KnowsClaims(svc[k])'
    <3>1. l = i
      BY <1>3, <2>3
    <3>2. KnowsClaims(svc[k])
      BY <1>1, <2>1, <2>3, <3>1 DEF Rest, KnowInv
    <3> QED BY <1>1, <2>1, <3>2 DEF KnowsClaims
  <2>4. \A k \in Services : svc'[k].pc \notin Files \cup {"claims"}
    BY <1>3, <1>4 DEF Files
  <2> QED BY <2>2, <2>3, <2>4 DEF KnowInv
<1> QED BY <1>5, <1>6, <1>7, <1>8, <1>9, <1>10, <1>11 DEF Rest

LEMMA CrashRest ==
  ASSUME TypeInv, Rest, NEW i \in Services, ServiceCrashes(i)
  PROVE  Rest'
<1>1. CASE generations' = generations
  BY <1>1, CrashEffect, LeavesRest
<1>2. CASE generations' # generations
  <2> DEFINE g == [ok |-> FALSE, state |-> svc[i].mem]
  <2>1. /\ Leaves(i) /\ UNCHANGED <<launches, claims>> /\ svc[i].pc = "claims"
        /\ \A j \in Jobs : svc[i].mem.jobs[j] \in Claimed => <<j, svc[i].mem.jobs[j]>> \in claims
        /\ generations' = Append(generations, g)
    BY <1>2, CrashEffect
  <2>2. g \in Generation /\ g.state = svc[i].mem
    BY ServiceFields DEF Generation, TypeInv
  <2> HIDE DEF g
  <2>3. BackedInv'
    BY <2>1, <2>2, AppendBacked DEF Rest
  <2>4. Down.pc = "down" /\ ~Down.fresh /\ \A j \in Jobs : Down.mem.jobs[j] = "none"
    BY DEF Down, State
  <2>5. svc'[i] = Down /\ \A k \in Services \ {i} : svc'[k] = svc[k] /\ svc[k].pc \in {"down", "idle"}
    BY <2>1, OneTick, BecomesOnly DEF Leaves
  <2>6. \A k \in Services : svc'[k].pc \in {"down", "idle"}
    BY <2>4, <2>5
  <2>7. WholeInv' /\ AnswerInv' /\ SaveInv' /\ StartInv'
    BY <2>1, <2>6 DEF Rest, WholeInv, AnswerInv, SaveInv, SaveOk, StartInv, StartOk, Starting, Checked, Stored, Files
  <2>8. HonestInv'
    <3>1. ASSUME NEW k \in Services, NEW j \in Jobs, svc'[k].mem.jobs[j] = "COMPLETED"
          PROVE  launches[j] > 0
      <4>1. k # i
        BY <2>4, <2>5, <3>1
      <4> QED BY <2>5, <3>1, <4>1 DEF Rest, HonestInv
    <3> QED BY <2>1, <3>1 DEF Rest, HonestInv
  <2>9. KnowInv'
    <3>1. ASSUME NEW k \in Services
          PROVE  KnowsLaunches(svc[k])'
      <4>1. CASE k = i
        BY <2>4, <2>5, <4>1 DEF KnowsLaunches
      <4>2. CASE k # i
        BY <2>1, <2>5, <4>2 DEF Rest, KnowInv, KnowsLaunches
      <4> QED BY <4>1, <4>2
    <3> QED BY <2>6, <3>1 DEF KnowInv, Files
  <2> QED BY <2>3, <2>7, <2>8, <2>9 DEF Rest
<1> QED BY <1>1, <1>2

LEMMA AmbientRest ==
  ASSUME TypeInv, Rest, Ambient
  PROVE  Rest'
<1>1. UNCHANGED <<launches, claims, lease>>
      /\ Len(generations') = Len(generations)
      /\ \A k \in 1 .. Len(generations) : generations'[k].state = generations[k].state
  BY DEF Ambient
<1>2. \A i \in Services :
       /\ svc'[i].pc = svc[i].pc /\ svc'[i].mem = svc[i].mem /\ svc'[i].todo = svc[i].todo
       /\ svc'[i].then = svc[i].then /\ (svc'[i].fresh => svc[i].fresh)
  BY DEF Ambient
<1>3. UNCHANGED <<generations, svc>> \/ \A i \in Services : svc[i].pc \notin Files \cup {"claims"}
  BY DEF Ambient
<1>4. WholeInv'
  BY <1>2, <1>3 DEF Rest, WholeInv
<1>5. BackedInv' /\ AnswerInv'
  BY <1>1 DEF Rest, BackedInv, AnswerInv
<1>6. SaveInv'
  <2> SUFFICES ASSUME NEW k \in Services PROVE SaveOk(svc[k])'
    BY DEF SaveInv
  <2>1. SaveOk(svc[k])
    BY DEF Rest, SaveInv
  <2> QED BY <1>1, <1>2, <2>1 DEF SaveOk
<1>7. StartInv'
  <2> SUFFICES ASSUME NEW k \in Services PROVE StartOk(svc[k])'
    BY DEF StartInv
  <2>1. StartOk(svc[k])
    BY DEF Rest, StartInv
  <2>2. Starting(svc[k])' <=> Starting(svc[k])
    BY <1>2 DEF Starting
  <2> QED BY <1>1, <1>2, <2>1, <2>2 DEF StartOk
<1>8. HonestInv'
  <2>1. \A k \in Services, j \in Jobs : svc'[k].mem.jobs[j] = "COMPLETED" => launches[j] > 0
    BY <1>2 DEF Rest, HonestInv
  <2> QED BY <1>1, <2>1 DEF Rest, HonestInv
<1>9. KnowInv'
  <2>1. \A k \in Services : KnowsLaunches(svc[k])'
    BY <1>1, <1>2 DEF Rest, KnowInv, KnowsLaunches
  <2>2. \A k \in Services : svc'[k].pc \in Files \cup {"claims"} => svc'[k].fresh
    BY <1>2, <1>3 DEF Rest, KnowInv
  <2>3. \A l, k \in Services :
          svc'[l].pc \in {"prune", "launch"} /\ k # l /\ svc'[k].fresh => KnowsClaims(svc[k])'
    BY <1>1, <1>2 DEF Rest, KnowInv, KnowsClaims
  <2> QED BY <2>1, <2>2, <2>3 DEF KnowInv
<1> QED BY <1>4, <1>5, <1>6, <1>7, <1>8, <1>9 DEF Rest

-----------------------------------------------------------------------------
\* One case per action.
LEMMA Step ==
  ASSUME TypeInv, Rest, [Next]_vars
  PROVE  TypeInv' /\ Rest'
<1>1. ASSUME NEW i \in Services, ServiceStep(i)
      PROVE  TypeInv' /\ Rest'
  <2>1. CASE Load(i)
    BY <2>1, LoadEffect, LoadRest DEF Rest
  <2>2. CASE BeginTick(i)
    BY <2>2, BeginTickEffect, BeginTickRest
  <2>3. CASE LeaseTimeout(i)
    <3>1. Leaves(i) /\ Same /\ UNCHANGED <<generations, claims, launches>>
      BY <2>3, ExitsLeaves DEF LeaseTimeout, Same, world, store, TypeInv
    <3> QED BY <3>1, LeavesType, LeavesRest
  <2>4. CASE Evaluate(i) \/ EndOfTick(i)
    BY <2>4, EvaluateThinks, ThinksType, ThinksRest
  <2>5. CASE LaunchJob(i)
    BY <2>5, LaunchEffect, LaunchRest DEF Rest
  <2>6. CASE JobEnds(i)
    BY <2>6, EndsEffect, EndsRest DEF Rest
  <2>7. CASE SaveChecks(i)
    BY <2>7, ChecksEffect, ChecksRest DEF Rest
  <2>8. CASE WriteClaim(i)
    BY <2>8, ClaimEffect, ClaimRest
  <2>9. CASE Retain(i)
    BY <2>9, RetainEffect, RetainRest
  <2>10. CASE PromoteHead(i)
    BY <2>10, HeadEffect, HeadRest
  <2>11. CASE PromoteState(i)
    BY <2>11, StateEffect, StateRest
  <2>12. CASE Prune(i)
    BY <2>12, PruneEffect, PruneRest DEF Rest
  <2> QED
    BY <1>1, <2>1, <2>2, <2>3, <2>4, <2>5, <2>6, <2>7, <2>8, <2>9, <2>10, <2>11, <2>12
    DEF ServiceStep, Save
<1>2. ASSUME NEW i \in Services, ServiceCrashes(i)
      PROVE  TypeInv' /\ Rest'
  BY <1>2, CrashEffect, CrashRest
<1>3. CASE \/ TimePasses \/ Damage \/ \E i \in Services : LoadCrashes(i)
         \/ \E i \in Services, j \in Jobs : ReplaceManifest(i, j)
  <2>1. Ambient
    BY <1>3, AmbientEffect
  <2> QED BY <2>1, AmbientRest DEF Ambient
<1>4. CASE UNCHANGED vars
  <2>1. Ambient
    <3>1. UNCHANGED <<clock, enabled, launches, late, faults, generations, head, current,
                      claims, unreadable, copied, lease, svc>>
      BY <1>4 DEF vars, world, store
    <3>2. TypeInv'
      BY <3>1 DEF TypeInv
    <3>3. \A i \in Services : svc[i].fresh \in BOOLEAN
      BY ServiceFields DEF TypeInv
    <3> QED BY <3>1, <3>2, <3>3 DEF Ambient
  <2> QED BY <2>1, AmbientRest DEF Ambient
<1> QED BY <1>1, <1>2, <1>3, <1>4 DEF Next

LEMMA Invariant == Spec => []IInv
<1>1. Init => IInv
  BY InitType, InitRest DEF IInv
<1>2. IInv /\ [Next]_vars => IInv'
  BY Step DEF IInv
<1> QED BY <1>1, <1>2, PTL DEF Spec

-----------------------------------------------------------------------------
(* The theorems.                                                           *)

\* Type correctness: the head and the state file always name a retained
\* generation, and only the holder of the lease is inside a tick.
THEOREM TypeCorrect == Spec => []TypeOK
<1>1. ASSUME TypeInv
      PROVE  TypeOK
  <2>1. \A k \in 1 .. Len(generations) :
          generations[k].ok \in BOOLEAN /\ generations[k].state \in States
    <3> TAKE k \in 1 .. Len(generations)
    <3>1. generations \in Seq(Generation)
      BY <1>1 DEF TypeInv
    <3>2. generations[k] \in Generation
      BY <3>1
    <3> QED BY <3>2 DEF Generation
  <2>2. current.at \in 1 .. Len(generations)
    BY <1>1 DEF TypeInv
  <2>3. \A i \in Services : svc[i].pc \in Locations /\ svc[i].mem \in States /\ svc[i].own \subseteq Jobs
    BY <1>1, ServiceFields DEF TypeInv
  <2> QED BY <1>1, <2>1, <2>2, <2>3 DEF TypeInv, TypeOK
<1> QED BY <1>1, Invariant, PTL DEF IInv

\* No crash, stale service or damage makes the store say two things of a job.
THEOREM StoreAgrees == Spec => []NeverContradicts
<1>1. IInv => NeverContradicts
  BY NoConflict DEF IInv, Rest, NeverContradicts
<1> QED BY <1>1, Invariant, PTL

\* A launched job's dependency is COMPLETED in the store, before and ever after.
THEOREM DependencyFirst == Spec => []LaunchedAfterDependency
<1>1. ASSUME IInv
      PROVE  LaunchedAfterDependency
  <2> SUFFICES ASSUME NEW j \in Jobs, launches[j] > 0, Dependency[j] # None
               PROVE  Merged(Dependency[j]) = "COMPLETED"
    BY DEF LaunchedAfterDependency
  <2>1. <<Dependency[j], "COMPLETED">> \in claims /\ Dependency[j] \in Jobs
    BY <1>1 DEF IInv, Rest, HonestInv
  <2> QED BY <1>1, <2>1, MergedIsClaimed DEF IInv, Rest, FinalJobStates
<1> QED BY <1>1, Invariant, PTL

-----------------------------------------------------------------------------
(* The refinement of JobLedger.                                            *)

\* What a load would read of every job is a function of the claims.
Reads ==
  \A j \in Jobs :
    /\ \A s \in FinalJobStates : <<j, s>> \in claims => Merged(j) = s
    /\ Merged(j) \in FinalJobStates => <<j, Merged(j)>> \in claims
    /\ Merged(j) = "open" <=> \A s \in Claimed : <<j, s>> \notin claims
    /\ Merged(j) = "RUNNING" =>
         <<j, "RUNNING">> \in claims /\ \A s \in FinalJobStates : <<j, s>> \notin claims
    /\ Merged(j) \in Claimed \cup {"open"}

LEMMA InvariantReads == IInv => Reads
BY MergedIsClaimed DEF IInv, Rest, Reads

\* A step that claims nothing changes nothing of what a load would read.
LEMMA SameClaims ==
  ASSUME Reads, Reads', NEW j \in Jobs, \A s \in Claimed : <<j, s>> \in claims' <=> <<j, s>> \in claims
  PROVE  Merged(j)' = Merged(j)
<1> DEFINE m == Merged(j)
           n == Merged(j)'
<1>1. /\ m \in Claimed \cup {"open"} /\ n \in Claimed \cup {"open"}
      /\ m \in FinalJobStates => <<j, m>> \in claims
      /\ \A s \in FinalJobStates : <<j, s>> \in claims' => n = s
      /\ m = "open" <=> \A s \in Claimed : <<j, s>> \notin claims
      /\ n = "open" <=> \A s \in Claimed : <<j, s>> \notin claims'
      /\ m = "RUNNING" => <<j, "RUNNING">> \in claims /\ \A s \in FinalJobStates : <<j, s>> \notin claims
      /\ n \in FinalJobStates => <<j, n>> \in claims'
  BY DEF Reads
<1> HIDE DEF m, n
<1>2. m \in FinalJobStates => n = m
  BY <1>1 DEF Claimed
<1>3. m = "RUNNING" => n = m
  <2> SUFFICES ASSUME m = "RUNNING" PROVE n = m
    OBVIOUS
  <2>1. n # "open" /\ n \notin FinalJobStates
    BY <1>1 DEF Claimed
  <2> QED BY <1>1, <2>1 DEF Claimed
<1>4. m = "open" => n = m
  BY <1>1
<1>5. n = m
  BY <1>1, <1>2, <1>3, <1>4 DEF Claimed
<1> QED BY <1>5 DEF m, n

LEMMA LedgerStays ==
  ASSUME Reads, Reads', UNCHANGED <<claims, launches>>
  PROVE  UNCHANGED <<Authority, launches>>
BY SameClaims DEF Authority

LEMMA ClaimRefines ==
  ASSUME IInv, Reads, Reads', NEW i \in Services, WriteClaim(i)
  PROVE  Ledger!Next
<1>1. PICK j \in Jobs : /\ svc[i].mem.jobs[j] \in Claimed
                        /\ <<j, svc[i].mem.jobs[j]>> \notin claims
                        /\ claims' = claims \cup {<<j, svc[i].mem.jobs[j]>>}
  BY ClaimEffect DEF IInv
<1> DEFINE r == svc[i].mem.jobs[j]
<1>2. svc[i].pc = "claims" /\ launches' = launches
  BY ClaimEffect DEF IInv, world
<1>3. \A t \in FinalJobStates : <<j, t>> \notin claims
  <2>1. \A t \in FinalJobStates : <<j, t>> \in claims => r = t
    BY <1>2 DEF IInv, Rest, SaveInv, SaveOk, Checked
  <2> QED BY <1>1, <2>1
<1>4. r = "COMPLETED" => launches[j] > 0
  BY DEF IInv, Rest, HonestInv
<1> HIDE DEF r
<1>5. claims' = claims \cup {<<j, r>>} /\ r \in Claimed /\ <<j, r>> \notin claims
  BY <1>1 DEF r
<1>6. \A k \in Jobs \ {j} : Merged(k)' = Merged(k)
  BY <1>5, SameClaims
<1>7. Merged(j) \notin FinalJobStates
  BY <1>3 DEF Reads
<1>8. CASE r = "RUNNING"
  <2>1. Merged(j) = "open"
    BY <1>3, <1>5, <1>8 DEF Reads, Claimed
  <2>2. Merged(j)' # "open" /\ Merged(j)' \notin FinalJobStates
    BY <1>3, <1>5, <1>8 DEF Reads, Claimed, FinalJobStates
  <2>3. Merged(j)' = "RUNNING"
    BY <2>2 DEF Reads, Claimed
  <2>4. Authority' = [Authority EXCEPT ![j] = "RUNNING"] /\ Authority[j] = "open"
    BY <1>6, <2>1, <2>3 DEF Authority
  <2> QED BY <1>2, <2>4 DEF Ledger!Next, Ledger!Claim
<1>9. CASE r \in FinalJobStates
  <2>1. Merged(j)' = r
    BY <1>5, <1>9 DEF Reads
  <2>2. Authority' = [Authority EXCEPT ![j] = r] /\ Authority[j] \notin FinalJobStates
    BY <1>6, <1>7, <2>1 DEF Authority
  <2> QED BY <1>2, <1>4, <1>9, <2>2 DEF Ledger!Next, Ledger!Answer
<1> QED BY <1>5, <1>8, <1>9 DEF Claimed

LEMMA LaunchRefines ==
  ASSUME IInv, Reads, Reads', NEW i \in Services, LaunchJob(i)
  PROVE  Ledger!Next
<1> DEFINE j == Head(svc[i].todo)
<1>1. svc[i].pc = "launch" /\ claims' = claims /\ launches' = [launches EXCEPT ![j] = @ + 1]
  BY DEF LaunchJob, At, store
<1>2. j \in Jobs
  BY LaunchEffect DEF IInv, Rest
<1>3. svc[i].mem.jobs[j] = "RUNNING" /\ (j \notin Recovering => launches[j] = 0)
  BY <1>1 DEF IInv, Rest, StartInv, StartOk, Starting
<1>4. SaveOk(svc[i]) /\ svc[i].pc \in Checked /\ svc[i].pc \in Stored
  BY <1>1 DEF IInv, Rest, SaveInv, Checked, Stored, Files
<1> HIDE DEF j
<1>5. <<j, "RUNNING">> \in claims /\ \A t \in FinalJobStates : <<j, t>> \notin claims
  BY <1>2, <1>3, <1>4 DEF SaveOk, Claimed, FinalJobStates
<1>6. Merged(j) = "RUNNING"
  BY <1>2, <1>5 DEF Reads, Claimed
<1>7. Authority' = Authority /\ Authority[j] = "RUNNING"
  BY <1>1, <1>2, <1>6, SameClaims DEF Authority
<1> QED BY <1>1, <1>2, <1>3, <1>7 DEF Ledger!Next, Ledger!Launch

\* The supervisor and its store implement JobLedger: a claim file is the claim
\* or the answer, the start of a process the launch, every other step a stutter.
THEOREM RefinesJobLedger == Spec => LedgerSpec
<1>1. Init => Ledger!Init
  <2> SUFFICES ASSUME Init PROVE Ledger!Init
    OBVIOUS
  <2>1. IInv
    BY InitType, InitRest DEF IInv
  <2>2. Reads /\ claims = {} /\ launches = [j \in Jobs |-> 0]
    BY <2>1, InvariantReads DEF Init
  <2>3. \A j \in Jobs : Merged(j) = "open"
    BY <2>2 DEF Reads
  <2> QED BY <2>2, <2>3 DEF Ledger!Init, Authority
<1>2. ASSUME IInv, Reads, Reads', [Next]_vars
      PROVE  [Ledger!Next]_<<Authority, launches>>
  <2>1. ASSUME NEW i \in Services, ServiceStep(i)
        PROVE  [Ledger!Next]_<<Authority, launches>>
    <3>1. CASE WriteClaim(i)
      BY <1>2, <3>1, ClaimRefines
    <3>2. CASE LaunchJob(i)
      BY <1>2, <3>2, LaunchRefines
    <3>3. CASE Evaluate(i) \/ EndOfTick(i)
      <4>1. UNCHANGED <<claims, launches>>
        BY <1>2, <3>3, EvaluateThinks DEF Thinks, store, IInv
      <4> QED BY <1>2, <4>1, LedgerStays
    <3>4. CASE \/ Load(i) \/ BeginTick(i) \/ LeaseTimeout(i) \/ JobEnds(i) \/ SaveChecks(i)
               \/ Retain(i) \/ PromoteHead(i) \/ PromoteState(i) \/ Prune(i)
      <4>1. UNCHANGED <<claims, launches>>
        BY <3>4 DEF Load, BeginTick, LeaseTimeout, JobEnds, SaveChecks, Retain, PromoteHead,
                    PromoteState, Prune, world, store
      <4> QED BY <1>2, <4>1, LedgerStays
    <3> QED BY <2>1, <3>1, <3>2, <3>3, <3>4 DEF ServiceStep, Save
  <2>2. ASSUME NEW i \in Services, ServiceCrashes(i)
        PROVE  [Ledger!Next]_<<Authority, launches>>
    <3>1. UNCHANGED <<claims, launches>>
      BY <1>2, <2>2, CrashEffect DEF IInv
    <3> QED BY <1>2, <3>1, LedgerStays
  <2>3. CASE \/ TimePasses \/ Damage \/ \E i \in Services : LoadCrashes(i)
         \/ \E i \in Services, j \in Jobs : ReplaceManifest(i, j)
    <3>1. UNCHANGED <<claims, launches>>
      BY <1>2, <2>3, AmbientEffect DEF Ambient, IInv
    <3> QED BY <1>2, <3>1, LedgerStays
  <2>4. CASE UNCHANGED vars
    <3>1. UNCHANGED <<claims, launches>>
      BY <2>4 DEF vars, world, store
    <3> QED BY <1>2, <3>1, LedgerStays
  <2> QED BY <1>2, <2>1, <2>2, <2>3, <2>4 DEF Next
<1>3. Spec => []Reads
  BY Invariant, InvariantReads, PTL
<1> QED BY <1>1, <1>2, <1>3, Invariant, PTL DEF Spec, LedgerSpec, Ledger!Spec
=============================================================================
