------------------------ MODULE AutomationSupervisor ------------------------
(***************************************************************************)
(* The automation supervisor and the store of its receipts.              *)
(*                                                                       *)
(* A tick of the service evaluates every job of the manifest against the *)
(* clock and runs the due ones, one after the other, inside the tick. The*)
(* receipt is saved as RUNNING before a process is launched and as terminal*)
(* after it has ended. A save is a sequence of durable writes: claims, a *)
(* generation, the admission head, the state file. A service may die     *)
(* between any two of them; any exception ends its process, and Windows  *)
(* starts it again. Two services may be loaded at once; a lease admits one*)
(* tick at a time.                                                       *)
(***************************************************************************)
EXTENDS Integers, Sequences, FiniteSets

CONSTANTS
  Services,        \* processes that load the same state file
  Jobs,
  Order,           \* the jobs in the order in which a tick evaluates them
  Kind,            \* job -> kind
  Scheduled, Latest, \* job -> first and last time at which it may start
  Dependency,      \* job -> the job it depends on, or None
  None,            \* no job, no service
  RetainedGenerations,
  MaxTime,         \* bound: the clock
  MaxFaults,       \* bound: crashes, damaged files, edits of the manifest
  MaxLaunches      \* bound: launches of a job that may be relaunched

ASSUME SupervisorAssumption ==
  /\ None \notin Jobs /\ None \notin Services
  /\ Order \in Seq(Jobs) /\ \A j \in Jobs : \E k \in 1 .. Len(Order) : Order[k] = j
  /\ \A j \in Jobs : Dependency[j] \in Jobs \cup {None}
  /\ Scheduled \in [Jobs -> 1 .. MaxTime] /\ Latest \in [Jobs -> 1 .. MaxTime]
  /\ RetainedGenerations \in Nat \ {0} /\ MaxLaunches \in Nat \ {0}
  /\ MaxTime \in Nat /\ MaxFaults \in Nat

FinalJobStates == {"COMPLETED", "FAILED", "MISSED", "BLOCKED_DEPENDENCY", "DISABLED"}
Claimed == FinalJobStates \cup {"RUNNING"}
Statuses == Claimed \cup {"none", "PENDING"}

Recovering == {j \in Jobs : Kind[j] = "paper_engineering"}
EngineHostRequired == {j \in Jobs : Kind[j] \in {"nonmarket_canary", "shadow_opening"}}
Gated == {j \in Jobs : Kind[j] \in {"opening_capture", "runtime_identity_canary"}}

VARIABLES
  clock,
  enabled,         \* the jobs the manifest enables
  generations,     \* retained generations, oldest first: [ok, state]
  head,            \* the generation the admission head names
  current,         \* the generation the state file equals: [ok, at]
  claims,          \* pairs of a job and a RUNNING or terminal status
  unreadable,      \* a claim, the head or a custody copy is not what was written
  copied,          \* every damaged file has its copy in custody
  lease,           \* the service inside a tick
  svc,             \* the services
  launches, late,  \* history: launches of a job; jobs decided on after their window
  faults

store == <<generations, head, current, claims, unreadable, copied>>
world == <<clock, enabled, launches, late, faults>>
vars == <<world, store, lease, svc>>

-----------------------------------------------------------------------------
(* What the files say.                                                     *)

State(receipts, floor) == [jobs |-> receipts, floor |-> floor]
Later(a, b) == IF a > b THEN a ELSE b

Readable == {k \in 1 .. Len(generations) : generations[k].ok}
Candidates == Readable \cup (IF current.ok THEN {current.at} ELSE {})

Newest == CHOOSE k \in Candidates : \A l \in Candidates : l <= k
Selected == generations[Newest].state

\* _merge_receipt of every claim and of every candidate's claimed receipts.
Evidence(j) ==
  {s \in Claimed : <<j, s>> \in claims}
    \cup ({generations[k].state.jobs[j] : k \in Candidates} \cap Claimed)

Merged(j) ==
  LET evidence == Evidence(j)
      final == evidence \cap FinalJobStates
  IN  IF final # {} THEN CHOOSE s \in final : TRUE
      ELSE IF evidence # {} THEN "RUNNING" ELSE "open"

Authority == [j \in Jobs |-> Merged(j)]

\* (A receipt that differs in another field is refused by HistoryKept before.)
Conflict == \E j \in Jobs : Cardinality(Evidence(j) \cap FinalJobStates) > 1

\* Every load and every save raises on a claim, a head or a custody copy that
\* does not read as it was written.
Admissible == Candidates # {} /\ ~unreadable /\ ~Conflict

Loaded ==
  [j \in Jobs |-> IF Merged(j) = "open" THEN Selected.jobs[j] ELSE Merged(j)]

\* The floor is raised when the state file is not the one the head admitted.
LoadedFloor ==
  LET recovered == ~current.ok \/ Newest # current.at \/ Newest # head \/ Loaded # Selected.jobs
      admitted == current.ok /\ current.at = head
  IN  IF recovered /\ ~admitted THEN Later(clock, Selected.floor) ELSE Selected.floor

-----------------------------------------------------------------------------
(* A service.                                                               *)

Down == [pc |-> "down", mem |-> State([j \in Jobs |-> "none"], 0), fresh |-> FALSE,
         todo |-> <<>>, now |-> 0, own |-> {}, then |-> "eval"]

Set(i, s) == svc' = [svc EXCEPT ![i] = s]
At(i, pc) == svc[i].pc = pc
Goto(i, pc) == svc' = [svc EXCEPT ![i].pc = pc]

\* Mutant: the lease of a dead service is never released.
ExitsHoldingLease(i) ==
  /\ Set(i, Down)
  /\ UNCHANGED lease

Exits(i) ==
  /\ Set(i, Down)
  /\ lease' = IF lease = i THEN None ELSE lease

\* Reading a damaged file copies it into custody, once.
Load(i) ==
  /\ At(i, "down") /\ Admissible
  /\ Set(i, [Down EXCEPT !.pc = "idle", !.mem = State(Loaded, LoadedFloor), !.fresh = TRUE])
  /\ copied' = TRUE
  /\ UNCHANGED <<world, generations, head, current, claims, unreadable, lease>>

BeginTick(i) ==
  /\ At(i, "idle") /\ lease = None
  /\ IF svc[i].fresh
     THEN lease' = i /\ Set(i, [svc[i] EXCEPT !.pc = "eval", !.todo = Order])
     ELSE Exits(i)
  /\ UNCHANGED <<world, store>>

LeaseTimeout(i) ==
  /\ At(i, "idle") /\ lease # None
  /\ Exits(i)
  /\ UNCHANGED <<world, store>>

\* The engine host jobs and the reviews share one reading of the clock.
Group(j) ==
  CASE Kind[j] = "opening_capture" -> 1
    [] Kind[j] = "runtime_identity_canary" -> 2
    [] Kind[j] = "successor_setup_pass1" -> 3
    [] Kind[j] = "paper_engineering" -> 4
    [] Kind[j] = "successor_setup_pass2" -> 5
    [] OTHER -> 6

FirstOfGroup(j) ==
  LET k == CHOOSE k \in 1 .. Len(Order) : Order[k] = j
  IN  k = 1 \/ Group(Order[k - 1]) # Group(j)

Evaluates(i, j) == At(i, "eval") /\ svc[i].todo # <<>> /\ j = Head(svc[i].todo)

Now(i, j) == IF FirstOfGroup(j) THEN clock ELSE svc[i].now
Receipt(i, j) == svc[i].mem.jobs[j]

Quarantined(i, j) ==
  /\ svc[i].mem.floor > 0 /\ Scheduled[j] <= svc[i].mem.floor
  /\ Receipt(i, j) \in {"none", "PENDING"}

Done(i, j) == [svc[i] EXCEPT !.todo = Tail(@), !.now = Now(i, j)]

Records(i, j, status) ==
  [Done(i, j) EXCEPT !.mem.jobs[j] = status, !.own = @ \cup {j}]

Saves(s, then) == [s EXCEPT !.pc = "check", !.then = then]

PassOver(i, j) ==
  /\ Evaluates(i, j)
  /\ \/ Receipt(i, j) \in FinalJobStates
     \/ Quarantined(i, j)
     \/ /\ j \in enabled /\ Receipt(i, j) = "PENDING"
        /\ Now(i, j) < Scheduled[j]
  /\ Set(i, Done(i, j))
  /\ UNCHANGED <<world, store, lease>>

Considered(i, j) ==
  Evaluates(i, j) /\ Receipt(i, j) \notin FinalJobStates /\ ~Quarantined(i, j)

Disabled(i, j) ==
  /\ Considered(i, j) /\ j \notin enabled
  /\ Set(i, Records(i, j, "DISABLED"))
  /\ UNCHANGED <<world, store, lease>>

\* A job found RUNNING was interrupted; only the Paper job is launched again.
Interrupted(i, j) ==
  /\ Considered(i, j) /\ j \in enabled
  /\ Receipt(i, j) = "RUNNING" /\ j \notin Recovering
  /\ Set(i, Records(i, j, "FAILED"))
  /\ UNCHANGED <<world, store, lease>>

Open(i, j) ==
  /\ Considered(i, j) /\ j \in enabled
  /\ Receipt(i, j) = "RUNNING" => j \in Recovering

NotYet(i, j) ==
  /\ Open(i, j) /\ Receipt(i, j) = "none" /\ Now(i, j) < Scheduled[j]
  /\ Set(i, Records(i, j, "PENDING"))
  /\ UNCHANGED <<world, store, lease>>

\* Mutant: a job that was PENDING keeps waiting after its window.
MissedUnseen(i, j) ==
  /\ Open(i, j) /\ Receipt(i, j) = "none" /\ Now(i, j) > Latest[j]
  /\ Set(i, Records(i, j, "MISSED"))
  /\ UNCHANGED <<world, store, lease>>

Missed(i, j) ==
  /\ Open(i, j) /\ Receipt(i, j) # "RUNNING" /\ Now(i, j) > Latest[j]
  /\ Set(i, Records(i, j, "MISSED"))
  /\ UNCHANGED <<world, store, lease>>

Due(i, j) ==
  /\ Open(i, j) /\ Now(i, j) >= Scheduled[j]
  /\ Receipt(i, j) = "RUNNING" \/ Now(i, j) <= Latest[j]

EngineHostUnhealthy(i, j) ==
  /\ Due(i, j) /\ j \in EngineHostRequired
  /\ Set(i, Records(i, j, "FAILED"))
  /\ UNCHANGED <<world, store, lease>>

\* Mutant: a dependency that has ended counts as completed.
DependencyEnded(i, j) ==
  IF Dependency[j] = None \/ Receipt(i, Dependency[j]) \in FinalJobStates
  THEN "COMPLETED" ELSE Receipt(i, Dependency[j])

DependencyState(i, j) ==
  IF Dependency[j] = None THEN "COMPLETED" ELSE Receipt(i, Dependency[j])

Waits(i, j) ==
  /\ Due(i, j) /\ DependencyState(i, j) \notin FinalJobStates
  /\ Set(i, IF Receipt(i, j) = "RUNNING" THEN Records(i, j, "PENDING") ELSE Done(i, j))
  /\ UNCHANGED <<world, store, lease>>

Blocked(i, j) ==
  /\ Due(i, j) /\ DependencyState(i, j) \in FinalJobStates \ {"COMPLETED"}
  /\ Set(i, Records(i, j, "BLOCKED_DEPENDENCY"))
  /\ UNCHANGED <<world, store, lease>>

GateRejects(i, j) ==
  /\ Due(i, j) /\ DependencyState(i, j) = "COMPLETED" /\ j \in Gated
  /\ Set(i, Saves(Records(i, j, "FAILED"), "eval"))
  /\ UNCHANGED <<world, store, lease>>

Starts(i, j) ==
  /\ Due(i, j) /\ DependencyState(i, j) = "COMPLETED" /\ launches[j] < MaxLaunches
  /\ Set(i, [Saves(Records(i, j, "RUNNING"), "launch") EXCEPT !.todo = svc[i].todo])
  /\ late' = IF Receipt(i, j) # "RUNNING" /\ clock > Latest[j] THEN late \cup {j} ELSE late
  /\ UNCHANGED <<clock, enabled, launches, faults, store, lease>>

\* The job's process runs inside the tick.
LaunchJob(i) ==
  /\ At(i, "launch") /\ launches' = [launches EXCEPT ![Head(svc[i].todo)] = @ + 1]
  /\ Goto(i, "run")
  /\ UNCHANGED <<clock, enabled, late, faults, store, lease>>

JobEnds(i) ==
  /\ At(i, "run")
  /\ \E s \in {"COMPLETED", "FAILED"} :
       LET j == Head(svc[i].todo) IN
         Set(i, Saves([svc[i] EXCEPT !.todo = Tail(@), !.mem.jobs[j] = s, !.own = @ \cup {j}], "eval"))
  /\ UNCHANGED <<world, store, lease>>

EndOfTick(i) ==
  /\ At(i, "eval") /\ svc[i].todo = <<>>
  /\ Set(i, Saves(svc[i], "sleep"))
  /\ UNCHANGED <<world, store, lease>>

-----------------------------------------------------------------------------
(* DurableStateStorage.save, one durable write after the other.             *)

\* Mutant: a save only refuses to lose receipts, not to rewrite them.
HistoryNotLost(i) ==
  \A j \in Jobs : Merged(j) # "open" => Receipt(i, j) \notin {"none", "PENDING"}

\* Proven history may not be lost, rewritten or rolled back.
HistoryKept(i) ==
  \A j \in Jobs :
    /\ Merged(j) # "open" => Receipt(i, j) \notin {"none", "PENDING"}
    /\ Merged(j) \in FinalJobStates => j \notin svc[i].own /\ Receipt(i, j) = Merged(j)
    /\ \A k \in Candidates : generations[k].state.floor <= svc[i].mem.floor

\* The generation of the current state is retained again, byte for byte.
SaveChecks(i) ==
  /\ At(i, "check")
  /\ IF svc[i].fresh /\ HistoryKept(i) /\ ~Conflict /\ ~unreadable
        /\ (current.ok => generations[current.at].ok)
     THEN Set(i, [svc[i] EXCEPT !.pc = "claims", !.own = {}]) /\ UNCHANGED lease
     ELSE Exits(i)
  /\ copied' = (copied \/ svc[i].fresh)
  /\ UNCHANGED <<world, generations, head, current, claims, unreadable>>

\* Mutant: only the start of a job is claimed, not its end.
UnclaimedStarts(i) ==
  {<<j, "RUNNING">> : j \in {j \in Jobs : Receipt(i, j) = "RUNNING"}} \ claims

Unclaimed(i) ==
  {<<j, Receipt(i, j)>> : j \in {j \in Jobs : Receipt(i, j) \in Claimed}} \ claims

WriteClaim(i) ==
  /\ At(i, "claims") /\ \E c \in Unclaimed(i) : claims' = claims \cup {c}
  /\ UNCHANGED <<world, generations, head, current, unreadable, copied, lease, svc>>

Retain(i) ==
  /\ At(i, "claims") /\ Unclaimed(i) = {}
  /\ generations' = Append(generations, [ok |-> TRUE, state |-> svc[i].mem])
  /\ Goto(i, "anchor")
  /\ UNCHANGED <<world, head, current, claims, unreadable, copied, lease>>

PromoteHead(i) ==
  /\ At(i, "anchor") /\ head' = Len(generations)
  /\ Goto(i, "promote")
  /\ UNCHANGED <<world, generations, current, claims, unreadable, copied, lease>>

\* Mutant: another service does not notice that the state file changed.
PromoteStateUnnoticed(i) ==
  /\ At(i, "promote") /\ current' = [ok |-> TRUE, at |-> Len(generations)]
  /\ Set(i, [svc[i] EXCEPT !.pc = "prune", !.fresh = TRUE])
  /\ UNCHANGED <<world, generations, head, claims, unreadable, copied, lease>>

\* Every other service now holds a state that is not the one on disk.
PromoteState(i) ==
  /\ At(i, "promote") /\ current' = [ok |-> TRUE, at |-> Len(generations)]
  /\ svc' = [k \in Services |-> IF k = i THEN [svc[i] EXCEPT !.pc = "prune", !.fresh = TRUE]
                                ELSE [svc[k] EXCEPT !.fresh = FALSE]]
  /\ UNCHANGED <<world, generations, head, claims, unreadable, copied, lease>>

\* The newest readable generations stay; the head and the state are the newest.
Prune(i) ==
  /\ At(i, "prune")
  /\ LET kept == {k \in Readable :
                    Cardinality({l \in Readable : l > k}) < RetainedGenerations}
         size == Cardinality(kept)
     IN  /\ \E chosen \in [1 .. size -> kept] :
              /\ \A k, l \in 1 .. size : k < l => chosen[k] < chosen[l]
              /\ generations' = [k \in 1 .. size |-> generations[chosen[k]]]
         /\ head' = size /\ current' = [current EXCEPT !.at = size]
  /\ IF svc[i].then = "sleep"
     THEN lease' = None /\ Set(i, [svc[i] EXCEPT !.pc = "idle", !.now = 0, !.then = "eval"])
     ELSE Goto(i, svc[i].then) /\ UNCHANGED lease
  /\ UNCHANGED <<world, claims, unreadable, copied>>

-----------------------------------------------------------------------------
(* The clock, the operator, the jobs' own processes, crashes and damage.    *)

TimePasses ==
  /\ clock < MaxTime /\ clock' = clock + 1
  /\ UNCHANGED <<enabled, launches, late, faults, store, lease, svc>>

Fault == faults < MaxFaults /\ faults' = faults + 1

\* A changed manifest is read between two ticks; a job may be disabled in it.
ReplaceManifest(i, j) ==
  /\ At(i, "idle") /\ j \in enabled /\ Fault
  /\ enabled' = enabled \ {j}
  /\ UNCHANGED <<clock, launches, late, store, lease, svc>>

\* A crash in the middle of a write leaves a part of a custody copy, which the
\* next load or save compares, of a claim, or of a generation.
CopyTorn == ~copied /\ unreadable' = TRUE /\ UNCHANGED <<generations, head, current, claims, copied>>

LoadCrashes(i) ==
  /\ At(i, "down") /\ Fault /\ CopyTorn
  /\ UNCHANGED <<clock, enabled, launches, late, lease, svc>>

ServiceCrashes(i) ==
  /\ ~At(i, "down") /\ Fault /\ Exits(i)
  /\ \/ UNCHANGED store
     \/ At(i, "check") /\ svc[i].fresh /\ CopyTorn
     \/ /\ At(i, "claims") /\ Unclaimed(i) # {} /\ unreadable' = TRUE
        /\ UNCHANGED <<generations, head, current, claims, copied>>
     \/ /\ At(i, "claims") /\ Unclaimed(i) = {} /\ copied' = FALSE
        /\ generations' = Append(generations, [ok |-> FALSE, state |-> svc[i].mem])
        /\ UNCHANGED <<head, current, claims, unreadable>>
  /\ UNCHANGED <<clock, enabled, launches, late>>

StateDamaged ==
  /\ current.ok /\ Fault /\ current' = [current EXCEPT !.ok = FALSE] /\ copied' = FALSE
  /\ svc' = [i \in Services |-> [svc[i] EXCEPT !.fresh = FALSE]]
  /\ UNCHANGED <<clock, enabled, launches, late,
                 generations, head, claims, unreadable, lease>>

GenerationDamaged(k) ==
  /\ generations[k].ok /\ Fault /\ copied' = FALSE
  /\ generations' = [generations EXCEPT ![k].ok = FALSE]
  /\ UNCHANGED <<clock, enabled, launches, late,
                 head, current, claims, unreadable, lease, svc>>

ClaimOrHeadDamaged ==
  /\ ~unreadable /\ Fault /\ unreadable' = TRUE
  /\ UNCHANGED <<clock, enabled, launches, late,
                 generations, head, current, claims, copied, lease, svc>>

-----------------------------------------------------------------------------
\* A state without receipts has been adopted and saved once.
Init ==
  /\ clock = 0 /\ enabled = Jobs /\ faults = 0
  /\ launches = [j \in Jobs |-> 0] /\ late = {}
  /\ generations = <<[ok |-> TRUE, state |-> State([j \in Jobs |-> "none"], 0)]>>
  /\ head = 1 /\ current = [ok |-> TRUE, at |-> 1] /\ claims = {}
  /\ unreadable = FALSE /\ copied = TRUE
  /\ lease = None /\ svc = [i \in Services |-> Down]

Evaluate(i) == \E j \in Jobs :
  \/ PassOver(i, j) \/ Disabled(i, j) \/ Interrupted(i, j) \/ NotYet(i, j) \/ Missed(i, j)
  \/ EngineHostUnhealthy(i, j) \/ Waits(i, j) \/ Blocked(i, j)
  \/ GateRejects(i, j) \/ Starts(i, j)

Save(i) ==
  SaveChecks(i) \/ WriteClaim(i) \/ Retain(i) \/ PromoteHead(i) \/ PromoteState(i) \/ Prune(i)

ServiceStep(i) ==
  Load(i) \/ BeginTick(i) \/ LeaseTimeout(i) \/ Evaluate(i) \/ LaunchJob(i) \/ JobEnds(i) \/ EndOfTick(i) \/ Save(i)

\* Files are damaged while none of them is being written.
Damage ==
  /\ \A i \in Services : svc[i].pc \notin {"claims", "anchor", "promote", "prune"}
  /\ \/ StateDamaged \/ ClaimOrHeadDamaged
     \/ \E k \in 1 .. Len(generations) : GenerationDamaged(k)

Next ==
  \/ \E i \in Services : ServiceStep(i) \/ ServiceCrashes(i) \/ LoadCrashes(i)
  \/ TimePasses \/ Damage
  \/ \E i \in Services, j \in Jobs : ReplaceManifest(i, j)

Spec == Init /\ [][Next]_vars

FairSpec == Spec /\ WF_vars(TimePasses) /\ \A i \in Services : WF_vars(ServiceStep(i))

-----------------------------------------------------------------------------
Locations == {"down", "idle", "eval", "check", "claims", "anchor", "promote", "prune",
              "launch", "run"}
States == [jobs : [Jobs -> Statuses], floor : 0 .. MaxTime]

\* Types; the head and the state file name a retained generation.
TypeOK ==
  /\ clock \in 0 .. MaxTime /\ enabled \subseteq Jobs
  /\ launches \in [Jobs -> 0 .. MaxLaunches] /\ late \subseteq Jobs /\ faults \in 0 .. MaxFaults
  /\ \A k \in 1 .. Len(generations) :
       generations[k].ok \in BOOLEAN /\ generations[k].state \in States
  /\ head \in 1 .. Len(generations) /\ current.at \in 1 .. Len(generations)
  /\ claims \subseteq Jobs \X Claimed /\ unreadable \in BOOLEAN /\ copied \in BOOLEAN
  /\ lease \in Services \cup {None}
  /\ \A i \in Services :
       /\ svc[i].pc \in Locations /\ svc[i].mem \in States /\ svc[i].own \subseteq Jobs
       /\ svc[i].pc \notin {"down", "idle"} <=> lease = i

\* The refinement: what a load would read is a ledger that forgets nothing.
Ledger == INSTANCE JobLedger WITH
  receipt <- Authority, launches <- launches, Answers <- FinalJobStates

LedgerSpec == Ledger!Spec

\* No job is launched before the store proves the completion of the job it
\* depends on, and no damage or crash takes that proof away later.
LaunchedAfterDependency ==
  \A j \in Jobs :
    launches[j] > 0 /\ Dependency[j] # None => Merged(Dependency[j]) = "COMPLETED"

\* A store that says two different things of a job would lock every service
\* out for good; no crash, stale service or damage writes such a store.
NeverContradicts == ~Conflict

\* Every job is answered, unless the recovery floor quarantines it or the store
\* cannot be loaded or saved any longer.
LockedOut == ~Admissible \/ (current.ok /\ ~generations[current.at].ok)

QuarantinedOnDisk(j) ==
  \E k \in 1 .. Len(generations) :
    generations[k].state.floor >= Scheduled[j] /\ generations[k].state.floor > 0

EveryJobAnswered ==
  \A j \in Jobs : <>(Merged(j) \in FinalJobStates \/ LockedOut \/ QuarantinedOnDisk(j))

\* "The job will not run late": none is decided on after its window has closed.
NoLateStart == late = {}
=============================================================================
