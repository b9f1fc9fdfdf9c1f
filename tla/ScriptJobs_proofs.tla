--------------------------- MODULE ScriptJobs_proofs ---------------------------
(***************************************************************************)
(* Proofs about module ScriptJobs, for any finite set of jobs, any number  *)
(* of slots and any number of engine calls that raise.                     *)
(*                                                                         *)
(* The counters follow the sets of threads they count: a step moves one    *)
(* job into or out of a set.  What a job leaves behind follows from where  *)
(* its thread stands in the nested finally blocks (Tidy).                  *)
(***************************************************************************)
EXTENDS ScriptJobs, Integers, FiniteSetTheorems, TLAPS

Places == {"new", "waiting", "acquired", "late", "leave", "release", "done"}
             \cup TryBlock \cup Finally

Types ==
    /\ at \in [Jobs -> Places]
    /\ pending \in Int /\ running \in Int /\ free \in Nat /\ jobFaults \in Nat
    /\ docker \in [Jobs -> SUBSET Resources]
    /\ known \in [Jobs -> SUBSET Resources]
    /\ excused \in [Jobs -> SUBSET Resources]

Counted == {j \in Holding : at[j] \notin {"acquired", "release"}}

Counters ==
    /\ pending = Cardinality(InQueue)
    /\ running = Cardinality(Counted)
    /\ free = Capacity - Cardinality(Holding)

\* What exists is known or excused, and a finally block that is behind the
\* thread has left nothing else of what it removes.
Tidy ==
    \A j \in Jobs :
        /\ docker[j] \subseteq known[j] \cup excused[j]
        /\ at[j] \in {"new", "waiting", "acquired", "late", "find", "network"} => docker[j] = {}
        /\ at[j] \in {"disconnect", "unlink"} => docker[j] \cap {"container"} \subseteq excused[j]
        /\ at[j] = "unlink" => docker[j] \cap {"proxy"} \subseteq excused[j]
        /\ at[j] \in {"leave", "release", "done"} => docker[j] \subseteq excused[j]

JobInv == Types /\ Counters /\ Tidy

(* Every set of jobs is finite, so that members can be counted.             *)
LEMMA JobsCount ==
    ASSUME NEW S \in SUBSET Jobs, NEW j
    PROVE  /\ Cardinality(S) \in Nat
           /\ j \notin S => Cardinality(S \cup {j}) = Cardinality(S) + 1
           /\ j \in S => Cardinality(S \ {j}) = Cardinality(S) - 1
<1>1. IsFiniteSet(S)
  BY CapacityAssumption, FS_Subset
<1> QED
  BY <1>1, FS_CardinalityType, FS_AddElement, FS_RemoveElement

LEMMA JobInitInv == JobInit => JobInv
<1> SUFFICES ASSUME JobInit PROVE JobInv
  OBVIOUS
<1>1. Types
  BY CapacityAssumption DEF JobInit, Types, Places, TryBlock, Finally
<1>2. InQueue = {} /\ Holding = {} /\ Counted = {}
  BY DEF JobInit, InQueue, Holding, Counted, TryBlock, Finally
<1>3. Counters
  BY <1>2, FS_EmptySet, CapacityAssumption DEF JobInit, Counters
<1>4. Tidy
  BY DEF JobInit, Tidy
<1> QED
  BY <1>1, <1>3, <1>4 DEF JobInv

(* A step that leaves the three sets and the three counters alone.          *)
LEMMA CountersStay ==
    ASSUME JobInv, NEW j \in Jobs, NEW to,
           at' = [at EXCEPT ![j] = to],
           UNCHANGED <<pending, running, free>>,
           \/ {at[j], to} \subseteq {"waiting", "acquired", "late"} /\ at[j] # "acquired" /\ to # "acquired"
           \/ {at[j], to} \subseteq TryBlock \cup Finally \cup {"leave"}
           \/ {at[j], to} \subseteq {"new", "done"}
    PROVE  Counters'
<1>1. InQueue' = InQueue /\ Holding' = Holding /\ Counted' = Counted
  BY DEF JobInv, Types, InQueue, Holding, Counted, TryBlock, Finally
<1> QED
  BY <1>1 DEF JobInv, Counters

LEMMA EnterKeeps ==
    ASSUME JobInv, NEW j \in Jobs, Enter(j)
    PROVE  JobInv'
<1> USE DEF JobInv
<1>1. Types'
  BY DEF Enter, Step, Types, Places
<1>2. Counters'
  <2>1. CASE Step(j, "done") /\ UNCHANGED pending
    BY <2>1, CountersStay DEF Enter, Step
  <2>2. CASE Step(j, "waiting") /\ pending' = pending + 1
    <3>1. /\ j \notin InQueue /\ InQueue' = InQueue \cup {j}
          /\ Holding' = Holding /\ Counted' = Counted
      BY <2>2 DEF Enter, Step, Types, InQueue, Holding, Counted, TryBlock, Finally
    <3> QED
      BY <2>2, <3>1, JobsCount DEF Enter, Counters, InQueue
  <2> QED
    BY <2>1, <2>2 DEF Enter
<1>3. Tidy'
  BY DEF Enter, Step, Types, Tidy
<1> QED
  BY <1>1, <1>2, <1>3

LEMMA AcquireKeeps ==
    ASSUME JobInv, NEW j \in Jobs, Acquire(j)
    PROVE  JobInv'
<1> USE DEF JobInv
<1>1. Types'
  BY DEF Acquire, Step, Types, Places
<1>2. /\ j \notin Holding /\ Holding' = Holding \cup {j}
      /\ InQueue' = InQueue /\ Counted' = Counted
  BY DEF Acquire, Step, Types, InQueue, Holding, Counted, TryBlock, Finally
<1>3. Counters'
  BY <1>2, JobsCount, CapacityAssumption DEF Acquire, Counters, Holding, Types
<1>4. Tidy'
  BY DEF Acquire, Step, Types, Tidy
<1> QED
  BY <1>1, <1>3, <1>4

LEMMA WaitTimesOutKeeps ==
    ASSUME JobInv, NEW j \in Jobs, WaitTimesOut(j)
    PROVE  JobInv'
<1> USE DEF JobInv
<1>1. Types'
  BY DEF WaitTimesOut, Step, Types, Places
<1>2. Counters'
  BY CountersStay DEF WaitTimesOut, Step
<1>3. Tidy'
  BY DEF WaitTimesOut, Step, Types, Tidy
<1> QED
  BY <1>1, <1>2, <1>3

LEMMA LeaveQueueKeeps ==
    ASSUME JobInv, NEW j \in Jobs, LeaveQueue(j)
    PROVE  JobInv'
<1> USE DEF JobInv
<1>1. Types'
  BY DEF LeaveQueue, Step, Types, Places, TryBlock
<1>2. j \in InQueue /\ InQueue' = InQueue \ {j} /\ Holding' = Holding
  BY DEF LeaveQueue, Step, Types, InQueue, Holding, TryBlock, Finally
<1>3. pending' = Cardinality(InQueue')
  BY <1>2, JobsCount DEF LeaveQueue, Counters, InQueue
<1>4. running' = Cardinality(Counted')
  <2>1. CASE at[j] = "acquired"
    <3>1. j \notin Counted /\ Counted' = Counted \cup {j} /\ Counted \subseteq Jobs
      BY <2>1 DEF LeaveQueue, Step, Types, Holding, Counted, TryBlock, Finally
    <3> QED
      BY <2>1, <3>1, JobsCount DEF LeaveQueue, Counters
  <2>2. CASE at[j] = "late"
    <3>1. Counted' = Counted
      BY <2>2 DEF LeaveQueue, Step, Types, Holding, Counted, TryBlock, Finally
    <3> QED
      BY <2>2, <3>1 DEF LeaveQueue, Counters
  <2> QED
    BY <2>1, <2>2 DEF LeaveQueue
<1>5. Counters'
  BY <1>2, <1>3, <1>4 DEF LeaveQueue, Counters
<1>6. Tidy'
  BY DEF LeaveQueue, Step, Types, Tidy
<1> QED
  BY <1>1, <1>5, <1>6

LEMMA RunStepKeeps ==
    ASSUME JobInv, NEW j \in Jobs, RunStep(j)
    PROVE  JobInv'
<1> USE DEF JobInv
<1> DEFINE to == AfterSetUp(at[j])
<1>1. /\ at[j] \in TryBlock /\ at' = [at EXCEPT ![j] = to]
      /\ to \in {"network", "proxy", "container", "start", "wait", "remove"}
      /\ at[j] # "find" => to # "network"
  BY DEF RunStep, Step, AfterSetUp, TryBlock
<1>2. Types'
  <2>1. at' \in [Jobs -> Places]
    BY <1>1 DEF Types, Places, TryBlock, Finally
  <2>2. docker' \in [Jobs -> SUBSET Resources] /\ known' \in [Jobs -> SUBSET Resources]
    BY DEF RunStep, Effect, SetUp, Resources, Types
  <2> QED
    BY <2>1, <2>2 DEF RunStep, Types
<1>3. Counters'
  BY <1>1, CountersStay DEF RunStep, TryBlock, Finally
<1>4. Tidy'
  <2>1. /\ excused' = excused
        /\ \A k \in Jobs : k # j => at'[k] = at[k] /\ docker'[k] = docker[k] /\ known'[k] = known[k]
        /\ at'[j] = to
    BY <1>1 DEF RunStep, Effect, Types
  <2>2. docker'[j] \subseteq known'[j] \cup excused'[j]
    BY DEF RunStep, Effect, Types, Tidy
  <2>3. to = "network" => docker'[j] = {}
    BY <1>1 DEF RunStep, SetUp, Tidy
  <2> QED
    BY <1>1, <2>1, <2>2, <2>3 DEF Tidy
<1> QED
  BY <1>2, <1>3, <1>4

LEMMA RunStepRaisesKeeps ==
    ASSUME JobInv, NEW j \in Jobs, RunStepRaises(j)
    PROVE  JobInv'
<1> USE DEF JobInv
<1>1. at[j] \in TryBlock /\ at' = [at EXCEPT ![j] = "remove"]
  BY DEF RunStepRaises, Step
<1>2. Types'
  <2>1. at' \in [Jobs -> Places] /\ known' \in [Jobs -> SUBSET Resources]
    BY <1>1 DEF RunStepRaises, Types, Places, Finally, Resources
  <2>2. docker' \in [Jobs -> SUBSET Resources] /\ excused' \in [Jobs -> SUBSET Resources]
    BY DEF RunStepRaises, Effect, SetUp, Resources, Types
  <2> QED
    BY <2>1, <2>2 DEF RunStepRaises, Types
<1>3. Counters'
  BY <1>1, CountersStay DEF RunStepRaises, TryBlock, Finally
<1>4. Tidy'
  <2>1. /\ \A k \in Jobs : k # j => /\ at'[k] = at[k] /\ docker'[k] = docker[k]
                                    /\ known'[k] = known[k] /\ excused'[k] = excused[k]
        /\ at'[j] = "remove"
    BY <1>1 DEF RunStepRaises, Effect, Types
  <2>2. docker'[j] \subseteq known'[j] \cup excused'[j]
    BY DEF RunStepRaises, Effect, Types, Tidy
  <2> QED
    BY <2>1, <2>2 DEF Tidy
<1> QED
  BY <1>2, <1>3, <1>4

LEMMA CleanUpKeeps ==
    ASSUME JobInv, NEW j \in Jobs, CleanUp(j)
    PROVE  JobInv'
<1> USE DEF JobInv
<1> DEFINE r == Removes(at[j])
<1>1. /\ at[j] \in Finally /\ at' = [at EXCEPT ![j] = AfterRemoval(at[j])]
      /\ AfterRemoval(at[j]) \in {"disconnect", "unlink", "leave"}
      /\ r \in Resources
      /\ at[j] = "remove" => r = "container" /\ AfterRemoval(at[j]) = "disconnect"
      /\ at[j] = "disconnect" => r = "proxy" /\ AfterRemoval(at[j]) = "unlink"
      /\ at[j] = "unlink" => r = "network" /\ AfterRemoval(at[j]) = "leave"
  BY DEF CleanUp, Step, AfterRemoval, Removes, Finally, Resources
<1>2. \/ docker' = [docker EXCEPT ![j] = @ \ {r}] /\ excused' = excused
      \/ docker' = docker /\ r \in known[j] /\ excused' = [excused EXCEPT ![j] = @ \cup {r}]
      \/ docker' = docker /\ r \notin known[j] /\ excused' = [excused EXCEPT ![j] = @]
  BY DEF CleanUp
<1>3. Types'
  BY <1>1, <1>2 DEF CleanUp, Types, Places, Finally
<1>4. Counters'
  BY <1>1, CountersStay DEF CleanUp, Finally
<1>5. Tidy'
  <2>1. /\ \A k \in Jobs : k # j => at'[k] = at[k] /\ docker'[k] = docker[k] /\ excused'[k] = excused[k]
        /\ at'[j] = AfterRemoval(at[j]) /\ known' = known
        /\ docker'[j] \subseteq docker[j] /\ excused[j] \subseteq excused'[j]
        /\ docker'[j] \cap {r} \subseteq excused'[j]
    BY <1>1, <1>2 DEF CleanUp, Types, Tidy
  <2>2. docker[j] \subseteq Resources
    BY DEF Types
  <2> QED
    BY <1>1, <2>1, <2>2 DEF Tidy, Resources, Finally
<1> QED
  BY <1>3, <1>4, <1>5

LEMMA CleanUpRaisesKeeps ==
    ASSUME JobInv, NEW j \in Jobs, CleanUpRaises(j)
    PROVE  JobInv'
<1> USE DEF JobInv
<1> DEFINE r == Removes(at[j])
<1>1. /\ at[j] \in Finally /\ at' = [at EXCEPT ![j] = AfterRemoval(at[j])]
      /\ AfterRemoval(at[j]) \in {"disconnect", "unlink", "leave"}
      /\ r \in Resources
      /\ at[j] = "remove" => r = "container" /\ AfterRemoval(at[j]) = "disconnect"
      /\ at[j] = "disconnect" => r = "proxy" /\ AfterRemoval(at[j]) = "unlink"
      /\ at[j] = "unlink" => r = "network" /\ AfterRemoval(at[j]) = "leave"
  BY DEF CleanUpRaises, Step, AfterRemoval, Removes, Finally, Resources
<1>2. docker' = docker /\ known' = known /\ excused' = [excused EXCEPT ![j] = @ \cup {r}]
  BY DEF CleanUpRaises
<1>3. Types'
  BY <1>1, <1>2 DEF CleanUpRaises, Types, Places, Finally
<1>4. Counters'
  BY <1>1, CountersStay DEF CleanUpRaises, Finally
<1>5. Tidy'
  <2>1. /\ \A k \in Jobs : k # j => at'[k] = at[k] /\ excused'[k] = excused[k]
        /\ at'[j] = AfterRemoval(at[j])
        /\ excused'[j] = excused[j] \cup {r}
        /\ docker[j] \subseteq Resources
    BY <1>1, <1>2 DEF Types
  <2> QED
    BY <1>1, <1>2, <2>1 DEF Tidy, Resources, Finally
<1> QED
  BY <1>3, <1>4, <1>5

LEMMA LeaveRunningKeeps ==
    ASSUME JobInv, NEW j \in Jobs, LeaveRunning(j)
    PROVE  JobInv'
<1> USE DEF JobInv
<1>1. Types'
  BY DEF LeaveRunning, Step, Types, Places
<1>2. /\ j \in Counted /\ Counted' = Counted \ {j} /\ Counted \subseteq Jobs
      /\ InQueue' = InQueue /\ Holding' = Holding
  BY DEF LeaveRunning, Step, Types, InQueue, Holding, Counted, TryBlock, Finally
<1>3. Counters'
  BY <1>2, JobsCount DEF LeaveRunning, Counters
<1>4. Tidy'
  BY DEF LeaveRunning, Step, Types, Tidy
<1> QED
  BY <1>1, <1>3, <1>4

LEMMA ReleaseSlotKeeps ==
    ASSUME JobInv, NEW j \in Jobs, ReleaseSlot(j)
    PROVE  JobInv'
<1> USE DEF JobInv
<1>1. Types'
  BY DEF ReleaseSlot, Step, Types, Places
<1>2. /\ j \in Holding /\ Holding' = Holding \ {j} /\ Holding \subseteq Jobs
      /\ InQueue' = InQueue /\ Counted' = Counted
  BY DEF ReleaseSlot, Step, Types, InQueue, Holding, Counted, TryBlock, Finally
<1>3. Counters'
  BY <1>2, JobsCount, CapacityAssumption DEF ReleaseSlot, Counters, Types
<1>4. Tidy'
  BY DEF ReleaseSlot, Step, Types, Tidy
<1> QED
  BY <1>1, <1>3, <1>4

LEMMA OthersKeep ==
    ASSUME JobInv, UNCHANGED jobVars \/ \E value \in Limits : SetMaxPending(value)
    PROVE  JobInv'
<1>1. UNCHANGED <<at, pending, running, free, docker, known, excused, jobFaults>>
  BY DEF jobVars, SetMaxPending
<1> QED
  BY <1>1 DEF JobInv, Types, Counters, Tidy, InQueue, Holding, Counted

(* The invariant is inductive (jobs.py, ScriptJobs.execute).                *)
THEOREM JobInductive == JobSpec => []JobInv
<1>1. ASSUME JobInv, [JobNext]_jobVars
      PROVE  JobInv'
  <2>1. ASSUME NEW j \in Jobs, Enter(j) \/ JobStep(j)
        PROVE  JobInv'
    BY <1>1, <2>1, EnterKeeps, AcquireKeeps, WaitTimesOutKeeps, LeaveQueueKeeps, RunStepKeeps,
       RunStepRaisesKeeps, CleanUpKeeps, CleanUpRaisesKeeps, LeaveRunningKeeps, ReleaseSlotKeeps
       DEF JobStep
  <2> QED
    BY <1>1, <2>1, OthersKeep DEF JobNext
<1> QED
  BY JobInitInv, <1>1, PTL DEF JobSpec

(* The types of a job's progress, of the limit of the queue and of what a   *)
(* job has in Docker.                                                       *)
THEOREM JobTypeCorrect == JobSpec => []JobTypeOK
<1>1. JobInit => limit \in Limits
  BY DEF JobInit
<1>2. ASSUME limit \in Limits, [JobNext]_jobVars
      PROVE  (limit \in Limits)'
  <2>1. ASSUME NEW j \in Jobs, Enter(j) \/ JobStep(j)
        PROVE  limit' = limit
    BY <2>1 DEF Enter, JobStep, Acquire, WaitTimesOut, LeaveQueue, RunStep, RunStepRaises,
                CleanUp, CleanUpRaises, LeaveRunning, ReleaseSlot
  <2> QED
    BY <1>2, <2>1 DEF JobNext, SetMaxPending, jobVars
<1>3. JobInv /\ limit \in Limits => JobTypeOK
  BY DEF JobInv, Types, Places, JobTypeOK
<1> QED
  BY <1>1, <1>2, <1>3, JobInductive, PTL DEF JobSpec

(* The counters of the status page agree with the threads, whatever raised: *)
(* no job is counted twice or forgotten, and no slot is lost.               *)
THEOREM CountersAreRight == JobSpec => []CountersAgree
<1>1. JobInv => CountersAgree
  BY DEF JobInv, Counters, CountersAgree, Counted
<1> QED
  BY <1>1, JobInductive, PTL

(* A job that is over leaves nothing in Docker but a resource whose own     *)
(* engine call raised, or a network that such a resource keeps busy.        *)
THEOREM NothingElseIsLeft == JobSpec => []OnlyRaisedIsLeft
<1>1. JobInv => OnlyRaisedIsLeft
  BY DEF JobInv, Tidy, OnlyRaisedIsLeft
<1> QED
  BY <1>1, JobInductive, PTL

(* At most Capacity jobs hold a slot, so that many scripts run at a time.    *)
THEOREM CapacityHolds == JobSpec => [](Cardinality(Holding) <= Capacity)
<1>1. JobInv => Cardinality(Holding) <= Capacity
  <2> SUFFICES ASSUME JobInv PROVE Cardinality(Holding) <= Capacity
    OBVIOUS
  <2>1. Cardinality(Holding) \in Nat
    BY JobsCount DEF Holding
  <2> QED
    BY <2>1, CapacityAssumption DEF JobInv, Counters, Types
<1> QED
  BY <1>1, JobInductive, PTL
================================================================================
