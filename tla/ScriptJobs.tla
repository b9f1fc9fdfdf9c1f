------------------------------ MODULE ScriptJobs ------------------------------
(***************************************************************************)
(* One-shot script jobs of the sandbox manager: ScriptJobs.execute.  Every *)
(* request has a thread; a bounded queue stands in front of the execution  *)
(* slots, and what a job has created in Docker is removed in nested        *)
(* `finally' blocks, whichever call raises.                                *)
(*                                                                         *)
(* An action is one critical section of `_state_lock', one operation on    *)
(* the semaphore, or one call of the Docker engine.  A call that raises may *)
(* have had its effect nevertheless.  The image of a job is prepared before *)
(* (module SkillEnvironments).                                             *)
(***************************************************************************)
EXTENDS Naturals, FiniteSets

CONSTANTS
    Jobs,        \* execute calls
    Capacity,    \* MOVO_SANDBOX_MAX_CONCURRENT
    Limits,      \* the values an administrator gives max_pending
    MaxFaults    \* bound: engine calls that raise

ASSUME CapacityAssumption == Capacity \in Nat \ {0} /\ IsFiniteSet(Jobs)

VARIABLES
    at,          \* what the thread of a job does next
    pending,     \* _pending
    running,     \* _running
    limit,       \* _max_pending
    free,        \* permits of the semaphore
    docker,      \* what exists in Docker on behalf of a job
    known,       \* what of it the thread holds an id of
    excused,     \* resources whose engine call raised
    jobFaults

jobVars == <<at, pending, running, limit, free, docker, known, excused, jobFaults>>

Resources == {"network", "proxy", "container"}
\* The steps of the try block; the ones that leave something behind, and what.
SetUp == {"network", "proxy", "container"}
AfterSetUp(step) ==
    CASE step = "find" -> "network"
      [] step = "network" -> "proxy"
      [] step = "proxy" -> "container"
      [] step = "container" -> "start"
      [] step = "start" -> "wait"
      [] step = "wait" -> "remove"
TryBlock == {"find", "network", "proxy", "container", "start", "wait"}

\* The steps of the finally blocks, and what they remove.
Removes(step) ==
    CASE step = "remove" -> "container"
      [] step = "disconnect" -> "proxy"
      [] step = "unlink" -> "network"
AfterRemoval(step) ==
    CASE step = "remove" -> "disconnect"
      [] step = "disconnect" -> "unlink"
      [] step = "unlink" -> "leave"
Finally == {"remove", "disconnect", "unlink"}

JobInit ==
    /\ at = [j \in Jobs |-> "new"]
    /\ pending = 0 /\ running = 0 /\ limit \in Limits /\ free = Capacity
    /\ docker = [j \in Jobs |-> {}]
    /\ known = [j \in Jobs |-> {}]
    /\ excused = [j \in Jobs |-> {}]
    /\ jobFaults = 0

Step(j, pc) == at' = [at EXCEPT ![j] = pc]

\* A full queue refuses a job, even while slots are free.
Enter(j) ==
    /\ at[j] = "new"
    /\ IF pending >= limit
       THEN Step(j, "done") /\ UNCHANGED pending
       ELSE Step(j, "waiting") /\ pending' = pending + 1
    /\ UNCHANGED <<running, limit, free, docker, known, excused, jobFaults>>

Acquire(j) ==
    /\ at[j] = "waiting"
    /\ free > 0
    /\ free' = free - 1
    /\ Step(j, "acquired")
    /\ UNCHANGED <<pending, running, limit, docker, known, excused, jobFaults>>

WaitTimesOut(j) ==
    /\ at[j] = "waiting"
    /\ Step(j, "late")
    /\ UNCHANGED <<pending, running, limit, free, docker, known, excused, jobFaults>>

LeaveQueue(j) ==
    /\ at[j] \in {"acquired", "late"}
    /\ pending' = pending - 1
    /\ IF at[j] = "acquired"
       THEN running' = running + 1 /\ Step(j, "find")
       ELSE UNCHANGED running /\ Step(j, "done")
    /\ UNCHANGED <<limit, free, docker, known, excused, jobFaults>>

Effect(j, r) == docker' = [docker EXCEPT ![j] = @ \cup {r}]

\* A job that ends by itself or after a timeout of the engine call goes on to
\* the finally blocks.
RunStep(j) ==
    /\ at[j] \in TryBlock
    /\ Step(j, AfterSetUp(at[j]))
    /\ IF at[j] \in SetUp
       THEN /\ Effect(j, at[j])
            /\ known' = [known EXCEPT ![j] = @ \cup {at[j]}]
       ELSE UNCHANGED <<docker, known>>
    /\ UNCHANGED <<pending, running, limit, free, excused, jobFaults>>

\* Mutant of RunStepRaises: proxy_id is set when the proxy is connected.
RunStepRaisesEarly(j) ==
    /\ at[j] \in TryBlock
    /\ jobFaults < MaxFaults
    /\ jobFaults' = jobFaults + 1
    /\ Step(j, "remove")
    /\ IF at[j] \in SetUp
       THEN /\ Effect(j, at[j]) \/ UNCHANGED docker
            /\ excused' = [excused EXCEPT ![j] =
                              IF at[j] = "proxy" THEN @ ELSE @ \cup {at[j]}]
       ELSE UNCHANGED <<docker, excused>>
    /\ UNCHANGED <<pending, running, limit, free, known>>

\* proxy_id is known before the proxy is connected, so a connection whose call
\* raised is undone; a network or container whose id never came back is not.
RunStepRaises(j) ==
    /\ at[j] \in TryBlock
    /\ jobFaults < MaxFaults
    /\ jobFaults' = jobFaults + 1
    /\ Step(j, "remove")
    /\ known' = [known EXCEPT ![j] = IF at[j] = "proxy" THEN @ \cup {"proxy"} ELSE @]
    /\ IF at[j] \in SetUp
       THEN /\ Effect(j, at[j]) \/ UNCHANGED docker
            /\ excused' = [excused EXCEPT ![j] =
                              IF at[j] = "proxy" THEN @ ELSE @ \cup {at[j]}]
       ELSE UNCHANGED <<docker, excused>>
    /\ UNCHANGED <<pending, running, limit, free>>

\* Docker keeps a network that still has a member.
Removable(j, r) == r = "network" => docker[j] \subseteq {"network"}

CleanUp(j) ==
    /\ at[j] \in Finally
    /\ Step(j, AfterRemoval(at[j]))
    /\ LET r == Removes(at[j])
       IN  IF r \in known[j] /\ Removable(j, r)
           THEN docker' = [docker EXCEPT ![j] = @ \ {r}] /\ UNCHANGED excused
           ELSE UNCHANGED docker /\ excused' = [excused EXCEPT ![j] =
                    IF r \in known[j] THEN @ \cup {r} ELSE @]
    /\ UNCHANGED <<pending, running, limit, free, known, jobFaults>>

\* Mutant of CleanUpRaises: the clean-up is no nested finally block.
CleanUpAborts(j) ==
    /\ at[j] \in Finally
    /\ Removes(at[j]) \in known[j]
    /\ jobFaults < MaxFaults
    /\ jobFaults' = jobFaults + 1
    /\ Step(j, "done")
    /\ excused' = [excused EXCEPT ![j] = Resources]
    /\ UNCHANGED <<pending, running, limit, free, docker, known>>

CleanUpRaises(j) ==
    /\ at[j] \in Finally
    /\ Removes(at[j]) \in known[j]
    /\ jobFaults < MaxFaults
    /\ jobFaults' = jobFaults + 1
    /\ Step(j, AfterRemoval(at[j]))
    /\ excused' = [excused EXCEPT ![j] = @ \cup {Removes(at[j])}]
    /\ UNCHANGED <<pending, running, limit, free, docker, known>>

LeaveRunning(j) ==
    /\ at[j] = "leave"
    /\ running' = running - 1
    /\ Step(j, "release")
    /\ UNCHANGED <<pending, limit, free, docker, known, excused, jobFaults>>

ReleaseSlot(j) ==
    /\ at[j] = "release"
    /\ free' = free + 1
    /\ Step(j, "done")
    /\ UNCHANGED <<pending, running, limit, docker, known, excused, jobFaults>>

SetMaxPending(value) ==
    /\ limit # value
    /\ limit' = value
    /\ UNCHANGED <<at, pending, running, free, docker, known, excused, jobFaults>>

JobStep(j) ==
    \/ Acquire(j) \/ WaitTimesOut(j) \/ LeaveQueue(j)
    \/ RunStep(j) \/ RunStepRaises(j) \/ CleanUp(j) \/ CleanUpRaises(j)
    \/ LeaveRunning(j) \/ ReleaseSlot(j)

JobNext ==
    \/ \E j \in Jobs : Enter(j) \/ JobStep(j)
    \/ \E value \in Limits : SetMaxPending(value)

\* A thread goes on, and a wait for a slot ends by its timeout at the latest.
JobFairness == \A j \in Jobs : WF_jobVars(JobStep(j))
JobSpec == JobInit /\ [][JobNext]_jobVars

------------------------------------------------------------------------------
(* Properties. *)

InQueue == {j \in Jobs : at[j] \in {"waiting", "acquired", "late"}}
Holding == {j \in Jobs : at[j] \in {"acquired", "leave", "release"} \cup TryBlock \cup Finally}

JobTypeOK ==
    /\ \A j \in Jobs : at[j] \in {"new", "waiting", "acquired", "late", "leave",
                                  "release", "done"} \cup TryBlock \cup Finally
    /\ limit \in Limits
    /\ \A j \in Jobs : docker[j] \cup known[j] \cup excused[j] \subseteq Resources

\* The three counters the status page adds up agree with the threads whatever
\* raised: no job is counted twice or forgotten, and no slot is lost.
CountersAgree ==
    /\ pending = Cardinality(InQueue)
    /\ running = Cardinality({j \in Holding : at[j] \notin {"acquired", "release"}})
    /\ free = Capacity - Cardinality(Holding)

\* The nested finally blocks: of a job that is over only a resource whose own
\* engine call raised (or a network it keeps busy) is left in Docker.
OnlyRaisedIsLeft ==
    \A j \in Jobs : at[j] = "done" => docker[j] \subseteq excused[j]

\* A job that was queued comes back with an answer.
JobsAreOver == \A j \in Jobs : at[j] \in {"new", "done"}
===============================================================================
