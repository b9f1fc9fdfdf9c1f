---------------------------- MODULE TaskContainers ----------------------------
(***************************************************************************)
(* The script container of one assistant turn: TaskContainers of the       *)
(* sandbox manager, called by the kernel's script calls (execute) and by   *)
(* chat-api's finalize_task_audit (freeze, archive, dispose).              *)
(*                                                                         *)
(* Three locks: `_lock' over the table of leases, the semaphore of slots,  *)
(* and one lock per lease.  An action is a critical section of `_lock'     *)
(* (which spans the creation of the container), an operation on another    *)
(* lock, or one engine call made outside `_lock'.  The container and its   *)
(* network have the task's name, so Docker refuses a second one while the  *)
(* first exists.                                                           *)
(*                                                                         *)
(* One task; its leases are numbered in the order of their creation.       *)
(* `stored' is what script-task-leases.json says.                          *)
(***************************************************************************)
EXTENDS Naturals, FiniteSets

CONSTANTS
    Calls,       \* execute calls
    Finals,      \* finalizations of the turn: freeze, then dispose
    Slots,       \* MOVO_SANDBOX_MAX_CONCURRENT
    MaxTroubles  \* bound: engine calls that raise, crashes of the manager

VARIABLES
    lease,       \* the task's lease in the table, 0 for none
    stored,      \* the lease in the file
    made,        \* leases created so far
    box,         \* the container of a lease
    frozen,      \* leases that are frozen
    thread,      \* progress of every call and finalization, and its lease
    busy,        \* lease.lock: the thread that holds it, or nobody
    permits,     \* the semaphore
    doubled,     \* whether two threads disposed of one lease at once
    taskTroubles \* engine calls that raised, crashes

taskVars == <<lease, stored, made, box, frozen, thread, busy, permits, doubled, taskTroubles>>

Threads == Calls \cup Finals
Leases == 1..(Cardinality(Calls) + 1)
Unheld == "nobody"
Disposing == {"remove", "unlink", "forget"}

\* The lease's container and network are in Docker under the task's name.
Present(n) == box[n] \in {"up", "killed", "network"}

TaskInit ==
    /\ lease = 0 /\ stored = 0 /\ made = 0
    /\ box = [n \in Leases |-> "none"]
    /\ frozen = {}
    /\ thread = [t \in Threads |-> [pc |-> "new", on |-> 0, target |-> 0]]
    /\ busy = [n \in Leases |-> Unheld]
    /\ permits = Slots
    /\ doubled = FALSE
    /\ taskTroubles = [raised |-> 0, crashed |-> 0]

At(t, pc) == thread[t].pc = pc
Go(t, pc) == thread' = [thread EXCEPT ![t].pc = pc]
Raise == /\ taskTroubles.raised + taskTroubles.crashed < MaxTroubles
         /\ taskTroubles' = [taskTroubles EXCEPT !.raised = @ + 1]

------------------------------------------------------------------------------
(* execute *)

\* The existing lease is used unless it is frozen; else a container is created,
\* which Docker refuses while one of the same name is present.
Look(c) ==
    /\ At(c, "new")
    /\ \/ /\ lease # 0
          /\ thread' = [thread EXCEPT ![c] =
                IF lease \in frozen THEN [@ EXCEPT !.pc = "done"]
                ELSE [@ EXCEPT !.pc = "queued", !.on = lease]]
          /\ UNCHANGED <<lease, stored, made, box>>
       \/ /\ lease = 0
          /\ \E n \in Leases : Present(n)
          /\ Go(c, "done")
          /\ UNCHANGED <<lease, stored, made, box>>
       \/ /\ lease = 0
          /\ \A n \in Leases : ~Present(n)
          /\ made + 1 \in Leases
          /\ made' = made + 1
          /\ lease' = made'
          /\ stored' = made'
          /\ box' = [box EXCEPT ![made'] = "up"]
          /\ thread' = [thread EXCEPT ![c] = [@ EXCEPT !.pc = "queued", !.on = made']]
    /\ UNCHANGED <<frozen, busy, permits, doubled, taskTroubles>>

\* _create raises: its except block removes the container and the network.
CreateFails(c) ==
    /\ At(c, "new")
    /\ lease = 0
    /\ Raise
    /\ Go(c, "done")
    /\ UNCHANGED <<lease, stored, made, box, frozen, busy, permits, doubled>>

TakeSlot(c) ==
    /\ At(c, "queued")
    /\ permits > 0
    /\ permits' = permits - 1
    /\ Go(c, "slotted")
    /\ UNCHANGED <<lease, stored, made, box, frozen, busy, doubled, taskTroubles>>

QueueTimesOut(c) ==
    /\ At(c, "queued")
    /\ Go(c, "done")
    /\ UNCHANGED <<lease, stored, made, box, frozen, busy, permits, doubled, taskTroubles>>

\* Mutant of LockLease: the lease has no lock of its own.
LockNothing(t, from, to) ==
    /\ At(t, from)
    /\ Go(t, to)
    /\ UNCHANGED <<lease, stored, made, box, frozen, busy, permits, doubled, taskTroubles>>

LockLease(t, from, to) ==
    /\ At(t, from)
    /\ busy[thread[t].on] = Unheld
    /\ busy' = [busy EXCEPT ![thread[t].on] = t]
    /\ Go(t, to)
    /\ UNCHANGED <<lease, stored, made, box, frozen, permits, doubled, taskTroubles>>

\* The engine refuses a container that is not up.
RunCall(c) ==
    /\ At(c, "locked")
    /\ Go(c, IF box[thread[c].on] = "up" THEN "running" ELSE "discard")
    /\ UNCHANGED <<lease, stored, made, box, frozen, busy, permits, doubled, taskTroubles>>

\* Mutant of Unlock: the slot is released, the lease is not.
ReleaseSlotOnly(c) ==
    /\ permits' = permits + 1
    /\ Go(c, "done")
    /\ UNCHANGED busy

Unlock(c) ==
    /\ busy' = [busy EXCEPT ![thread[c].on] = Unheld]
    /\ permits' = permits + 1
    /\ Go(c, "done")

\* The script ends, also by being killed or removed under the call.
CallEnds(c) ==
    /\ At(c, "running")
    /\ Unlock(c)
    /\ UNCHANGED <<lease, stored, made, box, frozen, doubled, taskTroubles>>

\* A timeout of 70 seconds, a broken answer, or a container that has gone.
CallRaises(c) ==
    /\ At(c, "running")
    /\ IF box[thread[c].on] = "up" THEN Raise ELSE UNCHANGED taskTroubles
    /\ Go(c, "discard")
    /\ UNCHANGED <<lease, stored, made, box, frozen, busy, permits, doubled>>

------------------------------------------------------------------------------
(* dispose, as the error path of a call and as a request *)

Leave(t) ==
    IF t \in Calls THEN Unlock(t)
    ELSE Go(t, "done") /\ UNCHANGED <<busy, permits>>

\* The lease found under the task's name need not be the call's own.
BeginDispose(t) ==
    /\ At(t, "discard")
    /\ IF lease = 0 THEN Leave(t)
       ELSE /\ thread' = [thread EXCEPT ![t] = [@ EXCEPT !.pc = "remove", !.target = lease]]
            /\ UNCHANGED <<busy, permits>>
    /\ doubled' = (doubled \/ (lease # 0 /\ \E u \in Threads : thread[u].pc \in Disposing))
    /\ UNCHANGED <<lease, stored, made, box, frozen, taskTroubles>>

\* A container that has gone is no error (404).
RemoveContainer(t) ==
    /\ At(t, "remove")
    /\ box' = [box EXCEPT ![thread[t].target] = IF @ = "gone" THEN @ ELSE "network"]
    /\ Go(t, "unlink")
    /\ UNCHANGED <<lease, stored, made, frozen, busy, permits, doubled, taskTroubles>>

RemoveNetwork(t) ==
    /\ At(t, "unlink")
    /\ box' = [box EXCEPT ![thread[t].target] = "gone"]
    /\ Go(t, "forget")
    /\ UNCHANGED <<lease, stored, made, frozen, busy, permits, doubled, taskTroubles>>

\* The lease stays in the table; a failed removal of the container is followed
\* by that of its network, which is in use.
DisposeRaises(t) ==
    /\ thread[t].pc \in {"remove", "unlink"}
    /\ Raise
    /\ Leave(t)
    /\ UNCHANGED <<lease, stored, made, box, frozen, doubled>>

\* Whatever lease is under the task's name by now is taken out of the table.
Forget(t) ==
    /\ At(t, "forget")
    /\ lease' = 0
    /\ stored' = 0
    /\ Leave(t)
    /\ UNCHANGED <<made, box, frozen, doubled, taskTroubles>>

------------------------------------------------------------------------------
(* finalize_task_audit: freeze, archive the workspace, dispose *)

BeginFreeze(f) ==
    /\ At(f, "new")
    /\ thread' = [thread EXCEPT ![f] =
         IF lease = 0 THEN [@ EXCEPT !.pc = "archive"]
         ELSE [@ EXCEPT !.pc = "freezing", !.on = lease]]
    /\ UNCHANGED <<lease, stored, made, box, frozen, busy, permits, doubled, taskTroubles>>

Kill(f) ==
    /\ At(f, "killing")
    /\ box' = [box EXCEPT ![thread[f].on] = IF @ = "up" THEN "killed" ELSE @]
    /\ frozen' = frozen \cup {thread[f].on}
    /\ busy' = [busy EXCEPT ![thread[f].on] = Unheld]
    /\ stored' = lease
    /\ Go(f, "archive")
    /\ UNCHANGED <<lease, made, permits, doubled, taskTroubles>>

\* A call of chat-api that fails ends the finalization; a later one repeats it.
FinalFails(f) ==
    /\ thread[f].pc \in {"killing", "archive"}
    /\ Raise
    /\ busy' = IF At(f, "killing") THEN [busy EXCEPT ![thread[f].on] = Unheld] ELSE busy
    /\ Go(f, "done")
    /\ UNCHANGED <<lease, stored, made, box, frozen, permits, doubled>>

Archived(f) ==
    /\ At(f, "archive")
    /\ Go(f, "discard")
    /\ UNCHANGED <<lease, stored, made, box, frozen, busy, permits, doubled, taskTroubles>>

------------------------------------------------------------------------------
(* The manager crashes and starts again: the threads are lost, _restore keeps
   the stored leases whose container Docker can show. *)

CanShow(n) == n # 0 /\ box[n] \in {"up", "killed"}

Restart ==
    /\ taskTroubles.raised + taskTroubles.crashed < MaxTroubles
    /\ taskTroubles' = [taskTroubles EXCEPT !.crashed = @ + 1]
    /\ lease' \in {IF CanShow(stored) THEN stored ELSE 0, 0}
    /\ stored' = lease'
    /\ thread' = [t \in Threads |->
         IF At(t, "new") THEN thread[t] ELSE [thread[t] EXCEPT !.pc = "done"]]
    /\ busy' = [n \in Leases |-> Unheld]
    /\ permits' = Slots
    /\ \/ UNCHANGED <<made, box>>
       \/ /\ lease = 0 /\ made + 1 \in Leases      \* between create and save
          /\ \E c \in Calls : At(c, "new")
          /\ \A n \in Leases : ~Present(n)
          /\ made' = made + 1
          /\ box' = [box EXCEPT ![made'] = "up"]
    /\ UNCHANGED <<frozen, doubled>>

ExecuteStep(c) ==
    \/ TakeSlot(c) \/ QueueTimesOut(c) \/ LockLease(c, "slotted", "locked")
    \/ RunCall(c) \/ CallEnds(c) \/ CallRaises(c)

DisposeStep(t) ==
    BeginDispose(t) \/ RemoveContainer(t) \/ RemoveNetwork(t) \/ DisposeRaises(t) \/ Forget(t)

FinalStep(f) ==
    \/ LockLease(f, "freezing", "killing") \/ Kill(f)
    \/ FinalFails(f) \/ Archived(f)

TaskNext ==
    \/ \E c \in Calls : Look(c) \/ CreateFails(c) \/ ExecuteStep(c)
    \/ \E t \in Threads : DisposeStep(t)
    \/ \E f \in Finals : BeginFreeze(f) \/ FinalStep(f)
    \/ Restart

\* Threads go on; a script ends, or its call times out.
TaskFairness ==
    /\ \A c \in Calls : WF_taskVars(ExecuteStep(c) \/ DisposeStep(c))
    /\ \A f \in Finals : WF_taskVars(FinalStep(f) \/ DisposeStep(f))

TaskSpec == TaskInit /\ [][TaskNext]_taskVars

------------------------------------------------------------------------------
(* Properties. *)

InSlot(c) == thread[c].pc \in {"slotted", "locked", "running", "discard"} \cup Disposing

TaskTypeOK ==
    /\ {lease, stored, made} \subseteq Leases \cup {0}
    /\ \A n \in Leases : box[n] \in {"none", "up", "killed", "network", "gone"}
    /\ \A n \in Leases : busy[n] \in Threads \cup {Unheld}
    /\ \A t \in Threads : thread[t].pc \in {"new", "queued", "slotted", "locked", "running",
          "discard", "freezing", "killing", "archive", "done"} \cup Disposing

\* Two scripts of a turn never run at once in its workspace, although a failed
\* call disposes of the lease under which other calls are queued.
OneScriptAtATime ==
    \A c, d \in Calls :
        At(c, "running") /\ At(d, "running") /\ box[thread[c].on] = "up" /\ box[thread[d].on] = "up"
            => c = d

\* Every exit of execute gives its permit back, once.
SlotsAreReturned == permits = Slots - Cardinality({c \in Calls : InSlot(c)})

\* What Docker still has of the task is known to the manager, in the table or in
\* the hands of a thread, unless it crashed, a call raised, or two threads
\* disposed of one lease.
NoOrphan ==
    ~doubled /\ taskTroubles.raised + taskTroubles.crashed = 0 =>
        \A n \in Leases : Present(n) =>
            n = lease \/ \E t \in Threads : thread[t].pc \in Disposing /\ thread[t].target = n

\* A lease in the table can be used: its container is there, if perhaps killed,
\* unless it is being disposed of or a disposal raised half-way.
LeaseIsUsable ==
    lease # 0 /\ taskTroubles.raised = 0 =>
        \/ CanShow(lease)
        \/ \E t \in Threads : thread[t].pc \in Disposing /\ thread[t].target = lease

\* The three locks are taken in an order without a cycle: every call, also one
\* that is queued, and every finalization come to an end.
CallsAreOver == \A t \in Threads : thread[t].pc \in {"new", "done"}

\* "Reusable, isolated script containers scoped to one assistant turn": when the
\* turn's calls and its finalization are over, so is its container.  This one
\* does not hold: a call after the finalization makes a new lease, and a restart
\* that cannot inspect the container forgets it.
ScopedToTurn ==
    (\A t \in Threads : At(t, "done")) => \A n \in Leases : ~Present(n)
===============================================================================
