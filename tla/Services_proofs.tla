----------------------------- MODULE Services_proofs -----------------------------
(***************************************************************************)
(* Proofs about the components of module Services, for any finite numbers  *)
(* of calls and creations and any numbers of the rest.                     *)
(*                                                                         *)
(* Each component has an inductive invariant of its own: TaskInv, EnvInv,  *)
(* PluginInv and CalendarInv below, the others in the modules of their     *)
(* proofs.  They share no variable, so what holds of one component alone   *)
(* holds of all of them together, and of the specification in which one    *)
(* component moves at a time.                                              *)
(***************************************************************************)
EXTENDS Services, Assistance_proofs, ScriptJobs_proofs, FiniteSetTheorems, WellFoundedInduction,
        TLAPS

(* A component counts as this module does.                                  *)
LEMMA CountedAlike ==
    ASSUME NEW S
    PROVE  Task!Cardinality(S) = Cardinality(S) /\ Plugin!Cardinality(S) = Cardinality(S)
BY DEF Task!Cardinality, Plugin!Cardinality, Cardinality

------------------------------------------------------------------------------
(* The containers of a turn (TaskContainers). *)

ThreadPlaces == {"new", "queued", "slotted", "locked", "running", "discard", "freezing",
                 "killing", "archive", "done"} \cup Task!Disposing

TaskTypes ==
    /\ made \in Nat /\ made <= Cardinality(Calls) + 1
    /\ lease \in 0..made /\ stored = lease
    /\ box \in [Task!Leases -> {"none", "up", "killed", "network", "gone"}]
    /\ \A n \in Task!Leases : box[n] = "none" <=> n > made
    /\ busy \in [Task!Leases -> Task!Threads \cup {Task!Unheld}]
    /\ thread \in [Task!Threads ->
          [pc : ThreadPlaces, on : Task!Leases \cup {0}, target : Task!Leases \cup {0}]]
    /\ \A c \in Calls : thread[c].pc \notin {"freezing", "killing", "archive"}
    /\ permits \in Nat /\ doubled \in BOOLEAN
    /\ taskTroubles \in [raised : Nat, crashed : Nat]

\* Whoever is behind the lock of a lease holds it.
Locks ==
    \A t \in Task!Threads :
        /\ thread[t].pc \in {"queued", "slotted", "freezing"} => thread[t].on # 0
        /\ \/ t \in Calls /\ thread[t].pc \in {"locked", "running", "discard"} \cup Task!Disposing
           \/ t \in Finals /\ thread[t].pc = "killing"
           => thread[t].on # 0 /\ busy[thread[t].on] = t

\* Where a disposal stands, the container of its target is; while there was one
\* disposal at a time its target is the lease.
TaskDisposals ==
    /\ \A m, n \in Task!Leases : Task!Present(m) /\ Task!Present(n) => m = n
    /\ \A t \in Task!Threads : thread[t].pc \in Task!Disposing =>
          /\ thread[t].target # 0 /\ box[thread[t].target] # "none"
          /\ thread[t].pc = "forget" => box[thread[t].target] = "gone"
          /\ ~doubled => thread[t].target = lease
    /\ ~doubled => \A t, u \in Task!Threads :
          thread[t].pc \in Task!Disposing /\ thread[u].pc \in Task!Disposing => t = u
    /\ ~doubled /\ taskTroubles.raised + taskTroubles.crashed = 0 =>
          \A n \in Task!Leases : Task!Present(n) => n = lease

TaskInv == TaskTypes /\ Locks /\ TaskDisposals /\ Task!SlotsAreReturned /\ Task!LeaseIsUsable

(* Sets of calls are finite, so that the permits can be counted.            *)
LEMMA CallsCount ==
    ASSUME NEW S \in SUBSET Calls, NEW c
    PROVE  /\ Cardinality(S) \in Nat
           /\ c \notin S => Cardinality(S \cup {c}) = Cardinality(S) + 1
           /\ c \in S => Cardinality(S \ {c}) = Cardinality(S) - 1
<1>1. IsFiniteSet(S)
  BY TaskAssumption, FS_Subset
<1> QED
  BY <1>1, FS_CardinalityType, FS_AddElement, FS_RemoveElement

InSlots == {c \in Calls : Task!InSlot(c)}

(* The permits follow the calls that hold a slot.                           *)
LEMMA SlotsFollow ==
    ASSUME TaskInv, NEW c \in Calls,
           \/ InSlots' = InSlots /\ permits' = permits
           \/ c \notin InSlots /\ InSlots' = InSlots \cup {c} /\ permits' = permits - 1
           \/ c \in InSlots /\ InSlots' = InSlots \ {c} /\ permits' = permits + 1
    PROVE  Task!SlotsAreReturned'
<1>1. PICK k \in Nat : k = Cardinality(InSlots) /\ permits = Slots - k
  BY CountedAlike, CallsCount DEF TaskInv, InSlots, Task!SlotsAreReturned
<1>2. /\ c \notin InSlots => Cardinality(InSlots \cup {c}) = k + 1
      /\ c \in InSlots => Cardinality(InSlots \ {c}) = k - 1
  BY <1>1, CallsCount DEF InSlots
<1>3. PICK m : m = Cardinality(InSlots')
  OBVIOUS
<1>4. \/ m = k /\ permits' = permits
      \/ m = k + 1 /\ permits' = permits - 1
      \/ m = k - 1 /\ permits' = permits + 1
  BY <1>1, <1>2, <1>3
<1>5. permits' = Slots - m
  BY <1>1, <1>4, TaskAssumption
<1> QED
  BY <1>3, <1>5, CountedAlike DEF InSlots, Task!SlotsAreReturned

(* The invariant of the turn's containers holds at the start.                *)
LEMMA TaskInitInv == Task!TaskInit => TaskInv
<1> SUFFICES ASSUME Task!TaskInit PROVE TaskInv
  OBVIOUS
<1> USE DEF Task!TaskInit
<1>1. Cardinality(Calls) \in Nat
  BY TaskAssumption, FS_CardinalityType
<1>2. TaskTypes
  <2>1. made \in Nat /\ made <= Cardinality(Calls) + 1 /\ lease \in 0..made
    BY <1>1
  <2>2. box \in [Task!Leases -> {"none"}] /\ \A n \in Task!Leases : n > made
    BY DEF Task!Leases
  <2>3. /\ busy \in [Task!Leases -> {Task!Unheld}]
        /\ thread \in [Task!Threads -> [pc : {"new"}, on : {0}, target : {0}]]
        /\ permits \in Nat
    BY TaskAssumption
  <2> QED
    BY <2>1, <2>2, <2>3, TaskAssumption DEF TaskTypes, ThreadPlaces, Task!Threads
<1>3. Locks
  BY DEF Locks, Task!Disposing
<1>4. TaskDisposals
  BY DEF TaskDisposals, Task!Disposing, Task!Present
<1>5. InSlots = {}
  BY DEF InSlots, Task!InSlot, Task!Disposing, Task!Threads
<1>6. Task!SlotsAreReturned
  BY <1>5, FS_EmptySet, TaskAssumption, CountedAlike DEF InSlots, Task!SlotsAreReturned
<1>7. Task!LeaseIsUsable
  BY DEF Task!LeaseIsUsable
<1> QED
  BY <1>2, <1>3, <1>4, <1>6, <1>7 DEF TaskInv

(* The numbers of the leases; there are finitely many calls.                 *)
LEMMA LeaseNumbers == TaskTypes => lease \in Task!Leases \cup {0} /\ Cardinality(Calls) \in Nat
<1>1. Cardinality(Calls) \in Nat /\ Task!Cardinality(Calls) = Cardinality(Calls)
  BY TaskAssumption, FS_CardinalityType, CountedAlike
<1>2. PICK k \in Nat : k = Cardinality(Calls)
  BY <1>1
<1>3. Task!Leases = 1..(k + 1)
  BY <1>1, <1>2 DEF Task!Leases
<1> QED
  BY <1>2, <1>3 DEF TaskTypes

(* The permits stay right while no call enters or leaves its slot.           *)
LEMMA SlotsStay ==
    ASSUME TaskInv, InSlots' = InSlots, permits' = permits
    PROVE  Task!SlotsAreReturned'
BY DEF TaskInv, InSlots, Task!SlotsAreReturned

(* No container can be made for a call.                                      *)
LEMMA CreateFailsKeeps ==
    ASSUME TaskInv, NEW c \in Calls, Task!CreateFails(c)
    PROVE  TaskInv'
<1> USE DEF TaskInv, Task!CreateFails, Task!Raise, Task!At, Task!Go
<1>1. TaskTypes'
  BY TaskAssumption DEF TaskTypes, ThreadPlaces, Task!Threads, Task!Disposing
<1>2. Locks'
  BY TaskAssumption DEF TaskTypes, Locks, Task!Threads, Task!Disposing
<1>3. TaskDisposals'
  BY DEF TaskTypes, TaskDisposals, Task!Threads, Task!Disposing, Task!Present
<1>4. InSlots' = InSlots
  BY TaskAssumption DEF TaskTypes, InSlots, Task!InSlot, Task!Threads, Task!Disposing
<1>5. Task!LeaseIsUsable'
  BY DEF TaskTypes, Task!LeaseIsUsable, Task!CanShow, Task!Threads, Task!Disposing
<1> QED
  BY <1>1, <1>2, <1>3, <1>4, <1>5, SlotsFollow

(* A call gets one of the slots.                                             *)
LEMMA TakeSlotKeeps ==
    ASSUME TaskInv, NEW c \in Calls, Task!TakeSlot(c)
    PROVE  TaskInv'
<1> USE DEF TaskInv, Task!TakeSlot, Task!At, Task!Go
<1>1. TaskTypes'
  BY TaskAssumption DEF TaskTypes, ThreadPlaces, Task!Threads, Task!Disposing
<1>2. Locks'
  BY TaskAssumption DEF TaskTypes, Locks, Task!Threads, Task!Disposing
<1>3. TaskDisposals'
  BY DEF TaskTypes, TaskDisposals, Task!Threads, Task!Disposing, Task!Present
<1>4. c \notin InSlots /\ InSlots' = InSlots \cup {c}
  BY TaskAssumption DEF TaskTypes, InSlots, Task!InSlot, Task!Threads, Task!Disposing
<1>5. Task!LeaseIsUsable'
  BY DEF TaskTypes, Task!LeaseIsUsable, Task!CanShow, Task!Threads, Task!Disposing
<1> QED
  BY <1>1, <1>2, <1>3, <1>4, <1>5, SlotsFollow

(* A call has waited too long for a slot.                                    *)
LEMMA QueueTimesOutKeeps ==
    ASSUME TaskInv, NEW c \in Calls, Task!QueueTimesOut(c)
    PROVE  TaskInv'
<1> USE DEF TaskInv, Task!QueueTimesOut, Task!At, Task!Go
<1>1. TaskTypes'
  BY TaskAssumption DEF TaskTypes, ThreadPlaces, Task!Threads, Task!Disposing
<1>2. Locks'
  BY TaskAssumption DEF TaskTypes, Locks, Task!Threads, Task!Disposing
<1>3. TaskDisposals'
  BY DEF TaskTypes, TaskDisposals, Task!Threads, Task!Disposing, Task!Present
<1>4. InSlots' = InSlots
  BY TaskAssumption DEF TaskTypes, InSlots, Task!InSlot, Task!Threads, Task!Disposing
<1>5. Task!LeaseIsUsable'
  BY DEF TaskTypes, Task!LeaseIsUsable, Task!CanShow, Task!Threads, Task!Disposing
<1> QED
  BY <1>1, <1>2, <1>3, <1>4, <1>5, SlotsFollow

(* A call in its slot takes the lock of its lease.                           *)
LEMMA LockCallKeeps ==
    ASSUME TaskInv, NEW c \in Calls, Task!LockLease(c, "slotted", "locked")
    PROVE  TaskInv'
<1> USE DEF TaskInv, Task!LockLease, Task!At, Task!Go
<1>1. TaskTypes'
  BY TaskAssumption DEF TaskTypes, ThreadPlaces, Task!Threads, Task!Disposing
<1>2. Locks'
  BY TaskAssumption, SMTT(20) DEF TaskTypes, Locks, Task!Threads, Task!Disposing, Task!Unheld
<1>3. TaskDisposals'
  BY DEF TaskTypes, TaskDisposals, Task!Threads, Task!Disposing, Task!Present
<1>4. InSlots' = InSlots
  BY TaskAssumption DEF TaskTypes, InSlots, Task!InSlot, Task!Threads, Task!Disposing
<1>5. Task!LeaseIsUsable'
  BY DEF TaskTypes, Task!LeaseIsUsable, Task!CanShow, Task!Threads, Task!Disposing
<1> QED
  BY <1>1, <1>2, <1>3, <1>4, <1>5, SlotsFollow

(* A script starts, or its container turns out to be gone.                   *)
LEMMA RunCallKeeps ==
    ASSUME TaskInv, NEW c \in Calls, Task!RunCall(c)
    PROVE  TaskInv'
<1> USE DEF TaskInv, Task!RunCall, Task!At, Task!Go
<1>1. TaskTypes'
  BY TaskAssumption DEF TaskTypes, ThreadPlaces, Task!Threads, Task!Disposing
<1>2. Locks'
  BY TaskAssumption DEF TaskTypes, Locks, Task!Threads, Task!Disposing
<1>3. TaskDisposals'
  BY DEF TaskTypes, TaskDisposals, Task!Threads, Task!Disposing, Task!Present
<1>4. InSlots' = InSlots
  BY TaskAssumption DEF TaskTypes, InSlots, Task!InSlot, Task!Threads, Task!Disposing
<1>5. Task!LeaseIsUsable'
  BY DEF TaskTypes, Task!LeaseIsUsable, Task!CanShow, Task!Threads, Task!Disposing
<1> QED
  BY <1>1, <1>2, <1>3, <1>4, <1>5, SlotsFollow

(* A script ends; lock and slot are given back.                              *)
LEMMA CallEndsKeeps ==
    ASSUME TaskInv, NEW c \in Calls, Task!CallEnds(c)
    PROVE  TaskInv'
<1> USE DEF TaskInv, Task!CallEnds, Task!Unlock, Task!At, Task!Go
<1>1. TaskTypes'
  <2>1. /\ thread' \in [Task!Threads ->
              [pc : ThreadPlaces, on : Task!Leases \cup {0}, target : Task!Leases \cup {0}]]
        /\ \A d \in Calls : thread'[d].pc \notin {"freezing", "killing", "archive"}
    BY TaskAssumption DEF TaskTypes, ThreadPlaces, Task!Threads, Task!Disposing
  <2>2. box' \in [Task!Leases -> {"none", "up", "killed", "network", "gone"}]
    BY DEF TaskTypes
  <2>3. \A n \in Task!Leases : box'[n] = "none" <=> n > made'
    BY DEF TaskTypes
  <2>4. busy' \in [Task!Leases -> Task!Threads \cup {Task!Unheld}]
    BY DEF TaskTypes, Task!Threads
  <2>5. permits' \in Nat /\ taskTroubles' \in [raised : Nat, crashed : Nat]
    BY DEF TaskTypes
  <2> QED
    BY <2>1, <2>2, <2>3, <2>4, <2>5 DEF TaskTypes
<1>2. Locks'
  BY TaskAssumption DEF TaskTypes, Locks, Task!Threads, Task!Disposing
<1>3. TaskDisposals'
  BY DEF TaskTypes, TaskDisposals, Task!Threads, Task!Disposing, Task!Present
<1>4. c \in InSlots /\ InSlots' = InSlots \ {c}
  BY TaskAssumption DEF TaskTypes, InSlots, Task!InSlot, Task!Threads, Task!Disposing
<1>5. Task!LeaseIsUsable'
  BY DEF TaskTypes, Task!LeaseIsUsable, Task!CanShow, Task!Threads, Task!Disposing
<1> QED
  BY <1>1, <1>2, <1>3, <1>4, <1>5, SlotsFollow

(* A call raises, and goes on to dispose of the lease.                       *)
LEMMA CallRaisesKeeps ==
    ASSUME TaskInv, NEW c \in Calls, Task!CallRaises(c)
    PROVE  TaskInv'
<1> USE DEF TaskInv, Task!CallRaises, Task!Raise, Task!At, Task!Go
<1>1. TaskTypes'
  BY TaskAssumption DEF TaskTypes, ThreadPlaces, Task!Threads, Task!Disposing
<1>2. Locks'
  BY TaskAssumption DEF TaskTypes, Locks, Task!Threads, Task!Disposing
<1>3. TaskDisposals'
  BY DEF TaskTypes, TaskDisposals, Task!Threads, Task!Disposing, Task!Present
<1>4. InSlots' = InSlots
  BY TaskAssumption DEF TaskTypes, InSlots, Task!InSlot, Task!Threads, Task!Disposing
<1>5. Task!LeaseIsUsable'
  BY DEF TaskTypes, Task!LeaseIsUsable, Task!CanShow, Task!Threads, Task!Disposing
<1> QED
  BY <1>1, <1>2, <1>3, <1>4, <1>5, SlotsFollow

(* A disposal has removed the container.                                     *)
LEMMA RemoveContainerKeeps ==
    ASSUME TaskInv, NEW t \in Task!Threads, Task!RemoveContainer(t)
    PROVE  TaskInv'
<1> USE DEF TaskInv, Task!RemoveContainer, Task!At, Task!Go
<1>1. TaskTypes'
  <2>1. /\ thread' \in [Task!Threads ->
              [pc : ThreadPlaces, on : Task!Leases \cup {0}, target : Task!Leases \cup {0}]]
        /\ \A d \in Calls : thread'[d].pc \notin {"freezing", "killing", "archive"}
    BY TaskAssumption DEF TaskTypes, ThreadPlaces, Task!Threads, Task!Disposing
  <2>2. box' \in [Task!Leases -> {"none", "up", "killed", "network", "gone"}]
    BY DEF TaskTypes
  <2>3. \A n \in Task!Leases : box'[n] = "none" <=> n > made'
    BY DEF TaskTypes, TaskDisposals, Task!Disposing
  <2>4. busy' \in [Task!Leases -> Task!Threads \cup {Task!Unheld}]
    BY DEF TaskTypes, Task!Threads
  <2>5. permits' \in Nat /\ taskTroubles' \in [raised : Nat, crashed : Nat]
    BY DEF TaskTypes
  <2> QED
    BY <2>1, <2>2, <2>3, <2>4, <2>5 DEF TaskTypes
<1>2. Locks'
  BY TaskAssumption DEF TaskTypes, Locks, Task!Threads, Task!Disposing
<1>3. TaskDisposals'
  BY DEF TaskTypes, TaskDisposals, Task!Threads, Task!Disposing, Task!Present
<1>4. InSlots' = InSlots
  BY TaskAssumption DEF TaskTypes, InSlots, Task!InSlot, Task!Threads, Task!Disposing
<1>5. Task!LeaseIsUsable'
  BY DEF TaskTypes, Task!LeaseIsUsable, Task!CanShow, Task!Threads, Task!Disposing
<1> QED
  BY <1>1, <1>2, <1>3, <1>4, <1>5, SlotsStay

(* A disposal has removed the network.                                       *)
LEMMA RemoveNetworkKeeps ==
    ASSUME TaskInv, NEW t \in Task!Threads, Task!RemoveNetwork(t)
    PROVE  TaskInv'
<1> USE DEF TaskInv, Task!RemoveNetwork, Task!At, Task!Go
<1>1. TaskTypes'
  <2>1. /\ thread' \in [Task!Threads ->
              [pc : ThreadPlaces, on : Task!Leases \cup {0}, target : Task!Leases \cup {0}]]
        /\ \A d \in Calls : thread'[d].pc \notin {"freezing", "killing", "archive"}
    BY TaskAssumption DEF TaskTypes, ThreadPlaces, Task!Threads, Task!Disposing
  <2>2. box' \in [Task!Leases -> {"none", "up", "killed", "network", "gone"}]
    BY DEF TaskTypes
  <2>3. \A n \in Task!Leases : box'[n] = "none" <=> n > made'
    BY DEF TaskTypes, TaskDisposals, Task!Disposing
  <2>4. busy' \in [Task!Leases -> Task!Threads \cup {Task!Unheld}]
    BY DEF TaskTypes, Task!Threads
  <2>5. permits' \in Nat /\ taskTroubles' \in [raised : Nat, crashed : Nat]
    BY DEF TaskTypes
  <2> QED
    BY <2>1, <2>2, <2>3, <2>4, <2>5 DEF TaskTypes
<1>2. Locks'
  BY TaskAssumption DEF TaskTypes, Locks, Task!Threads, Task!Disposing
<1>3. TaskDisposals'
  BY DEF TaskTypes, TaskDisposals, Task!Threads, Task!Disposing, Task!Present
<1>4. InSlots' = InSlots
  BY TaskAssumption DEF TaskTypes, InSlots, Task!InSlot, Task!Threads, Task!Disposing
<1>5. Task!LeaseIsUsable'
  BY DEF TaskTypes, Task!LeaseIsUsable, Task!CanShow, Task!Threads, Task!Disposing
<1> QED
  BY <1>1, <1>2, <1>3, <1>4, <1>5, SlotsStay

(* A finalization finds the lease of the turn, or none.                      *)
LEMMA BeginFreezeKeeps ==
    ASSUME TaskInv, NEW f \in Finals, Task!BeginFreeze(f)
    PROVE  TaskInv'
<1> USE DEF TaskInv, Task!BeginFreeze, Task!At, Task!Go
<1>1. TaskTypes'
  <2>1. /\ thread' \in [Task!Threads ->
              [pc : ThreadPlaces, on : Task!Leases \cup {0}, target : Task!Leases \cup {0}]]
        /\ \A d \in Calls : thread'[d].pc \notin {"freezing", "killing", "archive"}
    <3>1. thread[f] \in [pc : ThreadPlaces, on : Task!Leases \cup {0}, target : Task!Leases \cup {0}]
      BY DEF TaskTypes, Task!Threads
    <3>2. PICK r \in [pc : ThreadPlaces, on : Task!Leases \cup {0}, target : Task!Leases \cup {0}] :
              thread' = [thread EXCEPT ![f] = r]
      BY <3>1, LeaseNumbers DEF ThreadPlaces
    <3> QED
      BY <3>2, TaskAssumption DEF TaskTypes, Task!Threads
  <2>2. box' \in [Task!Leases -> {"none", "up", "killed", "network", "gone"}]
    BY DEF TaskTypes
  <2>3. \A n \in Task!Leases : box'[n] = "none" <=> n > made'
    BY DEF TaskTypes
  <2>4. busy' \in [Task!Leases -> Task!Threads \cup {Task!Unheld}]
    BY DEF TaskTypes, Task!Threads
  <2>5. permits' \in Nat /\ taskTroubles' \in [raised : Nat, crashed : Nat]
    BY DEF TaskTypes
  <2> QED
    BY <2>1, <2>2, <2>3, <2>4, <2>5 DEF TaskTypes
<1>2. Locks'
  BY TaskAssumption DEF TaskTypes, Locks, Task!Threads, Task!Disposing
<1>3. TaskDisposals'
  BY DEF TaskTypes, TaskDisposals, Task!Threads, Task!Disposing, Task!Present
<1>4. InSlots' = InSlots
  BY TaskAssumption DEF TaskTypes, InSlots, Task!InSlot, Task!Threads, Task!Disposing
<1>5. Task!LeaseIsUsable'
  BY DEF TaskTypes, Task!LeaseIsUsable, Task!CanShow, Task!Threads, Task!Disposing
<1> QED
  BY <1>1, <1>2, <1>3, <1>4, <1>5, SlotsStay

(* A finalization takes the lock of the lease.                               *)
LEMMA LockFinalKeeps ==
    ASSUME TaskInv, NEW f \in Finals, Task!LockLease(f, "freezing", "killing")
    PROVE  TaskInv'
<1> USE DEF TaskInv, Task!LockLease, Task!At, Task!Go
<1>1. TaskTypes'
  <2>1. /\ thread' \in [Task!Threads ->
              [pc : ThreadPlaces, on : Task!Leases \cup {0}, target : Task!Leases \cup {0}]]
        /\ \A d \in Calls : thread'[d].pc \notin {"freezing", "killing", "archive"}
    BY TaskAssumption DEF TaskTypes, ThreadPlaces, Task!Threads, Task!Disposing
  <2>2. box' \in [Task!Leases -> {"none", "up", "killed", "network", "gone"}]
    BY DEF TaskTypes
  <2>3. \A n \in Task!Leases : box'[n] = "none" <=> n > made'
    BY DEF TaskTypes
  <2>4. busy' \in [Task!Leases -> Task!Threads \cup {Task!Unheld}]
    BY DEF TaskTypes, Task!Threads
  <2>5. permits' \in Nat /\ taskTroubles' \in [raised : Nat, crashed : Nat]
    BY DEF TaskTypes
  <2> QED
    BY <2>1, <2>2, <2>3, <2>4, <2>5 DEF TaskTypes
<1>2. Locks'
  BY TaskAssumption DEF TaskTypes, Locks, Task!Threads, Task!Disposing, Task!Unheld
<1>3. TaskDisposals'
  BY DEF TaskTypes, TaskDisposals, Task!Threads, Task!Disposing, Task!Present
<1>4. InSlots' = InSlots
  BY TaskAssumption DEF TaskTypes, InSlots, Task!InSlot, Task!Threads, Task!Disposing
<1>5. Task!LeaseIsUsable'
  BY DEF TaskTypes, Task!LeaseIsUsable, Task!CanShow, Task!Threads, Task!Disposing
<1> QED
  BY <1>1, <1>2, <1>3, <1>4, <1>5, SlotsStay

(* A finalization kills the container and freezes the lease.                 *)
LEMMA KillKeeps ==
    ASSUME TaskInv, NEW f \in Finals, Task!Kill(f)
    PROVE  TaskInv'
<1> USE DEF TaskInv, Task!Kill, Task!At, Task!Go
<1>1. TaskTypes'
  <2>1. /\ thread' \in [Task!Threads ->
              [pc : ThreadPlaces, on : Task!Leases \cup {0}, target : Task!Leases \cup {0}]]
        /\ \A d \in Calls : thread'[d].pc \notin {"freezing", "killing", "archive"}
    BY TaskAssumption DEF TaskTypes, ThreadPlaces, Task!Threads, Task!Disposing
  <2>2. box' \in [Task!Leases -> {"none", "up", "killed", "network", "gone"}]
    BY DEF TaskTypes
  <2>3. \A n \in Task!Leases : box'[n] = "none" <=> n > made'
    BY DEF TaskTypes
  <2>4. busy' \in [Task!Leases -> Task!Threads \cup {Task!Unheld}]
    BY DEF TaskTypes, Task!Threads
  <2>5. permits' \in Nat /\ taskTroubles' \in [raised : Nat, crashed : Nat]
    BY DEF TaskTypes
  <2> QED
    BY <2>1, <2>2, <2>3, <2>4, <2>5 DEF TaskTypes
<1>2. Locks'
  BY TaskAssumption DEF TaskTypes, Locks, Task!Threads, Task!Disposing
<1>3. TaskDisposals'
  BY DEF TaskTypes, TaskDisposals, Task!Threads, Task!Disposing, Task!Present
<1>4. InSlots' = InSlots
  BY TaskAssumption DEF TaskTypes, InSlots, Task!InSlot, Task!Threads, Task!Disposing
<1>5. Task!LeaseIsUsable'
  BY DEF TaskTypes, Task!LeaseIsUsable, Task!CanShow, Task!Threads, Task!Disposing
<1> QED
  BY <1>1, <1>2, <1>3, <1>4, <1>5, SlotsStay

(* A finalization fails, before or after the kill.                           *)
LEMMA FinalFailsKeeps ==
    ASSUME TaskInv, NEW f \in Finals, Task!FinalFails(f)
    PROVE  TaskInv'
<1> USE DEF TaskInv, Task!FinalFails, Task!Raise, Task!At, Task!Go
<1>1. TaskTypes'
  <2>1. /\ thread' \in [Task!Threads ->
              [pc : ThreadPlaces, on : Task!Leases \cup {0}, target : Task!Leases \cup {0}]]
        /\ \A d \in Calls : thread'[d].pc \notin {"freezing", "killing", "archive"}
    BY TaskAssumption DEF TaskTypes, ThreadPlaces, Task!Threads, Task!Disposing
  <2>2. box' \in [Task!Leases -> {"none", "up", "killed", "network", "gone"}]
    BY DEF TaskTypes
  <2>3. \A n \in Task!Leases : box'[n] = "none" <=> n > made'
    BY DEF TaskTypes
  <2>4. busy' \in [Task!Leases -> Task!Threads \cup {Task!Unheld}]
    BY DEF TaskTypes, Task!Threads
  <2>5. permits' \in Nat /\ taskTroubles' \in [raised : Nat, crashed : Nat]
    BY DEF TaskTypes
  <2> QED
    BY <2>1, <2>2, <2>3, <2>4, <2>5 DEF TaskTypes
<1>2. Locks'
  BY TaskAssumption DEF TaskTypes, Locks, Task!Threads, Task!Disposing
<1>3. TaskDisposals'
  BY DEF TaskTypes, TaskDisposals, Task!Threads, Task!Disposing, Task!Present
<1>4. InSlots' = InSlots
  BY TaskAssumption DEF TaskTypes, InSlots, Task!InSlot, Task!Threads, Task!Disposing
<1>5. Task!LeaseIsUsable'
  BY DEF TaskTypes, Task!LeaseIsUsable, Task!CanShow, Task!Threads, Task!Disposing
<1> QED
  BY <1>1, <1>2, <1>3, <1>4, <1>5, SlotsStay

(* The workspace is archived.                                                *)
LEMMA ArchivedKeeps ==
    ASSUME TaskInv, NEW f \in Finals, Task!Archived(f)
    PROVE  TaskInv'
<1> USE DEF TaskInv, Task!Archived, Task!At, Task!Go
<1>1. TaskTypes'
  BY TaskAssumption DEF TaskTypes, ThreadPlaces, Task!Threads, Task!Disposing
<1>2. Locks'
  BY TaskAssumption DEF TaskTypes, Locks, Task!Threads, Task!Disposing
<1>3. TaskDisposals'
  BY DEF TaskTypes, TaskDisposals, Task!Threads, Task!Disposing, Task!Present
<1>4. InSlots' = InSlots
  BY TaskAssumption DEF TaskTypes, InSlots, Task!InSlot, Task!Threads, Task!Disposing
<1>5. Task!LeaseIsUsable'
  BY DEF TaskTypes, Task!LeaseIsUsable, Task!CanShow, Task!Threads, Task!Disposing
<1> QED
  BY <1>1, <1>2, <1>3, <1>4, <1>5, SlotsStay

(* What a thread that leaves dispose gives back.                            *)
LEMMA LeaveGivesBack ==
    ASSUME TaskInv, NEW t \in Task!Threads, thread[t].pc \in {"discard"} \cup Task!Disposing,
           Task!Leave(t)
    PROVE  /\ thread' = [thread EXCEPT ![t].pc = "done"]
           /\ thread' \in [Task!Threads ->
                 [pc : ThreadPlaces, on : Task!Leases \cup {0}, target : Task!Leases \cup {0}]]
           /\ \A c \in Calls : thread'[c].pc \notin {"freezing", "killing", "archive"}
           /\ busy' \in [Task!Leases -> Task!Threads \cup {Task!Unheld}]
           /\ permits' \in Nat
           /\ Locks'
           /\ Task!SlotsAreReturned'
<1> USE DEF TaskInv
<1>1. thread' = [thread EXCEPT ![t].pc = "done"]
  BY DEF Task!Leave, Task!Unlock, Task!Go
<1>2. /\ thread' \in [Task!Threads ->
             [pc : ThreadPlaces, on : Task!Leases \cup {0}, target : Task!Leases \cup {0}]]
      /\ \A c \in Calls : thread'[c].pc \notin {"freezing", "killing", "archive"}
  BY <1>1, TaskAssumption DEF TaskTypes, ThreadPlaces, Task!Threads
<1>3. busy' \in [Task!Leases -> Task!Threads \cup {Task!Unheld}] /\ permits' \in Nat
  BY DEF TaskTypes, Task!Leave, Task!Unlock, Task!Threads
<1>4. Locks'
  <2>1. CASE t \in Calls
    BY <1>1, <2>1, TaskAssumption
       DEF TaskTypes, Locks, Task!Leave, Task!Unlock, Task!Threads, Task!Disposing
  <2>2. CASE t \notin Calls
    BY <1>1, <2>2, TaskAssumption
       DEF TaskTypes, Locks, Task!Leave, Task!Threads, Task!Disposing
  <2> QED
    BY <2>1, <2>2
<1>5. Task!SlotsAreReturned'
  <2>1. CASE t \in Calls
    <3>1. t \in InSlots /\ InSlots' = InSlots \ {t}
      BY <1>1, <2>1 DEF TaskTypes, InSlots, Task!InSlot, Task!Threads, Task!Disposing
    <3> QED
      BY <2>1, <3>1, SlotsFollow DEF Task!Leave, Task!Unlock
  <2>2. CASE t \notin Calls
    <3>1. InSlots' = InSlots
      BY <1>1, <2>2 DEF TaskTypes, InSlots, Task!InSlot, Task!Threads
    <3> QED
      BY <2>2, <3>1, SlotsStay DEF Task!Leave
  <2> QED
    BY <2>1, <2>2
<1> QED
  BY <1>1, <1>2, <1>3, <1>4, <1>5

(* A call finds the lease of the turn, or makes one.                         *)
LEMMA LookKeeps ==
    ASSUME TaskInv, NEW c \in Calls, Task!Look(c)
    PROVE  TaskInv'
<1> USE DEF TaskInv, Task!At, Task!Go
<1>1. ASSUME NEW r \in [pc : {"queued", "done"}, on : Task!Leases \cup {0},
                       target : Task!Leases \cup {0}],
             thread' = [thread EXCEPT ![c] = r]
      PROVE  Task!SlotsAreReturned'
  <2>1. InSlots' = InSlots
    BY <1>1 DEF Task!Look, TaskTypes, InSlots, Task!InSlot, Task!Threads, Task!Disposing
  <2> QED
    BY <2>1, SlotsStay DEF Task!Look
<1>3. thread[c] \in [pc : ThreadPlaces, on : Task!Leases \cup {0}, target : Task!Leases \cup {0}]
  BY DEF TaskTypes, Task!Threads
<1>4. CASE lease # 0 /\ UNCHANGED <<lease, stored, made, box>>
  <2>0. \/ thread' = [thread EXCEPT ![c] = [thread[c] EXCEPT !.pc = "done"]]
        \/ thread' = [thread EXCEPT ![c] = [thread[c] EXCEPT !.pc = "queued", !.on = lease]]
    BY <1>4 DEF Task!Look
  <2>1. PICK r \in [pc : {"queued", "done"}, on : Task!Leases \cup {0},
                    target : Task!Leases \cup {0}] :
            thread' = [thread EXCEPT ![c] = r] /\ (r.pc = "queued" => r.on # 0)
    <3> DEFINE S == [pc : {"queued", "done"}, on : Task!Leases \cup {0},
                     target : Task!Leases \cup {0}]
               ended == [thread[c] EXCEPT !.pc = "done"]
               queued == [thread[c] EXCEPT !.pc = "queued", !.on = lease]
    <3>1. ended \in S /\ ended.pc = "done"
      BY <1>3
    <3>2. queued \in S /\ queued.on # 0
      BY <1>3, <1>4, LeaseNumbers
    <3> QED
      BY <2>0, <3>1, <3>2
  <2>2. TaskTypes'
    BY <1>4, <2>1 DEF Task!Look, TaskTypes, ThreadPlaces, Task!Threads
  <2>3. Locks'
    BY <2>1 DEF Task!Look, TaskTypes, Locks, Task!Threads, Task!Disposing
  <2>4. TaskDisposals'
    BY <1>4, <2>1 DEF Task!Look, TaskTypes, TaskDisposals, Task!Threads, Task!Disposing, Task!Present
  <2>5. Task!LeaseIsUsable'
    BY <1>4, <2>1 DEF Task!Look, TaskTypes, Task!LeaseIsUsable, Task!CanShow, Task!Threads,
          Task!Disposing
  <2> QED
    BY <1>1, <2>1, <2>2, <2>3, <2>4, <2>5
<1>5. CASE lease = 0 /\ Task!Go(c, "done") /\ UNCHANGED <<lease, stored, made, box>>
  <2>1. TaskTypes'
    BY <1>5 DEF Task!Look, TaskTypes, ThreadPlaces, Task!Threads
  <2>2. Locks'
    BY <1>5 DEF Task!Look, TaskTypes, Locks, Task!Threads, Task!Disposing
  <2>3. TaskDisposals'
    BY <1>5 DEF Task!Look, TaskTypes, TaskDisposals, Task!Threads, Task!Disposing, Task!Present
  <2>4. Task!LeaseIsUsable'
    BY <1>5 DEF Task!LeaseIsUsable
  <2>5. Task!SlotsAreReturned'
    BY <1>1, <1>3, <1>5
  <2> QED
    BY <2>1, <2>2, <2>3, <2>4, <2>5
<1>6. CASE /\ lease = 0 /\ \A n \in Task!Leases : ~Task!Present(n)
           /\ made + 1 \in Task!Leases
           /\ made' = made + 1 /\ lease' = made' /\ stored' = made'
           /\ box' = [box EXCEPT ![made'] = "up"]
           /\ thread' = [thread EXCEPT ![c] = [@ EXCEPT !.pc = "queued", !.on = made']]
  <2>1. PICK k \in Nat : k = Cardinality(Calls) /\ Task!Leases = 1..(k + 1)
    BY LeaseNumbers, CountedAlike DEF Task!Leases
  <2>2. PICK r \in [pc : {"queued"}, on : Task!Leases, target : Task!Leases \cup {0}] :
            thread' = [thread EXCEPT ![c] = r]
    BY <1>3, <1>6
  <2>3. TaskTypes'
    BY <1>6, <2>1, <2>2 DEF Task!Look, TaskTypes, ThreadPlaces, Task!Threads
  <2>4. Locks'
    BY <2>1, <2>2 DEF Task!Look, TaskTypes, Locks, Task!Threads, Task!Disposing
  <2>5. TaskDisposals'
    BY <1>6, <2>1, <2>2 DEF Task!Look, TaskTypes, TaskDisposals, Task!Threads, Task!Disposing,
          Task!Present
  <2>6. Task!LeaseIsUsable'
    BY <1>6 DEF TaskTypes, Task!LeaseIsUsable, Task!CanShow
  <2> QED
    BY <1>1, <2>2, <2>3, <2>4, <2>5, <2>6
<1> QED
  BY <1>4, <1>5, <1>6 DEF Task!Look

(* A disposal finds a lease under the name of the task, or none.             *)
LEMMA BeginDisposeKeeps ==
    ASSUME TaskInv, NEW t \in Task!Threads, Task!BeginDispose(t)
    PROVE  TaskInv'
<1> USE DEF TaskInv, Task!At, Task!Go
<1>1. CASE lease = 0
  <2>1. /\ Task!Leave(t) /\ doubled' = doubled /\ thread[t].pc = "discard"
        /\ UNCHANGED <<lease, stored, made, box, frozen, taskTroubles>>
    BY <1>1, Zenon DEF Task!BeginDispose, TaskTypes
  <2>2. TaskTypes'
    BY <2>1, LeaveGivesBack DEF TaskTypes
  <2>3. TaskDisposals'
    BY <2>1, LeaveGivesBack DEF TaskTypes, TaskDisposals, Task!Threads, Task!Disposing, Task!Present
  <2>4. Task!LeaseIsUsable'
    BY <1>1, <2>1 DEF Task!LeaseIsUsable
  <2> QED
    BY <2>1, <2>2, <2>3, <2>4, LeaveGivesBack
<1>2. CASE lease # 0
  <2>1. thread[t] \in [pc : ThreadPlaces, on : Task!Leases \cup {0}, target : Task!Leases \cup {0}]
    BY DEF TaskTypes, Task!Threads
  <2>2. PICK r \in [pc : {"remove"}, on : Task!Leases \cup {0}, target : {lease}] :
            thread' = [thread EXCEPT ![t] = r] /\ r.on = thread[t].on
    BY <1>2, <2>1, LeaseNumbers DEF Task!BeginDispose
  <2>3. TaskTypes'
    BY <1>2, <2>2, LeaseNumbers DEF Task!BeginDispose, TaskTypes, ThreadPlaces, Task!Threads, Task!Disposing
  <2>4. Locks'
    BY <1>2, <2>2, TaskAssumption DEF Task!BeginDispose, TaskTypes, Locks, Task!Threads, Task!Disposing
  <2>5. TaskDisposals'
    <3>1. ~doubled' => ~doubled /\ \A u \in Task!Threads : thread[u].pc \notin Task!Disposing
      BY <1>2 DEF Task!BeginDispose
    <3>2. box[lease] # "none" /\ lease \in Task!Leases
      BY <1>2, LeaseNumbers DEF TaskTypes
    <3> QED
      BY <1>2, <2>2, <3>1, <3>2 DEF Task!BeginDispose, TaskTypes, TaskDisposals, Task!Threads, Task!Disposing,
            Task!Present
  <2>6. InSlots' = InSlots
    BY <1>2, <2>2 DEF Task!BeginDispose, TaskTypes, InSlots, Task!InSlot, Task!Threads, Task!Disposing
  <2>7. Task!LeaseIsUsable'
    BY <1>2, <2>2 DEF Task!BeginDispose, TaskTypes, Task!LeaseIsUsable, Task!Disposing
  <2> QED
    BY <1>2, <2>3, <2>4, <2>5, <2>6, <2>7, SlotsStay DEF Task!BeginDispose
<1> QED
  BY <1>1, <1>2

(* A removal raises: the lease stays in the table.                           *)
LEMMA DisposeRaisesKeeps ==
    ASSUME TaskInv, NEW t \in Task!Threads, Task!DisposeRaises(t)
    PROVE  TaskInv'
<1> USE DEF TaskInv
<1>1. /\ Task!Leave(t) /\ thread[t].pc \in {"discard"} \cup Task!Disposing
      /\ taskTroubles' = [taskTroubles EXCEPT !.raised = @ + 1]
      /\ UNCHANGED <<lease, stored, made, box, frozen, doubled>>
  BY DEF Task!DisposeRaises, Task!Raise, Task!Disposing
<1>2. taskTroubles' \in [raised : Nat, crashed : Nat] /\ taskTroubles'.raised # 0
      /\ taskTroubles'.raised + taskTroubles'.crashed # 0
  BY <1>1 DEF TaskTypes
<1>3. TaskTypes'
  BY <1>1, <1>2, LeaveGivesBack DEF TaskTypes
<1>4. TaskDisposals'
  BY <1>1, <1>2, LeaveGivesBack DEF TaskTypes, TaskDisposals, Task!Threads, Task!Disposing, Task!Present
<1>5. Task!LeaseIsUsable'
  BY <1>2 DEF Task!LeaseIsUsable
<1> QED
  BY <1>1, <1>3, <1>4, <1>5, LeaveGivesBack

(* The lease of the task is taken out of the table.                          *)
LEMMA ForgetKeeps ==
    ASSUME TaskInv, NEW t \in Task!Threads, Task!Forget(t)
    PROVE  TaskInv'
<1> USE DEF TaskInv
<1>1. /\ Task!Leave(t) /\ thread[t].pc = "forget" /\ thread[t].pc \in {"discard"} \cup Task!Disposing
      /\ lease' = 0 /\ stored' = 0
      /\ UNCHANGED <<made, box, frozen, doubled, taskTroubles>>
  BY DEF Task!Forget, Task!At, Task!Disposing
<1>2. TaskTypes'
  BY <1>1, LeaveGivesBack DEF TaskTypes
<1>3. TaskDisposals'
  BY <1>1, LeaveGivesBack DEF TaskTypes, TaskDisposals, Task!Threads, Task!Disposing, Task!Present
<1>4. Task!LeaseIsUsable'
  BY <1>1 DEF Task!LeaseIsUsable
<1> QED
  BY <1>1, <1>2, <1>3, <1>4, LeaveGivesBack

(* The manager starts again, with the leases whose container is there.       *)
LEMMA RestartKeeps ==
    ASSUME TaskInv, Task!Restart
    PROVE  TaskInv'
<1> USE DEF TaskInv
<1>1. /\ thread' \in [Task!Threads ->
             [pc : ThreadPlaces, on : Task!Leases \cup {0}, target : Task!Leases \cup {0}]]
      /\ \A t \in Task!Threads : thread'[t].pc \in {"new", "done"}
  BY DEF Task!Restart, Task!At, TaskTypes, ThreadPlaces
<1>2. /\ taskTroubles' \in [raised : Nat, crashed : Nat]
      /\ taskTroubles'.raised = taskTroubles.raised
      /\ taskTroubles'.raised + taskTroubles'.crashed # 0
  BY DEF Task!Restart, TaskTypes
<1>3. /\ busy' \in [Task!Leases -> {Task!Unheld}] /\ permits' = Slots /\ doubled' = doubled
      /\ stored' = lease' /\ lease' \in {0, lease}
      /\ lease' # 0 => box[lease] \in {"up", "killed"}
  BY DEF Task!Restart, Task!CanShow, TaskTypes
<1>4. TaskTypes'
  <2>1. CASE UNCHANGED <<made, box>>
    BY <1>1, <1>2, <1>3, <2>1, TaskAssumption DEF TaskTypes, Task!Threads
  <2>2. CASE made + 1 \in Task!Leases /\ made' = made + 1 /\ box' = [box EXCEPT ![made'] = "up"]
    <3>1. PICK k \in Nat : k = Cardinality(Calls) /\ Task!Leases = 1..(k + 1)
      BY LeaseNumbers, CountedAlike DEF Task!Leases
    <3>2. /\ made' \in Nat /\ made' <= Cardinality(Calls) + 1 /\ lease' \in 0..made'
          /\ box' \in [Task!Leases -> {"none", "up", "killed", "network", "gone"}]
      BY <1>3, <2>2, <3>1 DEF TaskTypes
    <3>3. \A n \in Task!Leases : box'[n] = "none" <=> n > made'
      BY <2>2, <3>1 DEF TaskTypes
    <3> QED
      BY <1>1, <1>2, <1>3, <3>2, <3>3, TaskAssumption DEF TaskTypes, Task!Threads
  <2> QED
    BY <2>1, <2>2 DEF Task!Restart
<1>5. Locks'
  BY <1>1 DEF Locks, Task!Disposing
<1>6. \A m, n \in Task!Leases : Task!Present(m)' /\ Task!Present(n)' => m = n
  BY DEF Task!Restart, Task!Present, TaskTypes, TaskDisposals
<1>7. TaskDisposals'
  BY <1>1, <1>2, <1>3, <1>6 DEF TaskDisposals, Task!Disposing, Task!Present
<1>8. InSlots' = {}
  BY <1>1 DEF InSlots, Task!InSlot, Task!Disposing, Task!Threads
<1>9. Task!SlotsAreReturned'
  BY <1>3, <1>8, FS_EmptySet, TaskAssumption, CountedAlike DEF InSlots, Task!SlotsAreReturned
<1>10. Task!LeaseIsUsable'
  <2>1. lease' # 0 => box'[lease'] \in {"up", "killed"}
    BY <1>3, LeaseNumbers DEF Task!Restart, TaskTypes
  <2> QED
    BY <2>1 DEF Task!LeaseIsUsable, Task!CanShow
<1> QED
  BY <1>4, <1>5, <1>7, <1>9, <1>10

(* Every step of the containers of a turn keeps the invariant.              *)
LEMMA TaskNextKeeps == TaskInv /\ [Task!TaskNext]_Task!taskVars => TaskInv'
<1> SUFFICES ASSUME TaskInv, [Task!TaskNext]_Task!taskVars PROVE TaskInv'
  OBVIOUS
<1>1. ASSUME NEW c \in Calls, Task!Look(c) \/ Task!CreateFails(c) \/ Task!ExecuteStep(c)
      PROVE  TaskInv'
  BY <1>1, LookKeeps, CreateFailsKeeps, TakeSlotKeeps, QueueTimesOutKeeps, LockCallKeeps,
     RunCallKeeps, CallEndsKeeps, CallRaisesKeeps DEF Task!ExecuteStep
<1>2. ASSUME NEW t \in Task!Threads, Task!DisposeStep(t) PROVE TaskInv'
  BY <1>2, BeginDisposeKeeps, RemoveContainerKeeps, RemoveNetworkKeeps, DisposeRaisesKeeps,
     ForgetKeeps DEF Task!DisposeStep
<1>3. ASSUME NEW f \in Finals, Task!BeginFreeze(f) \/ Task!FinalStep(f) PROVE TaskInv'
  BY <1>3, BeginFreezeKeeps, LockFinalKeeps, KillKeeps, FinalFailsKeeps, ArchivedKeeps
     DEF Task!FinalStep
<1>4. CASE UNCHANGED Task!taskVars
  <2>1. UNCHANGED <<lease, stored, made, box, frozen, thread, busy, permits, doubled, taskTroubles>>
    BY <1>4 DEF Task!taskVars
  <2>2. InSlots' = InSlots
    BY <2>1 DEF InSlots, Task!InSlot
  <2>3. TaskTypes' /\ Locks'
    BY <2>1 DEF TaskInv, TaskTypes, Locks
  <2>4. TaskDisposals' /\ Task!LeaseIsUsable'
    BY <2>1 DEF TaskInv, TaskDisposals, Task!Present, Task!LeaseIsUsable, Task!CanShow
  <2> QED
    BY <2>1, <2>2, <2>3, <2>4, SlotsStay DEF TaskInv
<1> QED
  BY <1>1, <1>2, <1>3, <1>4, RestartKeeps DEF Task!TaskNext

(* What the invariant says of the three properties of the containers.       *)
LEMMA TaskInvGives == TaskInv => Task!OneScriptAtATime /\ Task!SlotsAreReturned /\ Task!NoOrphan
                                 /\ Task!LeaseIsUsable
<1> SUFFICES ASSUME TaskInv PROVE Task!OneScriptAtATime /\ Task!NoOrphan
  BY DEF TaskInv
<1>1. Task!OneScriptAtATime
  <2> SUFFICES ASSUME NEW c \in Calls, NEW d \in Calls,
                      thread[c].pc = "running", thread[d].pc = "running",
                      box[thread[c].on] = "up", box[thread[d].on] = "up"
               PROVE  c = d
    BY DEF Task!OneScriptAtATime, Task!At
  <2>1. /\ thread[c].on \in Task!Leases /\ busy[thread[c].on] = c
        /\ thread[d].on \in Task!Leases /\ busy[thread[d].on] = d
    BY DEF TaskInv, TaskTypes, Locks, Task!Threads
  <2> QED
    BY <2>1 DEF TaskInv, TaskDisposals, Task!Present
<1>2. Task!NoOrphan
  BY DEF TaskInv, TaskDisposals, Task!NoOrphan
<1> QED
  BY <1>1, <1>2

(* The containers of a turn, whatever is called in whatever order and        *)
(* whatever raises or crashes: threads, locks, slots, lease and Docker agree. *)
THEOREM TaskContainersAgree == Task!TaskSpec => []TaskInv
BY TaskInitInv, TaskNextKeeps, PTL DEF Task!TaskSpec

------------------------------------------------------------------------------
(* The images of skills (SkillEnvironments). *)

EnvTypes ==
    /\ submitted \in 0..MaxBuilds /\ latest \in 0..submitted
    /\ image \in BOOLEAN
    /\ build \in [Env!Builds -> {"none", "queued"} \cup Env!Working \cup Env!Over]
    /\ record \in [Env!Builds -> {"none", "preparing", "ready", "failed", "interrupted"}]
    /\ caller \in [Env!Callers ->
          [pc : {"new", "look", "status", "start", "submit", "get", "wait", "done"},
           on : 0..submitted]]
    /\ reply \in [Env!Callers -> Env!Answers]

\* Where a build stands, its record is.
RecordsFollow ==
    \A b \in Env!Builds :
        /\ b > submitted => build[b] = "none"
        /\ build[b] \in {"none", "queued", "record"} => record[b] = "none"
        /\ build[b] \in {"remove", "unlink", "unlink failed"} => record[b] # "preparing"

\* A call in progress has seen an image that exists, and the end of a build whose
\* future it goes for.
SeenInTime ==
    \A c \in Env!Callers \ seen :
        /\ image => caller[c].pc \in {"new", "done"}
        /\ caller[c].pc = "get" /\ latest # 0 => build[latest] # "ok"
        /\ caller[c].pc = "wait" => caller[c].on # 0 /\ build[caller[c].on] # "ok"

EnvInv == /\ EnvTypes /\ RecordsFollow /\ SeenInTime
          /\ Env!RecordsAreHonest /\ Env!AnsweredImageExisted

(* The invariant of the skill's image holds at the start.                    *)
LEMMA EnvInitInv == Env!EnvInit => EnvInv
<1> SUFFICES ASSUME Env!EnvInit PROVE EnvInv
  OBVIOUS
<1> USE DEF Env!EnvInit
<1>1. EnvTypes
  BY EnvAssumption DEF EnvTypes, Env!Answers
<1>2. RecordsFollow
  BY DEF RecordsFollow
<1>3. SeenInTime
  BY DEF SeenInTime, Env!Active
<1>4. Env!RecordsAreHonest /\ Env!AnsweredImageExisted
  BY DEF Env!RecordsAreHonest, Env!AnsweredImageExisted
<1> QED
  BY <1>1, <1>2, <1>3, <1>4 DEF EnvInv

(* A caller takes a step that submits nothing: it may be given the image if  *)
(* it has seen it, and go for the future if that is not over.               *)
LEMMA CallerMoves ==
    ASSUME EnvInv, NEW c \in Env!Callers, NEW a \in Env!Answers,
           NEW pc \in {"look", "status", "start", "submit", "get", "done"},
           caller' = [caller EXCEPT ![c].pc = pc],
           reply' = [reply EXCEPT ![c] = a],
           seen \subseteq seen', UNCHANGED <<image, latest, submitted, build, record, unwritten>>,
           image /\ pc # "done" => c \in seen',
           pc = "get" /\ latest # 0 => c \in seen' \/ build[latest] # "ok",
           a = "image" => c \in seen'
    PROVE  EnvInv'
<1> USE DEF EnvInv
<1>1. EnvTypes'
  BY DEF EnvTypes
<1>2. RecordsFollow' /\ Env!RecordsAreHonest'
  BY DEF RecordsFollow, Env!RecordsAreHonest
<1>3. SeenInTime'
  <2> SUFFICES ASSUME NEW d \in Env!Callers, d \notin seen'
               PROVE  /\ image => caller'[d].pc \in {"new", "done"}
                      /\ caller'[d].pc = "get" /\ latest # 0 => build[latest] # "ok"
                      /\ caller'[d].pc = "wait" =>
                            caller'[d].on # 0 /\ build[caller'[d].on] # "ok"
    BY DEF SeenInTime
  <2>1. CASE d = c
    BY <2>1 DEF EnvTypes
  <2>2. CASE d # c
    BY <2>2 DEF EnvTypes, SeenInTime
  <2> QED
    BY <2>1, <2>2
<1>4. Env!AnsweredImageExisted'
  BY DEF EnvTypes, Env!AnsweredImageExisted
<1> QED
  BY <1>1, <1>2, <1>3, <1>4

(* A caller begins.                                                          *)
LEMMA CallKeeps ==
    ASSUME EnvInv, NEW c \in Env!Callers, Env!Call(c)
    PROVE  EnvInv'
<1>1. reply' = [reply EXCEPT ![c] = reply[c]] /\ reply[c] \in Env!Answers
  BY DEF EnvInv, EnvTypes, Env!Call, Env!Go
<1>2. reply[c] = "image" => c \in seen
  BY DEF EnvInv, Env!AnsweredImageExisted
<1> QED
  BY <1>1, <1>2, CallerMoves DEF Env!Call, Env!Go, Env!buildVars

(* A caller looks for the image.                                             *)
LEMMA LookForImageKeeps ==
    ASSUME EnvInv, NEW c \in Env!Callers, Env!Look(c)
    PROVE  EnvInv'
<1>1. reply[c] \in Env!Answers /\ (reply[c] = "image" => c \in seen) /\ (image => c \in seen)
  BY DEF EnvInv, EnvTypes, SeenInTime, Env!AnsweredImageExisted, Env!Look, Env!At
<1>2. CASE image
  BY <1>1, <1>2, CallerMoves DEF Env!Look, Env!Answer, Env!Answers, Env!buildVars
<1>3. CASE ~image
  <2>1. reply' = [reply EXCEPT ![c] = reply[c]]
    BY <1>3 DEF Env!Look, Env!Go, EnvInv, EnvTypes
  <2> QED
    BY <1>1, <1>3, <2>1, CallerMoves DEF Env!Look, Env!Go, Env!buildVars
<1> QED
  BY <1>2, <1>3

(* A caller without an image asks for the latest build.                      *)
LEMMA StatusOfKeeps ==
    ASSUME EnvInv, NEW c \in Env!Callers, Env!StatusOf(c)
    PROVE  EnvInv'
<1>1. reply[c] \in Env!Answers /\ (reply[c] = "image" => c \in seen) /\ (image => c \in seen)
  BY DEF EnvInv, EnvTypes, SeenInTime, Env!AnsweredImageExisted, Env!StatusOf, Env!At
<1>2. CASE latest = 0
  <2>1. reply' = [reply EXCEPT ![c] = reply[c]]
    BY <1>2 DEF Env!StatusOf, Env!Go, EnvInv, EnvTypes
  <2> QED
    BY <1>1, <1>2, <2>1, CallerMoves DEF Env!StatusOf, Env!Go, Env!buildVars
<1>3. CASE latest # 0
  <2>1. Env!StateOfBuild(latest) \in Env!Answers \ {"image"}
    BY DEF Env!StateOfBuild, Env!Answers
  <2> QED
    BY <1>1, <1>3, <2>1, CallerMoves DEF Env!StatusOf, Env!Answer, Env!buildVars
<1> QED
  BY <1>2, <1>3

(* A caller that starts a build looks for the image again.                   *)
LEMMA StartLookKeeps ==
    ASSUME EnvInv, NEW c \in Env!Callers, Env!StartLook(c)
    PROVE  EnvInv'
<1>1. reply[c] \in Env!Answers /\ (reply[c] = "image" => c \in seen) /\ (image => c \in seen)
  BY DEF EnvInv, EnvTypes, SeenInTime, Env!AnsweredImageExisted, Env!StartLook, Env!At
<1>2. CASE image /\ c \notin Scripts
  BY <1>1, <1>2, CallerMoves DEF Env!StartLook, Env!Answer, Env!Answers, Env!buildVars
<1>3. CASE ~image \/ c \in Scripts
  <2>1. reply' = [reply EXCEPT ![c] = reply[c]]
    BY <1>3 DEF Env!StartLook, Env!Go, EnvInv, EnvTypes
  <2> QED
    BY <1>1, <1>3, <2>1, CallerMoves DEF Env!StartLook, Env!Go, Env!buildVars
<1> QED
  BY <1>2, <1>3

(* A caller submits a build, or meets the latest one.                        *)
LEMMA SubmitKeeps ==
    ASSUME EnvInv, NEW c \in Env!Callers, Env!Submit(c)
    PROVE  EnvInv'
<1>1. reply[c] \in Env!Answers /\ (reply[c] = "image" => c \in seen) /\ (image => c \in seen)
  BY DEF EnvInv, EnvTypes, SeenInTime, Env!AnsweredImageExisted, Env!Submit, Env!At
<1>2. PICK a \in Env!Answers :
          reply' = [reply EXCEPT ![c] = a] /\ (a = "image" => c \in seen)
  <2>1. CASE c \in Scripts
    BY <1>1, <2>1 DEF Env!Submit, Env!Go, EnvInv, EnvTypes
  <2>2. CASE c \notin Scripts
    BY <2>2 DEF Env!Submit, Env!Answer, Env!Answers, Env!StateOfBuild
  <2> QED
    BY <2>1, <2>2
<1>3. PICK pc \in {"get", "done"} : caller' = [caller EXCEPT ![c].pc = pc]
  BY DEF Env!Submit, Env!Go, Env!Answer
<1>4. CASE ~Env!Repeats(c)
  BY <1>1, <1>2, <1>3, <1>4, CallerMoves DEF Env!Submit, Env!Repeats, EnvInv
<1>5. CASE Env!Repeats(c)
  <2>1. /\ submitted < MaxBuilds /\ submitted' = submitted + 1 /\ latest' = submitted'
        /\ build' = [build EXCEPT ![submitted'] = "queued"]
        /\ UNCHANGED <<image, record, seen, unwritten>>
    BY <1>5 DEF Env!Submit
  <2>2. PICK n \in Nat : /\ n = submitted' /\ n # 0 /\ n = submitted + 1
                         /\ n \in 0..MaxBuilds /\ n \in Env!Builds
                         /\ 0..submitted \subseteq 0..n
    BY <2>1, EnvAssumption DEF EnvInv, EnvTypes, Env!Builds
  <2>3. submitted \in Nat /\ n > submitted /\ build[n] = "none" /\ record[n] = "none"
    <3>1. submitted \in Nat /\ n > submitted
      BY <2>2, EnvAssumption DEF EnvInv, EnvTypes
    <3> QED
      BY <2>2, <3>1 DEF EnvInv, RecordsFollow
  <2>4. /\ caller' \in [Env!Callers ->
              [pc : {"new", "look", "status", "start", "submit", "get", "wait", "done"},
               on : 0..n]]
        /\ \A d \in Env!Callers :
              /\ caller'[d].on = caller[d].on /\ caller'[d].on # n
              /\ d # c => caller'[d] = caller[d]
        /\ caller'[c].pc = pc
    BY <1>3, <2>2, EnvAssumption DEF EnvInv, EnvTypes
  <2>5. EnvTypes'
    <3>1. /\ submitted' \in 0..MaxBuilds /\ latest' \in 0..submitted'
          /\ build' \in [Env!Builds -> {"none", "queued"} \cup Env!Working \cup Env!Over]
      BY <2>1, <2>2 DEF EnvInv, EnvTypes
    <3>2. reply' \in [Env!Callers -> Env!Answers]
      BY <1>2 DEF EnvInv, EnvTypes
    <3> QED
      BY <2>1, <2>2, <2>4, <3>1, <3>2 DEF EnvInv, EnvTypes
  <2>6. RecordsFollow' /\ Env!RecordsAreHonest'
    <3> SUFFICES ASSUME NEW b \in Env!Builds
                 PROVE  /\ b > n => build'[b] = "none"
                        /\ build'[b] \in {"none", "queued", "record"} => record[b] = "none"
                        /\ build'[b] \in {"remove", "unlink", "unlink failed"} =>
                              record[b] # "preparing"
                        /\ b \notin unwritten /\ record[b] = "preparing" =>
                              build'[b] \in Env!Working
      BY <2>1, <2>2 DEF RecordsFollow, Env!RecordsAreHonest
    <3>1. CASE b = n
      BY <2>1, <2>2, <2>3, <3>1 DEF EnvInv, EnvTypes
    <3>2. CASE b # n
      <4>1. build'[b] = build[b] /\ (b > n => b > submitted)
        BY <2>1, <2>2, <2>3, <3>2 DEF EnvInv, EnvTypes, Env!Builds
      <4> QED
        BY <4>1 DEF EnvInv, RecordsFollow, Env!RecordsAreHonest
    <3> QED
      BY <3>1, <3>2
  <2>7. SeenInTime'
    <3> SUFFICES ASSUME NEW d \in Env!Callers, d \notin seen
                 PROVE  /\ image => caller'[d].pc \in {"new", "done"}
                        /\ caller'[d].pc = "wait" =>
                              caller'[d].on # 0 /\ build'[caller'[d].on] # "ok"
      BY <2>1, <2>2 DEF SeenInTime, EnvInv, EnvTypes
    <3>1. CASE d = c
      BY <1>1, <1>3, <2>4, <3>1
    <3>2. CASE d # c
      <4>1. build' = [build EXCEPT ![n] = "queued"]
        BY <2>1, <2>2
      <4>2. caller'[d] = caller[d] /\ caller'[d].on # n
        BY <2>4, <3>2, Zenon
      <4> QED
        BY <2>1, <4>1, <4>2 DEF EnvInv, EnvTypes, SeenInTime
    <3> QED
      BY <3>1, <3>2
  <2>8. Env!AnsweredImageExisted'
    BY <1>2, <2>1 DEF EnvInv, EnvTypes, Env!AnsweredImageExisted
  <2> QED
    BY <2>5, <2>6, <2>7, <2>8 DEF EnvInv
<1> QED
  BY <1>4, <1>5

(* A script gets the future of the latest build, or an error.                *)
LEMMA GetFutureKeeps ==
    ASSUME EnvInv, NEW c \in Env!Callers, Env!GetFuture(c)
    PROVE  EnvInv'
<1>1. CASE latest = 0
  BY <1>1, CallerMoves DEF Env!GetFuture, Env!Answer, Env!Answers, Env!buildVars
<1>2. CASE latest # 0
  <2> USE DEF EnvInv
  <2>1. /\ caller[c].pc = "get" /\ caller' = [caller EXCEPT ![c] = [pc |-> "wait", on |-> latest]]
        /\ UNCHANGED <<image, latest, submitted, build, record, unwritten, seen, reply>>
    BY <1>2 DEF Env!GetFuture, Env!At, Env!buildVars
  <2>2. EnvTypes'
    BY <2>1 DEF EnvTypes
  <2>3. RecordsFollow' /\ Env!RecordsAreHonest' /\ Env!AnsweredImageExisted'
    BY <2>1 DEF RecordsFollow, Env!RecordsAreHonest, Env!AnsweredImageExisted
  <2>4. SeenInTime'
    BY <1>2, <2>1 DEF EnvTypes, SeenInTime
  <2> QED
    BY <2>2, <2>3, <2>4
<1> QED
  BY <1>1, <1>2

(* The build a script waits for is over.                                     *)
LEMMA AwaitFutureKeeps ==
    ASSUME EnvInv, NEW c \in Env!Callers, Env!AwaitFuture(c)
    PROVE  EnvInv'
<1>1. build[caller[c].on] = "ok" => c \in seen
  BY DEF EnvInv, SeenInTime, Env!AwaitFuture, Env!At
<1>2. PICK a \in {"image", "failed", "preparing"} :
          /\ reply' = [reply EXCEPT ![c] = a]
          /\ a = "image" => c \in seen
          /\ caller' = [caller EXCEPT ![c].pc = "done"]
          /\ UNCHANGED <<image, latest, submitted, build, record, unwritten, seen>>
  BY <1>1 DEF Env!AwaitFuture, Env!Answer, Env!buildVars
<1> QED
  BY <1>2, CallerMoves DEF Env!Answers

(* Which build a caller waits for is one.                                   *)
LEMMA BuildNumbers ==
    ASSUME EnvTypes, NEW c \in Env!Callers
    PROVE  /\ latest # 0 => latest \in Env!Builds
           /\ caller[c].on # 0 => caller[c].on \in Env!Builds
<1>1. submitted \in Nat /\ submitted <= MaxBuilds
  BY EnvAssumption DEF EnvTypes
<1>2. PICK l, n \in 0..submitted : l = latest /\ n = caller[c].on
  BY DEF EnvTypes
<1>3. (l # 0 => l \in Env!Builds) /\ (n # 0 => n \in Env!Builds)
  BY <1>1, <1>2, EnvAssumption DEF Env!Builds
<1> QED
  BY <1>2, <1>3

(* A build takes a step after which it is not over, or it is over and every  *)
(* call in progress has seen it end, or it has failed.                      *)
LEMMA BuildMoves ==
    ASSUME EnvInv, NEW b \in Env!Builds,
           NEW to \in {"record", "attempt", "commit", "finish", "remove", "unlink", "fail",
                       "unlink failed", "ok", "failed"},
           NEW r \in {"none", "preparing", "ready", "failed", "interrupted"},
           build[b] \notin {"none"} \cup Env!Over,
           build' = [build EXCEPT ![b] = to],
           record' = [record EXCEPT ![b] = r],
           image' \in BOOLEAN, seen \subseteq seen', unwritten \subseteq unwritten',
           image' # image \/ to = "ok" => Env!Active \subseteq seen',
           to = "record" => r = "none",
           to \in {"remove", "unlink", "unlink failed"} => r # "preparing",
           to \in Env!Over /\ r = "preparing" => b \in unwritten',
           UNCHANGED <<latest, submitted, caller, reply>>
    PROVE  EnvInv'
<1> USE DEF EnvInv
<1>1. EnvTypes'
  BY DEF EnvTypes, Env!Working, Env!Over
<1>2. RecordsFollow'
  BY DEF EnvTypes, RecordsFollow, Env!Over
<1>3. SeenInTime'
  <2> SUFFICES ASSUME NEW d \in Env!Callers, d \notin seen'
               PROVE  /\ image' => caller[d].pc \in {"new", "done"}
                      /\ caller[d].pc = "get" /\ latest # 0 => build'[latest] # "ok"
                      /\ caller[d].pc = "wait" =>
                            caller[d].on # 0 /\ build'[caller[d].on] # "ok"
    BY DEF SeenInTime
  <2>1. /\ image => caller[d].pc \in {"new", "done"}
        /\ caller[d].pc = "get" /\ latest # 0 => build[latest] # "ok"
        /\ caller[d].pc = "wait" => caller[d].on # 0 /\ build[caller[d].on] # "ok"
    BY DEF SeenInTime
  <2>2. image' # image \/ to = "ok" => caller[d].pc \in {"new", "done"}
    BY DEF Env!Active
  <2>3. \A e \in Env!Builds : build'[e] = "ok" => build[e] = "ok" \/ to = "ok"
    BY DEF EnvTypes
  <2>4. /\ latest # 0 => latest \in Env!Builds
        /\ caller[d].on # 0 => caller[d].on \in Env!Builds
    BY BuildNumbers
  <2> QED
    BY <2>1, <2>2, <2>3, <2>4
<1>4. Env!RecordsAreHonest'
  BY DEF EnvTypes, Env!RecordsAreHonest, Env!Working, Env!Over
<1>5. Env!AnsweredImageExisted'
  BY DEF Env!AnsweredImageExisted
<1> QED
  BY <1>1, <1>2, <1>3, <1>4, <1>5

(* The worker takes a build.                                                 *)
LEMMA TakeBuildKeeps ==
    ASSUME EnvInv, NEW b \in Env!Builds, Env!TakeBuild(b)
    PROVE  EnvInv'
<1>1. /\ record[b] \in {"none", "preparing", "ready", "failed", "interrupted"}
      /\ record = [record EXCEPT ![b] = record[b]]
      /\ image \in BOOLEAN
      /\ build[b] \in {"queued", "record"} => record[b] = "none"
      /\ build[b] \in {"remove", "unlink", "unlink failed"} => record[b] # "preparing"
  BY DEF EnvInv, EnvTypes, RecordsFollow
<1> QED
  BY <1>1, BuildMoves DEF Env!TakeBuild, Env!BuildAt, Env!BuildTo, Env!Over, Env!callerVars

(* The worker writes the record of a build.                                  *)
LEMMA CreateRecordKeeps ==
    ASSUME EnvInv, NEW b \in Env!Builds, Env!CreateRecord(b)
    PROVE  EnvInv'
<1>1. /\ record[b] \in {"none", "preparing", "ready", "failed", "interrupted"}
      /\ record = [record EXCEPT ![b] = record[b]]
      /\ image \in BOOLEAN
      /\ build[b] \in {"queued", "record"} => record[b] = "none"
      /\ build[b] \in {"remove", "unlink", "unlink failed"} => record[b] # "preparing"
  BY DEF EnvInv, EnvTypes, RecordsFollow
<1> QED
  BY <1>1, BuildMoves DEF Env!CreateRecord, Env!BuildAt, Env!BuildTo, Env!Over, Env!callerVars

(* The installer has succeeded, or failed.                                   *)
LEMMA AttemptKeeps ==
    ASSUME EnvInv, NEW b \in Env!Builds, Env!Attempt(b)
    PROVE  EnvInv'
<1>1. /\ record[b] \in {"none", "preparing", "ready", "failed", "interrupted"}
      /\ record = [record EXCEPT ![b] = record[b]]
      /\ image \in BOOLEAN
      /\ build[b] \in {"queued", "record"} => record[b] = "none"
      /\ build[b] \in {"remove", "unlink", "unlink failed"} => record[b] # "preparing"
  BY DEF EnvInv, EnvTypes, RecordsFollow
<1> QED
  BY <1>1, BuildMoves DEF Env!Attempt, Env!BuildAt, Env!BuildTo, Env!Over, Env!callerVars

(* The worker commits the image.                                             *)
LEMMA CommitKeeps ==
    ASSUME EnvInv, NEW b \in Env!Builds, Env!Commit(b)
    PROVE  EnvInv'
<1>1. /\ record[b] \in {"none", "preparing", "ready", "failed", "interrupted"}
      /\ record = [record EXCEPT ![b] = record[b]]
      /\ image \in BOOLEAN
      /\ build[b] \in {"queued", "record"} => record[b] = "none"
      /\ build[b] \in {"remove", "unlink", "unlink failed"} => record[b] # "preparing"
  BY DEF EnvInv, EnvTypes, RecordsFollow
<1> QED
  BY <1>1, BuildMoves DEF Env!Commit, Env!BuildAt, Env!BuildTo, Env!Over, Env!callerVars, Env!ImageIs

(* The worker completes the record.                                          *)
LEMMA FinishRecordKeeps ==
    ASSUME EnvInv, NEW b \in Env!Builds, Env!FinishRecord(b)
    PROVE  EnvInv'
<1>1. /\ record[b] \in {"none", "preparing", "ready", "failed", "interrupted"}
      /\ record = [record EXCEPT ![b] = record[b]]
      /\ image \in BOOLEAN
      /\ build[b] \in {"queued", "record"} => record[b] = "none"
      /\ build[b] \in {"remove", "unlink", "unlink failed"} => record[b] # "preparing"
  BY DEF EnvInv, EnvTypes, RecordsFollow
<1> QED
  BY <1>1, BuildMoves DEF Env!FinishRecord, Env!BuildAt, Env!BuildTo, Env!Over, Env!callerVars

(* The worker removes the container of the build.                            *)
LEMMA RemoveSkillContainerKeeps ==
    ASSUME EnvInv, NEW b \in Env!Builds, Env!RemoveContainer(b)
    PROVE  EnvInv'
<1>1. /\ record[b] \in {"none", "preparing", "ready", "failed", "interrupted"}
      /\ record = [record EXCEPT ![b] = record[b]]
      /\ image \in BOOLEAN
      /\ build[b] \in {"queued", "record"} => record[b] = "none"
      /\ build[b] \in {"remove", "unlink", "unlink failed"} => record[b] # "preparing"
  BY DEF EnvInv, EnvTypes, RecordsFollow
<1> QED
  BY <1>1, BuildMoves DEF Env!RemoveContainer, Env!BuildAt, Env!BuildTo, Env!Over, Env!callerVars

(* The worker removes the network of the build.                              *)
LEMMA RemoveSkillNetworkKeeps ==
    ASSUME EnvInv, NEW b \in Env!Builds, Env!RemoveNetwork(b)
    PROVE  EnvInv'
<1>1. /\ record[b] \in {"none", "preparing", "ready", "failed", "interrupted"}
      /\ record = [record EXCEPT ![b] = record[b]]
      /\ image \in BOOLEAN
      /\ build[b] \in {"queued", "record"} => record[b] = "none"
      /\ build[b] \in {"remove", "unlink", "unlink failed"} => record[b] # "preparing"
  BY DEF EnvInv, EnvTypes, RecordsFollow
<1> QED
  BY <1>1, BuildMoves DEF Env!RemoveNetwork, Env!BuildAt, Env!BuildTo, Env!Over, Env!callerVars

(* A step of the worker raises.                                              *)
LEMMA BuildRaisesKeeps ==
    ASSUME EnvInv, NEW b \in Env!Builds, Env!BuildRaises(b)
    PROVE  EnvInv'
<1>1. /\ record[b] \in {"none", "preparing", "ready", "failed", "interrupted"}
      /\ record' = [record EXCEPT ![b] = record[b]]
      /\ build[b] = "record" => record[b] = "none"
      /\ build[b] \in {"remove", "unlink", "unlink failed"} => record[b] # "preparing"
  BY DEF EnvInv, EnvTypes, RecordsFollow, Env!BuildRaises
<1>2. /\ image' \in BOOLEAN /\ seen \subseteq seen' /\ unwritten \subseteq unwritten'
      /\ image' # image => Env!Active \subseteq seen'
      /\ build[b] = "fail" => b \in unwritten'
      /\ UNCHANGED <<latest, submitted, caller, reply>>
  BY DEF EnvInv, EnvTypes, Env!BuildRaises, Env!BuildAt, Env!ImageIs
<1>3. build[b] \notin {"none"} \cup Env!Over
  BY DEF Env!BuildRaises, Env!Working, Env!Over
<1>4. CASE build[b] \in {"record", "fail", "unlink", "unlink failed"}
  <2>1. build' = [build EXCEPT ![b] = "failed"]
    BY <1>4 DEF Env!BuildRaises, Env!BuildTo
  <2> QED
    BY <1>1, <1>2, <1>3, <1>4, <2>1, BuildMoves
<1>5. CASE build[b] \notin {"record", "fail", "unlink", "unlink failed"}
  <2>1. build' = [build EXCEPT ![b] = "fail"]
    BY <1>5 DEF Env!BuildRaises, Env!BuildTo
  <2> QED
    BY <1>1, <1>2, <1>3, <2>1, BuildMoves DEF Env!Over
<1> QED
  BY <1>4, <1>5

(* The image is pruned, or appears.                                          *)
LEMMA ImageChangesKeeps ==
    ASSUME EnvInv, Env!ImageChanges
    PROVE  EnvInv'
<1> USE DEF EnvInv
<1>1. /\ image' = ~image /\ seen \subseteq seen' /\ (image' => Env!Active \subseteq seen')
      /\ UNCHANGED <<latest, submitted, build, record, unwritten, caller, reply>>
  BY DEF Env!ImageChanges, Env!ImageIs, Env!buildVars
<1>2. EnvTypes' /\ RecordsFollow' /\ Env!RecordsAreHonest' /\ Env!AnsweredImageExisted'
  BY <1>1 DEF EnvTypes, RecordsFollow, Env!RecordsAreHonest, Env!AnsweredImageExisted
<1>3. SeenInTime'
  BY <1>1 DEF SeenInTime, Env!Active
<1> QED
  BY <1>2, <1>3

(* The manager starts again; the builds under way are interrupted.           *)
LEMMA ManagerRestartsKeeps ==
    ASSUME EnvInv, Env!ManagerRestarts
    PROVE  EnvInv'
<1> USE DEF EnvInv, Env!ManagerRestarts
<1>1. /\ caller' \in [Env!Callers ->
             [pc : {"new", "look", "status", "start", "submit", "get", "wait", "done"},
              on : 0..submitted]]
      /\ \A c \in Env!Callers : caller'[c].pc \in {"new", "done"}
  BY DEF EnvTypes, Env!At
<1>2. /\ build' \in [Env!Builds -> {"none"} \cup Env!Over]
      /\ record' \in [Env!Builds -> {"none", "ready", "failed", "interrupted"}]
      /\ \A b \in Env!Builds : /\ build[b] = "none" => build'[b] = "none"
                               /\ build'[b] = "none" => build[b] = "none"
                               /\ record[b] = "none" => record'[b] = "none"
  BY DEF EnvTypes, Env!Working, Env!Over
<1>3. EnvTypes'
  BY <1>1, <1>2 DEF EnvTypes
<1>4. RecordsFollow'
  BY <1>2, Zenon DEF RecordsFollow, Env!Over
<1>5. SeenInTime'
  BY <1>1 DEF SeenInTime
<1>6. Env!RecordsAreHonest' /\ Env!AnsweredImageExisted'
  BY <1>2 DEF Env!RecordsAreHonest, Env!AnsweredImageExisted
<1> QED
  BY <1>3, <1>4, <1>5, <1>6

(* Every step of the callers and the builds keeps the invariant.            *)
LEMMA EnvNextKeeps == EnvInv /\ [Env!EnvNext]_Env!envVars => EnvInv'
<1> SUFFICES ASSUME EnvInv, [Env!EnvNext]_Env!envVars PROVE EnvInv'
  OBVIOUS
<1>1. ASSUME NEW c \in Env!Callers, Env!Call(c) \/ Env!CallerStep(c) PROVE EnvInv'
  BY <1>1, CallKeeps, LookForImageKeeps, StatusOfKeeps, StartLookKeeps, SubmitKeeps,
     GetFutureKeeps, AwaitFutureKeeps DEF Env!CallerStep
<1>2. ASSUME NEW b \in Env!Builds, Env!TakeBuild(b) \/ Env!BuildStep(b) \/ Env!BuildRaises(b)
      PROVE  EnvInv'
  BY <1>2, TakeBuildKeeps, CreateRecordKeeps, AttemptKeeps, CommitKeeps, FinishRecordKeeps,
     RemoveSkillContainerKeeps, RemoveSkillNetworkKeeps, BuildRaisesKeeps DEF Env!BuildStep
<1>3. CASE UNCHANGED Env!envVars
  BY <1>3 DEF Env!envVars, EnvInv, EnvTypes, RecordsFollow, SeenInTime, Env!Active,
              Env!RecordsAreHonest, Env!AnsweredImageExisted
<1> QED
  BY <1>1, <1>2, <1>3, ImageChangesKeeps, ManagerRestartsKeeps DEF Env!EnvNext

(* The preparation of a skill's image, also when the manager restarts and    *)
(* builds or their records fail: the records tell the truth and a script is  *)
(* given an image that was there during its call.                            *)
THEOREM SkillEnvironmentsAreRight == Env!EnvSpec => []EnvInv
BY EnvInitInv, EnvNextKeeps, PTL DEF Env!EnvSpec

------------------------------------------------------------------------------
(* The plugin runtimes and their containers (PluginRuntimes). *)

Known == 1..last

\* The creations that may still make a container.
Unspent == {c \in Creates : \/ server[c].pc = "idle"
                            \/ /\ server[c].verb = "POST"
                               /\ server[c].pc \in {"enter", "find", "fetch", "clean", "forget", "make"}}

PluginTypes ==
    /\ last \in Nat /\ last + Cardinality(Unspent) <= Cardinality(Creates)
    /\ table \cup file \cup live \cup lost \cup runtimes \cup retiring \cup broken \subseteq Known
    /\ keyOf \in [Plugin!Leases -> Keys \cup {Nobody}] /\ \A n \in Known : keyOf[n] \in Keys
    /\ creating \in [Keys -> Creates \cup {Nobody}] /\ creation \in [Keys -> Creates \cup {Nobody}]
    /\ current \in [Keys -> Known \cup {0}]
    /\ server \in [Plugin!Requests ->
          [pc : {"idle", "enter", "find", "fetch", "clean", "forget", "make", "register",
                 "leaveOk", "leaveError", "ok", "error"},
           verb : {"none", "POST", "DELETE"}, key : Keys \cup {Nobody}, lease : Known \cup {0}]]
    /\ call \in [Plugin!Processes ->
          [pc : {"new", "posting", "preparing", "undoing", "deleting", "sweeping", "found",
                 "using", "done"}, key : Keys \cup {Nobody}, lease : Known \cup {0}]]

\* The lease is the one this creation made.
Owns(c) == server[c].verb = "DELETE" \/ server[c].pc \in {"register", "leaveOk", "ok"}

\* What a thread of the manager is doing, and who is in create for a key.
ManagerThreads ==
    \A p \in Plugin!Requests :
        /\ server[p].verb = "none" <=> server[p].pc = "idle"
        /\ server[p].verb = "POST" => p \in Creates /\ server[p].key \in Keys
        /\ server[p].pc \in {"enter", "find", "make", "register", "leaveOk", "leaveError"}
           => server[p].verb = "POST"
        /\ server[p].verb = "POST" /\ server[p].pc \notin {"enter", "ok", "error"}
           => creating[server[p].key] = p
        /\ server[p].pc \in {"fetch", "clean", "forget"} \/ (server[p].pc # "idle" /\ Owns(p))
           => server[p].lease # 0

\* One lease per key, also in the file; where a thread stands, the table and
\* Docker are.
LeaseTable ==
    /\ table \subseteq file
    /\ \A m, n \in file : keyOf[m] = keyOf[n] => m = n
    /\ \A p \in Plugin!Requests :
          /\ server[p].pc = "forget" => server[p].lease \notin live
          /\ server[p].verb = "POST" /\ server[p].pc \in {"fetch", "clean", "forget"} =>
                /\ keyOf[server[p].lease] = server[p].key
                /\ \A n \in table : keyOf[n] = server[p].key => n = server[p].lease
          /\ server[p].pc \in {"make", "register"} => \A n \in table : keyOf[n] # server[p].key
          /\ server[p].verb = "POST" /\ server[p].pc \in {"register", "leaveOk", "ok"} =>
                keyOf[server[p].lease] = server[p].key /\ server[p].lease \notin lost
    /\ \A c, d \in Creates : Owns(c) /\ Owns(d) /\ server[c].lease = server[d].lease => c = d

\* What the host waits for is what the manager's thread does.
CreateCalls ==
    /\ \A c \in Creates :
          /\ call[c].pc \in {"new", "posting", "preparing", "undoing", "done"}
          /\ call[c].pc = "new" => server[c].pc = "idle"
          /\ call[c].pc = "posting" => server[c].verb = "POST" /\ server[c].key = call[c].key
          /\ call[c].pc = "preparing" =>
                /\ server[c].verb = "POST" /\ server[c].pc = "ok"
                /\ server[c].key = call[c].key /\ server[c].lease = call[c].lease
          /\ call[c].pc = "undoing" => server[c].verb = "DELETE"
          /\ call[c].pc \in {"posting", "preparing", "undoing"} =>
                call[c].key \in Keys /\ creation[call[c].key] = c
    /\ \A k \in Keys : creation[k] # Nobody => current[k] = 0

DisposeCalls ==
    /\ \A d \in Disposals :
          /\ call[d].pc = "deleting" => server[d].pc # "idle"
          /\ server[d].pc # "idle" => call[d].pc # "new" /\ call[d].lease = server[d].lease
    /\ \A s \in Sweeps :
          /\ call[s].pc = "deleting" => server[<<s, call[s].lease>>].pc # "idle"
          /\ \A n \in Plugin!Leases : server[<<s, n>>].pc # "idle" => server[<<s, n>>].lease = n
    /\ \A d \in Plugin!Disposers : call[d].pc = "deleting" =>
          call[d].lease # 0 /\ call[d].key = keyOf[call[d].lease]

\* A lease the host has never had in its maps.
Untouched(n) ==
    /\ n \notin runtimes
    /\ \A p \in Plugin!Disposers \cup Uses : call[p].lease # n
    /\ \A r \in Plugin!Requests \ Creates : server[r].lease # n

FreshLeases ==
    /\ \A n \in lost : Untouched(n)
    /\ \A c \in Creates :
          \/ server[c].verb = "DELETE" \/ server[c].pc \in {"register", "leaveOk"}
          \/ server[c].pc = "ok" /\ call[c].pc # "done"
          => Untouched(server[c].lease)

BeingDisposed(n) == \E d \in Plugin!Disposers : call[d].pc = "deleting" /\ call[d].lease = n
ByRequest(n) == \E d \in Disposals : call[d].pc # "new" /\ call[d].lease = n

\* Who may take the container of a runtime.
OfferedRuntimes ==
    /\ \A n \in runtimes \ broken : current[keyOf[n]] = n
    /\ \A n \in runtimes \ (live \cup broken) : BeingDisposed(n)
    /\ \A r \in Plugin!Requests \ Creates : server[r].pc # "idle" =>
          /\ server[r].lease \in runtimes \ broken => BeingDisposed(server[r].lease)
          /\ server[r].pc = "ok" => server[r].lease \notin live

\* A sweep takes what is not in use, and what it takes is not used.
UsedRuntimes ==
    /\ \A u \in Uses : LET n == call[u].lease IN
          /\ call[u].pc \in {"found", "using"} => n \in runtimes \/ n \notin live
          /\ call[u].pc = "found" => n \in live \cup broken \cup retiring \/ ByRequest(n)
          /\ call[u].pc = "using" => n \in live \cup broken \/ ByRequest(n)
    /\ \A s \in Sweeps, n \in Plugin!Leases : server[<<s, n>>].pc # "idle" =>
          /\ n \in runtimes => n \in retiring \cup broken
          /\ \A u \in Uses : call[u].lease = n =>
                /\ call[u].pc = "found" => n \in retiring \cup broken
                /\ call[u].pc = "using" => n \in broken

PluginInv == /\ PluginTypes /\ ManagerThreads /\ LeaseTable /\ CreateCalls /\ DisposeCalls
             /\ FreshLeases /\ OfferedRuntimes /\ UsedRuntimes /\ Plugin!RunningIsLeased

(* The host's callers and the manager's threads for them.                   *)
LEMMA RequestFacts ==
    /\ \A c \in Creates : c \in Plugin!Requests /\ \A n : Plugin!RequestOf(c, n) = c
    /\ \A d \in Disposals : /\ d \in Plugin!Requests \ Creates
                            /\ \A n : Plugin!RequestOf(d, n) = d
    /\ \A s \in Sweeps, n \in Plugin!Leases :
          /\ <<s, n>> \in Plugin!Requests \ Creates /\ <<s, n>> \notin Disposals
          /\ Plugin!RequestOf(s, n) = <<s, n>>
    /\ \A r \in Plugin!Requests \ Creates :
          r \in Disposals \/ \E s \in Sweeps, n \in Plugin!Leases : r = <<s, n>>
<1>1. Plugin!Leases = 1..Cardinality(Creates)
  BY CountedAlike DEF Plugin!Leases
<1>2. \A s \in Sweeps, n \in Plugin!Leases : <<s, n>> \in Plugin!Requests
                                            /\ <<s, n>> \notin Creates \cup Disposals
  BY <1>1, PluginAssumption DEF Plugin!Requests
<1> QED
  BY <1>2, PluginAssumption DEF Plugin!Requests, Plugin!RequestOf

(* Numbers of leases.                                                       *)
LEMMA KnownFacts ==
    ASSUME PluginTypes
    PROVE  Known \subseteq Plugin!Leases /\ 0 \notin Known /\ Known \cup {0} = 0..last
<1>1. PICK k \in Nat : k = Cardinality(Creates)
  BY PluginAssumption, FS_CardinalityType
<1>2. PICK u \in Nat : u = Cardinality(Unspent)
  BY PluginAssumption, FS_Subset, FS_CardinalityType DEF Unspent
<1>3. Plugin!Leases = 1..k
  BY <1>1, CountedAlike DEF Plugin!Leases
<1>4. last \in Nat /\ last + u <= k
  BY <1>1, <1>2 DEF PluginTypes
<1> QED
  BY <1>3, <1>4 DEF Known

(* It holds before anything has been asked of the host.                      *)
LEMMA PluginInitInv == Plugin!PluginInit => PluginInv
<1> SUFFICES ASSUME Plugin!PluginInit PROVE PluginInv
  OBVIOUS
<1> USE DEF Plugin!PluginInit
<1>1. PluginTypes
  <2>1. PICK k \in Nat : k = Cardinality(Creates)
    BY PluginAssumption, FS_CardinalityType
  <2>2. Unspent = Creates
    BY RequestFacts DEF Unspent
  <2>3. last \in Nat /\ last + Cardinality(Unspent) <= Cardinality(Creates) /\ Known = {}
    BY <2>1, <2>2 DEF Known
  <2> QED
    BY <2>3 DEF PluginTypes, Plugin!Processes, Plugin!Callers, Plugin!Disposers
<1>2. \A p \in Plugin!Requests : server[p] = [pc |-> "idle", verb |-> "none", key |-> Nobody, lease |-> 0]
  OBVIOUS
<1>3. ManagerThreads
  BY <1>2 DEF ManagerThreads
<1>4. LeaseTable
  BY <1>2, RequestFacts DEF LeaseTable, Owns
<1>5. CreateCalls /\ DisposeCalls
  <2>1. \A p \in Plugin!Processes : call[p].pc = "new"
    OBVIOUS
  <2>2. CreateCalls
    BY <1>2, <2>1, RequestFacts DEF CreateCalls, Plugin!Processes, Plugin!Callers
  <2>3. DisposeCalls
    BY <1>2, <2>1, RequestFacts
       DEF DisposeCalls, Plugin!Processes, Plugin!Callers, Plugin!Disposers
  <2> QED
    BY <2>2, <2>3
<1>6. FreshLeases
  BY <1>2, RequestFacts DEF FreshLeases
<1>7. OfferedRuntimes
  BY <1>2 DEF OfferedRuntimes
<1>8. UsedRuntimes
  BY <1>2, RequestFacts DEF UsedRuntimes, Plugin!Processes
<1>9. Plugin!RunningIsLeased
  BY DEF Plugin!RunningIsLeased
<1> QED
  BY <1>1, <1>3, <1>4, <1>5, <1>6, <1>7, <1>8, <1>9 DEF PluginInv

\* A thread goes on to another place, perhaps with another lease.
Moves(p, pc, n) == server' = [server EXCEPT ![p] =
    [pc |-> pc, verb |-> server[p].verb, key |-> server[p].key, lease |-> n]]

ManagerPlaces == {"idle", "enter", "find", "fetch", "clean", "forget", "make", "register",
           "leaveOk", "leaveError", "ok", "error"}

(* A thread that only goes on keeps its lease.                               *)
LEMMA ToMoves ==
    ASSUME PluginTypes, NEW p \in Plugin!Requests, NEW pc, Plugin!To(p, pc)
    PROVE  Moves(p, pc, server[p].lease)
<1>1. server[p] = [pc |-> server[p].pc, verb |-> server[p].verb, key |-> server[p].key,
                   lease |-> server[p].lease]
  BY DEF PluginTypes
<1> DEFINE s == server[p]
<1>2. [s EXCEPT !.pc = pc] = [pc |-> pc, verb |-> s.verb, key |-> s.key, lease |-> s.lease]
  BY <1>1
<1> QED
  BY <1>2 DEF Plugin!To, Moves

(* A thread that goes on with another lease.                                 *)
LEMMA ToWithMoves ==
    ASSUME PluginTypes, NEW p \in Plugin!Requests, NEW pc, NEW n, Plugin!ToWith(p, pc, n)
    PROVE  Moves(p, pc, n)
<1>1. PICK s : s = server[p]
  OBVIOUS
<1>2. s = [pc |-> s.pc, verb |-> s.verb, key |-> s.key, lease |-> s.lease]
  BY <1>1 DEF PluginTypes
<1> DEFINE t == [pc |-> pc, verb |-> s.verb, key |-> s.key, lease |-> s.lease]
<1>3. [s EXCEPT !.pc = pc] = t
  BY <1>2
<1>4. [t EXCEPT !.lease = n] = [pc |-> pc, verb |-> s.verb, key |-> s.key, lease |-> n]
  OBVIOUS
<1>5. [s EXCEPT !.pc = pc, !.lease = n] = [t EXCEPT !.lease = n]
  <2> HIDE DEF t
  <2>1. [s EXCEPT !.pc = pc, !.lease = n] = [[s EXCEPT !.pc = pc] EXCEPT !.lease = n]
    OBVIOUS
  <2> QED
    BY <1>3, <2>1
<1> QED
  BY <1>1, <1>4, <1>5 DEF Moves, Plugin!ToWith

(* What the others do, and what the thread itself does, after a move.        *)
LEMMA MovesFacts ==
    ASSUME PluginTypes, NEW p \in Plugin!Requests, NEW pc, NEW n, Moves(p, pc, n)
    PROVE  /\ server'[p].pc = pc /\ server'[p].lease = n
           /\ server'[p].verb = server[p].verb /\ server'[p].key = server[p].key
           /\ \A q \in Plugin!Requests : q # p => server'[q] = server[q]
BY DEF PluginTypes, Moves

(* Creations keep their right to a container, or spend it.                   *)
LEMMA Counts ==
    ASSUME PluginTypes, NEW p,
           \/ last' = last /\ Unspent' \subseteq Unspent
           \/ last' = last + 1 /\ p \in Unspent /\ Unspent' \subseteq Unspent \ {p}
    PROVE  /\ last' \in Nat /\ last' + Cardinality(Unspent') <= Cardinality(Creates)
           /\ Known \subseteq Known'
<1>1. PICK k \in Nat : k = Cardinality(Creates)
  BY PluginAssumption, FS_CardinalityType
<1>2. IsFiniteSet(Unspent)
  BY PluginAssumption, FS_Subset DEF Unspent
<1>3. PICK u \in Nat : u = Cardinality(Unspent)
  BY <1>2, FS_CardinalityType
<1>4. last \in Nat /\ last + u <= k
  BY <1>1, <1>3 DEF PluginTypes
<1>5. CASE last' = last /\ Unspent' \subseteq Unspent
  <2>1. PICK v \in Nat : v = Cardinality(Unspent') /\ v <= u
    BY <1>2, <1>3, <1>5, FS_Subset, FS_CardinalityType
  <2> QED
    BY <1>1, <1>4, <1>5, <2>1 DEF Known
<1>6. CASE last' = last + 1 /\ p \in Unspent /\ Unspent' \subseteq Unspent \ {p}
  <2>1. IsFiniteSet(Unspent \ {p}) /\ Cardinality(Unspent \ {p}) = u - 1
    BY <1>2, <1>3, <1>6, FS_RemoveElement
  <2>2. PICK v \in Nat : v = Cardinality(Unspent') /\ v <= u - 1
    BY <1>6, <2>1, FS_Subset, FS_CardinalityType
  <2>3. PICK m \in Nat : m = last'
    BY <1>4, <1>6
  <2>4. m = last + 1
    BY <1>6, <2>3
  <2> QED
    BY <1>1, <1>4, <2>2, <2>3, <2>4 DEF Known
<1> QED
  BY <1>5, <1>6

(* The types, after a step of a thread of the manager.                       *)
LEMMA ManagerTypes ==
    ASSUME PluginTypes, NEW p \in Plugin!Requests, NEW pc \in ManagerPlaces, NEW n \in Known' \cup {0},
           Moves(p, pc, n), UNCHANGED Plugin!hostVars,
           last' \in Nat, last' + Cardinality(Unspent') <= Cardinality(Creates),
           Known \subseteq Known',
           table' \cup file' \cup live' \cup lost' \cup broken' \subseteq Known',
           keyOf' \in [Plugin!Leases -> Keys \cup {Nobody}], \A m \in Known' : keyOf'[m] \in Keys,
           creating' \in [Keys -> Creates \cup {Nobody}]
    PROVE  PluginTypes'
<1>1. UNCHANGED <<runtimes, current, creation, retiring, call>>
  BY DEF Plugin!hostVars
<1> DEFINE r == [pc |-> pc, verb |-> server[p].verb, key |-> server[p].key, lease |-> n]
           R == [pc : ManagerPlaces, verb : {"none", "POST", "DELETE"}, key : Keys \cup {Nobody},
                 lease : Known' \cup {0}]
<1>2. \A q \in Plugin!Requests : server[q] \in R
  BY DEF PluginTypes, ManagerPlaces
<1>3. r \in R
  BY <1>2
<1>4. server' \in [Plugin!Requests -> R]
  <2>1. server' = [server EXCEPT ![p] = r]
    BY DEF Moves
  <2>2. server \in [Plugin!Requests -> R]
    BY <1>2 DEF PluginTypes
  <2> HIDE DEF r, R
  <2> QED
    BY <1>3, <2>1, <2>2
<1>5. call' \in [Plugin!Processes ->
          [pc : {"new", "posting", "preparing", "undoing", "deleting", "sweeping", "found",
                 "using", "done"}, key : Keys \cup {Nobody}, lease : Known' \cup {0}]]
  BY <1>1 DEF PluginTypes
<1>6. current' \in [Keys -> Known' \cup {0}] /\ runtimes' \cup retiring' \subseteq Known'
  BY <1>1 DEF PluginTypes
<1> QED
  BY <1>1, <1>4, <1>5, <1>6 DEF PluginTypes, ManagerPlaces

Making == {"enter", "find", "fetch", "clean", "forget", "make"}

(* A thread that moves before it has made a container, or to its end.        *)
LEMMA MovesCount ==
    ASSUME PluginTypes, NEW p \in Plugin!Requests, server[p].pc # "idle", NEW pc, NEW n,
           Moves(p, pc, n), pc # "idle"
    PROVE  /\ pc \notin Making \/ server[p].pc \in Making => Unspent' \subseteq Unspent
           /\ p \in Creates /\ server[p].verb = "POST" /\ server[p].pc = "make" /\ pc \notin Making
              => p \in Unspent /\ Unspent' \subseteq Unspent \ {p}
<1>1. /\ server'[p].pc = pc /\ server'[p].verb = server[p].verb
      /\ \A c \in Creates : c # p => server'[c] = server[c]
  BY MovesFacts, RequestFacts
<1>2. pc \notin Making \/ server[p].pc \in Making => Unspent' \subseteq Unspent
  BY <1>1 DEF Unspent, Making
<1>3. p \in Creates /\ server[p].verb = "POST" /\ server[p].pc = "make" /\ pc \notin Making
      => p \in Unspent /\ Unspent' \subseteq Unspent \ {p}
  BY <1>1 DEF Unspent, Making
<1> QED
  BY <1>2, <1>3

(* The threads, after a step of one of them.                                 *)
LEMMA ThreadsStay ==
    ASSUME PluginTypes, ManagerThreads, NEW p \in Plugin!Requests, server[p].pc # "idle",
           NEW pc, pc # "idle", NEW n, Moves(p, pc, n),
           pc \in {"enter", "find", "make", "register", "leaveOk", "leaveError"}
              => server[p].verb = "POST",
           server[p].verb = "POST" /\ pc \notin {"enter", "ok", "error"}
              => creating'[server[p].key] = p,
           pc \in {"fetch", "clean", "forget", "register", "leaveOk", "ok"}
              \/ server[p].verb = "DELETE" => n # 0,
           \A k \in Keys : creating'[k] = creating[k] \/ creating[k] \in {Nobody, p}
    PROVE  ManagerThreads'
<1>1. /\ server'[p].pc = pc /\ server'[p].lease = n
      /\ server'[p].verb = server[p].verb /\ server'[p].key = server[p].key
      /\ \A q \in Plugin!Requests : q # p => server'[q] = server[q]
  BY MovesFacts
<1>2. ASSUME NEW q \in Plugin!Requests
      PROVE  /\ server'[q].verb = "none" <=> server'[q].pc = "idle"
             /\ server'[q].verb = "POST" => q \in Creates /\ server'[q].key \in Keys
             /\ server'[q].pc \in {"enter", "find", "make", "register", "leaveOk", "leaveError"}
                => server'[q].verb = "POST"
             /\ server'[q].verb = "POST" /\ server'[q].pc \notin {"enter", "ok", "error"}
                => creating'[server'[q].key] = q
             /\ server'[q].pc \in {"fetch", "clean", "forget"}
                  \/ (server'[q].pc # "idle" /\ Owns(q)') => server'[q].lease # 0
  <2>1. CASE q = p
    BY <1>1, <2>1 DEF ManagerThreads, Owns
  <2>2. CASE q # p
    <3>1. server'[q] = server[q]
      BY <1>1, <2>2
    <3>2. Owns(q)' <=> Owns(q)
      BY <3>1 DEF Owns
    <3>3. server[q].verb = "POST" /\ server[q].pc \notin {"enter", "ok", "error"}
          => creating'[server[q].key] = q
      BY <2>2, PluginAssumption DEF ManagerThreads
    <3> QED
      BY <3>1, <3>2, <3>3 DEF ManagerThreads
  <2> QED
    BY <2>1, <2>2
<1> QED
  BY <1>2 DEF ManagerThreads

(* The lease table, after a step of a thread.                                *)
LEMMA TableStays ==
    ASSUME PluginTypes, ManagerThreads, LeaseTable, NEW p \in Plugin!Requests,
           NEW pc, NEW n, Moves(p, pc, n),
           \A m \in Known : keyOf'[m] = keyOf[m],
           \A m \in live' \ live : m \notin Known \cup {0},
           table' \subseteq file', \A m, o \in file' : keyOf'[m] = keyOf'[o] => m = o,
           \A m \in table' \ table : \A q \in Plugin!Requests \ {p} :
              server[q].verb = "POST"
                 /\ server[q].pc \in {"fetch", "clean", "forget", "make", "register"}
              => keyOf'[m] # server[q].key,
           \A m \in lost' \ lost : \A q \in Plugin!Requests \ {p} : server[q].lease # m \/ ~Owns(q),
           pc = "forget" => n \notin live',
           server[p].verb = "POST" /\ pc \in {"fetch", "clean", "forget"} =>
              /\ keyOf'[n] = server[p].key
              /\ \A m \in table' : keyOf'[m] = server[p].key => m = n,
           pc \in {"make", "register"} => \A m \in table' : keyOf'[m] # server[p].key,
           server[p].verb = "POST" /\ pc \in {"register", "leaveOk", "ok"} =>
              keyOf'[n] = server[p].key /\ n \notin lost',
           p \in Creates
              /\ (server[p].verb = "DELETE" \/ pc \in {"register", "leaveOk", "ok"}) =>
              (Owns(p) /\ n = server[p].lease) \/ n \notin Known \cup {0}
    PROVE  LeaseTable'
<1>1. /\ server'[p].pc = pc /\ server'[p].lease = n
      /\ server'[p].verb = server[p].verb /\ server'[p].key = server[p].key
      /\ \A q \in Plugin!Requests : q # p => server'[q] = server[q]
  BY MovesFacts, SMTT(20)
<1>2. ASSUME NEW q \in Plugin!Requests
      PROVE  /\ server'[q].pc = "forget" => server'[q].lease \notin live'
             /\ server'[q].verb = "POST" /\ server'[q].pc \in {"fetch", "clean", "forget"} =>
                   /\ keyOf'[server'[q].lease] = server'[q].key
                   /\ \A m \in table' : keyOf'[m] = server'[q].key => m = server'[q].lease
             /\ server'[q].pc \in {"make", "register"} =>
                   \A m \in table' : keyOf'[m] # server'[q].key
             /\ server'[q].verb = "POST" /\ server'[q].pc \in {"register", "leaveOk", "ok"} =>
                   keyOf'[server'[q].lease] = server'[q].key /\ server'[q].lease \notin lost'
  <2>1. CASE q = p
    BY <1>1, <2>1
  <2>2. CASE q # p
    <3>1. server'[q] = server[q] /\ server[q].lease \in Known \cup {0} /\ table \subseteq Known
      BY <1>1, <2>2 DEF PluginTypes
    <3>2. server[q].pc = "forget" => server[q].lease \notin live'
      BY <3>1 DEF LeaseTable
    <3>3. server[q].verb = "POST" /\ server[q].pc \in {"fetch", "clean", "forget"} =>
              /\ keyOf'[server[q].lease] = server[q].key
              /\ \A m \in table' : keyOf'[m] = server[q].key => m = server[q].lease
      <4>1. server[q].pc \in {"fetch", "clean", "forget"} => server[q].lease \in Known
        BY <3>1 DEF ManagerThreads
      <4>2. ASSUME NEW m \in table', keyOf'[m] = server[q].key, server[q].verb = "POST",
                   server[q].pc \in {"fetch", "clean", "forget"}
            PROVE  m = server[q].lease
        <5>1. m \in table
          BY <2>2, <4>2
        <5>2. keyOf[m] = server[q].key
          BY <3>1, <4>2, <5>1
        <5> QED
          BY <4>2, <5>1, <5>2 DEF LeaseTable
      <4>3. server[q].verb = "POST" /\ server[q].pc \in {"fetch", "clean", "forget"} =>
              keyOf'[server[q].lease] = server[q].key
        BY <4>1 DEF LeaseTable
      <4> QED
        BY <4>2, <4>3
    <3>4. ASSUME server[q].pc \in {"make", "register"}, NEW m \in table'
          PROVE  keyOf'[m] # server[q].key
      <4>1. server[q].verb = "POST"
        BY <3>4 DEF ManagerThreads
      <4>2. CASE m \in table
        BY <3>1, <3>4, <4>2 DEF LeaseTable
      <4>3. CASE m \notin table
        BY <2>2, <3>4, <4>1, <4>3
      <4> QED
        BY <4>2, <4>3
    <3>5. server[q].verb = "POST" /\ server[q].pc \in {"register", "leaveOk", "ok"} =>
              keyOf'[server[q].lease] = server[q].key /\ server[q].lease \notin lost'
      <4>1. server[q].verb = "POST" /\ server[q].pc \in {"register", "leaveOk", "ok"} =>
                Owns(q) /\ server[q].lease \in Known
        BY <3>1 DEF ManagerThreads, Owns
      <4> QED
        BY <2>2, <4>1 DEF LeaseTable
    <3> QED
      BY <3>1, <3>2, <3>3, <3>4, <3>5
  <2> QED
    BY <2>1, <2>2
<1>3. ASSUME NEW c \in Creates, NEW d \in Creates, Owns(c)', Owns(d)',
             server'[c].lease = server'[d].lease
      PROVE  c = d
  <2>1. c \in Plugin!Requests /\ d \in Plugin!Requests
    BY RequestFacts
  <2>2. \A q \in Creates : q # p => /\ Owns(q)' <=> Owns(q)
                                    /\ server'[q].lease = server[q].lease
                                    /\ server[q].lease \in Known \cup {0}
    BY <1>1, RequestFacts DEF Owns, PluginTypes
  <2>3. CASE c # p /\ d # p
    BY <1>3, <2>2, <2>3 DEF LeaseTable
  <2>4. ASSUME NEW o \in Creates, o # p, p \in Creates, Owns(o)', Owns(p)',
               server'[o].lease = server'[p].lease
        PROVE  FALSE
    <3>1. Owns(o) /\ server[o].lease = n /\ n \in Known \cup {0}
      BY <1>1, <2>2, <2>4
    <3>2. Owns(p) /\ n = server[p].lease
      BY <1>1, <2>4, <3>1 DEF Owns
    <3> QED
      BY <2>4, <3>1, <3>2 DEF LeaseTable
  <2> QED
    BY <1>3, <2>3, <2>4
<1> QED
  BY <1>2, <1>3 DEF LeaseTable

(* What the host waits for, while only the threads of the manager move.     *)
LEMMA CreateCallsFrame ==
    ASSUME CreateCalls, UNCHANGED <<call, creation, current>>,
           \A c \in Creates :
              /\ call[c].pc = "preparing" => server'[c] = server[c]
              /\ call[c].pc = "new" => (server'[c].pc # "idle" <=> server[c].pc # "idle")
              /\ call[c].pc # "new" => server'[c].verb = server[c].verb
                                       /\ server'[c].key = server[c].key
    PROVE  CreateCalls'
<1>1. ASSUME NEW c \in Creates
      PROVE  /\ call'[c].pc \in {"new", "posting", "preparing", "undoing", "done"}
             /\ call'[c].pc = "new" => server'[c].pc = "idle"
             /\ call'[c].pc = "posting" =>
                   server'[c].verb = "POST" /\ server'[c].key = call'[c].key
             /\ call'[c].pc = "preparing" =>
                   /\ server'[c].verb = "POST" /\ server'[c].pc = "ok"
                   /\ server'[c].key = call'[c].key /\ server'[c].lease = call'[c].lease
             /\ call'[c].pc = "undoing" => server'[c].verb = "DELETE"
             /\ call'[c].pc \in {"posting", "preparing", "undoing"} =>
                   call'[c].key \in Keys /\ creation'[call'[c].key] = c
  BY DEF CreateCalls
<1>2. \A k \in Keys : creation'[k] # Nobody => current'[k] = 0
  BY DEF CreateCalls
<1> QED
  BY <1>1, <1>2 DEF CreateCalls

\* What a thread of the manager may take out of Docker, as far as the host knows.
Takes(n) ==
    /\ n \in runtimes => n \in broken' \/ BeingDisposed(n)
    /\ \A u \in Uses : call[u].lease = n =>
          /\ call[u].pc = "found" => n \in broken' \cup retiring \/ ByRequest(n)
          /\ call[u].pc = "using" => n \in broken' \/ ByRequest(n)

(* Steps of the manager that take only what they may take leave the host's   *)
(* side as it is.                                                           *)
LEMMA HostStays ==
    ASSUME PluginInv, UNCHANGED Plugin!hostVars, broken \subseteq broken',
           \A m \in Known : keyOf'[m] = keyOf[m],
           \A m \in live' \ live : m \notin Known \cup {0},
           \A m \in live \ live' : Takes(m),
           \A m \in lost' \ lost : Untouched(m),
           \A q \in Plugin!Requests :
              /\ (server'[q].pc # "idle") <=> (server[q].pc # "idle")
              /\ server'[q].verb = server[q].verb /\ server'[q].key = server[q].key
              /\ server[q].pc = "ok" => server'[q] = server[q]
              /\ q \notin Creates => server'[q].lease = server[q].lease
                    /\ (server'[q].pc = "ok" => server'[q].lease \notin live'),
           \A c \in Creates :
              \/ server'[c].verb = "DELETE" \/ server'[c].pc \in {"register", "leaveOk"}
              \/ server'[c].pc = "ok" /\ call[c].pc # "done"
              => Untouched(server'[c].lease)
    PROVE  CreateCalls' /\ DisposeCalls' /\ FreshLeases' /\ OfferedRuntimes' /\ UsedRuntimes'
<1>0. PluginTypes /\ CreateCalls /\ DisposeCalls /\ FreshLeases /\ OfferedRuntimes /\ UsedRuntimes
  BY DEF PluginInv
<1>1. UNCHANGED <<runtimes, current, creation, retiring, call>>
  BY DEF Plugin!hostVars
<1>2. CreateCalls'
  <2>1. \A c \in Creates : c \in Plugin!Requests
    BY RequestFacts
  <2>2. \A c \in Creates : call[c].pc = "preparing" => server'[c] = server[c]
    <3>1. \A c \in Creates : call[c].pc = "preparing" => server[c].pc = "ok"
      BY <1>0 DEF CreateCalls
    <3> QED
      BY <2>1, <3>1
  <2>3. \A c \in Creates : (server'[c].pc # "idle") <=> (server[c].pc # "idle")
    BY <2>1
  <2>4. \A c \in Creates : server'[c].verb = server[c].verb /\ server'[c].key = server[c].key
    BY <2>1
  <2> QED
    BY <1>0, <1>1, <2>2, <2>3, <2>4, CreateCallsFrame
<1>3. DisposeCalls'
  <2>1. \A q \in Plugin!Requests \ Creates :
            /\ (server'[q].pc # "idle") <=> (server[q].pc # "idle")
            /\ server'[q].lease = server[q].lease
    OBVIOUS
  <2>2. \A d \in Disposals : d \in Plugin!Requests \ Creates
    BY RequestFacts
  <2>3. \A s \in Sweeps, n \in Plugin!Leases : <<s, n>> \in Plugin!Requests \ Creates
    BY RequestFacts
  <2>4. \A d \in Plugin!Disposers : call[d].pc = "deleting" => call[d].lease \in Known
    BY <1>0 DEF PluginTypes, DisposeCalls, Plugin!Processes, Plugin!Callers
  <2>5. \A d \in Plugin!Disposers : call[d].pc = "deleting" =>
            call[d].lease # 0 /\ call[d].key = keyOf'[call[d].lease]
    BY <1>0, <2>4 DEF DisposeCalls
  <2>6. \A d \in Disposals :
            /\ call[d].pc = "deleting" => server'[d].pc # "idle"
            /\ server'[d].pc # "idle" => call[d].pc # "new" /\ call[d].lease = server'[d].lease
    BY <1>0, <2>1, <2>2 DEF DisposeCalls
  <2>7. ASSUME NEW s \in Sweeps
        PROVE  /\ call[s].pc = "deleting" => server'[<<s, call[s].lease>>].pc # "idle"
               /\ \A n \in Plugin!Leases :
                     server'[<<s, n>>].pc # "idle" => server'[<<s, n>>].lease = n
    <3>1. call[s].pc = "deleting" => call[s].lease \in Plugin!Leases
      BY <1>0, <2>4, KnownFacts DEF Plugin!Disposers
    <3>2. \A n \in Plugin!Leases :
              /\ (server'[<<s, n>>].pc # "idle") <=> (server[<<s, n>>].pc # "idle")
              /\ server'[<<s, n>>].lease = server[<<s, n>>].lease
      BY <2>1, <2>3
    <3> QED
      BY <1>0, <3>1, <3>2 DEF DisposeCalls
  <2> QED
    BY <1>1, <2>5, <2>6, <2>7 DEF DisposeCalls
<1>4. \A n : Untouched(n) => Untouched(n)'
  <2>1. \A q \in Plugin!Requests \ Creates : server'[q].lease = server[q].lease
    OBVIOUS
  <2> QED
    BY <1>1, <2>1 DEF Untouched
<1>5. FreshLeases'
  <2>1. \A n \in lost' : Untouched(n)'
    BY <1>0, <1>4 DEF FreshLeases
  <2>2. ASSUME NEW c \in Creates,
               \/ server'[c].verb = "DELETE" \/ server'[c].pc \in {"register", "leaveOk"}
               \/ server'[c].pc = "ok" /\ call'[c].pc # "done"
        PROVE  Untouched(server'[c].lease)
    BY <1>1, <2>2
  <2> QED
    BY <1>4, <2>1, <2>2 DEF FreshLeases
<1>6. OfferedRuntimes'
  <2>1. \A n : BeingDisposed(n)' <=> BeingDisposed(n)
    BY <1>1 DEF BeingDisposed
  <2>2. \A n \in runtimes' \ broken' : current'[keyOf'[n]] = n
    BY <1>0, <1>1 DEF OfferedRuntimes, PluginTypes
  <2>3. \A n \in runtimes' \ (live' \cup broken') : BeingDisposed(n)
    BY <1>0, <1>1 DEF OfferedRuntimes, Takes
  <2>4. ASSUME NEW q \in Plugin!Requests \ Creates, server'[q].pc # "idle"
        PROVE  /\ server'[q].lease \in runtimes' \ broken' => BeingDisposed(server'[q].lease)
               /\ server'[q].pc = "ok" => server'[q].lease \notin live'
    <3>1. server[q].pc # "idle" /\ server'[q].lease = server[q].lease
      BY <2>4
    <3>2. server'[q].lease \in runtimes' \ broken' => BeingDisposed(server'[q].lease)
      <4>1. server[q].lease \in runtimes \ broken => BeingDisposed(server[q].lease)
        BY <1>0, <3>1 DEF OfferedRuntimes
      <4>2. runtimes' \ broken' \subseteq runtimes \ broken
        BY <1>1
      <4> QED
        BY <3>1, <4>1, <4>2
    <3> QED
      BY <3>1, <3>2
  <2> QED
    BY <2>1, <2>2, <2>3, <2>4 DEF OfferedRuntimes
<1>7. UsedRuntimes'
  <2>1. \A n : ByRequest(n)' <=> ByRequest(n)
    BY <1>1 DEF ByRequest
  <2>2. ASSUME NEW u \in Uses
        PROVE  /\ call[u].pc \in {"found", "using"} =>
                     call[u].lease \in runtimes \/ call[u].lease \notin live'
               /\ call[u].pc = "found" =>
                     call[u].lease \in live' \cup broken' \cup retiring \/ ByRequest(call[u].lease)
               /\ call[u].pc = "using" =>
                     call[u].lease \in live' \cup broken' \/ ByRequest(call[u].lease)
    <3>1. call[u].lease \in Known \cup {0}
      BY <1>0 DEF PluginTypes, Plugin!Processes
    <3>2. /\ call[u].pc \in {"found", "using"} =>
                call[u].lease \in runtimes \/ call[u].lease \notin live
          /\ call[u].pc = "found" =>
                call[u].lease \in live \cup broken \cup retiring \/ ByRequest(call[u].lease)
          /\ call[u].pc = "using" =>
                call[u].lease \in live \cup broken \/ ByRequest(call[u].lease)
      BY <1>0 DEF UsedRuntimes
    <3> QED
      BY <3>1, <3>2 DEF Takes
  <2>3. ASSUME NEW s \in Sweeps, NEW n \in Plugin!Leases, server'[<<s, n>>].pc # "idle"
        PROVE  /\ n \in runtimes => n \in retiring \cup broken'
               /\ \A u \in Uses : call[u].lease = n =>
                     /\ call[u].pc = "found" => n \in retiring \cup broken'
                     /\ call[u].pc = "using" => n \in broken'
    <3>1. server[<<s, n>>].pc # "idle"
      BY <2>3, RequestFacts
    <3> QED
      BY <1>0, <3>1 DEF UsedRuntimes
  <2> QED
    BY <1>1, <2>1, <2>2, <2>3 DEF UsedRuntimes
<1> QED
  BY <1>2, <1>3, <1>5, <1>6, <1>7

(* A step of a thread of the manager that takes only what it may take.       *)
LEMMA ManagerFrame ==
    ASSUME PluginInv, NEW p \in Plugin!Requests, server[p].pc \notin {"idle", "ok", "error"},
           NEW pc, pc # "idle", NEW n, Moves(p, pc, n), p \notin Creates => n = server[p].lease,
           UNCHANGED Plugin!hostVars, broken \subseteq broken',
           \A m \in Known : keyOf'[m] = keyOf[m],
           \A m \in live' \ live : m \notin Known \cup {0},
           \A m \in live \ live' : Takes(m),
           \A m \in lost' \ lost : Untouched(m),
           p \in Creates /\ (server[p].verb = "DELETE" \/ pc \in {"register", "leaveOk"}
                               \/ (pc = "ok" /\ call[p].pc # "done")) => Untouched(n),
           p \notin Creates /\ pc = "ok" => n \notin live'
    PROVE  CreateCalls' /\ DisposeCalls' /\ FreshLeases' /\ OfferedRuntimes' /\ UsedRuntimes'
<1>0. PluginTypes /\ FreshLeases /\ OfferedRuntimes
  BY DEF PluginInv
<1>1. /\ server'[p].pc = pc /\ server'[p].lease = n
      /\ server'[p].verb = server[p].verb /\ server'[p].key = server[p].key
      /\ \A q \in Plugin!Requests : q # p => server'[q] = server[q]
  BY <1>0, MovesFacts
<1>2. call' = call
  BY DEF Plugin!hostVars
<1>3. ASSUME NEW q \in Plugin!Requests
      PROVE  /\ (server'[q].pc # "idle") <=> (server[q].pc # "idle")
             /\ server'[q].verb = server[q].verb /\ server'[q].key = server[q].key
             /\ server[q].pc = "ok" => server'[q] = server[q]
             /\ q \notin Creates => server'[q].lease = server[q].lease
                   /\ (server'[q].pc = "ok" => server'[q].lease \notin live')
  <2>1. CASE q = p
    BY <1>1, <2>1
  <2>2. CASE q # p
    <3>1. server'[q] = server[q] /\ server[q].lease \in Known \cup {0}
      BY <1>0, <1>1, <2>2 DEF PluginTypes
    <3>2. q \notin Creates /\ server[q].pc = "ok" => server[q].lease \notin live
      BY <1>0 DEF OfferedRuntimes
    <3> QED
      BY <3>1, <3>2
  <2> QED
    BY <2>1, <2>2
<1>4. ASSUME NEW c \in Creates,
             \/ server'[c].verb = "DELETE" \/ server'[c].pc \in {"register", "leaveOk"}
             \/ server'[c].pc = "ok" /\ call[c].pc # "done"
      PROVE  Untouched(server'[c].lease)
  <2>1. CASE c = p
    BY <1>1, <1>4, <2>1
  <2>2. CASE c # p
    BY <1>0, <1>1, <1>4, <2>2, RequestFacts DEF FreshLeases
  <2> QED
    BY <2>1, <2>2
<1> QED
  BY <1>3, <1>4, HostStays

(* A step of a thread that writes no lease.                                  *)
LEMMA QuietMoves ==
    ASSUME PluginInv, NEW p \in Plugin!Requests,
           server[p].pc \notin {"idle", "register", "ok", "error"},
           NEW pc \in ManagerPlaces \ {"idle", "register"}, NEW n \in Known \cup {0}, Moves(p, pc, n),
           UNCHANGED <<table, file, last, keyOf, lost>>, UNCHANGED Plugin!hostVars,
           live' \subseteq live, broken \subseteq broken', broken' \subseteq Known,
           creating' \in [Keys -> Creates \cup {Nobody}],
           \A k \in Keys : creating'[k] = creating[k] \/ creating[k] \in {Nobody, p},
           pc \notin Making \/ server[p].pc \in Making,
           pc \in {"enter", "find", "make", "leaveOk", "leaveError"} => server[p].verb = "POST",
           server[p].verb = "POST" /\ pc \notin {"enter", "ok", "error"}
              => creating'[server[p].key] = p,
           pc \in {"fetch", "clean", "forget"} => n # 0,
           pc = "forget" => n \notin live',
           server[p].verb = "POST" /\ pc \in {"fetch", "clean", "forget"} =>
              keyOf[n] = server[p].key /\ \A m \in table : keyOf[m] = server[p].key => m = n,
           pc = "make" => \A m \in table : keyOf[m] # server[p].key,
           server[p].verb = "POST" /\ pc \in {"leaveOk", "ok"} => Owns(p) /\ server[p].pc = "leaveOk",
           server[p].verb = "DELETE" \/ pc \in {"leaveOk", "ok"} => n = server[p].lease,
           p \notin Creates => n = server[p].lease /\ (pc = "ok" => n \notin live'),
           \A m \in live \ live' : Takes(m)
    PROVE  PluginInv'
<1>0. /\ PluginTypes /\ ManagerThreads /\ LeaseTable /\ FreshLeases /\ Plugin!RunningIsLeased
      /\ Known' = Known
  BY DEF PluginInv, Known
<1>1. /\ server'[p].pc = pc /\ server'[p].lease = n
      /\ server'[p].verb = server[p].verb /\ server'[p].key = server[p].key
      /\ \A q \in Plugin!Requests : q # p => server'[q] = server[q]
  BY <1>0, MovesFacts
<1>2. Unspent' \subseteq Unspent
  BY <1>0, MovesCount DEF ManagerPlaces
<1>3. last' \in Nat /\ last' + Cardinality(Unspent') <= Cardinality(Creates)
  BY <1>0, <1>2, Counts
<1>4. PluginTypes'
  <2>1. table' \cup file' \cup live' \cup lost' \cup broken' \subseteq Known'
    BY <1>0 DEF PluginTypes
  <2>2. keyOf' \in [Plugin!Leases -> Keys \cup {Nobody}] /\ \A m \in Known' : keyOf'[m] \in Keys
    BY <1>0 DEF PluginTypes
  <2> QED
    BY <1>0, <1>3, <2>1, <2>2, ManagerTypes
<1>5. server[p].verb # "none" /\ (Owns(p) => server[p].lease # 0)
  BY <1>0 DEF ManagerThreads
<1>6. server[p].verb \in {"POST", "DELETE"}
  BY <1>0, <1>5 DEF PluginTypes
<1>7. /\ server[p].verb = "POST" /\ pc \in {"leaveOk", "ok"} => n # 0
      /\ server[p].verb = "DELETE" => n # 0
      /\ p \in Creates /\ (server[p].verb = "DELETE" \/ pc \in {"leaveOk", "ok"}) => Owns(p)
  BY <1>5, <1>6 DEF Owns
<1>8. ManagerThreads'
  BY <1>0, <1>6, <1>7, ThreadsStay DEF ManagerPlaces
<1>9. LeaseTable'
  <2>1. server[p].verb = "POST" /\ pc \in {"leaveOk", "ok"} =>
            keyOf'[n] = server[p].key /\ n \notin lost'
    BY <1>0 DEF LeaseTable
  <2>2. p \in Creates /\ (server[p].verb = "DELETE" \/ pc \in {"register", "leaveOk", "ok"}) =>
            Owns(p) /\ n = server[p].lease
    BY <1>7
  <2>3. table' \subseteq file' /\ \A m, o \in file' : keyOf'[m] = keyOf'[o] => m = o
    BY <1>0 DEF LeaseTable
  <2>4. /\ \A m \in Known : keyOf'[m] = keyOf[m]
        /\ live' \ live = {} /\ lost' \ lost = {} /\ table' \ table = {}
    OBVIOUS
  <2>5. pc \in {"make", "register"} => \A m \in table' : keyOf'[m] # server[p].key
    OBVIOUS
  <2>6. server[p].verb = "POST" /\ pc \in {"fetch", "clean", "forget"} =>
              keyOf'[n] = server[p].key /\ \A m \in table' : keyOf'[m] = server[p].key => m = n
    OBVIOUS
  <2> QED
    BY <1>0, <2>1, <2>2, <2>3, <2>4, <2>5, <2>6, TableStays DEF ManagerPlaces
<1>10. Plugin!RunningIsLeased'
  BY <1>0, <1>1 DEF Plugin!RunningIsLeased, Plugin!Doing
<1>11. CreateCalls' /\ DisposeCalls' /\ FreshLeases' /\ OfferedRuntimes' /\ UsedRuntimes'
  <2>1. p \in Creates /\ (server[p].verb = "DELETE" \/ pc \in {"register", "leaveOk"}
                               \/ (pc = "ok" /\ call[p].pc # "done")) => Untouched(n)
    BY <1>0, <1>6 DEF FreshLeases, ManagerPlaces
  <2> QED
    BY <2>1, ManagerFrame DEF ManagerPlaces
<1> QED
  BY <1>4, <1>8, <1>9, <1>10, <1>11 DEF PluginInv

(* A create of the manager begins, or is refused: another one is in create. *)
LEMMA EnterCreateKeeps ==
    ASSUME PluginInv, NEW p \in Plugin!Requests, Plugin!EnterCreate(p) PROVE PluginInv'
<1>0. PluginTypes /\ ManagerThreads
  BY DEF PluginInv
<1>1. server[p].pc = "enter" /\ server[p].verb = "POST" /\ p \in Creates /\ server[p].key \in Keys
  BY <1>0 DEF Plugin!EnterCreate, Plugin!Doing, ManagerThreads
<1>2. /\ UNCHANGED <<table, file, last, keyOf, lost>> /\ UNCHANGED Plugin!hostVars
      /\ live' = live /\ broken' = broken /\ broken \subseteq Known
  BY <1>0 DEF Plugin!EnterCreate, PluginTypes
<1>3. server[p].lease \in Known \cup {0}
  BY <1>0 DEF PluginTypes
<1>4. CASE creating[server[p].key] # Nobody
  <2>1. Moves(p, "error", server[p].lease) /\ creating' = creating
    BY <1>0, <1>4, ToMoves DEF Plugin!EnterCreate
  <2>2. creating' \in [Keys -> Creates \cup {Nobody}]
    BY <1>0, <2>1 DEF PluginTypes
  <2> QED
    BY <1>1, <1>2, <1>3, <2>1, <2>2, QuietMoves DEF ManagerPlaces, Making
<1>5. CASE creating[server[p].key] = Nobody
  <2>1. /\ Moves(p, "find", server[p].lease)
        /\ creating' = [creating EXCEPT ![server[p].key] = p]
    BY <1>0, <1>5, ToMoves DEF Plugin!EnterCreate
  <2>2. /\ creating' \in [Keys -> Creates \cup {Nobody}]
        /\ \A k \in Keys : creating'[k] = creating[k] \/ creating[k] \in {Nobody, p}
        /\ creating'[server[p].key] = p
    BY <1>0, <1>1, <1>5, <2>1 DEF PluginTypes
  <2> QED
    BY <1>1, <1>2, <1>3, <2>1, <2>2, QuietMoves DEF ManagerPlaces, Making
<1> QED
  BY <1>4, <1>5

(* A create looks for the lease its key has.                                 *)
LEMMA FindPreviousKeeps ==
    ASSUME PluginInv, NEW p \in Plugin!Requests, Plugin!FindPrevious(p) PROVE PluginInv'
<1>0. PluginTypes /\ ManagerThreads /\ LeaseTable
  BY DEF PluginInv
<1>1. /\ server[p].pc = "find" /\ server[p].verb = "POST" /\ p \in Creates
      /\ server[p].key \in Keys /\ creating[server[p].key] = p
  BY <1>0 DEF Plugin!FindPrevious, Plugin!Doing, ManagerThreads
<1>2. /\ UNCHANGED <<table, file, last, keyOf, lost>> /\ UNCHANGED Plugin!hostVars
      /\ live' = live /\ broken' = broken /\ broken \subseteq Known /\ creating' = creating
      /\ creating' \in [Keys -> Creates \cup {Nobody}]
  BY <1>0 DEF Plugin!FindPrevious, PluginTypes
<1> DEFINE previous == {n \in table : keyOf[n] = server[p].key}
<1>3. CASE previous = {}
  <2>1. Moves(p, "make", server[p].lease)
    BY <1>0, <1>3, ToMoves DEF Plugin!FindPrevious
  <2>2. server[p].lease \in Known \cup {0}
    BY <1>0 DEF PluginTypes
  <2>3. \A m \in table : keyOf[m] # server[p].key
    BY <1>3
  <2> QED
    BY <1>1, <1>2, <2>1, <2>2, <2>3, QuietMoves DEF ManagerPlaces, Making
<1>4. CASE previous # {}
  <2>1. PICK n \in previous : Plugin!ToWith(p, "fetch", n)
    BY <1>4 DEF Plugin!FindPrevious
  <2>2. n \in Known /\ n # 0 /\ keyOf[n] = server[p].key /\ n \in table
    BY <1>0, KnownFacts DEF PluginTypes
  <2>3. Moves(p, "fetch", n)
    BY <1>0, <2>1, ToWithMoves
  <2>4. \A m \in table : keyOf[m] = server[p].key => m = n
    BY <1>0, <2>2 DEF LeaseTable
  <2> QED
    BY <1>1, <1>2, <2>2, <2>3, <2>4, QuietMoves DEF ManagerPlaces, Making
<1> QED
  BY <1>3, <1>4

(* A lease that is in no table is not running, but for what the host has never *)
(* seen.                                                                       *)
LEMMA NotInTable ==
    ASSUME PluginInv, NEW p \in Plugin!Requests \ Creates, server[p].lease \notin table
    PROVE  server[p].lease \notin live
<1>1. FreshLeases /\ Plugin!RunningIsLeased /\ ManagerThreads
  BY DEF PluginInv
<1>2. ASSUME NEW n \in lost PROVE server[p].lease # n
  BY <1>1 DEF FreshLeases, Untouched
<1>3. ASSUME NEW c \in Plugin!Requests, server[c].pc = "register"
      PROVE  server[p].lease # server[c].lease
  <2>1. c \in Creates
    BY <1>1, <1>3 DEF ManagerThreads
  <2> QED
    BY <1>1, <1>3, <2>1 DEF FreshLeases, Untouched
<1> QED
  BY <1>1, <1>2, <1>3 DEF Plugin!RunningIsLeased, Plugin!Doing

(* The disposal of a lease begins with a look at the table.                  *)
LEMMA FetchLeaseKeeps ==
    ASSUME PluginInv, NEW p \in Plugin!Requests, Plugin!FetchLease(p) PROVE PluginInv'
<1>0. PluginTypes /\ ManagerThreads /\ LeaseTable
  BY DEF PluginInv
<1>1. /\ server[p].pc = "fetch" /\ server[p].lease # 0 /\ server[p].lease \in Known \cup {0}
      /\ server[p].verb \in {"POST", "DELETE"}
      /\ server[p].verb = "POST" => p \in Creates /\ creating[server[p].key] = p
  BY <1>0 DEF Plugin!FetchLease, Plugin!Doing, ManagerThreads, PluginTypes
<1>2. /\ UNCHANGED <<table, file, last, keyOf, lost>> /\ UNCHANGED Plugin!hostVars
      /\ live' = live /\ broken' = broken /\ broken \subseteq Known /\ creating' = creating
      /\ creating' \in [Keys -> Creates \cup {Nobody}]
  BY <1>0 DEF Plugin!FetchLease, PluginTypes
<1>3. server[p].verb = "POST" =>
         keyOf[server[p].lease] = server[p].key
         /\ \A m \in table : keyOf[m] = server[p].key => m = server[p].lease
  BY <1>0, <1>1 DEF LeaseTable
<1>4. CASE server[p].lease \in table
  <2>1. Moves(p, "clean", server[p].lease)
    BY <1>0, <1>4, ToMoves DEF Plugin!FetchLease
  <2> QED
    BY <1>1, <1>2, <1>3, <2>1, QuietMoves DEF ManagerPlaces, Making
<1>5. CASE server[p].lease \notin table /\ server[p].verb = "POST"
  <2>1. Moves(p, "make", server[p].lease)
    BY <1>0, <1>5, ToMoves DEF Plugin!FetchLease, Plugin!DisposeReturns
  <2>2. \A m \in table : keyOf[m] # server[p].key
    BY <1>3, <1>5
  <2> QED
    BY <1>1, <1>2, <1>5, <2>1, <2>2, QuietMoves DEF ManagerPlaces, Making
<1>6. CASE server[p].lease \notin table /\ server[p].verb = "DELETE"
  <2>1. Moves(p, "ok", server[p].lease)
    BY <1>0, <1>6, ToMoves DEF Plugin!FetchLease, Plugin!DisposeReturns
  <2>2. p \notin Creates => server[p].lease \notin live
    BY <1>6, NotInTable
  <2> QED
    BY <1>1, <1>2, <1>6, <2>1, <2>2, QuietMoves DEF ManagerPlaces, Making
<1> QED
  BY <1>1, <1>4, <1>5, <1>6

(* Whom the manager takes a container from.                                  *)
LEMMA CleanTakes ==
    ASSUME PluginInv, NEW p \in Plugin!Requests, server[p].pc = "clean",
           server[p].lease \in live, Plugin!Breaks(p)
    PROVE  Takes(server[p].lease) /\ broken \subseteq broken' /\ broken' \subseteq Known
<1>0. /\ PluginTypes /\ ManagerThreads /\ LeaseTable /\ CreateCalls /\ DisposeCalls
      /\ FreshLeases /\ OfferedRuntimes /\ UsedRuntimes
  BY DEF PluginInv
<1> DEFINE n == server[p].lease
<1>1. broken \subseteq broken' /\ broken' \subseteq Known
  BY <1>0 DEF PluginTypes, Plugin!Breaks
<1>2. CASE p \in Disposals
  <2>1. ByRequest(n)
    BY <1>0, <1>2 DEF DisposeCalls, ByRequest
  <2>2. n \in runtimes \ broken => BeingDisposed(n)
    BY <1>0, <1>2, RequestFacts DEF OfferedRuntimes
  <2> QED
    BY <1>1, <2>1, <2>2 DEF Takes
<1>3. ASSUME NEW s \in Sweeps, NEW m \in Plugin!Leases, p = <<s, m>>
      PROVE  Takes(n)
  <2>1. n = m
    BY <1>0, <1>3 DEF DisposeCalls
  <2>2. \A u \in Uses : call[u].lease = n =>
            /\ call[u].pc = "found" => n \in retiring \cup broken
            /\ call[u].pc = "using" => n \in broken
    BY <1>0, <1>3, <2>1 DEF UsedRuntimes
  <2>3. n \in runtimes \ broken => BeingDisposed(n)
    BY <1>0, <1>3, RequestFacts DEF OfferedRuntimes
  <2> QED
    BY <1>1, <2>2, <2>3 DEF Takes
<1>4. CASE p \in Creates /\ server[p].verb = "DELETE"
  <2>1. Untouched(n)
    BY <1>0, <1>4 DEF FreshLeases
  <2> QED
    BY <1>1, <2>1 DEF Untouched, Takes
<1>5. CASE p \in Creates /\ server[p].verb = "POST"
  <2>1. call[p].pc \in {"posting", "done"}
    BY <1>0, <1>5 DEF CreateCalls
  <2>2. CASE call[p].pc = "done"
    <3>1. n \in broken'
      BY <1>5, <2>2 DEF Plugin!Breaks
    <3> QED
      BY <1>1, <3>1 DEF Takes
  <2>3. CASE call[p].pc = "posting"
    <3>1. keyOf[n] = server[p].key /\ server[p].key \in Keys
      BY <1>0, <1>5 DEF LeaseTable, ManagerThreads
    <3>2. creation[server[p].key] = p /\ p # Nobody
      BY <1>0, <1>5, <2>3, PluginAssumption DEF CreateCalls
    <3>3. current[keyOf[n]] = 0
      BY <1>0, <3>1, <3>2 DEF CreateCalls
    <3>4. n # 0
      BY <1>0, KnownFacts DEF PluginTypes
    <3>5. n \in runtimes => n \in broken
      BY <1>0, <3>3, <3>4 DEF OfferedRuntimes
    <3>6. \A u \in Uses : call[u].lease = n /\ call[u].pc \in {"found", "using"} => n \in runtimes
      BY <1>0 DEF UsedRuntimes
    <3> QED
      BY <1>1, <3>5, <3>6 DEF Takes
  <2> QED
    BY <2>1, <2>2, <2>3
<1>6. p \in Creates => server[p].verb \in {"POST", "DELETE"}
  BY <1>0 DEF ManagerThreads, PluginTypes
<1>7. p \notin Creates => p \in Disposals \/ \E s \in Sweeps, m \in Plugin!Leases : p = <<s, m>>
  BY RequestFacts
<1> QED
  BY <1>1, <1>2, <1>3, <1>4, <1>5, <1>6, <1>7

(* The container of a lease is removed.                                      *)
LEMMA CleanLeaseKeeps ==
    ASSUME PluginInv, NEW p \in Plugin!Requests, Plugin!CleanUp(p) PROVE PluginInv'
<1>0. PluginTypes /\ ManagerThreads /\ LeaseTable
  BY DEF PluginInv
<1>1. /\ server[p].pc = "clean" /\ server[p].lease # 0 /\ server[p].lease \in Known \cup {0}
      /\ server[p].verb = "POST" => p \in Creates /\ creating[server[p].key] = p
  BY <1>0 DEF Plugin!CleanUp, Plugin!Doing, ManagerThreads, PluginTypes
<1>2. /\ UNCHANGED <<table, file, last, keyOf, lost>> /\ UNCHANGED Plugin!hostVars
      /\ live' = live \ {server[p].lease} /\ creating' = creating
      /\ creating' \in [Keys -> Creates \cup {Nobody}]
  BY <1>0 DEF Plugin!CleanUp, PluginTypes
<1>3. server[p].verb = "POST" =>
         keyOf[server[p].lease] = server[p].key
         /\ \A m \in table : keyOf[m] = server[p].key => m = server[p].lease
  BY <1>0, <1>1 DEF LeaseTable
<1>4. Plugin!Breaks(p)
  BY DEF Plugin!CleanUp
<1>5. broken \subseteq broken' /\ broken' \subseteq Known
  BY <1>0, <1>1, <1>4 DEF PluginTypes, Plugin!Breaks
<1>6. \A m \in live \ live' : Takes(m)
  BY <1>1, <1>2, <1>4, CleanTakes
<1>7. Moves(p, "forget", server[p].lease)
  BY <1>0, ToMoves DEF Plugin!CleanUp
<1> QED
  BY <1>1, <1>2, <1>3, <1>5, <1>6, <1>7, QuietMoves DEF ManagerPlaces, Making

(* The removal raises, whether or not the container is gone.                 *)
LEMMA CleanLeaseRaisesKeeps ==
    ASSUME PluginInv, NEW p \in Plugin!Requests, Plugin!CleanUpRaises(p) PROVE PluginInv'
<1>0. PluginTypes /\ ManagerThreads /\ LeaseTable
  BY DEF PluginInv
<1>1. /\ server[p].pc = "clean" /\ server[p].lease # 0 /\ server[p].lease \in Known \cup {0}
      /\ server[p].verb = "POST" => p \in Creates /\ creating[server[p].key] = p
  BY <1>0 DEF Plugin!CleanUpRaises, Plugin!Doing, ManagerThreads, PluginTypes
<1>2. /\ UNCHANGED <<table, file, last, keyOf, lost>> /\ UNCHANGED Plugin!hostVars
      /\ live' \in {live, live \ {server[p].lease}} /\ creating' = creating
      /\ creating' \in [Keys -> Creates \cup {Nobody}]
  BY <1>0 DEF Plugin!CleanUpRaises, PluginTypes
<1>3. Plugin!Breaks(p)
  BY DEF Plugin!CleanUpRaises
<1>4. broken \subseteq broken' /\ broken' \subseteq Known
  BY <1>0, <1>1, <1>3 DEF PluginTypes, Plugin!Breaks
<1>5. \A m \in live \ live' : Takes(m)
  BY <1>1, <1>2, <1>3, CleanTakes
<1>6. CASE server[p].verb = "POST"
  <2>1. Moves(p, "leaveError", server[p].lease)
    BY <1>0, <1>6, ToMoves DEF Plugin!CleanUpRaises, Plugin!Fail
  <2> QED
    BY <1>1, <1>2, <1>4, <1>5, <1>6, <2>1, QuietMoves DEF ManagerPlaces, Making
<1>7. CASE server[p].verb # "POST"
  <2>1. Moves(p, "error", server[p].lease)
    BY <1>0, <1>7, ToMoves DEF Plugin!CleanUpRaises, Plugin!Fail
  <2> QED
    BY <1>1, <1>2, <1>4, <1>5, <1>7, <2>1, QuietMoves DEF ManagerPlaces, Making
<1> QED
  BY <1>6, <1>7

(* A create leaves, with an answer.                                          *)
LEMMA LeaveCreateKeeps ==
    ASSUME PluginInv, NEW p \in Plugin!Requests, Plugin!LeaveCreate(p) PROVE PluginInv'
<1>0. PluginTypes /\ ManagerThreads /\ LeaseTable
  BY DEF PluginInv
<1>1. /\ server[p].pc \in {"leaveOk", "leaveError"} /\ server[p].verb = "POST" /\ p \in Creates
      /\ server[p].key \in Keys /\ creating[server[p].key] = p
      /\ server[p].lease \in Known \cup {0}
  BY <1>0 DEF Plugin!LeaveCreate, ManagerThreads, PluginTypes
<1>2. /\ UNCHANGED <<table, file, last, keyOf, lost>> /\ UNCHANGED Plugin!hostVars
      /\ live' = live /\ broken' = broken /\ broken \subseteq Known
      /\ creating' = [creating EXCEPT ![server[p].key] = Nobody]
  BY <1>0 DEF Plugin!LeaveCreate, PluginTypes
<1>3. /\ creating' \in [Keys -> Creates \cup {Nobody}]
      /\ \A k \in Keys : creating'[k] = creating[k] \/ creating[k] \in {Nobody, p}
  BY <1>0, <1>1, <1>2 DEF PluginTypes
<1>4. CASE server[p].pc = "leaveOk"
  <2>1. Moves(p, "ok", server[p].lease)
    BY <1>0, <1>4, ToMoves DEF Plugin!LeaveCreate, Plugin!Doing
  <2>2. Owns(p)
    BY <1>4 DEF Owns
  <2> QED
    BY <1>1, <1>2, <1>3, <1>4, <2>1, <2>2, QuietMoves DEF ManagerPlaces, Making
<1>5. CASE server[p].pc = "leaveError"
  <2>1. Moves(p, "error", server[p].lease)
    BY <1>0, <1>5, ToMoves DEF Plugin!LeaveCreate, Plugin!Doing
  <2> QED
    BY <1>1, <1>2, <1>3, <1>5, <2>1, QuietMoves DEF ManagerPlaces, Making
<1> QED
  BY <1>1, <1>4, <1>5

(* A disposal takes the lease out of the table, and saves the table.         *)
LEMMA ForgetLeaseKeeps ==
    ASSUME PluginInv, NEW p \in Plugin!Requests, Plugin!ForgetLease(p) PROVE PluginInv'
<1>0. /\ PluginTypes /\ ManagerThreads /\ LeaseTable /\ FreshLeases /\ Plugin!RunningIsLeased
  BY DEF PluginInv
<1> DEFINE n == server[p].lease
<1>1. /\ server[p].pc = "forget" /\ n # 0 /\ n \in Known \cup {0} /\ n \notin live
      /\ server[p].verb \in {"POST", "DELETE"}
      /\ server[p].verb = "POST" => p \in Creates /\ creating[server[p].key] = p
  BY <1>0 DEF Plugin!ForgetLease, Plugin!Doing, ManagerThreads, PluginTypes, LeaseTable
<1>2. /\ UNCHANGED <<last, keyOf, live, lost, creating, broken>> /\ UNCHANGED Plugin!hostVars
      /\ table' = table \ {n} /\ file' \in {file, table'} /\ Known' = Known
  BY DEF Plugin!ForgetLease, Known
<1>3. PICK pc \in {"make", "ok", "leaveError", "error"} :
         /\ Moves(p, pc, n)
         /\ server[p].verb = "POST" <=> pc \in {"make", "leaveError"}
  BY <1>0, <1>1, ToMoves DEF Plugin!ForgetLease, Plugin!DisposeReturns, Plugin!Fail
<1>4. /\ server'[p].pc = pc /\ server'[p].lease = n
      /\ \A q \in Plugin!Requests : q # p => server'[q] = server[q]
  BY <1>0, <1>3, MovesFacts
<1>5. last' \in Nat /\ last' + Cardinality(Unspent') <= Cardinality(Creates)
  <2>1. Unspent' \subseteq Unspent
    BY <1>0, <1>1, <1>3, MovesCount DEF Making
  <2> QED
    BY <1>0, <1>2, <2>1, Counts
<1>6. PluginTypes'
  <2>1. table' \cup file' \cup live' \cup lost' \cup broken' \subseteq Known'
    BY <1>0, <1>2 DEF PluginTypes
  <2>2. /\ keyOf' \in [Plugin!Leases -> Keys \cup {Nobody}] /\ \A m \in Known' : keyOf'[m] \in Keys
        /\ creating' \in [Keys -> Creates \cup {Nobody}]
    BY <1>0, <1>2 DEF PluginTypes
  <2>3. pc \in ManagerPlaces
    BY <1>3 DEF ManagerPlaces
  <2> QED
    BY <1>0, <1>1, <1>2, <1>3, <1>5, <2>1, <2>2, <2>3, ManagerTypes
<1>7. ManagerThreads'
  BY <1>0, <1>1, <1>2, <1>3, ThreadsStay
<1>8. LeaseTable'
  <2>1. table' \subseteq file' /\ file' \subseteq file
    BY <1>0, <1>2 DEF LeaseTable
  <2>2. \A m, o \in file' : keyOf'[m] = keyOf'[o] => m = o
    BY <1>0, <1>2, <2>1 DEF LeaseTable
  <2>3. /\ \A m \in Known : keyOf'[m] = keyOf[m]
        /\ live' \ live = {} /\ lost' \ lost = {} /\ table' \ table = {}
    BY <1>2
  <2>4. pc = "make" => \A m \in table' : keyOf'[m] # server[p].key
    BY <1>0, <1>1, <1>2, <1>3 DEF LeaseTable
  <2>5. p \in Creates /\ (server[p].verb = "DELETE" \/ pc \in {"register", "leaveOk", "ok"}) =>
            Owns(p) /\ n = server[p].lease
    BY <1>1, <1>3 DEF Owns
  <2>6. pc \notin {"fetch", "clean", "forget", "register"}
        /\ ~(server[p].verb = "POST" /\ pc \in {"leaveOk", "ok"})
    BY <1>3
  <2> QED
    BY <1>0, <1>3, <2>1, <2>2, <2>3, <2>4, <2>5, <2>6, TableStays
<1>9. Plugin!RunningIsLeased'
  BY <1>0, <1>1, <1>2, <1>4 DEF Plugin!RunningIsLeased, Plugin!Doing
<1>10. CreateCalls' /\ DisposeCalls' /\ FreshLeases' /\ OfferedRuntimes' /\ UsedRuntimes'
  <2>1. p \in Creates /\ (server[p].verb = "DELETE" \/ pc \in {"register", "leaveOk"}
                               \/ (pc = "ok" /\ call[p].pc # "done")) => Untouched(n)
    BY <1>0, <1>1, <1>3 DEF FreshLeases
  <2> QED
    BY <1>1, <1>2, <1>3, <2>1, ManagerFrame
<1> QED
  BY <1>6, <1>7, <1>8, <1>9, <1>10 DEF PluginInv

(* A lease is created: its number is new, its key is that of the creation.   *)
LEMMA NewFacts ==
    ASSUME PluginTypes, ManagerThreads, NEW p \in Plugin!Requests, server[p].pc = "make",
           NEW pc \in {"register", "leaveError"}, NEW n, Moves(p, pc, n), Plugin!New(p)
    PROVE  /\ last' \in Nat /\ last' + Cardinality(Unspent') <= Cardinality(Creates)
           /\ Known' = Known \cup {last'} /\ last' \notin Known \cup {0}
           /\ live' = live \cup {last'}
           /\ keyOf' \in [Plugin!Leases -> Keys \cup {Nobody}] /\ \A m \in Known' : keyOf'[m] \in Keys
           /\ keyOf'[last'] = server[p].key /\ \A m \in Known : keyOf'[m] = keyOf[m]
<1>1. server[p].verb = "POST" /\ p \in Creates /\ server[p].key \in Keys
  BY DEF ManagerThreads
<1>2. p \in Unspent /\ Unspent' \subseteq Unspent \ {p}
  BY <1>1, MovesCount DEF Making
<1>3. /\ last' = last + 1 /\ live' = live \cup {last'}
      /\ keyOf' = [keyOf EXCEPT ![last'] = server[p].key]
  BY DEF Plugin!New
<1>4. last' \in Nat /\ last' + Cardinality(Unspent') <= Cardinality(Creates)
  BY <1>2, <1>3, Counts
<1>5. PICK m \in Nat : m = last'
  BY <1>4
<1>6. PICK l \in Nat : l = last /\ m = l + 1
  BY <1>3, <1>5 DEF PluginTypes
<1>7. Known' = Known \cup {last'} /\ last' \notin Known \cup {0}
  BY <1>5, <1>6 DEF Known
<1>8. last' \in Plugin!Leases
  <2>1. PICK k \in Nat : k = Cardinality(Creates)
    BY PluginAssumption, FS_CardinalityType
  <2>2. IsFiniteSet(Unspent')
    BY <1>2, PluginAssumption, FS_Subset DEF Unspent
  <2>3. PICK u \in Nat : u = Cardinality(Unspent')
    BY <2>2, FS_CardinalityType
  <2>4. m + u <= k
    BY <1>4, <1>5, <2>1, <2>3
  <2>5. m \in 1..k
    BY <1>6, <2>4
  <2> QED
    BY <1>5, <2>1, <2>5, CountedAlike DEF Plugin!Leases
<1>9. Known \subseteq Plugin!Leases /\ keyOf \in [Plugin!Leases -> Keys \cup {Nobody}]
      /\ \A o \in Known : keyOf[o] \in Keys
  BY KnownFacts DEF PluginTypes
<1>10. /\ keyOf' \in [Plugin!Leases -> Keys \cup {Nobody}] /\ \A o \in Known' : keyOf'[o] \in Keys
       /\ keyOf'[last'] = server[p].key /\ \A o \in Known : keyOf'[o] = keyOf[o]
  BY <1>1, <1>3, <1>7, <1>8, <1>9
<1> QED
  BY <1>3, <1>4, <1>7, <1>10

(* A number the host has not heard of.                                       *)
LEMMA UnknownIsUntouched ==
    ASSUME PluginTypes, NEW n, n \notin Known \cup {0} PROVE Untouched(n)
<1>1. \A q \in Plugin!Processes : call[q].lease \in Known \cup {0}
  BY DEF PluginTypes
<1>2. \A q \in Plugin!Requests : server[q].lease \in Known \cup {0}
  BY DEF PluginTypes
<1>3. runtimes \subseteq Known
  BY DEF PluginTypes
<1> QED
  BY <1>1, <1>2, <1>3 DEF Untouched, Plugin!Processes, Plugin!Callers

(* A container is made; only its creation knows of it.                       *)
LEMMA MakeContainerKeeps ==
    ASSUME PluginInv, NEW p \in Plugin!Requests, Plugin!MakeContainer(p) PROVE PluginInv'
<1>0. /\ PluginTypes /\ ManagerThreads /\ LeaseTable /\ FreshLeases /\ Plugin!RunningIsLeased
  BY DEF PluginInv
<1>1. /\ server[p].pc = "make" /\ server[p].verb = "POST" /\ p \in Creates
      /\ creating[server[p].key] = p
  BY <1>0 DEF Plugin!MakeContainer, Plugin!Doing, ManagerThreads
<1>2. /\ UNCHANGED <<table, file, lost, creating, broken>> /\ UNCHANGED Plugin!hostVars
      /\ Plugin!New(p)
  BY DEF Plugin!MakeContainer
<1>3. Moves(p, "register", last')
  BY <1>0, ToWithMoves DEF Plugin!MakeContainer
<1>4. /\ last' \in Nat /\ last' + Cardinality(Unspent') <= Cardinality(Creates)
      /\ Known' = Known \cup {last'} /\ last' \notin Known \cup {0}
      /\ live' = live \cup {last'}
      /\ keyOf' \in [Plugin!Leases -> Keys \cup {Nobody}] /\ \A m \in Known' : keyOf'[m] \in Keys
      /\ keyOf'[last'] = server[p].key /\ \A m \in Known : keyOf'[m] = keyOf[m]
  BY <1>0, <1>1, <1>2, <1>3, NewFacts
<1>5. /\ server'[p].pc = "register" /\ server'[p].lease = last'
      /\ \A q \in Plugin!Requests : q # p => server'[q] = server[q]
  BY <1>0, <1>3, MovesFacts
<1>6. PluginTypes'
  <2>1. table' \cup file' \cup live' \cup lost' \cup broken' \subseteq Known'
    BY <1>0, <1>2, <1>4 DEF PluginTypes
  <2>2. creating' \in [Keys -> Creates \cup {Nobody}] /\ Known \subseteq Known'
        /\ last' \in Known' \cup {0}
    BY <1>0, <1>2, <1>4 DEF PluginTypes
  <2>3. "register" \in ManagerPlaces
    BY DEF ManagerPlaces
  <2> QED
    BY <1>0, <1>2, <1>3, <1>4, <2>1, <2>2, <2>3, ManagerTypes
<1>7. ManagerThreads'
  BY <1>0, <1>1, <1>2, <1>3, <1>4, ThreadsStay
<1>8. LeaseTable'
  <2>1. table \subseteq file /\ file \subseteq Known /\ lost \subseteq Known
    BY <1>0 DEF LeaseTable, PluginTypes
  <2>2. table' \subseteq file' /\ \A m, o \in file' : keyOf'[m] = keyOf'[o] => m = o
    BY <1>0, <1>2, <1>4, <2>1 DEF LeaseTable
  <2>3. table' \ table = {} /\ lost' \ lost = {} /\ \A m \in live' \ live : m \notin Known \cup {0}
    BY <1>2, <1>4
  <2>4. \A m \in table' : keyOf'[m] # server[p].key
    BY <1>0, <1>1, <1>2, <1>4, <2>1 DEF LeaseTable
  <2>5. keyOf'[last'] = server[p].key /\ last' \notin lost'
    BY <1>2, <1>4, <2>1
  <2> QED
    BY <1>0, <1>3, <1>4, <2>2, <2>3, <2>4, <2>5, TableStays
<1>9. Plugin!RunningIsLeased'
  BY <1>0, <1>1, <1>2, <1>4, <1>5 DEF Plugin!RunningIsLeased, Plugin!Doing
<1>10. CreateCalls' /\ DisposeCalls' /\ FreshLeases' /\ OfferedRuntimes' /\ UsedRuntimes'
  <2>1. Untouched(last')
    BY <1>0, <1>4, UnknownIsUntouched
  <2>2. live \ live' = {} /\ lost' \ lost = {} /\ \A m \in live' \ live : m \notin Known \cup {0}
    BY <1>2, <1>4
  <2> QED
    BY <1>1, <1>2, <1>3, <1>4, <2>1, <2>2, ManagerFrame
<1> QED
  BY <1>6, <1>7, <1>8, <1>9, <1>10 DEF PluginInv

(* Making a container raises, and may leave one behind nobody knows of.      *)
LEMMA MakeRaisesKeeps ==
    ASSUME PluginInv, NEW p \in Plugin!Requests, Plugin!MakeRaises(p) PROVE PluginInv'
<1>0. /\ PluginTypes /\ ManagerThreads /\ LeaseTable /\ FreshLeases /\ Plugin!RunningIsLeased
  BY DEF PluginInv
<1>1. /\ server[p].pc = "make" /\ server[p].verb = "POST" /\ p \in Creates
      /\ creating[server[p].key] = p /\ server[p].lease \in Known \cup {0}
  BY <1>0 DEF Plugin!MakeRaises, Plugin!Doing, ManagerThreads, PluginTypes
<1>2. UNCHANGED <<table, file, creating, broken>> /\ UNCHANGED Plugin!hostVars
  BY DEF Plugin!MakeRaises
<1>3. Moves(p, "leaveError", server[p].lease)
  BY <1>0, <1>1, ToMoves DEF Plugin!MakeRaises, Plugin!Fail
<1>4. CASE UNCHANGED <<last, keyOf, live, lost>>
  <2>1. /\ creating' \in [Keys -> Creates \cup {Nobody}]
        /\ live' \subseteq live /\ broken \subseteq broken' /\ broken' \subseteq Known
        /\ \A k \in Keys : creating'[k] = creating[k]
    BY <1>0, <1>2, <1>4 DEF PluginTypes
  <2> QED
    BY <1>1, <1>2, <1>3, <1>4, <2>1, QuietMoves DEF ManagerPlaces, Making
<1>5. CASE Plugin!New(p) /\ lost' = lost \cup {last'}
  <2>1. /\ last' \in Nat /\ last' + Cardinality(Unspent') <= Cardinality(Creates)
        /\ Known' = Known \cup {last'} /\ last' \notin Known \cup {0}
        /\ live' = live \cup {last'}
        /\ keyOf' \in [Plugin!Leases -> Keys \cup {Nobody}] /\ \A m \in Known' : keyOf'[m] \in Keys
        /\ keyOf'[last'] = server[p].key /\ \A m \in Known : keyOf'[m] = keyOf[m]
    BY <1>0, <1>1, <1>3, <1>5, NewFacts
  <2>2. /\ server'[p].pc = "leaveError"
        /\ \A q \in Plugin!Requests : q # p => server'[q] = server[q]
    BY <1>0, <1>3, MovesFacts
  <2>3. PluginTypes'
    <3>1. table' \cup file' \cup live' \cup lost' \cup broken' \subseteq Known'
      BY <1>0, <1>2, <1>5, <2>1 DEF PluginTypes
    <3>2. creating' \in [Keys -> Creates \cup {Nobody}] /\ Known \subseteq Known'
          /\ server[p].lease \in Known' \cup {0}
      BY <1>0, <1>1, <1>2, <2>1 DEF PluginTypes
    <3>3. "leaveError" \in ManagerPlaces
      BY DEF ManagerPlaces
    <3> QED
      BY <1>0, <1>2, <1>3, <2>1, <3>1, <3>2, <3>3, ManagerTypes
  <2>4. ManagerThreads'
    BY <1>0, <1>1, <1>2, <1>3, ThreadsStay
  <2>5. LeaseTable'
    <3>1. table \subseteq file /\ file \subseteq Known /\ lost \subseteq Known
      BY <1>0 DEF LeaseTable, PluginTypes
    <3>2. table' \subseteq file' /\ \A m, o \in file' : keyOf'[m] = keyOf'[o] => m = o
      BY <1>0, <1>2, <2>1, <3>1 DEF LeaseTable
    <3>3. table' \ table = {} /\ \A m \in live' \ live : m \notin Known \cup {0}
      BY <1>2, <2>1
    <3>4. \A m \in lost' \ lost : \A q \in Plugin!Requests \ {p} : server[q].lease # m
      BY <1>0, <1>5, <2>1 DEF PluginTypes
    <3> QED
      BY <1>0, <1>1, <1>3, <2>1, <3>2, <3>3, <3>4, TableStays
  <2>6. Plugin!RunningIsLeased'
    BY <1>0, <1>1, <1>2, <1>5, <2>1, <2>2 DEF Plugin!RunningIsLeased, Plugin!Doing
  <2>7. CreateCalls' /\ DisposeCalls' /\ FreshLeases' /\ OfferedRuntimes' /\ UsedRuntimes'
    <3>1. Untouched(last')
      BY <1>0, <2>1, UnknownIsUntouched
    <3>2. live \ live' = {} /\ lost' \ lost \subseteq {last'}
          /\ \A m \in live' \ live : m \notin Known \cup {0}
      BY <1>5, <2>1
    <3> QED
      BY <1>1, <1>2, <1>3, <2>1, <3>1, <3>2, ManagerFrame
  <2> QED
    BY <2>3, <2>4, <2>5, <2>6, <2>7 DEF PluginInv
<1> QED
  BY <1>4, <1>5 DEF Plugin!MakeRaises

(* A lease is entered into the table and saved, or its container given up.   *)
LEMMA RegisterLeaseKeeps ==
    ASSUME PluginInv, NEW p \in Plugin!Requests, Plugin!RegisterLease(p) PROVE PluginInv'
<1>0. /\ PluginTypes /\ ManagerThreads /\ LeaseTable /\ FreshLeases /\ Plugin!RunningIsLeased
  BY DEF PluginInv
<1> DEFINE n == server[p].lease
<1>1. /\ server[p].pc = "register" /\ server[p].verb = "POST" /\ p \in Creates /\ Owns(p)
      /\ server[p].key \in Keys /\ creating[server[p].key] = p
  BY <1>0 DEF Plugin!RegisterLease, Plugin!Doing, ManagerThreads, Owns
<1>2. /\ UNCHANGED <<last, keyOf, creating, broken>> /\ UNCHANGED Plugin!hostVars /\ Known' = Known
  BY DEF Plugin!RegisterLease, Known
<1>3. n \in Known /\ n # 0
  BY <1>0, <1>1 DEF PluginTypes, ManagerThreads
<1>4. /\ keyOf[n] = server[p].key /\ n \notin lost /\ \A m \in table : keyOf[m] # server[p].key
      /\ table \subseteq file /\ \A m, o \in file : keyOf[m] = keyOf[o] => m = o
  BY <1>0, <1>1 DEF LeaseTable
<1>5. Untouched(n)
  BY <1>0, <1>1 DEF FreshLeases
<1>6. PICK pc \in {"leaveOk", "leaveError"} :
         /\ Moves(p, pc, n)
         /\ \/ /\ pc = "leaveOk" /\ table' = table \cup {n} /\ file' = table'
               /\ live' = live /\ lost' = lost
            \/ /\ pc = "leaveError" /\ table' = table /\ file' = file
               /\ \/ live' = live \ {n} /\ lost' = lost
                  \/ live' = live /\ lost' = lost \cup {n}
  BY <1>0, ToMoves DEF Plugin!RegisterLease
<1>7. /\ server'[p].pc = pc /\ server'[p].lease = n
      /\ \A q \in Plugin!Requests : q # p => server'[q] = server[q]
  BY <1>0, <1>6, MovesFacts
<1>8. last' \in Nat /\ last' + Cardinality(Unspent') <= Cardinality(Creates)
  <2>1. Unspent' \subseteq Unspent
    BY <1>0, <1>1, <1>6, MovesCount DEF Making
  <2> QED
    BY <1>0, <1>2, <2>1, Counts
<1>9. PluginTypes'
  <2>1. table' \cup file' \cup live' \cup lost' \cup broken' \subseteq Known'
    BY <1>0, <1>2, <1>3, <1>6 DEF PluginTypes
  <2>2. /\ keyOf' \in [Plugin!Leases -> Keys \cup {Nobody}] /\ \A m \in Known' : keyOf'[m] \in Keys
        /\ creating' \in [Keys -> Creates \cup {Nobody}]
    BY <1>0, <1>2 DEF PluginTypes
  <2>3. pc \in ManagerPlaces
    BY <1>6 DEF ManagerPlaces
  <2> QED
    BY <1>0, <1>2, <1>3, <1>6, <1>8, <2>1, <2>2, <2>3, ManagerTypes
<1>10. ManagerThreads'
  BY <1>0, <1>1, <1>2, <1>3, <1>6, ThreadsStay
<1>11. LeaseTable'
  <2>1. table' \subseteq file'
    BY <1>4, <1>6
  <2>2. \A m, o \in file' : keyOf'[m] = keyOf'[o] => m = o
    BY <1>2, <1>4, <1>6
  <2>3. \A m \in table' \ table : \A q \in Plugin!Requests \ {p} :
            server[q].verb = "POST"
               /\ server[q].pc \in {"fetch", "clean", "forget", "make", "register"}
            => keyOf'[m] # server[q].key
    BY <1>0, <1>1, <1>2, <1>4, <1>6 DEF ManagerThreads
  <2>4. \A m \in lost' \ lost : \A q \in Plugin!Requests \ {p} : server[q].lease # m \/ ~Owns(q)
    BY <1>0, <1>1, <1>5, <1>6 DEF LeaseTable, Untouched
  <2>5. /\ \A m \in Known : keyOf'[m] = keyOf[m]
        /\ live' \ live = {}
        /\ pc = "leaveOk" => keyOf'[n] = server[p].key /\ n \notin lost'
    BY <1>2, <1>4, <1>6
  <2> QED
    BY <1>0, <1>1, <1>6, <2>1, <2>2, <2>3, <2>4, <2>5, TableStays
<1>12. Plugin!RunningIsLeased'
  BY <1>0, <1>1, <1>6, <1>7 DEF Plugin!RunningIsLeased, Plugin!Doing
<1>13. CreateCalls' /\ DisposeCalls' /\ FreshLeases' /\ OfferedRuntimes' /\ UsedRuntimes'
  <2>1. live \ live' \subseteq {n} /\ live' \ live = {} /\ lost' \ lost \subseteq {n}
    BY <1>6
  <2>2. Takes(n)
    BY <1>5 DEF Takes, Untouched
  <2>3. \A m \in Known : keyOf'[m] = keyOf[m]
    BY <1>2
  <2> QED
    BY <1>1, <1>2, <1>5, <1>6, <2>1, <2>2, <2>3, ManagerFrame
<1> QED
  BY <1>9, <1>10, <1>11, <1>12, <1>13 DEF PluginInv

(* The manager restarts: its table is the file, its threads are gone.        *)
LEMMA ManagerRestartKeeps == ASSUME PluginInv, Plugin!ManagerRestart PROVE PluginInv'
<1>0. /\ PluginTypes /\ ManagerThreads /\ LeaseTable /\ FreshLeases /\ OfferedRuntimes
      /\ Plugin!RunningIsLeased
  BY DEF PluginInv
<1>1. /\ UNCHANGED <<file, last, keyOf, live, broken>> /\ UNCHANGED Plugin!hostVars /\ Known' = Known
      /\ table' = file /\ creating' = [k \in Keys |-> Nobody]
      /\ lost' = lost \cup {server[p].lease : p \in {q \in Plugin!Requests : server[q].pc = "register"}}
  BY DEF Plugin!ManagerRestart, Known, Plugin!Doing
<1>2. server' = [p \in Plugin!Requests |->
          IF Plugin!Running(p) THEN [server[p] EXCEPT !.pc = "error"] ELSE server[p]]
  BY DEF Plugin!ManagerRestart
<1>3. ASSUME NEW q \in Plugin!Requests
      PROVE  /\ server'[q].verb = server[q].verb /\ server'[q].key = server[q].key
             /\ server'[q].lease = server[q].lease
             /\ server'[q].pc = IF server[q].pc \in {"idle", "ok"} THEN server[q].pc ELSE "error"
             /\ server[q].pc = "ok" => server'[q] = server[q]
             /\ server'[q] \in [pc : ManagerPlaces, verb : {"none", "POST", "DELETE"},
                                key : Keys \cup {Nobody}, lease : Known \cup {0}]
  <2>1. PICK s \in [pc : ManagerPlaces, verb : {"none", "POST", "DELETE"},
                    key : Keys \cup {Nobody}, lease : Known \cup {0}] : s = server[q]
    BY <1>0 DEF PluginTypes, ManagerPlaces
  <2>2. server'[q] = IF s.pc \notin {"idle", "ok", "error"} THEN [s EXCEPT !.pc = "error"] ELSE s
    BY <1>2, <2>1 DEF Plugin!Running
  <2> QED
    BY <2>1, <2>2 DEF ManagerPlaces
<1>4. PluginTypes'
  <2>1. Unspent' \subseteq Unspent
    BY <1>3, RequestFacts DEF Unspent
  <2>2. last' \in Nat /\ last' + Cardinality(Unspent') <= Cardinality(Creates)
    BY <1>0, <1>1, <2>1, Counts
  <2>3. table' \cup file' \cup live' \cup broken' \subseteq Known' /\ lost \subseteq Known'
    BY <1>0, <1>1 DEF PluginTypes
  <2>4. lost' \subseteq Known'
    BY <1>0, <1>1, <2>3 DEF PluginTypes, ManagerThreads, Owns
  <2>5. UNCHANGED <<runtimes, current, creation, retiring, call>>
    BY <1>1 DEF Plugin!hostVars
  <2>6. server' \in [Plugin!Requests -> [pc : ManagerPlaces, verb : {"none", "POST", "DELETE"},
                                         key : Keys \cup {Nobody}, lease : Known' \cup {0}]]
    BY <1>1, <1>2, <1>3
  <2>7. creating' \in [Keys -> Creates \cup {Nobody}]
    BY <1>1
  <2> QED
    BY <1>0, <1>1, <2>2, <2>3, <2>4, <2>5, <2>6, <2>7 DEF PluginTypes, ManagerPlaces
<1>5. ManagerThreads'
  <2>1. ASSUME NEW q \in Plugin!Requests
        PROVE  /\ server'[q].verb = "none" <=> server'[q].pc = "idle"
               /\ server'[q].verb = "POST" => q \in Creates /\ server'[q].key \in Keys
               /\ server'[q].pc \in {"idle", "ok", "error"}
               /\ server'[q].pc # "idle" /\ Owns(q)' => server'[q].lease # 0
    <3>1. Owns(q)' => Owns(q)
      BY <1>3 DEF Owns
    <3>2. server[q].verb # "none" <=> server[q].pc # "idle"
      BY <1>0 DEF ManagerThreads
    <3> QED
      BY <1>0, <1>3, <3>1, <3>2 DEF ManagerThreads
  <2> QED
    BY <2>1 DEF ManagerThreads
<1>6. LeaseTable'
  <2>1. table' \subseteq file' /\ \A m, o \in file' : keyOf'[m] = keyOf'[o] => m = o
    BY <1>0, <1>1 DEF LeaseTable
  <2>2. ASSUME NEW q \in Plugin!Requests
        PROVE  /\ server'[q].pc \in {"idle", "ok", "error"}
               /\ server'[q].verb = "POST" /\ server'[q].pc = "ok" =>
                     keyOf'[server'[q].lease] = server'[q].key /\ server'[q].lease \notin lost'
    <3>1. server'[q].pc \in {"idle", "ok", "error"}
      BY <1>3
    <3>2. ASSUME server'[q].verb = "POST", server'[q].pc = "ok"
          PROVE  keyOf'[server'[q].lease] = server'[q].key /\ server'[q].lease \notin lost'
      <4>1. server'[q] = server[q] /\ server[q].pc = "ok" /\ q \in Creates /\ Owns(q)
        BY <1>0, <1>3, <3>2 DEF ManagerThreads, Owns
      <4>2. keyOf[server[q].lease] = server[q].key /\ server[q].lease \notin lost
        BY <1>0, <3>2, <4>1 DEF LeaseTable
      <4>3. ASSUME NEW r \in Plugin!Requests, server[r].pc = "register"
            PROVE  server[r].lease # server[q].lease
        <5>1. r \in Creates /\ Owns(r) /\ r # q
          BY <1>0, <4>1, <4>3 DEF ManagerThreads, Owns
        <5> QED
          BY <1>0, <4>1, <5>1 DEF LeaseTable
      <4> QED
        BY <1>1, <4>1, <4>2, <4>3
    <3> QED
      BY <3>1, <3>2
  <2>3. \A c, d \in Creates :
            Owns(c)' /\ Owns(d)' /\ server'[c].lease = server'[d].lease => c = d
    <3>1. \A c \in Creates : (Owns(c)' => Owns(c)) /\ server'[c].lease = server[c].lease
      BY <1>3, RequestFacts DEF Owns
    <3> QED
      BY <1>0, <3>1 DEF LeaseTable
  <2> QED
    BY <2>1, <2>2, <2>3 DEF LeaseTable
<1>7. Plugin!RunningIsLeased'
  BY <1>0, <1>1 DEF Plugin!RunningIsLeased, Plugin!Doing, LeaseTable
<1>8. CreateCalls' /\ DisposeCalls' /\ FreshLeases' /\ OfferedRuntimes' /\ UsedRuntimes'
  <2>1. \A m \in lost' \ lost : Untouched(m)
    BY <1>0, <1>1 DEF FreshLeases, ManagerThreads
  <2>2. \A c \in Creates :
            \/ server'[c].verb = "DELETE" \/ server'[c].pc \in {"register", "leaveOk"}
            \/ server'[c].pc = "ok" /\ call[c].pc # "done"
            => Untouched(server'[c].lease)
    BY <1>0, <1>3, RequestFacts DEF FreshLeases
  <2>3. \A q \in Plugin!Requests :
            /\ (server'[q].pc # "idle") <=> (server[q].pc # "idle")
            /\ server'[q].verb = server[q].verb /\ server'[q].key = server[q].key
            /\ server[q].pc = "ok" => server'[q] = server[q]
    BY <1>3
  <2>4. ASSUME NEW q \in Plugin!Requests, q \notin Creates
        PROVE  server'[q].lease = server[q].lease
               /\ (server'[q].pc = "ok" => server'[q].lease \notin live')
    BY <1>0, <1>1, <1>3, <2>4 DEF OfferedRuntimes
  <2>5. \A m \in Known : keyOf'[m] = keyOf[m]
    BY <1>1
  <2> QED
    BY <1>1, <2>1, <2>2, <2>3, <2>4, <2>5, HostStays
<1> QED
  BY <1>4, <1>5, <1>6, <1>7, <1>8 DEF PluginInv

(* The steps of the manager's threads.                                       *)
LEMMA ManagerStepKeeps ==
    ASSUME PluginInv, NEW p \in Plugin!Requests, Plugin!ManagerStep(p) PROVE PluginInv'
BY EnterCreateKeeps, FindPreviousKeeps, FetchLeaseKeeps, CleanLeaseKeeps, CleanLeaseRaisesKeeps,
   ForgetLeaseKeeps, MakeContainerKeeps, MakeRaisesKeeps, RegisterLeaseKeeps, LeaveCreateKeeps
   DEF Plugin!ManagerStep

CallPlaces == {"new", "posting", "preparing", "undoing", "deleting", "sweeping", "found",
               "using", "done"}

\* An operation of the host goes on to another place, with a lease and its key.
CallMoves(p, pc, k, n) == call' = [call EXCEPT ![p] = [pc |-> pc, key |-> k, lease |-> n]]

(* An operation that only goes on keeps its key and its lease.               *)
LEMMA GoMoves ==
    ASSUME PluginTypes, NEW p \in Plugin!Processes, NEW pc, Plugin!Go(p, pc)
    PROVE  CallMoves(p, pc, call[p].key, call[p].lease)
<1>1. PICK s : s = call[p] /\ s = [pc |-> s.pc, key |-> s.key, lease |-> s.lease]
  BY DEF PluginTypes
<1>2. [s EXCEPT !.pc = pc] = [pc |-> pc, key |-> s.key, lease |-> s.lease]
  BY <1>1
<1> QED
  BY <1>1, <1>2 DEF Plugin!Go, CallMoves

(* The operations of the host, after a move of one of them.                  *)
LEMMA CallMovesFacts ==
    ASSUME PluginTypes, NEW p \in Plugin!Processes, NEW pc \in CallPlaces,
           NEW k \in Keys \cup {Nobody}, NEW n \in Known \cup {0}, CallMoves(p, pc, k, n)
    PROVE  /\ call'[p].pc = pc /\ call'[p].key = k /\ call'[p].lease = n
           /\ \A q \in Plugin!Processes : q # p => call'[q] = call[q]
           /\ call' \in [Plugin!Processes -> [pc : CallPlaces, key : Keys \cup {Nobody},
                                              lease : Known \cup {0}]]
<1>1. call \in [Plugin!Processes -> [pc : CallPlaces, key : Keys \cup {Nobody},
                                     lease : Known \cup {0}]]
  BY DEF PluginTypes, CallPlaces
<1>2. [pc |-> pc, key |-> k, lease |-> n]
         \in [pc : CallPlaces, key : Keys \cup {Nobody}, lease : Known \cup {0}]
  OBVIOUS
<1> QED
  BY <1>1, <1>2 DEF CallMoves

(* A step of the host that asks nothing of the manager.                      *)
LEMMA QuietHost ==
    ASSUME PluginInv, UNCHANGED Plugin!managerVars,
           runtimes' \cup retiring' \cup broken' \subseteq Known,
           creation' \in [Keys -> Creates \cup {Nobody}], current' \in [Keys -> Known \cup {0}],
           call' \in [Plugin!Processes -> [pc : CallPlaces, key : Keys \cup {Nobody},
                                           lease : Known \cup {0}]]
    PROVE  PluginTypes' /\ ManagerThreads' /\ LeaseTable' /\ Plugin!RunningIsLeased'
<1>0. PluginTypes /\ ManagerThreads /\ LeaseTable /\ Plugin!RunningIsLeased
  BY DEF PluginInv
<1>1. UNCHANGED <<table, file, last, keyOf, live, lost, creating, server>> /\ Known' = Known
      /\ Unspent' = Unspent
  BY DEF Plugin!managerVars, Known, Unspent
<1>2. PluginTypes'
  BY <1>0, <1>1 DEF PluginTypes, CallPlaces
<1>3. ManagerThreads'
  BY <1>0, <1>1 DEF ManagerThreads, Owns
<1>4. LeaseTable'
  BY <1>0, <1>1 DEF LeaseTable, Owns
<1>5. Plugin!RunningIsLeased'
  BY <1>0, <1>1 DEF Plugin!RunningIsLeased, Plugin!Doing
<1> QED
  BY <1>2, <1>3, <1>4, <1>5

\* What the host asks of the manager: a lease for a key, or the end of a lease.
Asks(r, v) ==
    /\ server' = [server EXCEPT ![r] = v]
    /\ \/ /\ r \in Creates /\ server[r].pc = "idle"
          /\ \E k \in Keys : v = [pc |-> "enter", verb |-> "POST", key |-> k, lease |-> 0]
       \/ /\ r \in Creates => server[r].verb = "POST" /\ server[r].pc = "ok"
                                /\ server[r].lease = v.lease
          /\ \E n \in Known : v = [pc |-> "fetch", verb |-> "DELETE", key |-> keyOf[n], lease |-> n]

(* The requests, after a new one.                                            *)
LEMMA AsksFacts ==
    ASSUME PluginTypes, NEW r \in Plugin!Requests, NEW v, Asks(r, v)
    PROVE  /\ server'[r] = v /\ \A q \in Plugin!Requests : q # r => server'[q] = server[q]
           /\ v.pc \in {"enter", "fetch"}
           /\ v \in [pc : ManagerPlaces, verb : {"none", "POST", "DELETE"},
                     key : Keys \cup {Nobody}, lease : Known \cup {0}]
BY DEF PluginTypes, Asks, ManagerPlaces

(* A step of the host with a request to the manager.                         *)
LEMMA AskingHost ==
    ASSUME PluginInv, NEW r \in Plugin!Requests, NEW v, Asks(r, v),
           UNCHANGED <<table, file, last, keyOf, live, lost, creating>>,
           runtimes' \cup retiring' \cup broken' \subseteq Known,
           creation' \in [Keys -> Creates \cup {Nobody}], current' \in [Keys -> Known \cup {0}],
           call' \in [Plugin!Processes -> [pc : CallPlaces, key : Keys \cup {Nobody},
                                           lease : Known \cup {0}]]
    PROVE  PluginTypes' /\ ManagerThreads' /\ LeaseTable' /\ Plugin!RunningIsLeased'
<1>0. PluginTypes /\ ManagerThreads /\ LeaseTable /\ Plugin!RunningIsLeased /\ Known' = Known
  BY DEF PluginInv, Known
<1>1. /\ server'[r] = v /\ \A q \in Plugin!Requests : q # r => server'[q] = server[q]
      /\ v.pc \in {"enter", "fetch"}
      /\ v \in [pc : ManagerPlaces, verb : {"none", "POST", "DELETE"},
                key : Keys \cup {Nobody}, lease : Known \cup {0}]
  BY <1>0, AsksFacts
<1>2. /\ v.verb \in {"POST", "DELETE"} /\ (v.verb = "POST" <=> v.pc = "enter")
      /\ v.verb = "POST" => r \in Creates /\ v.key \in Keys /\ server[r].pc = "idle"
      /\ v.verb = "DELETE" => v.lease \in Known
            /\ (r \in Creates => server[r].verb = "POST" /\ server[r].pc = "ok"
                                 /\ server[r].lease = v.lease)
  BY DEF Asks
<1>3. PluginTypes'
  <2>1. Unspent' \subseteq Unspent
    BY <1>1, <1>2, RequestFacts DEF Unspent
  <2>2. last' \in Nat /\ last' + Cardinality(Unspent') <= Cardinality(Creates)
    BY <1>0, <2>1, Counts
  <2>3. server' \in [Plugin!Requests -> [pc : ManagerPlaces, verb : {"none", "POST", "DELETE"},
                     key : Keys \cup {Nobody}, lease : Known \cup {0}]]
    BY <1>0, <1>1 DEF PluginTypes, ManagerPlaces, Asks
  <2> QED
    BY <1>0, <2>2, <2>3 DEF PluginTypes, ManagerPlaces, CallPlaces
<1>4. ManagerThreads'
  <2>1. 0 \notin Known
    BY <1>0, KnownFacts
  <2>2. ASSUME NEW q \in Plugin!Requests
        PROVE  /\ server'[q].verb = "none" <=> server'[q].pc = "idle"
               /\ server'[q].verb = "POST" => q \in Creates /\ server'[q].key \in Keys
               /\ server'[q].pc \in {"enter", "find", "make", "register", "leaveOk", "leaveError"}
                  => server'[q].verb = "POST"
               /\ server'[q].verb = "POST" /\ server'[q].pc \notin {"enter", "ok", "error"}
                  => creating'[server'[q].key] = q
               /\ server'[q].pc \in {"fetch", "clean", "forget"}
                    \/ (server'[q].pc # "idle" /\ Owns(q)') => server'[q].lease # 0
    <3>1. CASE q = r
      BY <1>1, <1>2, <2>1, <3>1 DEF Owns
    <3>2. CASE q # r
      <4>1. server'[q] = server[q] /\ (Owns(q)' <=> Owns(q))
        BY <1>1, <3>2 DEF Owns
      <4> QED
        BY <1>0, <4>1 DEF ManagerThreads
    <3> QED
      BY <3>1, <3>2
  <2> QED
    BY <2>2 DEF ManagerThreads
<1>5. LeaseTable'
  <2>1. ASSUME NEW q \in Plugin!Requests
        PROVE  /\ server'[q].pc = "forget" => server'[q].lease \notin live'
               /\ server'[q].verb = "POST" /\ server'[q].pc \in {"fetch", "clean", "forget"} =>
                     /\ keyOf'[server'[q].lease] = server'[q].key
                     /\ \A m \in table' : keyOf'[m] = server'[q].key => m = server'[q].lease
               /\ server'[q].pc \in {"make", "register"} =>
                     \A m \in table' : keyOf'[m] # server'[q].key
               /\ server'[q].verb = "POST" /\ server'[q].pc \in {"register", "leaveOk", "ok"} =>
                     keyOf'[server'[q].lease] = server'[q].key /\ server'[q].lease \notin lost'
    <3>1. CASE q = r
      BY <1>1, <1>2, <3>1
    <3>2. CASE q # r
      <4>1. server'[q] = server[q]
        BY <1>1, <3>2
      <4> QED
        BY <1>0, <4>1 DEF LeaseTable
    <3> QED
      BY <3>1, <3>2
  <2>2. \A c \in Creates : Owns(c)' => Owns(c) /\ server'[c].lease = server[c].lease
    BY <1>1, <1>2, RequestFacts DEF Owns
  <2>3. \A c, d \in Creates : Owns(c)' /\ Owns(d)' /\ server'[c].lease = server'[d].lease => c = d
    BY <1>0, <2>2 DEF LeaseTable
  <2>4. table' \subseteq file' /\ \A m, o \in file' : keyOf'[m] = keyOf'[o] => m = o
    BY <1>0 DEF LeaseTable
  <2> QED
    BY <2>1, <2>3, <2>4 DEF LeaseTable
<1>6. Plugin!RunningIsLeased'
  <2>1. \A q \in Plugin!Requests : server[q].pc = "register" => server'[q] = server[q]
    BY <1>0, <1>1, <1>2 DEF ManagerThreads
  <2> QED
    BY <1>0, <2>1 DEF Plugin!RunningIsLeased, Plugin!Doing
<1> QED
  BY <1>3, <1>4, <1>5, <1>6

(* The host's side, while only a creation moves and enters no runtime.       *)
LEMMA CreatorFrame ==
    ASSUME PluginInv, UNCHANGED <<keyOf, live, lost, runtimes, retiring, current, broken>>,
           \A q \in Plugin!Disposers \cup Uses : call'[q] = call[q],
           \A q \in Plugin!Requests \ Creates : server'[q] = server[q]
    PROVE  DisposeCalls' /\ OfferedRuntimes' /\ UsedRuntimes' /\ \A n : Untouched(n) => Untouched(n)'
<1>0. PluginTypes /\ DisposeCalls /\ OfferedRuntimes /\ UsedRuntimes
  BY DEF PluginInv
<1>1. DisposeCalls'
  <2>1. \A d \in Disposals : call'[d] = call[d] /\ server'[d] = server[d]
    BY RequestFacts DEF Plugin!Disposers
  <2>2. \A s \in Sweeps : call'[s] = call[s] /\ \A n \in Plugin!Leases : server'[<<s, n>>] = server[<<s, n>>]
    BY RequestFacts DEF Plugin!Disposers
  <2>3. ASSUME NEW s \in Sweeps, call[s].pc = "deleting" PROVE call[s].lease \in Plugin!Leases
    <3>1. call[s].lease \in Known \cup {0} /\ call[s].lease # 0
      BY <1>0, <2>3 DEF PluginTypes, DisposeCalls, Plugin!Processes, Plugin!Callers, Plugin!Disposers
    <3> QED
      BY <1>0, <3>1, KnownFacts
  <2> QED
    BY <1>0, <2>1, <2>2, <2>3 DEF DisposeCalls
<1>2. OfferedRuntimes'
  <2>1. \A n : BeingDisposed(n)' <=> BeingDisposed(n)
    BY DEF BeingDisposed
  <2> QED
    BY <1>0, <2>1 DEF OfferedRuntimes
<1>3. UsedRuntimes'
  <2>1. \A n : ByRequest(n)' <=> ByRequest(n)
    BY DEF ByRequest, Plugin!Disposers
  <2>2. \A s \in Sweeps, n \in Plugin!Leases : server'[<<s, n>>] = server[<<s, n>>]
    BY RequestFacts
  <2>3. \A u \in Uses : call'[u] = call[u]
    OBVIOUS
  <2> QED
    BY <1>0, <2>1, <2>2, <2>3 DEF UsedRuntimes
<1>4. \A n : Untouched(n) => Untouched(n)'
  BY DEF Untouched
<1> QED
  BY <1>1, <1>2, <1>3, <1>4

(* The creations, after a step of one of them.                               *)
LEMMA CreatorStays ==
    ASSUME PluginInv, NEW c \in Creates, lost' = lost,
           \A n : Untouched(n) => Untouched(n)' \/ (Owns(c) /\ server[c].lease = n),
           \A e \in Creates \ {c} : call'[e] = call[e] /\ server'[e] = server[e]
              /\ (call[e].pc \in {"posting", "preparing", "undoing"} =>
                     creation'[call[e].key] = creation[call[e].key]),
           \A n \in lost : Untouched(n)',
           \/ server'[c].verb = "DELETE" \/ server'[c].pc \in {"register", "leaveOk"}
           \/ server'[c].pc = "ok" /\ call'[c].pc # "done"
           => \A n : n = server'[c].lease => Untouched(n)',
           call'[c].pc \in {"posting", "preparing", "undoing", "done"},
           call'[c].pc = "posting" => server'[c].verb = "POST" /\ server'[c].key = call'[c].key,
           call'[c].pc = "preparing" =>
              /\ server'[c].verb = "POST" /\ server'[c].pc = "ok"
              /\ server'[c].key = call'[c].key /\ server'[c].lease = call'[c].lease,
           call'[c].pc = "undoing" => server'[c].verb = "DELETE",
           call'[c].pc # "done" => call'[c].key \in Keys /\ creation'[call'[c].key] = c,
           \A k \in Keys : creation'[k] # Nobody => current'[k] = 0
    PROVE  CreateCalls' /\ FreshLeases'
<1>0. CreateCalls /\ FreshLeases /\ LeaseTable /\ ManagerThreads
  BY DEF PluginInv
<1>1. CreateCalls'
  <2>1. ASSUME NEW e \in Creates
        PROVE  /\ call'[e].pc \in {"new", "posting", "preparing", "undoing", "done"}
               /\ call'[e].pc = "new" => server'[e].pc = "idle"
               /\ call'[e].pc = "posting" => server'[e].verb = "POST" /\ server'[e].key = call'[e].key
               /\ call'[e].pc = "preparing" =>
                     /\ server'[e].verb = "POST" /\ server'[e].pc = "ok"
                     /\ server'[e].key = call'[e].key /\ server'[e].lease = call'[e].lease
               /\ call'[e].pc = "undoing" => server'[e].verb = "DELETE"
               /\ call'[e].pc \in {"posting", "preparing", "undoing"} =>
                     call'[e].key \in Keys /\ creation'[call'[e].key] = e
    <3>1. CASE e = c
      BY <3>1
    <3>2. CASE e # c
      BY <1>0, <3>2 DEF CreateCalls
    <3> QED
      BY <3>1, <3>2
  <2> QED
    BY <2>1 DEF CreateCalls
<1>2. FreshLeases'
  <2>1. ASSUME NEW e \in Creates, e # c, NEW n, n = server[e].lease,
               \/ server[e].verb = "DELETE" \/ server[e].pc \in {"register", "leaveOk"}
               \/ server[e].pc = "ok" /\ call[e].pc # "done"
        PROVE  Untouched(n)'
    <3>1. Owns(e)
      BY <2>1 DEF Owns
    <3>2. Untouched(n)
      BY <1>0, <2>1 DEF FreshLeases
    <3>3. ~(Owns(c) /\ server[c].lease = n)
      BY <1>0, <2>1, <3>1 DEF LeaseTable
    <3> QED
      BY <3>2, <3>3
  <2>2. ASSUME NEW e \in Creates, NEW n, n = server'[e].lease,
               \/ server'[e].verb = "DELETE" \/ server'[e].pc \in {"register", "leaveOk"}
               \/ server'[e].pc = "ok" /\ call'[e].pc # "done"
        PROVE  Untouched(n)'
    <3>1. CASE e = c
      BY <2>2, <3>1
    <3>2. CASE e # c
      <4>1. server'[e] = server[e] /\ call'[e] = call[e]
        BY <3>2
      <4> QED
        BY <2>1, <2>2, <3>2, <4>1
    <3> QED
      BY <3>1, <3>2
  <2> QED
    BY <2>2 DEF FreshLeases
<1> QED
  BY <1>1, <1>2

(* The creations: what an answer to one of them is, and what it waits for.   *)
LEMMA CreatorFacts ==
    ASSUME PluginInv, NEW c \in Creates
    PROVE  /\ Plugin!Thread(c) = c /\ \A n : Plugin!RequestOf(c, n) = c
           /\ c \in Plugin!Processes /\ c \in Plugin!Requests /\ c # Nobody
           /\ \A q \in Plugin!Disposers \cup Uses : q \in Plugin!Processes /\ q # c
           /\ call[c].key \in Keys \cup {Nobody} /\ call[c].lease \in Known \cup {0}
           /\ server[c].lease \in Known \cup {0}
           /\ server[c].pc = "idle" => server[c].verb # "DELETE"
BY RequestFacts, PluginAssumption
   DEF PluginInv, PluginTypes, ManagerThreads, Plugin!Thread, Plugin!Processes, Plugin!Callers,
       Plugin!Disposers

(* An operation of create ends; the key is free again.                       *)
LEMMA EndCreateKeeps ==
    ASSUME PluginInv, NEW c \in Creates, call[c].pc \in {"posting", "undoing"},
           Plugin!EndCreate(c), UNCHANGED Plugin!managerVars,
           UNCHANGED <<runtimes, current, retiring, broken>>
    PROVE  PluginInv'
<1>0. PluginTypes /\ CreateCalls /\ FreshLeases
  BY DEF PluginInv
<1>1. c \in Plugin!Processes /\ (\A q \in Plugin!Disposers \cup Uses : q \in Plugin!Processes /\ q # c)
      /\ call[c].key \in Keys \cup {Nobody} /\ call[c].lease \in Known \cup {0} /\ c \in Plugin!Requests
  BY CreatorFacts
<1>2. UNCHANGED <<table, file, last, keyOf, live, lost, creating, server>>
  BY DEF Plugin!managerVars
<1>3. creation' = [creation EXCEPT ![call[c].key] = Nobody]
      /\ CallMoves(c, "done", call[c].key, call[c].lease)
  BY <1>0, <1>1, GoMoves DEF Plugin!EndCreate
<1>4. /\ call'[c].pc = "done" /\ \A q \in Plugin!Processes : q # c => call'[q] = call[q]
      /\ call' \in [Plugin!Processes -> [pc : CallPlaces, key : Keys \cup {Nobody},
                                         lease : Known \cup {0}]]
  BY <1>0, <1>1, <1>3, CallMovesFacts DEF CallPlaces
<1>5. creation[call[c].key] = c /\ call[c].key \in Keys
  BY <1>0 DEF CreateCalls
<1>6. /\ creation' \in [Keys -> Creates \cup {Nobody}]
      /\ \A k \in Keys : k # call[c].key => creation'[k] = creation[k]
      /\ \A k \in Keys : creation'[k] # Nobody => creation[k] # Nobody
  BY <1>0, <1>3, <1>5 DEF PluginTypes
<1>7. PluginTypes' /\ ManagerThreads' /\ LeaseTable' /\ Plugin!RunningIsLeased'
  <2>1. /\ runtimes' \cup retiring' \cup broken' \subseteq Known
        /\ current' \in [Keys -> Known \cup {0}]
    BY <1>0 DEF PluginTypes
  <2> QED
    BY <1>4, <1>6, <2>1, QuietHost
<1>8. DisposeCalls' /\ OfferedRuntimes' /\ UsedRuntimes' /\ \A n : Untouched(n) => Untouched(n)'
  BY <1>1, <1>2, <1>4, CreatorFrame
<1>9. CreateCalls' /\ FreshLeases'
  <2>1. \A e \in Creates \ {c} : call'[e] = call[e] /\ server'[e] = server[e]
              /\ (call[e].pc \in {"posting", "preparing", "undoing"} =>
                     creation'[call[e].key] = creation[call[e].key])
    BY <1>0, <1>2, <1>4, <1>5, <1>6 DEF CreateCalls, Plugin!Processes, Plugin!Callers
  <2>2. \A n \in lost : Untouched(n)'
    BY <1>0, <1>8 DEF FreshLeases
  <2>3. \/ server'[c].verb = "DELETE" \/ server'[c].pc \in {"register", "leaveOk"}
        \/ server'[c].pc = "ok" /\ call'[c].pc # "done"
        => \A n : n = server'[c].lease => Untouched(n)'
    BY <1>0, <1>2, <1>4, <1>8 DEF FreshLeases
  <2>4. \A k \in Keys : creation'[k] # Nobody => current'[k] = 0
    BY <1>0, <1>6 DEF CreateCalls
  <2> QED
    BY <1>2, <1>4, <1>8, <2>1, <2>2, <2>3, <2>4, CreatorStays
<1> QED
  BY <1>7, <1>8, <1>9 DEF PluginInv

(* The manager refused, or the host gave up: a creation ends.                *)
LEMMA NotLeasedKeeps ==
    ASSUME PluginInv, NEW c \in Creates, Plugin!NotLeased(c) \/ Plugin!Undone(c) PROVE PluginInv'
BY EndCreateKeeps DEF Plugin!NotLeased, Plugin!Undone, Plugin!At

(* The manager has made the container of a creation.                         *)
LEMMA LeasedKeeps ==
    ASSUME PluginInv, NEW c \in Creates, Plugin!Leased(c) PROVE PluginInv'
<1>0. PluginTypes /\ CreateCalls /\ FreshLeases
  BY DEF PluginInv
<1>1. /\ Plugin!Thread(c) = c /\ c \in Plugin!Processes
      /\ \A q \in Plugin!Disposers \cup Uses : q \in Plugin!Processes /\ q # c
      /\ call[c].key \in Keys \cup {Nobody} /\ server[c].lease \in Known \cup {0}
  BY CreatorFacts
<1>2. /\ call[c].pc = "posting" /\ server[c].pc = "ok"
      /\ call' = [call EXCEPT ![c] = [@ EXCEPT !.pc = "preparing", !.lease = server[c].lease]]
      /\ UNCHANGED <<table, file, last, keyOf, live, lost, creating, server>>
      /\ UNCHANGED <<runtimes, current, creation, retiring, broken>> /\ UNCHANGED Plugin!managerVars
  BY <1>1 DEF Plugin!Leased, Plugin!At, Plugin!Answered, Plugin!Doing, Plugin!managerVars
<1>3. CallMoves(c, "preparing", call[c].key, server[c].lease)
  <2>1. PICK s : s = call[c] /\ s = [pc |-> s.pc, key |-> s.key, lease |-> s.lease]
    BY <1>0, <1>1 DEF PluginTypes
  <2> DEFINE t == [pc |-> "preparing", key |-> s.key, lease |-> s.lease]
  <2>2. [s EXCEPT !.pc = "preparing"] = t
    BY <2>1
  <2>3. [t EXCEPT !.lease = server[c].lease]
        = [pc |-> "preparing", key |-> s.key, lease |-> server[c].lease]
    OBVIOUS
  <2>4. [s EXCEPT !.pc = "preparing", !.lease = server[c].lease] = [t EXCEPT !.lease = server[c].lease]
    <3> HIDE DEF t
    <3>1. [s EXCEPT !.pc = "preparing", !.lease = server[c].lease]
          = [[s EXCEPT !.pc = "preparing"] EXCEPT !.lease = server[c].lease]
      OBVIOUS
    <3> QED
      BY <2>2, <3>1
  <2> QED
    BY <1>2, <2>1, <2>3, <2>4 DEF CallMoves
<1>4. /\ call'[c].pc = "preparing" /\ call'[c].key = call[c].key /\ call'[c].lease = server[c].lease
      /\ \A q \in Plugin!Processes : q # c => call'[q] = call[q]
      /\ call' \in [Plugin!Processes -> [pc : CallPlaces, key : Keys \cup {Nobody},
                                         lease : Known \cup {0}]]
  BY <1>0, <1>1, <1>3, CallMovesFacts DEF CallPlaces
<1>5. PluginTypes' /\ ManagerThreads' /\ LeaseTable' /\ Plugin!RunningIsLeased'
  <2>1. /\ runtimes' \cup retiring' \cup broken' \subseteq Known
        /\ creation' \in [Keys -> Creates \cup {Nobody}] /\ current' \in [Keys -> Known \cup {0}]
    BY <1>0, <1>2 DEF PluginTypes
  <2> QED
    BY <1>2, <1>4, <2>1, QuietHost
<1>6. DisposeCalls' /\ OfferedRuntimes' /\ UsedRuntimes' /\ \A n : Untouched(n) => Untouched(n)'
  BY <1>1, <1>2, <1>4, CreatorFrame
<1>7. CreateCalls' /\ FreshLeases'
  <2>1. \A e \in Creates \ {c} : call'[e] = call[e] /\ server'[e] = server[e]
              /\ creation'[call[e].key] = creation[call[e].key]
    BY <1>2, <1>4 DEF Plugin!Processes, Plugin!Callers
  <2>2. \A n \in lost : Untouched(n)'
    BY <1>0, <1>6 DEF FreshLeases
  <2>3. \A n : n = server'[c].lease => Untouched(n)'
    BY <1>0, <1>2, <1>6 DEF FreshLeases
  <2>4. /\ server[c].verb = "POST" /\ server[c].key = call[c].key
        /\ call[c].key \in Keys /\ creation[call[c].key] = c
    BY <1>0, <1>2 DEF CreateCalls
  <2>5. \A k \in Keys : creation'[k] # Nobody => current'[k] = 0
    BY <1>0, <1>2 DEF CreateCalls
  <2> QED
    BY <1>2, <1>4, <1>6, <2>1, <2>2, <2>3, <2>4, <2>5, CreatorStays
<1> QED
  BY <1>5, <1>6, <1>7 DEF PluginInv

(* A creation begins, or finds its key taken.                                *)
LEMMA CreateRuntimeKeeps ==
    ASSUME PluginInv, NEW c \in Creates, NEW k \in Keys, Plugin!CreateRuntime(c, k) PROVE PluginInv'
<1>0. PluginTypes /\ CreateCalls /\ FreshLeases /\ ManagerThreads
  BY DEF PluginInv
<1>1. /\ c \in Plugin!Processes /\ c \in Plugin!Requests /\ c # Nobody
      /\ \A q \in Plugin!Disposers \cup Uses : q \in Plugin!Processes /\ q # c
      /\ call[c].key \in Keys \cup {Nobody} /\ call[c].lease \in Known \cup {0}
      /\ server[c].pc = "idle" => server[c].verb # "DELETE"
  BY CreatorFacts
<1>2. /\ call[c].pc = "new" /\ server[c].pc = "idle"
      /\ UNCHANGED <<table, file, last, keyOf, live, lost, creating>>
      /\ UNCHANGED <<runtimes, current, retiring, broken>>
  BY <1>0 DEF Plugin!CreateRuntime, Plugin!At, CreateCalls
<1>3. runtimes' \cup retiring' \cup broken' \subseteq Known /\ current' \in [Keys -> Known \cup {0}]
  BY <1>0, <1>2 DEF PluginTypes
<1>4. CASE creation[k] # Nobody \/ current[k] # 0
  <2>1. CallMoves(c, "done", call[c].key, call[c].lease) /\ creation' = creation /\ server' = server
    BY <1>0, <1>1, <1>4, GoMoves DEF Plugin!CreateRuntime
  <2>2. /\ call'[c].pc = "done" /\ \A q \in Plugin!Processes : q # c => call'[q] = call[q]
        /\ call' \in [Plugin!Processes -> [pc : CallPlaces, key : Keys \cup {Nobody},
                                           lease : Known \cup {0}]]
    <3>1. "done" \in CallPlaces
      BY DEF CallPlaces
    <3> QED
      BY <1>0, <1>1, <2>1, <3>1, CallMovesFacts
  <2>3. PluginTypes' /\ ManagerThreads' /\ LeaseTable' /\ Plugin!RunningIsLeased'
    <3>1. creation' \in [Keys -> Creates \cup {Nobody}] /\ UNCHANGED Plugin!managerVars
      BY <1>0, <1>2, <2>1 DEF PluginTypes, Plugin!managerVars
    <3> QED
      BY <1>3, <2>2, <3>1, QuietHost
  <2>4. DisposeCalls' /\ OfferedRuntimes' /\ UsedRuntimes' /\ \A n : Untouched(n) => Untouched(n)'
    BY <1>1, <1>2, <2>1, <2>2, CreatorFrame
  <2>5. CreateCalls' /\ FreshLeases'
    <3>1. \A e \in Creates \ {c} : call'[e] = call[e] /\ server'[e] = server[e]
              /\ creation'[call[e].key] = creation[call[e].key]
      BY <2>1, <2>2 DEF Plugin!Processes, Plugin!Callers
    <3>2. \A n \in lost : Untouched(n)'
      BY <1>0, <2>4 DEF FreshLeases
    <3>3. \A m \in Keys : creation'[m] # Nobody => current'[m] = 0
      BY <1>0, <1>2, <2>1 DEF CreateCalls
    <3> QED
      BY <1>1, <1>2, <2>1, <2>2, <2>4, <3>1, <3>2, <3>3, CreatorStays
  <2> QED
    BY <2>3, <2>4, <2>5 DEF PluginInv
<1>5. CASE creation[k] = Nobody /\ current[k] = 0
  <2> DEFINE v == [pc |-> "enter", verb |-> "POST", key |-> k, lease |-> 0]
  <2>1. /\ creation' = [creation EXCEPT ![k] = c] /\ CallMoves(c, "posting", k, 0)
        /\ server' = [server EXCEPT ![c] = v]
    BY <1>5 DEF Plugin!CreateRuntime, Plugin!Post, CallMoves
  <2>2. /\ call'[c].pc = "posting" /\ call'[c].key = k
        /\ \A q \in Plugin!Processes : q # c => call'[q] = call[q]
        /\ call' \in [Plugin!Processes -> [pc : CallPlaces, key : Keys \cup {Nobody},
                                           lease : Known \cup {0}]]
    <3>1. "posting" \in CallPlaces /\ k \in Keys \cup {Nobody} /\ 0 \in Known \cup {0}
      BY DEF CallPlaces
    <3> QED
      BY <1>0, <1>1, <2>1, <3>1, CallMovesFacts
  <2>3. Asks(c, v)
    BY <1>2, <2>1 DEF Asks
  <2>4. server'[c] = v /\ \A q \in Plugin!Requests : q # c => server'[q] = server[q]
    BY <1>0, <1>1, <2>3, AsksFacts
  <2>5. /\ creation' \in [Keys -> Creates \cup {Nobody}] /\ creation'[k] = c
        /\ \A m \in Keys : m # k => creation'[m] = creation[m]
    BY <1>0, <2>1 DEF PluginTypes
  <2>6. PluginTypes' /\ ManagerThreads' /\ LeaseTable' /\ Plugin!RunningIsLeased'
    <3> HIDE DEF v
    <3> QED
      BY <1>1, <1>2, <1>3, <2>2, <2>3, <2>5, AskingHost
  <2>7. DisposeCalls' /\ OfferedRuntimes' /\ UsedRuntimes' /\ \A n : Untouched(n) => Untouched(n)'
    BY <1>1, <1>2, <2>2, <2>4, CreatorFrame
  <2>8. CreateCalls' /\ FreshLeases'
    <3>1. \A e \in Creates \ {c} : call'[e] = call[e] /\ server'[e] = server[e]
              /\ (call[e].pc \in {"posting", "preparing", "undoing"} =>
                     creation'[call[e].key] = creation[call[e].key])
      <4>1. \A e \in Creates \ {c} : call'[e] = call[e] /\ server'[e] = server[e]
        BY <2>2, <2>4, RequestFacts DEF Plugin!Processes, Plugin!Callers
      <4>2. \A e \in Creates : call[e].pc \in {"posting", "preparing", "undoing"} =>
                call[e].key \in Keys /\ call[e].key # k
        BY <1>0, <1>5, PluginAssumption DEF CreateCalls
      <4> QED
        BY <2>5, <4>1, <4>2
    <3>2. \A n \in lost : Untouched(n)'
      BY <1>0, <2>7 DEF FreshLeases
    <3>3. \A m \in Keys : creation'[m] # Nobody => current'[m] = 0
      BY <1>0, <1>2, <1>5, <2>5 DEF CreateCalls
    <3> QED
      BY <1>2, <2>2, <2>4, <2>5, <2>7, <3>1, <3>2, <3>3, CreatorStays
  <2> QED
    BY <2>6, <2>7, <2>8 DEF PluginInv
<1> QED
  BY <1>4, <1>5

(* The runtime does not answer: the host gives its lease back.               *)
LEMMA NotReadyKeeps ==
    ASSUME PluginInv, NEW c \in Creates, Plugin!NotReady(c) PROVE PluginInv'
<1>0. PluginTypes /\ CreateCalls /\ FreshLeases /\ ManagerThreads
  BY DEF PluginInv
<1> DEFINE n == call[c].lease
           v == [pc |-> "fetch", verb |-> "DELETE", key |-> keyOf[n], lease |-> n]
<1>1. /\ c \in Plugin!Processes /\ c \in Plugin!Requests /\ Plugin!RequestOf(c, n) = c
      /\ \A q \in Plugin!Disposers \cup Uses : q \in Plugin!Processes /\ q # c
      /\ call[c].key \in Keys \cup {Nobody} /\ n \in Known \cup {0}
  BY CreatorFacts
<1>2. /\ call[c].pc = "preparing" /\ server[c].verb = "POST" /\ server[c].pc = "ok"
      /\ server[c].lease = n /\ call[c].key \in Keys /\ creation[call[c].key] = c
      /\ UNCHANGED <<table, file, last, keyOf, live, lost, creating>>
      /\ UNCHANGED <<runtimes, current, creation, retiring, broken>>
      /\ server' = [server EXCEPT ![c] = v] /\ Plugin!Go(c, "undoing")
  BY <1>0, <1>1 DEF Plugin!NotReady, Plugin!At, CreateCalls, Plugin!Delete
<1>3. n \in Known
  BY <1>0, <1>1, <1>2 DEF ManagerThreads, Owns
<1>4. CallMoves(c, "undoing", call[c].key, n)
  BY <1>0, <1>1, <1>2, GoMoves
<1>5. /\ call'[c].pc = "undoing" /\ call'[c].key = call[c].key
      /\ \A q \in Plugin!Processes : q # c => call'[q] = call[q]
      /\ call' \in [Plugin!Processes -> [pc : CallPlaces, key : Keys \cup {Nobody},
                                         lease : Known \cup {0}]]
  BY <1>0, <1>1, <1>4, CallMovesFacts DEF CallPlaces
<1>6. Asks(c, v)
  BY <1>2, <1>3 DEF Asks
<1>7. server'[c] = v /\ \A q \in Plugin!Requests : q # c => server'[q] = server[q]
  BY <1>0, <1>1, <1>6, AsksFacts
<1>8. PluginTypes' /\ ManagerThreads' /\ LeaseTable' /\ Plugin!RunningIsLeased'
  <2>1. /\ runtimes' \cup retiring' \cup broken' \subseteq Known
        /\ creation' \in [Keys -> Creates \cup {Nobody}] /\ current' \in [Keys -> Known \cup {0}]
    BY <1>0, <1>2 DEF PluginTypes
  <2> HIDE DEF v
  <2> QED
    BY <1>1, <1>2, <1>5, <1>6, <2>1, AskingHost
<1>9. DisposeCalls' /\ OfferedRuntimes' /\ UsedRuntimes' /\ \A m : Untouched(m) => Untouched(m)'
  BY <1>1, <1>2, <1>5, <1>7, CreatorFrame
<1>10. CreateCalls' /\ FreshLeases'
  <2>1. \A e \in Creates \ {c} : call'[e] = call[e] /\ server'[e] = server[e]
              /\ creation'[call[e].key] = creation[call[e].key]
    BY <1>2, <1>5, <1>7, RequestFacts DEF Plugin!Processes, Plugin!Callers
  <2>2. \A m \in lost : Untouched(m)'
    BY <1>0, <1>9 DEF FreshLeases
  <2>3. Untouched(n)
    BY <1>0, <1>2 DEF FreshLeases
  <2>4. \A m : m = server'[c].lease => Untouched(m)'
    BY <1>7, <1>9, <2>3
  <2>5. \A k \in Keys : creation'[k] # Nobody => current'[k] = 0
    BY <1>0, <1>2 DEF CreateCalls
  <2> QED
    BY <1>2, <1>5, <1>7, <1>9, <2>1, <2>2, <2>4, <2>5, CreatorStays
<1> QED
  BY <1>8, <1>9, <1>10 DEF PluginInv

(* The runtime answers: the host offers it.                                  *)
LEMMA RuntimeReadyKeeps ==
    ASSUME PluginInv, NEW c \in Creates, Plugin!RuntimeReady(c) PROVE PluginInv'
<1>0. /\ PluginTypes /\ CreateCalls /\ FreshLeases /\ ManagerThreads /\ LeaseTable /\ DisposeCalls
      /\ OfferedRuntimes /\ UsedRuntimes
  BY DEF PluginInv
<1> DEFINE n == call[c].lease
           k == call[c].key
<1>1. /\ c \in Plugin!Processes /\ c \in Plugin!Requests
      /\ \A q \in Plugin!Disposers \cup Uses : q \in Plugin!Processes /\ q # c
      /\ k \in Keys \cup {Nobody} /\ n \in Known \cup {0} /\ c # Nobody
  BY CreatorFacts
<1>2. /\ call[c].pc = "preparing" /\ server[c].verb = "POST" /\ server[c].pc = "ok"
      /\ server[c].lease = n /\ server[c].key = k /\ k \in Keys /\ creation[k] = c
      /\ n \in live /\ runtimes' = runtimes \cup {n} /\ current' = [current EXCEPT ![k] = n]
      /\ creation' = [creation EXCEPT ![k] = Nobody] /\ Plugin!Go(c, "done")
      /\ UNCHANGED Plugin!managerVars /\ UNCHANGED <<retiring, broken>>
  BY <1>0 DEF Plugin!RuntimeReady, Plugin!At, CreateCalls, Plugin!EndCreate
<1>3. UNCHANGED <<table, file, last, keyOf, live, lost, creating, server>>
  BY <1>2 DEF Plugin!managerVars
<1>4. Owns(c) /\ n \in Known /\ keyOf[n] = k /\ n \notin lost /\ Untouched(n)
  BY <1>0, <1>1, <1>2 DEF ManagerThreads, Owns, LeaseTable, FreshLeases
<1>5. CallMoves(c, "done", k, n)
  BY <1>0, <1>1, <1>2, GoMoves
<1>6. /\ call'[c].pc = "done" /\ \A q \in Plugin!Processes : q # c => call'[q] = call[q]
      /\ call' \in [Plugin!Processes -> [pc : CallPlaces, key : Keys \cup {Nobody},
                                         lease : Known \cup {0}]]
  BY <1>0, <1>1, <1>5, CallMovesFacts DEF CallPlaces
<1>7. /\ creation' \in [Keys -> Creates \cup {Nobody}] /\ current' \in [Keys -> Known \cup {0}]
      /\ current'[k] = n /\ creation'[k] = Nobody
      /\ \A m \in Keys : m # k => creation'[m] = creation[m] /\ current'[m] = current[m]
  BY <1>0, <1>2, <1>4 DEF PluginTypes
<1>8. PluginTypes' /\ ManagerThreads' /\ LeaseTable' /\ Plugin!RunningIsLeased'
  <2>1. runtimes' \cup retiring' \cup broken' \subseteq Known
    BY <1>0, <1>2, <1>4 DEF PluginTypes
  <2> QED
    BY <1>2, <1>6, <1>7, <2>1, QuietHost
<1>9. \A q \in Plugin!Disposers \cup Uses : call'[q] = call[q]
  BY <1>1, <1>6
<1>10. \A m : Untouched(m) => Untouched(m)' \/ (Owns(c) /\ server[c].lease = m)
  BY <1>2, <1>3, <1>4, <1>9 DEF Untouched
<1>11. CreateCalls' /\ FreshLeases'
  <2>1. \A e \in Creates \ {c} : call'[e] = call[e] /\ server'[e] = server[e]
              /\ (call[e].pc \in {"posting", "preparing", "undoing"} =>
                     creation'[call[e].key] = creation[call[e].key])
    BY <1>0, <1>2, <1>3, <1>6, <1>7 DEF CreateCalls, Plugin!Processes, Plugin!Callers
  <2>2. \A m \in lost : Untouched(m)'
    BY <1>0, <1>2, <1>4, <1>10 DEF FreshLeases
  <2>3. \A m \in Keys : creation'[m] # Nobody => current'[m] = 0
    BY <1>0, <1>7 DEF CreateCalls
  <2> QED
    BY <1>2, <1>3, <1>6, <1>10, <2>1, <2>2, <2>3, CreatorStays
<1>12. DisposeCalls'
  <2>1. \A d \in Disposals : call'[d] = call[d]
    BY <1>9 DEF Plugin!Disposers
  <2>2. \A s \in Sweeps : call'[s] = call[s]
    BY <1>9 DEF Plugin!Disposers
  <2> QED
    BY <1>0, <1>3, <2>1, <2>2 DEF DisposeCalls, Plugin!Disposers
<1>13. OfferedRuntimes'
  <2>1. \A m : BeingDisposed(m)' <=> BeingDisposed(m)
    BY <1>9 DEF BeingDisposed
  <2>2. ASSUME NEW m \in runtimes' \ broken' PROVE current'[keyOf'[m]] = m
    <3>1. CASE m = n
      BY <1>3, <1>4, <1>7, <3>1
    <3>2. CASE m # n
      <4>1. m \in runtimes \ broken /\ m \in Known /\ 0 \notin Known /\ keyOf[m] \in Keys
        BY <1>0, <1>2, <2>2, <3>2, KnownFacts DEF PluginTypes
      <4>2. current[keyOf[m]] = m /\ current[k] = 0
        BY <1>0, <1>1, <1>2, <4>1 DEF OfferedRuntimes, CreateCalls
      <4> QED
        BY <1>3, <1>7, <4>1, <4>2
    <3> QED
      BY <3>1, <3>2
  <2>3. \A m \in runtimes' \ (live' \cup broken') : BeingDisposed(m)
    BY <1>0, <1>2, <1>3 DEF OfferedRuntimes
  <2>4. ASSUME NEW r \in Plugin!Requests \ Creates, server[r].pc # "idle"
        PROVE  /\ server[r].lease \in runtimes' \ broken' => BeingDisposed(server[r].lease)
               /\ server[r].pc = "ok" => server[r].lease \notin live
    BY <1>0, <1>2, <1>4, <2>4 DEF OfferedRuntimes, Untouched
  <2> QED
    BY <1>3, <2>1, <2>2, <2>3, <2>4 DEF OfferedRuntimes
<1>14. UsedRuntimes'
  <2>1. \A m : ByRequest(m)' <=> ByRequest(m)
    BY <1>9 DEF ByRequest, Plugin!Disposers
  <2>2. \A u \in Uses : call'[u] = call[u]
    BY <1>9
  <2>3. ASSUME NEW s \in Sweeps, NEW m \in Plugin!Leases, server[<<s, m>>].pc # "idle"
        PROVE  m # n
    <3>1. <<s, m>> \in Plugin!Requests \ Creates
      BY RequestFacts
    <3>2. server[<<s, m>>].lease = m
      BY <1>0, <2>3 DEF DisposeCalls
    <3>3. server[<<s, m>>].lease # n
      BY <1>4, <3>1 DEF Untouched
    <3> QED
      BY <3>2, <3>3
  <2> QED
    BY <1>0, <1>2, <1>3, <2>1, <2>2, <2>3 DEF UsedRuntimes
<1> QED
  BY <1>8, <1>11, <1>12, <1>13, <1>14 DEF PluginInv

(* The creations, while only disposals and requests move.                    *)
LEMMA CreatesStay ==
    ASSUME PluginInv, \A c \in Creates : call'[c] = call[c] /\ server'[c] = server[c],
           creation' = creation, lost' = lost, \A k \in Keys : current'[k] \in {current[k], 0},
           \A n : Untouched(n) => Untouched(n)'
    PROVE  CreateCalls' /\ FreshLeases'
<1>0. CreateCalls /\ FreshLeases
  BY DEF PluginInv
<1>1. CreateCalls'
  <2>1. \A k \in Keys : creation'[k] # Nobody => current'[k] = 0
    BY <1>0 DEF CreateCalls
  <2> QED
    BY <1>0, <2>1 DEF CreateCalls
<1>2. FreshLeases'
  <2>1. ASSUME NEW c \in Creates, NEW n, n = server[c].lease,
               \/ server[c].verb = "DELETE" \/ server[c].pc \in {"register", "leaveOk"}
               \/ server[c].pc = "ok" /\ call[c].pc # "done"
        PROVE  Untouched(n)'
    BY <1>0, <2>1 DEF FreshLeases
  <2>2. \A n \in lost' : Untouched(n)'
    BY <1>0 DEF FreshLeases
  <2> QED
    BY <2>1, <2>2 DEF FreshLeases
<1> QED
  BY <1>1, <1>2

(* The disposers, and the threads that work for them.                        *)
LEMMA DisposerFacts ==
    ASSUME PluginInv, NEW d \in Plugin!Disposers
    PROVE  /\ d \in Plugin!Processes /\ call[d].key \in Keys \cup {Nobody}
           /\ call[d].lease \in Known \cup {0}
           /\ \A q \in Creates \cup Uses : q \in Plugin!Processes /\ q # d
           /\ (d \in Disposals /\ d \notin Sweeps) \/ (d \in Sweeps /\ d \notin Disposals)
           /\ \A n \in Known : /\ Plugin!RequestOf(d, n) \in Plugin!Requests \ Creates
                               /\ Plugin!RequestOf(d, n) = IF d \in Sweeps THEN <<d, n>> ELSE d
           /\ call[d].pc = "deleting" =>
                 /\ call[d].lease \in Known /\ server[Plugin!Thread(d)].lease = call[d].lease
                 /\ call[d].key = keyOf[call[d].lease] /\ call[d].key \in Keys
                 /\ Plugin!Thread(d) \in Plugin!Requests \ Creates
                 /\ server[Plugin!Thread(d)].pc # "idle"
<1>0. PluginTypes /\ DisposeCalls
  BY DEF PluginInv
<1>1. /\ d \in Plugin!Processes
      /\ \A q \in Creates \cup Uses : q \in Plugin!Processes /\ q # d
      /\ (d \in Disposals /\ d \notin Sweeps) \/ (d \in Sweeps /\ d \notin Disposals)
  <2>1. d \in Disposals \/ d \in Sweeps
    BY DEF Plugin!Disposers
  <2>2. d \in Disposals => d \notin Sweeps
    BY PluginAssumption
  <2>3. \A q \in Creates \cup Uses : q # d
    BY <2>1, PluginAssumption
  <2>4. (d \in Disposals /\ d \notin Sweeps) \/ (d \in Sweeps /\ d \notin Disposals)
    BY <2>1, <2>2
  <2>5. d \in Plugin!Processes /\ \A q \in Creates \cup Uses : q \in Plugin!Processes
    BY <2>1 DEF Plugin!Processes, Plugin!Callers, Plugin!Disposers
  <2> QED
    BY <2>3, <2>4, <2>5
<1>2. call[d].key \in Keys \cup {Nobody} /\ call[d].lease \in Known \cup {0}
  BY <1>0, <1>1 DEF PluginTypes
<1>3. ASSUME NEW n \in Known
      PROVE  /\ Plugin!RequestOf(d, n) \in Plugin!Requests \ Creates
             /\ Plugin!RequestOf(d, n) = IF d \in Sweeps THEN <<d, n>> ELSE d
  <2>1. n \in Plugin!Leases
    BY <1>0, KnownFacts
  <2>2. Plugin!RequestOf(d, n) = IF d \in Sweeps THEN <<d, n>> ELSE d
    BY DEF Plugin!RequestOf
  <2>3. CASE d \in Sweeps
    BY <2>1, <2>2, <2>3, RequestFacts
  <2>4. CASE d \in Disposals /\ d \notin Sweeps
    BY <2>2, <2>4, RequestFacts
  <2> QED
    BY <1>1, <2>3, <2>4
<1>4. ASSUME call[d].pc = "deleting"
      PROVE  /\ call[d].lease \in Known /\ server[Plugin!Thread(d)].lease = call[d].lease
             /\ call[d].key = keyOf[call[d].lease] /\ call[d].key \in Keys
             /\ Plugin!Thread(d) \in Plugin!Requests \ Creates
             /\ server[Plugin!Thread(d)].pc # "idle"
  <2>1. call[d].lease # 0 /\ call[d].key = keyOf[call[d].lease]
    BY <1>0, <1>4 DEF DisposeCalls
  <2>2. call[d].lease \in Known /\ call[d].key \in Keys
    BY <1>0, <1>2, <2>1 DEF PluginTypes
  <2>3. Plugin!Thread(d) = IF d \in Sweeps THEN <<d, call[d].lease>> ELSE d
    BY <1>3, <2>2 DEF Plugin!Thread
  <2>4. server[Plugin!Thread(d)].lease = call[d].lease /\ server[Plugin!Thread(d)].pc # "idle"
    <3>1. CASE d \in Disposals /\ d \notin Sweeps
      BY <1>0, <1>4, <2>3, <3>1 DEF DisposeCalls
    <3>2. CASE d \in Sweeps
      <4>1. call[d].lease \in Plugin!Leases
        BY <1>0, <2>2, KnownFacts
      <4> QED
        BY <1>0, <1>4, <2>3, <3>2, <4>1 DEF DisposeCalls
    <3> QED
      BY <1>1, <3>1, <3>2
  <2>5. Plugin!Thread(d) \in Plugin!Requests \ Creates
    BY <1>3, <2>2 DEF Plugin!Thread
  <2> QED
    BY <2>1, <2>2, <2>4, <2>5
<1> QED
  BY <1>1, <1>2, <1>3, <1>4

(* A disposal begins, for a runtime the host has.                            *)
LEMMA DisposalBegins ==
    ASSUME PluginInv, NEW d \in Plugin!Disposers, NEW n, Plugin!BeginDispose(d, n),
           call[d].pc \in {"new", "sweeping"}, d \in Disposals => call[d].pc = "new",
           UNCHANGED <<table, file, last, keyOf, live, lost, creating>>,
           UNCHANGED <<runtimes, current, creation>>,
           retiring' = IF d \in Sweeps THEN retiring \cup {n} ELSE retiring,
           broken \subseteq broken', broken' \subseteq Known,
           d \in Sweeps => \A u \in Uses : call[u].pc = "using" /\ call[u].lease = n => n \in broken'
    PROVE  PluginInv'
<1>0. /\ PluginTypes /\ CreateCalls /\ FreshLeases /\ DisposeCalls /\ OfferedRuntimes /\ UsedRuntimes
  BY DEF PluginInv
<1> DEFINE r == Plugin!RequestOf(d, n)
           v == [pc |-> "fetch", verb |-> "DELETE", key |-> keyOf[n], lease |-> n]
<1>1. /\ n \in runtimes /\ n \in Known /\ n # 0 /\ n \in Plugin!Leases /\ keyOf[n] \in Keys
      /\ CallMoves(d, "deleting", keyOf[n], n) /\ server' = [server EXCEPT ![r] = v]
  BY <1>0, KnownFacts DEF Plugin!BeginDispose, Plugin!Delete, CallMoves, PluginTypes
<1>2. /\ d \in Plugin!Processes /\ \A q \in Creates \cup Uses : q \in Plugin!Processes /\ q # d
      /\ (d \in Disposals /\ d \notin Sweeps) \/ (d \in Sweeps /\ d \notin Disposals)
      /\ r \in Plugin!Requests \ Creates /\ r = IF d \in Sweeps THEN <<d, n>> ELSE d
  BY <1>1, DisposerFacts
<1>3. /\ call'[d].pc = "deleting" /\ call'[d].key = keyOf[n] /\ call'[d].lease = n
      /\ \A q \in Plugin!Processes : q # d => call'[q] = call[q]
      /\ call' \in [Plugin!Processes -> [pc : CallPlaces, key : Keys \cup {Nobody},
                                         lease : Known \cup {0}]]
  BY <1>0, <1>1, <1>2, CallMovesFacts DEF CallPlaces
<1>4. Asks(r, v)
  BY <1>1, <1>2 DEF Asks
<1>5. server'[r] = v /\ \A q \in Plugin!Requests : q # r => server'[q] = server[q]
  BY <1>0, <1>2, <1>4, AsksFacts
<1>6. PluginTypes' /\ ManagerThreads' /\ LeaseTable' /\ Plugin!RunningIsLeased'
  <2>1. /\ runtimes' \cup retiring' \cup broken' \subseteq Known
        /\ creation' \in [Keys -> Creates \cup {Nobody}] /\ current' \in [Keys -> Known \cup {0}]
    BY <1>0, <1>1 DEF PluginTypes
  <2> HIDE DEF v, r
  <2> QED
    BY <1>2, <1>3, <1>4, <2>1, AskingHost
<1>7. \A q \in Plugin!Requests : server[q].pc # "idle" => server'[q].pc # "idle"
  BY <1>5
<1>8. \A m : Untouched(m) => Untouched(m)'
  <2>1. \A q \in Plugin!Disposers \cup Uses : q \in Plugin!Processes
    BY DEF Plugin!Processes, Plugin!Callers
  <2>2. \A m : Untouched(m) => m # n
    BY <1>1 DEF Untouched
  <2>3. \A q \in Plugin!Disposers \cup Uses : call'[q].lease \in {call[q].lease, n}
    BY <1>3, <2>1
  <2>4. \A q \in Plugin!Requests : server'[q].lease \in {server[q].lease, n}
    BY <1>5
  <2> QED
    BY <2>2, <2>3, <2>4 DEF Untouched
<1>9. CreateCalls' /\ FreshLeases'
  <2>1. \A c \in Creates : call'[c] = call[c] /\ server'[c] = server[c]
    BY <1>2, <1>3, <1>5, RequestFacts
  <2> QED
    BY <1>8, <2>1, CreatesStay
<1>10. DisposeCalls'
  <2>1. ASSUME NEW e \in Disposals
        PROVE  /\ call'[e].pc = "deleting" => server'[e].pc # "idle"
               /\ server'[e].pc # "idle" => call'[e].pc # "new" /\ call'[e].lease = server'[e].lease
    <3>1. e \in Plugin!Requests /\ e \in Plugin!Processes
      BY RequestFacts DEF Plugin!Processes, Plugin!Callers, Plugin!Disposers
    <3>2. CASE e = d
      BY <1>2, <1>3, <1>5, <3>2
    <3>3. CASE e # d
      <4>1. e # r
        BY <1>1, <1>2, <3>3, RequestFacts
      <4> QED
        BY <1>0, <1>3, <1>5, <3>1, <3>3, <4>1 DEF DisposeCalls
    <3> QED
      BY <3>2, <3>3
  <2>2. ASSUME NEW s \in Sweeps
        PROVE  /\ call'[s].pc = "deleting" => server'[<<s, call'[s].lease>>].pc # "idle"
               /\ \A m \in Plugin!Leases : server'[<<s, m>>].pc # "idle" => server'[<<s, m>>].lease = m
    <3>1. s \in Plugin!Processes
      BY DEF Plugin!Processes, Plugin!Callers, Plugin!Disposers
    <3>2. ASSUME NEW m \in Plugin!Leases, server'[<<s, m>>].pc # "idle"
          PROVE  server'[<<s, m>>].lease = m
      <4>1. CASE <<s, m>> = r
        <5>1. m = n
          BY <1>2, <4>1, RequestFacts
        <5> QED
          BY <1>5, <4>1, <5>1
      <4>2. CASE <<s, m>> # r
        <5>1. server'[<<s, m>>] = server[<<s, m>>]
          BY <1>5, <4>2, RequestFacts
        <5>2. server[<<s, m>>].pc # "idle" => server[<<s, m>>].lease = m
          BY <1>0 DEF DisposeCalls
        <5> QED
          BY <3>2, <5>1, <5>2
      <4> QED
        BY <4>1, <4>2
    <3>3. ASSUME call'[s].pc = "deleting" PROVE server'[<<s, call'[s].lease>>].pc # "idle"
      <4>1. CASE s = d
        BY <1>2, <1>3, <1>5, <4>1
      <4>2. CASE s # d
        <5>1. s \in Plugin!Disposers /\ call'[s] = call[s]
          BY <1>3, <3>1, <4>2 DEF Plugin!Disposers
        <5>2. call[s].lease \in Known /\ server[<<s, call[s].lease>>].pc # "idle"
          BY <1>0, <3>3, <5>1, DisposerFacts DEF DisposeCalls
        <5>3. <<s, call[s].lease>> \in Plugin!Requests
          BY <1>0, <5>2, KnownFacts, RequestFacts
        <5> QED
          BY <1>7, <5>1, <5>2, <5>3
      <4> QED
        BY <4>1, <4>2
    <3> QED
      BY <3>2, <3>3
  <2>3. ASSUME NEW e \in Plugin!Disposers, call'[e].pc = "deleting"
        PROVE  call'[e].lease # 0 /\ call'[e].key = keyOf'[call'[e].lease]
    <3>1. e \in Plugin!Processes
      BY DEF Plugin!Processes, Plugin!Callers
    <3> QED
      BY <1>0, <1>1, <1>3, <2>3, <3>1 DEF DisposeCalls
  <2> QED
    BY <2>1, <2>2, <2>3 DEF DisposeCalls
<1>11. \A m : BeingDisposed(m) => BeingDisposed(m)'
  BY <1>2, <1>3 DEF BeingDisposed, Plugin!Processes, Plugin!Callers
<1>12. OfferedRuntimes'
  <2>1. \A m \in runtimes' \ broken' : current'[keyOf'[m]] = m
    BY <1>0 DEF OfferedRuntimes
  <2>2. \A m \in runtimes' \ (live' \cup broken') : BeingDisposed(m)'
    BY <1>0, <1>11 DEF OfferedRuntimes
  <2>3. BeingDisposed(n)'
    BY <1>3 DEF BeingDisposed
  <2>4. ASSUME NEW q \in Plugin!Requests \ Creates, server'[q].pc # "idle", NEW m, m = server'[q].lease
        PROVE  /\ m \in runtimes' \ broken' => BeingDisposed(m)'
               /\ server'[q].pc = "ok" => m \notin live'
    <3>1. CASE q = r
      BY <1>5, <2>3, <2>4, <3>1
    <3>2. CASE q # r
      <4>1. server'[q] = server[q]
        BY <1>5, <3>2
      <4> QED
        BY <1>0, <1>11, <2>4, <4>1 DEF OfferedRuntimes
    <3> QED
      BY <3>1, <3>2
  <2> QED
    BY <2>1, <2>2, <2>4 DEF OfferedRuntimes
<1>13. UsedRuntimes'
  <2>1. \A m : ByRequest(m) => ByRequest(m)'
    BY <1>2, <1>3 DEF ByRequest, Plugin!Processes, Plugin!Callers, Plugin!Disposers
  <2>2. \A u \in Uses : call'[u] = call[u]
    BY <1>2, <1>3
  <2>3. ASSUME NEW u \in Uses, NEW m, m = call[u].lease
        PROVE  /\ call[u].pc \in {"found", "using"} => m \in runtimes \/ m \notin live
               /\ call[u].pc = "found" => m \in live \cup broken' \cup retiring' \/ ByRequest(m)'
               /\ call[u].pc = "using" => m \in live \cup broken' \/ ByRequest(m)'
    BY <1>0, <2>1, <2>3 DEF UsedRuntimes
  <2>4. ASSUME NEW s \in Sweeps, NEW m \in Plugin!Leases, server'[<<s, m>>].pc # "idle"
        PROVE  /\ m \in runtimes => m \in retiring' \cup broken'
               /\ \A u \in Uses : call[u].lease = m =>
                     /\ call[u].pc = "found" => m \in retiring' \cup broken'
                     /\ call[u].pc = "using" => m \in broken'
    <3>1. CASE <<s, m>> = r
      <4>1. m = n /\ d \in Sweeps
        BY <1>2, <3>1, RequestFacts
      <4> QED
        BY <4>1
    <3>2. CASE <<s, m>> # r
      <4>1. server'[<<s, m>>] = server[<<s, m>>]
        BY <1>5, <3>2, RequestFacts
      <4> QED
        BY <1>0, <2>4, <4>1 DEF UsedRuntimes
    <3> QED
      BY <3>1, <3>2
  <2> QED
    BY <2>2, <2>3, <2>4 DEF UsedRuntimes
<1> QED
  BY <1>6, <1>9, <1>10, <1>12, <1>13 DEF PluginInv

(* DELETE of a runtime.                                                      *)
LEMMA DisposeRuntimeKeeps ==
    ASSUME PluginInv, NEW d \in Disposals, NEW n, Plugin!DisposeRuntime(d, n) PROVE PluginInv'
<1>1. d \in Plugin!Disposers /\ d \notin Sweeps
  BY PluginAssumption DEF Plugin!Disposers
<1>2. broken \subseteq Known
  BY DEF PluginInv, PluginTypes
<1>3. /\ Plugin!BeginDispose(d, n) /\ call[d].pc = "new"
      /\ UNCHANGED <<table, file, last, keyOf, live, lost, creating>>
      /\ UNCHANGED <<runtimes, current, creation>> /\ retiring' = retiring /\ broken' = broken
  BY DEF Plugin!DisposeRuntime, Plugin!At
<1> QED
  BY <1>1, <1>2, <1>3, DisposalBegins

(* A disposal or a sweep goes on; what it has disposed of is not offered, or  *)
(* marked as broken.                                                         *)
LEMMA DisposerGoesOn ==
    ASSUME PluginInv, NEW d \in Plugin!Disposers, call[d].pc \in {"deleting", "sweeping"},
           NEW pc \in {"sweeping", "done"}, CallMoves(d, pc, call[d].key, call[d].lease),
           UNCHANGED Plugin!managerVars, creation' = creation,
           \A k \in Keys : current'[k] \in {current[k], 0}, current' \in [Keys -> Known \cup {0}],
           runtimes' \subseteq runtimes, retiring' \subseteq retiring,
           broken \subseteq broken', broken' \subseteq Known, retiring \ retiring' \subseteq broken',
           call[d].pc = "deleting" => call[d].lease \notin runtimes' \ broken',
           \A n \in runtimes \ runtimes' : n \notin live,
           \A n \in runtimes' \ broken' : current'[keyOf[n]] = current[keyOf[n]]
    PROVE  PluginInv'
<1>0. PluginTypes /\ DisposeCalls /\ OfferedRuntimes /\ UsedRuntimes /\ creation' = creation
  BY DEF PluginInv
<1>1. /\ d \in Plugin!Processes /\ call[d].key \in Keys \cup {Nobody}
      /\ call[d].lease \in Known \cup {0}
      /\ \A q \in Creates \cup Uses : q \in Plugin!Processes /\ q # d
      /\ (d \in Disposals /\ d \notin Sweeps) \/ (d \in Sweeps /\ d \notin Disposals)
  BY DisposerFacts
<1>2. UNCHANGED <<table, file, last, keyOf, live, lost, creating, server>>
  BY DEF Plugin!managerVars
<1>3. /\ call'[d].pc = pc /\ call'[d].lease = call[d].lease /\ call'[d].key = call[d].key
      /\ \A q \in Plugin!Processes : q # d => call'[q] = call[q]
      /\ call' \in [Plugin!Processes -> [pc : CallPlaces, key : Keys \cup {Nobody},
                                         lease : Known \cup {0}]]
  BY <1>0, <1>1, CallMovesFacts DEF CallPlaces
<1>4. \A q \in Plugin!Processes : call'[q].lease = call[q].lease
  BY <1>3
<1>5. \A q \in Plugin!Disposers \cup Uses : q \in Plugin!Processes
  BY DEF Plugin!Processes, Plugin!Callers
<1>6. \A n : Untouched(n) => Untouched(n)'
  BY <1>2, <1>4, <1>5 DEF Untouched
<1>7. CreateCalls' /\ FreshLeases'
  <2>1. \A c \in Creates : call'[c] = call[c] /\ server'[c] = server[c]
    BY <1>1, <1>2, <1>3
  <2> QED
    BY <1>2, <1>6, <2>1, CreatesStay
<1>8. DisposeCalls'
  <2>1. ASSUME NEW e \in Disposals
        PROVE  /\ call'[e].pc = "deleting" => server[e].pc # "idle"
               /\ server[e].pc # "idle" => call'[e].pc # "new" /\ call'[e].lease = server[e].lease
    <3>1. e \in Plugin!Processes
      BY DEF Plugin!Processes, Plugin!Callers, Plugin!Disposers
    <3>2. CASE e = d
      BY <1>0, <1>3, <3>2 DEF DisposeCalls
    <3>3. CASE e # d
      BY <1>0, <1>3, <3>1, <3>3 DEF DisposeCalls
    <3> QED
      BY <3>2, <3>3
  <2>2. ASSUME NEW e \in Plugin!Disposers, call'[e].pc = "deleting"
        PROVE  /\ call'[e] = call[e] /\ call[e].lease # 0 /\ call[e].key = keyOf[call[e].lease]
               /\ e \in Sweeps => server[<<e, call[e].lease>>].pc # "idle"
    <3>1. e # d /\ e \in Plugin!Processes
      BY <1>3, <1>5, <2>2
    <3>2. call'[e] = call[e]
      BY <1>3, <3>1
    <3> QED
      BY <1>0, <2>2, <3>2 DEF DisposeCalls
  <2>3. \A s \in Sweeps : s \in Plugin!Disposers
    BY DEF Plugin!Disposers
  <2>4. \A s \in Sweeps, n \in Plugin!Leases : server[<<s, n>>].pc # "idle" => server[<<s, n>>].lease = n
    BY <1>0 DEF DisposeCalls
  <2>5. \A s \in Sweeps : call'[s].pc = "deleting" => server[<<s, call'[s].lease>>].pc # "idle"
    BY <2>2, <2>3
  <2> QED
    BY <1>2, <2>1, <2>2, <2>4, <2>5 DEF DisposeCalls
<1>9. \A n \in runtimes' \ broken' : BeingDisposed(n) => BeingDisposed(n)'
  <2>1. ASSUME NEW n \in runtimes' \ broken', NEW e \in Plugin!Disposers, call[e].pc = "deleting",
               call[e].lease = n
        PROVE  call'[e].pc = "deleting" /\ call'[e].lease = n
    <3>1. e # d
      BY <2>1
    <3> QED
      BY <1>3, <1>5, <2>1, <3>1
  <2> QED
    BY <2>1 DEF BeingDisposed
<1>10. \A n : ByRequest(n) => ByRequest(n)'
  <2>1. \A e \in Disposals : e \in Plugin!Processes
    BY DEF Plugin!Processes, Plugin!Callers, Plugin!Disposers
  <2> QED
    BY <1>3, <2>1 DEF ByRequest
<1>11. OfferedRuntimes'
  <2>1. \A n \in runtimes' \ broken' : current'[keyOf'[n]] = n
    BY <1>0, <1>2 DEF OfferedRuntimes
  <2>2. \A n \in runtimes' \ (live' \cup broken') : BeingDisposed(n)'
    BY <1>0, <1>2, <1>9 DEF OfferedRuntimes
  <2>3. ASSUME NEW r \in Plugin!Requests \ Creates, server[r].pc # "idle", NEW n, n = server[r].lease
        PROVE  /\ n \in runtimes' \ broken' => BeingDisposed(n)'
               /\ server[r].pc = "ok" => n \notin live
    BY <1>0, <1>9, <2>3 DEF OfferedRuntimes
  <2> QED
    BY <1>2, <2>1, <2>2, <2>3 DEF OfferedRuntimes
<1>12. UsedRuntimes'
  <2>1. \A u \in Uses : call'[u] = call[u]
    BY <1>1, <1>3
  <2>2. ASSUME NEW u \in Uses, NEW n, n = call[u].lease
        PROVE  /\ call[u].pc \in {"found", "using"} => n \in runtimes' \/ n \notin live
               /\ call[u].pc = "found" => n \in live \cup broken' \cup retiring' \/ ByRequest(n)'
               /\ call[u].pc = "using" => n \in live \cup broken' \/ ByRequest(n)'
    BY <1>0, <1>10, <2>2 DEF UsedRuntimes
  <2>3. ASSUME NEW s \in Sweeps, NEW n \in Plugin!Leases, server[<<s, n>>].pc # "idle"
        PROVE  /\ n \in runtimes' => n \in retiring' \cup broken'
               /\ \A u \in Uses : call[u].lease = n =>
                     /\ call[u].pc = "found" => n \in retiring' \cup broken'
                     /\ call[u].pc = "using" => n \in broken'
    BY <1>0, <2>3 DEF UsedRuntimes
  <2> QED
    BY <1>2, <2>1, <2>2, <2>3 DEF UsedRuntimes
<1>13. PluginTypes' /\ ManagerThreads' /\ LeaseTable' /\ Plugin!RunningIsLeased'
  <2>1. /\ runtimes' \cup retiring' \cup broken' \subseteq Known
        /\ creation' \in [Keys -> Creates \cup {Nobody}]
    BY <1>0 DEF PluginTypes
  <2> QED
    BY <1>3, <2>1, QuietHost
<1> QED
  BY <1>7, <1>8, <1>11, <1>12, <1>13 DEF PluginInv

(* The manager has disposed of the runtime.                                  *)
LEMMA DisposedKeeps ==
    ASSUME PluginInv, NEW d \in Plugin!Disposers, Plugin!Disposed(d) PROVE PluginInv'
<1>0. PluginTypes /\ OfferedRuntimes
  BY DEF PluginInv
<1> DEFINE n == call[d].lease
           k == call[d].key
<1>1. /\ call[d].pc = "deleting" /\ server[Plugin!Thread(d)].pc = "ok"
      /\ runtimes' = runtimes \ {n} /\ current' = [current EXCEPT ![k] = 0]
      /\ broken' = broken \cup ({current[k]} \ {0, n}) /\ creation' = creation /\ retiring' = retiring
      /\ UNCHANGED Plugin!managerVars
  BY DEF Plugin!Disposed, Plugin!At, Plugin!Answered, Plugin!Doing
<1>2. /\ d \in Plugin!Processes /\ n \in Known /\ server[Plugin!Thread(d)].lease = n
      /\ k = keyOf[n] /\ k \in Keys /\ Plugin!Thread(d) \in Plugin!Requests \ Creates
  BY <1>1, DisposerFacts
<1>3. PICK pc \in {"sweeping", "done"} : CallMoves(d, pc, k, n)
  BY <1>0, <1>2, GoMoves DEF Plugin!Disposed
<1>4. n \notin live
  BY <1>0, <1>1, <1>2 DEF OfferedRuntimes
<1>5. /\ current' \in [Keys -> Known \cup {0}] /\ current'[k] = 0 /\ current[k] \in Known \cup {0}
      /\ \A j \in Keys : j # k => current'[j] = current[j]
  BY <1>0, <1>1, <1>2 DEF PluginTypes
<1>6. broken' \subseteq Known
  BY <1>0, <1>1, <1>5 DEF PluginTypes
<1>7. ASSUME NEW m \in runtimes' \ broken' PROVE current'[keyOf[m]] = current[keyOf[m]]
  <2>1. m \in runtimes \ broken /\ m # n /\ m \in Known /\ 0 \notin Known /\ keyOf[m] \in Keys
    BY <1>0, <1>1, <1>7, KnownFacts DEF PluginTypes
  <2>2. current[keyOf[m]] = m
    BY <1>0, <2>1 DEF OfferedRuntimes
  <2>3. keyOf[m] # k
    BY <1>1, <1>7, <2>1, <2>2
  <2> QED
    BY <1>5, <2>1, <2>3
<1> HIDE DEF n, k
<1>8. runtimes' \subseteq runtimes /\ retiring \ retiring' \subseteq broken'
      /\ broken \subseteq broken' /\ n \notin runtimes' \ broken'
  BY <1>1
<1>9. \A j \in Keys : current'[j] \in {current[j], 0}
  BY <1>5
<1>10. \A m \in runtimes \ runtimes' : m \notin live
  BY <1>1, <1>4
<1> QED
  BY <1>1, <1>3, <1>5, <1>6, <1>7, <1>8, <1>9, <1>10, DisposerGoesOn DEF n, k

(* The disposal failed, or took too long: a sweep takes its flag back.       *)
LEMMA DisposeFailsKeeps ==
    ASSUME PluginInv, NEW d \in Plugin!Disposers, Plugin!DisposeFails(d) PROVE PluginInv'
<1>0. PluginTypes
  BY DEF PluginInv
<1>1. /\ call[d].pc = "deleting" /\ broken' = broken \cup {call[d].lease}
      /\ retiring' = (IF d \in Sweeps THEN retiring \ {call[d].lease} ELSE retiring)
      /\ UNCHANGED <<runtimes, current, creation>> /\ UNCHANGED Plugin!managerVars
  BY DEF Plugin!DisposeFails, Plugin!At
<1>2. d \in Plugin!Processes /\ call[d].lease \in Known
  BY <1>1, DisposerFacts
<1>3. PICK pc \in {"sweeping", "done"} : CallMoves(d, pc, call[d].key, call[d].lease)
  BY <1>0, <1>2, GoMoves DEF Plugin!DisposeFails
<1>4. /\ current' \in [Keys -> Known \cup {0}] /\ \A k \in Keys : current'[k] \in {current[k], 0}
      /\ broken' \subseteq Known
  BY <1>0, <1>1, <1>2 DEF PluginTypes
<1>5. /\ runtimes' \subseteq runtimes /\ retiring' \subseteq retiring /\ broken \subseteq broken'
      /\ retiring \ retiring' \subseteq broken' /\ call[d].lease \notin runtimes' \ broken'
  BY <1>1
<1> QED
  BY <1>1, <1>3, <1>4, <1>5, DisposerGoesOn

(* A sweep is over.                                                          *)
LEMMA EndSweepKeeps ==
    ASSUME PluginInv, NEW s \in Sweeps, Plugin!EndSweep(s) PROVE PluginInv'
<1>0. PluginTypes /\ s \in Plugin!Disposers
  BY DEF PluginInv, Plugin!Disposers
<1>1. /\ call[s].pc = "sweeping" /\ UNCHANGED Plugin!managerVars
      /\ UNCHANGED <<runtimes, current, creation, retiring, broken>> /\ Plugin!Go(s, "done")
  BY DEF Plugin!EndSweep, Plugin!At
<1>2. s \in Plugin!Processes
  BY <1>0, DisposerFacts
<1>3. CallMoves(s, "done", call[s].key, call[s].lease)
  BY <1>0, <1>1, <1>2, GoMoves
<1>4. /\ current' \in [Keys -> Known \cup {0}] /\ \A k \in Keys : current'[k] \in {current[k], 0}
      /\ broken' \subseteq Known
  BY <1>0, <1>1 DEF PluginTypes
<1> QED
  BY <1>0, <1>1, <1>3, <1>4, DisposerGoesOn

(* A sweep takes the next runtime it has collected.                          *)
LEMMA RetireKeeps ==
    ASSUME PluginInv, NEW s \in Sweeps, NEW idle \in SUBSET Plugin!Leases, Plugin!Retire(s, idle)
    PROVE  PluginInv'
<1>0. PluginTypes /\ s \in Plugin!Disposers /\ s \notin Disposals
  BY PluginAssumption DEF PluginInv, Plugin!Disposers
<1>1. PICK n \in idle :
        /\ IF n \in runtimes
           THEN retiring' = retiring \cup {n} /\ Plugin!BeginDispose(s, n)
           ELSE UNCHANGED <<retiring, call, server>>
        /\ broken' = IF Plugin!At(s, "sweeping") /\ Plugin!InFlight(n)
                     THEN broken \cup {n} ELSE broken
  BY DEF Plugin!Retire
<1>2. /\ UNCHANGED <<table, file, last, keyOf, live, lost, creating>>
      /\ UNCHANGED <<runtimes, current, creation>>
      /\ call[s].pc = "sweeping" \/ (call[s].pc = "new" /\ n \in runtimes /\ ~Plugin!InFlight(n))
  BY <1>1 DEF Plugin!Retire, Plugin!Collected, Plugin!At
<1>3. broken \subseteq broken' /\ broken' \subseteq Known
  <2>1. Plugin!InFlight(n) => n \in Known
    <3>1. \A u \in Uses : u \in Plugin!Processes
      BY DEF Plugin!Processes
    <3>2. Plugin!InFlight(n) => n \in Known \cup {0}
      BY <1>0, <3>1 DEF Plugin!InFlight, PluginTypes
    <3>3. n # 0
      BY <1>1, CountedAlike DEF Plugin!Leases
    <3> QED
      BY <3>2, <3>3
  <2> QED
    BY <1>0, <1>1, <2>1 DEF PluginTypes
<1>4. \A u \in Uses : call[u].pc = "using" /\ call[u].lease = n => n \in broken'
  BY <1>1, <1>2 DEF Plugin!InFlight, Plugin!At
<1>5. CASE n \in runtimes
  BY <1>0, <1>1, <1>2, <1>3, <1>4, <1>5, DisposalBegins
<1>6. CASE n \notin runtimes
  <2>1. call[s].pc = "sweeping" /\ UNCHANGED Plugin!managerVars /\ UNCHANGED <<retiring, call>>
    BY <1>1, <1>2, <1>6 DEF Plugin!managerVars
  <2>2. CallMoves(s, "sweeping", call[s].key, call[s].lease)
    <3>1. s \in Plugin!Processes
      BY <1>0, DisposerFacts
    <3>2. call[s] = [pc |-> "sweeping", key |-> call[s].key, lease |-> call[s].lease]
      BY <1>0, <2>1, <3>1 DEF PluginTypes
    <3> QED
      BY <1>0, <2>1, <3>1, <3>2 DEF CallMoves, PluginTypes
  <2>3. current' \in [Keys -> Known \cup {0}] /\ \A k \in Keys : current'[k] \in {current[k], 0}
    BY <1>0, <1>2 DEF PluginTypes
  <2> QED
    BY <1>0, <1>2, <1>3, <2>1, <2>2, <2>3, DisposerGoesOn
<1> QED
  BY <1>5, <1>6

(* A forwarded request goes on.                                              *)
LEMMA UserMoves ==
    ASSUME PluginInv, NEW u \in Uses, NEW pc \in {"found", "using", "done"},
           NEW k \in Keys \cup {Nobody}, NEW n \in Known \cup {0}, CallMoves(u, pc, k, n),
           UNCHANGED Plugin!managerVars, UNCHANGED <<runtimes, current, creation, retiring, broken>>,
           n = call[u].lease \/ n \in runtimes, pc = "found" => n \in runtimes,
           pc = "using" => call[u].pc = "found" /\ n = call[u].lease /\ n \notin retiring
    PROVE  PluginInv'
<1>0. PluginTypes /\ CreateCalls /\ DisposeCalls /\ FreshLeases /\ OfferedRuntimes /\ UsedRuntimes
  BY DEF PluginInv
<1>1. u \in Plugin!Processes /\ \A q \in Plugin!Callers : q \in Plugin!Processes /\ q # u
  BY PluginAssumption DEF Plugin!Processes, Plugin!Callers, Plugin!Disposers
<1>2. UNCHANGED <<table, file, last, keyOf, live, lost, creating, server>>
  BY DEF Plugin!managerVars
<1>3. /\ call'[u].pc = pc /\ call'[u].lease = n
      /\ \A q \in Plugin!Processes : q # u => call'[q] = call[q]
      /\ call' \in [Plugin!Processes -> [pc : CallPlaces, key : Keys \cup {Nobody},
                                         lease : Known \cup {0}]]
  <2>1. pc \in CallPlaces
    BY DEF CallPlaces
  <2> QED
    BY <1>0, <1>1, <2>1, CallMovesFacts
<1>4. (\A c \in Creates : call'[c] = call[c]) /\ \A d \in Plugin!Disposers : call'[d] = call[d]
  BY <1>1, <1>3 DEF Plugin!Callers
<1>5. PluginTypes' /\ ManagerThreads' /\ LeaseTable' /\ Plugin!RunningIsLeased'
  <2>1. /\ runtimes' \cup retiring' \cup broken' \subseteq Known
        /\ creation' \in [Keys -> Creates \cup {Nobody}] /\ current' \in [Keys -> Known \cup {0}]
    BY <1>0 DEF PluginTypes
  <2> QED
    BY <1>3, <2>1, QuietHost
<1>6. \A m : Untouched(m) => Untouched(m)'
  <2>1. \A v \in Uses : v \in Plugin!Processes
    BY DEF Plugin!Processes
  <2> QED
    BY <1>2, <1>3, <1>4, <2>1 DEF Untouched
<1>7. CreateCalls' /\ FreshLeases'
  BY <1>2, <1>4, <1>6, CreatesStay
<1>8. DisposeCalls'
  <2>1. (\A d \in Disposals : call'[d] = call[d]) /\ \A s \in Sweeps : call'[s] = call[s]
    BY <1>4 DEF Plugin!Disposers
  <2> QED
    BY <1>0, <1>2, <1>4, <2>1 DEF DisposeCalls
<1>9. OfferedRuntimes'
  <2>1. \A m : BeingDisposed(m)' <=> BeingDisposed(m)
    BY <1>4 DEF BeingDisposed
  <2> QED
    BY <1>0, <1>2, <2>1 DEF OfferedRuntimes
<1>10. UsedRuntimes'
  <2>1. \A m : ByRequest(m)' <=> ByRequest(m)
    BY <1>4 DEF ByRequest, Plugin!Disposers
  <2>2. ASSUME n \in runtimes PROVE n \in live \cup broken \cup retiring \/ ByRequest(n)
    <3>1. SUFFICES ASSUME n \notin live \cup broken PROVE n \in retiring \/ ByRequest(n)
      BY <2>2
    <3>2. PICK d \in Plugin!Disposers : call[d].pc = "deleting" /\ call[d].lease = n
      BY <1>0, <2>2, <3>1 DEF OfferedRuntimes, BeingDisposed
    <3>3. CASE d \in Disposals
      BY <3>2, <3>3 DEF ByRequest
    <3>4. CASE d \in Sweeps
      <4>1. server[<<d, n>>].pc # "idle"
        BY <1>0, <3>2, <3>4 DEF DisposeCalls
      <4>2. n \in Plugin!Leases
        BY <1>0, <2>2, KnownFacts DEF PluginTypes
      <4> QED
        BY <1>0, <2>2, <3>1, <3>4, <4>1, <4>2 DEF UsedRuntimes
    <3> QED
      BY <3>3, <3>4 DEF Plugin!Disposers
  <2>3. ASSUME NEW v \in Uses, NEW m, m = call'[v].lease
        PROVE  /\ call'[v].pc \in {"found", "using"} => m \in runtimes \/ m \notin live
               /\ call'[v].pc = "found" => m \in live \cup broken \cup retiring \/ ByRequest(m)
               /\ call'[v].pc = "using" => m \in live \cup broken \/ ByRequest(m)
               /\ \A s \in Sweeps : m \in Plugin!Leases /\ server[<<s, m>>].pc # "idle" =>
                     /\ call'[v].pc = "found" => m \in retiring \cup broken
                     /\ call'[v].pc = "using" => m \in broken
    <3>1. CASE v = u
      BY <1>0, <1>3, <2>2, <2>3, <3>1 DEF UsedRuntimes
    <3>2. CASE v # u
      <4>1. call'[v] = call[v]
        BY <1>3, <3>2 DEF Plugin!Processes
      <4> QED
        BY <1>0, <2>3, <4>1 DEF UsedRuntimes
    <3> QED
      BY <3>1, <3>2
  <2>4. \A s \in Sweeps, m \in Plugin!Leases : server[<<s, m>>].pc # "idle" =>
            (m \in runtimes => m \in retiring \cup broken)
    BY <1>0 DEF UsedRuntimes
  <2> QED
    BY <1>2, <2>1, <2>3, <2>4 DEF UsedRuntimes
<1> QED
  BY <1>5, <1>7, <1>8, <1>9, <1>10 DEF PluginInv

(* A request looks up a runtime, begins and ends.                            *)
LEMMA UsesKeep ==
    ASSUME PluginInv, NEW u \in Uses,
           Plugin!BeginUse(u) \/ Plugin!EndUse(u) \/ \E n \in Plugin!Leases : Plugin!LookUp(u, n)
    PROVE  PluginInv'
<1>0. PluginTypes
  BY DEF PluginInv
<1>1. u \in Plugin!Processes
  BY DEF Plugin!Processes
<1>2. call[u].key \in Keys \cup {Nobody} /\ call[u].lease \in Known \cup {0}
  BY <1>0, <1>1 DEF PluginTypes
<1>3. CASE Plugin!BeginUse(u)
  <2>1. PICK pc \in {"using", "done"} : /\ CallMoves(u, pc, call[u].key, call[u].lease)
                                        /\ pc = "using" => call[u].lease \notin retiring
    BY <1>0, <1>1, <1>3, GoMoves DEF Plugin!BeginUse
  <2> QED
    BY <1>2, <1>3, <2>1, UserMoves DEF Plugin!BeginUse, Plugin!At
<1>4. CASE Plugin!EndUse(u)
  <2>1. CallMoves(u, "done", call[u].key, call[u].lease)
    BY <1>0, <1>1, <1>4, GoMoves DEF Plugin!EndUse
  <2> QED
    BY <1>2, <1>4, <2>1, UserMoves DEF Plugin!EndUse
<1>5. ASSUME NEW n \in Plugin!Leases, Plugin!LookUp(u, n) PROVE PluginInv'
  <2>1. n \in runtimes /\ n \in Known /\ keyOf[n] \in Keys /\ CallMoves(u, "found", keyOf[n], n)
    BY <1>0, <1>5 DEF Plugin!LookUp, PluginTypes, CallMoves
  <2> QED
    BY <1>5, <2>1, UserMoves DEF Plugin!LookUp
<1> QED
  BY <1>3, <1>4, <1>5

(* The host starts again: its maps are empty, the manager goes on.           *)
LEMMA HostRestartKeeps == ASSUME PluginInv, Plugin!HostRestart PROVE PluginInv'
<1>0. PluginTypes /\ CreateCalls /\ DisposeCalls /\ FreshLeases /\ OfferedRuntimes /\ UsedRuntimes
  BY DEF PluginInv
<1>1. /\ runtimes' = {} /\ retiring' = {} /\ broken' = broken
      /\ current' = [k \in Keys |-> 0] /\ creation' = [k \in Keys |-> Nobody]
      /\ call' = [p \in Plugin!Processes |->
            IF call[p].pc = "new" THEN call[p] ELSE [call[p] EXCEPT !.pc = "done"]]
      /\ UNCHANGED Plugin!managerVars
      /\ UNCHANGED <<table, file, last, keyOf, live, lost, creating, server>>
  BY DEF Plugin!HostRestart, Plugin!At, Plugin!managerVars
<1>2. ASSUME NEW p \in Plugin!Processes
      PROVE  /\ call'[p].lease = call[p].lease /\ call'[p].pc \in {"new", "done"}
             /\ call'[p].pc = "new" <=> call[p].pc = "new"
             /\ call'[p] \in [pc : CallPlaces, key : Keys \cup {Nobody}, lease : Known \cup {0}]
  <2>1. PICK s : s = call[p] /\ s = [pc |-> s.pc, key |-> s.key, lease |-> s.lease]
                 /\ s.pc \in CallPlaces /\ s.key \in Keys \cup {Nobody} /\ s.lease \in Known \cup {0}
    BY <1>0 DEF PluginTypes, CallPlaces
  <2>2. [s EXCEPT !.pc = "done"] = [pc |-> "done", key |-> s.key, lease |-> s.lease]
    BY <2>1
  <2>3. \/ call'[p] = s /\ s.pc = "new"
        \/ call'[p] = [pc |-> "done", key |-> s.key, lease |-> s.lease] /\ s.pc # "new"
    BY <1>1, <2>1, <2>2
  <2>4. "done" \in CallPlaces
    BY DEF CallPlaces
  <2> QED
    BY <2>1, <2>3, <2>4
<1>3. call' \in [Plugin!Processes -> [pc : CallPlaces, key : Keys \cup {Nobody},
                                      lease : Known \cup {0}]]
  BY <1>1, <1>2
<1>4. PluginTypes' /\ ManagerThreads' /\ LeaseTable' /\ Plugin!RunningIsLeased'
  <2>1. /\ runtimes' \cup retiring' \cup broken' \subseteq Known
        /\ creation' \in [Keys -> Creates \cup {Nobody}] /\ current' \in [Keys -> Known \cup {0}]
    BY <1>0, <1>1 DEF PluginTypes
  <2> QED
    BY <1>1, <1>3, <2>1, QuietHost
<1>5. /\ \A c \in Creates : c \in Plugin!Processes
      /\ \A d \in Plugin!Disposers : d \in Plugin!Processes
      /\ \A d \in Disposals : d \in Plugin!Processes
      /\ \A s \in Sweeps : s \in Plugin!Processes
      /\ \A u \in Uses : u \in Plugin!Processes
  BY DEF Plugin!Processes, Plugin!Callers, Plugin!Disposers
<1>6. CreateCalls'
  BY <1>0, <1>1, <1>2, <1>5 DEF CreateCalls
<1>7. DisposeCalls'
  BY <1>0, <1>1, <1>2, <1>5 DEF DisposeCalls
<1>8. \A n : Untouched(n) => Untouched(n)'
  BY <1>1, <1>2, <1>5 DEF Untouched
<1>9. FreshLeases'
  <2>1. ASSUME NEW c \in Creates, NEW n, n = server[c].lease,
               \/ server[c].verb = "DELETE" \/ server[c].pc \in {"register", "leaveOk"}
               \/ server[c].pc = "ok" /\ call'[c].pc # "done"
        PROVE  Untouched(n)'
    <3>1. call'[c].pc # "done" => call[c].pc # "done"
      BY <1>2, <1>5
    <3> QED
      BY <1>0, <1>8, <2>1, <3>1 DEF FreshLeases
  <2> QED
    BY <1>0, <1>1, <1>8, <2>1 DEF FreshLeases
<1>10. OfferedRuntimes'
  BY <1>0, <1>1 DEF OfferedRuntimes
<1>11. UsedRuntimes'
  <2>1. \A u \in Uses : call'[u].pc \notin {"found", "using"}
    BY <1>2, <1>5
  <2> QED
    BY <1>1, <2>1 DEF UsedRuntimes
<1> QED
  BY <1>4, <1>6, <1>7, <1>9, <1>10, <1>11 DEF PluginInv

(* Every step keeps the invariant.                                           *)
LEMMA PluginNextKeeps == PluginInv /\ [Plugin!PluginNext]_(Plugin!pluginVars) => PluginInv'
<1> SUFFICES ASSUME PluginInv, [Plugin!PluginNext]_(Plugin!pluginVars) PROVE PluginInv'
  OBVIOUS
<1>1. ASSUME NEW p \in Plugin!Requests, Plugin!ManagerStep(p) PROVE PluginInv'
  BY <1>1, ManagerStepKeeps
<1>2. ASSUME NEW p \in Plugin!Callers, Plugin!HostStep(p) PROVE PluginInv'
  <2>1. CASE /\ p \in Creates
             /\ \/ Plugin!Leased(p) \/ Plugin!NotLeased(p) \/ Plugin!RuntimeReady(p)
                \/ Plugin!NotReady(p) \/ Plugin!Undone(p)
    BY <2>1, LeasedKeeps, NotLeasedKeeps, RuntimeReadyKeeps, NotReadyKeeps
  <2>2. CASE p \in Plugin!Disposers /\ (Plugin!Disposed(p) \/ Plugin!DisposeFails(p))
    BY <2>2, DisposedKeeps, DisposeFailsKeeps
  <2>3. CASE p \in Sweeps /\ Plugin!EndSweep(p)
    BY <2>3, EndSweepKeeps
  <2> QED
    BY <1>2, <2>1, <2>2, <2>3 DEF Plugin!HostStep
<1>3. ASSUME NEW c \in Creates, NEW k \in Keys, Plugin!CreateRuntime(c, k) PROVE PluginInv'
  BY <1>3, CreateRuntimeKeeps
<1>4. ASSUME NEW d \in Disposals, NEW n \in Plugin!Leases, Plugin!DisposeRuntime(d, n)
      PROVE  PluginInv'
  BY <1>4, DisposeRuntimeKeeps
<1>5. ASSUME NEW s \in Sweeps, NEW idle \in SUBSET Plugin!Leases, Plugin!Retire(s, idle)
      PROVE  PluginInv'
  BY <1>5, RetireKeeps
<1>6. ASSUME NEW u \in Uses,
             Plugin!BeginUse(u) \/ Plugin!EndUse(u) \/ \E n \in Plugin!Leases : Plugin!LookUp(u, n)
      PROVE  PluginInv'
  BY <1>6, UsesKeep
<1>7. CASE Plugin!ManagerRestart
  BY <1>7, ManagerRestartKeeps
<1>8. CASE Plugin!HostRestart
  BY <1>8, HostRestartKeeps
<1>9. CASE UNCHANGED Plugin!pluginVars
  <2>1. /\ UNCHANGED <<table, file, last, keyOf, live, lost, creating, server>>
        /\ UNCHANGED <<runtimes, current, creation, retiring, call, todo, broken>>
    BY <1>9 DEF Plugin!pluginVars, Plugin!managerVars, Plugin!hostVars
  <2>2. (PluginTypes /\ ManagerThreads /\ LeaseTable /\ Plugin!RunningIsLeased)'
    <3>1. PluginTypes /\ UNCHANGED Plugin!managerVars
      BY <2>1 DEF PluginInv, Plugin!managerVars
    <3> QED
      BY <2>1, <3>1, QuietHost DEF PluginTypes, CallPlaces
  <2>3. \A n : (Untouched(n)' <=> Untouched(n)) /\ (BeingDisposed(n)' <=> BeingDisposed(n))
               /\ (ByRequest(n)' <=> ByRequest(n))
    BY <2>1 DEF Untouched, BeingDisposed, ByRequest
  <2>4. CreateCalls' /\ FreshLeases'
    BY <2>1, <2>3, CreatesStay
  <2>5. DisposeCalls' /\ OfferedRuntimes' /\ UsedRuntimes'
    <3>1. DisposeCalls /\ OfferedRuntimes /\ UsedRuntimes
      BY DEF PluginInv
    <3> QED
      BY <2>1, <2>3, <3>1 DEF DisposeCalls, OfferedRuntimes, UsedRuntimes
  <2> QED
    BY <2>2, <2>4, <2>5 DEF PluginInv
<1>10. CASE Plugin!PluginNext
  BY <1>1, <1>2, <1>3, <1>4, <1>5, <1>6, <1>7, <1>8, <1>10 DEF Plugin!PluginNext
<1> QED
  BY <1>9, <1>10

(* What the invariant gives: the properties of the plugin runtimes.          *)
LEMMA PluginInvGives ==
    ASSUME PluginInv
    PROVE  Plugin!OneContainerPerKey /\ Plugin!RunningIsLeased /\ Plugin!OfferedIsRunning
<1>0. PluginTypes /\ ManagerThreads /\ LeaseTable /\ OfferedRuntimes /\ UsedRuntimes
      /\ Plugin!RunningIsLeased
  BY DEF PluginInv
<1>1. Plugin!OneContainerPerKey
  <2> DEFINE Registers(p, n) == /\ p \in Plugin!Requests /\ server[p].pc = "register"
                                /\ server[p].lease = n
  <2>1. \A n \in live \ lost : n \in table \/ \E p : Registers(p, n)
    BY <1>0 DEF Plugin!RunningIsLeased, Plugin!Doing
  <2>2. ASSUME NEW p, NEW n, Registers(p, n)
        PROVE  /\ creating[server[p].key] = p /\ keyOf[n] = server[p].key
               /\ \A m \in table : keyOf[m] # keyOf[n]
    <3>1. server[p].verb = "POST"
      BY <1>0, <2>2 DEF ManagerThreads
    <3>2. creating[server[p].key] = p
      BY <1>0, <2>2, <3>1 DEF ManagerThreads
    <3> QED
      BY <1>0, <2>2, <3>1, <3>2 DEF LeaseTable
  <2>3. SUFFICES ASSUME NEW m \in live \ lost, NEW n \in live \ lost, keyOf[m] = keyOf[n]
                 PROVE  m = n
    BY DEF Plugin!OneContainerPerKey
  <2>4. CASE m \in table /\ n \in table
    BY <1>0, <2>3, <2>4 DEF LeaseTable
  <2>5. ASSUME NEW p, Registers(p, m) PROVE m = n
    <3>1. n \notin table
      BY <2>2, <2>3, <2>5
    <3>2. PICK q : Registers(q, n)
      BY <2>1, <3>1
    <3>3. p = q
      BY <2>2, <2>3, <2>5, <3>2
    <3> QED
      BY <2>5, <3>2, <3>3
  <2>6. ASSUME NEW p, Registers(p, n) PROVE m = n
    <3>1. m \notin table
      BY <2>2, <2>3, <2>6
    <3>2. PICK q : Registers(q, m)
      BY <2>1, <3>1
    <3> QED
      BY <2>5, <3>2
  <2> QED
    BY <2>1, <2>4, <2>5, <2>6
<1>2. Plugin!OfferedIsRunning
  BY <1>0 DEF OfferedRuntimes, UsedRuntimes, BeingDisposed, ByRequest, Plugin!OfferedIsRunning,
              Plugin!At
<1> QED
  BY <1>0, <1>1, <1>2

(* The plugin runtimes keep their invariant in every behaviour.              *)
THEOREM PluginRuntimesAreRight == Plugin!PluginSpec => []PluginInv
BY PluginInitInv, PluginNextKeeps, PTL DEF Plugin!PluginSpec

------------------------------------------------------------------------------
(* The next time of a schedule (Schedule). *)

(* Days that come later start later.                                         *)
LEMMA Days ==
    ASSUME NEW n \in Nat \ {0}, NEW d \in Int, NEW e \in Int, d < e
    PROVE  d * n + n <= e * n
<1>1. PICK k \in Nat : e = d + 1 + k
  BY Z3
<1>2. e * n = d * n + n + k * n
  BY <1>1
<1>3. k * n \in Nat
  OBVIOUS
<1>4. PICK x \in Int : x = d * n
  OBVIOUS
<1> QED
  BY <1>2, <1>3, <1>4

(* A wall time is a day and an hour of it.                                   *)
LEMMA DayAndHour ==
    ASSUME NEW n \in Nat \ {0}, NEW w \in Int
    PROVE  /\ w \div n \in Int /\ w % n \in 0 .. n - 1
           /\ w = (w \div n) * n + (w % n)
OBVIOUS

(* The hour and the day of a wall time are unique.                           *)
LEMMA DayIsUnique ==
    ASSUME NEW n \in Nat \ {0}, NEW d \in Int, NEW t \in 0 .. n - 1
    PROVE  (d * n + t) \div n = d /\ (d * n + t) % n = t
<1>1. PICK w \in Int : w = d * n + t
  OBVIOUS
<1>2. /\ w \div n \in Int /\ w % n \in 0 .. n - 1
      /\ w = (w \div n) * n + (w % n)
  BY DayAndHour
<1>3. PICK e \in Int : e = w \div n
  BY <1>2
<1>4. PICK u \in 0 .. n - 1 : u = w % n
  BY <1>2
<1>5. PICK x \in Int : x = d * n
  OBVIOUS
<1>6. PICK y \in Int : y = e * n
  OBVIOUS
<1>7. w = x + t /\ w = y + u
  BY <1>1, <1>2, <1>3, <1>4, <1>5, <1>6
<1>8. ~(d < e)
  <2>1. d < e => x + n <= y
    BY <1>5, <1>6, Days
  <2> QED
    BY <1>7, <2>1
<1>9. ~(e < d)
  <2>1. e < d => y + n <= x
    BY <1>5, <1>6, Days
  <2> QED
    BY <1>7, <2>1
<1>10. d = e
  BY <1>8, <1>9
<1>11. x = y
  BY <1>10, <1>5, <1>6
<1> QED
  BY <1>1, <1>3, <1>4, <1>7, <1>10, <1>11

(* The zones of a schedule.                                                  *)
LEMMA ZoneFacts ==
    ASSUME NEW z \in Zones
    PROVE  /\ z.at \in Int /\ z.before \in Int /\ z.after \in Int /\ DayLength \in Nat \ {0}
           /\ z.before >= -DayLength /\ z.after >= -DayLength
           /\ z.after - z.before < DayLength /\ z.before - z.after < DayLength
BY CalendarAssumption

(* The instant of a wall time: it has this wall time, before or after the    *)
(* change, or the wall time is in the gap and is moved by it.                *)
LEMMA Localized ==
    ASSUME NEW z \in Zones, NEW w \in Int, NEW i, i = Calendar!LocalizeWallTime(w, z)
    PROVE  /\ i \in Int
           /\ \/ i = w - z.before /\ i < z.at /\ Calendar!Wall(z, i) = w
              \/ i = w - z.after /\ i >= z.at /\ w - z.before >= z.at /\ Calendar!Wall(z, i) = w
              \/ /\ i = w - z.before /\ i >= z.at /\ w - z.after < z.at
                 /\ Calendar!Wall(z, i) = w + z.after - z.before
                 /\ w \in z.at + z.before .. z.at + z.after - 1
<1>1. PICK a \in Int, b \in Int, c \in Int : a = z.at /\ b = z.before /\ c = z.after
  BY ZoneFacts
<1>2. \A j \in Int : Calendar!Wall(z, j) = IF j < a THEN j + b ELSE j + c
  BY <1>1 DEF Calendar!Wall, Calendar!Offset
<1>3. i = IF Calendar!Wall(z, w - b) = w \/ Calendar!Wall(z, w - c) # w THEN w - b ELSE w - c
  BY <1>1 DEF Calendar!LocalizeWallTime
<1> QED
  BY <1>1, <1>2, <1>3

(* Of two wall times a day apart the later one comes later.                  *)
LEMMA LocalizedInOrder ==
    ASSUME NEW z \in Zones, NEW w \in Int, NEW v \in Int, w + DayLength <= v
    PROVE  Calendar!LocalizeWallTime(w, z) < Calendar!LocalizeWallTime(v, z)
<1>1. PICK i : i = Calendar!LocalizeWallTime(w, z)
  OBVIOUS
<1>2. PICK j : j = Calendar!LocalizeWallTime(v, z)
  OBVIOUS
<1>3. PICK b \in Int, c \in Int, n \in Nat : b = z.before /\ c = z.after /\ n = DayLength
  BY ZoneFacts
<1>4. i \in Int /\ (i = w - b \/ i = w - c)
  BY <1>1, <1>3, Localized
<1>5. j \in Int /\ (j = v - b \/ j = v - c)
  BY <1>2, <1>3, Localized
<1>6. b - c < n /\ c - b < n
  BY <1>3, ZoneFacts
<1>7. i < j
  BY <1>3, <1>4, <1>5, <1>6
<1> QED
  BY <1>1, <1>2, <1>7

(* The wall time of an instant that has been localized is that of the        *)
(* instant.                                                                  *)
LEMMA LocalizedAgain ==
    ASSUME NEW z \in Zones, NEW w \in Int, NEW i, i = Calendar!LocalizeWallTime(w, z)
    PROVE  /\ Calendar!Wall(z, i) \in Int
           /\ Calendar!LocalizeWallTime(Calendar!Wall(z, i), z) = i
<1>1. PICK a \in Int, b \in Int, c \in Int : a = z.at /\ b = z.before /\ c = z.after
  BY ZoneFacts
<1>2. /\ i \in Int
      /\ \/ i = w - b /\ i < a /\ Calendar!Wall(z, i) = w
         \/ i = w - c /\ i >= a /\ w - b >= a /\ Calendar!Wall(z, i) = w
         \/ i = w - b /\ i >= a /\ w - c < a /\ Calendar!Wall(z, i) = w + c - b
  BY <1>1, Localized
<1>3. PICK v \in Int : v = Calendar!Wall(z, i)
  BY <1>2
<1>4. PICK j : j = Calendar!LocalizeWallTime(v, z)
  OBVIOUS
<1>5. /\ j \in Int
      /\ \/ j = v - b /\ j < a
         \/ j = v - c /\ j >= a /\ v - b >= a
         \/ j = v - b /\ j >= a /\ v - c < a
  BY <1>1, <1>4, Localized
<1>6. CASE v = w
  BY <1>2, <1>3, <1>4, <1>6
<1>7. CASE v # w
  <2>1. i = w - b /\ i >= a /\ w - c < a /\ v = w + c - b
    BY <1>2, <1>3, <1>7
  <2>2. v - c = i /\ v - b >= a
    BY <2>1
  <2>3. i = j
    BY <1>2, <1>5, <2>1, <2>2
  <2> QED
    BY <1>3, <1>4, <2>3, Zenon
<1> QED
  BY <1>6, <1>7

(* The day of a wall time stays, and the hour but for a gap.                 *)
LEMMA LocalizedDay ==
    ASSUME NEW z \in Zones, NEW d \in Int, NEW t \in 0 .. DayLength - 1,
           NEW i, i = Calendar!LocalizeWallTime(d * DayLength + t, z)
    PROVE  /\ i \in Int /\ Calendar!Date(Calendar!Wall(z, i)) = d
           /\ LET got == Calendar!TimeOfDay(Calendar!Wall(z, i))
              IN  got = t \/ (z.after > z.before /\ got = t + z.after - z.before)
<1>1. PICK a \in Int, b \in Int, c \in Int : a = z.at /\ b = z.before /\ c = z.after
  BY ZoneFacts
<1>2. PICK n \in Nat \ {0} : n = DayLength
  BY ZoneFacts
<1>3. PICK w \in Int : w = d * n + t
  BY <1>2
<1>4. /\ i \in Int
      /\ \/ Calendar!Wall(z, i) = w
         \/ Calendar!Wall(z, i) = w + c - b /\ w \in a + b .. a + c - 1
  BY <1>1, <1>2, <1>3, Localized
<1>5. w \div n = d /\ w % n = t
  BY <1>2, <1>3, DayIsUnique
<1>6. CASE Calendar!Wall(z, i) = w
  BY <1>2, <1>4, <1>5, <1>6 DEF Calendar!Date, Calendar!TimeOfDay
<1>7. CASE Calendar!Wall(z, i) = w + c - b /\ w \in a + b .. a + c - 1
  <2>1. (w % n) + c - b < n
    BY <1>1, <1>2, <1>7, CalendarAssumption
  <2>2. c > b
    BY <1>7
  <2>3. PICK u \in 0 .. n - 1 : u = t + c - b
    BY <1>2, <1>5, <2>1, <2>2
  <2>4. Calendar!Wall(z, i) = d * n + u
    <3>1. PICK x \in Int : x = d * n
      OBVIOUS
    <3> QED
      BY <1>3, <1>7, <2>3, <3>1
  <2>5. (d * n + u) \div n = d /\ (d * n + u) % n = u
    BY DayIsUnique
  <2> QED
    BY <1>1, <1>2, <1>4, <2>2, <2>3, <2>4, <2>5 DEF Calendar!Date, Calendar!TimeOfDay
<1> QED
  BY <1>4, <1>6, <1>7

(* What lies on an earlier day than an instant is over; what lies two days   *)
(* later is not: also in the hours that a change of the clock repeats.       *)
LEMMA PastAndFuture ==
    ASSUME NEW z \in Zones, NEW d \in Int, NEW t \in 0 .. DayLength - 1, NEW now0 \in Int,
           NEW i, i = Calendar!LocalizeWallTime(d * DayLength + t, z),
           NEW today, today = Calendar!Date(Calendar!Wall(z, now0))
    PROVE  /\ i \in Int /\ today \in Int
           /\ d < today => i < now0
           /\ today + 2 <= d => now0 < i
<1>1. PICK a \in Int, b \in Int, c \in Int : a = z.at /\ b = z.before /\ c = z.after
  BY ZoneFacts
<1>2. PICK n \in Nat \ {0} : n = DayLength /\ b - c < n /\ c - b < n
  BY <1>1, ZoneFacts
<1>3. PICK x \in Int : x = d * n
  BY <1>2
<1>4. PICK w \in Int : w = x + t /\ w = d * n + t
  BY <1>2, <1>3
<1>5. w % n = t /\ t \in 0 .. n - 1
  <2>1. t \in 0 .. n - 1
    BY <1>2
  <2>2. (d * n + t) % n = t
    BY <2>1, DayIsUnique
  <2> QED
    BY <1>4, <2>1, <2>2
<1>6. /\ i \in Int
      /\ \/ i = w - b /\ i < a
         \/ i = w - c /\ i >= a /\ w - b >= a
         \/ i = w - b /\ i >= a /\ w - c < a /\ t + c - b < n
  <2>1. w \in a + b .. a + c - 1 => (w % n) + c - b < n
    BY <1>1, <1>2, CalendarAssumption
  <2> QED
    BY <1>1, <1>2, <1>3, <1>4, <1>5, <2>1, Localized
<1>7. PICK wall \in Int : /\ wall = Calendar!Wall(z, now0)
                          /\ wall = IF now0 < a THEN now0 + b ELSE now0 + c
  BY <1>1 DEF Calendar!Wall, Calendar!Offset
<1>8. /\ wall \div n \in Int /\ wall % n \in 0 .. n - 1
      /\ wall = (wall \div n) * n + (wall % n)
  BY DayAndHour
<1>9. PICK e \in Int : e = wall \div n
  BY <1>8
<1>10. today = e
  BY <1>2, <1>7, <1>9 DEF Calendar!Date
<1>11. PICK y \in Int : y = e * n
  OBVIOUS
<1>12. PICK u \in 0 .. n - 1 : wall = y + u
  BY <1>8, <1>9, <1>11
<1>13. d < e => x + n <= y
  BY <1>3, <1>11, Days
<1>14. e + 2 <= d => y + n + n <= x
  <2>1. PICK v \in Int : v = (e + 1) * n
    OBVIOUS
  <2>2. y + n <= v
    <3>1. e * n + n <= (e + 1) * n
      BY Days
    <3> QED
      BY <1>11, <2>1, <3>1
  <2>3. e + 2 <= d => v + n <= x
    <3>1. e + 2 <= d => (e + 1) * n + n <= d * n
      BY Days
    <3> QED
      BY <1>3, <2>1, <3>1
  <2> QED
    BY <2>2, <2>3
<1>15. d < e => i < now0
  BY <1>2, <1>4, <1>5, <1>6, <1>7, <1>12, <1>13
<1>16. e + 2 <= d => now0 < i
  BY <1>2, <1>4, <1>5, <1>6, <1>7, <1>12, <1>14
<1> QED
  BY <1>6, <1>10, <1>15, <1>16

(* The earliest of a set of instants after a given one.                      *)
LEMMA EarliestIs ==
    ASSUME NEW S \in SUBSET Int, S # {}, NEW c \in Int, \A i \in S : i > c
    PROVE  /\ Calendar!Earliest(S) \in S /\ \A j \in S : Calendar!Earliest(S) <= j
           /\ \A m \in S : (\A j \in S : m <= j) => Calendar!Earliest(S) = m
<1> DEFINE T == {k \in Nat : c + k \in S}
<1>1. T # {}
  <2>1. PICK i \in S : TRUE
    OBVIOUS
  <2>2. i - c \in Nat /\ c + (i - c) = i
    BY <2>1
  <2> QED
    BY <2>1, <2>2
<1>2. PICK k \in T : \A l \in T : ~(<<l, k>> \in OpToRel(<, Nat))
  <2>1. T \subseteq Nat
    OBVIOUS
  <2> QED
    BY <1>1, <2>1, WFMin, NatLessThanWellFounded, Zenon
<1>3. /\ k \in Nat /\ c + k \in S
      /\ \A l \in Nat : c + l \in S => k <= l
  <2>1. T \subseteq Nat
    OBVIOUS
  <2>2. k \in Nat /\ c + k \in S
    OBVIOUS
  <2>3. \A l \in T : l \in Nat /\ ~(l < k)
    BY <1>2, <2>1 DEF OpToRel
  <2>4. \A l \in Nat : c + l \in S => l \in T
    OBVIOUS
  <2> HIDE DEF T
  <2> QED
    BY <2>2, <2>3, <2>4
<1>4. \A j \in S : c + k <= j
  <2> SUFFICES ASSUME NEW j \in S PROVE c + k <= j
    OBVIOUS
  <2>1. j - c \in Nat /\ c + (j - c) = j
    OBVIOUS
  <2>2. k <= j - c
    BY <1>3, <2>1
  <2> QED
    BY <2>1, <2>2
<1>5. c + k \in S
  BY <1>3
<1>6. Calendar!Earliest(S) \in S /\ \A j \in S : Calendar!Earliest(S) <= j
  BY <1>4, <1>5 DEF Calendar!Earliest
<1>7. ASSUME NEW m \in S, \A j \in S : m <= j PROVE Calendar!Earliest(S) = m
  <2>1. PICK e \in S : e = Calendar!Earliest(S)
    BY <1>6
  <2>2. e <= m /\ m <= e /\ e \in Int /\ m \in Int
    BY <1>6, <1>7, <2>1
  <2> QED
    BY <2>1, <2>2
<1> QED
  BY <1>6, <1>7

(* A wall time at most a day before the epoch.                               *)
LEMMA DayFromEpoch ==
    ASSUME NEW n \in Nat \ {0}, NEW v \in Int, v >= -n
    PROVE  v \div n >= -1
<1>1. /\ v \div n \in Int /\ v % n \in 0 .. n - 1
      /\ v = (v \div n) * n + (v % n)
  BY DayAndHour
<1>2. PICK e \in Int : e = v \div n
  BY <1>1
<1>3. PICK y \in Int : y = e * n
  OBVIOUS
<1>4. e < -1 => y + n <= -n
  <2>1. e < -1 => e * n + n <= (-1) * n
    BY Days
  <2>2. (-1) * n = -n
    OBVIOUS
  <2> QED
    BY <1>3, <2>1, <2>2
<1>5. v < y + n
  BY <1>1, <1>2, <1>3
<1> QED
  BY <1>2, <1>4, <1>5

\* A query, whose instant need not be one that is asked about.
AnyQuery == [kind : Calendar!Kinds, anchor : Anchors, zone : Zones, after : Int,
             weekdays : WeekdaySets]

(* The anchor of a query and its hour, and that its first day is its own.    *)
LEMMA AnchorFacts ==
    ASSUME NEW q \in AnyQuery, NEW anchor,
           anchor = Calendar!LocalizeWallTime(q.anchor, q.zone),
           NEW t, t = Calendar!TimeOfDay(Calendar!Wall(q.zone, anchor)),
           NEW start, start = Calendar!Date(Calendar!Wall(q.zone, anchor))
    PROVE  /\ anchor \in Int /\ t \in 0 .. DayLength - 1 /\ start \in Int
           /\ \A d : Calendar!Candidate(d, anchor, q.zone)
                     = Calendar!LocalizeWallTime(d * DayLength + t, q.zone)
           /\ Calendar!Candidate(start, anchor, q.zone) = anchor
           /\ start >= -1
<1>1. q.zone \in Zones /\ q.anchor \in Int /\ q.anchor >= 0
  <2>1. q.zone \in Zones /\ q.anchor \in Anchors
    BY DEF AnyQuery
  <2>2. \A x \in Anchors : x \in Int /\ x >= 0
    BY CalendarAssumption
  <2> QED
    BY <2>1, <2>2
<1>2. PICK n \in Nat \ {0} : n = DayLength
  BY CalendarAssumption
<1>3. PICK v \in Int : v = Calendar!Wall(q.zone, anchor)
  BY <1>1, LocalizedAgain
<1>4. /\ v \div n \in Int /\ v % n \in 0 .. n - 1
      /\ v = (v \div n) * n + (v % n)
  BY DayAndHour
<1>5. t = v % n /\ start = v \div n
  BY <1>2, <1>3 DEF Calendar!TimeOfDay, Calendar!Date
<1>6. \A d : Calendar!Candidate(d, anchor, q.zone)
             = Calendar!LocalizeWallTime(d * DayLength + t, q.zone)
  BY DEF Calendar!Candidate
<1>7. Calendar!Candidate(start, anchor, q.zone) = anchor
  <2>1. start * DayLength + t = v
    BY <1>2, <1>4, <1>5
  <2> QED
    BY <1>1, <1>3, <1>6, <2>1, LocalizedAgain
<1>8. anchor \in Int
  BY <1>1, Localized
<1>9. start >= -1
  <2>1. PICK b \in Int, c \in Int : b = q.zone.before /\ c = q.zone.after /\ b - c < n
    BY <1>1, <1>2, ZoneFacts
  <2>2. v = q.anchor \/ v = q.anchor + c - b
    BY <1>1, <1>3, <2>1, Localized
  <2>3. v >= -n
    BY <1>1, <2>1, <2>2
  <2> QED
    BY <1>5, <2>3, DayFromEpoch
<1> QED
  BY <1>2, <1>4, <1>5, <1>6, <1>7, <1>8, <1>9

(* The answer to a query of a recurring task: the first day, from that of    *)
(* the anchor on, whose instant comes after the given one.                   *)
LEMMA NextDay ==
    ASSUME NEW q \in AnyQuery, q.kind # "once",
           NEW anchor, anchor = Calendar!LocalizeWallTime(q.anchor, q.zone),
           NEW start, start = Calendar!Date(Calendar!Wall(q.zone, anchor)),
           NEW today, today = Calendar!Date(Calendar!Wall(q.zone, q.after))
    PROVE  /\ start \in Int /\ start >= -1 /\ today \in Int /\ (q.after >= 0 => today >= -1)
           /\ \A e \in Int : Calendar!Candidate(e, anchor, q.zone) \in Int
           /\ \A d, e \in Int : d < e => Calendar!Candidate(d, anchor, q.zone)
                                         < Calendar!Candidate(e, anchor, q.zone)
           /\ \E d \in Int :
                 /\ start <= d /\ (d <= start + 14 \/ d <= today + 14)
                 /\ Calendar!Weekday(d) \in Calendar!Allowed(q, anchor)
                 /\ Calendar!NextRunAt(q) = Calendar!Candidate(d, anchor, q.zone)
                 /\ Calendar!NextRunAt(q) > q.after
                 /\ \A e \in Int : /\ start <= e /\ Calendar!Weekday(e) \in Calendar!Allowed(q, anchor)
                                   /\ Calendar!Candidate(e, anchor, q.zone) > q.after
                                   => d <= e
<1> DEFINE z == q.zone
           C(d) == Calendar!Candidate(d, anchor, z)
           Ok(d) == Calendar!Weekday(d) \in Calendar!Allowed(q, anchor)
<1>1. /\ z \in Zones /\ q.after \in Int /\ q.kind \in {"daily", "weekly"}
      /\ q.weekdays \subseteq 0..6
  <2>1. /\ q.zone \in Zones /\ q.after \in Int /\ q.weekdays \in WeekdaySets
        /\ q.kind \in {"daily", "weekly"}
    BY DEF AnyQuery, Calendar!Kinds
  <2>2. \A x \in WeekdaySets : x \subseteq 0..6
    BY CalendarAssumption
  <2> QED
    BY <2>1, <2>2
<1>2. PICK t : t = Calendar!TimeOfDay(Calendar!Wall(z, anchor))
  OBVIOUS
<1>3. /\ anchor \in Int /\ t \in 0 .. DayLength - 1 /\ start \in Int /\ start >= -1
      /\ \A d : C(d) = Calendar!LocalizeWallTime(d * DayLength + t, z)
      /\ C(start) = anchor
  BY <1>2, AnchorFacts
<1>4. PICK n \in Nat \ {0} : n = DayLength
  BY CalendarAssumption
<1> HIDE DEF z
<1>5. ASSUME NEW d \in Int
      PROVE  C(d) \in Int /\ today \in Int /\ (d < today => C(d) < q.after)
             /\ (today + 2 <= d => q.after < C(d))
  BY <1>1, <1>3, PastAndFuture DEF z
<1>6. today \in Int /\ (q.after >= 0 => today >= -1)
  <2>1. today \in Int
    BY <1>3, <1>5
  <2>2. PICK b \in Int, c \in Int : b = z.before /\ c = z.after /\ b >= -n /\ c >= -n
    BY <1>1, <1>4, ZoneFacts
  <2>3. PICK v : v = Calendar!Wall(z, q.after) /\ v \in {q.after + b, q.after + c}
    BY <2>2 DEF Calendar!Wall, Calendar!Offset
  <2>4. v \in Int /\ (q.after >= 0 => v >= -n)
    BY <1>1, <2>2, <2>3
  <2> QED
    BY <1>4, <2>1, <2>3, <2>4, DayFromEpoch DEF Calendar!Date, z
<1>7. ASSUME NEW d \in Int, NEW e \in Int, d < e PROVE C(d) < C(e)
  <2>1. PICK x \in Int, y \in Int : x = d * n + t /\ y = e * n + t /\ x + n <= y
    <3>1. d * n + n <= e * n
      BY <1>7, Days
    <3>2. PICK x \in Int, y \in Int : x = d * n /\ y = e * n
      OBVIOUS
    <3>3. t \in Int
      BY <1>3, <1>4
    <3>4. x + t \in Int /\ y + t \in Int /\ (x + t) + n <= y + t
      BY <3>1, <3>2, <3>3
    <3> QED
      BY <3>2, <3>4
  <2> QED
    BY <1>1, <1>3, <1>4, <2>1, LocalizedInOrder
<1>8. PICK F \in Int : /\ F = Calendar!FirstDay(q.after, anchor, z)
                       /\ F = IF today < start THEN start ELSE today
  BY <1>3, <1>6 DEF Calendar!FirstDay, z
<1>9. PICK l \in {2, 14} : /\ Calendar!SearchDays(q.kind) = 0 .. l
                           /\ q.kind = "daily" \/ l = 14
  BY <1>1 DEF Calendar!SearchDays
<1> DEFINE days == {F + k : k \in 0 .. l}
           S == {i \in {C(d) : d \in {x \in days : Ok(x)}} : i > q.after /\ i >= anchor}
<1>10. Calendar!NextRunAt(q) = Calendar!Earliest(S)
  BY <1>8, <1>9 DEF Calendar!NextRunAt, z
<1>11. \A d \in Int : d \in days <=> F <= d /\ d <= F + l
  <2> SUFFICES ASSUME NEW d \in Int, F <= d, d <= F + l PROVE d \in days
    OBVIOUS
  <2>1. d - F \in 0 .. l /\ F + (d - F) = d
    OBVIOUS
  <2> QED
    BY <2>1
<1>12. \E e \in Int : e \in days /\ Ok(e) /\ F + 2 <= e
  <2>1. CASE q.kind = "daily"
    <3>1. Calendar!Allowed(q, anchor) = 0 .. 6
      BY <2>1 DEF Calendar!Allowed
    <3>2. (F + 2) % 7 \in 0 .. 6
      OBVIOUS
    <3>3. Ok(F + 2)
      BY <3>1, <3>2 DEF Calendar!Weekday
    <3> QED
      BY <1>11, <3>3
  <2>2. CASE q.kind # "daily"
    <3>1. PICK w \in 0 .. 6 : w \in Calendar!Allowed(q, anchor)
      <4>1. CASE q.weekdays = {}
        <5>1. Calendar!Weekday(start) \in 0 .. 6
          BY <1>3 DEF Calendar!Weekday
        <5> QED
          BY <2>2, <4>1, <5>1 DEF Calendar!Allowed, z
      <4>2. CASE q.weekdays # {}
        BY <1>1, <2>2, <4>2 DEF Calendar!Allowed
      <4> QED
        BY <4>1, <4>2
    <3>2. PICK k \in 0 .. 6 : (F + 2 + k) % 7 = w
      <4>1. (w - (F + 2)) % 7 \in 0 .. 6
        OBVIOUS
      <4>2. (F + 2 + ((w - (F + 2)) % 7)) % 7 = w
        OBVIOUS
      <4> QED
        BY <4>1, <4>2
    <3>3. Ok(F + 2 + k)
      BY <3>1, <3>2 DEF Calendar!Weekday
    <3>4. l = 14
      BY <1>9, <2>2
    <3> QED
      BY <1>11, <3>3, <3>4
  <2> QED
    BY <2>1, <2>2
<1>13. ASSUME NEW e \in Int, start <= e PROVE anchor <= C(e)
  BY <1>3, <1>5, <1>7, <1>13
<1>14. ASSUME NEW e \in Int, e \in days, Ok(e), C(e) > q.after PROVE C(e) \in S
  <2>1. start <= e
    BY <1>3, <1>6, <1>8, <1>11, <1>14
  <2>2. C(e) >= anchor
    BY <1>3, <1>5, <1>13, <2>1
  <2> QED
    BY <1>14, <2>2
<1>15. S \subseteq Int /\ \A i \in S : i > q.after
  <2>1. \A d \in days : d \in Int
    OBVIOUS
  <2> QED
    BY <1>5, <2>1
<1>16. S # {}
  <2>1. PICK e \in Int : e \in days /\ Ok(e) /\ F + 2 <= e
    BY <1>12
  <2>2. today + 2 <= e
    BY <1>3, <1>6, <1>8, <2>1
  <2>3. C(e) > q.after
    BY <1>1, <1>5, <2>2
  <2> QED
    BY <1>14, <2>1, <2>3
<1>17. Calendar!Earliest(S) \in S /\ \A j \in S : Calendar!Earliest(S) <= j
  <2> HIDE DEF S
  <2> QED
    BY <1>1, <1>15, <1>16, EarliestIs
<1>18. PICK d \in Int : d \in days /\ Ok(d) /\ C(d) = Calendar!Earliest(S) /\ C(d) > q.after
  <2>1. PICK i : i = Calendar!Earliest(S)
    OBVIOUS
  <2>2. i \in S
    BY <1>17, <2>1
  <2>3. PICK d \in {x \in days : Ok(x)} : i = C(d) /\ i > q.after
    BY <2>2
  <2>4. d \in Int
    BY <2>3
  <2> HIDE DEF S
  <2> QED
    BY <2>1, <2>3, <2>4
<1>19. ASSUME NEW e \in Int, start <= e, Ok(e), C(e) > q.after PROVE d <= e
  <2>1. F <= e
    BY <1>1, <1>3, <1>5, <1>6, <1>8, <1>19
  <2>2. CASE e \in days
    <3>1. C(d) <= C(e) /\ C(d) \in Int /\ C(e) \in Int
      BY <1>5, <1>14, <1>17, <1>18, <1>19, <2>2
    <3>2. e < d => C(e) < C(d)
      BY <1>7
    <3> QED
      BY <3>1, <3>2
  <2>3. CASE e \notin days
    BY <1>11, <1>18, <2>1, <2>3
  <2> QED
    BY <2>2, <2>3
<1>20. start <= d /\ (d <= start + 14 \/ d <= today + 14)
  BY <1>3, <1>6, <1>8, <1>11, <1>18
<1> QED
  BY <1>1, <1>3, <1>5, <1>6, <1>7, <1>10, <1>18, <1>19, <1>20 DEF z

\* One answer is computed for one query.
CalendarInv == \/ query = None /\ answer = Asked
               \/ query \in Calendar!Queries /\ answer = Calendar!NextRunAt(query)

(* An answered query is one of the queries, and the answer is its.           *)
LEMMA QueryAnswered ==
    ASSUME CalendarInv, answer # Asked
    PROVE  /\ query \in AnyQuery /\ answer = Calendar!NextRunAt(query)
           /\ query.after \in Int /\ query.after >= 0
<1>1. query \in Calendar!Queries /\ answer = Calendar!NextRunAt(query)
  BY DEF CalendarInv
<1>2. /\ \A x \in Afters : x \in Int /\ x >= 0
      /\ \A x \in Anchors : x \in Int
  BY CalendarAssumption
<1>3. query \in Calendar!Queries => query \in AnyQuery
  BY <1>2 DEF Calendar!Queries, AnyQuery
<1>4. query.after \in Afters
  BY <1>1 DEF Calendar!Queries
<1> QED
  BY <1>1, <1>2, <1>3, <1>4

(* The answer is the first occurrence after the given instant.               *)
LEMMA EarliestAnswer == CalendarInv => Calendar!NextIsEarliest
<1> SUFFICES ASSUME CalendarInv, answer # Asked, query.kind # "once"
             PROVE  /\ answer # None
                    /\ answer = Calendar!Earliest({i \in Calendar!Occurrences(query) : i > query.after})
  BY DEF Calendar!NextIsEarliest
<1>1. query \in AnyQuery /\ answer = Calendar!NextRunAt(query) /\ query.after >= 0
      /\ query.after \in Int
  BY QueryAnswered
<1>2. PICK anchor : anchor = Calendar!LocalizeWallTime(query.anchor, query.zone)
  OBVIOUS
<1>3. PICK start : start = Calendar!Date(Calendar!Wall(query.zone, anchor))
  OBVIOUS
<1>4. PICK today : today = Calendar!Date(Calendar!Wall(query.zone, query.after))
  OBVIOUS
<1> DEFINE C(d) == Calendar!Candidate(d, anchor, query.zone)
           Ok(d) == Calendar!Weekday(d) \in Calendar!Allowed(query, anchor)
<1>5. /\ start \in Int /\ start >= -1 /\ today \in Int /\ today >= -1
      /\ \A e \in Int : C(e) \in Int
      /\ \A d, e \in Int : d < e => C(d) < C(e)
  BY <1>1, <1>2, <1>3, <1>4, NextDay
<1>6. PICK d \in Int : /\ start <= d /\ (d <= start + 14 \/ d <= today + 14) /\ Ok(d)
                       /\ answer = C(d) /\ answer > query.after
                       /\ \A e \in Int : start <= e /\ Ok(e) /\ C(e) > query.after => d <= e
  BY <1>1, <1>2, <1>3, <1>4, NextDay
<1> DEFINE S == {i \in {C(e) : e \in {x \in start .. (start + today + 21) : Ok(x)}} : i > query.after}
<1>7. {i \in Calendar!Occurrences(query) : i > query.after} = S
  BY <1>2, <1>3, <1>4 DEF Calendar!Occurrences
<1>8. answer \in S
  <2>1. d \in start .. (start + today + 21)
    BY <1>5, <1>6
  <2> QED
    BY <1>6, <2>1
<1>9. \A j \in S : j \in Int /\ j > query.after /\ answer <= j
  <2> SUFFICES ASSUME NEW e \in start .. (start + today + 21), Ok(e), C(e) > query.after
               PROVE  C(e) \in Int /\ answer <= C(e)
    OBVIOUS
  <2>1. e \in Int /\ start <= e
    BY <1>5
  <2>2. C(e) \in Int /\ C(d) \in Int /\ d <= e
    BY <1>5, <1>6, <2>1
  <2>3. d = e \/ C(d) < C(e)
    BY <1>5, <2>1, <2>2
  <2> QED
    BY <1>6, <2>2, <2>3
<1> HIDE DEF S
<1>10. Calendar!Earliest(S) = answer
  <2>1. S \in SUBSET Int /\ S # {} /\ \A i \in S : i > query.after
    BY <1>8, <1>9
  <2> QED
    BY <1>1, <1>8, <1>9, <2>1, EarliestIs
<1>11. answer # None
  BY <1>5, <1>6, CalendarAssumption
<1> QED
  BY <1>7, <1>10, <1>11

\* The answer to a query is on day f, the first one that comes after its instant.
DailyFrom(f, q, anchor, start) ==
    /\ Calendar!NextRunAt(q) = Calendar!Candidate(f, anchor, q.zone)
    /\ Calendar!NextRunAt(q) > q.after
    /\ \A e \in Int : start <= e /\ Calendar!Candidate(e, anchor, q.zone) > q.after => f <= e

(* A daily task skips no day.                                                *)
LEMMA DailyAnswer ==
    ASSUME NEW q \in AnyQuery, q.kind = "daily",
           NEW anchor, anchor = Calendar!LocalizeWallTime(q.anchor, q.zone),
           NEW start, start = Calendar!Date(Calendar!Wall(q.zone, anchor))
    PROVE  \E f \in Int : DailyFrom(f, q, anchor, start)
<1>1. PICK today : today = Calendar!Date(Calendar!Wall(q.zone, q.after))
  OBVIOUS
<1>2. PICK d \in Int :
        /\ Calendar!NextRunAt(q) = Calendar!Candidate(d, anchor, q.zone)
        /\ Calendar!NextRunAt(q) > q.after
        /\ \A e \in Int : /\ start <= e /\ Calendar!Weekday(e) \in Calendar!Allowed(q, anchor)
                          /\ Calendar!Candidate(e, anchor, q.zone) > q.after
                          => d <= e
  BY <1>1, NextDay
<1>3. \A e \in Int : Calendar!Weekday(e) \in Calendar!Allowed(q, anchor)
  BY DEF Calendar!Weekday, Calendar!Allowed
<1> QED
  BY <1>2, <1>3 DEF DailyFrom

(* A daily task is due on the next calendar day.                             *)
LEMMA NextDayAnswer == CalendarInv => Calendar!OncePerDay
<1> SUFFICES ASSUME CalendarInv, answer \notin {Asked, None}, query.kind = "daily",
                    NEW q, q = [query EXCEPT !.after = answer]
             PROVE  Calendar!Date(Calendar!Wall(query.zone, Calendar!NextRunAt(q)))
                    = Calendar!Date(Calendar!Wall(query.zone, answer)) + 1
  BY DEF Calendar!OncePerDay
<1>1. query \in AnyQuery /\ answer = Calendar!NextRunAt(query)
  BY QueryAnswered
<1>2. PICK anchor : anchor = Calendar!LocalizeWallTime(query.anchor, query.zone)
  OBVIOUS
<1>3. PICK start : start = Calendar!Date(Calendar!Wall(query.zone, anchor))
  OBVIOUS
<1> DEFINE C(d) == Calendar!Candidate(d, anchor, query.zone)
<1>4. /\ start \in Int /\ \A e \in Int : C(e) \in Int
      /\ \A d, e \in Int : d < e => C(d) < C(e)
  BY <1>1, <1>2, <1>3, NextDay
<1>5. PICK d \in Int : start <= d /\ answer = C(d)
  BY <1>1, <1>2, <1>3, NextDay
<1>6. /\ q \in AnyQuery /\ q.after = answer /\ q.kind = "daily" /\ q.anchor = query.anchor
      /\ q.zone = query.zone
  BY <1>1, <1>4, <1>5 DEF AnyQuery
<1>7. PICK f \in Int : /\ Calendar!NextRunAt(q) = C(f) /\ C(f) > answer
                       /\ \A e \in Int : start <= e /\ C(e) > answer => f <= e
  <2>1. /\ anchor = Calendar!LocalizeWallTime(q.anchor, q.zone)
        /\ start = Calendar!Date(Calendar!Wall(q.zone, anchor))
    BY <1>2, <1>3, <1>6
  <2>2. PICK f \in Int : DailyFrom(f, q, anchor, start)
    BY <1>6, <2>1, DailyAnswer
  <2>3. \A e : Calendar!Candidate(e, anchor, q.zone) = C(e)
    BY <1>6
  <2> QED
    BY <1>6, <2>2, <2>3 DEF DailyFrom
<1>8. f = d + 1
  <2>1. f <= d + 1
    BY <1>4, <1>5, <1>7
  <2>2. d < f
    <3>1. f < d => C(f) < C(d)
      BY <1>4
    <3>2. C(f) \in Int /\ C(d) \in Int /\ C(f) > C(d)
      BY <1>4, <1>5, <1>7
    <3> QED
      BY <3>1, <3>2
  <2> QED
    BY <2>1, <2>2
<1>9. \A e \in Int : Calendar!Date(Calendar!Wall(query.zone, C(e))) = e
  <2>1. PICK t : t = Calendar!TimeOfDay(Calendar!Wall(query.zone, anchor))
    OBVIOUS
  <2>2. /\ t \in 0 .. DayLength - 1
        /\ \A e : C(e) = Calendar!LocalizeWallTime(e * DayLength + t, query.zone)
    BY <1>1, <1>2, <1>3, <2>1, AnchorFacts
  <2>3. query.zone \in Zones
    BY <1>1 DEF AnyQuery
  <2> QED
    BY <2>2, <2>3, LocalizedDay
<1> QED
  BY <1>5, <1>7, <1>8, <1>9

(* The answer has the hour of the anchor, or that is in a gap.               *)
LEMMA HourOfAnswer == CalendarInv => Calendar!KeepsTimeOfDay
<1> SUFFICES ASSUME CalendarInv, answer \notin {Asked, None},
                    NEW anchor, anchor = Calendar!LocalizeWallTime(query.anchor, query.zone),
                    NEW t, t = Calendar!TimeOfDay(Calendar!Wall(query.zone, anchor)),
                    NEW got, got = Calendar!TimeOfDay(Calendar!Wall(query.zone, answer))
             PROVE  got = t \/ (query.zone.after > query.zone.before
                                /\ got = t + query.zone.after - query.zone.before)
  BY DEF Calendar!KeepsTimeOfDay
<1>1. query \in AnyQuery /\ answer = Calendar!NextRunAt(query)
  BY QueryAnswered
<1>2. CASE query.kind = "once"
  BY <1>1, <1>2 DEF Calendar!NextRunAt
<1>3. CASE query.kind # "once"
  <2>1. PICK start : start = Calendar!Date(Calendar!Wall(query.zone, anchor))
    OBVIOUS
  <2>2. PICK d \in Int : answer = Calendar!Candidate(d, anchor, query.zone)
    BY <1>1, <1>3, <2>1, NextDay
  <2>3. /\ t \in 0 .. DayLength - 1
        /\ answer = Calendar!LocalizeWallTime(d * DayLength + t, query.zone)
    BY <1>1, <2>1, <2>2, AnchorFacts
  <2>4. query.zone \in Zones
    BY <1>1 DEF AnyQuery
  <2> QED
    BY <2>3, <2>4, LocalizedDay
<1> QED
  BY <1>2, <1>3

(* The answer is always that of the query.                                   *)
LEMMA CalendarAnswers == Calendar!Spec => []CalendarInv
<1>1. Calendar!Init => CalendarInv
  BY DEF Calendar!Init, CalendarInv
<1>2. CalendarInv /\ [Calendar!Next]_(Calendar!scheduleVars) => CalendarInv'
  BY DEF CalendarInv, Calendar!Next, Calendar!Compute, Calendar!scheduleVars
<1> QED
  BY <1>1, <1>2, PTL DEF Calendar!Spec

(* The next time of a schedule: the first occurrence, once a day, at its     *)
(* time of day, for every zone and every query.                              *)
THEOREM NextTimesHold == ServicesSpec => []NextTimesAreRight
<1>1. CalendarInv => NextTimesAreRight
  BY EarliestAnswer, NextDayAnswer, HourOfAnswer DEF NextTimesAreRight
<1> QED
  BY <1>1, CalendarAnswers, PTL DEF ServicesSpec

------------------------------------------------------------------------------
(* The components together (Services). *)

(* A component stands still for this module when it does for itself.         *)
LEMMA SameVars ==
    /\ UNCHANGED tasksVars <=> UNCHANGED Task!taskVars
    /\ UNCHANGED environmentsVars <=> UNCHANGED Env!envVars
    /\ UNCHANGED calendarVars <=> UNCHANGED Calendar!scheduleVars
    /\ UNCHANGED pluginsVars <=> UNCHANGED Plugin!pluginVars
    /\ UNCHANGED dispatchVars <=> UNCHANGED Dispatch!vars
    /\ UNCHANGED versionsVars <=> UNCHANGED Knowledge!knowledgeVars
BY DEF tasksVars, Task!taskVars, environmentsVars, Env!envVars, calendarVars, Calendar!scheduleVars,
       pluginsVars, Plugin!pluginVars, Plugin!managerVars, Plugin!hostVars, dispatchVars,
       Dispatch!vars, Dispatch!rows, Dispatch!budget, versionsVars, Knowledge!knowledgeVars,
       Knowledge!stores, Knowledge!history

(* The behaviours the run checks, in which one component moves, are          *)
(* behaviours of the components that all move on their own.                  *)
THEOREM ComponentsAreComposed == Spec => ServicesSpec
<1>1. Init => /\ AssistInit /\ JobInit /\ Task!TaskInit /\ Plugin!PluginInit /\ Env!EnvInit
              /\ Calendar!Init /\ Dispatch!Init /\ Knowledge!KnowledgeInit
  BY DEF Init
<1>2. ASSUME [Next]_vars
      PROVE  /\ [AssistNext]_assistVars /\ [JobNext]_jobVars
             /\ [Task!TaskNext]_(Task!taskVars) /\ [Plugin!PluginNext]_(Plugin!pluginVars)
             /\ [Env!EnvNext]_(Env!envVars) /\ [Calendar!Next]_(Calendar!scheduleVars)
             /\ [Dispatch!Next]_(Dispatch!vars) /\ [Knowledge!KnowledgeNext]_(Knowledge!knowledgeVars)
  <2>1. CASE UNCHANGED vars
    <3>1. /\ UNCHANGED assistVars /\ UNCHANGED jobVars /\ UNCHANGED tasksVars
          /\ UNCHANGED pluginsVars /\ UNCHANGED environmentsVars /\ UNCHANGED calendarVars
          /\ UNCHANGED dispatchVars /\ UNCHANGED versionsVars
      BY <2>1 DEF vars
    <3> QED
      BY <3>1, SameVars
  <2>2. CASE Next
    BY <2>2, SameVars DEF Next
  <2> QED
    BY <1>2, <2>1, <2>2
<1> QED
  BY <1>1, <1>2, PTL DEF Spec, ServicesSpec, AssistSpec, JobSpec, Task!TaskSpec, Plugin!PluginSpec,
     Env!EnvSpec, Calendar!Spec, Dispatch!Spec, Knowledge!KnowledgeSpec

(* One workspace directory is used by one script of a turn, and by one       *)
(* container of an isolation key.                                            *)
THEOREM OneAtATimeHolds == ServicesSpec => []OneAtATime
<1>1. TaskInv /\ PluginInv => OneAtATime
  BY TaskInvGives, PluginInvGives DEF OneAtATime
<1> QED
  BY <1>1, TaskContainersAgree, PluginRuntimesAreRight, PTL DEF ServicesSpec

(* Slots and counters come back with every exit of a script call.            *)
THEOREM SlotsComeBack == ServicesSpec => []SlotsAgree
<1>1. TaskInv /\ CountersAgree => SlotsAgree
  BY TaskInvGives DEF SlotsAgree
<1> QED
  BY <1>1, TaskContainersAgree, CountersAreRight, PTL DEF ServicesSpec

(* Scripts, jobs and plugin runtimes leave nothing behind but what a call    *)
(* that raised or a restart explains.                                        *)
THEOREM NothingIsLeft == ServicesSpec => []NothingIsLeaked
<1>1. TaskInv /\ PluginInv /\ OnlyRaisedIsLeft => NothingIsLeaked
  BY TaskInvGives, PluginInvGives DEF NothingIsLeaked
<1> QED
  BY <1>1, TaskContainersAgree, PluginRuntimesAreRight, NothingElseIsLeft, PTL DEF ServicesSpec

(* A lease, a runtime or an image that is handed out is there.               *)
THEOREM AnswersAreUsable == ServicesSpec => []AnsweredIsUsable
<1>1. TaskInv /\ PluginInv /\ EnvInv => AnsweredIsUsable
  BY TaskInvGives, PluginInvGives DEF AnsweredIsUsable, EnvInv
<1> QED
  BY <1>1, TaskContainersAgree, PluginRuntimesAreRight, SkillEnvironmentsAreRight, PTL
     DEF ServicesSpec

(* The build records tell the truth about builds.                            *)
THEOREM RecordsTellTheTruth == ServicesSpec => []RecordsAreHonest
<1>1. EnvInv => RecordsAreHonest
  BY DEF EnvInv, RecordsAreHonest
<1> QED
  BY <1>1, SkillEnvironmentsAreRight, PTL DEF ServicesSpec

------------------------------------------------------------------------------
(* The types of every component. *)

DispatchProofs == INSTANCE ScheduledDispatch_proofs
KnowledgeProofs == INSTANCE KnowledgeVersions_proofs

(* The dispatch that runs here is the one its own proofs are about.          *)
LEMMA DispatchIsProved == Dispatch!Spec => DispatchProofs!Spec
<1>1. ASSUME Dispatch!Init PROVE DispatchProofs!Init
  BY <1>1
     DEF DispatchProofs!Init, DispatchProofs!NextRunAt, DispatchProofs!Runs,
         DispatchProofs!Row, DispatchProofs!Procs, DispatchProofs!Resting,
         DispatchProofs!Ready, DispatchProofs!Instants, DispatchProofs!Gone,
         Dispatch!Init, Dispatch!NextRunAt, Dispatch!Runs, Dispatch!Row,
         Dispatch!Procs, Dispatch!Resting, Dispatch!Ready, Dispatch!Instants,
         Dispatch!Gone
<1>2. ASSUME Dispatch!Next PROVE DispatchProofs!Next
  <2>1. ASSUME NEW w, Dispatch!LoopStep(w) PROVE DispatchProofs!LoopStep(w)
    BY <2>1, ZenonT(30)
       DEF DispatchProofs!LoopStep, DispatchProofs!Runs, DispatchProofs!TakePending,
           DispatchProofs!NothingPending, DispatchProofs!FetchJob,
           DispatchProofs!FailPendingRun, DispatchProofs!ClaimDueJob,
           DispatchProofs!NothingDue, DispatchProofs!CreateRun,
           DispatchProofs!CheckExisting, DispatchProofs!Instants,
           DispatchProofs!Claimable, DispatchProofs!Claimed, DispatchProofs!budget,
           DispatchProofs!rows, DispatchProofs!CopyOf, DispatchProofs!Row,
           DispatchProofs!Done, DispatchProofs!IsDue, DispatchProofs!Resting,
           DispatchProofs!Goto, DispatchProofs!Pending, DispatchProofs!Gone,
           Dispatch!LoopStep, Dispatch!Runs, Dispatch!TakePending,
           Dispatch!NothingPending, Dispatch!FetchJob, Dispatch!FailPendingRun,
           Dispatch!ClaimDueJob, Dispatch!NothingDue, Dispatch!CreateRun,
           Dispatch!CheckExisting, Dispatch!Instants, Dispatch!Claimable,
           Dispatch!Claimed, Dispatch!budget, Dispatch!rows, Dispatch!CopyOf,
           Dispatch!Row, Dispatch!Done, Dispatch!IsDue, Dispatch!Resting,
           Dispatch!Goto, Dispatch!Pending, Dispatch!Gone
  <2>2. ASSUME NEW w, Dispatch!Crash(w) PROVE DispatchProofs!Crash(w)
    BY <2>2, ZenonT(30)
       DEF DispatchProofs!Crash, DispatchProofs!Procs, DispatchProofs!Resting,
           DispatchProofs!Gone, DispatchProofs!rows, Dispatch!Crash, Dispatch!Procs,
           Dispatch!Resting, Dispatch!Gone, Dispatch!rows
  <2>3. ASSUME NEW p, Dispatch!DispatchStep(p) PROVE DispatchProofs!DispatchStep(p)
    BY <2>3, ZenonT(30)
       DEF DispatchProofs!DispatchStep, DispatchProofs!ClaimRun,
           DispatchProofs!Refuse, DispatchProofs!PrepareTurn,
           DispatchProofs!MarkStarted, DispatchProofs!FailBeforeStart,
           DispatchProofs!Release, DispatchProofs!Unlease, DispatchProofs!Claimable,
           DispatchProofs!Claimed, DispatchProofs!Goto, DispatchProofs!Done,
           DispatchProofs!budget, DispatchProofs!rows, DispatchProofs!Busy,
           DispatchProofs!Row, DispatchProofs!Started, DispatchProofs!NextRunAt,
           DispatchProofs!Larger, DispatchProofs!Pending, DispatchProofs!Gone,
           DispatchProofs!Resting, DispatchProofs!Runs, DispatchProofs!Instants,
           Dispatch!DispatchStep, Dispatch!ClaimRun, Dispatch!Refuse,
           Dispatch!PrepareTurn, Dispatch!MarkStarted, Dispatch!FailBeforeStart,
           Dispatch!Release, Dispatch!Unlease, Dispatch!Claimable, Dispatch!Claimed,
           Dispatch!Goto, Dispatch!Done, Dispatch!budget, Dispatch!rows,
           Dispatch!Busy, Dispatch!Row, Dispatch!Started, Dispatch!NextRunAt,
           Dispatch!Larger, Dispatch!Pending, Dispatch!Gone, Dispatch!Resting,
           Dispatch!Runs, Dispatch!Instants
  <2>4. ASSUME NEW p, Dispatch!OperationRaises(p) PROVE DispatchProofs!OperationRaises(p)
    BY <2>4, ZenonT(30)
       DEF DispatchProofs!OperationRaises, DispatchProofs!Row, DispatchProofs!Goto,
           DispatchProofs!Gone, DispatchProofs!Resting, Dispatch!OperationRaises,
           Dispatch!Row, Dispatch!Goto, Dispatch!Gone, Dispatch!Resting
  <2>5. ASSUME NEW w, NEW m, Dispatch!RunNow(w, m) PROVE DispatchProofs!RunNow(w, m)
    BY <2>5, ZenonT(30)
       DEF DispatchProofs!RunNow, DispatchProofs!Row, DispatchProofs!CopyOf,
           Dispatch!RunNow, Dispatch!Row, Dispatch!CopyOf
  <2>6. ASSUME NEW k, Dispatch!TurnStep(k) PROVE DispatchProofs!TurnStep(k)
    BY <2>6, ZenonT(30)
       DEF DispatchProofs!TurnStep, DispatchProofs!TurnEnds, DispatchProofs!Observe,
           DispatchProofs!rows, DispatchProofs!budget, DispatchProofs!Row,
           Dispatch!TurnStep, Dispatch!TurnEnds, Dispatch!Observe, Dispatch!rows,
           Dispatch!budget, Dispatch!Row
  <2>7. ASSUME Dispatch!EditRead PROVE DispatchProofs!EditRead
    BY <2>7, ZenonT(30)
       DEF DispatchProofs!EditRead, DispatchProofs!rows, Dispatch!EditRead,
           Dispatch!rows
  <2>8. ASSUME Dispatch!EditWrite PROVE DispatchProofs!EditWrite
    BY <2>8, ZenonT(30)
       DEF DispatchProofs!EditWrite, DispatchProofs!Reschedule,
           DispatchProofs!budget, DispatchProofs!NextRunAt, Dispatch!EditWrite,
           Dispatch!Reschedule, Dispatch!budget, Dispatch!NextRunAt
  <2>9. ASSUME Dispatch!DeleteJob PROVE DispatchProofs!DeleteJob
    BY <2>9, ZenonT(30)
       DEF DispatchProofs!DeleteJob, DispatchProofs!budget, Dispatch!DeleteJob,
           Dispatch!budget
  <2>10. ASSUME Dispatch!Tick PROVE DispatchProofs!Tick
    BY <2>10, ZenonT(30)
       DEF DispatchProofs!Tick, DispatchProofs!rows, DispatchProofs!budget,
           Dispatch!Tick, Dispatch!rows, Dispatch!budget
  <2>11. ASSUME Dispatch!Lapse PROVE DispatchProofs!Lapse
    BY <2>11, ZenonT(30)
       DEF DispatchProofs!Lapse, DispatchProofs!JobLeaseLapses, DispatchProofs!Runs,
           DispatchProofs!RunLeaseLapses, DispatchProofs!Late,
           DispatchProofs!AtWorkOnJob, DispatchProofs!Instants,
           DispatchProofs!AtWorkOnRun, DispatchProofs!Procs, DispatchProofs!Working,
           Dispatch!Lapse, Dispatch!JobLeaseLapses, Dispatch!Runs,
           Dispatch!RunLeaseLapses, Dispatch!Late, Dispatch!AtWorkOnJob,
           Dispatch!Instants, Dispatch!AtWorkOnRun, Dispatch!Procs, Dispatch!Working
  <2> QED
    BY <1>2, <2>1, <2>2, <2>3, <2>4, <2>5, <2>6, <2>7, <2>8, <2>9, <2>10, <2>11
       DEF DispatchProofs!Next, DispatchProofs!Procs, DispatchProofs!Runs,
           DispatchProofs!Instants, Dispatch!Next, Dispatch!Procs, Dispatch!Runs,
           Dispatch!Instants
<1>3. ASSUME UNCHANGED Dispatch!vars PROVE UNCHANGED DispatchProofs!vars
  BY <1>3
     DEF DispatchProofs!vars, DispatchProofs!rows, DispatchProofs!budget,
         Dispatch!vars, Dispatch!rows, Dispatch!budget
<1> QED
  BY <1>1, <1>2, <1>3, PTL DEF DispatchProofs!Spec, Dispatch!Spec

(* The versions of a document that run here are the ones their own proofs    *)
(* are about.                                                                *)
LEMMA KnowledgeIsProved == Knowledge!KnowledgeSpec => KnowledgeProofs!KnowledgeSpec
<1>1. ASSUME Knowledge!KnowledgeInit PROVE KnowledgeProofs!KnowledgeInit
  BY <1>1
     DEF KnowledgeProofs!KnowledgeInit, KnowledgeProofs!Versions,
         KnowledgeProofs!Tasks, KnowledgeProofs!NoTask, KnowledgeProofs!Idle,
         KnowledgeProofs!Requests, KnowledgeProofs!NewRequest,
         Knowledge!KnowledgeInit, Knowledge!Versions, Knowledge!Tasks,
         Knowledge!NoTask, Knowledge!Idle, Knowledge!Requests, Knowledge!NewRequest
<1>2. ASSUME Knowledge!KnowledgeNext PROVE KnowledgeProofs!KnowledgeNext
  <2>1. ASSUME NEW u, Knowledge!InsertDocument(u) PROVE KnowledgeProofs!InsertDocument(u)
    BY <2>1, ZenonT(30)
       DEF KnowledgeProofs!InsertDocument, KnowledgeProofs!New,
           KnowledgeProofs!history, KnowledgeProofs!At, KnowledgeProofs!Requests,
           KnowledgeProofs!Cardinality, Knowledge!InsertDocument, Knowledge!New,
           Knowledge!history, Knowledge!At, Knowledge!Requests, Knowledge!Cardinality
  <2>2. ASSUME NEW r, Knowledge!ChooseVersion(r) PROVE KnowledgeProofs!ChooseVersion(r)
    BY <2>2, ZenonT(30)
       DEF KnowledgeProofs!ChooseVersion, KnowledgeProofs!New, KnowledgeProofs!Go,
           KnowledgeProofs!stores, KnowledgeProofs!history, KnowledgeProofs!At,
           KnowledgeProofs!Requests, KnowledgeProofs!DoneRequest,
           KnowledgeProofs!NewRequest, KnowledgeProofs!Cardinality,
           Knowledge!ChooseVersion, Knowledge!New, Knowledge!Go, Knowledge!stores,
           Knowledge!history, Knowledge!At, Knowledge!Requests,
           Knowledge!DoneRequest, Knowledge!NewRequest, Knowledge!Cardinality
  <2>3. ASSUME NEW x, Knowledge!ReadResource(x) PROVE KnowledgeProofs!ReadResource(x)
    BY <2>3, ZenonT(30)
       DEF KnowledgeProofs!ReadResource, KnowledgeProofs!New, KnowledgeProofs!Go,
           KnowledgeProofs!stores, KnowledgeProofs!history, KnowledgeProofs!At,
           KnowledgeProofs!Requests, KnowledgeProofs!DoneRequest,
           KnowledgeProofs!NewRequest, KnowledgeProofs!Cardinality,
           Knowledge!ReadResource, Knowledge!New, Knowledge!Go, Knowledge!stores,
           Knowledge!history, Knowledge!At, Knowledge!Requests,
           Knowledge!DoneRequest, Knowledge!NewRequest, Knowledge!Cardinality
  <2>4. ASSUME NEW q, Knowledge!RequestStep(q) PROVE KnowledgeProofs!RequestStep(q)
    BY <2>4, ZenonT(30)
       DEF KnowledgeProofs!RequestStep, KnowledgeProofs!SetProcessing,
           KnowledgeProofs!CheckDocument, KnowledgeProofs!DeleteVersion,
           KnowledgeProofs!MarkDeleted, KnowledgeProofs!RequestParse,
           KnowledgeProofs!RequestRefused, KnowledgeProofs!RecordRefusal,
           KnowledgeProofs!RecordParse, KnowledgeProofs!At, KnowledgeProofs!Versions,
           KnowledgeProofs!Go, KnowledgeProofs!Here, KnowledgeProofs!stores,
           KnowledgeProofs!history, KnowledgeProofs!Tasks, KnowledgeProofs!NewTask,
           KnowledgeProofs!Trouble, KnowledgeProofs!DoneRequest,
           KnowledgeProofs!NewRequest, KnowledgeProofs!Cardinality,
           Knowledge!RequestStep, Knowledge!SetProcessing, Knowledge!CheckDocument,
           Knowledge!DeleteVersion, Knowledge!MarkDeleted, Knowledge!RequestParse,
           Knowledge!RequestRefused, Knowledge!RecordRefusal, Knowledge!RecordParse,
           Knowledge!At, Knowledge!Versions, Knowledge!Go, Knowledge!Here,
           Knowledge!stores, Knowledge!history, Knowledge!Tasks, Knowledge!NewTask,
           Knowledge!Trouble, Knowledge!DoneRequest, Knowledge!NewRequest,
           Knowledge!Cardinality
  <2>5. ASSUME NEW q, Knowledge!RequestLost(q) PROVE KnowledgeProofs!RequestLost(q)
    BY <2>5, ZenonT(30)
       DEF KnowledgeProofs!RequestLost, KnowledgeProofs!Trouble, KnowledgeProofs!Go,
           KnowledgeProofs!stores, KnowledgeProofs!history,
           KnowledgeProofs!DoneRequest, KnowledgeProofs!NewRequest,
           Knowledge!RequestLost, Knowledge!Trouble, Knowledge!Go, Knowledge!stores,
           Knowledge!history, Knowledge!DoneRequest, Knowledge!NewRequest
  <2>6. ASSUME NEW j, Knowledge!TaskStep(j) PROVE KnowledgeProofs!TaskStep(j)
    BY <2>6, ZenonT(30)
       DEF KnowledgeProofs!TaskStep, KnowledgeProofs!ParseDone,
           KnowledgeProofs!ReadChunks, KnowledgeProofs!IndexDone,
           KnowledgeProofs!ReportFailure, KnowledgeProofs!Post,
           KnowledgeProofs!TaskTo, KnowledgeProofs!stores, KnowledgeProofs!history,
           KnowledgeProofs!Free, KnowledgeProofs!Idle, Knowledge!TaskStep,
           Knowledge!ParseDone, Knowledge!ReadChunks, Knowledge!IndexDone,
           Knowledge!ReportFailure, Knowledge!Post, Knowledge!TaskTo,
           Knowledge!stores, Knowledge!history, Knowledge!Free, Knowledge!Idle
  <2>7. ASSUME NEW j, Knowledge!WorkRaises(j) PROVE KnowledgeProofs!WorkRaises(j)
    BY <2>7, ZenonT(30)
       DEF KnowledgeProofs!WorkRaises, KnowledgeProofs!Trouble,
           KnowledgeProofs!Raised, KnowledgeProofs!stores, KnowledgeProofs!history,
           KnowledgeProofs!Again, Knowledge!WorkRaises, Knowledge!Trouble,
           Knowledge!Raised, Knowledge!stores, Knowledge!history, Knowledge!Again
  <2>8. ASSUME NEW j, Knowledge!WorkerLost(j) PROVE KnowledgeProofs!WorkerLost(j)
    BY <2>8, ZenonT(30)
       DEF KnowledgeProofs!WorkerLost, KnowledgeProofs!Trouble,
           KnowledgeProofs!TaskTo, KnowledgeProofs!Raised, KnowledgeProofs!stores,
           KnowledgeProofs!history, KnowledgeProofs!Again, Knowledge!WorkerLost,
           Knowledge!Trouble, Knowledge!TaskTo, Knowledge!Raised, Knowledge!stores,
           Knowledge!history, Knowledge!Again
  <2>9. ASSUME NEW h, Knowledge!HandlerStep(h) PROVE KnowledgeProofs!HandlerStep(h)
    BY <2>9, ZenonT(30)
       DEF KnowledgeProofs!HandlerStep, KnowledgeProofs!FindDocument,
           KnowledgeProofs!RecordFailure, KnowledgeProofs!DeleteRows,
           KnowledgeProofs!InsertRows, KnowledgeProofs!RecordParsed,
           KnowledgeProofs!RequestIndex, KnowledgeProofs!IndexRefused,
           KnowledgeProofs!RecordIndex, KnowledgeProofs!RecordIndexed,
           KnowledgeProofs!Activate, KnowledgeProofs!CheckStale,
           KnowledgeProofs!RemoveVersion, KnowledgeProofs!Now,
           KnowledgeProofs!Matches, KnowledgeProofs!Answer, KnowledgeProofs!Next1,
           KnowledgeProofs!stores, KnowledgeProofs!Of, KnowledgeProofs!history,
           KnowledgeProofs!Tasks, KnowledgeProofs!NewTask, KnowledgeProofs!Trouble,
           KnowledgeProofs!Here, KnowledgeProofs!Current, KnowledgeProofs!Idle,
           KnowledgeProofs!Raised, KnowledgeProofs!Again, Knowledge!HandlerStep,
           Knowledge!FindDocument, Knowledge!RecordFailure, Knowledge!DeleteRows,
           Knowledge!InsertRows, Knowledge!RecordParsed, Knowledge!RequestIndex,
           Knowledge!IndexRefused, Knowledge!RecordIndex, Knowledge!RecordIndexed,
           Knowledge!Activate, Knowledge!CheckStale, Knowledge!RemoveVersion,
           Knowledge!Now, Knowledge!Matches, Knowledge!Answer, Knowledge!Next1,
           Knowledge!stores, Knowledge!Of, Knowledge!history, Knowledge!Tasks,
           Knowledge!NewTask, Knowledge!Trouble, Knowledge!Here, Knowledge!Current,
           Knowledge!Idle, Knowledge!Raised, Knowledge!Again
  <2>10. ASSUME NEW h, Knowledge!HandlerRaises(h) PROVE KnowledgeProofs!HandlerRaises(h)
    BY <2>10, ZenonT(30)
       DEF KnowledgeProofs!HandlerRaises, KnowledgeProofs!Trouble,
           KnowledgeProofs!Answer, KnowledgeProofs!stores, KnowledgeProofs!Idle,
           KnowledgeProofs!Raised, KnowledgeProofs!Again, Knowledge!HandlerRaises,
           Knowledge!Trouble, Knowledge!Answer, Knowledge!stores, Knowledge!Idle,
           Knowledge!Raised, Knowledge!Again
  <2> QED
    BY <1>2, <2>1, <2>2, <2>3, <2>4, <2>5, <2>6, <2>7, <2>8, <2>9, <2>10
       DEF KnowledgeProofs!KnowledgeNext, KnowledgeProofs!Requests,
           KnowledgeProofs!Tasks, Knowledge!KnowledgeNext, Knowledge!Requests,
           Knowledge!Tasks
<1>3. ASSUME UNCHANGED Knowledge!knowledgeVars PROVE UNCHANGED KnowledgeProofs!knowledgeVars
  BY <1>3
     DEF KnowledgeProofs!knowledgeVars, KnowledgeProofs!stores,
         KnowledgeProofs!history, Knowledge!knowledgeVars, Knowledge!stores,
         Knowledge!history
<1> QED
  BY <1>1, <1>2, <1>3, PTL DEF KnowledgeProofs!KnowledgeSpec, Knowledge!KnowledgeSpec

(* The types of the dispatch, from its own proof.                            *)
LEMMA DispatchTypes == Dispatch!Spec => []Dispatch!TypeOK
<1>1. DispatchProofs!OutcomesAssumption /\ DispatchProofs!NamesAssumption
  BY DispatchAssumption
     DEF DispatchProofs!OutcomesAssumption, DispatchProofs!NamesAssumption,
         DispatchProofs!IsFiniteSet, IsFiniteSet
<1>2. ASSUME DispatchProofs!TypeOK PROVE Dispatch!TypeOK
  BY <1>2
     DEF DispatchProofs!TypeOK, DispatchProofs!Instants, DispatchProofs!JobRows,
         DispatchProofs!Runs, DispatchProofs!RunRows, DispatchProofs!Procs,
         DispatchProofs!Progress, DispatchProofs!Pending, DispatchProofs!Settled,
         DispatchProofs!Places, DispatchProofs!Copies, DispatchProofs!Working,
         Dispatch!TypeOK, Dispatch!Instants, Dispatch!JobRows, Dispatch!Runs,
         Dispatch!RunRows, Dispatch!Procs, Dispatch!Progress, Dispatch!Pending,
         Dispatch!Settled, Dispatch!Places, Dispatch!Copies, Dispatch!Working
<1>3. DispatchProofs!Spec => []DispatchProofs!TypeOK
  BY <1>1, DispatchProofs!TypeCorrect, PTL
<1> QED
  BY <1>2, <1>3, DispatchIsProved, PTL

(* The types of the versions, from their own proof.                          *)
LEMMA KnowledgeTypes == Knowledge!KnowledgeSpec => []Knowledge!KnowledgeTypeOK
<1>1. KnowledgeProofs!UploadsAssumption
  BY UploadsAssumption
     DEF KnowledgeProofs!UploadsAssumption, KnowledgeProofs!IsFiniteSet, IsFiniteSet
<1>2. ASSUME KnowledgeProofs!KnowledgeTypeOK PROVE Knowledge!KnowledgeTypeOK
  BY <1>2
     DEF KnowledgeProofs!KnowledgeTypeOK, KnowledgeProofs!Versions,
         KnowledgeProofs!Tasks, Knowledge!KnowledgeTypeOK, Knowledge!Versions,
         Knowledge!Tasks
<1>3. KnowledgeProofs!KnowledgeSpec => []KnowledgeProofs!KnowledgeTypeOK
  BY <1>1, KnowledgeProofs!KnowledgeTypeCorrect, PTL
<1> QED
  BY <1>2, <1>3, KnowledgeIsProved, PTL

(* The types of a query and of its answer.                                   *)
LEMMA CalendarTypes == CalendarInv => Calendar!TypeOK
<1> SUFFICES ASSUME CalendarInv, answer # Asked
             PROVE  answer = None \/ answer \in Int
  BY DEF CalendarInv, Calendar!TypeOK
<1>1. query \in AnyQuery /\ answer = Calendar!NextRunAt(query)
  BY QueryAnswered
<1>2. PICK anchor : anchor = Calendar!LocalizeWallTime(query.anchor, query.zone)
  OBVIOUS
<1>3. PICK start : start = Calendar!Date(Calendar!Wall(query.zone, anchor))
  OBVIOUS
<1>4. CASE query.kind = "once"
  <2>1. PICK t : t = Calendar!TimeOfDay(Calendar!Wall(query.zone, anchor))
    OBVIOUS
  <2>2. anchor \in Int
    BY <1>1, <1>2, <1>3, <2>1, AnchorFacts
  <2> QED
    BY <1>1, <1>2, <1>4, <2>2 DEF Calendar!NextRunAt
<1>5. CASE query.kind # "once"
  BY <1>1, <1>2, <1>3, <1>5, NextDay
<1> QED
  BY <1>4, <1>5

(* The types of the containers, the runtimes and the image of a skill.       *)
LEMMA SandboxTypes ==
    ASSUME TaskInv, PluginInv, EnvInv
    PROVE  Task!TaskTypeOK /\ Plugin!PluginTypeOK /\ Env!EnvTypeOK
<1>1. Task!TaskTypeOK
  <2>1. /\ made \in Nat /\ made <= Cardinality(Calls) + 1 /\ lease \in 0..made /\ stored = lease
        /\ Cardinality(Calls) \in Nat /\ Task!Leases = 1..(Cardinality(Calls) + 1)
    BY CallsCount, CountedAlike DEF TaskInv, TaskTypes, Task!Leases
  <2>2. {lease, stored, made} \subseteq Task!Leases \cup {0}
    BY <2>1
  <2> QED
    BY <2>2 DEF TaskInv, TaskTypes, Task!TaskTypeOK, ThreadPlaces
<1>2. Plugin!PluginTypeOK
  <2>1. /\ last \in Nat /\ last + Cardinality(Unspent) <= Cardinality(Creates)
        /\ Plugin!Leases = 1..Cardinality(Creates)
    BY CountedAlike DEF PluginInv, PluginTypes, Plugin!Leases
  <2>2. Cardinality(Creates) \in Nat /\ Cardinality(Unspent) \in Nat
    BY PluginAssumption, FS_CardinalityType, FS_Subset DEF Unspent
  <2>3. last \in Plugin!Leases \cup {0}
    BY <2>1, <2>2
  <2>4. \A k \in Keys : current[k] \in 0..last
    BY <2>1 DEF PluginInv, PluginTypes, Known
  <2> QED
    BY <2>3, <2>4 DEF PluginInv, PluginTypes, Known, Plugin!PluginTypeOK
<1>3. Env!EnvTypeOK
  BY DEF EnvInv, EnvTypes, Env!EnvTypeOK
<1> QED
  BY <1>1, <1>2, <1>3

(* The types of every component.                                             *)
THEOREM TypesAreRight == ServicesSpec => []TypesOK
<1>1. Calendar!Spec => []CalendarInv
  BY CalendarAnswers
<1>2. /\ TaskInv /\ PluginInv /\ EnvInv /\ CalendarInv /\ AssistTypeOK /\ JobTypeOK
      /\ Dispatch!TypeOK /\ Knowledge!KnowledgeTypeOK
      => TypesOK
  BY SandboxTypes, CalendarTypes DEF TypesOK
<1> QED
  BY <1>1, <1>2, AssistTypeCorrect, JobTypeCorrect, TaskContainersAgree, PluginRuntimesAreRight,
     SkillEnvironmentsAreRight, DispatchTypes, KnowledgeTypes, PTL DEF ServicesSpec

(* The specification that is model-checked, in which one component moves at  *)
(* a time, has every invariant that is.                                      *)
THEOREM ServicesAreRight ==
    Spec => [](/\ TypesOK /\ OneAtATime /\ SlotsAgree /\ NothingIsLeaked /\ AnsweredIsUsable
               /\ RecordsAreHonest /\ NextTimesAreRight /\ ResumedByOneTurn /\ ResumingIsOwned)
<1>1. ServicesSpec => AssistSpec
  BY DEF ServicesSpec
<1> QED
  BY <1>1, ComponentsAreComposed, TypesAreRight, OneAtATimeHolds, SlotsComeBack, NothingIsLeft,
     AnswersAreUsable, RecordsTellTheTruth, NextTimesHold, OneTurnResumes, ResumingHasOwner, PTL

================================================================================
