---------------------------- MODULE PluginRuntimes ----------------------------
(***************************************************************************)
(* The containers of plugin runtimes.  The sandbox manager (PluginRuntimes,*)
(* LeaseStore) keeps one lease per isolation key, whose storage directory  *)
(* its container mounts; the runtime host (ContainerPluginRuntimePool) asks *)
(* for leases, enters the runtimes it got into its maps and reclaims idle  *)
(* ones (RuntimeIdleReaper).                                               *)
(*                                                                         *)
(* The host is single-threaded: an action is what it does between two      *)
(* awaits.  The manager serves every request in a thread of its own, which *)
(* goes on when the host has given up waiting: an action is a critical     *)
(* section of `_lock', or the engine calls between two of them.            *)
(*                                                                         *)
(* Leases are numbered in the order of their creation; 0 is none.          *)
(***************************************************************************)
EXTENDS Naturals, FiniteSets

CONSTANTS
    Keys,        \* isolation keys
    Creates,     \* POST /v1/runtimes requests to the host
    Disposals,   \* DELETE /v1/runtimes/{id} requests to the host
    Sweeps,      \* sweeps of the idle reaper
    Uses,        \* forwarded requests
    Nobody,
    MaxTroubles  \* bound: calls that raise or time out, restarts

VARIABLES
    \* the manager
    table,       \* _leases
    file,        \* sandbox-plugin-leases.json
    last,        \* leases created so far
    keyOf,       \* isolation key of a lease
    live,        \* containers that run
    lost,        \* containers whose id the manager no longer has
    creating,    \* _creating: the thread that is in create for a key
    server,      \* the manager's thread for a request of the host
    \* the host
    runtimes,    \* #byRuntime
    current,     \* #byIsolation
    creation,    \* #pending: the create operation of a key
    retiring,    \* entries with the retiring flag
    call,        \* progress of the host's operations, and their lease
    todo,        \* the entries a sweep has still to retire
    \* history
    broken,      \* runtimes whose disposal failed, that a request the host had
                 \* given up disposed of, that are no longer in #byIsolation, or
                 \* that a sweep took while they served, by an old choice
    pluginTroubles

managerVars == <<table, file, last, keyOf, live, lost, creating, server>>
hostVars == <<runtimes, current, creation, retiring, call, todo>>
pluginVars == <<managerVars, hostVars, broken, pluginTroubles>>

Leases == 1..Cardinality(Creates)
Disposers == Disposals \cup Sweeps
Callers == Creates \cup Disposers
Processes == Callers \cup Uses
\* A sweep makes one request for every runtime it takes.
Requests == Creates \cup Disposals \cup (Sweeps \X Leases)
RequestOf(p, n) == IF p \in Sweeps THEN <<p, n>> ELSE p

PluginInit ==
    /\ table = {} /\ file = {} /\ last = 0 /\ live = {} /\ lost = {}
    /\ keyOf = [n \in Leases |-> Nobody]
    /\ creating = [k \in Keys |-> Nobody]
    /\ server = [p \in Requests |->
          [pc |-> "idle", verb |-> "none", key |-> Nobody, lease |-> 0]]
    /\ runtimes = {}
    /\ current = [k \in Keys |-> 0]
    /\ creation = [k \in Keys |-> Nobody]
    /\ retiring = {}
    /\ call = [p \in Processes |-> [pc |-> "new", key |-> Nobody, lease |-> 0]]
    /\ todo = [s \in Sweeps |-> {}]
    /\ broken = {}
    /\ pluginTroubles = 0

Trouble == pluginTroubles < MaxTroubles /\ pluginTroubles' = pluginTroubles + 1

------------------------------------------------------------------------------
(* The manager's threads. *)

Doing(p, pc) == server[p].pc = pc
To(p, pc) == server' = [server EXCEPT ![p].pc = pc]
ToWith(p, pc, n) == server' = [server EXCEPT ![p] = [@ EXCEPT !.pc = pc, !.lease = n]]
Running(p) == server[p].pc \notin {"idle", "ok", "error"}

\* A create leaves `_creating' in its finally clause; a DELETE just answers.
Fail(p) == To(p, IF server[p].verb = "POST" THEN "leaveError" ELSE "error")
DisposeReturns(p) == To(p, IF server[p].verb = "POST" THEN "make" ELSE "ok")

EnterCreate(p) ==
    /\ Doing(p, "enter")
    /\ IF creating[server[p].key] # Nobody
       THEN To(p, "error") /\ UNCHANGED creating
       ELSE To(p, "find") /\ creating' = [creating EXCEPT ![server[p].key] = p]
    /\ UNCHANGED <<table, file, last, keyOf, live, lost, hostVars, broken, pluginTroubles>>

FindPrevious(p) ==
    /\ Doing(p, "find")
    /\ LET previous == {n \in table : keyOf[n] = server[p].key}
       IN  IF previous = {} THEN To(p, "make")
           ELSE \E n \in previous : ToWith(p, "fetch", n)
    /\ UNCHANGED <<table, file, last, keyOf, live, lost, creating, hostVars>>
    /\ UNCHANGED <<broken, pluginTroubles>>

FetchLease(p) ==
    /\ Doing(p, "fetch")
    /\ IF server[p].lease \in table THEN To(p, "clean") ELSE DisposeReturns(p)
    /\ UNCHANGED <<table, file, last, keyOf, live, lost, creating, hostVars>>
    /\ UNCHANGED <<broken, pluginTroubles>>

\* What a create cleans up that the host has given up.
Breaks(p) == broken' = IF p \in Creates /\ call[p].pc = "done"
                       THEN broken \cup {server[p].lease} ELSE broken

\* A container or network that is gone already is no error.
CleanUp(p) ==
    /\ Doing(p, "clean")
    /\ live' = live \ {server[p].lease}
    /\ To(p, "forget")
    /\ Breaks(p)
    /\ UNCHANGED <<table, file, last, keyOf, lost, creating, hostVars, pluginTroubles>>

CleanUpRaises(p) ==
    /\ Doing(p, "clean")
    /\ Trouble
    /\ live' \in {live, live \ {server[p].lease}}
    /\ Fail(p)
    /\ Breaks(p)
    /\ UNCHANGED <<table, file, last, keyOf, lost, creating, hostVars>>

ForgetLease(p) ==
    /\ Doing(p, "forget")
    /\ table' = table \ {server[p].lease}
    /\ \/ file' = table' /\ DisposeReturns(p) /\ UNCHANGED pluginTroubles
       \/ Trouble /\ Fail(p) /\ UNCHANGED file          \* save raises
    /\ UNCHANGED <<last, keyOf, live, lost, creating, hostVars, broken>>

New(p) == /\ last' = last + 1
          /\ keyOf' = [keyOf EXCEPT ![last'] = server[p].key]
          /\ live' = live \cup {last'}

MakeContainer(p) ==
    /\ Doing(p, "make")
    /\ New(p)
    /\ ToWith(p, "register", last')
    /\ UNCHANGED <<table, file, lost, creating, hostVars, broken, pluginTroubles>>

\* The clean-up after a failed creation may fail as well, and says nothing.
MakeRaises(p) ==
    /\ Doing(p, "make")
    /\ Trouble
    /\ Fail(p)
    /\ \/ UNCHANGED <<last, keyOf, live, lost>>
       \/ New(p) /\ lost' = lost \cup {last'}
    /\ UNCHANGED <<table, file, creating, hostVars, broken>>

RegisterLease(p) ==
    /\ Doing(p, "register")
    /\ \/ /\ table' = table \cup {server[p].lease}
          /\ file' = table'
          /\ To(p, "leaveOk")
          /\ UNCHANGED <<live, lost, pluginTroubles>>
       \/ /\ Trouble                                    \* save raises
          /\ \/ live' = live \ {server[p].lease} /\ UNCHANGED lost
             \/ lost' = lost \cup {server[p].lease} /\ UNCHANGED live
          /\ To(p, "leaveError")
          /\ UNCHANGED <<table, file>>
    /\ UNCHANGED <<last, keyOf, creating, hostVars, broken>>

LeaveCreate(p) ==
    /\ server[p].pc \in {"leaveOk", "leaveError"}
    /\ creating' = [creating EXCEPT ![server[p].key] = Nobody]
    /\ To(p, IF Doing(p, "leaveOk") THEN "ok" ELSE "error")
    /\ UNCHANGED <<table, file, last, keyOf, live, lost, hostVars, broken, pluginTroubles>>

\* The threads are gone, and what they had created but not registered is lost.
ManagerRestart ==
    /\ Trouble
    /\ table' = file
    /\ lost' = lost \cup {server[p].lease : p \in {q \in Requests : Doing(q, "register")}}
    /\ creating' = [k \in Keys |-> Nobody]
    /\ server' = [p \in Requests |->
          IF Running(p) THEN [server[p] EXCEPT !.pc = "error"] ELSE server[p]]
    /\ UNCHANGED <<file, last, keyOf, live, hostVars, broken>>

ManagerStep(p) ==
    \/ EnterCreate(p) \/ FindPrevious(p) \/ FetchLease(p)
    \/ CleanUp(p) \/ CleanUpRaises(p) \/ ForgetLease(p)
    \/ MakeContainer(p) \/ MakeRaises(p) \/ RegisterLease(p) \/ LeaveCreate(p)

------------------------------------------------------------------------------
(* The host. *)

At(p, pc) == call[p].pc = pc
Go(p, pc) == call' = [call EXCEPT ![p].pc = pc]
Thread(p) == RequestOf(p, call[p].lease)
Answered(p, answer) == Doing(Thread(p), answer)

\* managerRequest gives up after 45 seconds; the manager's thread goes on.
GaveUp(p) == Running(Thread(p)) /\ Trouble
Failed(p) == (Answered(p, "error") /\ UNCHANGED pluginTroubles) \/ GaveUp(p)

Post(p, k) ==
    server' = [server EXCEPT ![p] = [pc |-> "enter", verb |-> "POST", key |-> k, lease |-> 0]]
Delete(p, n) == server' = [server EXCEPT ![RequestOf(p, n)] =
    [pc |-> "fetch", verb |-> "DELETE", key |-> keyOf[n], lease |-> n]]

\* A create of the same key is joined; a key that has a runtime is refused.
CreateRuntime(c, k) ==
    /\ At(c, "new")
    /\ IF creation[k] # Nobody \/ current[k] # 0
       THEN Go(c, "done") /\ UNCHANGED <<creation, server>>
       ELSE /\ creation' = [creation EXCEPT ![k] = c]
            /\ call' = [call EXCEPT ![c] = [pc |-> "posting", key |-> k, lease |-> 0]]
            /\ Post(c, k)
    /\ UNCHANGED <<table, file, last, keyOf, live, lost, creating, runtimes, current,
                   retiring, todo, broken, pluginTroubles>>

EndCreate(c) ==
    /\ creation' = [creation EXCEPT ![call[c].key] = Nobody]
    /\ Go(c, "done")

Leased(c) ==
    /\ At(c, "posting")
    /\ Answered(c, "ok")
    /\ call' = [call EXCEPT ![c] = [@ EXCEPT !.pc = "preparing", !.lease = server[c].lease]]
    /\ UNCHANGED <<managerVars, runtimes, current, creation, retiring, todo>>
    /\ UNCHANGED <<broken, pluginTroubles>>

NotLeased(c) ==
    /\ At(c, "posting")
    /\ Failed(c)
    /\ EndCreate(c)
    /\ UNCHANGED <<managerVars, runtimes, current, retiring, todo, broken>>

RuntimeReady(c) ==
    /\ At(c, "preparing")
    /\ call[c].lease \in live
    /\ runtimes' = runtimes \cup {call[c].lease}
    /\ current' = [current EXCEPT ![call[c].key] = call[c].lease]
    /\ EndCreate(c)
    /\ UNCHANGED <<managerVars, retiring, todo, broken, pluginTroubles>>

\* No answer of the container, or one that refuses: the lease is given back.
NotReady(c) ==
    /\ At(c, "preparing")
    /\ IF call[c].lease \in live THEN Trouble ELSE UNCHANGED pluginTroubles
    /\ Delete(c, call[c].lease)
    /\ Go(c, "undoing")
    /\ UNCHANGED <<table, file, last, keyOf, live, lost, creating, runtimes, current,
                   creation, retiring, todo, broken>>

Undone(c) ==
    /\ At(c, "undoing")
    /\ \/ Answered(c, "ok") /\ UNCHANGED pluginTroubles
       \/ Failed(c)
    /\ EndCreate(c)
    /\ UNCHANGED <<managerVars, runtimes, current, retiring, todo, broken>>

BeginDispose(d, n) ==
    /\ n \in runtimes
    /\ call' = [call EXCEPT ![d] = [pc |-> "deleting", key |-> keyOf[n], lease |-> n]]
    /\ Delete(d, n)

DisposeRuntime(d, n) ==
    /\ At(d, "new")
    /\ BeginDispose(d, n)
    /\ UNCHANGED <<table, file, last, keyOf, live, lost, creating, runtimes, current,
                   creation, retiring, todo, broken, pluginTroubles>>

\* What the isolation key is mapped to by now is removed with the runtime.
Disposed(d) ==
    /\ At(d, "deleting")
    /\ Answered(d, "ok")
    /\ runtimes' = runtimes \ {call[d].lease}
    /\ current' = [current EXCEPT ![call[d].key] = 0]
    /\ broken' = broken \cup ({current[call[d].key]} \ {0, call[d].lease})
    /\ Go(d, IF d \in Sweeps THEN "sweeping" ELSE "done")
    /\ UNCHANGED <<managerVars, creation, retiring, todo, pluginTroubles>>

\* A sweep takes the flag back: the runtime may be used again.
DisposeFails(d) ==
    /\ At(d, "deleting")
    /\ Failed(d)
    /\ broken' = broken \cup {call[d].lease}
    /\ retiring' = IF d \in Sweeps THEN retiring \ {call[d].lease} ELSE retiring
    /\ Go(d, IF d \in Sweeps THEN "sweeping" ELSE "done")
    /\ UNCHANGED <<managerVars, runtimes, current, creation, todo>>

InFlight(n) == \E u \in Uses : At(u, "using") /\ call[u].lease = n

\* The idle entries are collected once, at the start of a sweep, and taken one
\* after the other.  Whether the idle time of an entry without a request has
\* passed is left open.
Collected(s, idle) ==
    IF At(s, "new") THEN \A n \in idle : n \in runtimes \ retiring /\ ~InFlight(n)
    ELSE At(s, "sweeping") /\ idle = todo[s]

Retire(s, idle) ==
    /\ Collected(s, idle)
    /\ \E n \in idle :
          /\ todo' = [todo EXCEPT ![s] = idle \ {n}]
          /\ IF n \in runtimes
             THEN retiring' = retiring \cup {n} /\ BeginDispose(s, n)
             ELSE UNCHANGED <<retiring, call, server>>     \* dispose throws
          /\ broken' = IF At(s, "sweeping") /\ InFlight(n) THEN broken \cup {n} ELSE broken
    /\ UNCHANGED <<table, file, last, keyOf, live, lost, creating, runtimes, current,
                   creation, pluginTroubles>>

EndSweep(s) ==
    /\ At(s, "sweeping")
    /\ todo[s] = {}
    /\ Go(s, "done")
    /\ UNCHANGED <<managerVars, runtimes, current, creation, retiring, todo>>
    /\ UNCHANGED <<broken, pluginTroubles>>

\* RuntimeIdleReaper.use, on an entry the request has looked up.
LookUp(u, n) ==
    /\ At(u, "new")
    /\ n \in runtimes
    /\ call' = [call EXCEPT ![u] = [pc |-> "found", key |-> keyOf[n], lease |-> n]]
    /\ UNCHANGED <<managerVars, runtimes, current, creation, retiring, todo>>
    /\ UNCHANGED <<broken, pluginTroubles>>

BeginUse(u) ==
    /\ At(u, "found")
    /\ Go(u, IF call[u].lease \in retiring THEN "done" ELSE "using")
    /\ UNCHANGED <<managerVars, runtimes, current, creation, retiring, todo>>
    /\ UNCHANGED <<broken, pluginTroubles>>

EndUse(u) ==
    /\ At(u, "using")
    /\ Go(u, "done")
    /\ UNCHANGED <<managerVars, runtimes, current, creation, retiring, todo>>
    /\ UNCHANGED <<broken, pluginTroubles>>

\* The maps are in memory only; the manager keeps the leases.
HostRestart ==
    /\ Trouble
    /\ runtimes' = {} /\ retiring' = {}
    /\ current' = [k \in Keys |-> 0]
    /\ creation' = [k \in Keys |-> Nobody]
    /\ todo' = [s \in Sweeps |-> {}]
    /\ call' = [p \in Processes |->
          IF At(p, "new") THEN call[p] ELSE [call[p] EXCEPT !.pc = "done"]]
    /\ UNCHANGED <<managerVars, broken>>

HostStep(p) ==
    \/ /\ p \in Creates
       /\ Leased(p) \/ NotLeased(p) \/ RuntimeReady(p) \/ NotReady(p) \/ Undone(p)
    \/ p \in Disposers /\ (Disposed(p) \/ DisposeFails(p))
    \/ p \in Sweeps /\ EndSweep(p)

PluginNext ==
    \/ \E p \in Requests : ManagerStep(p)
    \/ \E p \in Callers : HostStep(p)
    \/ \E c \in Creates, k \in Keys : CreateRuntime(c, k)
    \/ \E d \in Disposals, n \in Leases : DisposeRuntime(d, n)
    \/ \E s \in Sweeps, idle \in SUBSET Leases : Retire(s, idle)
    \/ \E u \in Uses : BeginUse(u) \/ EndUse(u) \/ (\E n \in Leases : LookUp(u, n))
    \/ ManagerRestart \/ HostRestart

\* The manager's threads and the host's event loop go on.
PluginFairness ==
    /\ \A p \in Requests : WF_pluginVars(ManagerStep(p))
    /\ \A p \in Callers : WF_pluginVars(HostStep(p))

PluginSpec == PluginInit /\ [][PluginNext]_pluginVars

------------------------------------------------------------------------------
(* Properties. *)

PluginTypeOK ==
    /\ table \cup file \cup live \cup lost \cup runtimes \cup retiring \cup broken \subseteq 1..last
    /\ last \in Leases \cup {0}
    /\ \A k \in Keys : /\ creating[k] \in Creates \cup {Nobody}
                       /\ creation[k] \in Creates \cup {Nobody}
                       /\ current[k] \in 0..last

\* The storage directory of an isolation key is mounted by one container only,
\* although creations are given up and repeated, hosts and managers restart and
\* disposals run beside them; a container the manager lost is the exception.
OneContainerPerKey ==
    \A m, n \in live \ lost : keyOf[m] = keyOf[n] => m = n

\* A container that runs is in the lease table, or in the hands of the thread
\* that creates it, or it was lost in a restart or a failed clean-up.
RunningIsLeased ==
    \A n \in live \ lost :
        n \in table \/ \E p \in Requests : Doing(p, "register") /\ server[p].lease = n

\* A runtime the host offers has its container unless it is being disposed of,
\* and one that serves a request has it unless it was disposed of by request:
\* the idle reaper does not take it away.
OfferedIsRunning ==
    /\ \A n \in runtimes \ (live \cup broken) :
           \E d \in Disposers : At(d, "deleting") /\ call[d].lease = n
    /\ \A u \in Uses : At(u, "using") /\ call[u].lease \notin live \cup broken =>
           \E d \in Disposals : ~At(d, "new") /\ call[d].lease = call[u].lease

\* Every create request is answered.
CreatesAreOver == \A c \in Creates : At(c, "new") \/ At(c, "done")

\* "reaps idle leases and preserves an active request": the reaper takes a
\* runtime only while no request uses it.  This does not hold with two keys: the
\* sweep awaits the disposal of one runtime and goes on with its old choice.
PreservesActive ==
    [][\A n \in Leases : n \in retiring' \ retiring => ~InFlight(n)]_pluginVars

\* "isolation key already has a Runtime" is thrown by a creation lest the host
\* should ever have two runtimes of one key.  This does not hold: a disposal that
\* ends drops the entry of its key, whose runtime may be another one by then.
OneRuntimePerKey ==
    \A m, n \in runtimes : keyOf[m] = keyOf[n] => m = n
===============================================================================
