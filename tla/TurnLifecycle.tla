---------------------------- MODULE TurnLifecycle ----------------------------
(***************************************************************************)
(* The life of the DSH turns of one Conversation: admission by             *)
(* DshChatService.prepare_turn, execution by DshTurnRunner, the terminal   *)
(* coordinator TurnStateFinalizer that every exit path calls,              *)
(* TurnCancellationCoordinator.cancel, and the claim sweep of              *)
(* TurnTerminalRecovery that runs at startup and before a live poll.       *)
(*                                                                         *)
(* MongoDB updates one document atomically, and every handler awaits       *)
(* between two updates, so an action is one update (with the reads that    *)
(* decide it) and handlers interleave between actions.  One chat-api       *)
(* process is modelled; it may crash and start again.                      *)
(*                                                                         *)
(* A request mints its own assistant message id, so a request names its    *)
(* message.  `verdict' keeps the status of every turn, the one in the      *)
(* current binding row and the ones a later claim has overwritten.         *)
(*                                                                         *)
(* Of the events a turn produces only the terminal one is kept: the host's *)
(* journal is the sequence of terminal events of the session, a cursor is  *)
(* a position in it, and as in the code nothing in an event says which     *)
(* message it answers.                                                     *)
(***************************************************************************)
EXTENDS Naturals, Sequences

CONSTANTS
    Requests,     \* prepare_turn calls, and the assistant messages they mint
    Suspending,   \* the messages whose turn asks for a browser intervention
    Token,        \* the stable claim token of every request
    Cancels,      \* cancel calls
    Sweeps,       \* concurrent runs of the claim sweep
    None,
    MaxGen,       \* bound: binding rotations
    MaxLosses,    \* bound: losses of the host's session volume
    MaxFaults,    \* bound: failed database or transport operations
    MaxCrashes    \* bound: process crashes

ASSUME NoneAssumption == None \notin Requests
ASSUME SuspendingAssumption == Suspending \subseteq Requests

VARIABLES
    holder,       \* binding.active_turn.message_id
    verdict,      \* active_turn.status of every turn
    gen,          \* which binding row is the current one
    cursor,       \* its event_cursor
    run,          \* the session row's active_run
    rows,         \* messages whose assistant row exists
    projected,    \* messages whose assistant projection has been written
    log,          \* last durable terminal row of a message (run.*)
    durable,      \* every durable terminal row, with the turn it comes from
    stored,       \* journal positions whose event is in the durable inbox
    session,      \* whether the host still has the current binding's session
    queue,        \* turns the session's agent has been sent and not finished
    stopping,     \* turns of the queue that were asked to stop
    journal,      \* terminal events of the session
    seen,         \* the binding row a handler has read: generation and cursor
    call,         \* progress of every handler
    losses, faults, crashes

claim == <<holder, verdict, gen, cursor>>
events == <<log, durable, stored>>
product == <<run, rows, projected>>
host == <<session, queue, stopping, journal>>
budget == <<losses, faults, crashes>>
vars == <<claim, events, product, host, seen, call, budget>>

Terminal == {"completed", "failed", "cancelled"}
NoRun == [msg |-> None, st |-> "none"]
Range(s) == {s[i] : i \in DOMAIN s}
Larger(x, y) == IF x < y THEN y ELSE x

Prepare(r) == <<"prepare", r>>
Runner(r) == <<"runner", r>>
Cancel(c) == <<"cancel", c>>
Sweep(s) == <<"sweep", s>>
Actors == {Prepare(r) : r \in Requests} \cup {Runner(r) : r \in Requests}
            \cup {Cancel(c) : c \in Cancels} \cup {Sweep(s) : s \in Sweeps}

(* A handler stands at a program counter; inside TurnStateFinalizer it     *)
(* stands at the coordinator's next step.                                  *)
FinalizerPc == {"project", "finish", "clear", "suspend"}
CallPc == FinalizerPc \cup
    {"new", "recover", "reread", "sync", "claim", "join", "recheck", "append",
     "mark", "launch", "attach", "send", "stream", "lookup", "orphan", "stop",
     "quiet", "wait", "ingest", "expired", "gather", "release", "returned",
     "raised", "done", "gone"}
Why == {"none", "repair", "recover", "turn", "failure", "cancelled", "ingest",
        "expired", "release"}

Frame(pc, m, s, clear, why) ==
    [pc |-> pc, msg |-> m, st |-> s, clear |-> clear, why |-> why]
At(pc, m) == Frame(pc, m, "none", FALSE, "none")

\* The call of finalize(message_id, status, clear_conversation) for a purpose.
Finalizing(first, m, s, keep, why) == Frame(first, m, s, ~keep, why)

\* Mutant of Keeps: whatever the status.
KeepsAnyStatus(m, s) == m \in Suspending

\* A completed turn that asked for an intervention keeps its active_run.
Keeps(m, s) == s = "completed" /\ m \in Suspending

Running == holder # None /\ verdict[holder] = "running"
RunnerLive(m) == call[Runner(m)].pc \notin {"new", "done", "gone"}
End == Len(journal)
Row == [gen |-> gen, at |-> cursor]

\* Mutant of Reachable: any session will do.
ReachableAnySession(a) == session

\* The host knows the session of the binding row the handler works on.
Reachable(a) == session /\ seen[a].gen = gen

Goto(a, pc) == call' = [call EXCEPT ![a].pc = pc]
Enter(a, frame) == call' = [call EXCEPT ![a] = frame]
Read(a) == seen' = [seen EXCEPT ![a] = Row]

------------------------------------------------------------------------------
Init ==
    /\ holder = None
    /\ verdict = [r \in Requests |-> "none"]
    /\ gen = 0 /\ cursor = 0
    /\ run = NoRun
    /\ rows = {} /\ projected = {}
    /\ log = [r \in Requests |-> "none"]
    /\ durable = {} /\ stored = {}
    /\ session = TRUE
    /\ queue = <<>> /\ stopping = {} /\ journal = <<>>
    /\ seen = [a \in Actors |-> [gen |-> 0, at |-> 0]]
    /\ call = [a \in Actors |-> At("new", None)]
    /\ losses = 0 /\ faults = 0 /\ crashes = 0

------------------------------------------------------------------------------
(* Durable terminal rows.                                                  *)

\* Mutant of PersistFailure: a status of the runner that is not terminal.
PersistInterrupted(m) ==
    /\ log' = [log EXCEPT ![m] = "interrupted"]
    /\ durable' = durable \cup {<<m, "failed", None>>}
    /\ UNCHANGED stored

\* A synthetic runtime failure.
PersistFailure(m) ==
    /\ log' = [log EXCEPT ![m] = "failed"]
    /\ durable' = durable \cup {<<m, "failed", None>>}
    /\ UNCHANGED stored

\* persist_batch: rows are inserted once per event, under the message given.
PersistNative(m, positions) ==
    LET fresh == positions \ stored IN
    /\ stored' = stored \cup fresh
    /\ durable' = durable \cup {<<m, journal[p].st, journal[p].turn>> : p \in fresh}
    /\ \/ fresh = {} /\ log' = log
       \/ \E last \in fresh :
             /\ \A p \in fresh : p <= last
             /\ log' = [log EXCEPT ![m] = journal[last].st]

------------------------------------------------------------------------------
(* TurnStateFinalizer.finalize, one action per coordination step.          *)

\* update_assistant_projection raises when the assistant row is missing.
Project(a) ==
    LET m == call[a].msg IN
    /\ call[a].pc = "project"
    /\ \/ /\ m \in rows
          /\ projected' = projected \cup {m}
          /\ Goto(a, "finish")
       \/ /\ m \notin rows
          /\ Goto(a, "raised")
          /\ UNCHANGED projected
    /\ UNCHANGED <<claim, events, run, rows, host, seen, budget>>

\* Mutant of Finish: the update does not look at the recorded status.
FinishUnconditionally(a) ==
    LET m == call[a].msg IN
    /\ call[a].pc = "finish"
    /\ verdict' = IF holder = m THEN [verdict EXCEPT ![m] = call[a].st] ELSE verdict
    /\ Goto(a, IF call[a].clear THEN "clear" ELSE "suspend")
    /\ UNCHANGED <<holder, gen, cursor, events, product, host, seen, budget>>

\* Mutant of Finish: the session row is left alone.
FinishOnly(a) ==
    LET m == call[a].msg IN
    /\ call[a].pc = "finish"
    /\ verdict' = IF holder = m /\ verdict[m] = "running"
                  THEN [verdict EXCEPT ![m] = call[a].st]
                  ELSE verdict
    /\ Goto(a, "returned")
    /\ UNCHANGED <<holder, gen, cursor, events, product, host, seen, budget>>

\* finalize_task_audit, then finish_turn: a compare-and-set on the running
\* turn.  When nothing matched, the re-read turn is not running either.
Finish(a) ==
    LET m == call[a].msg IN
    /\ call[a].pc = "finish"
    /\ verdict' = IF holder = m /\ verdict[m] = "running"
                  THEN [verdict EXCEPT ![m] = call[a].st]
                  ELSE verdict
    /\ Goto(a, IF call[a].clear THEN "clear" ELSE "suspend")
    /\ UNCHANGED <<holder, gen, cursor, events, product, host, seen, budget>>

\* Mutant of ClearRun: whatever run the session shows.
ClearAnyRun(a) ==
    /\ call[a].pc = "clear"
    /\ run' = NoRun
    /\ Goto(a, "returned")
    /\ UNCHANGED <<claim, events, rows, projected, host, seen, budget>>

ClearRun(a) ==
    /\ call[a].pc = "clear"
    /\ run' = IF run.msg = call[a].msg THEN NoRun ELSE run
    /\ Goto(a, "returned")
    /\ UNCHANGED <<claim, events, rows, projected, host, seen, budget>>

SuspendRun(a) ==
    /\ call[a].pc = "suspend"
    /\ run' = IF run.msg = call[a].msg THEN [run EXCEPT !.st = "suspended"] ELSE run
    /\ Goto(a, "returned")
    /\ UNCHANGED <<claim, events, rows, projected, host, seen, budget>>

\* A step failed: TurnFinalizationRetryableError.
StepFails(a) ==
    /\ call[a].pc \in FinalizerPc
    /\ faults < MaxFaults
    /\ faults' = faults + 1
    /\ Goto(a, "raised")
    /\ UNCHANGED <<claim, events, product, host, seen, losses, crashes>>

FinalizerStep(a) == Project(a) \/ Finish(a) \/ ClearRun(a) \/ SuspendRun(a)

------------------------------------------------------------------------------
(* Parts of TurnTerminalRecovery that several handlers call.               *)

\* Mutant of FinalizeFromLog: without the assistant projection.
FinalizeWithoutAnswer(a, m, s, why) ==
    Enter(a, Finalizing("finish", m, s, Keeps(m, s), why))

\* finalize_persisted_terminal: the last durable terminal row decides.
FinalizeFromLog(a, m, s, why) ==
    Enter(a, Finalizing("project", m, s, Keeps(m, s), why))

\* _finalize_orphaned_claim: a failure row for an existing message, and the
\* assistant projection whether the message exists or not.
FinalizeOrphan(a, m, why) ==
    /\ IF m \in rows THEN PersistFailure(m) ELSE UNCHANGED events
    /\ Enter(a, Finalizing("project", m, "failed", FALSE, why))

\* Mutant of IngestOnce: nothing new, nothing to finalize.
IngestOnlyNew(a, m, why) ==
    LET new == (seen[a].at + 1)..End IN
    /\ Reachable(a)
    /\ \/ /\ new = {} \/ m \notin rows
          /\ Enter(a, Frame(IF new = {} THEN "returned" ELSE "raised", m, "none", FALSE, why))
          /\ UNCHANGED <<events, cursor>>
       \/ /\ new # {} /\ m \in rows
          /\ PersistNative(m, new)
          /\ cursor' = Larger(cursor, End)
          /\ IF log'[m] = "none"
             THEN Enter(a, Frame("returned", m, "none", FALSE, why))
             ELSE FinalizeFromLog(a, m, log'[m], why)

\* ingest_once: every event past the cursor the handler read is stored under
\* the message; storing one needs the message row, which numbers the events.
IngestOnce(a, m, why) ==
    LET new == (seen[a].at + 1)..End IN
    /\ Reachable(a)
    /\ \/ /\ new # {} /\ m \notin rows
          /\ Enter(a, Frame("raised", m, "none", FALSE, why))
          /\ UNCHANGED <<events, cursor>>
       \/ /\ new = {} \/ m \in rows
          /\ PersistNative(m, new)
          /\ cursor' = IF new = {} THEN cursor ELSE Larger(cursor, End)
          /\ IF log'[m] = "none"
             THEN Enter(a, Frame("returned", m, "none", FALSE, why))
             ELSE FinalizeFromLog(a, m, log'[m], why)

------------------------------------------------------------------------------
(* prepare_turn.                                                           *)

\* Read the current binding: repair a terminal turn, recover a running one.
PrepareBegin(r) ==
    /\ call[Prepare(r)].pc = "new"
    /\ Read(Prepare(r))
    /\ \/ /\ holder = None
          /\ Goto(Prepare(r), "sync")
       \/ /\ Running
          /\ Enter(Prepare(r), At("recover", holder))
       \/ /\ holder # None /\ ~Running
          /\ Enter(Prepare(r), Finalizing("finish", holder, verdict[holder], FALSE, "repair"))
    /\ UNCHANGED <<claim, events, product, host, budget>>

\* Mutant of Recover: the session is not probed.
RecoverWithoutProbe(r) ==
    LET a == Prepare(r)
        m == call[a].msg
    IN
    /\ call[a].pc = "recover"
    /\ \/ /\ log[m] # "none"
          /\ FinalizeFromLog(a, m, log[m], "recover")
          /\ UNCHANGED events
       \/ /\ log[m] = "none"
          /\ FinalizeOrphan(a, m, "recover")
    /\ UNCHANGED <<claim, product, host, seen, budget>>

\* recover: finalize only when the event log, or a missing host session,
\* proves the turn over.
Recover(r) ==
    LET a == Prepare(r)
        m == call[a].msg
    IN
    /\ call[a].pc = "recover"
    /\ \/ /\ log[m] # "none"
          /\ FinalizeFromLog(a, m, log[m], "recover")
          /\ UNCHANGED events
       \/ /\ log[m] = "none" /\ Reachable(a)
          /\ Goto(a, "reread")
          /\ UNCHANGED events
       \/ /\ log[m] = "none" /\ ~Reachable(a)
          /\ FinalizeOrphan(a, m, "recover")
    /\ UNCHANGED <<claim, product, host, seen, budget>>

\* Back from the finalizer.  recover swallows its failure and goes on with
\* the binding it was given; a failed repair fails the request.
PrepareReturn(r) ==
    LET a == Prepare(r) IN
    /\ \/ /\ call[a].pc = "returned"
          /\ Goto(a, IF call[a].why = "repair" THEN "sync" ELSE "reread")
       \/ /\ call[a].pc = "raised" /\ call[a].why = "recover"
          /\ Goto(a, IF Token[call[a].msg] = Token[r] THEN "sync" ELSE "gone")
       \/ /\ call[a].pc = "raised" /\ call[a].why = "repair"
          /\ Goto(a, "gone")
    /\ UNCHANGED <<claim, events, product, host, seen, budget>>

\* The early busy rejection; a re-admission with the live token passes.
Reread(r) ==
    /\ call[Prepare(r)].pc = "reread"
    /\ Read(Prepare(r))
    /\ Goto(Prepare(r), IF Running /\ Token[holder] # Token[r] THEN "gone" ELSE "sync")
    /\ UNCHANGED <<claim, events, product, host, budget>>

\* Profile synchronization keeps the binding when its session can be restored.
SyncKeep(r) ==
    /\ call[Prepare(r)].pc = "sync"
    /\ Reachable(Prepare(r))
    /\ Goto(Prepare(r), "claim")
    /\ UNCHANGED <<claim, events, product, host, seen, budget>>

\* A changed profile or a missing session replaces the binding, if it is
\* still current and no turn runs.  A seed is exported only from an idle agent.
SyncReplace(r) ==
    /\ call[Prepare(r)].pc = "sync"
    /\ gen < MaxGen
    /\ seen[Prepare(r)].gen = gen /\ ~Running
    /\ session => queue = <<>>
    /\ gen' = gen + 1 /\ cursor' = 0 /\ holder' = None
    /\ session' = TRUE /\ queue' = <<>> /\ stopping' = {} /\ journal' = <<>>
    /\ stored' = {}
    /\ seen' = [seen EXCEPT ![Prepare(r)] = [gen |-> gen + 1, at |-> 0]]
    /\ Goto(Prepare(r), "claim")
    /\ UNCHANGED <<verdict, log, durable, product, budget>>

\* BindingReplacementConflict, or a predecessor that does not become idle.
SyncFails(r) ==
    /\ call[Prepare(r)].pc = "sync"
    /\ seen[Prepare(r)].gen # gen \/ Running \/ queue # <<>>
    /\ Goto(Prepare(r), "gone")
    /\ UNCHANGED <<claim, events, product, host, seen, budget>>

\* Mutant of Claim: the update does not ask for an idle binding.
ClaimBusy(r) ==
    LET a == Prepare(r) IN
    /\ call[a].pc = "claim"
    /\ \/ /\ seen[a].gen = gen
          /\ holder' = r
          /\ verdict' = [verdict EXCEPT ![r] = "running"]
          /\ Read(a)
          /\ Goto(a, "recheck")
       \/ /\ seen[a].gen # gen
          /\ Goto(a, "join")
          /\ UNCHANGED <<holder, verdict, seen>>
    /\ UNCHANGED <<gen, cursor, events, product, host, budget>>

\* claim_turn_authorized: the conditional update.
Claim(r) ==
    LET a == Prepare(r) IN
    /\ call[a].pc = "claim"
    /\ \/ /\ seen[a].gen = gen /\ ~Running
          /\ holder' = r
          /\ verdict' = [verdict EXCEPT ![r] = "running"]
          /\ Read(a)
          /\ Goto(a, "recheck")
       \/ /\ seen[a].gen # gen \/ Running
          /\ Goto(a, "join")
          /\ UNCHANGED <<holder, verdict, seen>>
    /\ UNCHANGED <<gen, cursor, events, product, host, budget>>

\* The second read: a caller with the live token gets the running claim back
\* and starts nothing; everyone else is told the Conversation is busy.
Join(r) ==
    LET a == Prepare(r) IN
    /\ call[a].pc = "join"
    /\ Goto(a, IF seen[a].gen = gen /\ Running /\ Token[holder] = Token[r]
               THEN "done" ELSE "gone")
    /\ UNCHANGED <<claim, events, product, host, seen, budget>>

\* The failure path of admission: finish_turn(failed), and the error goes up.
RollBack(r) ==
    /\ verdict' = IF holder = r /\ verdict[r] = "running"
                  THEN [verdict EXCEPT ![r] = "failed"]
                  ELSE verdict
    /\ Goto(Prepare(r), "gone")

\* Access is authorized again after the claim; a removed participant is denied.
Recheck(r) ==
    /\ call[Prepare(r)].pc = "recheck"
    /\ \/ Goto(Prepare(r), "append") /\ UNCHANGED verdict
       \/ RollBack(r)
    /\ UNCHANGED <<holder, gen, cursor, events, product, host, seen, budget>>

\* Mutant of AppendMessages: the turn is started without an active_run.
AppendAndLaunch(r) ==
    /\ call[Prepare(r)].pc = "append"
    /\ rows' = rows \cup {r}
    /\ Goto(Prepare(r), "launch")
    /\ UNCHANGED <<claim, events, run, projected, host, seen, budget>>

AppendMessages(r) ==
    /\ call[Prepare(r)].pc = "append"
    /\ rows' = rows \cup {r}
    /\ Goto(Prepare(r), "mark")
    /\ UNCHANGED <<claim, events, run, projected, host, seen, budget>>

MarkActiveRun(r) ==
    /\ call[Prepare(r)].pc = "mark"
    /\ run' = [msg |-> r, st |-> "running"]
    /\ Goto(Prepare(r), "launch")
    /\ UNCHANGED <<claim, events, rows, projected, host, seen, budget>>

AdmissionFails(r) ==
    /\ call[Prepare(r)].pc \in {"append", "mark"}
    /\ faults < MaxFaults
    /\ faults' = faults + 1
    /\ RollBack(r)
    /\ UNCHANGED <<holder, gen, cursor, events, product, host, seen, losses, crashes>>

\* asyncio.create_task of the runner, on the binding row as claimed.
Launch(r) ==
    /\ call[Prepare(r)].pc = "launch"
    /\ call' = [call EXCEPT ![Prepare(r)].pc = "done",
                            ![Runner(r)] = At("attach", r)]
    /\ seen' = [seen EXCEPT ![Runner(r)] = seen[Prepare(r)]]
    /\ UNCHANGED <<claim, events, product, host, budget>>

PrepareStep(r) ==
    \/ PrepareBegin(r) \/ Recover(r) \/ PrepareReturn(r) \/ Reread(r)
    \/ SyncKeep(r) \/ SyncReplace(r) \/ SyncFails(r) \/ Claim(r) \/ Join(r)
    \/ Recheck(r) \/ AppendMessages(r) \/ MarkActiveRun(r) \/ Launch(r)

------------------------------------------------------------------------------
(* DshTurnRunner.run.  Once launched, seen[Runner(r)].at is the cursor the *)
(* event stream is read from.                                              *)

\* _attach_cursor: the head of the journal.
Attach(r) ==
    /\ call[Runner(r)].pc = "attach"
    /\ Reachable(Runner(r))
    /\ seen' = [seen EXCEPT ![Runner(r)].at = End]
    /\ Goto(Runner(r), "send")
    /\ UNCHANGED <<claim, events, product, host, budget>>

\* A failed probe: the durable cursor of the claimed row.
AttachFallback(r) ==
    /\ call[Runner(r)].pc = "attach"
    /\ faults < MaxFaults
    /\ faults' = faults + 1
    /\ Goto(Runner(r), "send")
    /\ UNCHANGED <<claim, events, product, host, seen, losses, crashes>>

Send(r) ==
    /\ call[Runner(r)].pc = "send"
    /\ Reachable(Runner(r))
    /\ queue' = Append(queue, r)
    /\ Goto(Runner(r), "stream")
    /\ UNCHANGED <<claim, events, product, session, stopping, journal, seen, budget>>

\* Mutant of TerminalArrives: the writer is not flushed.
TerminalUnflushed(r) ==
    LET a == Runner(r)
        p == seen[a].at + 1
        s == journal[p].st
    IN
    /\ call[a].pc = "stream"
    /\ Reachable(a) /\ p <= End
    /\ Enter(a, Finalizing("project", r, s, Keeps(r, s), "turn"))
    /\ UNCHANGED <<claim, events, product, host, seen, budget>>

\* The first terminal event past the attach cursor ends the stream; it is
\* flushed, and the cursor advanced, before the coordinator runs.
TerminalArrives(r) ==
    LET a == Runner(r)
        p == seen[a].at + 1
        s == journal[p].st
    IN
    /\ call[a].pc = "stream"
    /\ Reachable(a) /\ p <= End
    /\ PersistNative(r, {p})
    /\ cursor' = Larger(cursor, p)
    /\ Enter(a, Finalizing("project", r, s, Keeps(r, s), "turn"))
    /\ UNCHANGED <<holder, verdict, gen, product, host, seen, budget>>

\* An exception or a stream that ends without a terminal event: a failure
\* row at best effort, then a failed finalization.
StreamFails(r) ==
    /\ PersistFailure(r) \/ UNCHANGED events
    /\ Enter(Runner(r), Finalizing("project", r, "failed", FALSE, "turn"))
    /\ UNCHANGED <<claim, product, host, seen, losses, crashes>>

HostGone(r) ==
    /\ call[Runner(r)].pc \in {"attach", "send", "stream"}
    /\ ~Reachable(Runner(r))
    /\ StreamFails(r)
    /\ UNCHANGED faults

RunnerFault(r) ==
    /\ call[Runner(r)].pc \in {"attach", "send", "stream"}
    /\ faults < MaxFaults
    /\ faults' = faults + 1
    /\ StreamFails(r)

\* finalize raised: once more with status failed and without a projection.
RunnerReturn(r) ==
    LET a == Runner(r) IN
    /\ \/ /\ call[a].pc = "raised" /\ call[a].why = "turn"
          /\ Enter(a, Finalizing("finish", r, "failed", FALSE, "failure"))
       \/ /\ \/ call[a].pc = "returned"
             \/ call[a].pc = "raised" /\ call[a].why \in {"failure", "cancelled"}
          /\ Goto(a, "done")
    /\ UNCHANGED <<claim, events, product, host, seen, budget>>

\* task.cancel(): a waiting runner finalizes as cancelled; a runner that is
\* inside the coordinator stops where it stands.
Interrupted(m) ==
    IF call[Runner(m)].pc \in {"attach", "send", "stream"}
    THEN Finalizing("project", m, "cancelled", FALSE, "cancelled")
    ELSE [call[Runner(m)] EXCEPT !.pc = "done"]

RunnerStep(r) ==
    Attach(r) \/ Send(r) \/ TerminalArrives(r) \/ HostGone(r) \/ RunnerReturn(r)

RunnerTrouble(r) == AttachFallback(r) \/ RunnerFault(r)

------------------------------------------------------------------------------
(* TurnCancellationCoordinator.cancel.                                     *)

\* The session row is read first, and a run somebody else started is refused.
CancelAuthorize(c) ==
    LET a == Cancel(c) IN
    /\ call[a].pc = "new"
    /\ \/ Enter(a, At("lookup", run.msg))
       \/ run # NoRun /\ Goto(a, "gone")
    /\ UNCHANGED <<claim, events, product, host, seen, budget>>

\* Then the binding: its turn is stopped, repaired, or there is none.
CancelLookup(c) ==
    LET a == Cancel(c) IN
    /\ call[a].pc = "lookup"
    /\ Read(a)
    /\ \/ /\ holder = None
          /\ Goto(a, IF call[a].msg # None THEN "orphan" ELSE "done")
       \/ /\ Running
          /\ Enter(a, At("stop", holder))
       \/ /\ holder # None /\ ~Running
          /\ Enter(a, Finalizing("finish", holder, verdict[holder], FALSE, "repair"))
    /\ UNCHANGED <<claim, events, product, host, budget>>

CancelOrphanRun(c) ==
    LET a == Cancel(c) IN
    /\ call[a].pc = "orphan"
    /\ run' = IF run.msg = call[a].msg THEN NoRun ELSE run
    /\ Goto(a, "done")
    /\ UNCHANGED <<claim, events, rows, projected, host, seen, budget>>

\* restore, then cancel on the host; a missing session fails the call.
CancelStop(c) ==
    LET a == Cancel(c) IN
    /\ call[a].pc = "stop"
    /\ \/ /\ Reachable(a)
          /\ stopping' = stopping \cup Range(queue)
          /\ Goto(a, "quiet")
       \/ /\ ~Reachable(a)
          /\ Goto(a, "gone")
          /\ UNCHANGED stopping
    /\ UNCHANGED <<claim, events, product, session, queue, journal, seen, budget>>

\* The host answers when the agent is idle, or that it is still stopping,
\* which fails the call.  Then the local runner of the message is looked up.
CancelQuiet(c) ==
    LET a == Cancel(c)
        m == call[a].msg
    IN
    /\ call[a].pc = "quiet"
    /\ \/ /\ Reachable(a) /\ queue = <<>>
          /\ Goto(a, IF RunnerLive(m) THEN "wait" ELSE "ingest")
       \/ /\ ~Reachable(a) \/ queue # <<>>
          /\ Goto(a, "gone")
    /\ UNCHANGED <<claim, events, product, host, seen, budget>>

\* Wait ten seconds for the local runner; after that and an ingest, cancel
\* its task and wait for it once more.
CancelSettle(c) ==
    LET a == Cancel(c)
        m == call[a].msg
    IN
    /\ \/ /\ call[a].pc \in {"wait", "gather"} /\ ~RunnerLive(m)
          /\ Goto(a, "release")
       \/ /\ call[a].pc = "wait" /\ RunnerLive(m)
          /\ Goto(a, "expired")
    /\ UNCHANGED <<claim, events, product, host, seen, budget>>

CancelIngest(c) ==
    LET a == Cancel(c)
        why == IF call[a].pc = "expired" THEN "expired" ELSE "ingest"
    IN
    /\ call[a].pc \in {"ingest", "expired"}
    /\ \/ IngestOnce(a, call[a].msg, why)
       \/ ~Reachable(a) /\ Goto(a, "gone") /\ UNCHANGED <<events, cursor>>
    /\ UNCHANGED <<holder, verdict, gen, product, host, seen, budget>>

CancelReturn(c) ==
    LET a == Cancel(c)
        m == call[a].msg
    IN
    /\ \/ /\ call[a].pc = "returned" /\ call[a].why = "ingest"
          /\ Goto(a, "release")
       \/ /\ call[a].pc = "returned" /\ call[a].why = "expired"
          /\ call' = [call EXCEPT ![a].pc = "gather",
                                  ![Runner(m)] = IF RunnerLive(m) THEN Interrupted(m) ELSE @]
       \/ /\ call[a].pc = "returned" /\ call[a].why \in {"repair", "release"}
          /\ Goto(a, "done")
       \/ /\ call[a].pc = "raised"
          /\ Goto(a, "gone")
    /\ UNCHANGED <<claim, events, product, host, seen, budget>>

\* Mutant of CancelRelease: the runner is trusted to have released the claim.
CancelTrusting(c) ==
    /\ call[Cancel(c)].pc = "release"
    /\ Goto(Cancel(c), "done")
    /\ UNCHANGED <<claim, events, product, host, seen, budget>>

\* _finalize_if_still_running.
CancelRelease(c) ==
    LET a == Cancel(c)
        m == call[a].msg
    IN
    /\ call[a].pc = "release"
    /\ \/ /\ holder = m /\ Running
          /\ Enter(a, Finalizing("finish", m, "cancelled", FALSE, "release"))
       \/ /\ holder # m \/ ~Running
          /\ Goto(a, "done")
    /\ UNCHANGED <<claim, events, product, host, seen, budget>>

CancelStep(c) ==
    \/ CancelAuthorize(c) \/ CancelLookup(c) \/ CancelOrphanRun(c)
    \/ CancelStop(c) \/ CancelQuiet(c)
    \/ CancelSettle(c) \/ CancelIngest(c) \/ CancelReturn(c) \/ CancelRelease(c)

------------------------------------------------------------------------------
(* TurnTerminalRecovery._reconcile_claims.                                 *)

SweepBegin(s) ==
    /\ call[Sweep(s)].pc = "new"
    /\ Running
    /\ Read(Sweep(s))
    /\ Enter(Sweep(s), At("ingest", holder))
    /\ UNCHANGED <<claim, events, product, host, budget>>

\* restore and ingest_once; a missing session makes the claim an orphan.
SweepIngest(s) ==
    LET a == Sweep(s) IN
    /\ call[a].pc = "ingest"
    /\ \/ IngestOnce(a, call[a].msg, "ingest")
       \/ /\ ~Reachable(a)
          /\ FinalizeOrphan(a, call[a].msg, "ingest")
          /\ UNCHANGED cursor
    /\ UNCHANGED <<holder, verdict, gen, product, host, seen, budget>>

SweepReturn(s) ==
    /\ call[Sweep(s)].pc \in {"returned", "raised"}
    /\ Enter(Sweep(s), At("new", None))
    /\ UNCHANGED <<claim, events, product, host, seen, budget>>

SweepStep(s) == SweepBegin(s) \/ SweepIngest(s) \/ SweepReturn(s)

------------------------------------------------------------------------------
(* The Runtime Host and the process itself.                                *)

\* The agent finishes the turn it works on, the oldest of its queue.
KernelEnds ==
    /\ queue # <<>>
    /\ \E s \in Terminal :
          /\ s = "cancelled" => queue[1] \in stopping
          /\ journal' = Append(journal, [turn |-> queue[1], st |-> s])
    /\ queue' = Tail(queue)
    /\ UNCHANGED <<claim, events, product, session, stopping, seen, call, budget>>

\* The host's session volume is lost, with the events nobody has ingested.
SessionLost ==
    /\ session
    /\ losses < MaxLosses
    /\ losses' = losses + 1
    /\ session' = FALSE /\ queue' = <<>> /\ stopping' = {} /\ journal' = <<>>
    /\ UNCHANGED <<claim, events, product, seen, call, faults, crashes>>

\* Every handler and every task dies; what was not begun can still come.
Crash ==
    /\ crashes < MaxCrashes
    /\ crashes' = crashes + 1
    /\ call' = [a \in Actors |->
                  IF call[a].pc = "new" \/ a \in {Sweep(s) : s \in Sweeps}
                  THEN At("new", None)
                  ELSE At("gone", None)]
    /\ UNCHANGED <<claim, events, product, host, seen, losses, faults>>

Next ==
    \/ \E r \in Requests : PrepareStep(r) \/ AdmissionFails(r)
    \/ \E r \in Requests : RunnerStep(r) \/ RunnerTrouble(r)
    \/ \E c \in Cancels : CancelStep(c)
    \/ \E s \in Sweeps : SweepStep(s)
    \/ \E a \in Actors : FinalizerStep(a) \/ StepFails(a)
    \/ KernelEnds
    \/ SessionLost
    \/ Crash

Spec == Init /\ [][Next]_vars

------------------------------------------------------------------------------
(* Properties.                                                             *)

FrameType == [pc : CallPc, msg : Requests \cup {None}, st : Terminal \cup {"none"},
              clear : BOOLEAN, why : Why]

\* The type of every variable.
TypeOK ==
    /\ holder \in Requests \cup {None}
    /\ verdict \in [Requests -> Terminal \cup {"none", "running"}]
    /\ gen \in Nat /\ cursor \in Nat
    /\ run \in [msg : Requests \cup {None}, st : {"none", "running", "suspended"}]
    /\ rows \subseteq Requests /\ projected \subseteq Requests
    /\ log \in [Requests -> Terminal \cup {"none"}]
    /\ durable \subseteq Requests \X Terminal \X (Requests \cup {None})
    /\ stored \subseteq Nat
    /\ session \in BOOLEAN
    /\ queue \in Seq(Requests) /\ stopping \subseteq Requests
    /\ journal \in Seq([turn : Requests, st : Terminal])
    /\ seen \in [Actors -> [gen : Nat, at : Nat]]
    /\ call \in [Actors -> FrameType]
    /\ losses \in Nat /\ faults \in Nat /\ crashes \in Nat

\* A turn recorded as completed has its answer in the assistant row: no reader
\* sees the binding complete and finds the placeholder the admission wrote.
CompletedIsProjected == \A m \in Requests : verdict[m] = "completed" => m \in projected

\* Nobody has cancelled, and no operation has failed.
Uncancelled == \A c \in Cancels : call[Cancel(c)].pc = "new"
Steady == Uncancelled /\ faults = 0

\* The finalizer's first promise: the terminal event of a completed turn is
\* durable, under that turn's message, before the binding says completed.
CompletedIsDurable ==
    Uncancelled => \A m \in Requests : verdict[m] = "completed" =>
        \E o \in Requests : <<m, "completed", o>> \in durable

\* The active_run of a session is withdrawn, suspended or replaced only when
\* the turn it names no longer holds the admission lock: the sidebar never
\* shows an idle conversation that still rejects messages.
RunOutlivesClaim ==
    [][Steady /\ losses = 0 /\ run # NoRun /\ run' # run => verdict[run.msg] # "running"]_vars

\* A run that waits for an intervention belongs to a turn that completed.
SuspendedIsCompleted == Steady /\ run.st = "suspended" => verdict[run.msg] = "completed"

\* Whoever streams a turn under a running claim is what the session shows.
StreamVisible ==
    Steady /\ losses = 0 =>
        \A r \in Requests :
            call[Runner(r)].pc = "stream" /\ verdict[r] = "running" => run.msg = r

\* The agent is only sent a turn that holds the admission lock.
OnlyClaimedTurnsAreSent ==
    [][Steady => \A r \in Requests :
          r \in Range(queue') /\ r \notin Range(queue) => verdict[r] = "running"]_vars

AtRest == \A a \in Actors : call[a].pc \in {"new", "done", "gone"}

\* When no handler is at work the two documents agree that nothing runs: no
\* lock is held that nobody will release, no run is shown that nobody executes.
StoresAgreeAtRest ==
    Steady /\ crashes = 0 /\ AtRest => ~Running /\ run.st # "running"

\* A native terminal event is stored under the message it answers.
EventsStayWithTheirTurn ==
    Steady => \A d \in durable : d[3] # None => d[3] = d[1]

CancelAnswers(c) ==
    call[Cancel(c)].msg # None /\ call[Cancel(c)].pc # "done" /\ call'[Cancel(c)].pc = "done"

\* A cancel call that answers true has ended the claim of its turn.
CancelEndsClaim ==
    [][\A c \in Cancels : CancelAnswers(c) => verdict'[call[Cancel(c)].msg] \in Terminal]_vars

\* A turn whose cancellation was confirmed is not at work on the host.
CancelledIsQuiet ==
    \A c \in Cancels : call[Cancel(c)].pc = "done" => call[Cancel(c)].msg \notin Range(queue)

\* Every event loop task and every database call that was started ends, the
\* sweep is run again and again by live polls, and the agent finishes turns.
Fairness ==
    /\ \A r \in Requests : WF_vars(PrepareStep(r)) /\ WF_vars(RunnerStep(r))
    /\ \A c \in Cancels : WF_vars(CancelStep(c))
    /\ \A s \in Sweeps : WF_vars(SweepStep(s))
    /\ \A a \in Actors : WF_vars(FinalizerStep(a))
    /\ WF_vars(KernelEnds)

FairSpec == Spec /\ Fairness

\* The turn is over for the host, and its message can record that: an event
\* past the cursor, a durable terminal row, or no session any more.
Over(m) == m \in rows /\ (~session \/ cursor < End \/ log[m] # "none")

\* No claim is held for ever while its turn is over, whatever crashed on the way.
OverIsReleased ==
    \A m \in Requests : []<>~(holder = m /\ verdict[m] = "running" /\ Over(m))

\* Every admission is followed by a release.
ClaimIsReleased == Running ~> ~Running

\* The admission lock of TurnClaim, with a turn for every request.
Lock == INSTANCE TurnClaim WITH Turns <- Requests

\* Whatever the handlers do, together they implement the admission lock.
ImplementsTurnClaim == Lock!ClaimSpec

------------------------------------------------------------------------------
(* The inductive invariant behind the properties that hold for every       *)
(* number of requests, cancels and sweeps.                                 *)

Claimed(m) == m \in Requests /\ verdict[m] # "none"

\* A request has no turn until its claim succeeds, and has one from then on.
Unclaimed == {"new", "recover", "reread", "sync", "claim"}
                \cup FinalizerPc \cup {"returned", "raised"}
AdmissionInv ==
    \A r \in Requests :
        /\ call[Prepare(r)].pc \in Unclaimed => verdict[r] = "none"
        /\ call[Prepare(r)].pc \in {"recheck", "append", "mark", "launch"} => Claimed(r)

\* The lock is held by the running turn and by no other.
LockInv ==
    /\ \A m \in Requests : verdict[m] = "running" => holder = m
    /\ holder # None => Claimed(holder)
    /\ run.msg # None => Claimed(run.msg)

\* A handler only ever works on a turn that was claimed, and a runner on its own.
WorkingPc == FinalizerPc \cup
    {"recover", "attach", "send", "stream", "orphan", "stop", "quiet", "wait",
     "ingest", "expired", "gather", "release", "returned", "raised"}
FrameInv ==
    /\ \A a \in Actors : call[a].pc \in WorkingPc => Claimed(call[a].msg)
    /\ \A a \in Actors : call[a].pc = "lookup" /\ call[a].msg # None => Claimed(call[a].msg)
    /\ \A r \in Requests : call[Runner(r)].pc \in WorkingPc => call[Runner(r)].msg = r

\* Inside the coordinator: a status to record, an answer written before a turn
\* is recorded as completed, and no running turn once the binding has moved or
\* a cancel has found it without a turn.
CoordinatorInv ==
    \A a \in Actors :
        /\ call[a].pc \in {"project", "finish"} => call[a].st \in Terminal
        /\ call[a].pc = "finish" /\ call[a].st = "completed" => call[a].msg \in projected
        /\ call[a].pc \in {"clear", "suspend", "orphan"} \/ (call[a].pc = "returned" /\ call[a].why \in {"repair", "release"})
              => verdict[call[a].msg] \in Terminal

\* Together with the types these are preserved by every step.
IInv ==
    /\ TypeOK /\ CompletedIsProjected
    /\ AdmissionInv /\ LockInv /\ FrameInv /\ CoordinatorInv
==============================================================================
