--------------------------- MODULE EventPersistence ---------------------------
(***************************************************************************)
(* How the events of one turn become durable: the event loop of            *)
(* DshTurnRunner, the two batching writers it feeds (the kernel events'    *)
(* DurableKernelEventWriter and the side-band rows'                        *)
(* DurableProjectionWriter), the TurnEventChannel between them, and the    *)
(* collections behind KernelEventRepository.  ingest_once of the claim     *)
(* sweep writes the same collections.                                      *)
(*                                                                         *)
(* The tasks of the process interleave where they await: on a queue, on a  *)
(* flush barrier's future, on a database call.  A database call that fails *)
(* here has outlasted its retries.  The rows of a batch are written one    *)
(* after the other, so one that fails, or whose task or process ends, may  *)
(* leave some of them behind.                                              *)
(*                                                                         *)
(* Every native event is taken to have a projected row.  The last one is   *)
(* turn.completed.  The live stream's sequence numbers are left out: the   *)
(* repository replaces them by durable ordinals.                           *)
(***************************************************************************)
EXTENDS Naturals, Sequences, FiniteSetsExt

CONSTANTS
    Last,          \* native events of the turn, by their cursor 1 .. Last
    Starts,        \* the events that start a tool call
    Browser,       \* those that start a browser_task
    Sides,         \* side-band rows of capabilities
    Parent,        \* the tool start a side row belongs to, None for a standalone row
    None,
    MaxBatch,      \* max_batch_size of both writers
    MaxTroubles,   \* bound: calls and streams that fail, cancellations and crashes
    MaxSweeps      \* bound: claim sweeps that ingest events

ASSUME LastAssumption == Last \in Nat \ {0}
ASSUME StartsAssumption == Browser \subseteq Starts /\ Starts \subseteq 1 .. Last - 1
ASSUME ParentAssumption == Parent \in [Sides -> Starts \cup {None}] /\ None \notin Starts

VARIABLES
    runner,        \* the runner's program counter, next event, status, whether it aborted its
                   \* writer, and whether the assistant row keeps the side rows' history
    answer,        \* the future of the flush barrier the runner awaits
    channel,       \* the TurnEventChannel
    side,          \* what became of a side row: new, published or refused
    writer,        \* state, queue, batch and command in progress of both writers
    job,           \* the persist call of a task: phase, rows, first ordinal, rows written
    inbox,         \* rows of kernel_event_inbox
    ordinal,       \* durable ordinal of a row of kernel_event_projections, 0 for none
    counter,       \* next_stream_seq of the message row
    cursor,        \* event_cursor of the binding row
    troubles,      \* of MaxTroubles
    sweeps         \* of MaxSweeps

memory == <<runner, answer, channel, side, writer>>
database == <<inbox, ordinal, counter, cursor>>
budget == <<troubles, sweeps>>
vars == <<memory, job, database, budget>>

Writers == {"kernel", "side"}
\* The tasks that persist: the writers, the runner's failure row, the sweep.
Persisters == Writers \cup {"failure", "sweep"}

Native(e) == <<"native", e>>
Lost(e) == <<"lost", e>>         \* synthetic failure in the cursor after the last one seen
Failure == <<"failure", 0>>      \* synthetic failure with a cursor past every native one
Side(s) == <<"side", s>>
Natives == {Native(e) : e \in 1 .. Last}
Rows == Natives \cup {Lost(e) : e \in 1 .. Last} \cup {Failure} \cup {Side(s) : s \in Sides}
Slots(r) == IF r[1] \in {"native", "lost"} THEN {r[2]} ELSE {}

Durable(r) == ordinal[r] > 0

Collections == {"inbox", "projections"}
NoJob == [phase |-> "idle", rows |-> <<>>, base |-> 0, written |-> [c \in Collections |-> 0]]
Persist(rows) == [NoJob EXCEPT !.phase = "reserve", !.rows = rows]

Trouble == troubles < MaxTroubles /\ troubles' = troubles + 1

NewWriter == [st |-> "running", queue |-> <<>>, batch |-> <<>>, held |-> "none"]
Failed(w) == writer[w].st = "failed"
Enqueue(w, items) == [writer EXCEPT ![w].queue = @ \o items]
Row(r) == <<"row", r>>
Flush == <<"flush">>
Stale == <<"stale">>             \* a barrier whose future was cancelled
Stop == <<"stop">>

NoRows == [e \in Starts |-> <<>>]   \* no row of any tool
NewChannel == [known |-> {}, durable |-> {}, waiting |-> NoRows, unmarked |-> NoRows,
               history |-> {}, accepted |-> {}, closed |-> FALSE]
Items(q) == [i \in DOMAIN q |-> Row(Side(q[i]))]

Ended == runner.pc \in {"settled", "unsettled", "cut", "raised", "crashed"}
Closing == {"closeSide", "stopSide", "closeKernel", "stopKernel"}

------------------------------------------------------------------------------
Init ==
    /\ runner = [pc |-> "stream", next |-> 1, status |-> "interrupted", aborted |-> FALSE,
                 kept |-> FALSE]
    /\ answer = "none"
    /\ channel = NewChannel
    /\ side = [s \in Sides |-> "new"]
    /\ writer = [w \in Writers |-> NewWriter]
    /\ job = [p \in Persisters |-> NoJob]
    /\ inbox = {} /\ ordinal = [r \in Rows |-> 0] /\ counter = 0 /\ cursor = 0
    /\ troubles = 0 /\ sweeps = 0

------------------------------------------------------------------------------
(* KernelEventRepository: persist_batch and persist_projections.           *)

\* Mutant of Reserve: one ordinal reserved, whatever the batch holds.
ReserveOne(p) ==
    /\ job[p].phase = "reserve"
    /\ counter' = counter + 1
    /\ job' = [job EXCEPT ![p].phase = "write", ![p].base = counter + 1]
    /\ UNCHANGED <<memory, inbox, ordinal, cursor, budget>>

\* One increment of the message row's counter reserves a block of ordinals.
Reserve(p) ==
    /\ job[p].phase = "reserve"
    /\ counter' = counter + Len(job[p].rows)
    /\ job' = [job EXCEPT ![p].phase = "write", ![p].base = counter + 1]
    /\ UNCHANGED <<memory, inbox, ordinal, cursor, budget>>

\* An ordered bulk_write of insert-only upserts is at this row.
Writing(p, c) == job[p].phase = "write" /\ job[p].written[c] < Len(job[p].rows)
Current(p, c) == job[p].rows[job[p].written[c] + 1]

\* The inbox is unique in the cursor: a row whose cursor another row has is refused.
Refused(p) ==
    /\ Writing(p, "inbox")
    /\ \E r \in inbox : r # Current(p, "inbox") /\ Slots(r) \cap Slots(Current(p, "inbox")) # {}

Written(p, c) == job' = [job EXCEPT ![p].written[c] = @ + 1]

WriteInbox(p) ==
    /\ Writing(p, "inbox") /\ p # "side" /\ ~Refused(p)
    /\ Written(p, "inbox")
    /\ inbox' = inbox \cup {Current(p, "inbox")}
    /\ UNCHANGED <<memory, ordinal, counter, cursor, budget>>

WriteProjection(p) ==
    /\ Writing(p, "projections")
    /\ Written(p, "projections")
    /\ ordinal' = [ordinal EXCEPT ![Current(p, "projections")] =
                     IF @ = 0 THEN job[p].base + job[p].written["projections"] ELSE @]
    /\ UNCHANGED <<memory, inbox, counter, cursor, budget>>

\* Mutant of Gathered: one of them has.
GatheredFirst(p) ==
    /\ job[p].phase = "write"
    /\ ~Writing(p, "projections") \/ (p # "side" /\ ~Writing(p, "inbox"))

\* Both bulk_writes have returned.
Gathered(p) ==
    /\ job[p].phase = "write" /\ ~Writing(p, "projections")
    /\ p = "side" \/ ~Writing(p, "inbox")

\* The writer and the sweep then advance_cursor: $max with the batch's largest.
AdvanceCursor(p) ==
    /\ p \in {"kernel", "sweep"} /\ Gathered(p)
    /\ cursor' = Max({cursor} \cup UNION {Slots(r) : r \in Range(job[p].rows)})
    /\ job' = [job EXCEPT ![p] = [NoJob EXCEPT !.phase = "done"]]
    /\ UNCHANGED <<memory, inbox, ordinal, counter, budget>>

Done(p) == IF p \in {"kernel", "sweep"} THEN job[p].phase = "done" ELSE Gathered(p)

\* A call that has outlasted its retries, or that retrying cannot help.
PersistFails(p) ==
    /\ job[p].phase \in {"reserve", "write"}
    /\ \/ Trouble
       \/ Refused(p) /\ UNCHANGED troubles
    /\ job' = [job EXCEPT ![p] = [NoJob EXCEPT !.phase = "failed"]]
    /\ UNCHANGED <<memory, database, sweeps>>

PersistStep(p) ==
    Reserve(p) \/ WriteInbox(p) \/ WriteProjection(p) \/ AdvanceCursor(p)
        \/ (Refused(p) /\ PersistFails(p))

------------------------------------------------------------------------------
(* DurableKernelEventWriter and DurableProjectionWriter: _run.             *)

Ready(w) == writer[w].st = "running" /\ job[w] = NoJob /\ writer[w].queue # <<>>

\* The queue's head: a row joins the batch.
TakeRow(w) ==
    /\ Ready(w) /\ Head(writer[w].queue)[1] = "row"
    /\ LET batch == Append(writer[w].batch, Head(writer[w].queue)[2]) IN
       /\ writer' = [writer EXCEPT ![w].queue = Tail(@), ![w].batch = batch]
       /\ job' = [job EXCEPT ![w] = IF Len(batch) < MaxBatch THEN NoJob ELSE Persist(batch)]
    /\ UNCHANGED <<runner, answer, channel, side, database, budget>>

\* Mutant of TakeCommand: the barrier is answered first.
TakeCommandEarly(w) ==
    /\ Ready(w) /\ Head(writer[w].queue)[1] # "row" /\ writer[w].batch # <<>>
    /\ writer' = [writer EXCEPT ![w].queue = Tail(@), ![w].held = "none"]
    /\ answer' = IF Head(writer[w].queue) = Flush THEN "ok" ELSE answer
    /\ job' = [job EXCEPT ![w] = Persist(writer[w].batch)]
    /\ UNCHANGED <<runner, channel, side, database, budget>>

\* A barrier or STOP with rows before it persists them first.
TakeCommand(w) ==
    /\ Ready(w) /\ Head(writer[w].queue)[1] # "row" /\ writer[w].batch # <<>>
    /\ writer' = [writer EXCEPT ![w].queue = Tail(@), ![w].held = Head(writer[w].queue)[1]]
    /\ job' = [job EXCEPT ![w] = Persist(writer[w].batch)]
    /\ UNCHANGED <<runner, answer, channel, side, database, budget>>

\* What a command is answered once nothing before it is left in the batch.
Obey(w, command, rest) ==
    /\ writer' = [writer EXCEPT ![w] = [rest EXCEPT
                    !.st = IF command = "stop" THEN "stopped" ELSE @]]
    /\ answer' = IF command = "flush" THEN "ok" ELSE answer

\* Mutant of TakeCommandOnEmpty: nothing to persist, nothing to answer.
TakeCommandSilently(w) ==
    /\ Ready(w) /\ Head(writer[w].queue)[1] # "row" /\ writer[w].batch = <<>>
    /\ Obey(w, "none", [writer[w] EXCEPT !.queue = Tail(@)])
    /\ UNCHANGED <<runner, channel, side, job, database, budget>>

TakeCommandOnEmpty(w) ==
    /\ Ready(w) /\ Head(writer[w].queue)[1] # "row" /\ writer[w].batch = <<>>
    /\ Obey(w, Head(writer[w].queue)[1], [writer[w] EXCEPT !.queue = Tail(@)])
    /\ UNCHANGED <<runner, channel, side, job, database, budget>>

\* max_batch_delay after the first row of the batch.
Deadline(w) ==
    /\ writer[w].st = "running" /\ job[w] = NoJob /\ writer[w].batch # <<>>
    /\ job' = [job EXCEPT ![w] = Persist(writer[w].batch)]
    /\ UNCHANGED <<memory, database, budget>>

\* _persist returned.
Persisted(w) ==
    /\ Done(w)
    /\ job' = [job EXCEPT ![w] = NoJob]
    /\ Obey(w, writer[w].held, [writer[w] EXCEPT !.batch = <<>>, !.held = "none"])
    /\ UNCHANGED <<runner, channel, side, database, budget>>

\* Mutant of WriterFails: the batch is dropped and the writer goes on.
WriterDropsBatch(w) ==
    /\ job[w].phase = "failed"
    /\ job' = [job EXCEPT ![w] = NoJob]
    /\ Obey(w, writer[w].held, [writer[w] EXCEPT !.batch = <<>>, !.held = "none"])
    /\ UNCHANGED <<runner, channel, side, database, budget>>

\* _persist raised: the barriers still in the queue fail, the one in hand does not.
WriterFails(w) ==
    /\ job[w].phase = "failed"
    /\ job' = [job EXCEPT ![w] = NoJob]
    /\ writer' = [writer EXCEPT ![w] = [NewWriter EXCEPT !.st = "failed"]]
    /\ answer' = IF Flush \in Range(writer[w].queue) THEN "error" ELSE answer
    /\ UNCHANGED <<runner, channel, side, database, budget>>

WriterStep(w) ==
    TakeRow(w) \/ TakeCommand(w) \/ TakeCommandOnEmpty(w) \/ Deadline(w)
        \/ Persisted(w) \/ WriterFails(w)

------------------------------------------------------------------------------
(* TurnEventChannel: side rows from the capabilities.                      *)

\* publish_side and publish_standalone.  A row whose tool has not started yet
\* waits; one whose tool is not durable is live only, for now.  A failed writer
\* raises in the capability; a closed channel ignores the row.
Publish(s) ==
    LET e == Parent[s] IN
    /\ side[s] = "new" /\ ~channel.closed
    /\ \/ /\ e # None /\ e \notin channel.known
          /\ channel' = [channel EXCEPT !.waiting[e] = Append(@, s)]
          /\ side' = [side EXCEPT ![s] = "published"]
          /\ UNCHANGED writer
       \/ /\ e \in channel.known \ channel.durable
          /\ channel' = [channel EXCEPT !.unmarked[e] = Append(@, s), !.history = @ \cup {s}]
          /\ side' = [side EXCEPT ![s] = "published"]
          /\ UNCHANGED writer
       \/ /\ e \in channel.durable \cup {None}
          /\ ~Failed("side")
          /\ channel' = [channel EXCEPT !.history = @ \cup {s}, !.accepted = @ \cup {s}]
          /\ side' = [side EXCEPT ![s] = "published"]
          /\ writer' = Enqueue("side", Items(<<s>>))
       \/ /\ e \in channel.durable \cup {None}
          /\ Failed("side")
          /\ channel' = [channel EXCEPT !.history = @ \cup {s}]
          /\ side' = [side EXCEPT ![s] = "refused"]
          /\ UNCHANGED writer
    /\ UNCHANGED <<runner, answer, job, database, budget>>

\* Mutant of Known: what waited is shown, and not kept for the history.
KnownUnrecorded(e) ==
    IF e \notin Starts THEN channel
    ELSE [channel EXCEPT !.known = @ \cup {e},
                         !.waiting[e] = <<>>,
                         !.unmarked[e] = @ \o channel.waiting[e]]

\* publish_kernel of a tool start: the rows that waited for it are shown.
Known(e) ==
    IF e \notin Starts THEN channel
    ELSE [channel EXCEPT !.known = @ \cup {e},
                         !.waiting[e] = <<>>,
                         !.unmarked[e] = @ \o channel.waiting[e],
                         !.history = @ \cup Range(channel.waiting[e])]

------------------------------------------------------------------------------
(* DshTurnRunner.run.                                                      *)

\* `except Exception' and the stream that ended early: the writer is aborted,
\* whatever it was about to write, and a failure row is persisted directly.
Abort ==
    /\ runner' = [runner EXCEPT !.pc = "failing", !.status = "failed", !.aborted = TRUE]
    /\ writer' = [writer EXCEPT !["kernel"] =
                    [NewWriter EXCEPT !.st = IF Failed("kernel") THEN "failed" ELSE "cancelled"]]
    /\ job' = [job EXCEPT !["kernel"] = NoJob, !["failure"] = Persist(<<Failure>>)]
    /\ answer' = "none"

\* An event is handed to the writer; a browser_task start and a terminal event
\* then wait for a flush.
Hand(row, pc) ==
    /\ writer' = Enqueue("kernel", <<Row(row)>> \o IF pc = "stream" THEN <<>> ELSE <<Flush>>)
    /\ answer' = "none"
    /\ UNCHANGED job

Receive ==
    LET e == runner.next
        pc == IF e = Last THEN "end" ELSE IF e \in Browser THEN "parent" ELSE "stream" IN
    /\ runner.pc = "stream" /\ e <= Last
    /\ channel' = Known(e)
    /\ \/ /\ ~Failed("kernel")
          /\ runner' = [runner EXCEPT !.pc = pc, !.next = e + 1,
                                      !.status = IF e = Last THEN "completed" ELSE @]
          /\ Hand(Native(e), pc)
       \/ Failed("kernel") /\ Abort
    /\ UNCHANGED <<side, database, budget>>

\* subscribe turns a broken transport into a terminal event of the next cursor.
Disconnect ==
    /\ runner.pc = "stream" /\ Trouble
    /\ \/ /\ ~Failed("kernel")
          /\ runner' = [runner EXCEPT !.pc = "end", !.status = "failed"]
          /\ Hand(Lost(runner.next), "end")
       \/ Failed("kernel") /\ Abort
    /\ UNCHANGED <<channel, side, database, sweeps>>

\* The stream ends early, or something else in the loop raises.
Interrupt ==
    /\ runner.pc = "stream" /\ Trouble
    /\ Abort
    /\ UNCHANGED <<channel, side, database, sweeps>>

\* mark_action_durable: the rows shown while the tool was not durable are enqueued.
ParentFlushed ==
    LET e == runner.next - 1
        rows == channel.unmarked[e]
        marked == [channel EXCEPT !.durable = @ \cup {e}, !.unmarked[e] = <<>>] IN
    /\ runner.pc = "parent" /\ answer = "ok"
    /\ \/ /\ rows = <<>> \/ ~Failed("side")
          /\ channel' = [marked EXCEPT !.accepted = @ \cup Range(rows)]
          /\ writer' = Enqueue("side", Items(rows))
          /\ runner' = [runner EXCEPT !.pc = "stream"]
          /\ answer' = "none"
          /\ UNCHANGED job
       \/ rows # <<>> /\ Failed("side") /\ channel' = marked /\ Abort
    /\ UNCHANGED <<side, database, budget>>

\* The terminal event is durable: the side rows are flushed next.
EndFlushed ==
    /\ runner.pc = "end" /\ answer = "ok"
    /\ \/ /\ ~Failed("side")
          /\ runner' = [runner EXCEPT !.pc = "endSide"]
          /\ writer' = Enqueue("side", <<Flush>>)
          /\ answer' = "none"
          /\ UNCHANGED job
       \/ Failed("side") /\ Abort
    /\ UNCHANGED <<channel, side, database, budget>>

\* An exception of a flush inside the event loop.
FlushRaises ==
    /\ runner.pc \in {"parent", "end", "endSide"} /\ answer = "error"
    /\ Abort
    /\ UNCHANGED <<channel, side, database, budget>>

\* A close that raises.  The handler of a cancellation guards the event writer's
\* close only; elsewhere the turn becomes failed and is settled once more.
Raised(r, w) ==
    [r EXCEPT !.kept = FALSE,
              !.pc = IF r.status # "cancelled" THEN "settling"
                     ELSE IF w = "kernel" THEN "unsettled" ELSE "raised"]

\* TurnEventChannel.close begins, with the runner r and the writers ws.
Close(r, ws) ==
    /\ channel' = [channel EXCEPT !.waiting = NoRows, !.unmarked = NoRows, !.closed = TRUE]
    /\ answer' = "none"
    /\ IF ws["side"].st = "failed"
       THEN runner' = Raised(r, "side") /\ writer' = ws
       ELSE /\ runner' = [r EXCEPT !.pc = "closeSide"]
            /\ writer' = [ws EXCEPT !["side"].queue = Append(@, Flush)]

CloseAfterEnd ==
    /\ runner.pc = "endSide" /\ answer = "ok"
    /\ Close(runner, writer)
    /\ UNCHANGED <<side, job, database, budget>>

\* _best_effort_failure has written its row, or has swallowed its exception.
CloseAfterFailure ==
    /\ runner.pc = "failing" /\ (Done("failure") \/ job["failure"].phase = "failed")
    /\ job' = [job EXCEPT !["failure"] = NoJob]
    /\ Close(runner, writer)
    /\ UNCHANGED <<side, database, budget>>

\* close: after the barrier STOP is queued and the writer's task awaited.
SideClosed ==
    /\ runner.pc = "closeSide" /\ answer # "none"
    /\ answer' = "none"
    /\ \/ /\ answer = "ok"
          /\ runner' = [runner EXCEPT !.pc = "stopSide"]
          /\ writer' = Enqueue("side", <<Stop>>)
       \/ answer = "error" /\ runner' = Raised(runner, "side") /\ UNCHANGED writer
    /\ UNCHANGED <<channel, side, job, database, budget>>

\* The finalizer's flush closes the event writer, unless it was aborted.
SideStopped ==
    LET r == [runner EXCEPT !.kept = runner.status # "cancelled"] IN
    /\ runner.pc = "stopSide" /\ writer["side"].st = "stopped"
    /\ \/ runner.aborted /\ runner' = [r EXCEPT !.pc = "settled"] /\ UNCHANGED writer
       \/ /\ ~runner.aborted /\ ~Failed("kernel")
          /\ runner' = [r EXCEPT !.pc = "closeKernel"]
          /\ writer' = Enqueue("kernel", <<Flush>>)
       \/ /\ ~runner.aborted /\ Failed("kernel")
          /\ runner' = Raised(runner, "kernel")
          /\ UNCHANGED writer
    /\ UNCHANGED <<answer, channel, side, job, database, budget>>

KernelClosed ==
    /\ runner.pc = "closeKernel" /\ answer # "none"
    /\ answer' = "none"
    /\ \/ /\ answer = "ok"
          /\ runner' = [runner EXCEPT !.pc = "stopKernel"]
          /\ writer' = Enqueue("kernel", <<Stop>>)
       \/ answer = "error" /\ runner' = Raised(runner, "kernel") /\ UNCHANGED writer
    /\ UNCHANGED <<channel, side, job, database, budget>>

KernelStopped ==
    /\ runner.pc = "stopKernel" /\ writer["kernel"].st = "stopped"
    /\ runner' = [runner EXCEPT !.pc = "settled"]
    /\ UNCHANGED <<answer, channel, side, writer, job, database, budget>>

\* The channel is gone: _failure_projection draws its ordinal from the database,
\* unguarded, before the turn is finalized as failed.
Settle ==
    /\ runner.pc = "settling"
    /\ \/ /\ runner' = [runner EXCEPT !.pc = "settled", !.status = "failed"]
          /\ counter' = counter + 1
          /\ UNCHANGED troubles
       \/ /\ Trouble
          /\ runner' = [runner EXCEPT !.pc = "cut", !.status = "failed"]
          /\ UNCHANGED counter
    /\ UNCHANGED <<answer, channel, side, writer, job, inbox, ordinal, cursor,
                   sweeps>>

RunnerStep ==
    Receive \/ ParentFlushed \/ EndFlushed \/ FlushRaises \/ CloseAfterEnd
        \/ CloseAfterFailure \/ SideClosed \/ SideStopped \/ KernelClosed
        \/ KernelStopped \/ Settle

------------------------------------------------------------------------------
\* The runner's task is cancelled: the barrier it awaits will not be answered.
Forget(w) ==
    [writer[w] EXCEPT
        !.queue = [i \in DOMAIN @ |-> IF @[i] = Flush THEN Stale ELSE @[i]],
        !.held = IF @ = "flush" THEN "stale" ELSE @]

\* In the event loop a cancellation is handled: the turn ends as cancelled.
CancelTurn ==
    /\ runner.pc \in {"stream", "parent", "end", "endSide"}
    /\ Close([runner EXCEPT !.status = "cancelled"], [w \in Writers |-> Forget(w)])
    /\ UNCHANGED job

\* Later it is not: it leaves run, through its finally clause or the handlers.
\* An awaited task is cancelled with the runner.
CancelEnding ==
    /\ runner.pc \in Closing \cup {"failing", "settling"}
    /\ runner' = [runner EXCEPT !.pc = IF runner.pc # "failing" /\ runner.status # "cancelled"
                                       THEN "cut" ELSE "raised"]
    /\ writer' = [w \in Writers |->
                    IF runner.pc = (IF w = "side" THEN "stopSide" ELSE "stopKernel")
                    THEN [NewWriter EXCEPT !.st = "cancelled"] ELSE Forget(w)]
    /\ job' = [job EXCEPT !["failure"] = NoJob]
    /\ answer' = "none"
    /\ UNCHANGED channel

Cancel ==
    /\ Trouble
    /\ CancelTurn \/ CancelEnding
    /\ UNCHANGED <<side, database, sweeps>>

\* The process ends: what was not written is lost.
Crash ==
    /\ Trouble
    /\ runner' = [runner EXCEPT !.pc = "crashed"]
    /\ answer' = "none"
    /\ channel' = [NewChannel EXCEPT !.closed = TRUE]
    /\ writer' = [w \in Writers |-> [NewWriter EXCEPT !.st = "cancelled"]]
    /\ job' = [p \in Persisters |-> NoJob]
    /\ UNCHANGED <<side, database, sweeps>>

\* ingest_once: the events of the host's journal after the durable cursor, while
\* the claim lasts.  The journal holds what the runner has received, and may be
\* ahead of it.
Ingest ==
    /\ sweeps < MaxSweeps /\ runner.pc # "settled" /\ job["sweep"] = NoJob
    /\ sweeps' = sweeps + 1
    /\ \E n \in 1 .. Last - cursor :
        /\ cursor + n >= runner.next - 1
        /\ job' = [job EXCEPT !["sweep"] = Persist([i \in 1 .. n |-> Native(cursor + i)])]
    /\ UNCHANGED <<memory, database, troubles>>

Ingested ==
    /\ (Done("sweep") \/ job["sweep"].phase = "failed")
    /\ job' = [job EXCEPT !["sweep"] = NoJob]
    /\ UNCHANGED <<memory, database, budget>>

------------------------------------------------------------------------------
Next ==
    \/ RunnerStep \/ Disconnect \/ Interrupt \/ Cancel \/ Crash \/ Ingest \/ Ingested
    \/ \E p \in Persisters : PersistStep(p) \/ PersistFails(p)
    \/ \E w \in Writers : WriterStep(w)
    \/ \E s \in Sides : Publish(s)

Spec == Init /\ [][Next]_vars

\* Whenever a task of the process can go on, one does: the agent ends its turn, the
\* event loop runs what is ready, a database call returns or fails.  That is enough,
\* since no task goes on for ever.
System ==
    RunnerStep \/ (\E p \in Persisters : PersistStep(p)) \/ (\E w \in Writers : WriterStep(w))

FairSpec == Spec /\ WF_vars(System)

------------------------------------------------------------------------------
Pcs == {"stream", "parent", "end", "endSide", "failing", "settling", "settled",
        "unsettled", "cut", "raised", "crashed"} \cup Closing
Phases == {"idle", "reserve", "write", "done", "failed"}
Queued == {Row(r) : r \in Rows} \cup {Flush, Stale, Stop}

\* The state's shape.
TypeOK ==
    /\ runner \in [pc : Pcs, next : 1 .. Last + 1,
                   status : {"interrupted", "completed", "failed", "cancelled"},
                   aborted : BOOLEAN, kept : BOOLEAN]
    /\ answer \in {"none", "ok", "error"}
    /\ channel \in [known : SUBSET Starts, durable : SUBSET Browser,
                    waiting : [Starts -> Seq(Sides)], unmarked : [Starts -> Seq(Sides)],
                    history : SUBSET Sides, accepted : SUBSET Sides, closed : BOOLEAN]
    /\ channel.accepted \subseteq channel.history
    /\ side \in [Sides -> {"new", "published", "refused"}]
    /\ writer \in [Writers -> [st : {"running", "stopped", "failed", "cancelled"},
                               queue : Seq(Queued), batch : Seq(Rows),
                               held : {"none", "flush", "stale", "stop"}]]
    /\ job \in [Persisters -> [phase : Phases, rows : Seq(Rows), base : Nat,
                               written : [Collections -> Nat]]]
    /\ inbox \subseteq Rows
    /\ ordinal \in [Rows -> Nat] /\ counter \in Nat /\ cursor \in 0 .. Last

(* The durable cursor is where recovery and the next attachment begin.     *)
(* Whatever failed, was cancelled or crashed, and whichever of the runner  *)
(* and the sweep moved it, no cursor up to it is without its inbox row and *)
(* its projected row.                                                      *)
CursorBehindRows ==
    \A e \in 1 .. cursor : \E r \in inbox : e \in Slots(r) /\ Durable(r)

(* Two rows of a message never share a durable ordinal, though the         *)
(* writers, the failure row and the sweep reserve theirs concurrently.     *)
DistinctOrdinals ==
    \A q, r \in Rows : Durable(q) /\ ordinal[q] = ordinal[r] => q = r

(* turn_runner.py: "The parent tool row must be durable before any child   *)
(* Browser Agent rows become replayable after reconnect."  A durable child *)
(* row has a durable parent, which a replay shows first.                   *)
ChildAfterParent ==
    \A s \in Sides : Parent[s] # None /\ Durable(Side(s)) =>
        Durable(Native(Parent[s])) /\ ordinal[Native(Parent[s])] < ordinal[Side(s)]

(* A turn settled as completed has all of its events in both collections   *)
(* and its cursor past them.                                               *)
CompletedIsWhole ==
    runner.pc = "settled" /\ runner.status = "completed" =>
        /\ Natives \subseteq inbox /\ \A r \in Natives : Durable(r)
        /\ cursor = Last

(* A side row in the history that the assistant row keeps can be replayed  *)
(* from the projections.                                                   *)
HistoryIsReplayable ==
    runner.kept => \A s \in channel.history \cap channel.accepted : Durable(Side(s))

(* While no writer has failed, a turn comes to an end: every barrier is    *)
(* answered, whatever interrupts the stream and whenever the runner is     *)
(* cancelled.                                                              *)
RunnerReturns == <>(Ended \/ Failed("kernel") \/ Failed("side"))

(* repository.py of a failed reservation: "Raised LOUDLY (never            *)
(* swallowed)", "allowed to propagate so it poisons the caller's writer".  *)
(* When the event writer has failed the turn comes to an end.              *)
FailurePropagates == Failed("kernel") ~> Ended
===============================================================================
