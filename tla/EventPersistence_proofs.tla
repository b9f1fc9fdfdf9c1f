------------------------ MODULE EventPersistence_proofs ------------------------
(***************************************************************************)
(* Theorems about EventPersistence: its type and its five safety           *)
(* properties hold for every number of events, rows, troubles and sweeps.  *)
(*                                                                         *)
(* None of the properties is inductive, since a row goes through a queue,  *)
(* a batch and a job before it is in the database.  EventInv says of each  *)
(* of these stations what may be there:                                    *)
(*   - Fed, BatchIsJob, WrittenIsThere: a writer has rows of its own kind  *)
(*     only, its job is its batch, and what a job has counted is durable;  *)
(*   - Blocks: the ordinals that jobs have reserved do not overlap, are    *)
(*     not in use, and lie at or below the counter;                        *)
(*   - Pipeline: for an event in a job, in the batch or in the queue, all  *)
(*     earlier events are before it or behind the cursor;                  *)
(*   - Lossless: without a broken transport there is no synthetic event;   *)
(*   - Frame, Barriers: one barrier is out at a time, of the writer that   *)
(*     the runner awaits, and one that was answered left its writer empty; *)
(*   - Children: a side row is handed on only when its tool's row is       *)
(*     durable, and its ordinals are reserved after that;                  *)
(*   - AcceptedIsKept: an accepted side row is on its way, unless the side *)
(*     writer failed or was cancelled.                                     *)
(* ShapeAndJobs proves the first groups for every step, with the types;    *)
(* the others follow one after the other (BatchSteps, ..., AcceptedSteps). *)
(***************************************************************************)
EXTENDS EventPersistence, Integers, SequenceTheorems, WellFoundedInduction, TLAPS

------------------------------------------------------------------------------
(* The inductive invariant.                                                *)

Losts == {Lost(e) : e \in 1 .. Last}
SideRows == {Side(s) : s \in Sides}

\* The rows a task ever persists.
Feed(p) == CASE p = "kernel" -> Natives \cup Losts
             [] p = "side" -> SideRows
             [] p = "failure" -> {Failure}
             [] p = "sweep" -> Natives
Commands == {Flush, Stale, Stop}
Entries(w) == {Row(r) : r \in Feed(w)} \cup Commands

Fed ==
    /\ \A p \in Persisters : job[p].rows \in Seq(Feed(p))
    /\ \A w \in Writers : writer[w].batch \in Seq(Feed(w)) /\ writer[w].queue \in Seq(Entries(w))

Active(p) == job[p].phase \in {"reserve", "write"}

\* A writer's job is its batch; a failed writer has neither.
BatchIsJob ==
    \A w \in Writers :
        /\ writer[w].st = "running" /\ Active(w) => job[w].rows = writer[w].batch
        /\ writer[w].st = "failed" => job[w] = NoJob
        /\ writer[w].st # "running" => writer[w].batch = <<>>
        /\ writer[w].held # "none" => writer[w].st = "running" /\ job[w] # NoJob

\* The rows a job has counted as written are in its collections.
Counted(p) ==
    /\ \A c \in Collections : job[p].written[c] <= Len(job[p].rows)
    /\ \A i \in 1 .. job[p].written["projections"] : Durable(job[p].rows[i])
    /\ p # "side" => \A i \in 1 .. job[p].written["inbox"] : job[p].rows[i] \in inbox
WrittenIsThere == \A p \in Persisters : Active(p) => Counted(p)

------------------------------------------------------------------------------
(* Ordinals: the blocks that jobs have reserved.                           *)

After(p) == job[p].base + Len(job[p].rows)

Mine(p) == job[p].base + job[p].written["projections"]   \* the next ordinal p assigns
Reserved(p) ==
    /\ 0 < job[p].base /\ After(p) <= counter + 1
    /\ \A r \in Rows : ~(Mine(p) <= ordinal[r] /\ ordinal[r] < After(p))
Apart(p, q) == After(p) <= job[q].base \/ After(q) <= job[p].base

Blocks ==
    /\ \A r \in Rows : ordinal[r] <= counter
    /\ \A p \in Persisters : job[p].phase = "write" => Reserved(p)
    /\ \A p, q \in Persisters :
        p # q /\ job[p].phase = "write" /\ job[q].phase = "write" => Apart(p, q)

------------------------------------------------------------------------------
(* Cursors: the event writer's pipeline has no gap.                        *)

Kernel == writer["kernel"]
Has(rows, d) == \E j \in 1 .. Len(rows) : d \in Slots(rows[j])
Queues(d, n) == \E j \in 1 .. n : Kernel.queue[j][1] = "row" /\ d \in Slots(Kernel.queue[j][2])
\* The event d is behind the cursor, in the batch, or among the first n in the queue.
Covered(d, n) == d <= cursor \/ Has(Kernel.batch, d) \/ Queues(d, n)

JobHasNoGap(p) ==
    Active(p) =>
        \A i \in 1 .. Len(job[p].rows) : \A e \in Slots(job[p].rows[i]) : \A d \in 1 .. e :
            d <= cursor \/ Has(job[p].rows, d)
BatchHasNoGap ==
    \A i \in 1 .. Len(Kernel.batch) : \A e \in Slots(Kernel.batch[i]) : \A d \in 1 .. e :
        d <= cursor \/ Has(Kernel.batch, d)
QueueHasNoGap ==
    \A i \in 1 .. Len(Kernel.queue) : Kernel.queue[i][1] = "row" =>
        \A e \in Slots(Kernel.queue[i][2]) : \A d \in 1 .. e : Covered(d, i)
Streaming == {"stream", "parent", "end"}
\* Every event received is behind the cursor or in the pipeline.
HandedOver ==
    runner.pc \in Streaming /\ Kernel.st # "failed" =>
        \A d \in 1 .. runner.next - 1 : Covered(d, Len(Kernel.queue))
DoneIsBehind ==
    job["kernel"].phase = "done" /\ Kernel.st = "running" =>
        \A i \in 1 .. Len(Kernel.batch) : \A e \in Slots(Kernel.batch[i]) : e <= cursor

Pipeline ==
    /\ CursorBehindRows
    /\ JobHasNoGap("kernel") /\ JobHasNoGap("sweep")
    /\ BatchHasNoGap /\ QueueHasNoGap /\ HandedOver /\ DoneIsBehind

\* Without a broken transport there is no synthetic event.
Lossless ==
    runner.status \in {"interrupted", "completed"} =>
        /\ inbox \cap Losts = {}
        /\ \A i \in 1 .. Len(Kernel.queue) :
              Kernel.queue[i][1] = "row" => Kernel.queue[i][2] \notin Losts
        /\ \A i \in 1 .. Len(Kernel.batch) : Kernel.batch[i] \notin Losts
        /\ Active("kernel") =>
              \A i \in 1 .. Len(job["kernel"].rows) : job["kernel"].rows[i] \notin Losts

------------------------------------------------------------------------------
(* The runner and its barriers.                                            *)

Late == {"stopSide", "closeKernel", "stopKernel", "settling", "settled", "unsettled", "cut",
         "raised", "crashed"}

Frame ==
    /\ runner.pc \in {"stream", "parent"} => runner.status = "interrupted"
    /\ runner.pc = "stream" => runner.next <= Last
    /\ runner.pc = "parent" => runner.next - 1 \in Browser
    /\ runner.pc = "end" => runner.status = "failed"
                            \/ (runner.status = "completed" /\ runner.next = Last + 1)
    /\ runner.pc \in {"closeSide", "stopSide"} => channel.closed
    /\ runner.status = "completed" /\ runner.pc \notin {"end", "crashed"} => Last <= cursor

Awaits(w) == IF w = "kernel" THEN {"parent", "end", "closeKernel"} ELSE {"endSide", "closeSide"}

Barriers ==
    /\ \A w \in Writers :
        /\ \A i \in 1 .. Len(writer[w].queue) : writer[w].queue[i] = Flush =>
              /\ answer = "none" /\ runner.pc \in Awaits(w) /\ writer[w].held # "flush"
              /\ \A j \in 1 .. Len(writer[w].queue) : writer[w].queue[j] = Flush => i = j
        /\ writer[w].held = "flush" =>
              answer = "none" /\ runner.pc \in Awaits(w) /\ writer[w].st = "running"
    /\ \A i \in 1 .. Len(Kernel.queue) : Kernel.queue[i] = Flush => i = Len(Kernel.queue)
    /\ Kernel.held = "flush" => Kernel.queue = <<>>
    /\ runner.pc \in {"parent", "end"} /\ answer = "ok" =>
        /\ Kernel.queue = <<>> /\ Kernel.batch = <<>> /\ Kernel.st # "failed"
        /\ job["kernel"] = NoJob
    /\ runner.pc = "stopSide" => answer = "none"

------------------------------------------------------------------------------
(* Side rows.                                                              *)

Band == writer["side"]
Parented(s) == Parent[s] # None => Durable(Native(Parent[s]))

Children ==
    /\ \A e \in channel.durable : Durable(Native(e))
    /\ \A e \in Starts :
        /\ \A i \in 1 .. Len(channel.waiting[e]) : Parent[channel.waiting[e][i]] = e
        /\ \A i \in 1 .. Len(channel.unmarked[e]) :
              Parent[channel.unmarked[e][i]] = e /\ channel.unmarked[e][i] \in channel.history
    /\ \A s \in Sides :
        /\ (\E i \in 1 .. Len(Band.queue) : Band.queue[i] = Row(Side(s))) => Parented(s)
        /\ (\E i \in 1 .. Len(Band.batch) : Band.batch[i] = Side(s)) => Parented(s)
        /\ Active("side") /\ (\E i \in 1 .. Len(job["side"].rows) : job["side"].rows[i] = Side(s)) =>
              /\ Parented(s)
              /\ job["side"].phase = "write" /\ Parent[s] # None =>
                    ordinal[Native(Parent[s])] < job["side"].base
    /\ ChildAfterParent

\* Nothing more is enqueued for the side writer.
Over == channel.closed /\ runner.pc \in Late

AcceptedIsKept ==
    /\ Band.st \in {"running", "stopped"} => \A s \in channel.accepted :
        \/ Durable(Side(s))
        \/ \E i \in 1 .. Len(Band.queue) : Band.queue[i] = Row(Side(s))
        \/ \E i \in 1 .. Len(Band.batch) : Band.batch[i] = Side(s)
    /\ \A i \in 1 .. Len(Band.queue) : Band.queue[i] = Stop =>
        i = Len(Band.queue) /\ Over /\ Band.held # "stop"
    /\ Band.held = "stop" => Band.queue = <<>> /\ Over
    /\ Band.st = "stopped" => Band.queue = <<>> /\ Band.batch = <<>> /\ Over
    /\ runner.kept => Over /\ \A s \in channel.accepted : Durable(Side(s))

EventInv ==
    /\ TypeOK /\ Fed /\ BatchIsJob /\ WrittenIsThere
    /\ DistinctOrdinals /\ Blocks
    /\ Pipeline /\ Lossless
    /\ Frame /\ Barriers
    /\ Children /\ AcceptedIsKept

------------------------------------------------------------------------------
(* The data: rows, queues, the largest of a set of cursors.                *)

LEMMA SlotsFacts ==
    /\ \A e : Slots(Native(e)) = {e} /\ Slots(Lost(e)) = {e}
    /\ Slots(Failure) = {}
    /\ \A s : Slots(Side(s)) = {}
BY DEF Slots, Native, Lost, Failure, Side

LEMMA RowFacts ==
    /\ \A p \in Persisters : Feed(p) \subseteq Rows
    /\ \A r \in Rows : Slots(r) \subseteq 1 .. Last
    /\ \A r \in Losts \cup Natives : \E e \in 1 .. Last : Slots(r) = {e}
    /\ \A r \in Rows : \A e \in Slots(r) : r = Native(e) \/ r \in Losts
    /\ \A s, t \in Sides : Side(s) = Side(t) => s = t
    /\ \A e, d : Native(e) = Native(d) => e = d
    /\ Natives \cap Losts = {}
    /\ \A s \in Sides : Side(s) \in Rows /\ Side(s) \notin Natives
    /\ \A e \in 1 .. Last : Native(e) \in Rows /\ Lost(e) \in Rows
    /\ Failure \in Rows
<1>1. \A p \in Persisters : Feed(p) \subseteq Rows
  BY DEF Persisters, Writers, Feed, Rows, Losts, SideRows
<1>2. \A r \in Rows : Slots(r) \subseteq 1 .. Last
  BY DEF Rows, Natives, Slots, Native, Lost, Failure, Side
<1>3. \A r \in Losts \cup Natives : \E e \in 1 .. Last : Slots(r) = {e}
  BY DEF Losts, Natives, Slots, Native, Lost
<1>4. \A r \in Rows : \A e \in Slots(r) : r = Native(e) \/ r \in Losts
  BY DEF Rows, Natives, Losts, Slots, Native, Lost, Failure, Side
<1>5. /\ \A s, t \in Sides : Side(s) = Side(t) => s = t
      /\ \A e, d : Native(e) = Native(d) => e = d
      /\ Natives \cap Losts = {}
      /\ \A s \in Sides : Side(s) \in Rows /\ Side(s) \notin Natives
      /\ \A e \in 1 .. Last : Native(e) \in Rows /\ Lost(e) \in Rows
      /\ Failure \in Rows
  BY DEF Rows, Natives, Losts, Native, Lost, Failure, Side
<1> QED
  BY <1>1, <1>2, <1>3, <1>4, <1>5

LEMMA EntryFacts ==
    /\ \A r : Row(r)[1] = "row" /\ Row(r)[2] = r
    /\ \A x \in Commands : x[1] # "row" /\ x[1] \in {"flush", "stale", "stop"}
    /\ Flush[1] = "flush" /\ Stale[1] = "stale" /\ Stop[1] = "stop"
    /\ Flush # Stale /\ Flush # Stop /\ Stop # Stale
    /\ \A r : Row(r) \notin Commands
    /\ \A w \in Writers : Entries(w) \subseteq Queued
    /\ \A w \in Writers : \A x \in Entries(w) :
          IF x[1] = "row" THEN x[2] \in Feed(w) /\ x = Row(x[2]) ELSE x \in Commands
<1>1. \A r : Row(r)[1] = "row" /\ Row(r)[2] = r
  BY DEF Row
<1>2. /\ \A x \in Commands : x[1] # "row" /\ x[1] \in {"flush", "stale", "stop"}
      /\ Flush[1] = "flush" /\ Stale[1] = "stale" /\ Stop[1] = "stop"
  BY DEF Commands, Flush, Stale, Stop
<1>3. Flush # Stale /\ Flush # Stop /\ Stop # Stale
  BY <1>2
<1>4. \A r : Row(r) \notin Commands
  BY <1>1, <1>2
<1>5. \A w \in Writers : Entries(w) \subseteq Queued
  BY RowFacts DEF Entries, Commands, Queued, Persisters
<1>6. \A w \in Writers : \A x \in Entries(w) :
          IF x[1] = "row" THEN x[2] \in Feed(w) /\ x = Row(x[2]) ELSE x \in Commands
  BY <1>1, <1>2 DEF Entries
<1> QED
  BY <1>1, <1>2, <1>3, <1>4, <1>5, <1>6

\* A nonempty set of cursors has a largest one.
LEMMA MaxFacts ==
    ASSUME NEW S, S \subseteq 0 .. Last, S # {}
    PROVE  Max(S) \in S /\ \A x \in S : x <= Max(S)
<1> DEFINE T == {Last - x : x \in S}
<1>1. T \subseteq Nat /\ T # {}
  BY LastAssumption
<1>2. PICK t \in T : \A u \in T : ~(<<u, t>> \in OpToRel(<, Nat))
  BY <1>1, WFMin, NatLessThanWellFounded, Zenon
<1>3. \A u \in T : ~(u < t)
  BY <1>1, <1>2 DEF OpToRel
<1>4. PICK m \in S : t = Last - m
  OBVIOUS
<1>5. ASSUME NEW x \in S PROVE m >= x
  <2>1. Last - x \in T
    OBVIOUS
  <2>2. ~(Last - x < Last - m)
    BY <1>3, <1>4, <2>1
  <2> HIDE DEF T
  <2> QED
    BY <2>2, LastAssumption
<1>6. Max(S) \in S /\ \A x \in S : Max(S) >= x
  BY <1>5 DEF Max
<1> QED
  BY <1>6, LastAssumption

------------------------------------------------------------------------------
(* What the steps do to the writers' queues and to the jobs.               *)

WriterRecords == [st : {"running", "stopped", "failed", "cancelled"},
                  queue : Seq(Queued), batch : Seq(Rows),
                  held : {"none", "flush", "stale", "stop"}]
WriterShape ==
    /\ writer \in [Writers -> WriterRecords]
    /\ \A w \in Writers : writer[w].batch \in Seq(Feed(w)) /\ writer[w].queue \in Seq(Entries(w))
JobRecords == [phase : Phases, rows : Seq(Rows), base : Nat, written : [Collections -> Nat]]
JobShape ==
    /\ job \in [Persisters -> JobRecords]
    /\ \A p \in Persisters : job[p].rows \in Seq(Feed(p))

\* The head of a queue is taken.
Popped(w) ==
    /\ Len(writer[w].queue) \in Nat \ {0}
    /\ Len(writer'[w].queue) = Len(writer[w].queue) - 1
    /\ \A i \in 1 .. Len(writer'[w].queue) : writer'[w].queue[i] = writer[w].queue[i + 1]

\* The queue has the items at its end.
Pushed(w, items) ==
    /\ Len(writer'[w].queue) = Len(writer[w].queue) + Len(items)
    /\ \A i \in 1 .. Len(writer[w].queue) + Len(items) :
          writer'[w].queue[i] = IF i <= Len(writer[w].queue) THEN writer[w].queue[i]
                                ELSE items[i - Len(writer[w].queue)]

\* The rest of a writer is as it was.
SameBut(w, fields) ==
    /\ "queue" \in fields \/ writer'[w].queue = writer[w].queue
    /\ "batch" \in fields \/ writer'[w].batch = writer[w].batch
    /\ "held" \in fields \/ writer'[w].held = writer[w].held
    /\ "st" \in fields \/ writer'[w].st = writer[w].st

LEMMA WriterSet ==
    ASSUME WriterShape, NEW w \in Writers,
           NEW v \in [st : {"running", "stopped", "failed", "cancelled"},
                      queue : Seq(Entries(w)), batch : Seq(Feed(w)),
                      held : {"none", "flush", "stale", "stop"}],
           writer' = [writer EXCEPT ![w] = v]
    PROVE  /\ WriterShape' /\ writer'[w] = v
           /\ \A u \in Writers \ {w} : writer'[u] = writer[u]
<1>1. v.queue \in Seq(Queued) /\ v.batch \in Seq(Rows)
  BY SeqMonotonic, EntryFacts, RowFacts DEF Persisters
<1>2. v \in WriterRecords
  BY <1>1 DEF WriterRecords
<1>3. /\ writer' \in [Writers -> WriterRecords] /\ writer'[w] = v
      /\ \A u \in Writers \ {w} : writer'[u] = writer[u]
  BY <1>2 DEF WriterShape
<1> QED
  BY <1>3 DEF WriterShape

LEMMA JobSet ==
    ASSUME JobShape, NEW p \in Persisters,
           NEW v \in [phase : Phases, rows : Seq(Feed(p)), base : Nat,
                      written : [Collections -> Nat]],
           job' = [job EXCEPT ![p] = v]
    PROVE  /\ JobShape' /\ job'[p] = v
           /\ \A q \in Persisters \ {p} : job'[q] = job[q]
<1>1. v.rows \in Seq(Rows)
  BY SeqMonotonic, RowFacts
<1>2. v \in JobRecords
  BY <1>1 DEF JobRecords
<1>3. /\ job' \in [Persisters -> JobRecords] /\ job'[p] = v
      /\ \A q \in Persisters \ {p} : job'[q] = job[q]
  BY <1>2 DEF JobShape
<1> QED
  BY <1>3 DEF JobShape

LEMMA JobValues ==
    ASSUME NEW p \in Persisters
    PROVE  /\ NoJob \in [phase : Phases, rows : Seq(Feed(p)), base : Nat,
                         written : [Collections -> Nat]]
           /\ NoJob.phase = "idle" /\ NoJob.rows = <<>>
           /\ \A ph \in Phases : [NoJob EXCEPT !.phase = ph] \in
                [phase : Phases, rows : Seq(Feed(p)), base : Nat, written : [Collections -> Nat]]
           /\ \A ph \in Phases : [NoJob EXCEPT !.phase = ph].phase = ph
           /\ \A rows \in Seq(Feed(p)) :
                /\ Persist(rows) \in [phase : Phases, rows : Seq(Feed(p)), base : Nat,
                                      written : [Collections -> Nat]]
                /\ Persist(rows).phase = "reserve" /\ Persist(rows).rows = rows
                /\ Persist(rows).written = [c \in Collections |-> 0]
<1>1. <<>> \in Seq(Feed(p))
  BY EmptySeq
<1> QED
  BY <1>1 DEF NoJob, Persist, Phases, Collections

LEMMA WriterParts ==
    ASSUME WriterShape, NEW w \in Writers
    PROVE  /\ writer[w].queue \in Seq(Entries(w)) /\ writer[w].batch \in Seq(Feed(w))
           /\ writer[w].st \in {"running", "stopped", "failed", "cancelled"}
           /\ writer[w].held \in {"none", "flush", "stale", "stop"}
           /\ Len(writer[w].queue) \in Nat /\ Len(writer[w].batch) \in Nat
           /\ \A i \in 1 .. Len(writer[w].queue) : writer[w].queue[i] \in Entries(w)
           /\ \A i \in 1 .. Len(writer[w].batch) : writer[w].batch[i] \in Feed(w)
           /\ writer[w].queue = <<>> <=> Len(writer[w].queue) = 0
           /\ writer[w].batch = <<>> <=> Len(writer[w].batch) = 0
<1>1. /\ writer[w].queue \in Seq(Entries(w)) /\ writer[w].batch \in Seq(Feed(w))
      /\ writer[w].st \in {"running", "stopped", "failed", "cancelled"}
      /\ writer[w].held \in {"none", "flush", "stale", "stop"}
  BY DEF WriterShape, WriterRecords
<1>2. /\ Len(writer[w].queue) \in Nat /\ Len(writer[w].batch) \in Nat
      /\ \A i \in 1 .. Len(writer[w].queue) : writer[w].queue[i] \in Entries(w)
      /\ \A i \in 1 .. Len(writer[w].batch) : writer[w].batch[i] \in Feed(w)
  BY <1>1, LenProperties, ElementOfSeq
<1>3. /\ writer[w].queue = <<>> <=> Len(writer[w].queue) = 0
      /\ writer[w].batch = <<>> <=> Len(writer[w].batch) = 0
  BY <1>1, EmptySeq
<1> QED
  BY <1>1, <1>2, <1>3

LEMMA JobParts ==
    ASSUME JobShape, NEW p \in Persisters
    PROVE  /\ job[p].rows \in Seq(Feed(p)) /\ Len(job[p].rows) \in Nat
           /\ \A i \in 1 .. Len(job[p].rows) : job[p].rows[i] \in Feed(p)
           /\ job[p].phase \in Phases /\ job[p].base \in Nat
           /\ job[p].written \in [Collections -> Nat]
<1>1. /\ job[p].rows \in Seq(Feed(p)) /\ job[p].phase \in Phases /\ job[p].base \in Nat
      /\ job[p].written \in [Collections -> Nat]
  BY DEF JobShape, JobRecords
<1> QED
  BY <1>1, LenProperties, ElementOfSeq

LEMMA EnqueueFacts ==
    ASSUME WriterShape, NEW w \in Writers, NEW items \in Seq(Entries(w)),
           writer' = Enqueue(w, items)
    PROVE  /\ WriterShape' /\ Pushed(w, items) /\ SameBut(w, {"queue"})
           /\ \A u \in Writers \ {w} : writer'[u] = writer[u]
<1> DEFINE q == writer[w].queue \o items
           v == [writer[w] EXCEPT !.queue = q]
<1>1. /\ writer[w].queue \in Seq(Entries(w)) /\ writer[w] \in WriterRecords
      /\ writer[w].batch \in Seq(Feed(w))
  BY DEF WriterShape
<1>2. q \in Seq(Entries(w))
  BY <1>1, ConcatProperties
<1> HIDE DEF q
<1>3. v \in [st : {"running", "stopped", "failed", "cancelled"},
             queue : Seq(Entries(w)), batch : Seq(Feed(w)),
             held : {"none", "flush", "stale", "stop"}]
  BY <1>1, <1>2 DEF WriterRecords
<1>4. /\ v.queue = q /\ v.batch = writer[w].batch /\ v.st = writer[w].st
      /\ v.held = writer[w].held
  BY <1>1 DEF WriterRecords
<1>5. writer' = [writer EXCEPT ![w] = v]
  BY DEF Enqueue, q
<1> HIDE DEF v
<1>6. /\ WriterShape' /\ writer'[w] = v /\ \A u \in Writers \ {w} : writer'[u] = writer[u]
  BY <1>3, <1>5, WriterSet
<1>7. /\ Len(q) = Len(writer[w].queue) + Len(items)
      /\ \A i \in 1 .. Len(writer[w].queue) + Len(items) :
            q[i] = IF i <= Len(writer[w].queue) THEN writer[w].queue[i]
                   ELSE items[i - Len(writer[w].queue)]
  BY <1>1, ConcatProperties, Zenon DEF q
<1>8. Pushed(w, items)
  BY <1>4, <1>6, <1>7 DEF Pushed
<1> QED
  BY <1>4, <1>6, <1>8 DEF SameBut

LEMMA PopFacts ==
    ASSUME WriterShape, NEW w \in Writers, writer[w].queue # <<>>,
           NEW rest, rest = Tail(writer[w].queue)
    PROVE  /\ Head(writer[w].queue) = writer[w].queue[1] /\ writer[w].queue[1] \in Entries(w)
           /\ rest \in Seq(Entries(w))
           /\ Len(writer[w].queue) \in Nat \ {0}
           /\ Len(rest) = Len(writer[w].queue) - 1
           /\ \A i \in 1 .. Len(rest) : rest[i] = writer[w].queue[i + 1]
<1>1. writer[w].queue \in Seq(Entries(w))
  BY WriterParts
<1>2. Len(writer[w].queue) \in Nat \ {0}
  BY <1>1, EmptySeq
<1>3. writer[w].queue[1] \in Entries(w)
  BY <1>1, <1>2, ElementOfSeq
<1>4. Head(writer[w].queue) = writer[w].queue[1]
  BY <1>1, <1>2
<1>5. /\ rest \in Seq(Entries(w)) /\ Len(rest) = Len(writer[w].queue) - 1
      /\ \A i \in 1 .. Len(rest) : rest[i] = writer[w].queue[i + 1]
  BY <1>1, HeadTailProperties, Zenon
<1> QED
  BY <1>2, <1>3, <1>4, <1>5

LEMMA TakeRowFacts ==
    ASSUME WriterShape, JobShape, NEW w \in Writers, TakeRow(w)
    PROVE  /\ WriterShape' /\ JobShape'
           /\ Popped(w) /\ SameBut(w, {"queue", "batch"})
           /\ writer[w].queue[1] = Row(writer[w].queue[1][2]) /\ writer[w].queue[1][2] \in Feed(w)
           /\ Len(writer'[w].batch) = Len(writer[w].batch) + 1
           /\ \A i \in 1 .. Len(writer[w].batch) : writer'[w].batch[i] = writer[w].batch[i]
           /\ writer'[w].batch[Len(writer[w].batch) + 1] = writer[w].queue[1][2]
           /\ writer[w].st = "running" /\ job[w] = NoJob
           /\ job'[w] = NoJob \/ job'[w] = Persist(writer'[w].batch)
           /\ \A u \in Writers \ {w} : writer'[u] = writer[u]
           /\ \A p \in Persisters \ {w} : job'[p] = job[p]
<1> DEFINE rest == Tail(writer[w].queue)
           batch == Append(writer[w].batch, Head(writer[w].queue)[2])
           v == [writer[w] EXCEPT !.queue = rest, !.batch = batch]
           j == IF Len(batch) < MaxBatch THEN NoJob ELSE Persist(batch)
<1>1. /\ writer[w].st = "running" /\ job[w] = NoJob /\ writer[w].queue # <<>>
      /\ Head(writer[w].queue)[1] = "row"
      /\ writer' = [writer EXCEPT ![w] = v] /\ job' = [job EXCEPT ![w] = j]
  BY DEF TakeRow, Ready
<1>2. /\ Head(writer[w].queue) = writer[w].queue[1] /\ writer[w].queue[1] \in Entries(w)
      /\ rest \in Seq(Entries(w)) /\ Len(writer[w].queue) \in Nat \ {0}
      /\ Len(rest) = Len(writer[w].queue) - 1
      /\ \A i \in 1 .. Len(rest) : rest[i] = writer[w].queue[i + 1]
  BY <1>1, PopFacts
<1>3. writer[w].queue[1] = Row(writer[w].queue[1][2]) /\ writer[w].queue[1][2] \in Feed(w)
  BY <1>1, <1>2, EntryFacts
<1>4. /\ writer[w].batch \in Seq(Feed(w)) /\ Len(writer[w].batch) \in Nat
      /\ writer[w] \in WriterRecords
  BY WriterParts DEF WriterShape
<1>5. /\ batch \in Seq(Feed(w)) /\ Len(batch) = Len(writer[w].batch) + 1
      /\ \A i \in 1 .. Len(writer[w].batch) : batch[i] = writer[w].batch[i]
      /\ batch[Len(writer[w].batch) + 1] = writer[w].queue[1][2]
  BY <1>2, <1>3, <1>4
<1> HIDE DEF rest, batch
<1>6. /\ v \in [st : {"running", "stopped", "failed", "cancelled"},
                queue : Seq(Entries(w)), batch : Seq(Feed(w)),
                held : {"none", "flush", "stale", "stop"}]
      /\ v.queue = rest /\ v.batch = batch /\ v.st = writer[w].st /\ v.held = writer[w].held
  BY <1>2, <1>4, <1>5 DEF WriterRecords
<1>7. w \in Persisters
  BY DEF Persisters
<1>8. /\ j \in [phase : Phases, rows : Seq(Feed(w)), base : Nat, written : [Collections -> Nat]]
      /\ j = NoJob \/ j = Persist(batch)
  BY <1>5, <1>7, JobValues
<1> HIDE DEF v, j
<1>9. /\ WriterShape' /\ writer'[w] = v /\ \A u \in Writers \ {w} : writer'[u] = writer[u]
  BY <1>1, <1>6, WriterSet
<1>10. /\ JobShape' /\ job'[w] = j /\ \A p \in Persisters \ {w} : job'[p] = job[p]
  BY <1>1, <1>7, <1>8, JobSet
<1>11. Popped(w) /\ SameBut(w, {"queue", "batch"})
  BY <1>2, <1>6, <1>9 DEF Popped, SameBut
<1>12. job'[w] = NoJob \/ job'[w] = Persist(writer'[w].batch)
  BY <1>6, <1>8, <1>9, <1>10
<1> QED
  BY <1>1, <1>3, <1>5, <1>6, <1>9, <1>10, <1>11, <1>12

LEMMA TakeCommandFacts ==
    ASSUME WriterShape, JobShape, NEW w \in Writers, TakeCommand(w)
    PROVE  /\ WriterShape' /\ JobShape'
           /\ Popped(w) /\ SameBut(w, {"queue", "held"})
           /\ writer[w].queue[1] \in Commands /\ writer'[w].held = writer[w].queue[1][1]
           /\ writer[w].st = "running" /\ job[w] = NoJob /\ writer[w].batch # <<>>
           /\ job'[w] = Persist(writer[w].batch)
           /\ \A u \in Writers \ {w} : writer'[u] = writer[u]
           /\ \A p \in Persisters \ {w} : job'[p] = job[p]
<1> DEFINE rest == Tail(writer[w].queue)
           held == Head(writer[w].queue)[1]
           v == [writer[w] EXCEPT !.queue = rest, !.held = held]
           j == Persist(writer[w].batch)
<1>1. /\ writer[w].st = "running" /\ job[w] = NoJob /\ writer[w].queue # <<>>
      /\ Head(writer[w].queue)[1] # "row" /\ writer[w].batch # <<>>
      /\ writer' = [writer EXCEPT ![w] = v] /\ job' = [job EXCEPT ![w] = j]
  BY DEF TakeCommand, Ready
<1>2. /\ Head(writer[w].queue) = writer[w].queue[1] /\ writer[w].queue[1] \in Entries(w)
      /\ rest \in Seq(Entries(w)) /\ Len(writer[w].queue) \in Nat \ {0}
      /\ Len(rest) = Len(writer[w].queue) - 1
      /\ \A i \in 1 .. Len(rest) : rest[i] = writer[w].queue[i + 1]
  BY <1>1, PopFacts
<1>3. /\ writer[w].queue[1] \in Commands /\ held = writer[w].queue[1][1]
      /\ held \in {"flush", "stale", "stop"}
  BY <1>1, <1>2, EntryFacts
<1>4. writer[w].batch \in Seq(Feed(w)) /\ writer[w] \in WriterRecords
  BY WriterParts DEF WriterShape
<1> HIDE DEF rest, held
<1>6. /\ v \in [st : {"running", "stopped", "failed", "cancelled"},
                queue : Seq(Entries(w)), batch : Seq(Feed(w)),
                held : {"none", "flush", "stale", "stop"}]
      /\ v.queue = rest /\ v.held = held /\ v.st = writer[w].st /\ v.batch = writer[w].batch
  BY <1>2, <1>3, <1>4 DEF WriterRecords
<1>7. w \in Persisters
  BY DEF Persisters
<1>8. j \in [phase : Phases, rows : Seq(Feed(w)), base : Nat, written : [Collections -> Nat]]
  BY <1>4, <1>7, JobValues
<1> HIDE DEF v, j
<1>9. /\ WriterShape' /\ writer'[w] = v /\ \A u \in Writers \ {w} : writer'[u] = writer[u]
  BY <1>1, <1>6, WriterSet
<1>10. /\ JobShape' /\ job'[w] = j /\ \A p \in Persisters \ {w} : job'[p] = job[p]
  BY <1>1, <1>7, <1>8, JobSet
<1>11. Popped(w) /\ SameBut(w, {"queue", "held"})
  BY <1>2, <1>6, <1>9 DEF Popped, SameBut
<1> QED
  BY <1>1, <1>3, <1>6, <1>9, <1>10, <1>11 DEF j

LEMMA TakeCommandOnEmptyFacts ==
    ASSUME WriterShape, JobShape, NEW w \in Writers, TakeCommandOnEmpty(w)
    PROVE  /\ WriterShape'
           /\ Popped(w) /\ SameBut(w, {"queue", "st"})
           /\ writer[w].queue[1] \in Commands
           /\ writer'[w].st = IF writer[w].queue[1] = Stop THEN "stopped" ELSE "running"
           /\ answer' = IF writer[w].queue[1] = Flush THEN "ok" ELSE answer
           /\ writer[w].st = "running" /\ job[w] = NoJob /\ writer[w].batch = <<>>
           /\ \A u \in Writers \ {w} : writer'[u] = writer[u]
<1> DEFINE rest == Tail(writer[w].queue)
           command == Head(writer[w].queue)[1]
           v == [[writer[w] EXCEPT !.queue = rest] EXCEPT
                    !.st = IF command = "stop" THEN "stopped" ELSE @]
<1>1. /\ writer[w].st = "running" /\ job[w] = NoJob /\ writer[w].queue # <<>>
      /\ Head(writer[w].queue)[1] # "row" /\ writer[w].batch = <<>>
      /\ writer' = [writer EXCEPT ![w] = v]
      /\ answer' = IF command = "flush" THEN "ok" ELSE answer
  BY DEF TakeCommandOnEmpty, Ready, Obey
<1>2. /\ Head(writer[w].queue) = writer[w].queue[1] /\ writer[w].queue[1] \in Entries(w)
      /\ rest \in Seq(Entries(w)) /\ Len(writer[w].queue) \in Nat \ {0}
      /\ Len(rest) = Len(writer[w].queue) - 1
      /\ \A i \in 1 .. Len(rest) : rest[i] = writer[w].queue[i + 1]
  BY <1>1, PopFacts
<1>3. /\ writer[w].queue[1] \in Commands /\ command = writer[w].queue[1][1]
      /\ command = "stop" <=> writer[w].queue[1] = Stop
      /\ command = "flush" <=> writer[w].queue[1] = Flush
  BY <1>1, <1>2, EntryFacts DEF Commands
<1>4. writer[w].batch \in Seq(Feed(w)) /\ writer[w] \in WriterRecords
  BY WriterParts DEF WriterShape
<1> HIDE DEF rest, command
<1>6. /\ v \in [st : {"running", "stopped", "failed", "cancelled"},
                queue : Seq(Entries(w)), batch : Seq(Feed(w)),
                held : {"none", "flush", "stale", "stop"}]
      /\ v.queue = rest /\ v.held = writer[w].held /\ v.batch = writer[w].batch
      /\ v.st = IF command = "stop" THEN "stopped" ELSE writer[w].st
  BY <1>2, <1>4 DEF WriterRecords
<1> HIDE DEF v
<1>9. /\ WriterShape' /\ writer'[w] = v /\ \A u \in Writers \ {w} : writer'[u] = writer[u]
  BY <1>1, <1>6, WriterSet
<1>11. Popped(w) /\ SameBut(w, {"queue", "st"})
  BY <1>2, <1>6, <1>9 DEF Popped, SameBut
<1> QED
  BY <1>1, <1>3, <1>6, <1>9, <1>11

LEMMA DeadlineFacts ==
    ASSUME WriterShape, JobShape, NEW w \in Writers, Deadline(w)
    PROVE  /\ JobShape' /\ writer[w].st = "running" /\ job[w] = NoJob
           /\ job'[w] = Persist(writer[w].batch)
           /\ \A p \in Persisters \ {w} : job'[p] = job[p]
<1>1. writer[w].batch \in Seq(Feed(w)) /\ w \in Persisters
  BY WriterParts DEF Persisters
<1>2. Persist(writer[w].batch) \in [phase : Phases, rows : Seq(Feed(w)), base : Nat,
                                    written : [Collections -> Nat]]
  BY <1>1, JobValues
<1>3. writer[w].st = "running" /\ job[w] = NoJob /\ job' = [job EXCEPT ![w] = Persist(writer[w].batch)]
  BY DEF Deadline
<1> HIDE DEF Persist
<1> QED
  BY <1>1, <1>2, <1>3, JobSet

LEMMA PersistedFacts ==
    ASSUME WriterShape, JobShape, NEW w \in Writers, Persisted(w)
    PROVE  /\ WriterShape' /\ JobShape' /\ Done(w)
           /\ SameBut(w, {"batch", "held", "st"})
           /\ writer'[w].batch = <<>> /\ writer'[w].held = "none"
           /\ writer'[w].st = IF writer[w].held = "stop" THEN "stopped" ELSE writer[w].st
           /\ answer' = IF writer[w].held = "flush" THEN "ok" ELSE answer
           /\ job'[w] = NoJob
           /\ \A u \in Writers \ {w} : writer'[u] = writer[u]
           /\ \A p \in Persisters \ {w} : job'[p] = job[p]
<1> DEFINE v == [[writer[w] EXCEPT !.batch = <<>>, !.held = "none"] EXCEPT
                    !.st = IF writer[w].held = "stop" THEN "stopped" ELSE @]
<1>1. /\ Done(w) /\ writer' = [writer EXCEPT ![w] = v] /\ job' = [job EXCEPT ![w] = NoJob]
      /\ answer' = IF writer[w].held = "flush" THEN "ok" ELSE answer
  BY DEF Persisted, Obey
<1>2. /\ writer[w].queue \in Seq(Entries(w)) /\ writer[w] \in WriterRecords
      /\ w \in Persisters /\ <<>> \in Seq(Feed(w))
  BY WriterParts, EmptySeq DEF WriterShape, Persisters
<1>3. /\ v \in [st : {"running", "stopped", "failed", "cancelled"},
                queue : Seq(Entries(w)), batch : Seq(Feed(w)),
                held : {"none", "flush", "stale", "stop"}]
      /\ v.queue = writer[w].queue /\ v.held = "none" /\ v.batch = <<>>
      /\ v.st = IF writer[w].held = "stop" THEN "stopped" ELSE writer[w].st
  BY <1>2 DEF WriterRecords
<1>4. NoJob \in [phase : Phases, rows : Seq(Feed(w)), base : Nat, written : [Collections -> Nat]]
  BY <1>2, JobValues
<1> HIDE DEF v
<1>5. /\ WriterShape' /\ writer'[w] = v /\ \A u \in Writers \ {w} : writer'[u] = writer[u]
  BY <1>1, <1>3, WriterSet
<1>6. /\ JobShape' /\ job'[w] = NoJob /\ \A p \in Persisters \ {w} : job'[p] = job[p]
  BY <1>1, <1>2, <1>4, JobSet
<1> QED
  BY <1>1, <1>3, <1>5, <1>6 DEF SameBut

LEMMA NewWriterFacts ==
    ASSUME NEW w \in Writers, NEW st \in {"running", "stopped", "failed", "cancelled"}
    PROVE  /\ [NewWriter EXCEPT !.st = st] \in
                [st : {"running", "stopped", "failed", "cancelled"},
                 queue : Seq(Entries(w)), batch : Seq(Feed(w)),
                 held : {"none", "flush", "stale", "stop"}]
           /\ [NewWriter EXCEPT !.st = st].queue = <<>> /\ [NewWriter EXCEPT !.st = st].batch = <<>>
           /\ [NewWriter EXCEPT !.st = st].st = st /\ [NewWriter EXCEPT !.st = st].held = "none"
<1>1. <<>> \in Seq(Entries(w)) /\ <<>> \in Seq(Feed(w))
  BY EmptySeq
<1> QED
  BY <1>1 DEF NewWriter

LEMMA WriterFailsFacts ==
    ASSUME WriterShape, JobShape, NEW w \in Writers, WriterFails(w)
    PROVE  /\ WriterShape' /\ JobShape' /\ job[w].phase = "failed"
           /\ writer'[w].queue = <<>> /\ writer'[w].batch = <<>> /\ writer'[w].held = "none"
           /\ writer'[w].st = "failed" /\ job'[w] = NoJob
           /\ answer' = answer \/ (answer' = "error" /\ \E i \in 1 .. Len(writer[w].queue) :
                                                          writer[w].queue[i] = Flush)
           /\ (\E i \in 1 .. Len(writer[w].queue) : writer[w].queue[i] = Flush) => answer' = "error"
           /\ \A u \in Writers \ {w} : writer'[u] = writer[u]
           /\ \A p \in Persisters \ {w} : job'[p] = job[p]
<1> DEFINE v == [NewWriter EXCEPT !.st = "failed"]
<1>1. /\ job[w].phase = "failed" /\ writer' = [writer EXCEPT ![w] = v]
      /\ job' = [job EXCEPT ![w] = NoJob]
      /\ answer' = IF Flush \in Range(writer[w].queue) THEN "error" ELSE answer
  BY DEF WriterFails
<1>2. Flush \in Range(writer[w].queue) <=>
        \E i \in 1 .. Len(writer[w].queue) : writer[w].queue[i] = Flush
  <2>1. DOMAIN writer[w].queue = 1 .. Len(writer[w].queue)
    BY WriterParts, LenProperties
  <2> QED
    BY <2>1 DEF Range
<1>3. NoJob \in [phase : Phases, rows : Seq(Feed(w)), base : Nat, written : [Collections -> Nat]]
  BY JobValues DEF Persisters
<1>4. /\ v \in [st : {"running", "stopped", "failed", "cancelled"},
                queue : Seq(Entries(w)), batch : Seq(Feed(w)),
                held : {"none", "flush", "stale", "stop"}]
      /\ v.queue = <<>> /\ v.held = "none" /\ v.batch = <<>> /\ v.st = "failed"
  BY NewWriterFacts
<1> HIDE DEF v
<1>5. /\ WriterShape' /\ writer'[w] = v /\ \A u \in Writers \ {w} : writer'[u] = writer[u]
  BY <1>1, <1>4, WriterSet
<1>6. /\ JobShape' /\ job'[w] = NoJob /\ \A p \in Persisters \ {w} : job'[p] = job[p]
  BY <1>1, <1>3, JobSet DEF Persisters
<1> QED
  BY <1>1, <1>2, <1>4, <1>5, <1>6

LEMMA SeqOfFunction ==
    ASSUME NEW S, NEW n \in Nat, NEW f \in [1 .. n -> S]
    PROVE  f \in Seq(S) /\ Len(f) = n
<1>1. f \in Seq(S)
  BY SeqDef
<1>2. Len(f) \in Nat /\ DOMAIN f = 1 .. Len(f)
  BY <1>1, LenProperties
<1>3. 1 .. n = 1 .. Len(f)
  BY <1>2
<1>4. Len(f) = n
  BY <1>2, <1>3
<1> QED
  BY <1>1, <1>4

LEMMA ItemsFacts ==
    ASSUME NEW q \in Seq(Sides)
    PROVE  /\ Items(q) \in Seq(Entries("side")) /\ Len(q) \in Nat /\ Len(Items(q)) = Len(q)
           /\ \A i \in 1 .. Len(q) : q[i] \in Sides /\ Items(q)[i] = Row(Side(q[i]))
<1>1. Len(q) \in Nat /\ DOMAIN q = 1 .. Len(q) /\ \A i \in 1 .. Len(q) : q[i] \in Sides
  BY LenProperties, ElementOfSeq
<1>2. \A s \in Sides : Row(Side(s)) \in Entries("side")
  BY DEF Entries, Feed, SideRows
<1>3. /\ Items(q) \in [1 .. Len(q) -> Entries("side")]
      /\ \A i \in 1 .. Len(q) : Items(q)[i] = Row(Side(q[i]))
  BY <1>1, <1>2 DEF Items
<1> QED
  BY <1>1, <1>3, SeqOfFunction

LEMMA PairFacts ==
    ASSUME NEW S, NEW x \in S, NEW y \in S
    PROVE  /\ <<x>> \o <<y>> \in Seq(S) /\ Len(<<x>> \o <<y>>) = 2
           /\ (<<x>> \o <<y>>)[1] = x /\ (<<x>> \o <<y>>)[2] = y
<1> DEFINE s == <<x>> t == <<y>> u == s \o t
<1>1. /\ s \in Seq(S) /\ t \in Seq(S) /\ Len(s) = 1 /\ Len(t) = 1 /\ s[1] = x /\ t[1] = y
  OBVIOUS
<1> HIDE DEF s, t
<1>2. /\ u \in Seq(S) /\ Len(u) = Len(s) + Len(t)
      /\ \A i \in 1 .. Len(s) + Len(t) : u[i] = IF i <= Len(s) THEN s[i] ELSE t[i - Len(s)]
  BY <1>1, ConcatProperties, Zenon
<1> HIDE DEF u
<1>3. u \in Seq(S) /\ Len(u) = 2 /\ u[1] = x /\ u[2] = y
  BY <1>1, <1>2
<1> QED
  BY <1>3 DEF s, t, u

\* The kernel's queue has a row more, and a flush after it.
Handed(row, flushed) ==
    /\ WriterShape' /\ JobShape' /\ SameBut("kernel", {"queue"})
    /\ writer'["side"] = writer["side"] /\ answer' = "none" /\ job' = job
    /\ Len(writer'["kernel"].queue) = Len(writer["kernel"].queue) + IF flushed THEN 2 ELSE 1
    /\ \A i \in 1 .. Len(writer["kernel"].queue) :
          writer'["kernel"].queue[i] = writer["kernel"].queue[i]
    /\ writer'["kernel"].queue[Len(writer["kernel"].queue) + 1] = Row(row)
    /\ flushed => writer'["kernel"].queue[Len(writer["kernel"].queue) + 2] = Flush

LEMMA HandFacts ==
    ASSUME WriterShape, JobShape, NEW row \in Feed("kernel"), NEW pc, Hand(row, pc)
    PROVE  Handed(row, pc # "stream")
<1> DEFINE items == <<Row(row)>> \o IF pc = "stream" THEN <<>> ELSE <<Flush>>
<1>1. Row(row) \in Entries("kernel") /\ Flush \in Entries("kernel")
  BY DEF Entries, Commands
<1>2. /\ <<Row(row)>> \in Seq(Entries("kernel")) /\ <<Flush>> \in Seq(Entries("kernel"))
      /\ <<>> \in Seq(Entries("kernel"))
  BY <1>1
<1>3. /\ items \in Seq(Entries("kernel")) /\ items[1] = Row(row)
      /\ Len(items) = IF pc # "stream" THEN 2 ELSE 1
      /\ pc # "stream" => items[2] = Flush
  <2>1. CASE pc = "stream"
    <3>1. items = <<Row(row)>>
      BY <1>2, <2>1, ConcatEmptySeq
    <3> QED
      BY <1>2, <2>1, <3>1
  <2>2. CASE pc # "stream"
    <3>1. items = <<Row(row)>> \o <<Flush>>
      BY <2>2
    <3> QED
      BY <1>1, <2>2, <3>1, PairFacts
  <2> QED
    BY <2>1, <2>2
<1>4. writer' = Enqueue("kernel", items) /\ answer' = "none" /\ job' = job
  BY DEF Hand
<1>5. "kernel" \in Writers /\ Writers \ {"kernel"} = {"side"}
  BY DEF Writers
<1> HIDE DEF items
<1>6. /\ WriterShape' /\ Pushed("kernel", items) /\ SameBut("kernel", {"queue"})
      /\ \A u \in Writers \ {"kernel"} : writer'[u] = writer[u]
  BY <1>3, <1>4, <1>5, EnqueueFacts
<1>7. Len(writer["kernel"].queue) \in Nat
  BY <1>5, WriterParts
<1> DEFINE n == Len(writer["kernel"].queue)
           q == writer'["kernel"].queue
<1>8. /\ Len(q) = n + Len(items)
      /\ \A i \in 1 .. n + Len(items) :
            q[i] = IF i <= n THEN writer["kernel"].queue[i] ELSE items[i - n]
  BY <1>6 DEF Pushed
<1> HIDE DEF n, q
<1>9. /\ Len(q) = n + IF pc # "stream" THEN 2 ELSE 1
      /\ \A i \in 1 .. n : q[i] = writer["kernel"].queue[i]
      /\ q[n + 1] = Row(row)
      /\ pc # "stream" => q[n + 2] = Flush
  <2>1. n \in Nat /\ (n + 1) - n = 1 /\ (n + 2) - n = 2
    BY <1>7 DEF n
  <2>2. \A i \in 1 .. n : q[i] = writer["kernel"].queue[i]
    BY <1>3, <1>8, <2>1
  <2>3. q[n + 1] = items[1]
    BY <1>3, <1>8, <2>1
  <2>4. pc # "stream" => q[n + 2] = items[2]
    BY <1>3, <1>8, <2>1
  <2> QED
    BY <1>3, <1>8, <2>2, <2>3, <2>4
<1>10. JobShape'
  BY <1>4 DEF JobShape
<1> QED
  BY <1>4, <1>5, <1>6, <1>9, <1>10 DEF n, q, Handed

RunnerRecords == [pc : Pcs, next : 1 .. Last + 1,
                  status : {"interrupted", "completed", "failed", "cancelled"},
                  aborted : BOOLEAN, kept : BOOLEAN]

LEMMA AbortFacts ==
    ASSUME WriterShape, JobShape, runner \in RunnerRecords, Abort
    PROVE  /\ runner' \in RunnerRecords /\ runner'.pc = "failing" /\ runner'.status = "failed"
           /\ runner'.kept = runner.kept /\ runner'.next = runner.next
           /\ WriterShape' /\ JobShape' /\ writer'["side"] = writer["side"]
           /\ writer'["kernel"].queue = <<>> /\ writer'["kernel"].batch = <<>>
           /\ writer'["kernel"].held = "none" /\ writer'["kernel"].st \in {"failed", "cancelled"}
           /\ job'["kernel"] = NoJob /\ job'["failure"] = Persist(<<Failure>>)
           /\ job'["side"] = job["side"] /\ job'["sweep"] = job["sweep"]
           /\ answer' = "none"
<1> DEFINE st == IF Failed("kernel") THEN "failed" ELSE "cancelled"
           v == [NewWriter EXCEPT !.st = st]
           j == Persist(<<Failure>>)
<1>1. /\ runner' \in RunnerRecords /\ runner'.pc = "failing" /\ runner'.status = "failed"
      /\ runner'.kept = runner.kept /\ runner'.next = runner.next
      /\ answer' = "none"
  BY DEF Abort, RunnerRecords, Pcs, Closing
<1>2. /\ writer' = [writer EXCEPT !["kernel"] = v]
      /\ job' = [[job EXCEPT !["kernel"] = NoJob] EXCEPT !["failure"] = j]
  BY DEF Abort
<1>3. /\ v \in [st : {"running", "stopped", "failed", "cancelled"},
                queue : Seq(Entries("kernel")), batch : Seq(Feed("kernel")),
                held : {"none", "flush", "stale", "stop"}]
      /\ v.queue = <<>> /\ v.held = "none" /\ v.batch = <<>> /\ v.st \in {"failed", "cancelled"}
  BY NewWriterFacts DEF Writers
<1>4. "kernel" \in Writers /\ Writers \ {"kernel"} = {"side"}
  BY DEF Writers
<1> HIDE DEF v
<1>5. WriterShape' /\ writer'["kernel"] = v /\ writer'["side"] = writer["side"]
  BY <1>2, <1>3, <1>4, WriterSet, ZenonT(40)
<1>6. <<Failure>> \in Seq(Feed("failure"))
  BY DEF Feed
<1>7. Persisters = {"kernel", "side", "failure", "sweep"}
  BY DEF Persisters, Writers
<1>8. /\ j \in [phase : Phases, rows : Seq(Feed("failure")), base : Nat,
                written : [Collections -> Nat]]
      /\ NoJob \in [phase : Phases, rows : Seq(Feed("kernel")), base : Nat,
                    written : [Collections -> Nat]]
  BY <1>6, <1>7, JobValues
<1>9. j \in JobRecords /\ NoJob \in JobRecords
  BY <1>6, <1>7, <1>8, RowFacts, SeqMonotonic DEF JobRecords
<1>10. j.rows \in Seq(Feed("failure")) /\ NoJob.rows \in Seq(Feed("kernel"))
  BY <1>8
<1> HIDE DEF j
<1>11. /\ job' \in [Persisters -> JobRecords]
       /\ job'["kernel"] = NoJob /\ job'["failure"] = j
       /\ job'["side"] = job["side"] /\ job'["sweep"] = job["sweep"]
  BY <1>2, <1>7, <1>9 DEF JobShape
<1>12. JobShape'
  BY <1>7, <1>10, <1>11 DEF JobShape
<1> QED
  BY <1>1, <1>3, <1>5, <1>11, <1>12 DEF j

\* What a cancelled runner leaves of a writer's commands.
Forgotten(v, u) ==
    /\ Len(v.queue) = Len(u.queue)
    /\ \A i \in 1 .. Len(u.queue) : v.queue[i] = IF u.queue[i] = Flush THEN Stale ELSE u.queue[i]
    /\ v.held = IF u.held = "flush" THEN "stale" ELSE u.held
    /\ v.st = u.st /\ v.batch = u.batch

LEMMA ForgetFacts ==
    ASSUME WriterShape, NEW w \in Writers
    PROVE  /\ Forgotten(Forget(w), writer[w])
           /\ Forget(w) \in [st : {"running", "stopped", "failed", "cancelled"},
                             queue : Seq(Entries(w)), batch : Seq(Feed(w)),
                             held : {"none", "flush", "stale", "stop"}]
<1> DEFINE q == [i \in DOMAIN writer[w].queue |->
                    IF writer[w].queue[i] = Flush THEN Stale ELSE writer[w].queue[i]]
           h == IF writer[w].held = "flush" THEN "stale" ELSE writer[w].held
<1>1. Forget(w) = [writer[w] EXCEPT !.queue = q, !.held = h]
  BY DEF Forget
<1>2. /\ writer[w].queue \in Seq(Entries(w)) /\ writer[w] \in WriterRecords
      /\ writer[w].batch \in Seq(Feed(w)) /\ h \in {"none", "flush", "stale", "stop"}
      /\ Len(writer[w].queue) \in Nat
      /\ \A i \in 1 .. Len(writer[w].queue) : writer[w].queue[i] \in Entries(w)
  BY WriterParts DEF WriterShape
<1>3. DOMAIN writer[w].queue = 1 .. Len(writer[w].queue)
  BY <1>2, LenProperties
<1>4. Stale \in Entries(w)
  BY DEF Entries, Commands
<1>5. /\ q \in [1 .. Len(writer[w].queue) -> Entries(w)]
      /\ \A i \in 1 .. Len(writer[w].queue) :
            q[i] = IF writer[w].queue[i] = Flush THEN Stale ELSE writer[w].queue[i]
  BY <1>2, <1>3, <1>4
<1>6. q \in Seq(Entries(w)) /\ Len(q) = Len(writer[w].queue)
  BY <1>2, <1>5, SeqOfFunction, SMTT(20)
<1> HIDE DEF q
<1>7. /\ Forget(w).queue = q /\ Forget(w).held = h /\ Forget(w).st = writer[w].st
      /\ Forget(w).batch = writer[w].batch
      /\ Forget(w) \in [st : {"running", "stopped", "failed", "cancelled"},
                        queue : Seq(Entries(w)), batch : Seq(Feed(w)),
                        held : {"none", "flush", "stale", "stop"}]
  BY <1>1, <1>2, <1>6 DEF WriterRecords
<1> QED
  BY <1>5, <1>6, <1>7 DEF Forgotten

\* v is the writer u with one more entry in its queue.
Extended(v, u, x) ==
    /\ Len(v.queue) = Len(u.queue) + 1
    /\ \A i \in 1 .. Len(u.queue) : v.queue[i] = u.queue[i]
    /\ v.queue[Len(u.queue) + 1] = x
    /\ v.batch = u.batch /\ v.held = u.held /\ v.st = u.st

LEMMA PushFacts ==
    ASSUME WriterShape, NEW w \in Writers, NEW x \in Entries(w), writer' = Enqueue(w, <<x>>)
    PROVE  /\ WriterShape' /\ Extended(writer'[w], writer[w], x)
           /\ \A u \in Writers \ {w} : writer'[u] = writer[u]
<1> DEFINE items == <<x>>
<1>2. items \in Seq(Entries(w)) /\ Len(items) = 1 /\ items[1] = x
  OBVIOUS
<1>3. writer' = Enqueue(w, items)
  OBVIOUS
<1> HIDE DEF items
<1>4. /\ WriterShape' /\ Pushed(w, items) /\ SameBut(w, {"queue"})
      /\ \A u \in Writers \ {w} : writer'[u] = writer[u]
  BY <1>2, <1>3, EnqueueFacts
<1>5. Len(writer[w].queue) \in Nat
  BY WriterParts
<1> DEFINE n == Len(writer[w].queue)
           q == writer'[w].queue
<1>6. /\ Len(q) = n + Len(items)
      /\ \A i \in 1 .. n + Len(items) :
            q[i] = IF i <= n THEN writer[w].queue[i] ELSE items[i - n]
  BY <1>4 DEF Pushed
<1> HIDE DEF n, q
<1>7. Len(q) = n + 1 /\ (\A i \in 1 .. n : q[i] = writer[w].queue[i]) /\ q[n + 1] = x
  <2>1. n \in Nat /\ (n + 1) - n = 1
    BY <1>5 DEF n
  <2> QED
    BY <1>2, <1>6, <2>1
<1> QED
  BY <1>4, <1>7 DEF n, q, Extended, SameBut

LEMMA RaisedFacts ==
    ASSUME NEW r \in RunnerRecords, NEW w \in Writers
    PROVE  /\ Raised(r, w) \in RunnerRecords /\ Raised(r, w).kept = FALSE
           /\ Raised(r, w).status = r.status /\ Raised(r, w).next = r.next
           /\ Raised(r, w).pc \in {"settling", "unsettled", "raised"}
BY DEF Raised, RunnerRecords, Pcs, Closing

LEMMA CloseFacts ==
    ASSUME NEW r \in RunnerRecords, NEW ws \in [Writers -> WriterRecords],
           \A w \in Writers : ws[w].batch \in Seq(Feed(w)) /\ ws[w].queue \in Seq(Entries(w)),
           Close(r, ws)
    PROVE  /\ WriterShape' /\ writer'["kernel"] = ws["kernel"]
           /\ runner' \in RunnerRecords
           /\ runner'.status = r.status /\ runner'.next = r.next
           /\ \/ writer'["side"] = ws["side"] /\ runner'.pc \in {"settling", "raised"}
                 /\ runner'.kept = FALSE
              \/ Extended(writer'["side"], ws["side"], Flush) /\ runner'.pc = "closeSide"
                 /\ runner'.kept = r.kept
           /\ answer' = "none"
           /\ channel' = [channel EXCEPT !.waiting = NoRows, !.unmarked = NoRows, !.closed = TRUE]
<1>1. CASE ws["side"].st = "failed"
  <2>1. runner' = Raised(r, "side") /\ writer' = ws
    BY <1>1 DEF Close
  <2>2. Raised(r, "side").pc \in {"settling", "raised"}
    BY DEF Raised, RunnerRecords
  <2> QED
    BY <2>1, <2>2, RaisedFacts DEF Close, WriterShape, Writers
<1>2. CASE ws["side"].st # "failed"
  <2> DEFINE q == Append(ws["side"].queue, Flush)
             v == [ws["side"] EXCEPT !.queue = q]
  <2>1. /\ runner' = [r EXCEPT !.pc = "closeSide"] /\ writer' = [ws EXCEPT !["side"] = v]
        /\ answer' = "none"
        /\ channel' = [channel EXCEPT !.waiting = NoRows, !.unmarked = NoRows, !.closed = TRUE]
    BY <1>2 DEF Close
  <2>2. Flush \in Entries("side") /\ "side" \in Writers /\ Writers = {"kernel", "side"}
    BY DEF Entries, Commands, Writers
  <2>3. ws["side"].queue \in Seq(Entries("side"))
    BY <2>2
  <2>4. /\ q \in Seq(Entries("side")) /\ Len(q) = Len(ws["side"].queue) + 1
        /\ \A i \in 1 .. Len(ws["side"].queue) : q[i] = ws["side"].queue[i]
        /\ q[Len(ws["side"].queue) + 1] = Flush
    BY <2>2, <2>3
  <2>5. q \in Seq(Queued)
    BY <2>2, <2>4, EntryFacts, SeqMonotonic
  <2>6. ws["side"] \in WriterRecords
    BY <2>2
  <2> HIDE DEF q
  <2>7. /\ v \in WriterRecords /\ v.queue = q /\ v.batch = ws["side"].batch
        /\ v.held = ws["side"].held /\ v.st = ws["side"].st
    BY <2>5, <2>6 DEF WriterRecords
  <2>8. Extended(v, ws["side"], Flush)
    BY <2>4, <2>7 DEF Extended
  <2> HIDE DEF v
  <2>9. /\ writer' \in [Writers -> WriterRecords] /\ writer'["side"] = v
        /\ writer'["kernel"] = ws["kernel"]
    BY <2>1, <2>2, <2>7
  <2>10. WriterShape'
    BY <2>2, <2>4, <2>7, <2>9 DEF WriterShape
  <2>11. /\ runner' \in RunnerRecords /\ runner'.status = r.status /\ runner'.next = r.next
         /\ runner'.kept = r.kept /\ runner'.pc = "closeSide"
    BY <2>1 DEF RunnerRecords, Pcs, Closing
  <2> QED
    BY <2>1, <2>8, <2>9, <2>10, <2>11
<1> QED
  BY <1>1, <1>2

ChannelShape ==
    /\ channel \in [known : SUBSET Starts, durable : SUBSET Browser,
                    waiting : [Starts -> Seq(Sides)], unmarked : [Starts -> Seq(Sides)],
                    history : SUBSET Sides, accepted : SUBSET Sides, closed : BOOLEAN]
    /\ channel.accepted \subseteq channel.history
DatabaseShape ==
    inbox \subseteq Rows /\ ordinal \in [Rows -> Nat] /\ counter \in Nat /\ cursor \in 0 .. Last
RunnerShape == runner \in RunnerRecords
AnswerShape == answer \in {"none", "ok", "error"}
SideShape == side \in [Sides -> {"new", "published", "refused"}]

Shape ==
    /\ RunnerShape /\ AnswerShape /\ ChannelShape /\ SideShape
    /\ WriterShape /\ JobShape /\ DatabaseShape

LEMMA ShapeIsType == Shape <=> TypeOK /\ Fed
BY DEF Shape, TypeOK, Fed, RunnerShape, AnswerShape, ChannelShape, SideShape, WriterShape,
       JobShape, DatabaseShape, RunnerRecords, WriterRecords, JobRecords, Writers, Persisters

LEMMA RangeOfSides ==
    ASSUME NEW q \in Seq(Sides)
    PROVE  Range(q) \subseteq Sides /\ Range(q) = {q[i] : i \in 1 .. Len(q)}
<1>1. DOMAIN q = 1 .. Len(q) /\ \A i \in 1 .. Len(q) : q[i] \in Sides
  BY LenProperties, ElementOfSeq
<1> QED
  BY <1>1 DEF Range

LEMMA NoRowsShape == NoRows \in [Starts -> Seq(Sides)]
  BY EmptySeq DEF NoRows

LEMMA KnownFacts ==
    ASSUME ChannelShape, NEW e \in Nat, channel' = Known(e)
    PROVE  /\ ChannelShape'
           /\ channel'.durable = channel.durable /\ channel'.accepted = channel.accepted
           /\ channel'.closed = channel.closed /\ channel.history \subseteq channel'.history
           /\ e \in Starts =>
                /\ channel'.waiting = [channel.waiting EXCEPT ![e] = <<>>]
                /\ channel'.unmarked = [channel.unmarked EXCEPT ![e] = @ \o channel.waiting[e]]
                /\ channel'.history = channel.history \cup Range(channel.waiting[e])
           /\ e \notin Starts => channel' = channel
<1>1. CASE e \notin Starts
  BY <1>1 DEF Known, ChannelShape
<1>2. CASE e \in Starts
  <2> DEFINE waiting == [channel.waiting EXCEPT ![e] = <<>>]
             more == channel.unmarked[e] \o channel.waiting[e]
             unmarked == [channel.unmarked EXCEPT ![e] = more]
             history == channel.history \cup Range(channel.waiting[e])
  <2>1. channel' = [channel EXCEPT !.known = @ \cup {e}, !.waiting = waiting,
                                   !.unmarked = unmarked, !.history = history]
    BY <1>2 DEF Known
  <2>2. /\ channel.waiting \in [Starts -> Seq(Sides)] /\ channel.unmarked \in [Starts -> Seq(Sides)]
        /\ channel.history \subseteq Sides
    BY DEF ChannelShape
  <2>3. channel.waiting[e] \in Seq(Sides) /\ channel.unmarked[e] \in Seq(Sides)
    BY <1>2, <2>2
  <2>4. more \in Seq(Sides)
    BY <2>3, ConcatProperties
  <2>5. waiting \in [Starts -> Seq(Sides)]
    BY <2>2, EmptySeq
  <2> HIDE DEF more, waiting
  <2>6. unmarked \in [Starts -> Seq(Sides)]
    BY <2>2, <2>4
  <2>7. history \subseteq Sides
    BY <2>2, <2>3, RangeOfSides
  <2> HIDE DEF unmarked
  <2>8. channel.history \subseteq history
    OBVIOUS
  <2> HIDE DEF history
  <2> DEFINE known == channel.known \cup {e}
  <2>9. known \in SUBSET Starts
    BY <1>2 DEF ChannelShape
  <2>10. channel' = [channel EXCEPT !.known = known, !.waiting = waiting,
                                    !.unmarked = unmarked, !.history = history]
    BY <2>1
  <2> HIDE DEF known
  <2>11. /\ channel' \in [known : SUBSET Starts, durable : SUBSET Browser,
                          waiting : [Starts -> Seq(Sides)], unmarked : [Starts -> Seq(Sides)],
                          history : SUBSET Sides, accepted : SUBSET Sides, closed : BOOLEAN]
         /\ channel'.durable = channel.durable /\ channel'.accepted = channel.accepted
         /\ channel'.closed = channel.closed
         /\ channel'.waiting = waiting /\ channel'.unmarked = unmarked
         /\ channel'.history = history
    BY <2>5, <2>6, <2>7, <2>9, <2>10 DEF ChannelShape
  <2>12. channel.accepted \subseteq channel.history
    BY DEF ChannelShape
  <2> QED
    BY <1>2, <2>8, <2>11, <2>12 DEF waiting, unmarked, more, history, ChannelShape
<1> QED
  BY <1>1, <1>2

LEMMA PublishFacts ==
    ASSUME ChannelShape, WriterShape, SideShape, NEW s \in Sides, Publish(s)
    PROVE  /\ ChannelShape' /\ WriterShape' /\ SideShape'
           /\ writer'["kernel"] = writer["kernel"]
           /\ channel.closed = FALSE /\ channel'.closed = FALSE
           /\ channel'.durable = channel.durable /\ channel.history \subseteq channel'.history
           /\ \/ writer' = writer /\ channel'.accepted = channel.accepted
              \/ /\ Extended(writer'["side"], writer["side"], Row(Side(s)))
                 /\ channel'.accepted = channel.accepted \cup {s}
                 /\ Parent[s] \in channel.durable \cup {None}
           /\ \/ /\ channel'.waiting = channel.waiting
                 /\ channel'.unmarked = channel.unmarked
              \/ /\ Parent[s] \in Starts
                 /\ channel'.waiting = [channel.waiting EXCEPT ![Parent[s]] = Append(@, s)]
                 /\ channel'.unmarked = channel.unmarked
              \/ /\ Parent[s] \in Starts /\ s \in channel'.history
                 /\ channel'.waiting = channel.waiting
                 /\ channel'.unmarked = [channel.unmarked EXCEPT ![Parent[s]] = Append(@, s)]
<1> DEFINE e == Parent[s]
           history == channel.history \cup {s}
           accepted == channel.accepted \cup {s}
           waiting == [channel.waiting EXCEPT ![e] = Append(channel.waiting[e], s)]
           unmarked == [channel.unmarked EXCEPT ![e] = Append(channel.unmarked[e], s)]
<1>1. e \in Starts \cup {None} /\ ~channel.closed
  BY ParentAssumption DEF Publish
<1>2. /\ channel \in [known : SUBSET Starts, durable : SUBSET Browser,
                     waiting : [Starts -> Seq(Sides)], unmarked : [Starts -> Seq(Sides)],
                     history : SUBSET Sides, accepted : SUBSET Sides, closed : BOOLEAN]
      /\ channel.accepted \subseteq channel.history
  BY DEF ChannelShape
<1>3. channel.closed = FALSE
  BY <1>1, <1>2
<1>4. /\ history \in SUBSET Sides /\ accepted \in SUBSET Sides
      /\ accepted \subseteq history /\ channel.accepted \subseteq history
      /\ channel.history \subseteq history /\ s \in history
  BY <1>2
<1>5. ASSUME e \in Starts
      PROVE  waiting \in [Starts -> Seq(Sides)] /\ unmarked \in [Starts -> Seq(Sides)]
  <2>1. channel.waiting[e] \in Seq(Sides) /\ channel.unmarked[e] \in Seq(Sides)
    BY <1>2, <1>5
  <2>2. /\ Append(channel.waiting[e], s) \in Seq(Sides)
        /\ Append(channel.unmarked[e], s) \in Seq(Sides)
    BY <2>1
  <2> QED
    BY <1>2, <2>2
<1>6. SideShape'
  BY DEF Publish, SideShape
<1> HIDE DEF history, accepted, waiting, unmarked
<1>7. CASE e # None /\ e \notin channel.known /\ writer' = writer
           /\ channel' = [channel EXCEPT !.waiting = waiting]
  BY <1>1, <1>2, <1>3, <1>5, <1>6, <1>7 DEF ChannelShape, waiting, WriterShape
<1>8. CASE e \in channel.known \ channel.durable /\ writer' = writer
           /\ channel' = [channel EXCEPT !.unmarked = unmarked, !.history = history]
  <2>1. e \in Starts
    BY <1>2, <1>8
  <2> QED
    BY <1>2, <1>3, <1>4, <1>5, <1>6, <1>8, <2>1 DEF ChannelShape, unmarked, WriterShape
<1>9. CASE e \in channel.durable \cup {None} /\ writer' = Enqueue("side", Items(<<s>>))
           /\ channel' = [channel EXCEPT !.history = history, !.accepted = accepted]
  <2> DEFINE one == <<s>>
             q == Items(one)
  <2>0. one \in Seq(Sides) /\ Len(one) = 1 /\ one[1] = s
    OBVIOUS
  <2> HIDE DEF one
  <2>1. /\ q \in Seq(Entries("side")) /\ Len(q) = 1 /\ q[1] = Row(Side(s))
    BY <2>0, ItemsFacts
  <2>2. Row(Side(s)) \in Entries("side")
    BY DEF Entries, Feed, SideRows
  <2> DEFINE t == <<Row(Side(s))>>
  <2>3. t \in Seq(Entries("side")) /\ Len(t) = 1 /\ t[1] = Row(Side(s))
    BY <2>2
  <2>4. q = t
    <3> HIDE DEF q, t
    <3>1. \A i \in 1 .. Len(q) : q[i] = t[i]
      BY <2>1, <2>3
    <3> QED
      BY <2>1, <2>3, <3>1, SeqEqual
  <2>5. writer' = Enqueue("side", <<Row(Side(s))>>)
    BY <1>9, <2>4 DEF one
  <2>6. "side" \in Writers /\ "kernel" \in Writers \ {"side"}
    BY DEF Writers
  <2>7. /\ WriterShape' /\ Extended(writer'["side"], writer["side"], Row(Side(s)))
        /\ writer'["kernel"] = writer["kernel"]
    BY <2>2, <2>5, <2>6, PushFacts
  <2>8. /\ ChannelShape' /\ channel'.closed = FALSE /\ channel'.durable = channel.durable
        /\ channel'.history = history /\ channel'.accepted = accepted
        /\ channel'.waiting = channel.waiting /\ channel'.unmarked = channel.unmarked
    BY <1>2, <1>3, <1>4, <1>9 DEF ChannelShape
  <2> QED
    BY <1>3, <1>4, <1>6, <1>9, <2>7, <2>8 DEF accepted
<1>10. CASE e \in channel.durable \cup {None} /\ writer' = writer
            /\ channel' = [channel EXCEPT !.history = history]
  BY <1>2, <1>3, <1>4, <1>6, <1>10 DEF ChannelShape, WriterShape
<1> QED
  BY <1>7, <1>8, <1>9, <1>10 DEF Publish, history, accepted, waiting, unmarked

LEMMA ParentFlushedFacts ==
    ASSUME RunnerShape, ChannelShape, WriterShape, JobShape, runner.next - 1 \in Browser,
           Range(channel.unmarked[runner.next - 1]) \subseteq channel.history,
           ParentFlushed
    PROVE  /\ RunnerShape' /\ ChannelShape' /\ WriterShape' /\ JobShape'
           /\ channel'.durable = channel.durable \cup {runner.next - 1}
           /\ channel'.waiting = channel.waiting /\ channel'.history = channel.history
           /\ channel'.unmarked = [channel.unmarked EXCEPT ![runner.next - 1] = <<>>]
           /\ channel'.closed = channel.closed
           /\ answer' = "none"
           /\ \/ /\ runner' = [runner EXCEPT !.pc = "stream"]
                 /\ writer'["kernel"] = writer["kernel"] /\ job' = job
                 /\ Pushed("side", Items(channel.unmarked[runner.next - 1]))
                 /\ SameBut("side", {"queue"})
                 /\ channel'.accepted = channel.accepted
                                        \cup Range(channel.unmarked[runner.next - 1])
              \/ Abort /\ channel'.accepted = channel.accepted
<1> DEFINE e == runner.next - 1
           rows == channel.unmarked[e]
           durable == channel.durable \cup {e}
           unmarked == [channel.unmarked EXCEPT ![e] = <<>>]
           accepted == channel.accepted \cup Range(rows)
           marked == [channel EXCEPT !.durable = durable, !.unmarked = unmarked]
<1>1. e \in Browser /\ e \in Starts
  BY StartsAssumption
<1>2. /\ channel \in [known : SUBSET Starts, durable : SUBSET Browser,
                     waiting : [Starts -> Seq(Sides)], unmarked : [Starts -> Seq(Sides)],
                     history : SUBSET Sides, accepted : SUBSET Sides, closed : BOOLEAN]
      /\ channel.accepted \subseteq channel.history
  BY DEF ChannelShape
<1>3. rows \in Seq(Sides)
  BY <1>1, <1>2
<1>4. /\ durable \in SUBSET Browser /\ unmarked \in [Starts -> Seq(Sides)]
  BY <1>1, <1>2, EmptySeq
<1>5. \/ /\ channel' = [marked EXCEPT !.accepted = accepted]
         /\ writer' = Enqueue("side", Items(rows))
         /\ runner' = [runner EXCEPT !.pc = "stream"]
         /\ answer' = "none" /\ job' = job
      \/ channel' = marked /\ Abort
  BY <1>2 DEF ParentFlushed
<1> HIDE DEF e, rows, durable, unmarked
<1>6. CASE channel' = marked /\ Abort
  <2>1. /\ ChannelShape' /\ channel'.durable = durable /\ channel'.closed = channel.closed
        /\ channel'.history = channel.history /\ channel'.accepted = channel.accepted
        /\ channel'.waiting = channel.waiting /\ channel'.unmarked = unmarked
    BY <1>2, <1>4, <1>6 DEF ChannelShape
  <2> QED
    BY <1>6, <2>1, AbortFacts DEF RunnerShape, e, durable, unmarked
<1>7. CASE /\ channel' = [marked EXCEPT !.accepted = accepted]
           /\ writer' = Enqueue("side", Items(rows))
           /\ runner' = [runner EXCEPT !.pc = "stream"]
           /\ answer' = "none" /\ job' = job
  <2>1. "side" \in Writers /\ "kernel" \in Writers \ {"side"}
    BY DEF Writers
  <2>2. /\ WriterShape' /\ Pushed("side", Items(rows)) /\ SameBut("side", {"queue"})
        /\ writer'["kernel"] = writer["kernel"]
    BY <1>3, <1>7, <2>1, ItemsFacts, EnqueueFacts
  <2>3. RunnerShape' /\ JobShape'
    BY <1>7 DEF RunnerShape, RunnerRecords, Pcs, JobShape
  <2>4. accepted \in SUBSET Sides /\ accepted \subseteq channel.history
    BY <1>2, <1>3, RangeOfSides DEF e, rows
  <2> HIDE DEF accepted
  <2>5. /\ channel' \in [known : SUBSET Starts, durable : SUBSET Browser,
                     waiting : [Starts -> Seq(Sides)], unmarked : [Starts -> Seq(Sides)],
                     history : SUBSET Sides, accepted : SUBSET Sides, closed : BOOLEAN]
        /\ channel'.durable = durable /\ channel'.closed = channel.closed
        /\ channel'.history = channel.history /\ channel'.accepted = accepted
        /\ channel'.waiting = channel.waiting /\ channel'.unmarked = unmarked
    BY <1>2, <1>4, <1>7, <2>4 DEF ChannelShape
  <2> QED
    <3>1. ChannelShape'
      BY <2>4, <2>5 DEF ChannelShape
    <3> QED
      BY <1>7, <2>2, <2>3, <2>5, <3>1 DEF e, durable, unmarked, rows, accepted
<1> QED
  BY <1>5, <1>6, <1>7

OtherJobs(p) == \A q \in Persisters \ {p} : job'[q] = job[q]

LEMMA ReserveFacts ==
    ASSUME JobShape, DatabaseShape, NEW p \in Persisters, Reserve(p)
    PROVE  /\ JobShape' /\ DatabaseShape' /\ OtherJobs(p)
           /\ job[p].phase = "reserve" /\ job'[p].phase = "write"
           /\ job'[p].rows = job[p].rows /\ job'[p].written = job[p].written
           /\ job'[p].base = counter + 1 /\ counter' = counter + Len(job[p].rows)
<1> DEFINE base == counter + 1
           v == [job[p] EXCEPT !.phase = "write", !.base = base]
<1>0. base \in Nat
  BY DEF DatabaseShape
<1>1. /\ job[p].phase = "reserve" /\ job' = [job EXCEPT ![p] = v]
      /\ counter' = counter + Len(job[p].rows)
      /\ UNCHANGED <<inbox, ordinal, cursor>>
  BY DEF Reserve
<1> HIDE DEF base
<1>2. job[p] \in JobRecords /\ job[p].rows \in Seq(Feed(p)) /\ Len(job[p].rows) \in Nat
  BY JobParts DEF JobShape
<1>3. /\ v \in [phase : Phases, rows : Seq(Feed(p)), base : Nat, written : [Collections -> Nat]]
      /\ v.phase = "write" /\ v.rows = job[p].rows /\ v.written = job[p].written
      /\ v.base = base
  BY <1>0, <1>2 DEF JobRecords, Phases
<1> HIDE DEF v
<1>4. JobShape' /\ job'[p] = v /\ OtherJobs(p)
  BY <1>1, <1>3, JobSet DEF OtherJobs
<1>5. DatabaseShape'
  BY <1>1, <1>2 DEF DatabaseShape
<1> QED
  BY <1>1, <1>3, <1>4, <1>5 DEF base

\* One more row of p is in the collection c.
OneWritten(p, c) ==
    /\ OtherJobs(p)
    /\ job[p].phase = "write" /\ job'[p].phase = "write"
    /\ job[p].written[c] < Len(job[p].rows)
    /\ job'[p].rows = job[p].rows /\ job'[p].base = job[p].base
    /\ job'[p].written[c] = job[p].written[c] + 1
    /\ \A d \in Collections \ {c} : job'[p].written[d] = job[p].written[d]
    /\ Current(p, c) = job[p].rows[job[p].written[c] + 1] /\ Current(p, c) \in Feed(p)

LEMMA WrittenFacts ==
    ASSUME JobShape, NEW p \in Persisters, NEW c \in Collections, Writing(p, c), Written(p, c)
    PROVE  JobShape' /\ OneWritten(p, c)
<1> DEFINE n == job[p].written[c] + 1
           written == [job[p].written EXCEPT ![c] = n]
           v == [job[p] EXCEPT !.written = written]
<1>1. job' = [job EXCEPT ![p] = v] /\ job[p].phase = "write"
      /\ job[p].written[c] < Len(job[p].rows)
  BY DEF Written, Writing
<1>2. /\ job[p] \in JobRecords /\ job[p].rows \in Seq(Feed(p)) /\ Len(job[p].rows) \in Nat
      /\ job[p].written \in [Collections -> Nat]
      /\ \A i \in 1 .. Len(job[p].rows) : job[p].rows[i] \in Feed(p)
  BY JobParts DEF JobShape
<1>3. /\ written \in [Collections -> Nat] /\ written[c] = n
      /\ \A d \in Collections \ {c} : written[d] = job[p].written[d]
  BY <1>2
<1>4. n \in 1 .. Len(job[p].rows)
  BY <1>1, <1>2
<1> HIDE DEF n, written
<1>5. /\ v \in [phase : Phases, rows : Seq(Feed(p)), base : Nat, written : [Collections -> Nat]]
      /\ v.phase = "write" /\ v.rows = job[p].rows /\ v.written = written
      /\ v.base = job[p].base
  BY <1>1, <1>2, <1>3 DEF JobRecords
<1> HIDE DEF v
<1>6. JobShape' /\ job'[p] = v /\ OtherJobs(p)
  BY <1>1, <1>5, JobSet DEF OtherJobs
<1>7. Current(p, c) = job[p].rows[n] /\ Current(p, c) \in Feed(p)
  BY <1>2, <1>4 DEF Current, n
<1> QED
  BY <1>1, <1>3, <1>5, <1>6, <1>7 DEF OneWritten, n

LEMMA WriteInboxFacts ==
    ASSUME JobShape, DatabaseShape, NEW p \in Persisters, WriteInbox(p)
    PROVE  /\ JobShape' /\ DatabaseShape' /\ OneWritten(p, "inbox") /\ p # "side"
           /\ inbox' = inbox \cup {Current(p, "inbox")}
<1>1. JobShape' /\ OneWritten(p, "inbox")
  BY WrittenFacts DEF WriteInbox, Collections
<1>2. Current(p, "inbox") \in Rows
  BY <1>1, RowFacts DEF OneWritten
<1> QED
  BY <1>1, <1>2 DEF WriteInbox, DatabaseShape

LEMMA WriteProjectionFacts ==
    ASSUME JobShape, DatabaseShape, NEW p \in Persisters, WriteProjection(p)
    PROVE  /\ JobShape' /\ DatabaseShape' /\ OneWritten(p, "projections")
           /\ \A r \in Rows : ordinal'[r] =
                IF r = Current(p, "projections") /\ ordinal[r] = 0
                THEN job[p].base + job[p].written["projections"] ELSE ordinal[r]
<1>1. JobShape' /\ OneWritten(p, "projections")
  BY WrittenFacts DEF WriteProjection, Collections
<1>2. Current(p, "projections") \in Rows
  BY <1>1, RowFacts DEF OneWritten
<1>3. job[p].base + job[p].written["projections"] \in Nat
  BY JobParts DEF Collections
<1> QED
  BY <1>1, <1>2, <1>3 DEF WriteProjection, DatabaseShape

LEMMA AdvanceCursorFacts ==
    ASSUME JobShape, DatabaseShape, NEW p \in Persisters, AdvanceCursor(p)
    PROVE  /\ JobShape' /\ DatabaseShape' /\ OtherJobs(p)
           /\ p \in {"kernel", "sweep"} /\ Gathered(p)
           /\ job'[p] = [NoJob EXCEPT !.phase = "done"]
           /\ cursor <= cursor'
           /\ \A i \in 1 .. Len(job[p].rows) : \A e \in Slots(job[p].rows[i]) : e <= cursor'
           /\ cursor' = cursor \/ \E i \in 1 .. Len(job[p].rows) : cursor' \in Slots(job[p].rows[i])
<1> DEFINE S == {cursor} \cup UNION {Slots(r) : r \in Range(job[p].rows)}
           j == [NoJob EXCEPT !.phase = "done"]
<1>1. /\ p \in {"kernel", "sweep"} /\ Gathered(p) /\ cursor' = Max(S)
      /\ job' = [job EXCEPT ![p] = j] /\ UNCHANGED <<inbox, ordinal, counter>>
  BY DEF AdvanceCursor
<1>2. /\ job[p].rows \in Seq(Feed(p))
      /\ \A i \in 1 .. Len(job[p].rows) : job[p].rows[i] \in Rows
  BY JobParts, RowFacts
<1>3. Range(job[p].rows) = {job[p].rows[i] : i \in 1 .. Len(job[p].rows)}
  BY <1>2, LenProperties DEF Range
<1>4. S \subseteq 0 .. Last /\ S # {}
  BY <1>2, <1>3, RowFacts DEF DatabaseShape
<1>5. \A x : x \in S <=> x = cursor \/ \E i \in 1 .. Len(job[p].rows) : x \in Slots(job[p].rows[i])
  BY <1>3
<1> HIDE DEF S
<1>6. cursor' \in S /\ \A x \in S : x <= cursor'
  BY <1>1, <1>4, MaxFacts
<1>7. j \in [phase : Phases, rows : Seq(Feed(p)), base : Nat, written : [Collections -> Nat]]
  BY JobValues DEF Phases
<1> HIDE DEF j
<1>8. JobShape' /\ OtherJobs(p) /\ job'[p] = j
  BY <1>1, <1>7, JobSet DEF OtherJobs
<1>9. DatabaseShape'
  BY <1>1, <1>4, <1>6 DEF DatabaseShape
<1> QED
  BY <1>1, <1>5, <1>6, <1>8, <1>9 DEF j

LEMMA PersistFailsFacts ==
    ASSUME JobShape, NEW p \in Persisters, PersistFails(p)
    PROVE  /\ JobShape' /\ OtherJobs(p) /\ Active(p)
           /\ job'[p] = [NoJob EXCEPT !.phase = "failed"]
<1>1. [NoJob EXCEPT !.phase = "failed"] \in
         [phase : Phases, rows : Seq(Feed(p)), base : Nat, written : [Collections -> Nat]]
  BY JobValues DEF Phases
<1> DEFINE j == [NoJob EXCEPT !.phase = "failed"]
<1>2. job' = [job EXCEPT ![p] = j] /\ Active(p)
  BY DEF PersistFails, Active
<1> HIDE DEF j
<1>3. JobShape' /\ OtherJobs(p) /\ job'[p] = j
  BY <1>1, <1>2, JobSet DEF OtherJobs, j
<1> QED
  BY <1>2, <1>3 DEF j

LEMMA JobEndFacts ==
    ASSUME JobShape, NEW p \in Persisters, job' = [job EXCEPT ![p] = NoJob]
    PROVE  JobShape' /\ OtherJobs(p) /\ job'[p] = NoJob
<1>1. NoJob \in [phase : Phases, rows : Seq(Feed(p)), base : Nat, written : [Collections -> Nat]]
  BY JobValues
<1> QED
  BY <1>1, JobSet DEF OtherJobs

LEMMA IngestFacts ==
    ASSUME JobShape, DatabaseShape, Ingest
    PROVE  /\ JobShape' /\ OtherJobs("sweep") /\ job["sweep"] = NoJob
           /\ \E n \in 1 .. Last - cursor : \E rows \in Seq(Natives) :
                /\ job'["sweep"] = Persist(rows) /\ Len(rows) = n
                /\ \A i \in 1 .. n : rows[i] = Native(cursor + i)
<1>1. PICK n \in 1 .. Last - cursor :
         job' = [job EXCEPT !["sweep"] = Persist([i \in 1 .. n |-> Native(cursor + i)])]
  BY DEF Ingest
<1> DEFINE rows == [i \in 1 .. n |-> Native(cursor + i)]
           j == Persist(rows)
<1>2. \A i \in 1 .. n : rows[i] = Native(cursor + i) /\ rows[i] \in Natives
  BY LastAssumption DEF DatabaseShape, Natives
<1>3. rows \in [1 .. n -> Natives] /\ n \in Nat
  BY <1>2, LastAssumption DEF DatabaseShape
<1>4. rows \in Seq(Natives) /\ Len(rows) = n
  BY <1>3, SeqOfFunction
<1>5. job' = [job EXCEPT !["sweep"] = j] /\ job["sweep"] = NoJob
  BY <1>1 DEF Ingest
<1> HIDE DEF rows
<1>6. "sweep" \in Persisters /\ Feed("sweep") = Natives
  BY DEF Persisters, Feed
<1>7. j \in [phase : Phases, rows : Seq(Feed("sweep")), base : Nat, written : [Collections -> Nat]]
  BY <1>4, <1>6, JobValues
<1> HIDE DEF j
<1>8. JobShape' /\ OtherJobs("sweep") /\ job'["sweep"] = j
  BY <1>5, <1>6, <1>7, JobSet DEF OtherJobs
<1> QED
  BY <1>2, <1>4, <1>5, <1>8 DEF j

------------------------------------------------------------------------------
(* What the runner's steps do.                                             *)

\* The writers and the kernel's job as an abort leaves them.
Emptied(w) ==
    /\ writer'[w].queue = <<>> /\ writer'[w].batch = <<>> /\ writer'[w].held = "none"
    /\ writer'[w].st \in {"failed", "cancelled"}
Aborted ==
    /\ RunnerShape' /\ WriterShape' /\ JobShape' /\ answer' = "none"
    /\ runner'.pc = "failing" /\ runner'.status = "failed"
    /\ runner'.kept = runner.kept /\ runner'.next = runner.next
    /\ writer'["side"] = writer["side"] /\ Emptied("kernel")
    /\ job'["kernel"] = NoJob /\ job'["failure"] = Persist(<<Failure>>)
    /\ job'["side"] = job["side"] /\ job'["sweep"] = job["sweep"]
Runs(pc, next, status) ==
    /\ RunnerShape' /\ runner'.pc = pc /\ runner'.next = next /\ runner'.status = status

LEMMA AbortIs ==
    ASSUME RunnerShape, WriterShape, JobShape, Abort
    PROVE  Aborted
BY AbortFacts DEF Aborted, Emptied, RunnerShape

LEMMA ReceiveFacts ==
    ASSUME Shape, Receive
    PROVE  /\ runner.pc = "stream" /\ runner.next \in 1 .. Last
           /\ channel' = Known(runner.next) /\ UNCHANGED <<side, database>>
           /\ \/ \E pc \in {"stream", "parent", "end"} :
                  /\ pc = "end" <=> runner.next = Last
                  /\ pc = "parent" => runner.next \in Browser
                  /\ Runs(pc, runner.next + 1,
                          IF runner.next = Last THEN "completed" ELSE runner.status)
                  /\ runner'.kept = runner.kept
                  /\ Handed(Native(runner.next), pc # "stream")
                  /\ ~Failed("kernel")
              \/ Aborted
<1> DEFINE e == runner.next
           pc == IF e = Last THEN "end" ELSE IF e \in Browser THEN "parent" ELSE "stream"
<1>1. /\ runner.pc = "stream" /\ e <= Last /\ channel' = Known(e) /\ UNCHANGED <<side, database>>
      /\ \/ /\ runner' = [runner EXCEPT !.pc = pc, !.next = e + 1,
                                        !.status = IF e = Last THEN "completed" ELSE @]
            /\ Hand(Native(e), pc) /\ ~Failed("kernel")
         \/ Abort
  BY DEF Receive
<1>2. runner \in RunnerRecords /\ e \in 1 .. Last /\ WriterShape /\ JobShape
  BY <1>1, LastAssumption DEF Shape, RunnerShape, RunnerRecords
<1>3. CASE Abort
  BY <1>1, <1>2, <1>3, AbortIs DEF RunnerShape
<1>4. CASE /\ runner' = [runner EXCEPT !.pc = pc, !.next = e + 1,
                                       !.status = IF e = Last THEN "completed" ELSE @]
           /\ Hand(Native(e), pc) /\ ~Failed("kernel")
  <2>1. Native(e) \in Feed("kernel")
    BY <1>2 DEF Feed, Natives
  <2>2. Handed(Native(e), pc # "stream")
    BY <1>2, <1>4, <2>1, HandFacts
  <2>3. /\ pc \in {"stream", "parent", "end"} /\ (pc = "end" <=> e = Last)
        /\ pc = "parent" => e \in Browser
    OBVIOUS
  <2> HIDE DEF pc
  <2>4. pc \in Pcs /\ e + 1 \in 1 .. Last + 1
    BY <1>2, <2>3, LastAssumption DEF Pcs
  <2> DEFINE n == e + 1
             status == IF e = Last THEN "completed" ELSE runner.status
  <2>5. runner' = [runner EXCEPT !.pc = pc, !.next = n, !.status = status]
    BY <1>4
  <2>6. /\ status \in {"interrupted", "completed", "failed", "cancelled"}
        /\ n \in 1 .. Last + 1
    BY <1>2, <2>4 DEF RunnerRecords
  <2> HIDE DEF n, status
  <2>7. /\ runner' \in RunnerRecords /\ runner'.pc = pc /\ runner'.next = n
        /\ runner'.status = status /\ runner'.kept = runner.kept
    BY <1>2, <2>4, <2>5, <2>6 DEF RunnerRecords
  <2>8. Runs(pc, e + 1, IF e = Last THEN "completed" ELSE runner.status)
    BY <2>7 DEF Runs, RunnerShape, n, status
  <2> QED
    BY <1>1, <1>2, <1>4, <2>2, <2>3, <2>7, <2>8
<1> QED
  BY <1>1, <1>3, <1>4

LEMMA DisconnectFacts ==
    ASSUME Shape, Frame, Disconnect
    PROVE  /\ runner.pc = "stream" /\ runner.next \in 1 .. Last
           /\ UNCHANGED <<channel, side, database>>
           /\ \/ /\ Runs("end", runner.next, "failed") /\ runner'.kept = runner.kept
                 /\ Handed(Lost(runner.next), TRUE)
                 /\ ~Failed("kernel")
              \/ Aborted
<1>1. /\ runner.pc = "stream" /\ UNCHANGED <<channel, side, database>>
      /\ \/ /\ runner' = [runner EXCEPT !.pc = "end", !.status = "failed"]
            /\ Hand(Lost(runner.next), "end") /\ ~Failed("kernel")
         \/ Abort
  BY DEF Disconnect
<1>2. runner \in RunnerRecords /\ runner.next \in 1 .. Last /\ WriterShape /\ JobShape
  BY <1>1, LastAssumption DEF Shape, RunnerShape, RunnerRecords, Frame
<1>3. CASE Abort
  BY <1>1, <1>2, <1>3, AbortIs DEF RunnerShape
<1>4. CASE /\ runner' = [runner EXCEPT !.pc = "end", !.status = "failed"]
           /\ Hand(Lost(runner.next), "end") /\ ~Failed("kernel")
  <2>1. Lost(runner.next) \in Feed("kernel")
    BY <1>2 DEF Feed, Losts
  <2>2. Handed(Lost(runner.next), "end" # "stream")
    BY <1>2, <1>4, <2>1, HandFacts
  <2>3. Runs("end", runner.next, "failed") /\ runner'.kept = runner.kept
    BY <1>2, <1>4 DEF RunnerRecords, Runs, RunnerShape, Pcs
  <2> QED
    BY <1>1, <1>2, <1>4, <2>2, <2>3
<1> QED
  BY <1>1, <1>3, <1>4

LEMMA EndFlushedFacts ==
    ASSUME Shape, EndFlushed
    PROVE  /\ runner.pc = "end" /\ answer = "ok" /\ UNCHANGED <<channel, side, database>>
           /\ \/ /\ Runs("endSide", runner.next, runner.status) /\ runner'.kept = runner.kept
                 /\ WriterShape' /\ writer'["kernel"] = writer["kernel"]
                 /\ Extended(writer'["side"], writer["side"], Flush)
                 /\ JobShape' /\ answer' = "none" /\ job' = job
              \/ Aborted
<1>1. /\ runner.pc = "end" /\ answer = "ok" /\ UNCHANGED <<channel, side, database>>
      /\ \/ /\ runner' = [runner EXCEPT !.pc = "endSide"] /\ writer' = Enqueue("side", <<Flush>>)
            /\ answer' = "none" /\ job' = job
         \/ Abort
  BY DEF EndFlushed
<1>2. RunnerShape /\ WriterShape /\ JobShape
  BY DEF Shape
<1>3. CASE Abort
  BY <1>1, <1>2, <1>3, AbortIs
<1>4. CASE /\ runner' = [runner EXCEPT !.pc = "endSide"] /\ writer' = Enqueue("side", <<Flush>>)
           /\ answer' = "none" /\ job' = job
  <2>1. Runs("endSide", runner.next, runner.status) /\ runner'.kept = runner.kept
    BY <1>2, <1>4 DEF Runs, RunnerShape, RunnerRecords, Pcs
  <2>2. "side" \in Writers /\ "kernel" \in Writers \ {"side"} /\ Flush \in Entries("side")
    BY DEF Writers, Entries, Commands
  <2>3. /\ WriterShape' /\ writer'["kernel"] = writer["kernel"]
        /\ Extended(writer'["side"], writer["side"], Flush)
    BY <1>2, <1>4, <2>2, PushFacts
  <2> QED
    BY <1>1, <1>2, <1>4, <2>1, <2>3 DEF JobShape
<1> QED
  BY <1>1, <1>3, <1>4

\* The channel begins to close, with the runner's status st and the writers u.
Closes(u, status) ==
    /\ RunnerShape' /\ WriterShape'
    /\ runner'.status = status /\ runner'.next = runner.next
    /\ writer'["kernel"] = u["kernel"]
    /\ \/ writer'["side"] = u["side"] /\ runner'.pc \in {"settling", "raised"}
          /\ runner'.kept = FALSE
       \/ Extended(writer'["side"], u["side"], Flush) /\ runner'.pc = "closeSide"
          /\ runner'.kept = runner.kept
    /\ answer' = "none"
    /\ channel' = [channel EXCEPT !.waiting = NoRows, !.unmarked = NoRows, !.closed = TRUE]

LEMMA ClosesShape ==
    ASSUME ChannelShape, NEW u, NEW status, Closes(u, status)
    PROVE  /\ ChannelShape' /\ channel'.closed = TRUE
           /\ channel'.durable = channel.durable /\ channel'.accepted = channel.accepted
           /\ channel'.history = channel.history
           /\ channel'.waiting = NoRows /\ channel'.unmarked = NoRows
<1> DEFINE empty == NoRows
<1>1. channel' = [channel EXCEPT !.waiting = empty, !.unmarked = empty, !.closed = TRUE]
  BY DEF Closes
<1>2. empty \in [Starts -> Seq(Sides)]
  BY NoRowsShape
<1> HIDE DEF empty
<1>3. /\ ChannelShape' /\ channel'.closed = TRUE
      /\ channel'.durable = channel.durable /\ channel'.accepted = channel.accepted
      /\ channel'.history = channel.history
      /\ channel'.waiting = empty /\ channel'.unmarked = empty
  BY <1>1, <1>2 DEF ChannelShape
<1> QED
  BY <1>3 DEF empty

LEMMA CloseIs ==
    ASSUME Shape, Close(runner, writer)
    PROVE  Closes(writer, runner.status)
BY CloseFacts DEF Shape, Closes, RunnerShape, WriterShape

LEMMA CloseAfterEndFacts ==
    ASSUME Shape, CloseAfterEnd
    PROVE  /\ runner.pc = "endSide" /\ answer = "ok" /\ Closes(writer, runner.status)
           /\ UNCHANGED <<side, job, database>> /\ JobShape'
BY CloseIs DEF CloseAfterEnd, Shape, JobShape

LEMMA CloseAfterFailureFacts ==
    ASSUME Shape, CloseAfterFailure
    PROVE  /\ runner.pc = "failing" /\ Closes(writer, runner.status)
           /\ UNCHANGED <<side, database>>
           /\ JobShape' /\ OtherJobs("failure") /\ job'["failure"] = NoJob
<1>1. job' = [job EXCEPT !["failure"] = NoJob] /\ JobShape /\ "failure" \in Persisters
  BY DEF CloseAfterFailure, Shape, Persisters
<1>2. JobShape' /\ OtherJobs("failure") /\ job'["failure"] = NoJob
  BY <1>1, JobEndFacts
<1> QED
  BY <1>2, CloseIs DEF CloseAfterFailure

LEMMA CancelTurnFacts ==
    ASSUME Shape, CancelTurn
    PROVE  /\ runner.pc \in {"stream", "parent", "end", "endSide"}
           /\ Closes([w \in Writers |-> Forget(w)], "cancelled")
           /\ \A w \in Writers : Forgotten(Forget(w), writer[w])
           /\ UNCHANGED job
<1> DEFINE r == [runner EXCEPT !.status = "cancelled"]
           ws == [w \in Writers |-> Forget(w)]
<1>1. runner.pc \in {"stream", "parent", "end", "endSide"} /\ Close(r, ws) /\ UNCHANGED job
  BY DEF CancelTurn
<1>2. /\ r \in RunnerRecords /\ r.status = "cancelled" /\ r.next = runner.next
      /\ r.kept = runner.kept
  BY DEF Shape, RunnerShape, RunnerRecords
<1>3. \A w \in Writers :
        /\ Forgotten(Forget(w), writer[w]) /\ Forget(w) \in WriterRecords
        /\ Forget(w).batch \in Seq(Feed(w)) /\ Forget(w).queue \in Seq(Entries(w))
  <2> TAKE w \in Writers
  <2>1. /\ Forgotten(Forget(w), writer[w])
        /\ Forget(w) \in [st : {"running", "stopped", "failed", "cancelled"},
                          queue : Seq(Entries(w)), batch : Seq(Feed(w)),
                          held : {"none", "flush", "stale", "stop"}]
    BY ForgetFacts DEF Shape
  <2>2. Forget(w).queue \in Seq(Queued) /\ Forget(w).batch \in Seq(Rows)
    BY <2>1, SeqMonotonic, EntryFacts, RowFacts DEF Persisters
  <2> QED
    BY <2>1, <2>2 DEF WriterRecords
<1>4. /\ ws \in [Writers -> WriterRecords]
      /\ \A w \in Writers : ws[w].batch \in Seq(Feed(w)) /\ ws[w].queue \in Seq(Entries(w))
  BY <1>3
<1> HIDE DEF r, ws
<1>5. Closes(ws, "cancelled")
  BY <1>1, <1>2, <1>4, CloseFacts DEF Closes, RunnerShape
<1> QED
  BY <1>1, <1>3, <1>5 DEF ws

LEMMA SideClosedFacts ==
    ASSUME Shape, SideClosed
    PROVE  /\ runner.pc = "closeSide" /\ UNCHANGED <<channel, side, job, database>>
           /\ answer # "none" /\ answer' = "none" /\ JobShape' /\ WriterShape' /\ RunnerShape'
           /\ runner'.status = runner.status /\ runner'.next = runner.next
           /\ writer'["kernel"] = writer["kernel"]
           /\ \/ /\ runner'.pc = "stopSide" /\ runner'.kept = runner.kept
                 /\ Extended(writer'["side"], writer["side"], Stop)
              \/ /\ runner'.pc \in {"settling", "raised"} /\ runner'.kept = FALSE
                 /\ writer'["side"] = writer["side"]
<1>1. /\ runner.pc = "closeSide" /\ UNCHANGED <<channel, side, job, database>>
      /\ answer # "none" /\ answer' = "none"
      /\ \/ runner' = [runner EXCEPT !.pc = "stopSide"] /\ writer' = Enqueue("side", <<Stop>>)
         \/ runner' = Raised(runner, "side") /\ writer' = writer
  BY DEF SideClosed
<1>2. runner \in RunnerRecords /\ WriterShape /\ JobShape
  BY DEF Shape, RunnerShape
<1>3. CASE runner' = [runner EXCEPT !.pc = "stopSide"] /\ writer' = Enqueue("side", <<Stop>>)
  <2>1. "side" \in Writers /\ "kernel" \in Writers \ {"side"} /\ Stop \in Entries("side")
    BY DEF Writers, Entries, Commands
  <2>2. /\ WriterShape' /\ writer'["kernel"] = writer["kernel"]
        /\ Extended(writer'["side"], writer["side"], Stop)
    BY <1>2, <1>3, <2>1, PushFacts
  <2>3. /\ RunnerShape' /\ runner'.status = runner.status /\ runner'.next = runner.next
        /\ runner'.pc = "stopSide" /\ runner'.kept = runner.kept
    BY <1>2, <1>3 DEF RunnerShape, RunnerRecords, Pcs, Closing
  <2> QED
    BY <1>1, <1>2, <2>2, <2>3 DEF JobShape
<1>4. CASE runner' = Raised(runner, "side") /\ writer' = writer
  <2>1. Raised(runner, "side").pc \in {"settling", "raised"}
    BY DEF Raised
  <2> QED
    BY <1>1, <1>2, <1>4, <2>1, RaisedFacts DEF JobShape, WriterShape, RunnerShape, Writers
<1> QED
  BY <1>1, <1>3, <1>4

LEMMA SideStoppedFacts ==
    ASSUME Shape, SideStopped
    PROVE  /\ runner.pc = "stopSide" /\ UNCHANGED <<answer, channel, side, job, database>>
           /\ JobShape' /\ WriterShape' /\ RunnerShape'
           /\ runner'.status = runner.status /\ runner'.next = runner.next
           /\ writer["side"].st = "stopped" /\ writer'["side"] = writer["side"]
           /\ \/ /\ runner'.pc = "settled" /\ writer'["kernel"] = writer["kernel"]
              \/ /\ runner'.pc = "closeKernel"
                 /\ Extended(writer'["kernel"], writer["kernel"], Flush)
              \/ /\ runner'.pc \in {"settling", "unsettled"} /\ runner'.kept = FALSE
                 /\ writer'["kernel"] = writer["kernel"]
<1> DEFINE kept == runner.status # "cancelled"
           r == [runner EXCEPT !.kept = kept]
<1>1. /\ runner.pc = "stopSide" /\ writer["side"].st = "stopped"
      /\ UNCHANGED <<answer, channel, side, job, database>>
      /\ \/ runner' = [r EXCEPT !.pc = "settled"] /\ writer' = writer
         \/ runner' = [r EXCEPT !.pc = "closeKernel"] /\ writer' = Enqueue("kernel", <<Flush>>)
         \/ runner' = Raised(runner, "kernel") /\ writer' = writer
  BY DEF SideStopped
<1>2. runner \in RunnerRecords /\ WriterShape /\ JobShape
  BY DEF Shape, RunnerShape
<1>3. kept \in BOOLEAN
  OBVIOUS
<1> HIDE DEF kept
<1>4. CASE runner' = [r EXCEPT !.pc = "settled"] /\ writer' = writer
  <2>1. /\ RunnerShape' /\ runner'.status = runner.status /\ runner'.next = runner.next
        /\ runner'.pc = "settled"
    BY <1>2, <1>3, <1>4 DEF RunnerShape, RunnerRecords, Pcs
  <2> QED
    BY <1>1, <1>2, <1>4, <2>1 DEF JobShape, WriterShape
<1>5. CASE runner' = [r EXCEPT !.pc = "closeKernel"] /\ writer' = Enqueue("kernel", <<Flush>>)
  <2>1. "kernel" \in Writers /\ "side" \in Writers \ {"kernel"} /\ Flush \in Entries("kernel")
    BY DEF Writers, Entries, Commands
  <2>2. /\ WriterShape' /\ writer'["side"] = writer["side"]
        /\ Extended(writer'["kernel"], writer["kernel"], Flush)
    BY <1>2, <1>5, <2>1, PushFacts
  <2>3. /\ RunnerShape' /\ runner'.status = runner.status /\ runner'.next = runner.next
        /\ runner'.pc = "closeKernel"
    BY <1>2, <1>3, <1>5 DEF RunnerShape, RunnerRecords, Pcs, Closing
  <2> QED
    BY <1>1, <1>2, <2>2, <2>3 DEF JobShape
<1>6. CASE runner' = Raised(runner, "kernel") /\ writer' = writer
  <2>1. Raised(runner, "kernel").pc \in {"settling", "unsettled"}
    BY DEF Raised
  <2> QED
    BY <1>1, <1>2, <1>6, <2>1, RaisedFacts DEF JobShape, WriterShape, RunnerShape, Writers
<1> QED
  BY <1>1, <1>4, <1>5, <1>6

LEMMA KernelClosedFacts ==
    ASSUME Shape, KernelClosed
    PROVE  /\ runner.pc = "closeKernel" /\ UNCHANGED <<channel, side, job, database>>
           /\ answer # "none" /\ answer' = "none" /\ JobShape' /\ WriterShape' /\ RunnerShape'
           /\ runner'.status = runner.status /\ runner'.next = runner.next
           /\ writer'["side"] = writer["side"]
           /\ \/ /\ runner'.pc = "stopKernel" /\ runner'.kept = runner.kept
                 /\ Extended(writer'["kernel"], writer["kernel"], Stop)
              \/ /\ runner'.pc \in {"settling", "unsettled"} /\ runner'.kept = FALSE
                 /\ writer'["kernel"] = writer["kernel"]
<1>1. /\ runner.pc = "closeKernel" /\ UNCHANGED <<channel, side, job, database>>
      /\ answer # "none" /\ answer' = "none"
      /\ \/ runner' = [runner EXCEPT !.pc = "stopKernel"] /\ writer' = Enqueue("kernel", <<Stop>>)
         \/ runner' = Raised(runner, "kernel") /\ writer' = writer
  BY DEF KernelClosed
<1>2. runner \in RunnerRecords /\ WriterShape /\ JobShape
  BY DEF Shape, RunnerShape
<1>3. CASE runner' = [runner EXCEPT !.pc = "stopKernel"] /\ writer' = Enqueue("kernel", <<Stop>>)
  <2>1. "kernel" \in Writers /\ "side" \in Writers \ {"kernel"} /\ Stop \in Entries("kernel")
    BY DEF Writers, Entries, Commands
  <2>2. /\ WriterShape' /\ writer'["side"] = writer["side"]
        /\ Extended(writer'["kernel"], writer["kernel"], Stop)
    BY <1>2, <1>3, <2>1, PushFacts
  <2>3. /\ RunnerShape' /\ runner'.status = runner.status /\ runner'.next = runner.next
        /\ runner'.pc = "stopKernel" /\ runner'.kept = runner.kept
    BY <1>2, <1>3 DEF RunnerShape, RunnerRecords, Pcs, Closing
  <2> QED
    BY <1>1, <1>2, <2>2, <2>3 DEF JobShape
<1>4. CASE runner' = Raised(runner, "kernel") /\ writer' = writer
  <2>1. Raised(runner, "kernel").pc \in {"settling", "unsettled"}
    BY DEF Raised
  <2> QED
    BY <1>1, <1>2, <1>4, <2>1, RaisedFacts DEF JobShape, WriterShape, RunnerShape, Writers
<1> QED
  BY <1>1, <1>3, <1>4

LEMMA SettlingFacts ==
    ASSUME Shape, KernelStopped \/ Settle
    PROVE  /\ runner.pc \in {"stopKernel", "settling"} /\ RunnerShape' /\ DatabaseShape'
           /\ runner'.pc \in {"settled", "cut"} /\ runner'.kept = runner.kept
           /\ runner'.status \in {runner.status, "failed"} /\ runner'.next = runner.next
           /\ UNCHANGED <<answer, channel, side, writer, job, inbox, ordinal, cursor>>
           /\ counter <= counter'
<1>1. runner \in RunnerRecords /\ DatabaseShape
  BY DEF Shape, RunnerShape
<1>2. CASE KernelStopped
  <2>1. /\ runner.pc = "stopKernel" /\ runner' = [runner EXCEPT !.pc = "settled"]
        /\ UNCHANGED <<answer, channel, side, writer, job, inbox, ordinal, counter, cursor>>
    BY <1>2 DEF KernelStopped, database
  <2>2. /\ RunnerShape' /\ runner'.kept = runner.kept /\ runner'.next = runner.next
        /\ runner'.status = runner.status /\ runner'.pc = "settled"
    BY <1>1, <2>1 DEF RunnerShape, RunnerRecords, Pcs
  <2> QED
    BY <1>1, <2>1, <2>2 DEF DatabaseShape
<1>3. CASE Settle
  <2>1. /\ runner.pc = "settling"
        /\ UNCHANGED <<answer, channel, side, writer, job, inbox, ordinal, cursor>>
        /\ counter' = counter + 1 \/ counter' = counter
        /\ \E pc \in {"settled", "cut"} :
              runner' = [runner EXCEPT !.pc = pc, !.status = "failed"]
    BY <1>3 DEF Settle
  <2>2. /\ RunnerShape' /\ runner'.kept = runner.kept /\ runner'.next = runner.next
        /\ runner'.status = "failed" /\ runner'.pc \in {"settled", "cut"}
    BY <1>1, <2>1 DEF RunnerShape, RunnerRecords, Pcs
  <2>3. DatabaseShape' /\ counter <= counter'
    BY <1>1, <2>1 DEF DatabaseShape
  <2> QED
    BY <2>1, <2>2, <2>3
<1> QED
  BY <1>2, <1>3

LEMMA FlushRaisesFacts ==
    ASSUME Shape, FlushRaises \/ Interrupt
    PROVE  /\ runner.pc \in {"stream", "parent", "end", "endSide"} /\ Aborted
           /\ UNCHANGED <<channel, side, database>>
BY AbortIs DEF FlushRaises, Interrupt, Shape

LEMMA CancelEndingFacts ==
    ASSUME Shape, CancelEnding
    PROVE  /\ runner.pc \in Closing \cup {"failing", "settling"}
           /\ RunnerShape' /\ WriterShape' /\ JobShape' /\ UNCHANGED channel
           /\ runner'.pc \in {"cut", "raised"} /\ runner'.kept = runner.kept
           /\ runner.pc = "failing" => runner'.pc = "raised"
           /\ runner'.next = runner.next /\ runner'.status = runner.status
           /\ answer' = "none" /\ OtherJobs("failure") /\ job'["failure"] = NoJob
           /\ \A w \in Writers : \/ Emptied(w) /\ writer'[w].st = "cancelled"
                               \/ Forgotten(writer'[w], writer[w])
<1> DEFINE pc == IF runner.pc # "failing" /\ runner.status # "cancelled" THEN "cut" ELSE "raised"
           gone == [NewWriter EXCEPT !.st = "cancelled"]
<1>1. /\ runner.pc \in Closing \cup {"failing", "settling"}
      /\ runner' = [runner EXCEPT !.pc = pc] /\ answer' = "none" /\ UNCHANGED channel
      /\ job' = [job EXCEPT !["failure"] = NoJob]
      /\ writer' = [w \in Writers |->
                     IF runner.pc = (IF w = "side" THEN "stopSide" ELSE "stopKernel")
                     THEN gone ELSE Forget(w)]
  BY DEF CancelEnding
<1>2. runner \in RunnerRecords /\ WriterShape /\ JobShape
  BY DEF Shape, RunnerShape
<1>3. pc \in {"cut", "raised"} /\ (runner.pc = "failing" => pc = "raised")
  OBVIOUS
<1> HIDE DEF pc
<1>4. /\ RunnerShape' /\ runner'.pc = pc /\ runner'.kept = runner.kept
      /\ runner'.next = runner.next /\ runner'.status = runner.status
  BY <1>1, <1>2, <1>3 DEF RunnerShape, RunnerRecords, Pcs
<1>5. JobShape' /\ OtherJobs("failure") /\ job'["failure"] = NoJob
  BY <1>1, <1>2, JobEndFacts DEF Persisters
<1>6. \A w \in Writers : \A v \in {gone, Forget(w)} :
        /\ v \in [st : {"running", "stopped", "failed", "cancelled"},
                  queue : Seq(Entries(w)), batch : Seq(Feed(w)),
                  held : {"none", "flush", "stale", "stop"}]
        /\ v \in WriterRecords
  <2> TAKE w \in Writers
  <2> TAKE v \in {gone, Forget(w)}
  <2>1. v \in [st : {"running", "stopped", "failed", "cancelled"},
               queue : Seq(Entries(w)), batch : Seq(Feed(w)),
               held : {"none", "flush", "stale", "stop"}]
    BY <1>2, ForgetFacts, NewWriterFacts
  <2> HIDE DEF gone
  <2>2. v.queue \in Seq(Queued) /\ v.batch \in Seq(Rows)
    BY <2>1, SeqMonotonic, EntryFacts, RowFacts DEF Persisters
  <2> QED
    BY <2>1, <2>2 DEF WriterRecords
<1>7. /\ gone.queue = <<>> /\ gone.batch = <<>> /\ gone.held = "none" /\ gone.st = "cancelled"
  BY DEF NewWriter
<1> HIDE DEF gone
<1>8. \A w \in Writers : writer'[w] \in {gone, Forget(w)}
  BY <1>1
<1>9. writer' \in [Writers -> WriterRecords]
  BY <1>1, <1>6
<1>10. WriterShape'
  BY <1>6, <1>8, <1>9 DEF WriterShape
<1>11. \A w \in Writers : \/ Emptied(w) /\ writer'[w].st = "cancelled"
                          \/ Forgotten(writer'[w], writer[w])
  BY <1>2, <1>7, <1>8, ForgetFacts DEF Emptied
<1> QED
  BY <1>1, <1>3, <1>4, <1>5, <1>10, <1>11

LEMMA CrashFacts ==
    ASSUME Shape, Crash
    PROVE  /\ RunnerShape' /\ WriterShape' /\ JobShape' /\ ChannelShape'
           /\ runner'.pc = "crashed" /\ runner'.kept = runner.kept
           /\ runner'.next = runner.next /\ runner'.status = runner.status
           /\ channel'.durable = {} /\ channel'.accepted = {} /\ channel'.closed = TRUE
           /\ channel'.waiting = NoRows /\ channel'.unmarked = NoRows
           /\ answer' = "none" /\ UNCHANGED <<side, database>>
           /\ \A p \in Persisters : job'[p] = NoJob
           /\ \A w \in Writers : Emptied(w)
<1> DEFINE gone == [NewWriter EXCEPT !.st = "cancelled"]
           empty == NoRows
<1>1. /\ runner' = [runner EXCEPT !.pc = "crashed"] /\ answer' = "none"
      /\ writer' = [w \in Writers |-> gone] /\ job' = [p \in Persisters |-> NoJob]
      /\ UNCHANGED <<side, database>>
      /\ channel' = [known |-> {}, durable |-> {}, waiting |-> empty, unmarked |-> empty,
                     history |-> {}, accepted |-> {}, closed |-> TRUE]
  BY DEF Crash, NewChannel
<1>2. /\ RunnerShape' /\ runner'.pc = "crashed" /\ runner'.kept = runner.kept
      /\ runner'.next = runner.next /\ runner'.status = runner.status
  BY <1>1 DEF Shape, RunnerShape, RunnerRecords, Pcs
<1>3. empty \in [Starts -> Seq(Sides)]
  BY NoRowsShape
<1> HIDE DEF empty
<1>4. /\ ChannelShape' /\ channel'.durable = {} /\ channel'.accepted = {}
      /\ channel'.closed = TRUE /\ channel'.waiting = empty /\ channel'.unmarked = empty
  BY <1>1, <1>3 DEF ChannelShape
<1>5. /\ gone.queue = <<>> /\ gone.batch = <<>> /\ gone.held = "none" /\ gone.st = "cancelled"
      /\ gone \in WriterRecords
  BY EmptySeq DEF NewWriter, WriterRecords
<1> HIDE DEF gone
<1>6. WriterShape' /\ \A w \in Writers : Emptied(w)
  BY <1>1, <1>5, EmptySeq DEF WriterShape, Emptied
<1>7. \A p \in Persisters : NoJob \in JobRecords /\ NoJob.rows \in Seq(Feed(p))
  BY JobValues, EmptySeq DEF JobRecords
<1> HIDE DEF NoJob
<1>8. JobShape' /\ \A p \in Persisters : job'[p] = NoJob
  BY <1>1, <1>7 DEF JobShape
<1> QED
  BY <1>1, <1>2, <1>4, <1>6, <1>8 DEF empty

------------------------------------------------------------------------------
(* Jobs and ordinals.                                                      *)

JobInv == WrittenIsThere /\ Blocks /\ DistinctOrdinals

\* A job that goes on, has ended, or begins.
GoesOn(p) ==
    \/ job'[p] = job[p]
    \/ job'[p].phase \in {"idle", "done", "failed"}
    \/ job'[p].phase = "reserve" /\ job'[p].written = [c \in Collections |-> 0]

LEMMA GoesOnCases ==
    ASSUME NEW p \in Persisters
    PROVE  /\ job'[p] = NoJob => GoesOn(p)
           /\ \A ph \in {"done", "failed"} : job'[p] = [NoJob EXCEPT !.phase = ph] => GoesOn(p)
           /\ \A rows \in Seq(Feed(p)) : job'[p] = Persist(rows) => GoesOn(p)
BY JobValues DEF GoesOn, Phases

\* The numbers of a job.
LEMMA JobNumbers ==
    ASSUME Shape
    PROVE  \A p \in Persisters :
             /\ Len(job[p].rows) \in Nat /\ job[p].base \in Nat /\ After(p) \in Nat
             /\ job[p].written["projections"] \in Nat /\ job[p].written["inbox"] \in Nat
             /\ Mine(p) \in Nat
             /\ \A i \in 1 .. Len(job[p].rows) : job[p].rows[i] \in Rows
<1> TAKE p \in Persisters
<1>1. /\ Len(job[p].rows) \in Nat /\ job[p].base \in Nat
      /\ job[p].written["projections"] \in Nat /\ job[p].written["inbox"] \in Nat
      /\ \A i \in 1 .. Len(job[p].rows) : job[p].rows[i] \in Rows
  BY JobParts, RowFacts DEF Shape, Collections
<1> DEFINE n == Len(job[p].rows)
           b == job[p].base
           m == job[p].written["projections"]
<1>2. n \in Nat /\ b \in Nat /\ m \in Nat
  BY <1>1
<1>3. After(p) = b + n /\ Mine(p) = b + m
  BY DEF After, Mine
<1> HIDE DEF n, b, m
<1>4. After(p) \in Nat /\ Mine(p) \in Nat
  BY <1>2, <1>3
<1> QED
  BY <1>1, <1>4

\* A job whose rows, base and progress are as they were.
Same(p) ==
    /\ job'[p].rows = job[p].rows /\ job'[p].base = job[p].base
    /\ job'[p].written["projections"] = job[p].written["projections"]

LEMMA SameJob ==
    ASSUME NEW p \in Persisters, Same(p)
    PROVE  /\ After(p)' = After(p) /\ Mine(p)' = Mine(p)
           /\ UNCHANGED <<counter, ordinal>> /\ Reserved(p) => Reserved(p)'
           /\ \A q \in Persisters : Same(q) /\ Apart(p, q) => Apart(p, q)'
<1>1. After(p)' = After(p) /\ Mine(p)' = Mine(p)
  BY DEF Same, After, Mine
<1>2. UNCHANGED <<counter, ordinal>> /\ Reserved(p) => Reserved(p)'
  BY <1>1 DEF Reserved, Same
<1>3. \A q \in Persisters : Same(q) /\ Apart(p, q) => Apart(p, q)'
  BY DEF Same, Apart, After
<1> QED
  BY <1>1, <1>2, <1>3

LEMMA JobsGoOn ==
    ASSUME Shape, JobInv, JobShape', counter' \in Nat, UNCHANGED <<inbox, ordinal>>,
           counter <= counter', \A p \in Persisters : GoesOn(p)
    PROVE  JobInv'
<1>1. WrittenIsThere'
  <2>1. ASSUME NEW p \in Persisters, Active(p)'
        PROVE  Counted(p)'
    <3>1. CASE job'[p] = job[p]
      <4>1. Counted(p)
        BY <2>1, <3>1 DEF JobInv, WrittenIsThere, Active
      <4> QED
        BY <3>1, <4>1 DEF Counted, Durable
    <3>2. CASE job'[p].written = [c \in Collections |-> 0]
      <4>1. job'[p].rows \in Seq(Feed(p))
        BY DEF JobShape
      <4>2. Len(job'[p].rows) \in Nat
        BY <4>1, LenProperties
      <4>3. \A c \in Collections : job'[p].written[c] = 0
        BY <3>2
      <4> QED
        BY <4>2, <4>3 DEF Collections, Counted
    <3> QED
      BY <2>1, <3>1, <3>2 DEF GoesOn, Active
  <2> QED
    BY <2>1 DEF WrittenIsThere
<1>2. Blocks'
  <2>1. \A p \in Persisters : job'[p].phase = "write" => job'[p] = job[p]
    BY DEF GoesOn
  <2>2. \A r \in Rows : ordinal'[r] <= counter'
    BY DEF Shape, DatabaseShape, JobInv, Blocks
  <2>3. ASSUME NEW p \in Persisters, job'[p].phase = "write"
        PROVE  Reserved(p)'
    <3>1. /\ Same(p) /\ Reserved(p)
      BY <2>1, <2>3 DEF Same, JobInv, Blocks
    <3>2. After(p)' = After(p) /\ Mine(p)' = Mine(p) /\ After(p) \in Nat /\ counter \in Nat
      BY <3>1, SameJob, JobNumbers DEF Shape, DatabaseShape
    <3> QED
      BY <3>1, <3>2 DEF Reserved, Same
  <2>4. ASSUME NEW p \in Persisters, NEW q \in Persisters, p # q,
               job'[p].phase = "write", job'[q].phase = "write"
        PROVE  Apart(p, q)'
    <3>1. Same(p) /\ Same(q) /\ Apart(p, q)
      BY <2>1, <2>4 DEF JobInv, Blocks, Same
    <3> QED
      BY <3>1, SameJob
  <2> QED
    BY <2>2, <2>3, <2>4 DEF Blocks
<1>3. DistinctOrdinals'
  BY DEF JobInv, DistinctOrdinals, Durable
<1> QED
  BY <1>1, <1>2, <1>3 DEF JobInv

LEMMA ReserveJobs ==
    ASSUME Shape, JobInv, NEW p \in Persisters, Reserve(p)
    PROVE  JobInv'
<1>1. /\ JobShape' /\ DatabaseShape' /\ OtherJobs(p)
      /\ job[p].phase = "reserve" /\ job'[p].phase = "write"
      /\ job'[p].rows = job[p].rows /\ job'[p].written = job[p].written
      /\ job'[p].base = counter + 1 /\ counter' = counter + Len(job[p].rows)
      /\ UNCHANGED <<inbox, ordinal>>
  BY ReserveFacts DEF Shape, Reserve
<1>2. counter \in Nat /\ \A r \in Rows : ordinal[r] \in Nat /\ ordinal[r] <= counter
  BY DEF Shape, DatabaseShape, JobInv, Blocks
<1> DEFINE n == Len(job[p].rows)
           m == job[p].written["projections"]
<1>0. /\ n \in Nat /\ m \in Nat /\ counter' = counter + n
      /\ After(p)' = (counter + 1) + n /\ Mine(p)' = (counter + 1) + m
  BY <1>1, JobNumbers DEF After, Mine
<1> HIDE DEF n, m
<1>3. WrittenIsThere'
  <2>1. \A q \in Persisters : Active(q)' =>
          Active(q) /\ job'[q].rows = job[q].rows /\ job'[q].written = job[q].written
    BY <1>1 DEF Active, OtherJobs
  <2> QED
    BY <1>1, <2>1 DEF JobInv, WrittenIsThere, Counted, Durable
<1>4. Blocks'
  <2>1. /\ \A r \in Rows : ordinal'[r] <= counter' /\ ~(Mine(p)' <= ordinal'[r])
        /\ counter <= counter' /\ counter' \in Nat
    BY <1>0, <1>1, <1>2
  <2>2. 0 < job'[p].base /\ After(p)' <= counter' + 1 /\ job'[p].base = counter + 1
    BY <1>0, <1>1, <1>2
  <2>4. Reserved(p)'
    BY <2>1, <2>2 DEF Reserved
  <2>5. ASSUME NEW q \in Persisters \ {p}, job'[q].phase = "write"
        PROVE  Reserved(q)' /\ After(q)' <= job'[p].base
    <3>1. Same(q) /\ Reserved(q)
      BY <1>1, <2>5 DEF OtherJobs, Same, JobInv, Blocks
    <3>2. After(q)' = After(q) /\ Mine(q)' = Mine(q) /\ After(q) \in Nat
      BY <3>1, SameJob, JobNumbers
    <3>3. After(q) <= counter + 1 /\ 0 < job'[q].base
      BY <3>1 DEF Reserved, Same
    <3>4. After(q)' <= job'[p].base /\ After(q)' <= counter' + 1
      BY <1>2, <2>1, <2>2, <3>2, <3>3
    <3>5. \A r \in Rows : ~(Mine(q)' <= ordinal'[r] /\ ordinal'[r] < After(q)')
      BY <1>1, <3>1, <3>2 DEF Reserved
    <3> QED
      BY <3>3, <3>4, <3>5 DEF Reserved
  <2>6. ASSUME NEW q \in Persisters, NEW u \in Persisters, q # u,
               job'[q].phase = "write", job'[u].phase = "write"
        PROVE  Apart(q, u)'
    <3>1. CASE q = p \/ u = p
      BY <2>5, <2>6, <3>1 DEF Apart
    <3>2. CASE q # p /\ u # p
      <4>1. Same(q) /\ Same(u) /\ Apart(q, u)
        BY <1>1, <2>6, <3>2 DEF JobInv, Blocks, OtherJobs, Same
      <4> QED
        BY <4>1, SameJob
    <3> QED
      BY <3>1, <3>2
  <2> QED
    BY <2>1, <2>4, <2>5, <2>6 DEF Blocks
<1>5. DistinctOrdinals'
  BY <1>1 DEF JobInv, DistinctOrdinals, Durable
<1> QED
  BY <1>3, <1>4, <1>5 DEF JobInv

LEMMA WriteInboxJobs ==
    ASSUME Shape, JobInv, NEW p \in Persisters, WriteInbox(p)
    PROVE  JobInv'
<1>1. /\ JobShape' /\ OneWritten(p, "inbox") /\ p # "side"
      /\ inbox' = inbox \cup {Current(p, "inbox")} /\ UNCHANGED <<ordinal, counter>>
  BY WriteInboxFacts DEF Shape, WriteInbox
<1>2. \A q \in Persisters :
        /\ Same(q) /\ job'[q].phase = job[q].phase
        /\ q # p => job'[q].written["inbox"] = job[q].written["inbox"]
  BY <1>1 DEF OneWritten, OtherJobs, Collections, Same
<1>3. WrittenIsThere'
  <2>1. ASSUME NEW q \in Persisters, Active(q)'
        PROVE  Counted(q)'
    <3>1. Counted(q)
      BY <1>2, <2>1 DEF Active, JobInv, WrittenIsThere
    <3>2. CASE q = p
      <4> DEFINE k == job[q].written["inbox"]
                 rows == job[q].rows
                 n == Len(rows)
                 l == job'[q].written["inbox"]
      <4>1. /\ k \in Nat /\ n \in Nat /\ k < n /\ l = k + 1
            /\ rows[k + 1] = Current(p, "inbox") /\ \A i \in 1 .. k : rows[i] \in inbox
            /\ job'[q].rows = rows
        BY <1>1, <1>2, <3>1, <3>2, JobNumbers DEF OneWritten, Counted, Same
      <4> HIDE DEF k, rows, n, l
      <4>2. l <= n /\ \A i \in 1 .. l : rows[i] \in inbox'
        BY <1>1, <4>1
      <4>3. /\ job'[q].written["inbox"] <= Len(job'[q].rows)
            /\ \A i \in 1 .. job'[q].written["inbox"] : job'[q].rows[i] \in inbox'
        BY <4>1, <4>2 DEF l, n
      <4>4. /\ job'[q].written["projections"] <= Len(job'[q].rows)
            /\ \A i \in 1 .. job'[q].written["projections"] : ordinal'[job'[q].rows[i]] > 0
        BY <1>1, <1>2, <3>1 DEF Counted, Same, Collections, Durable
      <4> QED
        BY <4>3, <4>4 DEF Collections, Durable, Counted
    <3>3. CASE q # p
      BY <1>1, <1>2, <3>1, <3>3 DEF Durable, Collections, Counted, Same
    <3> QED
      BY <3>2, <3>3
  <2> QED
    BY <2>1 DEF WrittenIsThere
<1>4. Blocks'
  BY <1>1, <1>2, SameJob DEF JobInv, Blocks
<1>5. DistinctOrdinals'
  BY <1>1 DEF JobInv, DistinctOrdinals, Durable
<1> QED
  BY <1>3, <1>4, <1>5 DEF JobInv

LEMMA WriteProjectionJobs ==
    ASSUME Shape, JobInv, NEW p \in Persisters, WriteProjection(p)
    PROVE  JobInv'
<1> DEFINE cur == Current(p, "projections")
           pos == Mine(p)
<1>1. /\ JobShape' /\ OneWritten(p, "projections")
      /\ \A r \in Rows : ordinal'[r] = IF r = cur /\ ordinal[r] = 0 THEN pos ELSE ordinal[r]
      /\ UNCHANGED <<inbox, counter>>
  BY WriteProjectionFacts DEF Shape, WriteProjection, Mine
<1>2. /\ \A r \in Rows : ordinal[r] \in Nat /\ ordinal[r] <= counter
      /\ counter \in Nat
  BY DEF Shape, DatabaseShape, JobInv, Blocks
<1>3. \A q \in Persisters :
        /\ job'[q].rows = job[q].rows /\ job'[q].base = job[q].base
        /\ job'[q].phase = job[q].phase
        /\ job'[q].written["inbox"] = job[q].written["inbox"]
        /\ q # p => Same(q)
  BY <1>1 DEF OneWritten, OtherJobs, Collections, Same
<1>4. /\ job[p].phase = "write" /\ job[p].written["projections"] < Len(job[p].rows)
      /\ job'[p].written["projections"] = job[p].written["projections"] + 1
      /\ cur = job[p].rows[job[p].written["projections"] + 1]
  BY <1>1 DEF OneWritten
<1>5. cur \in Rows
  BY <1>4, JobNumbers, SMTT(20)
<1>6. Reserved(p) /\ 0 < pos /\ job[p].base <= pos /\ pos \in Nat /\ pos < After(p)
  <2>1. Reserved(p)
    BY <1>4 DEF JobInv, Blocks
  <2> DEFINE b == job[p].base
             m == job[p].written["projections"]
             n == Len(job[p].rows)
  <2>2. /\ b \in Nat /\ m \in Nat /\ n \in Nat /\ pos = b + m /\ After(p) = b + n
        /\ m < n /\ 0 < b
    BY <1>4, <2>1, JobNumbers DEF Reserved, Mine, After
  <2> HIDE DEF b, m, n, pos
  <2>3. 0 < pos /\ b <= pos /\ pos \in Nat /\ pos < After(p)
    BY <2>2
  <2> QED
    BY <2>1, <2>3 DEF b
<1> HIDE DEF pos, cur
<1>7. pos <= counter /\ \A r \in Rows : ordinal[r] # pos
  <2>1. \A r \in Rows : ~(pos <= ordinal[r] /\ ordinal[r] < After(p))
    BY <1>6 DEF Reserved, pos
  <2> QED
    BY <1>2, <1>6, <2>1, JobNumbers DEF Reserved
<1>8. \A r \in Rows : /\ Durable(r) => Durable(r)' /\ ordinal'[r] = ordinal[r]
                      /\ Durable(r)' => Durable(r) \/ (r = cur /\ ordinal'[r] = pos)
  BY <1>1, <1>2, <1>6 DEF Durable
<1>9. ordinal'[cur] > 0
  BY <1>1, <1>2, <1>5, <1>6
<1>10. WrittenIsThere'
  <2>1. ASSUME NEW q \in Persisters, Active(q)'
        PROVE  Counted(q)'
    <3>1. Counted(q)
      BY <1>3, <2>1 DEF JobInv, WrittenIsThere, Active
    <3>2. \A i \in 1 .. job[q].written["projections"] : ordinal'[job[q].rows[i]] > 0
      <4>1. \A i \in 1 .. job[q].written["projections"] : job[q].rows[i] \in Rows
        BY <3>1, JobNumbers DEF Collections, Counted
      <4> QED
        BY <1>8, <3>1, <4>1 DEF Counted, Durable
    <3>3. CASE q = p
      <4> DEFINE k == job[q].written["projections"]
                 rows == job[q].rows
                 n == Len(rows)
                 l == job'[q].written["projections"]
      <4>1. /\ k \in Nat /\ n \in Nat /\ k < n /\ l = k + 1
            /\ rows[k + 1] = cur /\ \A i \in 1 .. k : ordinal'[rows[i]] > 0
            /\ ordinal'[cur] > 0 /\ job'[q].rows = rows
        BY <1>3, <1>4, <1>9, <3>2, <3>3, JobNumbers DEF Durable
      <4> HIDE DEF k, rows, n, l
      <4>2. l <= n /\ \A i \in 1 .. l : ordinal'[rows[i]] > 0
        BY <4>1
      <4>3. /\ job'[q].written["projections"] <= Len(job'[q].rows)
            /\ \A i \in 1 .. job'[q].written["projections"] : ordinal'[job'[q].rows[i]] > 0
        BY <4>1, <4>2 DEF l, n
      <4> QED
        BY <1>1, <1>3, <3>1, <4>3 DEF Collections, Counted, Durable
    <3>4. CASE q # p
      BY <1>1, <1>3, <3>1, <3>2, <3>4 DEF Collections, Counted, Same, Durable
    <3> QED
      BY <3>3, <3>4
  <2> QED
    BY <2>1 DEF WrittenIsThere
<1>11. Blocks'
  <2>1. \A r \in Rows : ordinal'[r] <= counter'
    BY <1>1, <1>2, <1>7
  <2>2. \A q \in Persisters : After(q)' = After(q)
    BY <1>3 DEF After
  <2>3. ASSUME NEW q \in Persisters, job'[q].phase = "write"
        PROVE  Reserved(q)'
    <3>1. Reserved(q)
      BY <1>3, <2>3 DEF JobInv, Blocks
    <3>2. CASE q = p
      <4>1. Mine(q)' = pos + 1
        BY <1>3, <1>4, <3>2, JobNumbers, SMTT(20) DEF Mine, pos
      <4>2. \A r \in Rows : ~(pos + 1 <= ordinal'[r] /\ ordinal'[r] < After(q))
        BY <1>1, <1>2, <1>6, <3>1, <3>2, JobNumbers DEF Reserved, pos
      <4> QED
        BY <1>1, <1>3, <2>2, <3>1, <4>1, <4>2 DEF Reserved
    <3>3. CASE q # p
      <4>1. After(q) <= job[p].base \/ After(p) <= job[q].base
        BY <1>3, <1>4, <2>3, <3>3 DEF JobInv, Blocks, Apart
      <4>2. ~(Mine(q) <= pos /\ pos < After(q))
        BY <1>6, <4>1, JobNumbers DEF Mine
      <4>3. Mine(q)' = Mine(q)
        BY <1>3, <3>3, SameJob
      <4> QED
        BY <1>1, <1>3, <2>2, <3>1, <4>2, <4>3 DEF Reserved
    <3> QED
      BY <3>2, <3>3
  <2>4. ASSUME NEW q \in Persisters, NEW u \in Persisters, q # u,
               job'[q].phase = "write", job'[u].phase = "write"
        PROVE  Apart(q, u)'
    BY <1>3, <2>2, <2>4 DEF JobInv, Blocks, Apart
  <2> QED
    BY <2>1, <2>3, <2>4 DEF Blocks
<1>12. DistinctOrdinals'
  BY <1>1, <1>7, <1>8 DEF JobInv, DistinctOrdinals, Durable
<1> QED
  BY <1>10, <1>11, <1>12 DEF JobInv

------------------------------------------------------------------------------
(* The shape of the state and the jobs, by step.                           *)

LEMMA PersistersAre ==
    /\ Persisters = {"kernel", "side", "failure", "sweep"} /\ Writers = {"kernel", "side"}
    /\ Feed("kernel") = Natives \cup Losts /\ Feed("side") = SideRows
    /\ Feed("failure") = {Failure} /\ Feed("sweep") = Natives
BY DEF Persisters, Writers, Feed

LEMMA AbortedJobs ==
    ASSUME Aborted
    PROVE  \A p \in Persisters : GoesOn(p)
<1>1. <<Failure>> \in Seq(Feed("failure"))
  BY PersistersAre
<1>2. GoesOn("kernel") /\ GoesOn("failure")
  BY <1>1, PersistersAre, GoesOnCases DEF Aborted
<1>3. GoesOn("side") /\ GoesOn("sweep")
  BY DEF Aborted, GoesOn
<1> QED
  BY <1>2, <1>3, PersistersAre

LEMMA OneJobGoesOn ==
    ASSUME NEW p \in Persisters, OtherJobs(p), GoesOn(p)
    PROVE  \A q \in Persisters : GoesOn(q)
BY DEF OtherJobs, GoesOn

\* What is left as it was keeps its shape.
LEMMA SameShape ==
    ASSUME Shape
    PROVE  /\ UNCHANGED runner => RunnerShape'
           /\ UNCHANGED answer => AnswerShape'
           /\ UNCHANGED channel => ChannelShape'
           /\ UNCHANGED side => SideShape'
           /\ UNCHANGED writer => WriterShape'
           /\ UNCHANGED job => JobShape'
           /\ UNCHANGED database => DatabaseShape'
           /\ answer' = "none" => AnswerShape'
BY DEF Shape, RunnerShape, AnswerShape, ChannelShape, SideShape, WriterShape, JobShape,
       DatabaseShape, database

StepInv == Shape' /\ JobInv'

LEMMA DatabaseSteps ==
    ASSUME Shape, JobInv, NEW p \in Persisters,
           Reserve(p) \/ WriteInbox(p) \/ WriteProjection(p) \/ AdvanceCursor(p)
             \/ PersistFails(p)
    PROVE  StepInv
<1>1. UNCHANGED memory => RunnerShape' /\ AnswerShape' /\ ChannelShape' /\ SideShape' /\ WriterShape'
  BY SameShape DEF memory
<1>2. CASE Reserve(p)
  BY <1>1, <1>2, ReserveFacts, ReserveJobs DEF Reserve, Shape, StepInv
<1>3. CASE WriteInbox(p)
  BY <1>1, <1>3, WriteInboxFacts, WriteInboxJobs DEF WriteInbox, Shape, StepInv
<1>4. CASE WriteProjection(p)
  BY <1>1, <1>4, WriteProjectionFacts, WriteProjectionJobs DEF WriteProjection, Shape, StepInv
<1>5. CASE AdvanceCursor(p)
  <2>1. JobShape' /\ DatabaseShape' /\ OtherJobs(p) /\ job'[p] = [NoJob EXCEPT !.phase = "done"]
    BY <1>5, AdvanceCursorFacts DEF Shape
  <2>2. UNCHANGED <<memory, inbox, ordinal, counter>>
    BY <1>5 DEF AdvanceCursor
  <2>3. \A q \in Persisters : GoesOn(q)
    BY <2>1, GoesOnCases, OneJobGoesOn
  <2>4. Shape'
    BY <1>1, <2>1, <2>2 DEF Shape
  <2>5. counter' \in Nat /\ counter <= counter'
    BY <2>2 DEF Shape, DatabaseShape
  <2> QED
    BY <2>1, <2>2, <2>3, <2>4, <2>5, JobsGoOn DEF StepInv
<1>6. CASE PersistFails(p)
  <2>1. JobShape' /\ OtherJobs(p) /\ job'[p] = [NoJob EXCEPT !.phase = "failed"]
    BY <1>6, PersistFailsFacts DEF Shape
  <2>2. UNCHANGED <<memory, database>>
    BY <1>6 DEF PersistFails
  <2>3. \A q \in Persisters : GoesOn(q)
    BY <2>1, GoesOnCases, OneJobGoesOn
  <2>4. Shape'
    BY <1>1, <2>1, <2>2, SameShape DEF Shape
  <2>5. counter' \in Nat /\ counter <= counter'
    BY <2>2 DEF Shape, DatabaseShape, database
  <2> QED
    BY <2>1, <2>2, <2>3, <2>4, <2>5, JobsGoOn DEF StepInv, database
<1> QED
  BY <1>2, <1>3, <1>4, <1>5, <1>6

\* A step that leaves the collections as they are.
LEMMA MemoryStep ==
    ASSUME Shape, JobInv, RunnerShape', AnswerShape', ChannelShape', SideShape', WriterShape',
           JobShape', UNCHANGED database, \A p \in Persisters : GoesOn(p)
    PROVE  StepInv
<1>1. DatabaseShape' /\ counter' \in Nat /\ counter <= counter'
  BY SameShape DEF Shape, DatabaseShape, database
<1> QED
  BY <1>1, JobsGoOn DEF StepInv, Shape, database

LEMMA WriterSteps ==
    ASSUME Shape, JobInv, NEW w \in Writers, WriterStep(w)
    PROVE  StepInv
<1>1. w \in Persisters /\ writer[w].batch \in Seq(Feed(w))
  BY WriterParts DEF Persisters, Shape
<1>2. CASE TakeRow(w)
  <2>1. WriterShape' /\ JobShape' /\ OtherJobs(w)
        /\ (job'[w] = NoJob \/ job'[w] = Persist(writer'[w].batch))
    BY <1>2, TakeRowFacts DEF Shape, OtherJobs
  <2>2. writer'[w].batch \in Seq(Feed(w))
    BY <2>1 DEF WriterShape
  <2>3. \A p \in Persisters : GoesOn(p)
    BY <1>1, <2>1, <2>2, GoesOnCases, OneJobGoesOn
  <2> QED
    BY <1>2, <2>1, <2>3, SameShape, MemoryStep DEF TakeRow
<1>3. CASE TakeCommand(w)
  <2>1. WriterShape' /\ JobShape' /\ OtherJobs(w) /\ job'[w] = Persist(writer[w].batch)
    BY <1>3, TakeCommandFacts DEF Shape, OtherJobs
  <2>2. \A p \in Persisters : GoesOn(p)
    BY <1>1, <2>1, GoesOnCases, OneJobGoesOn
  <2> QED
    BY <1>3, <2>1, <2>2, SameShape, MemoryStep DEF TakeCommand
<1>4. CASE TakeCommandOnEmpty(w)
  <2>1. WriterShape' /\ AnswerShape'
    BY <1>4, TakeCommandOnEmptyFacts DEF Shape, AnswerShape
  <2>2. \A p \in Persisters : GoesOn(p)
    BY <1>4 DEF TakeCommandOnEmpty, GoesOn
  <2> QED
    BY <1>4, <2>1, <2>2, SameShape, MemoryStep DEF TakeCommandOnEmpty
<1>5. CASE Deadline(w)
  <2>1. JobShape' /\ OtherJobs(w) /\ job'[w] = Persist(writer[w].batch)
    BY <1>5, DeadlineFacts DEF Shape, OtherJobs
  <2>2. \A p \in Persisters : GoesOn(p)
    BY <1>1, <2>1, GoesOnCases, OneJobGoesOn
  <2> QED
    BY <1>5, <2>1, <2>2, SameShape, MemoryStep DEF Deadline, memory
<1>6. CASE Persisted(w)
  <2>1. WriterShape' /\ JobShape' /\ AnswerShape' /\ OtherJobs(w) /\ job'[w] = NoJob
    BY <1>6, PersistedFacts DEF Shape, AnswerShape, OtherJobs
  <2>2. \A p \in Persisters : GoesOn(p)
    BY <1>1, <2>1, GoesOnCases, OneJobGoesOn
  <2> QED
    BY <1>6, <2>1, <2>2, SameShape, MemoryStep DEF Persisted
<1>7. CASE WriterFails(w)
  <2>1. WriterShape' /\ JobShape' /\ AnswerShape' /\ OtherJobs(w) /\ job'[w] = NoJob
    BY <1>7, WriterFailsFacts DEF Shape, AnswerShape, OtherJobs
  <2>2. \A p \in Persisters : GoesOn(p)
    BY <1>1, <2>1, GoesOnCases, OneJobGoesOn
  <2> QED
    BY <1>7, <2>1, <2>2, SameShape, MemoryStep DEF WriterFails
<1> QED
  BY <1>2, <1>3, <1>4, <1>5, <1>6, <1>7 DEF WriterStep

LEMMA ParentFlushedIs ==
    ASSUME Shape, Frame, Children, ParentFlushed
    PROVE  /\ runner.pc = "parent" /\ answer = "ok" /\ runner.next - 1 \in Browser
           /\ UNCHANGED <<side, database>> /\ answer' = "none"
           /\ RunnerShape' /\ ChannelShape' /\ WriterShape' /\ JobShape'
           /\ channel'.durable = channel.durable \cup {runner.next - 1}
           /\ channel'.waiting = channel.waiting /\ channel'.history = channel.history
           /\ channel'.unmarked = [channel.unmarked EXCEPT ![runner.next - 1] = <<>>]
           /\ channel'.closed = channel.closed
           /\ \/ /\ Runs("stream", runner.next, runner.status) /\ runner'.kept = runner.kept
                 /\ writer'["kernel"] = writer["kernel"] /\ job' = job
                 /\ Pushed("side", Items(channel.unmarked[runner.next - 1]))
                 /\ SameBut("side", {"queue"})
                 /\ channel'.accepted = channel.accepted
                                        \cup Range(channel.unmarked[runner.next - 1])
              \/ Aborted /\ channel'.accepted = channel.accepted
<1>1. /\ runner.pc = "parent" /\ answer = "ok" /\ UNCHANGED <<side, database>>
  BY DEF ParentFlushed
<1>2. runner.next - 1 \in Browser /\ runner.next - 1 \in Starts
  BY <1>1, StartsAssumption DEF Frame
<1>3. Range(channel.unmarked[runner.next - 1]) \subseteq channel.history
  <2>1. channel.unmarked[runner.next - 1] \in Seq(Sides)
    BY <1>2 DEF Shape, ChannelShape
  <2>2. Range(channel.unmarked[runner.next - 1])
          = {channel.unmarked[runner.next - 1][i] : i \in 1 .. Len(channel.unmarked[runner.next - 1])}
    BY <2>1, RangeOfSides
  <2> QED
    BY <1>2, <2>2 DEF Children
<1> DEFINE P == /\ RunnerShape' /\ ChannelShape' /\ WriterShape' /\ JobShape'
           /\ channel'.durable = channel.durable \cup {runner.next - 1}
           /\ channel'.waiting = channel.waiting /\ channel'.history = channel.history
           /\ channel'.unmarked = [channel.unmarked EXCEPT ![runner.next - 1] = <<>>]
           /\ channel'.closed = channel.closed
           /\ answer' = "none"
           Q == /\ runner' = [runner EXCEPT !.pc = "stream"]
                 /\ writer'["kernel"] = writer["kernel"] /\ job' = job
                 /\ Pushed("side", Items(channel.unmarked[runner.next - 1]))
                 /\ SameBut("side", {"queue"})
                 /\ channel'.accepted = channel.accepted
                                        \cup Range(channel.unmarked[runner.next - 1])
<1>4. P /\ (Q \/ (Abort /\ channel'.accepted = channel.accepted))
  BY <1>2, <1>3, ParentFlushedFacts DEF Shape
<1>5. ASSUME Q
      PROVE  Runs("stream", runner.next, runner.status) /\ runner'.kept = runner.kept
  BY <1>4, <1>5 DEF Shape, RunnerShape, RunnerRecords, Runs
<1>6. Abort => Aborted
  BY AbortIs DEF Shape
<1> QED
  BY <1>1, <1>2, <1>4, <1>5, <1>6

LEMMA AbortStep ==
    ASSUME Shape, JobInv, Aborted, ChannelShape', UNCHANGED <<side, database>>
    PROVE  StepInv
BY AbortedJobs, SameShape, MemoryStep DEF Aborted

LEMMA QuietStep ==
    ASSUME Shape, JobInv, RunnerShape', answer' \in {answer, "none"}, ChannelShape', WriterShape',
           UNCHANGED <<side, job, database>>
    PROVE  StepInv
<1>1. \A p \in Persisters : GoesOn(p)
  BY DEF GoesOn
<1>2. AnswerShape'
  BY DEF Shape, AnswerShape
<1> QED
  BY <1>1, <1>2, SameShape, MemoryStep

LEMMA RunnerSteps ==
    ASSUME Shape, JobInv, Frame, Children, RunnerStep \/ Disconnect \/ Interrupt
    PROVE  StepInv
<1>1. CASE Receive
  <2>0. channel' = Known(runner.next) /\ runner.next \in Nat
    BY <1>1, ReceiveFacts, LastAssumption
  <2>1. ChannelShape'
    BY <2>0, KnownFacts DEF Shape
  <2> QED
    BY <1>1, <2>1, ReceiveFacts, AbortStep, QuietStep DEF Handed, Runs
<1>2. CASE ParentFlushed
  <2>1. CASE Aborted
    BY <1>2, <2>1, ParentFlushedIs, AbortStep
  <2>2. CASE ~Aborted
    BY <1>2, <2>2, ParentFlushedIs, QuietStep
  <2> QED
    BY <2>1, <2>2
<1>3. CASE EndFlushed
  BY <1>3, EndFlushedFacts, SameShape, AbortStep, QuietStep DEF Runs
<1>4. CASE FlushRaises \/ Interrupt
  BY <1>4, FlushRaisesFacts, SameShape, AbortStep
<1>5. CASE CloseAfterEnd
  BY <1>5, CloseAfterEndFacts, ClosesShape, QuietStep DEF Closes, Shape
<1>6. CASE CloseAfterFailure
  <2>1. /\ Closes(writer, runner.status) /\ UNCHANGED <<side, database>>
        /\ JobShape' /\ OtherJobs("failure") /\ job'["failure"] = NoJob
    BY <1>6, CloseAfterFailureFacts
  <2>2. "failure" \in Persisters
    BY DEF Persisters
  <2>3. \A p \in Persisters : GoesOn(p)
    BY <2>1, <2>2, GoesOnCases, OneJobGoesOn
  <2>4. ChannelShape'
    BY <2>1, ClosesShape DEF Shape
  <2>5. RunnerShape' /\ WriterShape' /\ answer' = "none"
    BY <2>1 DEF Closes
  <2> QED
    BY <2>1, <2>3, <2>4, <2>5, SameShape, MemoryStep
<1>7. CASE SideClosed
  BY <1>7, SideClosedFacts, SameShape, QuietStep
<1>8. CASE SideStopped
  BY <1>8, SideStoppedFacts, SameShape, QuietStep
<1>9. CASE KernelClosed
  BY <1>9, KernelClosedFacts, SameShape, QuietStep
<1>10. CASE KernelStopped \/ Settle
  <2>1. /\ RunnerShape' /\ DatabaseShape'
        /\ UNCHANGED <<answer, channel, side, writer, job, inbox, ordinal>>
        /\ counter <= counter'
    BY <1>10, SettlingFacts
  <2>2. Shape'
    BY <2>1, SameShape DEF Shape
  <2>3. \A p \in Persisters : GoesOn(p)
    BY <2>1 DEF GoesOn
  <2> QED
    BY <2>1, <2>2, <2>3, JobsGoOn DEF StepInv, DatabaseShape, Shape
<1>11. CASE Disconnect
  BY <1>11, DisconnectFacts, SameShape, AbortStep, QuietStep DEF Runs, Handed
<1> QED
  BY <1>1, <1>2, <1>3, <1>4, <1>5, <1>6, <1>7, <1>8, <1>9, <1>10, <1>11 DEF RunnerStep

LEMMA OutsideSteps ==
    ASSUME Shape, JobInv,
           Cancel \/ Crash \/ Ingest \/ Ingested \/ (\E s \in Sides : Publish(s))
             \/ UNCHANGED vars
    PROVE  StepInv
<1>1. CASE Cancel
  <2>1. UNCHANGED <<side, database>> /\ (CancelTurn \/ CancelEnding)
    BY <1>1 DEF Cancel
  <2>2. CASE CancelTurn
    <3>1. UNCHANGED job /\ RunnerShape' /\ WriterShape' /\ answer' = "none"
      BY <2>2, CancelTurnFacts DEF Closes
    <3>2. ChannelShape'
      BY <2>2, CancelTurnFacts, ClosesShape DEF Shape
    <3> QED
      BY <2>1, <3>1, <3>2, QuietStep
  <2>3. CASE CancelEnding
    <3>1. /\ RunnerShape' /\ WriterShape' /\ JobShape' /\ UNCHANGED channel
          /\ answer' = "none" /\ OtherJobs("failure") /\ job'["failure"] = NoJob
      BY <2>3, CancelEndingFacts
    <3>2. "failure" \in Persisters
      BY DEF Persisters
    <3>3. \A p \in Persisters : GoesOn(p)
      BY <3>1, <3>2, GoesOnCases, OneJobGoesOn
    <3> QED
      BY <2>1, <3>1, <3>3, SameShape, MemoryStep
  <2> QED
    BY <2>1, <2>2, <2>3
<1>2. CASE Crash
  <2>1. \A p \in Persisters : GoesOn(p)
    BY <1>2, CrashFacts, GoesOnCases
  <2> QED
    BY <1>2, <2>1, CrashFacts, SameShape, MemoryStep
<1>3. CASE Ingest
  <2>1. /\ JobShape' /\ OtherJobs("sweep")
        /\ \E rows \in Seq(Natives) : job'["sweep"] = Persist(rows)
    BY <1>3, IngestFacts DEF Shape
  <2>2. "sweep" \in Persisters /\ Feed("sweep") = Natives
    BY PersistersAre
  <2>3. GoesOn("sweep")
    BY <2>1, <2>2, GoesOnCases
  <2>4. \A p \in Persisters : GoesOn(p)
    BY <2>1, <2>2, <2>3, OneJobGoesOn
  <2> QED
    BY <1>3, <2>1, <2>4, SameShape, MemoryStep DEF Ingest, memory
<1>4. CASE Ingested
  <2>1. job' = [job EXCEPT !["sweep"] = NoJob] /\ UNCHANGED <<memory, database>>
    BY <1>4 DEF Ingested
  <2>2. "sweep" \in Persisters
    BY DEF Persisters
  <2>3. JobShape' /\ OtherJobs("sweep") /\ job'["sweep"] = NoJob
    BY <2>1, <2>2, JobEndFacts DEF Shape
  <2>4. \A p \in Persisters : GoesOn(p)
    BY <2>2, <2>3, GoesOnCases, OneJobGoesOn
  <2> QED
    BY <2>1, <2>3, <2>4, SameShape, MemoryStep DEF memory
<1>5. ASSUME NEW s \in Sides, Publish(s)
      PROVE  StepInv
  <2>1. ChannelShape' /\ WriterShape' /\ SideShape'
    BY <1>5, PublishFacts DEF Shape
  <2>2. UNCHANGED <<runner, answer, job, database>>
    BY <1>5, Zenon DEF Publish
  <2>3. \A p \in Persisters : GoesOn(p)
    BY <2>2 DEF GoesOn
  <2> QED
    BY <2>1, <2>2, <2>3, SameShape, MemoryStep
<1>6. CASE UNCHANGED vars
  <2>1. UNCHANGED <<runner, answer, channel, side, writer, job, database>>
    BY <1>6 DEF vars, memory
  <2> QED
    BY <2>1, SameShape, QuietStep
<1> QED
  BY <1>1, <1>2, <1>3, <1>4, <1>5, <1>6

LEMMA ShapeAndJobs ==
    ASSUME EventInv, [Next]_vars
    PROVE  StepInv
<1>1. Shape /\ JobInv /\ Frame /\ Children
  BY ShapeIsType DEF EventInv, JobInv
<1>2. ASSUME NEW p \in Persisters, PersistStep(p) \/ PersistFails(p)
      PROVE  StepInv
  BY <1>1, <1>2, DatabaseSteps DEF PersistStep
<1>3. ASSUME NEW w \in Writers, WriterStep(w)
      PROVE  StepInv
  BY <1>1, <1>3, WriterSteps
<1> QED
  BY <1>1, <1>2, <1>3, RunnerSteps, OutsideSteps DEF Next

------------------------------------------------------------------------------
(* The steps around a writer, as it sees them.                             *)

\* The writer keeps its batch, and its queue the rows.
KeptRows(w) ==
    /\ writer'[w].batch = writer[w].batch /\ writer'[w].st = writer[w].st
    /\ writer[w].held = "none" => writer'[w].held = "none"
    /\ \A i \in 1 .. Len(writer[w].queue) : writer[w].queue[i][1] = "row" =>
          i <= Len(writer'[w].queue) /\ writer'[w].queue[i] = writer[w].queue[i]
    /\ \A i \in 1 .. Len(writer'[w].queue) : writer'[w].queue[i][1] = "row" =>
          i <= Len(writer[w].queue) /\ writer'[w].queue[i] = writer[w].queue[i]

LEMMA Keeps ==
    ASSUME WriterShape, NEW w \in Writers
    PROVE  /\ writer'[w] = writer[w] => KeptRows(w)
           /\ Forgotten(writer'[w], writer[w]) => KeptRows(w)
           /\ \A v : \A x \in Commands :
                (v = writer[w] \/ Forgotten(v, writer[w])) /\ Extended(writer'[w], v, x)
                  => KeptRows(w)
<1>1. Len(writer[w].queue) \in Nat
  BY WriterParts
<1>2. writer'[w] = writer[w] => KeptRows(w)
  BY <1>1 DEF KeptRows
<1>3. Forgotten(writer'[w], writer[w]) => KeptRows(w)
  BY <1>1, EntryFacts DEF KeptRows, Forgotten
<1>4. ASSUME NEW x \in Commands, NEW v, Extended(writer'[w], v, x),
             v = writer[w] \/ Forgotten(v, writer[w])
      PROVE  KeptRows(w)
  <2> DEFINE n == Len(writer[w].queue)
  <2>1. n \in Nat /\ x[1] # "row"
    BY <1>1, EntryFacts
  <2>2. /\ Len(v.queue) = n /\ v.batch = writer[w].batch /\ v.st = writer[w].st
        /\ writer[w].held = "none" => v.held = "none"
        /\ \A i \in 1 .. n : v.queue[i] = writer[w].queue[i] \/ (v.queue[i] = Stale /\ writer[w].queue[i] = Flush)
    BY <1>4 DEF Forgotten
  <2>3. /\ Len(writer'[w].queue) = n + 1 /\ writer'[w].queue[n + 1] = x
        /\ \A i \in 1 .. n : writer'[w].queue[i] = v.queue[i]
        /\ writer'[w].batch = v.batch /\ writer'[w].st = v.st /\ writer'[w].held = v.held
    BY <1>4, <2>2 DEF Extended
  <2>4. \A i \in 1 .. n : writer'[w].queue[i][1] = "row" \/ writer[w].queue[i][1] = "row" =>
          writer'[w].queue[i] = writer[w].queue[i]
    BY <2>2, <2>3, EntryFacts
  <2> HIDE DEF n
  <2>5. \A i \in 1 .. n + 1 : i = n + 1 \/ i \in 1 .. n
    BY <2>1
  <2>6. \A i \in 1 .. n : i <= n + 1
    BY <2>1
  <2> QED
    BY <2>1, <2>2, <2>3, <2>4, <2>5, <2>6 DEF KeptRows, n
<1> QED
  BY <1>2, <1>3, <1>4

\* The event writer, when no step is its own or of the collections.
KernelMoves ==
    /\ UNCHANGED <<inbox, ordinal, cursor>>
    /\ \/ /\ KeptRows("kernel") /\ job'["kernel"] = job["kernel"]
          /\ runner'.next = runner.next
          /\ runner'.pc \in Streaming => runner.pc \in Streaming
          /\ runner'.status \in {runner.status, "failed", "cancelled"}
       \/ /\ Emptied("kernel") /\ runner'.pc \notin Streaming
          /\ \/ job'["kernel"] = NoJob
             \/ job'["kernel"] = job["kernel"] /\ writer'["kernel"].st = "cancelled"
          /\ runner'.status \in {runner.status, "failed"}
       \/ /\ runner.pc = "stream" /\ ~Failed("kernel")
          /\ \E flushed \in BOOLEAN : Handed(Native(runner.next), flushed)
          /\ runner'.next = runner.next + 1 /\ runner'.status \in {runner.status, "completed"}
       \/ /\ runner.pc = "stream" /\ ~Failed("kernel")
          /\ Handed(Lost(runner.next), TRUE)
          /\ runner'.next = runner.next /\ runner'.status = "failed"
    /\ \/ job'["sweep"] \in {job["sweep"], NoJob}
       \/ \E rows \in Seq(Natives) : /\ job'["sweep"] = Persist(rows)
                                     /\ \A i \in 1 .. Len(rows) : rows[i] = Native(cursor + i)

\* The kernel's writer and job are as they were.
LEMMA KernelRests ==
    ASSUME WriterShape, writer'["kernel"] = writer["kernel"], job'["kernel"] = job["kernel"],
           job'["sweep"] \in {job["sweep"], NoJob}, UNCHANGED <<inbox, ordinal, cursor>>,
           runner'.next = runner.next, runner'.pc \in Streaming => runner.pc \in Streaming,
           runner'.status \in {runner.status, "failed", "cancelled"}
    PROVE  KernelMoves
BY Keeps DEF KernelMoves, Writers

LEMMA KernelExtended ==
    ASSUME WriterShape, NEW x \in Commands, Extended(writer'["kernel"], writer["kernel"], x),
           job'["kernel"] = job["kernel"],
           job'["sweep"] \in {job["sweep"], NoJob}, UNCHANGED <<inbox, ordinal, cursor>>,
           runner'.next = runner.next, runner'.pc \notin Streaming,
           runner'.status \in {runner.status, "failed", "cancelled"}
    PROVE  KernelMoves
BY Keeps DEF KernelMoves, Writers

LEMMA KernelAborts ==
    ASSUME Aborted, UNCHANGED <<inbox, ordinal, cursor>>
    PROVE  KernelMoves
BY DEF KernelMoves, Aborted, Streaming

LEMMA KernelSteps ==
    ASSUME Shape, Frame, Children,
           RunnerStep \/ Disconnect \/ Interrupt \/ Cancel \/ Crash \/ Ingest \/ Ingested
             \/ (\E s \in Sides : Publish(s)) \/ WriterStep("side") \/ UNCHANGED vars
    PROVE  KernelMoves
<1>0. WriterShape /\ JobShape /\ Flush \in Commands /\ Stop \in Commands
  BY DEF Shape, Commands
<1>1. CASE Receive
  <2>1. UNCHANGED <<inbox, ordinal, cursor>> /\ runner.pc = "stream"
    BY <1>1, ReceiveFacts DEF database
  <2>2. CASE Aborted
    BY <2>1, <2>2, KernelAborts
  <2>3. CASE ~Aborted
    <3>1. PICK pc \in {"stream", "parent", "end"} :
            /\ Runs(pc, runner.next + 1,
                    IF runner.next = Last THEN "completed" ELSE runner.status)
            /\ Handed(Native(runner.next), pc # "stream") /\ ~Failed("kernel")
      BY <1>1, <2>3, ReceiveFacts
    <3>2. \E flushed \in BOOLEAN : Handed(Native(runner.next), flushed)
      BY <3>1
    <3>3. job' = job /\ runner'.next = runner.next + 1
          /\ runner'.status \in {runner.status, "completed"}
      BY <3>1 DEF Handed, Runs
    <3> QED
      BY <2>1, <3>1, <3>2, <3>3 DEF KernelMoves
  <2> QED
    BY <2>2, <2>3
<1>2. CASE Disconnect
  BY <1>2, DisconnectFacts, KernelAborts DEF KernelMoves, Handed, Runs, database
<1>3. CASE ParentFlushed
  <2>1. CASE Aborted
    BY <1>3, <2>1, ParentFlushedIs, KernelAborts DEF database
  <2>2. CASE ~Aborted
    BY <1>0, <1>3, <2>2, ParentFlushedIs, KernelRests DEF database, Runs, Streaming
  <2> QED
    BY <2>1, <2>2
<1>4. CASE EndFlushed
  BY <1>0, <1>4, EndFlushedFacts, KernelAborts, KernelRests DEF database, Runs, Streaming
<1>5. CASE FlushRaises \/ Interrupt
  BY <1>5, FlushRaisesFacts, KernelAborts DEF database
<1>6. CASE CloseAfterEnd
  BY <1>0, <1>6, CloseAfterEndFacts, KernelRests DEF database, Closes, Streaming
<1>7. CASE CloseAfterFailure
  BY <1>0, <1>7, CloseAfterFailureFacts, PersistersAre, KernelRests DEF database, Closes, Streaming, OtherJobs
<1>8. CASE SideClosed
  BY <1>0, <1>8, SideClosedFacts, KernelRests DEF database, Streaming
<1>9. CASE SideStopped
  BY <1>0, <1>9, SideStoppedFacts, KernelRests, KernelExtended DEF database, Streaming
<1>10. CASE KernelClosed
  BY <1>0, <1>10, KernelClosedFacts, KernelRests, KernelExtended DEF database, Streaming
<1>11. CASE KernelStopped \/ Settle
  BY <1>0, <1>11, SettlingFacts, KernelRests DEF Streaming
<1>12. CASE Cancel
  <2>1. UNCHANGED <<inbox, ordinal, cursor>> /\ (CancelTurn \/ CancelEnding)
    BY <1>12 DEF Cancel, database
  <2>2. CASE CancelTurn
    <3>1. /\ Closes([w \in Writers |-> Forget(w)], "cancelled") /\ job' = job
          /\ Forgotten(Forget("kernel"), writer["kernel"]) /\ "kernel" \in Writers
      BY <2>2, CancelTurnFacts DEF Writers
    <3>2. Forgotten(writer'["kernel"], writer["kernel"])
      BY <3>1 DEF Closes
    <3>3. KeptRows("kernel")
      BY <1>0, <3>1, <3>2, Keeps
    <3> QED
      BY <2>1, <3>1, <3>3 DEF KernelMoves, Closes, Streaming
  <2>3. CASE CancelEnding
    <3>1. /\ "kernel" \in Writers /\ job'["kernel"] = job["kernel"] /\ job'["sweep"] = job["sweep"]
          /\ runner'.pc \notin Streaming /\ runner'.next = runner.next
          /\ runner'.status = runner.status
          /\ \/ Emptied("kernel") /\ writer'["kernel"].st = "cancelled"
             \/ Forgotten(writer'["kernel"], writer["kernel"])
      BY <2>3, CancelEndingFacts, PersistersAre DEF Streaming, OtherJobs
    <3> QED
      BY <1>0, <2>1, <3>1, Keeps DEF KernelMoves
  <2> QED
    BY <2>1, <2>2, <2>3
<1>13. CASE Crash
  BY <1>13, CrashFacts, PersistersAre DEF KernelMoves, Streaming, database
<1>14. CASE Ingest
  <2>1. /\ OtherJobs("sweep") /\ UNCHANGED <<memory, database>>
        /\ \E rows \in Seq(Natives) :
              job'["sweep"] = Persist(rows) /\ \A i \in 1 .. Len(rows) : rows[i] = Native(cursor + i)
    BY <1>0, <1>14, IngestFacts DEF Ingest, Shape
  <2>2. job'["kernel"] = job["kernel"] /\ UNCHANGED <<runner, writer, inbox, ordinal, cursor>>
    BY <2>1, PersistersAre DEF OtherJobs, memory, database
  <2>3. KeptRows("kernel")
    BY <1>0, <2>2, Keeps, PersistersAre
  <2> QED
    BY <2>1, <2>2, <2>3 DEF KernelMoves
<1>15. CASE Ingested
  <2>1. job' = [job EXCEPT !["sweep"] = NoJob] /\ UNCHANGED <<memory, database>>
    BY <1>15 DEF Ingested
  <2>2. "sweep" \in Persisters
    BY DEF Persisters
  <2>3. job'["kernel"] = job["kernel"] /\ job'["sweep"] = NoJob
    BY <1>0, <2>1, <2>2, JobEndFacts, PersistersAre DEF OtherJobs
  <2> QED
    BY <1>0, <2>1, <2>3, KernelRests DEF memory, database
<1>16. ASSUME NEW s \in Sides, Publish(s)
       PROVE  KernelMoves
  <2>1. writer'["kernel"] = writer["kernel"]
    BY <1>16, PublishFacts DEF Shape
  <2>2. UNCHANGED <<runner, answer, job, database>>
    BY <1>16, Zenon DEF Publish
  <2> QED
    BY <1>0, <2>1, <2>2, KernelRests DEF database
<1>17. CASE WriterStep("side")
  <2>1. UNCHANGED <<runner, database>>
    BY <1>17, Zenon DEF WriterStep, TakeRow, TakeCommand, TakeCommandOnEmpty, Deadline, Persisted,
                 WriterFails, memory
  <2>2. writer'["kernel"] = writer["kernel"] /\ job'["kernel"] = job["kernel"]
        /\ job'["sweep"] = job["sweep"]
    <3>1. "side" \in Writers /\ "kernel" \in Writers \ {"side"}
          /\ {"kernel", "sweep"} \subseteq Persisters \ {"side"}
      BY PersistersAre
    <3>2. CASE TakeRow("side")
      BY <1>0, <3>1, <3>2, TakeRowFacts
    <3>3. CASE TakeCommand("side")
      BY <1>0, <3>1, <3>3, TakeCommandFacts
    <3>4. CASE TakeCommandOnEmpty("side")
      BY <1>0, <3>1, <3>4, TakeCommandOnEmptyFacts DEF TakeCommandOnEmpty
    <3>5. CASE Deadline("side")
      BY <1>0, <3>1, <3>5, DeadlineFacts DEF Deadline, memory
    <3>6. CASE Persisted("side")
      BY <1>0, <3>1, <3>6, PersistedFacts
    <3>7. CASE WriterFails("side")
      BY <1>0, <3>1, <3>7, WriterFailsFacts
    <3> QED
      BY <1>17, <3>2, <3>3, <3>4, <3>5, <3>6, <3>7 DEF WriterStep
  <2> QED
    BY <1>0, <2>1, <2>2, KernelRests DEF database
<1>18. CASE UNCHANGED vars
  BY <1>0, <1>18, KernelRests DEF vars, memory, database
<1> QED
  BY <1>1, <1>2, <1>3, <1>4, <1>5, <1>6, <1>7, <1>8, <1>9, <1>10, <1>11, <1>12, <1>13, <1>14,
     <1>15, <1>16, <1>17, <1>18 DEF RunnerStep

\* The side writer's queue has the side rows ss more at its end.
Grows(ss) ==
    /\ SameBut("side", {"queue"}) /\ Len(Band.queue) <= Len(writer'["side"].queue)
    /\ \A i \in 1 .. Len(Band.queue) : writer'["side"].queue[i] = Band.queue[i]
    /\ \A i \in 1 .. Len(writer'["side"].queue) :
          i <= Len(Band.queue) \/ \E s \in ss : writer'["side"].queue[i] = Row(Side(s))
    /\ \A s \in ss : \E i \in 1 .. Len(writer'["side"].queue) :
          writer'["side"].queue[i] = Row(Side(s))

\* The side writer, when no step is its own or of the collections.
BandMoves ==
    \/ /\ KeptRows("side") /\ job'["side"] = job["side"]
       /\ channel'.accepted = channel.accepted
    \/ /\ Emptied("side") /\ channel'.accepted \subseteq channel.accepted
       /\ \/ job'["side"] = NoJob
          \/ job'["side"] = job["side"] /\ writer'["side"].st = "cancelled"
    \/ \E ss \in SUBSET Sides :
          /\ Grows(ss) /\ job'["side"] = job["side"] /\ ~Over
          /\ channel'.accepted = channel.accepted \cup ss
          /\ \A s \in ss : Parent[s] \in channel'.durable \cup {None}

LEMMA BandRests ==
    ASSUME WriterShape, job'["side"] = job["side"], channel'.accepted = channel.accepted,
           \/ writer'["side"] = writer["side"]
           \/ Forgotten(writer'["side"], writer["side"])
           \/ \E v : \E x \in Commands :
                 (v = writer["side"] \/ Forgotten(v, writer["side"]))
                    /\ Extended(writer'["side"], v, x)
    PROVE  BandMoves
BY Keeps DEF BandMoves, Writers

LEMMA PushedGrows ==
    ASSUME WriterShape, NEW rows \in Seq(Sides), Pushed("side", Items(rows)),
           SameBut("side", {"queue"})
    PROVE  Grows(Range(rows))
<1> DEFINE n == Len(Band.queue)
           m == Len(rows)
           q == writer'["side"].queue
           items == Items(rows)
<1>1. n \in Nat
  BY WriterParts, PersistersAre DEF Band
<1>2. m \in Nat /\ Len(items) = m /\ \A i \in 1 .. m : items[i] = Row(Side(rows[i]))
  BY ItemsFacts
<1>3. Range(rows) = {rows[i] : i \in 1 .. m}
  BY RangeOfSides
<1>4. /\ Len(q) = n + m
      /\ \A i \in 1 .. n + m : q[i] = IF i <= n THEN Band.queue[i] ELSE items[i - n]
  BY <1>2 DEF Pushed, Band
<1> HIDE DEF n, m, q, items
<1>5. \A i \in 1 .. n : q[i] = Band.queue[i]
  BY <1>1, <1>2, <1>4
<1>6. \A i \in 1 .. n + m : i <= n \/ (i - n \in 1 .. m /\ q[i] = items[i - n])
  BY <1>1, <1>2, <1>4
<1>7. \A i \in 1 .. m : n + i \in 1 .. n + m /\ q[n + i] = items[i]
  <2> TAKE i \in 1 .. m
  <2>1. n + i \in 1 .. n + m /\ ~(n + i <= n) /\ (n + i) - n = i
    BY <1>1, <1>2
  <2> QED
    BY <1>4, <2>1
<1>8. \A i \in 1 .. n + m : i <= n \/ \E s \in Range(rows) : q[i] = Row(Side(s))
  BY <1>2, <1>3, <1>6
<1>9. \A s \in Range(rows) : \E i \in 1 .. n + m : q[i] = Row(Side(s))
  BY <1>2, <1>3, <1>7
<1>10. n <= n + m
  BY <1>1, <1>2
<1> QED
  BY <1>4, <1>5, <1>8, <1>9, <1>10 DEF Grows, n, q

LEMMA ExtendedGrows ==
    ASSUME WriterShape, NEW s \in Sides, Extended(writer'["side"], writer["side"], Row(Side(s)))
    PROVE  Grows({s})
<1> DEFINE n == Len(Band.queue)
           q == writer'["side"].queue
<1>1. n \in Nat
  BY WriterParts, PersistersAre DEF Band
<1>2. /\ Len(q) = n + 1 /\ \A i \in 1 .. n : q[i] = Band.queue[i]
      /\ q[n + 1] = Row(Side(s))
  BY DEF Extended, Band
<1>3. SameBut("side", {"queue"})
  BY DEF Extended, SameBut
<1> HIDE DEF n, q
<1>4. \A i \in 1 .. n + 1 : i <= n \/ i = n + 1
  BY <1>1
<1>5. n <= n + 1 /\ n + 1 \in 1 .. n + 1
  BY <1>1
<1> QED
  BY <1>2, <1>3, <1>4, <1>5 DEF Grows, n, q

LEMMA KernelStepSides ==
    ASSUME Shape, WriterStep("kernel")
    PROVE  /\ writer'["side"] = writer["side"] /\ job'["side"] = job["side"]
           /\ job'["sweep"] = job["sweep"] /\ job'["failure"] = job["failure"]
           /\ UNCHANGED <<runner, channel, side, database>>
<1>0. WriterShape /\ JobShape
  BY DEF Shape
<1>1. UNCHANGED <<runner, channel, side, database>>
  BY Zenon DEF WriterStep, TakeRow, TakeCommand, TakeCommandOnEmpty, Deadline, Persisted,
               WriterFails, memory
<1>2. "kernel" \in Writers /\ "side" \in Writers \ {"kernel"}
      /\ {"side", "sweep", "failure"} \subseteq Persisters \ {"kernel"}
  BY PersistersAre
<1>3. CASE TakeRow("kernel")
  BY <1>0, <1>1, <1>2, <1>3, TakeRowFacts
<1>4. CASE TakeCommand("kernel")
  BY <1>0, <1>1, <1>2, <1>4, TakeCommandFacts
<1>5. CASE TakeCommandOnEmpty("kernel")
  BY <1>0, <1>1, <1>2, <1>5, TakeCommandOnEmptyFacts DEF TakeCommandOnEmpty
<1>6. CASE Deadline("kernel")
  BY <1>0, <1>1, <1>2, <1>6, DeadlineFacts DEF Deadline, memory
<1>7. CASE Persisted("kernel")
  BY <1>0, <1>1, <1>2, <1>7, PersistedFacts
<1>8. CASE WriterFails("kernel")
  BY <1>0, <1>1, <1>2, <1>8, WriterFailsFacts
<1> QED
  BY <1>3, <1>4, <1>5, <1>6, <1>7, <1>8 DEF WriterStep

LEMMA BandSteps ==
    ASSUME Shape, Frame, Children,
           RunnerStep \/ Disconnect \/ Interrupt \/ Cancel \/ Crash \/ Ingest \/ Ingested
             \/ (\E s \in Sides : Publish(s)) \/ WriterStep("kernel") \/ UNCHANGED vars
    PROVE  BandMoves
<1>0. WriterShape /\ JobShape /\ ChannelShape /\ Flush \in Commands /\ Stop \in Commands
  BY DEF Shape, Commands
<1>1. CASE Receive
  <2>1. channel' = Known(runner.next) /\ runner.next \in Nat
    BY <1>1, ReceiveFacts, LastAssumption
  <2>2. channel'.accepted = channel.accepted
    BY <1>0, <2>1, KnownFacts
  <2>3. writer'["side"] = writer["side"] /\ job'["side"] = job["side"]
    BY <1>1, ReceiveFacts DEF Handed, Aborted
  <2> QED
    BY <1>0, <2>2, <2>3, BandRests
<1>2. CASE Disconnect
  BY <1>0, <1>2, DisconnectFacts, BandRests DEF Handed, Aborted
<1>3. CASE ParentFlushed
  <2>1. CASE Aborted
    <3>1. channel'.accepted \subseteq channel.accepted \cup Sides
      BY <1>3, ParentFlushedIs DEF ChannelShape
    <3>2. channel'.accepted = channel.accepted
      <4>1. Aborted => runner'.pc # "stream"
        BY DEF Aborted
      <4> QED
        BY <1>3, <2>1, <4>1, ParentFlushedIs DEF Runs
    <3> QED
      BY <1>0, <2>1, <3>2, BandRests DEF Aborted
  <2>2. CASE ~Aborted
    <3> DEFINE rows == channel.unmarked[runner.next - 1]
    <3>1. /\ runner.pc = "parent" /\ runner.next - 1 \in Starts
          /\ Pushed("side", Items(rows)) /\ SameBut("side", {"queue"}) /\ job' = job
          /\ channel'.accepted = channel.accepted \cup Range(rows)
          /\ channel'.durable = channel.durable \cup {runner.next - 1}
      BY <1>3, <2>2, ParentFlushedIs, StartsAssumption
    <3>2. rows \in Seq(Sides)
      BY <1>0, <3>1 DEF ChannelShape
    <3>3. /\ Range(rows) \subseteq Sides
          /\ \A s \in Range(rows) : Parent[s] = runner.next - 1
      BY <3>1, <3>2, RangeOfSides DEF Children
    <3>4. ~Over
      BY <3>1 DEF Over, Late
    <3> HIDE DEF rows
    <3>5. Grows(Range(rows))
      BY <1>0, <3>1, <3>2, PushedGrows
    <3> QED
      BY <3>1, <3>3, <3>4, <3>5 DEF BandMoves
  <2> QED
    BY <2>1, <2>2
<1>4. CASE EndFlushed
  BY <1>0, <1>4, EndFlushedFacts, BandRests DEF Aborted
<1>5. CASE FlushRaises \/ Interrupt
  BY <1>0, <1>5, FlushRaisesFacts, BandRests DEF Aborted
<1>6. CASE CloseAfterEnd
  BY <1>0, <1>6, CloseAfterEndFacts, ClosesShape, BandRests DEF Closes
<1>7. CASE CloseAfterFailure
  BY <1>0, <1>7, CloseAfterFailureFacts, ClosesShape, PersistersAre, BandRests DEF Closes, OtherJobs
<1>8. CASE SideClosed
  BY <1>0, <1>8, SideClosedFacts, BandRests
<1>9. CASE SideStopped
  BY <1>0, <1>9, SideStoppedFacts, BandRests
<1>10. CASE KernelClosed
  BY <1>0, <1>10, KernelClosedFacts, BandRests
<1>11. CASE KernelStopped \/ Settle
  BY <1>0, <1>11, SettlingFacts, BandRests
<1>12. CASE Cancel
  <2>1. UNCHANGED <<inbox, ordinal, cursor>> /\ (CancelTurn \/ CancelEnding)
    BY <1>12 DEF Cancel, database
  <2>2. CASE CancelTurn
    <3> DEFINE ws == [w \in Writers |-> Forget(w)]
    <3>1. /\ Closes(ws, "cancelled") /\ job' = job
          /\ Forgotten(Forget("side"), writer["side"]) /\ ws["side"] = Forget("side")
      BY <2>2, CancelTurnFacts, PersistersAre
    <3> HIDE DEF ws
    <3>2. channel'.accepted = channel.accepted
      BY <1>0, <3>1, ClosesShape
    <3> QED
      BY <1>0, <3>1, <3>2, BandRests DEF Closes
  <2>3. CASE CancelEnding
    <3>1. /\ "side" \in Writers /\ job'["side"] = job["side"] /\ channel' = channel
          /\ \/ Emptied("side") /\ writer'["side"].st = "cancelled"
             \/ Forgotten(writer'["side"], writer["side"])
      BY <2>3, CancelEndingFacts, PersistersAre DEF OtherJobs
    <3> QED
      BY <1>0, <3>1, BandRests DEF BandMoves
  <2> QED
    BY <2>1, <2>2, <2>3
<1>13. CASE Crash
  BY <1>13, CrashFacts, PersistersAre DEF BandMoves
<1>14. CASE Ingest
  <2>1. OtherJobs("sweep") /\ UNCHANGED memory
    BY <1>14, IngestFacts DEF Ingest, Shape
  <2> QED
    BY <1>0, <2>1, BandRests, PersistersAre DEF memory, OtherJobs
<1>15. CASE Ingested
  <2>1. job' = [job EXCEPT !["sweep"] = NoJob] /\ UNCHANGED <<memory, database>>
    BY <1>15 DEF Ingested
  <2>2. "sweep" \in Persisters
    BY DEF Persisters
  <2>3. job'["side"] = job["side"]
    BY <1>0, <2>1, <2>2, JobEndFacts, PersistersAre DEF OtherJobs
  <2> QED
    BY <1>0, <2>1, <2>3, BandRests DEF memory
<1>16. ASSUME NEW s \in Sides, Publish(s)
       PROVE  BandMoves
  <2>1. UNCHANGED <<runner, answer, job, database>>
    BY <1>16, Zenon DEF Publish
  <2>2. /\ ~Over /\ channel'.durable = channel.durable
        /\ \/ writer' = writer /\ channel'.accepted = channel.accepted
           \/ /\ Extended(writer'["side"], writer["side"], Row(Side(s)))
              /\ channel'.accepted = channel.accepted \cup {s}
              /\ Parent[s] \in channel.durable \cup {None}
    BY <1>16, PublishFacts DEF Shape, Over
  <2>3. CASE writer' = writer /\ channel'.accepted = channel.accepted
    BY <1>0, <2>1, <2>3, BandRests
  <2>4. CASE /\ Extended(writer'["side"], writer["side"], Row(Side(s)))
             /\ channel'.accepted = channel.accepted \cup {s}
             /\ Parent[s] \in channel.durable \cup {None}
    <3>1. Grows({s})
      BY <1>0, <2>4, ExtendedGrows
    <3> QED
      BY <2>1, <2>2, <2>4, <3>1 DEF BandMoves
  <2> QED
    BY <2>2, <2>3, <2>4
<1>17. CASE WriterStep("kernel")
  BY <1>0, <1>17, KernelStepSides, BandRests
<1>18. CASE UNCHANGED vars
  BY <1>0, <1>18, BandRests DEF vars, memory
<1> QED
  BY <1>1, <1>2, <1>3, <1>4, <1>5, <1>6, <1>7, <1>8, <1>9, <1>10, <1>11, <1>12, <1>13, <1>14,
     <1>15, <1>16, <1>17, <1>18 DEF RunnerStep

\* A call's step: its job goes on with its rows or ends.
LEMMA PersistFacts ==
    ASSUME Shape, NEW p \in Persisters, PersistStep(p) \/ PersistFails(p)
    PROVE  /\ UNCHANGED memory /\ OtherJobs(p) /\ Active(p)
           /\ job'[p].phase \in {"write", "done", "failed"}
           /\ job'[p].phase = "write" => job'[p].rows = job[p].rows
           /\ job'[p].phase = "done" => AdvanceCursor(p)
           /\ cursor' = cursor \/ AdvanceCursor(p)
<1>0. JobShape /\ DatabaseShape
  BY DEF Shape
<1>1. UNCHANGED memory
  BY DEF PersistStep, PersistFails, Reserve, WriteInbox, WriteProjection, AdvanceCursor
<1>2. CASE Reserve(p)
  BY <1>0, <1>1, <1>2, ReserveFacts DEF Active, Reserve
<1>3. CASE WriteInbox(p)
  BY <1>0, <1>1, <1>3, WriteInboxFacts DEF Active, OneWritten, WriteInbox
<1>4. CASE WriteProjection(p)
  BY <1>0, <1>1, <1>4, WriteProjectionFacts DEF Active, OneWritten, WriteProjection
<1>5. CASE AdvanceCursor(p)
  BY <1>0, <1>1, <1>5, AdvanceCursorFacts, JobValues DEF Active, Gathered, Phases
<1>6. CASE PersistFails(p)
  BY <1>0, <1>1, <1>6, PersistFailsFacts, JobValues DEF Phases, PersistFails, database
<1> QED
  BY <1>1, <1>2, <1>3, <1>4, <1>5, <1>6 DEF PersistStep

------------------------------------------------------------------------------
(* A writer's job and its batch.                                           *)

BatchOf(w) ==
    /\ writer[w].st = "running" /\ Active(w) => job[w].rows = writer[w].batch
    /\ writer[w].st = "failed" => job[w] = NoJob
    /\ writer[w].st # "running" => writer[w].batch = <<>>
    /\ writer[w].held # "none" => writer[w].st = "running" /\ job[w] # NoJob

LEMMA BatchRests ==
    ASSUME NEW w \in Writers, BatchOf(w), job'[w] = job[w],
           KeptRows(w) \/ SameBut(w, {"queue"})
    PROVE  BatchOf(w)'
BY DEF BatchOf, KeptRows, SameBut, Active

LEMMA BatchEmptied ==
    ASSUME NEW w \in Writers, BatchOf(w), Emptied(w),
           job'[w] = NoJob \/ (job'[w] = job[w] /\ writer'[w].st = "cancelled")
    PROVE  BatchOf(w)'
BY DEF BatchOf, Emptied

LEMMA BatchOwnSteps ==
    ASSUME Shape, NEW w \in Writers, BatchOf(w), WriterStep(w)
    PROVE  BatchOf(w)'
<1>0. WriterShape /\ JobShape /\ w \in Persisters
  BY DEF Shape, Persisters
<1>1. \A rows \in Seq(Feed(w)) : job'[w] = Persist(rows) => job'[w] # NoJob /\ job'[w].rows = rows
  BY <1>0, JobValues
<1>2. job'[w] = NoJob => ~Active(w)'
  BY <1>0, JobValues DEF Active
<1>3. CASE TakeRow(w)
  <2>1. /\ writer'[w].st = "running" /\ writer[w].held = "none" /\ writer'[w].held = "none"
        /\ job'[w] = NoJob \/ job'[w] = Persist(writer'[w].batch)
        /\ writer'[w].batch \in Seq(Feed(w))
    BY <1>0, <1>3, TakeRowFacts DEF SameBut, BatchOf, WriterShape
  <2> QED
    BY <1>1, <1>2, <2>1 DEF BatchOf
<1>4. CASE TakeCommand(w)
  <2>1. /\ writer'[w].st = "running" /\ job'[w] = Persist(writer'[w].batch)
        /\ writer'[w].batch \in Seq(Feed(w))
    BY <1>0, <1>4, TakeCommandFacts DEF SameBut, WriterShape
  <2> QED
    BY <1>1, <2>1 DEF BatchOf
<1>5. CASE TakeCommandOnEmpty(w)
  <2>1. /\ writer'[w].st # "failed" /\ writer'[w].batch = <<>> /\ writer'[w].held = "none"
        /\ job'[w] = NoJob
    BY <1>0, <1>5, TakeCommandOnEmptyFacts DEF SameBut, BatchOf, TakeCommandOnEmpty
  <2> QED
    BY <1>2, <2>1 DEF BatchOf
<1>6. CASE Deadline(w)
  <2>1. /\ writer' = writer /\ writer'[w].st = "running" /\ job'[w] = Persist(writer'[w].batch)
        /\ writer'[w].batch \in Seq(Feed(w))
    BY <1>0, <1>6, DeadlineFacts DEF Deadline, memory, WriterShape
  <2> QED
    BY <1>1, <2>1 DEF BatchOf
<1>7. CASE Persisted(w)
  BY <1>0, <1>2, <1>7, PersistedFacts DEF BatchOf
<1>8. CASE WriterFails(w)
  BY <1>0, <1>2, <1>8, WriterFailsFacts DEF BatchOf
<1> QED
  BY <1>3, <1>4, <1>5, <1>6, <1>7, <1>8 DEF WriterStep

LEMMA BatchDatabaseSteps ==
    ASSUME Shape, NEW p \in Persisters, PersistStep(p) \/ PersistFails(p),
           NEW w \in Writers, BatchOf(w)
    PROVE  BatchOf(w)'
<1>1. /\ UNCHANGED memory /\ OtherJobs(p) /\ Active(p)
      /\ job'[p].phase \in {"write", "done", "failed"}
      /\ job'[p].phase = "write" => job'[p].rows = job[p].rows
  BY PersistFacts
<1>2. w \in Persisters /\ writer' = writer
  BY <1>1 DEF Persisters, memory
<1>3. NoJob.phase = "idle"
  BY DEF NoJob
<1>4. CASE w # p
  BY <1>1, <1>2, <1>4 DEF OtherJobs, BatchOf, Active
<1>5. CASE w = p
  BY <1>1, <1>2, <1>3, <1>5 DEF BatchOf, Active
<1> QED
  BY <1>4, <1>5

LEMMA BatchSteps ==
    ASSUME EventInv, [Next]_vars
    PROVE  BatchIsJob'
<1>1. Shape /\ Frame /\ Children /\ \A w \in Writers : BatchOf(w)
  BY ShapeIsType DEF EventInv, BatchIsJob, BatchOf
<1>2. CASE \E p \in Persisters : PersistStep(p) \/ PersistFails(p)
  BY <1>1, <1>2, BatchDatabaseSteps DEF BatchIsJob, BatchOf
<1>3. ASSUME KernelMoves
      PROVE  BatchOf("kernel")'
  <2>1. CASE KeptRows("kernel") /\ job'["kernel"] = job["kernel"]
    BY <1>1, <2>1, BatchRests, PersistersAre
  <2>2. CASE Emptied("kernel") /\ \/ job'["kernel"] = NoJob
                                  \/ job'["kernel"] = job["kernel"] /\ writer'["kernel"].st = "cancelled"
    BY <1>1, <2>2, BatchEmptied, PersistersAre
  <2>3. CASE SameBut("kernel", {"queue"}) /\ job'["kernel"] = job["kernel"]
    BY <1>1, <2>3, BatchRests, PersistersAre
  <2> QED
    BY <1>3, <2>1, <2>2, <2>3 DEF KernelMoves, Handed
<1>4. ASSUME BandMoves
      PROVE  BatchOf("side")'
  <2>1. CASE KeptRows("side") /\ job'["side"] = job["side"]
    BY <1>1, <2>1, BatchRests, PersistersAre
  <2>2. CASE Emptied("side") /\ \/ job'["side"] = NoJob
                                \/ job'["side"] = job["side"] /\ writer'["side"].st = "cancelled"
    BY <1>1, <2>2, BatchEmptied, PersistersAre
  <2>3. CASE SameBut("side", {"queue"}) /\ job'["side"] = job["side"]
    BY <1>1, <2>3, BatchRests, PersistersAre
  <2> QED
    BY <1>4, <2>1, <2>2, <2>3 DEF BandMoves, Grows
<1>5. WriterStep("kernel") => BatchOf("kernel")'
  BY <1>1, BatchOwnSteps, PersistersAre
<1>6. WriterStep("side") => BatchOf("side")'
  BY <1>1, BatchOwnSteps, PersistersAre
<1>7. CASE ~\E p \in Persisters : PersistStep(p) \/ PersistFails(p)
  <2>1. BatchOf("kernel")'
    BY <1>1, <1>3, <1>5, <1>7, KernelSteps, PersistersAre DEF Next
  <2>2. BatchOf("side")'
    BY <1>1, <1>4, <1>6, <1>7, BandSteps, PersistersAre DEF Next
  <2> QED
    BY <2>1, <2>2, PersistersAre DEF BatchIsJob, BatchOf
<1> QED
  BY <1>2, <1>7

------------------------------------------------------------------------------
(* The event writer's pipeline.                                            *)

\* The kernel's rows and counts, and what the cursor and the collections keep.
LEMMA KernelParts ==
    ASSUME Shape
    PROVE  /\ Len(Kernel.queue) \in Nat /\ Len(Kernel.batch) \in Nat
           /\ \A i \in 1 .. Len(Kernel.batch) : Kernel.batch[i] \in Natives \cup Losts
           /\ \A i \in 1 .. Len(Kernel.queue) :
                IF Kernel.queue[i][1] = "row" THEN Kernel.queue[i][2] \in Natives \cup Losts
                ELSE Kernel.queue[i] \in Commands
           /\ cursor \in 0 .. Last /\ Last \in Nat
<1>1. "kernel" \in Writers /\ Feed("kernel") = Natives \cup Losts
  BY PersistersAre
<1>2. /\ Len(Kernel.queue) \in Nat /\ Len(Kernel.batch) \in Nat
      /\ \A i \in 1 .. Len(Kernel.queue) : Kernel.queue[i] \in Entries("kernel")
      /\ \A i \in 1 .. Len(Kernel.batch) : Kernel.batch[i] \in Natives \cup Losts
  BY <1>1, WriterParts DEF Shape, Kernel
<1>3. \A i \in 1 .. Len(Kernel.queue) :
        IF Kernel.queue[i][1] = "row" THEN Kernel.queue[i][2] \in Natives \cup Losts
        ELSE Kernel.queue[i] \in Commands
  BY <1>1, <1>2, EntryFacts
<1> QED
  BY <1>2, <1>3, LastAssumption DEF Shape, DatabaseShape

LEMMA PipelineKept ==
    ASSUME Shape, Pipeline, KeptRows("kernel"), UNCHANGED cursor,
           runner'.next = runner.next, runner'.pc \in Streaming => runner.pc \in Streaming
    PROVE  BatchHasNoGap' /\ QueueHasNoGap' /\ HandedOver'
<1>0. PICK n, m : n = Len(Kernel.queue) /\ m = Len(writer'["kernel"].queue)
  OBVIOUS
<1>1. n \in Nat
  BY <1>0, KernelParts
<1>2. /\ \A i \in 1 .. n : Kernel.queue[i][1] = "row" =>
            i <= m /\ writer'["kernel"].queue[i] = Kernel.queue[i]
      /\ \A i \in 1 .. m : writer'["kernel"].queue[i][1] = "row" =>
            i <= n /\ writer'["kernel"].queue[i] = Kernel.queue[i]
      /\ Kernel'.batch = Kernel.batch /\ Kernel'.st = Kernel.st
  BY <1>0 DEF KeptRows, Kernel
<1>3. BatchHasNoGap'
  BY <1>2 DEF Pipeline, BatchHasNoGap, Has
<1>4. \A d : \A i \in 1 .. n : Covered(d, i) => Covered(d, i)'
  BY <1>1, <1>2 DEF Covered, Has, Queues, Kernel
<1>5. QueueHasNoGap'
  BY <1>0, <1>1, <1>2, <1>4 DEF Pipeline, QueueHasNoGap, Kernel
<1>6. \A d : Covered(d, n) => Covered(d, m)'
  BY <1>1, <1>2 DEF Covered, Has, Queues, Kernel
<1>7. HandedOver'
  BY <1>0, <1>2, <1>6 DEF Pipeline, HandedOver, Kernel
<1> QED
  BY <1>3, <1>5, <1>7

LEMMA PipelineEmptied ==
    ASSUME Emptied("kernel"), runner'.pc \notin Streaming
    PROVE  BatchHasNoGap' /\ QueueHasNoGap' /\ HandedOver' /\ DoneIsBehind'
<1>1. Len(writer'["kernel"].queue) = 0 /\ Len(writer'["kernel"].batch) = 0
  BY DEF Emptied
<1> QED
  BY <1>1 DEF BatchHasNoGap, QueueHasNoGap, HandedOver, DoneIsBehind, Kernel

LEMMA PipelineHanded ==
    ASSUME Shape, Pipeline, UNCHANGED cursor, runner.pc \in Streaming, ~Failed("kernel"),
           runner.next \in 1 .. Last,
           NEW row \in {Native(runner.next), Lost(runner.next)}, NEW flushed, Handed(row, flushed),
           \/ runner'.next = runner.next
           \/ row = Native(runner.next) /\ runner'.next = runner.next + 1
    PROVE  BatchHasNoGap' /\ QueueHasNoGap' /\ HandedOver'
<1>0. PICK n, m, q, x : /\ n = Len(Kernel.queue) /\ m = Len(writer'["kernel"].queue)
                        /\ q = writer'["kernel"].queue /\ x = runner.next
  OBVIOUS
<1>1. n \in Nat /\ x \in Nat /\ Slots(row) = {x}
  BY <1>0, KernelParts, LastAssumption, SlotsFacts
<1>a. /\ Kernel'.batch = Kernel.batch /\ Kernel'.st = Kernel.st /\ Kernel'.queue = q
  BY <1>0 DEF Handed, Kernel, SameBut
<1>b. \A i \in 1 .. n : q[i] = Kernel.queue[i]
  BY <1>0 DEF Handed, Kernel
<1>c. q[n + 1][1] = "row" /\ q[n + 1][2] = row
  BY <1>0, EntryFacts DEF Handed, Kernel
<1>d. m = n + 1 \/ (m = n + 2 /\ q[n + 2][1] # "row")
  <2>1. CASE flushed
    BY <1>0, <2>1, EntryFacts DEF Handed, Kernel, Commands
  <2>2. CASE ~flushed
    BY <1>0, <2>2 DEF Handed, Kernel
  <2> QED
    BY <2>1, <2>2
<1>2. (\A i \in 1 .. n : \A j \in 1 .. i : j \in 1 .. n) /\ \A j \in 1 .. n : j \in 1 .. n + 1
  BY <1>1
<1>3. BatchHasNoGap'
  BY <1>0, <1>a DEF Pipeline, BatchHasNoGap, Has
<1>4. \A d : \A i \in 1 .. n : Covered(d, i) => Covered(d, i)'
  BY <1>2, <1>a, <1>b DEF Covered, Has, Queues
<1>5. \A d : Covered(d, n) => Covered(d, n + 1)'
  BY <1>2, <1>a, <1>b DEF Covered, Has, Queues
<1>6. Covered(x, n + 1)'
  <2>1. n + 1 \in 1 .. n + 1
    BY <1>1
  <2> QED
    BY <1>1, <1>a, <1>c, <2>1 DEF Covered, Queues
<1>7. \A d \in 1 .. x - 1 : Covered(d, n + 1)'
  BY <1>0, <1>5 DEF Pipeline, HandedOver, Kernel, Failed
<1>8. \A d \in 1 .. x : Covered(d, n + 1)'
  BY <1>1, <1>6, <1>7
<1>9. QueueHasNoGap'
  <2>1. ASSUME NEW i \in 1 .. m, q[i][1] = "row", NEW e \in Slots(q[i][2]), NEW d \in 1 .. e
        PROVE  Covered(d, i)'
    <3>1. i \in 1 .. n \/ i = n + 1
      BY <1>1, <1>d, <2>1
    <3>2. CASE i \in 1 .. n
      <4>1. Covered(d, i)
        BY <1>0, <1>b, <2>1, <3>2 DEF Pipeline, QueueHasNoGap
      <4> QED
        BY <1>4, <3>2, <4>1
    <3>3. CASE i = n + 1
      BY <1>1, <1>c, <1>8, <2>1, <3>3
    <3> QED
      BY <3>1, <3>2, <3>3
  <2> QED
    BY <1>0, <1>a, <2>1 DEF QueueHasNoGap
<1>10. \A d : Covered(d, n + 1)' => Covered(d, m)'
  BY <1>1, <1>d DEF Covered, Queues
<1>11. HandedOver'
  <2>1. \A d \in 1 .. runner'.next - 1 : d \in 1 .. x
    BY <1>0, <1>1
  <2> QED
    BY <1>0, <1>a, <1>8, <1>10, <2>1 DEF HandedOver
<1> QED
  BY <1>3, <1>9, <1>11

LEMMA JobGapRests ==
    ASSUME NEW p, JobHasNoGap(p), UNCHANGED cursor, job'[p] = job[p] \/ job'[p] = NoJob
    PROVE  JobHasNoGap(p)'
BY DEF JobHasNoGap, Active, Has, NoJob

LEMMA SweepHasNoGap ==
    ASSUME Shape, UNCHANGED cursor, NEW rows \in Seq(Natives), job'["sweep"] = Persist(rows),
           \A i \in 1 .. Len(rows) : rows[i] = Native(cursor + i)
    PROVE  JobHasNoGap("sweep")'
<1>1. job'["sweep"].rows = rows
  BY JobValues, PersistersAre
<1>2. cursor \in Nat /\ Len(rows) \in Nat
  BY LenProperties, KernelParts
<1>3. ASSUME NEW i \in 1 .. Len(rows), NEW e \in Slots(rows[i]), NEW d \in 1 .. e, ~(d <= cursor)
      PROVE  Has(rows, d)
  <2>1. e = cursor + i
    BY SlotsFacts
  <2>2. d - cursor \in 1 .. Len(rows) /\ cursor + (d - cursor) = d
    BY <1>2, <1>3, <2>1
  <2>3. Slots(rows[d - cursor]) = {d}
    BY <2>2, SlotsFacts
  <2> QED
    BY <2>2, <2>3 DEF Has
<1> QED
  BY <1>1, <1>3 DEF JobHasNoGap

LEMMA PipelineMoves ==
    ASSUME Shape, Pipeline, Frame, KernelMoves
    PROVE  Pipeline'
<1>0. UNCHANGED <<inbox, ordinal, cursor>>
  BY DEF KernelMoves
<1>1. CursorBehindRows'
  BY <1>0 DEF Pipeline, CursorBehindRows, Durable
<1>2. JobHasNoGap("sweep")'
  BY <1>0, JobGapRests, SweepHasNoGap DEF KernelMoves, Pipeline
<1>3. CASE /\ KeptRows("kernel") /\ job'["kernel"] = job["kernel"]
           /\ runner'.next = runner.next
           /\ runner'.pc \in Streaming => runner.pc \in Streaming
  <2>1. JobHasNoGap("kernel")'
    BY <1>0, <1>3, JobGapRests DEF Pipeline
  <2>2. BatchHasNoGap' /\ QueueHasNoGap' /\ HandedOver'
    BY <1>0, <1>3, PipelineKept
  <2>3. DoneIsBehind'
    BY <1>0, <1>3 DEF Pipeline, DoneIsBehind, KeptRows, Kernel
  <2> QED
    BY <1>1, <1>2, <2>1, <2>2, <2>3 DEF Pipeline
<1>4. CASE /\ Emptied("kernel") /\ runner'.pc \notin Streaming
           /\ job'["kernel"] = NoJob \/ job'["kernel"] = job["kernel"]
  <2>1. JobHasNoGap("kernel")'
    BY <1>0, <1>4, JobGapRests DEF Pipeline
  <2> QED
    BY <1>1, <1>2, <1>4, <2>1, PipelineEmptied DEF Pipeline
<1>5. ASSUME NEW row \in {Native(runner.next), Lost(runner.next)}, NEW flushed,
             Handed(row, flushed), runner.pc = "stream", ~Failed("kernel"),
             \/ runner'.next = runner.next
             \/ row = Native(runner.next) /\ runner'.next = runner.next + 1
      PROVE  Pipeline'
  <2>1. job' = job /\ SameBut("kernel", {"queue"})
    BY <1>5 DEF Handed
  <2>2. JobHasNoGap("kernel")'
    BY <1>0, <2>1, JobGapRests DEF Pipeline
  <2>3. DoneIsBehind'
    BY <1>0, <2>1 DEF Pipeline, DoneIsBehind, SameBut, Kernel
  <2>4. runner.next \in 1 .. Last
    BY <1>5, LastAssumption DEF Frame, Shape, RunnerShape, RunnerRecords
  <2>5. BatchHasNoGap' /\ QueueHasNoGap' /\ HandedOver'
    BY <1>0, <1>5, <2>4, PipelineHanded DEF Streaming
  <2> QED
    BY <1>1, <1>2, <2>2, <2>3, <2>5 DEF Pipeline
<1> QED
  BY <1>3, <1>4, <1>5 DEF KernelMoves

\* A row goes from the head of the queue to the end of the batch, or a command goes.
LEMMA PipelinePopped ==
    ASSUME Shape, Pipeline, UNCHANGED <<cursor, runner>>, Popped("kernel"),
           writer'["kernel"].st # "failed" => Kernel.st # "failed",
           \/ SameBut("kernel", {"queue", "held", "st"}) /\ Kernel.queue[1][1] # "row"
           \/ /\ Len(writer'["kernel"].batch) = Len(Kernel.batch) + 1
              /\ \A i \in 1 .. Len(Kernel.batch) : writer'["kernel"].batch[i] = Kernel.batch[i]
              /\ writer'["kernel"].batch[Len(Kernel.batch) + 1] = Kernel.queue[1][2]
              /\ Kernel.queue[1][1] = "row"
    PROVE  BatchHasNoGap' /\ QueueHasNoGap' /\ HandedOver'
<1>0. PICK n, q, m, b, k :
         /\ n = Len(Kernel.queue) /\ q = writer'["kernel"].queue /\ m = Len(q)
         /\ b = writer'["kernel"].batch /\ k = Len(Kernel.batch)
  OBVIOUS
<1>1. /\ n \in Nat \ {0} /\ k \in Nat /\ m \in Nat /\ m + 1 = n
      /\ \A i \in 1 .. m : q[i] = Kernel.queue[i + 1]
  BY <1>0, KernelParts DEF Popped, Kernel
<1>2. Kernel'.queue = q /\ Kernel'.batch = b
  BY <1>0 DEF Kernel
<1>3. \A d : Has(Kernel.batch, d) => Has(b, d)
  <2>1. b = Kernel.batch \/ (Len(b) = k + 1 /\ \A i \in 1 .. k : b[i] = Kernel.batch[i])
    BY <1>0 DEF SameBut, Kernel
  <2>2. \A i \in 1 .. k : i \in 1 .. k + 1
    BY <1>1
  <2> QED
    BY <1>0, <2>1, <2>2 DEF Has
<1>4. \A d : Kernel.queue[1][1] = "row" /\ d \in Slots(Kernel.queue[1][2]) => Has(b, d)
  <2>1. k + 1 \in 1 .. k + 1
    BY <1>1
  <2> QED
    BY <1>0, <2>1 DEF Has
<1>5. \A d : Covered(d, 1) => d <= cursor \/ Has(b, d)
  <2>1. \A j \in 1 .. 1 : j = 1
    OBVIOUS
  <2> QED
    BY <1>3, <1>4, <2>1 DEF Covered, Queues
<1>6. \A d : \A i \in 0 .. m : Covered(d, i + 1) => Covered(d, i)'
  <2> TAKE d
  <2> TAKE i \in 0 .. m
  <2>1. \A j \in 1 .. i + 1 : j = 1 \/ (j - 1 \in 1 .. i /\ j - 1 \in 1 .. m /\ (j - 1) + 1 = j)
    BY <1>1
  <2>2. \A j \in 1 .. i + 1 : j = 1 \/ q[j - 1] = Kernel.queue[j]
    BY <1>1, <2>1
  <2>3. Queues(d, i + 1) => Has(b, d) \/ \E j \in 1 .. i : q[j][1] = "row" /\ d \in Slots(q[j][2])
    BY <1>4, <2>1, <2>2 DEF Queues
  <2> QED
    BY <1>2, <1>3, <2>3 DEF Covered, Queues
<1>7. BatchHasNoGap'
  <2>1. ASSUME NEW i \in 1 .. Len(b), NEW e \in Slots(b[i]), NEW d \in 1 .. e
        PROVE  d <= cursor \/ Has(b, d)
    <3>1. CASE SameBut("kernel", {"queue", "held", "st"})
      BY <1>0, <2>1, <3>1 DEF SameBut, Kernel, Pipeline, BatchHasNoGap
    <3>2. CASE ~SameBut("kernel", {"queue", "held", "st"})
      <4>1. i \in 1 .. k \/ i = k + 1
        BY <1>0, <1>1, <3>2
      <4>2. CASE i \in 1 .. k
        <5>1. b[i] = Kernel.batch[i]
          BY <1>0, <3>2, <4>2
        <5>2. d <= cursor \/ Has(Kernel.batch, d)
          BY <1>0, <2>1, <4>2, <5>1 DEF Pipeline, BatchHasNoGap
        <5> QED
          BY <1>3, <5>2
      <4>3. CASE i = k + 1
        <5>1. b[i] = Kernel.queue[1][2] /\ Kernel.queue[1][1] = "row"
          BY <1>0, <3>2, <4>3
        <5>2. Covered(d, 1)
          <6>1. 1 \in 1 .. n
            BY <1>1
          <6> QED
            BY <1>0, <2>1, <5>1, <6>1 DEF Pipeline, QueueHasNoGap
        <5> QED
          BY <1>5, <5>2
      <4> QED
        BY <4>1, <4>2, <4>3
    <3> QED
      BY <3>1, <3>2
  <2> QED
    BY <1>2, <2>1 DEF BatchHasNoGap
<1>8. QueueHasNoGap'
  <2>1. ASSUME NEW i \in 1 .. m, q[i][1] = "row", NEW e \in Slots(q[i][2]), NEW d \in 1 .. e
        PROVE  Covered(d, i)'
    <3>1. i + 1 \in 1 .. n /\ i \in 0 .. m /\ q[i] = Kernel.queue[i + 1]
      BY <1>1
    <3>2. Covered(d, i + 1)
      BY <1>0, <2>1, <3>1 DEF Pipeline, QueueHasNoGap
    <3> QED
      BY <1>6, <3>1, <3>2
  <2> QED
    BY <1>0, <1>2, <2>1 DEF QueueHasNoGap
<1>9. HandedOver'
  <2>1. m \in 0 .. m /\ m + 1 = n
    BY <1>1
  <2>2. \A d : Covered(d, n) => Covered(d, m)'
    BY <1>6, <2>1
  <2> QED
    BY <1>0, <1>2, <2>2 DEF Pipeline, HandedOver, Kernel
<1> QED
  BY <1>7, <1>8, <1>9

LEMMA PipelineOwnSteps ==
    ASSUME Shape, Pipeline, BatchIsJob, WriterStep("kernel")
    PROVE  Pipeline'
<1>0. /\ WriterShape /\ JobShape /\ "kernel" \in Writers /\ BatchOf("kernel")
      /\ UNCHANGED <<runner, inbox, ordinal, cursor>> /\ job'["sweep"] = job["sweep"]
  BY PersistersAre, KernelStepSides DEF Shape, BatchIsJob, BatchOf, database
<1>1. CursorBehindRows' /\ JobHasNoGap("sweep")'
  BY <1>0, JobGapRests DEF Pipeline, CursorBehindRows, Durable
<1>2. ASSUME BatchHasNoGap', writer'["kernel"].batch \in Seq(Feed("kernel")),
             job'["kernel"] = Persist(writer'["kernel"].batch)
      PROVE  JobHasNoGap("kernel")' /\ DoneIsBehind'
  <2>1. job'["kernel"].rows = Kernel'.batch /\ job'["kernel"].phase = "reserve"
    BY <1>2, JobValues, PersistersAre DEF Kernel
  <2> QED
    BY <1>2, <2>1 DEF BatchHasNoGap, JobHasNoGap, DoneIsBehind
<1>3. job'["kernel"] = NoJob => JobHasNoGap("kernel")' /\ DoneIsBehind'
  BY DEF NoJob, JobHasNoGap, Active, DoneIsBehind
<1>4. CASE TakeRow("kernel")
  <2>1. /\ WriterShape' /\ Popped("kernel") /\ SameBut("kernel", {"queue", "batch"})
        /\ Kernel.queue[1] = Row(Kernel.queue[1][2])
        /\ Len(writer'["kernel"].batch) = Len(Kernel.batch) + 1
        /\ \A i \in 1 .. Len(Kernel.batch) : writer'["kernel"].batch[i] = Kernel.batch[i]
        /\ writer'["kernel"].batch[Len(Kernel.batch) + 1] = Kernel.queue[1][2]
        /\ job'["kernel"] = NoJob \/ job'["kernel"] = Persist(writer'["kernel"].batch)
    BY <1>0, <1>4, TakeRowFacts DEF Kernel
  <2>2. Kernel.queue[1][1] = "row"
    BY <2>1, EntryFacts
  <2>3. BatchHasNoGap' /\ QueueHasNoGap' /\ HandedOver'
    BY <1>0, <2>1, <2>2, PipelinePopped DEF SameBut, Kernel
  <2>4. writer'["kernel"].batch \in Seq(Feed("kernel"))
    BY <1>0, <2>1 DEF WriterShape
  <2> QED
    BY <1>1, <1>2, <1>3, <2>1, <2>3, <2>4 DEF Pipeline
<1>5. CASE TakeCommand("kernel")
  <2>1. /\ WriterShape' /\ Popped("kernel") /\ SameBut("kernel", {"queue", "held"})
        /\ Kernel.queue[1] \in Commands /\ job'["kernel"] = Persist(writer["kernel"].batch)
    BY <1>0, <1>5, TakeCommandFacts DEF Kernel
  <2>2. Kernel.queue[1][1] # "row" /\ SameBut("kernel", {"queue", "held", "st"})
    BY <2>1, EntryFacts DEF SameBut
  <2>3. BatchHasNoGap' /\ QueueHasNoGap' /\ HandedOver'
    BY <1>0, <2>1, <2>2, PipelinePopped DEF SameBut, Kernel
  <2>4. writer'["kernel"].batch \in Seq(Feed("kernel")) /\ writer'["kernel"].batch = writer["kernel"].batch
    BY <1>0, <2>1 DEF WriterShape, SameBut
  <2> QED
    BY <1>1, <1>2, <2>1, <2>3, <2>4 DEF Pipeline
<1>6. CASE TakeCommandOnEmpty("kernel")
  <2>1. /\ Popped("kernel") /\ SameBut("kernel", {"queue", "st"}) /\ Kernel.queue[1] \in Commands
        /\ Kernel.st = "running" /\ job'["kernel"] = NoJob
    BY <1>0, <1>6, TakeCommandOnEmptyFacts DEF Kernel, TakeCommandOnEmpty
  <2>2. Kernel.queue[1][1] # "row" /\ SameBut("kernel", {"queue", "held", "st"})
    BY <2>1, EntryFacts DEF SameBut
  <2>3. BatchHasNoGap' /\ QueueHasNoGap' /\ HandedOver'
    BY <1>0, <2>1, <2>2, PipelinePopped
  <2> QED
    BY <1>1, <1>3, <2>1, <2>3 DEF Pipeline
<1>7. CASE Deadline("kernel")
  <2>1. writer' = writer /\ job'["kernel"] = Persist(writer["kernel"].batch)
    BY <1>0, <1>7, DeadlineFacts DEF Deadline, memory
  <2>2. BatchHasNoGap' /\ QueueHasNoGap' /\ HandedOver'
    BY <1>0, <2>1, PipelineKept, Keeps
  <2>3. writer'["kernel"].batch \in Seq(Feed("kernel"))
    BY <1>0, <2>1 DEF WriterShape
  <2> QED
    BY <1>1, <1>2, <2>1, <2>2, <2>3 DEF Pipeline
<1>8. CASE Persisted("kernel")
  <2>1. /\ SameBut("kernel", {"batch", "held", "st"}) /\ writer'["kernel"].batch = <<>>
        /\ Kernel.st # "failed"
        /\ job'["kernel"] = NoJob /\ job["kernel"].phase = "done"
    BY <1>0, <1>8, PersistedFacts DEF Kernel, Done, BatchOf, NoJob
  <2>2. Len(writer'["kernel"].batch) = 0 /\ Kernel'.queue = Kernel.queue
    BY <2>1 DEF SameBut, Kernel
  <2>3. \A d \in 1 .. Last : Has(Kernel.batch, d) => d <= cursor
    <3>1. CASE Kernel.st = "running"
      BY <2>1, <3>1 DEF Pipeline, DoneIsBehind, Has
    <3>2. CASE Kernel.st # "running"
      <4>1. Len(Kernel.batch) = 0
        BY <1>0, <3>2 DEF BatchOf, Kernel
      <4> QED
        BY <4>1 DEF Has
    <3> QED
      BY <3>1, <3>2
  <2>4. \A d \in 1 .. Last, n \in Nat : Covered(d, n) => Covered(d, n)'
    BY <1>0, <2>2, <2>3 DEF Covered, Queues
  <2>5. BatchHasNoGap'
    BY <2>2 DEF BatchHasNoGap, Kernel
  <2>6. QueueHasNoGap'
    <3>1. \A i \in 1 .. Len(Kernel.queue) : Kernel.queue[i][1] = "row" =>
            \A e \in Slots(Kernel.queue[i][2]) : \A d \in 1 .. e : d \in 1 .. Last
      <4>1. \A r \in Natives \cup Losts : \A e \in Slots(r) : e \in 1 .. Last
        BY RowFacts
      <4>2. Last \in Nat
        BY LastAssumption
      <4> QED
        BY <4>1, <4>2, KernelParts
    <3> QED
      BY <2>2, <2>4, <3>1, KernelParts DEF Pipeline, QueueHasNoGap
  <2>7. HandedOver'
    <3>1. \A d \in 1 .. runner.next - 1 : d \in 1 .. Last
      BY LastAssumption DEF Shape, RunnerShape, RunnerRecords
    <3>2. Len(Kernel.queue) \in Nat
      BY KernelParts
    <3>3. runner.pc \in Streaming /\ Kernel'.st # "failed" => 
            \A d \in 1 .. runner.next - 1 : Covered(d, Len(Kernel.queue))
      BY <2>1 DEF Pipeline, HandedOver, Kernel
    <3>4. PICK n : n = Len(Kernel.queue) /\ n \in Nat
      BY <3>2
    <3>5. runner.pc \in Streaming /\ Kernel'.st # "failed" => 
            \A d \in 1 .. runner.next - 1 : Covered(d, n)'
      BY <2>4, <3>1, <3>3, <3>4
    <3> QED
      BY <1>0, <2>2, <3>4, <3>5 DEF HandedOver
  <2> QED
    BY <1>1, <1>3, <2>1, <2>5, <2>6, <2>7 DEF Pipeline
<1>9. CASE WriterFails("kernel")
  <2>1. /\ Len(writer'["kernel"].queue) = 0 /\ Len(writer'["kernel"].batch) = 0
        /\ writer'["kernel"].st = "failed" /\ job'["kernel"] = NoJob
    BY <1>0, <1>9, WriterFailsFacts
  <2>2. BatchHasNoGap' /\ QueueHasNoGap' /\ HandedOver'
    BY <2>1 DEF BatchHasNoGap, QueueHasNoGap, HandedOver, Kernel
  <2> QED
    BY <1>1, <1>3, <2>1, <2>2 DEF Pipeline
<1> QED
  BY <1>4, <1>5, <1>6, <1>7, <1>8, <1>9 DEF WriterStep

\* What is in the collections stays there, and the cursor does not go back.
LEMMA PersistGrows ==
    ASSUME Shape, NEW p \in Persisters, PersistStep(p) \/ PersistFails(p)
    PROVE  /\ cursor <= cursor' /\ inbox \subseteq inbox'
           /\ \A r \in Rows : Durable(r) => Durable(r)' /\ ordinal'[r] = ordinal[r]
<1>0. JobShape /\ DatabaseShape
  BY DEF Shape
<1>1. CASE WriteProjection(p)
  <2>1. \A r \in Rows : Durable(r) => ordinal'[r] = ordinal[r]
    BY <1>0, <1>1, WriteProjectionFacts DEF DatabaseShape, Durable
  <2> QED
    BY <1>0, <1>1, <2>1 DEF WriteProjection, DatabaseShape, Durable
<1>2. CASE WriteInbox(p)
  BY <1>0, <1>2 DEF WriteInbox, DatabaseShape, Durable
<1>3. CASE AdvanceCursor(p)
  <2>1. cursor <= cursor'
    BY <1>0, <1>3, AdvanceCursorFacts
  <2> QED
    BY <1>0, <1>3, <2>1 DEF AdvanceCursor, Durable
<1>4. CASE Reserve(p) \/ PersistFails(p)
  BY <1>0, <1>4 DEF Reserve, PersistFails, database, DatabaseShape, Durable
<1> QED
  BY <1>1, <1>2, <1>3, <1>4 DEF PersistStep

\* A job whose bulk_writes have returned has its rows in the collections.
LEMMA GatheredIsThere ==
    ASSUME Shape, WrittenIsThere, NEW p \in Persisters, Gathered(p)
    PROVE  \A i \in 1 .. Len(job[p].rows) :
              Durable(job[p].rows[i]) /\ (p # "side" => job[p].rows[i] \in inbox)
<1> DEFINE n == Len(job[p].rows)
           k == job[p].written["projections"]
           l == job[p].written["inbox"]
<1>1. n \in Nat /\ k \in Nat /\ l \in Nat
  BY JobNumbers
<1>2. Counted(p)
  BY DEF WrittenIsThere, Active, Gathered
<1>3. ~(k < n) /\ (p # "side" => ~(l < n)) /\ k <= n /\ l <= n
  BY <1>2 DEF Gathered, Writing, Counted, Collections
<1> HIDE DEF n, k, l
<1>4. k = n /\ (p # "side" => l = n)
  BY <1>1, <1>3
<1> QED
  BY <1>2, <1>4 DEF Counted, n, k, l

LEMMA PipelinePersistSteps ==
    ASSUME Shape, WrittenIsThere, BatchIsJob, Pipeline,
           NEW p \in Persisters, PersistStep(p) \/ PersistFails(p)
    PROVE  Pipeline'
<1>1. /\ UNCHANGED memory /\ OtherJobs(p) /\ Active(p)
      /\ job'[p].phase \in {"write", "done", "failed"}
      /\ job'[p].phase = "write" => job'[p].rows = job[p].rows
      /\ job'[p].phase = "done" => AdvanceCursor(p)
      /\ cursor' = cursor \/ AdvanceCursor(p)
  BY PersistFacts
<1>2. /\ cursor \in 0 .. Last /\ cursor' \in 0 .. Last /\ Last \in Nat /\ cursor <= cursor'
      /\ inbox \subseteq inbox' /\ \A r \in Rows : Durable(r) => Durable(r)'
  <2>1. cursor' \in 0 .. Last
    BY <1>1, AdvanceCursorFacts DEF Shape, DatabaseShape
  <2> QED
    BY <2>1, PersistGrows, KernelParts
<1>3. \A d \in Nat : d <= cursor => d <= cursor'
  BY <1>2
<1>4. CursorBehindRows'
  <2>1. ASSUME NEW e \in 1 .. cursor', ~(e <= cursor)
        PROVE  \E r \in inbox : e \in Slots(r) /\ Durable(r)
    <3>1. AdvanceCursor(p) /\ cursor' # cursor
      BY <1>1, <1>2, <2>1
    <3>2. p \in {"kernel", "sweep"} /\ Gathered(p)
          /\ \E i \in 1 .. Len(job[p].rows) : cursor' \in Slots(job[p].rows[i])
      BY <3>1, AdvanceCursorFacts DEF Shape
    <3>3. JobHasNoGap(p)
      BY <3>2 DEF Pipeline
    <3>4. e <= cursor \/ Has(job[p].rows, e)
      BY <1>1, <2>1, <3>2, <3>3 DEF JobHasNoGap
    <3> QED
      BY <2>1, <3>2, <3>4, GatheredIsThere DEF Has
  <2>2. ASSUME NEW e \in 1 .. cursor'
        PROVE  \E r \in inbox : e \in Slots(r) /\ Durable(r)
    <3>1. e <= cursor => e \in 1 .. cursor
      BY <1>2
    <3> QED
      BY <2>1, <3>1 DEF Pipeline, CursorBehindRows
  <2>3. \A r \in inbox : r \in Rows
    BY DEF Shape, DatabaseShape
  <2> QED
    BY <1>2, <2>2, <2>3 DEF CursorBehindRows
<1>5. ASSUME NEW q \in {"kernel", "sweep"}
      PROVE  JobHasNoGap(q)'
  <2>1. Active(q)' => Active(q) /\ job'[q].rows = job[q].rows
    BY <1>1, <1>5, PersistersAre DEF OtherJobs, Active
  <2>2. \A i \in 1 .. Len(job[q].rows) : \A e \in Slots(job[q].rows[i]) : e \in Nat
    <3>1. \A i \in 1 .. Len(job[q].rows) : job[q].rows[i] \in Rows
      BY <1>5, PersistersAre, JobNumbers
    <3> QED
      BY <3>1, RowFacts, LastAssumption
  <2>3. \A i \in 1 .. Len(job[q].rows) : \A e \in Slots(job[q].rows[i]) : \A d \in 1 .. e :
          d <= cursor => d <= cursor'
    BY <1>3, <2>2
  <2>4. JobHasNoGap(q)
    BY <1>5 DEF Pipeline
  <2> QED
    BY <2>1, <2>3, <2>4 DEF JobHasNoGap
<1>6. Kernel' = Kernel /\ runner' = runner
  BY <1>1 DEF memory, Kernel
<1>7. \A d \in Nat, n \in Nat : Covered(d, n) => Covered(d, n)'
  BY <1>3, <1>6 DEF Covered, Queues
<1>8. /\ \A i \in 1 .. Len(Kernel.batch) : \A e \in Slots(Kernel.batch[i]) : e \in Nat
      /\ \A i \in 1 .. Len(Kernel.queue) : Kernel.queue[i][1] = "row" =>
            \A e \in Slots(Kernel.queue[i][2]) : e \in Nat
  <2>1. \A r \in Natives \cup Losts : \A e \in Slots(r) : e \in Nat
    BY RowFacts, LastAssumption
  <2> QED
    BY <2>1, KernelParts
<1>9. BatchHasNoGap'
  BY <1>3, <1>6, <1>8 DEF Pipeline, BatchHasNoGap
<1>10. QueueHasNoGap'
  BY <1>6, <1>7, <1>8, KernelParts DEF Pipeline, QueueHasNoGap
<1>11. HandedOver'
  <2>1. PICK n \in Nat : n = Len(Kernel.queue)
    BY KernelParts
  <2>2. \A d \in 1 .. runner.next - 1 : d \in Nat
    BY LastAssumption DEF Shape, RunnerShape, RunnerRecords
  <2> QED
    BY <1>6, <1>7, <2>1, <2>2 DEF Pipeline, HandedOver
<1>12. DoneIsBehind'
  <2>1. CASE p # "kernel"
    <3>1. job'["kernel"] = job["kernel"]
      BY <1>1, <2>1, PersistersAre DEF OtherJobs
    <3> QED
      BY <1>3, <1>6, <1>8, <3>1 DEF Pipeline, DoneIsBehind
  <2>2. CASE p = "kernel" /\ job'[p].phase = "done" /\ Kernel.st = "running"
    <3>1. \A i \in 1 .. Len(job[p].rows) : \A e \in Slots(job[p].rows[i]) : e <= cursor'
      BY <1>1, <2>2, AdvanceCursorFacts DEF Shape
    <3>2. job[p].rows = Kernel.batch
      BY <1>1, <2>2, PersistersAre DEF BatchIsJob, Kernel
    <3> QED
      BY <1>6, <3>1, <3>2 DEF DoneIsBehind
  <2> QED
    BY <1>6, <2>1, <2>2 DEF DoneIsBehind
<1> QED
  BY <1>4, <1>5, <1>9, <1>10, <1>11, <1>12 DEF Pipeline

LEMMA PipelineSteps ==
    ASSUME EventInv, [Next]_vars
    PROVE  Pipeline'
<1>1. Shape /\ Frame /\ Children
  BY ShapeIsType DEF EventInv
<1>2. Pipeline /\ BatchIsJob /\ WrittenIsThere
  BY DEF EventInv
<1>3. CASE \E p \in Persisters : PersistStep(p) \/ PersistFails(p)
  BY <1>1, <1>2, <1>3, PipelinePersistSteps
<1>4. CASE WriterStep("kernel")
  BY <1>1, <1>2, <1>4, PipelineOwnSteps
<1>5. KernelMoves => Pipeline'
  BY <1>1, <1>2, PipelineMoves
<1> QED
  BY <1>1, <1>3, <1>4, <1>5, KernelSteps, PersistersAre DEF Next

------------------------------------------------------------------------------
(* Synthetic events.                                                       *)

\* No synthetic event of a broken transport is anywhere.
NoLost ==
    /\ inbox \cap Losts = {}
    /\ \A i \in 1 .. Len(Kernel.queue) :
          Kernel.queue[i][1] = "row" => Kernel.queue[i][2] \notin Losts
    /\ \A i \in 1 .. Len(Kernel.batch) : Kernel.batch[i] \notin Losts
    /\ Active("kernel") =>
          \A i \in 1 .. Len(job["kernel"].rows) : job["kernel"].rows[i] \notin Losts

LEMMA NoLostMoves ==
    ASSUME Shape, Frame, Lossless, KernelMoves
    PROVE  Lossless'
<1>0. UNCHANGED inbox /\ (runner.status \in {"interrupted", "completed"} => NoLost)
  BY DEF KernelMoves, Lossless, NoLost
<1>1. ASSUME KeptRows("kernel"), job'["kernel"] = job["kernel"], NoLost
      PROVE  NoLost'
  <2>1. \A i \in 1 .. Len(writer'["kernel"].queue) : writer'["kernel"].queue[i][1] = "row" =>
            i \in 1 .. Len(Kernel.queue) /\ writer'["kernel"].queue[i] = Kernel.queue[i]
    BY <1>1, KernelParts DEF KeptRows, Kernel
  <2>2. Kernel'.batch = Kernel.batch
    BY <1>1 DEF KeptRows, Kernel
  <2> QED
    BY <1>0, <1>1, <2>1, <2>2 DEF NoLost, Active, Kernel
<1>2. ASSUME Emptied("kernel"), job'["kernel"] = NoJob \/ job'["kernel"] = job["kernel"], NoLost
      PROVE  NoLost'
  <2>1. Len(writer'["kernel"].queue) = 0 /\ Len(writer'["kernel"].batch) = 0
    BY <1>2 DEF Emptied
  <2> QED
    BY <1>0, <1>2, <2>1 DEF NoLost, Active, Kernel, NoJob
<1>3. ASSUME NEW flushed \in BOOLEAN, Handed(Native(runner.next), flushed), NoLost,
             runner.next \in 1 .. Last
      PROVE  NoLost'
  <2>0. PICK n, q, row : /\ n = Len(Kernel.queue) /\ q = writer'["kernel"].queue
                         /\ row = Native(runner.next)
    OBVIOUS
  <2>1. /\ job' = job /\ Kernel'.batch = Kernel.batch /\ Kernel'.queue = q
        /\ \A i \in 1 .. n : q[i] = Kernel.queue[i]
        /\ q[n + 1] = Row(row) /\ (flushed => q[n + 2] = Flush)
    BY <1>3, <2>0 DEF Handed, SameBut, Kernel
  <2>2. Len(q) = n + IF flushed THEN 2 ELSE 1
    BY <1>3, <2>0 DEF Handed, Kernel
  <2>3. n \in Nat
    BY <2>0, KernelParts
  <2>4. \A i \in 1 .. Len(q) : i \in 1 .. n \/ i = n + 1 \/ (flushed /\ i = n + 2)
    BY <2>2, <2>3
  <2>5. row \notin Losts /\ Row(row)[2] = row /\ Flush[1] # "row"
    BY <1>3, <2>0, RowFacts, EntryFacts DEF Natives, Commands
  <2>7. \A i \in 1 .. n : q[i][1] = "row" => q[i][2] \notin Losts
    BY <1>3, <2>0, <2>1 DEF NoLost
  <2>6. \A i \in 1 .. Len(q) : q[i][1] = "row" => q[i][2] \notin Losts
    <3> SUFFICES ASSUME NEW i \in 1 .. Len(q), q[i][1] = "row"
                 PROVE  q[i][2] \notin Losts
      OBVIOUS
    <3>1. CASE i \in 1 .. n
      BY <2>7, <3>1
    <3>2. CASE i = n + 1
      BY <2>1, <2>5, <3>2
    <3>3. CASE flushed /\ i = n + 2
      BY <2>1, <2>5, <3>3
    <3> QED
      BY <2>4, <3>1, <3>2, <3>3
  <2> QED
    BY <1>0, <1>3, <2>1, <2>6 DEF NoLost, Active
<1>4. runner.pc = "stream" => runner.status = "interrupted" /\ runner.next \in 1 .. Last
  BY LastAssumption DEF Frame, Shape, RunnerShape, RunnerRecords
<1>5. ASSUME runner'.status \in {"interrupted", "completed"}
      PROVE  NoLost'
  BY <1>0, <1>1, <1>2, <1>3, <1>4, <1>5 DEF KernelMoves
<1> QED
  BY <1>5 DEF Lossless, NoLost

LEMMA NoLostPopped ==
    ASSUME Shape, NoLost, Popped("kernel"),
           \/ SameBut("kernel", {"queue", "held", "st"})
           \/ /\ Len(writer'["kernel"].batch) = Len(Kernel.batch) + 1
              /\ \A i \in 1 .. Len(Kernel.batch) : writer'["kernel"].batch[i] = Kernel.batch[i]
              /\ writer'["kernel"].batch[Len(Kernel.batch) + 1] = Kernel.queue[1][2]
              /\ Kernel.queue[1][1] = "row"
    PROVE  /\ \A i \in 1 .. Len(Kernel'.queue) :
                Kernel'.queue[i][1] = "row" => Kernel'.queue[i][2] \notin Losts
           /\ \A i \in 1 .. Len(Kernel'.batch) : Kernel'.batch[i] \notin Losts
<1>0. PICK n, q, m, b, k :
         /\ n = Len(Kernel.queue) /\ q = writer'["kernel"].queue /\ m = Len(q)
         /\ b = writer'["kernel"].batch /\ k = Len(Kernel.batch)
  OBVIOUS
<1>1. /\ n \in Nat \ {0} /\ k \in Nat /\ m \in Nat /\ m + 1 = n
      /\ \A i \in 1 .. m : q[i] = Kernel.queue[i + 1]
  BY <1>0, KernelParts DEF Popped, Kernel
<1>2. Kernel'.queue = q /\ Kernel'.batch = b
  BY <1>0 DEF Kernel
<1>3. \A i \in 1 .. m : i + 1 \in 1 .. n
  BY <1>1
<1>4. \A i \in 1 .. m : q[i][1] = "row" => q[i][2] \notin Losts
  BY <1>0, <1>1, <1>3, SMTT(20) DEF NoLost
<1>5. b = Kernel.batch \/ /\ Len(b) = k + 1 /\ \A i \in 1 .. k : b[i] = Kernel.batch[i]
                          /\ b[k + 1] = Kernel.queue[1][2] /\ Kernel.queue[1][1] = "row"
  BY <1>0 DEF SameBut, Kernel
<1>6. (\A i \in 1 .. k + 1 : i \in 1 .. k \/ i = k + 1) /\ 1 \in 1 .. n
  BY <1>1
<1>7. \A i \in 1 .. Len(b) : b[i] \notin Losts
  BY <1>0, <1>5, <1>6 DEF NoLost
<1> QED
  BY <1>0, <1>2, <1>4, <1>7

LEMMA NoLostOwnSteps ==
    ASSUME Shape, Lossless, WriterStep("kernel")
    PROVE  Lossless'
<1>0. /\ WriterShape /\ JobShape /\ "kernel" \in Writers /\ UNCHANGED <<runner, inbox>>
      /\ Feed("kernel") = Natives \cup Losts
  BY PersistersAre, KernelStepSides DEF Shape, database
<1> SUFFICES ASSUME NoLost
             PROVE  NoLost'
  BY <1>0 DEF Lossless, NoLost
<1>2. \A rows \in Seq(Feed("kernel")) : job'["kernel"] = Persist(rows) => job'["kernel"].rows = rows
  BY JobValues, PersistersAre
<1>3. job'["kernel"] = NoJob => ~Active("kernel")'
  BY DEF NoJob, Active
<1>4. CASE TakeRow("kernel")
  <2>1. /\ WriterShape' /\ Popped("kernel")
        /\ Kernel.queue[1] = Row(Kernel.queue[1][2])
        /\ Len(writer'["kernel"].batch) = Len(Kernel.batch) + 1
        /\ \A i \in 1 .. Len(Kernel.batch) : writer'["kernel"].batch[i] = Kernel.batch[i]
        /\ writer'["kernel"].batch[Len(Kernel.batch) + 1] = Kernel.queue[1][2]
        /\ job'["kernel"] = NoJob \/ job'["kernel"] = Persist(writer'["kernel"].batch)
    BY <1>0, <1>4, TakeRowFacts DEF Kernel
  <2>2. Kernel.queue[1][1] = "row"
    BY <2>1, EntryFacts
  <2>3. /\ \A i \in 1 .. Len(Kernel'.queue) :
              Kernel'.queue[i][1] = "row" => Kernel'.queue[i][2] \notin Losts
        /\ \A i \in 1 .. Len(Kernel'.batch) : Kernel'.batch[i] \notin Losts
    BY <2>1, <2>2, NoLostPopped
  <2>4. writer'["kernel"].batch \in Seq(Feed("kernel")) /\ Kernel'.batch = writer'["kernel"].batch
    BY <1>0, <2>1 DEF WriterShape, Kernel
  <2> QED
    BY <1>0, <1>2, <1>3, <2>1, <2>3, <2>4 DEF NoLost
<1>5. CASE TakeCommand("kernel")
  <2>1. /\ Popped("kernel") /\ SameBut("kernel", {"queue", "held"})
        /\ job'["kernel"] = Persist(writer["kernel"].batch)
        /\ writer["kernel"].batch \in Seq(Feed("kernel"))
    BY <1>0, <1>5, TakeCommandFacts, WriterParts
  <2>2. SameBut("kernel", {"queue", "held", "st"}) /\ Kernel'.batch = writer["kernel"].batch
    BY <2>1 DEF SameBut, Kernel
  <2>3. /\ \A i \in 1 .. Len(Kernel'.queue) :
              Kernel'.queue[i][1] = "row" => Kernel'.queue[i][2] \notin Losts
        /\ \A i \in 1 .. Len(Kernel'.batch) : Kernel'.batch[i] \notin Losts
    BY <2>1, <2>2, NoLostPopped
  <2> QED
    BY <1>0, <1>2, <2>1, <2>2, <2>3 DEF NoLost
<1>6. CASE TakeCommandOnEmpty("kernel")
  <2>1. /\ Popped("kernel") /\ SameBut("kernel", {"queue", "st"}) /\ job' = job
    BY <1>0, <1>6, TakeCommandOnEmptyFacts DEF TakeCommandOnEmpty
  <2>2. SameBut("kernel", {"queue", "held", "st"})
    BY <2>1 DEF SameBut
  <2>3. /\ \A i \in 1 .. Len(Kernel'.queue) :
              Kernel'.queue[i][1] = "row" => Kernel'.queue[i][2] \notin Losts
        /\ \A i \in 1 .. Len(Kernel'.batch) : Kernel'.batch[i] \notin Losts
    BY <2>1, <2>2, NoLostPopped
  <2> QED
    BY <1>0, <2>1, <2>3 DEF NoLost, Active
<1>7. CASE Deadline("kernel")
  <2>1. /\ writer' = writer /\ job'["kernel"] = Persist(writer["kernel"].batch)
        /\ writer["kernel"].batch \in Seq(Feed("kernel"))
    BY <1>0, <1>7, DeadlineFacts, WriterParts DEF Deadline, memory
  <2> QED
    BY <1>0, <1>2, <2>1 DEF NoLost, Kernel
<1>8. CASE Persisted("kernel") \/ WriterFails("kernel")
  <2>1. /\ writer'["kernel"].queue = writer["kernel"].queue \/ Len(writer'["kernel"].queue) = 0
        /\ Len(writer'["kernel"].batch) = 0 /\ job'["kernel"] = NoJob
    BY <1>0, <1>8, PersistedFacts, WriterFailsFacts DEF SameBut
  <2> QED
    BY <1>0, <1>3, <2>1 DEF NoLost, Kernel
<1> QED
  BY <1>4, <1>5, <1>6, <1>7, <1>8 DEF WriterStep

LEMMA NoLostPersistSteps ==
    ASSUME Shape, Lossless, WrittenIsThere, NEW p \in Persisters, PersistStep(p) \/ PersistFails(p)
    PROVE  Lossless'
<1>1. /\ UNCHANGED memory /\ OtherJobs(p) /\ Active(p)
      /\ job'[p].phase \in {"write", "done", "failed"}
      /\ job'[p].phase = "write" => job'[p].rows = job[p].rows
  BY PersistFacts
<1>2. Kernel' = Kernel /\ runner' = runner
  BY <1>1 DEF memory, Kernel
<1> SUFFICES ASSUME NoLost
             PROVE  NoLost'
  BY <1>2 DEF Lossless, NoLost
<1>3. Active("kernel")' => Active("kernel") /\ job'["kernel"].rows = job["kernel"].rows
  BY <1>1, PersistersAre DEF OtherJobs, Active
<1>4. inbox' \cap Losts = {}
  <2>1. inbox' = inbox \/ WriteInbox(p)
    BY DEF PersistStep, PersistFails, Reserve, WriteProjection, AdvanceCursor, database
  <2>2. CASE WriteInbox(p)
    <3>1. /\ OneWritten(p, "inbox") /\ p # "side" /\ inbox' = inbox \cup {Current(p, "inbox")}
      BY <2>2, WriteInboxFacts DEF Shape
    <3>2. Current(p, "inbox") \notin Losts
      <4>1. CASE p = "kernel"
        <5>1. /\ job[p].written["inbox"] \in Nat /\ Len(job[p].rows) \in Nat
              /\ job[p].written["inbox"] < Len(job[p].rows)
              /\ Current(p, "inbox") = job[p].rows[job[p].written["inbox"] + 1]
          BY <3>1, JobNumbers DEF OneWritten
        <5>2. PICK k, n : k = job[p].written["inbox"] /\ n = Len(job[p].rows)
          OBVIOUS
        <5>4. k \in Nat /\ n \in Nat /\ k < n
          BY <5>1, <5>2
        <5>3. k + 1 \in 1 .. n
          BY <5>4
        <5> QED
          BY <1>1, <4>1, <5>1, <5>2, <5>3 DEF NoLost
      <4>2. CASE p = "failure"
        BY <3>1, <4>2, PersistersAre DEF OneWritten, Losts, Lost, Failure
      <4>3. CASE p = "sweep"
        BY <3>1, <4>3, PersistersAre, RowFacts DEF OneWritten
      <4> QED
        BY <3>1, <4>1, <4>2, <4>3, PersistersAre
    <3> QED
      BY <3>1, <3>2 DEF NoLost
  <2> QED
    BY <2>1, <2>2 DEF NoLost
<1> QED
  BY <1>2, <1>3, <1>4 DEF NoLost

LEMMA LosslessSteps ==
    ASSUME EventInv, [Next]_vars
    PROVE  Lossless'
<1>1. Shape /\ Frame /\ Children
  BY ShapeIsType DEF EventInv
<1>2. Lossless /\ WrittenIsThere
  BY DEF EventInv
<1>3. CASE \E p \in Persisters : PersistStep(p) \/ PersistFails(p)
  BY <1>1, <1>2, <1>3, NoLostPersistSteps
<1>4. CASE WriterStep("kernel")
  BY <1>1, <1>2, <1>4, NoLostOwnSteps
<1>5. KernelMoves => Lossless'
  BY <1>1, <1>2, NoLostMoves
<1> QED
  BY <1>1, <1>3, <1>4, <1>5, KernelSteps, PersistersAre DEF Next

------------------------------------------------------------------------------
(* Barriers.                                                               *)

\* No barrier that will be answered is with the writer.
Quiet(w) ==
    /\ writer[w].held # "flush"
    /\ \A i \in 1 .. Len(writer[w].queue) : writer[w].queue[i] # Flush
\* The runner awaits the barrier at the end of its queue.
Asked(w) ==
    /\ answer = "none" /\ runner.pc \in Awaits(w) /\ writer[w].held # "flush"
    /\ \A i \in 1 .. Len(writer[w].queue) :
          writer[w].queue[i] = Flush => i = Len(writer[w].queue)
Barred(w) ==
    /\ \A i \in 1 .. Len(writer[w].queue) : writer[w].queue[i] = Flush =>
          /\ answer = "none" /\ runner.pc \in Awaits(w) /\ writer[w].held # "flush"
          /\ \A j \in 1 .. Len(writer[w].queue) : writer[w].queue[j] = Flush => i = j
    /\ writer[w].held = "flush" =>
          answer = "none" /\ runner.pc \in Awaits(w) /\ writer[w].st = "running"
\* The event writer's barrier is the last thing in its queue; an answered one left nothing.
KernelLast ==
    /\ \A i \in 1 .. Len(Kernel.queue) : Kernel.queue[i] = Flush => i = Len(Kernel.queue)
    /\ Kernel.held = "flush" => Kernel.queue = <<>>
KernelSpent ==
    runner.pc \in {"parent", "end"} /\ answer = "ok" =>
        /\ Kernel.queue = <<>> /\ Kernel.batch = <<>> /\ Kernel.st # "failed"
        /\ job["kernel"] = NoJob

\* The next barrier is the event writer's, and is not answered yet.
NotAsked == runner.pc = "stopSide" => answer = "none"

LEMMA BarriersAre ==
    Barriers <=> Barred("kernel") /\ Barred("side") /\ KernelLast /\ KernelSpent /\ NotAsked
BY PersistersAre DEF Barriers, Barred, KernelLast, KernelSpent, NotAsked

LEMMA QuietBefore ==
    ASSUME NEW w \in Writers, Barred(w), runner.pc \notin Awaits(w) \/ answer # "none"
    PROVE  Quiet(w)
BY DEF Barred, Quiet

LEMMA QuietAfter ==
    ASSUME WriterShape, NEW w \in Writers
    PROVE  /\ Quiet(w) /\ writer'[w] = writer[w] => Quiet(w)'
           /\ Forgotten(writer'[w], writer[w]) => Quiet(w)'
           /\ Emptied(w) => Quiet(w)'
<1>1. Quiet(w) /\ writer'[w] = writer[w] => Quiet(w)'
  BY DEF Quiet
<1>2. Forgotten(writer'[w], writer[w]) => Quiet(w)'
  BY EntryFacts DEF Quiet, Forgotten
<1>3. Emptied(w) => Quiet(w)'
  BY DEF Quiet, Emptied
<1> QED
  BY <1>1, <1>2, <1>3

LEMMA AskedAfter ==
    ASSUME WriterShape, NEW w \in Writers, NEW v, NEW x \in {Flush, Stop},
           (v = writer[w] /\ Quiet(w)) \/ Forgotten(v, writer[w]),
           Extended(writer'[w], v, x), answer' = "none",
           x = Flush => runner'.pc \in Awaits(w)
    PROVE  /\ x = Flush => Asked(w)'
           /\ x = Stop => Quiet(w)'
<1>0. PICK n, q : n = Len(v.queue) /\ q = writer'[w].queue
  OBVIOUS
<1>1. /\ Len(v.queue) = Len(writer[w].queue) /\ v.held # "flush"
      /\ \A i \in 1 .. Len(v.queue) : v.queue[i] # Flush
  BY EntryFacts DEF Quiet, Forgotten
<1>2. n \in Nat
  BY <1>0, <1>1, WriterParts
<1>3. /\ Len(q) = n + 1 /\ (\A i \in 1 .. n : q[i] # Flush) /\ q[n + 1] = x
      /\ writer'[w].held # "flush"
  BY <1>0, <1>1 DEF Extended
<1>4. \A i \in 1 .. Len(q) : i \in 1 .. n \/ i = n + 1
  BY <1>2, <1>3
<1>5. \A i \in 1 .. Len(q) : q[i] = Flush => i = Len(q) /\ x = Flush
  BY <1>3, <1>4
<1>6. x = Flush => Asked(w)'
  BY <1>0, <1>3, <1>5 DEF Asked
<1>7. x = Stop => Quiet(w)'
  BY <1>0, <1>3, <1>5, EntryFacts DEF Quiet
<1> QED
  BY <1>6, <1>7

LEMMA HandedAfter ==
    ASSUME WriterShape, NEW row, NEW flushed \in BOOLEAN, Handed(row, flushed), Quiet("kernel"),
           flushed => runner'.pc \in Awaits("kernel")
    PROVE  Asked("kernel")' \/ Quiet("kernel")'
<1>0. PICK n, q : n = Len(Kernel.queue) /\ q = writer'["kernel"].queue
  OBVIOUS
<1>1. n \in Nat
  BY <1>0, WriterParts, PersistersAre DEF Kernel
<1>2. /\ (\A i \in 1 .. n : q[i] # Flush) /\ q[n + 1] # Flush
      /\ writer'["kernel"].held # "flush" /\ answer' = "none"
  BY <1>0, EntryFacts DEF Handed, Kernel, Quiet, SameBut, Commands
<1>3. CASE flushed
  <2>1. Len(q) = n + 2
    BY <1>0, <1>3 DEF Handed, Kernel
  <2>2. \A i \in 1 .. Len(q) : i \in 1 .. n \/ i = n + 1 \/ i = Len(q)
    BY <1>1, <2>1
  <2> QED
    BY <1>0, <1>2, <1>3, <2>2 DEF Asked
<1>4. CASE ~flushed
  <2>1. Len(q) = n + 1
    BY <1>0, <1>4 DEF Handed, Kernel
  <2>2. \A i \in 1 .. Len(q) : i \in 1 .. n \/ i = n + 1
    BY <1>1, <2>1
  <2> QED
    BY <1>0, <1>2, <2>2 DEF Quiet
<1> QED
  BY <1>3, <1>4

LEMMA PushedAfter ==
    ASSUME WriterShape, NEW rows \in Seq(Sides), Pushed("side", Items(rows)),
           SameBut("side", {"queue"}), Quiet("side")
    PROVE  Quiet("side")'
<1>1. /\ Grows(Range(rows)) /\ \A s : Row(Side(s)) # Flush
  BY PushedGrows, EntryFacts DEF Commands
<1>2. \A i \in 1 .. Len(writer'["side"].queue) : writer'["side"].queue[i] # Flush
  <2> SUFFICES ASSUME NEW i \in 1 .. Len(writer'["side"].queue)
               PROVE  writer'["side"].queue[i] # Flush
    OBVIOUS
  <2>1. i \in Nat /\ Len(Band.queue) \in Nat /\ (i <= Len(Band.queue) => i \in 1 .. Len(Band.queue))
    BY WriterParts, PersistersAre DEF Band
  <2> QED
    BY <1>1, <2>1 DEF Grows, Quiet, Band
<1> QED
  BY <1>2 DEF Quiet, SameBut

\* After a step of the runner each writer is quiet or has been asked.
Settled ==
    /\ Quiet("kernel")' \/ Asked("kernel")'
    /\ Quiet("side")' \/ Asked("side")'
    /\ runner'.pc \in {"parent", "end"} => answer' # "ok"
    /\ runner'.pc = "stopSide" => answer' = "none"

LEMMA BarriersAfter ==
    ASSUME WriterShape', Settled
    PROVE  Barriers'
<1>2. \A w \in Writers : Quiet(w)' \/ Asked(w)' => Barred(w)'
  BY DEF Quiet, Asked, Barred
<1>3. Quiet("kernel")' \/ Asked("kernel")' => KernelLast'
  BY DEF Quiet, Asked, KernelLast, Kernel
<1>4. KernelSpent'
  BY DEF Settled, KernelSpent
<1>5. Barred("kernel")' /\ Barred("side")' /\ KernelLast'
  BY <1>2, <1>3, PersistersAre DEF Settled
<1> QED
  BY <1>4, <1>5, PersistersAre DEF Barriers, Barred, KernelLast, KernelSpent, Settled

LEMMA AbortedSettles ==
    ASSUME WriterShape, Quiet("side"), Aborted
    PROVE  Settled
BY QuietAfter, PersistersAre DEF Aborted, Settled

LEMMA RunnerSettles ==
    ASSUME Shape, Frame, Children, Barriers,
           RunnerStep \/ Disconnect \/ Interrupt \/ Cancel \/ Crash
    PROVE  Settled
<1>0. /\ WriterShape /\ JobShape /\ ChannelShape /\ "kernel" \in Writers /\ "side" \in Writers
      /\ Awaits("kernel") = {"parent", "end", "closeKernel"}
      /\ Awaits("side") = {"endSide", "closeSide"}
      /\ Flush \in {Flush, Stop} /\ Stop \in {Flush, Stop} /\ Flush # Stop
  BY PersistersAre, EntryFacts DEF Shape, Awaits
<1>q. /\ runner.pc \notin Awaits("kernel") \/ answer # "none" => Quiet("kernel")
      /\ runner.pc \notin Awaits("side") \/ answer # "none" => Quiet("side")
  BY <1>0, BarriersAre, QuietBefore
<1>1. CASE Receive
  <2>1. runner.pc = "stream" /\ Quiet("kernel") /\ Quiet("side")
    BY <1>0, <1>q, <1>1, ReceiveFacts
  <2>2. CASE Aborted
    BY <1>0, <2>1, <2>2, AbortedSettles
  <2>3. CASE ~Aborted
    <3>1. PICK pc \in {"stream", "parent", "end"} :
            /\ Runs(pc, runner.next + 1,
                    IF runner.next = Last THEN "completed" ELSE runner.status)
            /\ Handed(Native(runner.next), pc # "stream")
      BY <1>1, <2>3, ReceiveFacts
    <3>2. /\ runner'.pc = pc /\ writer'["side"] = writer["side"] /\ answer' = "none"
      BY <3>1 DEF Runs, Handed
    <3>3. pc # "stream" => runner'.pc \in Awaits("kernel")
      BY <1>0, <3>2
    <3>4. Asked("kernel")' \/ Quiet("kernel")'
      BY <1>0, <2>1, <3>1, <3>3, HandedAfter
    <3> QED
      BY <1>0, <2>1, <3>2, <3>4, QuietAfter DEF Settled
  <2> QED
    BY <2>2, <2>3
<1>2. CASE Disconnect
  <2>1. runner.pc = "stream" /\ Quiet("kernel") /\ Quiet("side")
    BY <1>0, <1>q, <1>2, DisconnectFacts
  <2>2. CASE Aborted
    BY <1>0, <2>1, <2>2, AbortedSettles
  <2>3. CASE ~Aborted
    <3>1. /\ Runs("end", runner.next, "failed") /\ Handed(Lost(runner.next), TRUE)
      BY <1>2, <2>3, DisconnectFacts
    <3>2. /\ runner'.pc = "end" /\ writer'["side"] = writer["side"] /\ answer' = "none"
      BY <3>1 DEF Runs, Handed
    <3>3. runner'.pc \in Awaits("kernel")
      BY <1>0, <3>2
    <3>4. Asked("kernel")' \/ Quiet("kernel")'
      BY <1>0, <2>1, <3>1, <3>3, HandedAfter
    <3> QED
      BY <1>0, <2>1, <3>2, <3>4, QuietAfter DEF Settled
  <2> QED
    BY <2>2, <2>3
<1>3. CASE ParentFlushed
  <2>1. answer = "ok" /\ Quiet("kernel") /\ Quiet("side") /\ answer' = "none"
    BY <1>0, <1>q, <1>3, ParentFlushedIs
  <2>2. CASE Aborted
    BY <1>0, <2>1, <2>2, AbortedSettles
  <2>3. CASE ~Aborted
    <3> DEFINE rows == channel.unmarked[runner.next - 1]
    <3>1. /\ runner.next - 1 \in Starts /\ runner'.pc = "stream"
          /\ Pushed("side", Items(rows)) /\ SameBut("side", {"queue"})
          /\ writer'["kernel"] = writer["kernel"]
      BY <1>3, <2>3, ParentFlushedIs, StartsAssumption DEF Runs
    <3>2. rows \in Seq(Sides)
      BY <1>0, <3>1 DEF ChannelShape
    <3> HIDE DEF rows
    <3>3. Quiet("side")'
      BY <1>0, <2>1, <3>1, <3>2, PushedAfter
    <3> QED
      BY <1>0, <2>1, <3>1, <3>3, QuietAfter DEF Settled
  <2> QED
    BY <2>2, <2>3
<1>4. CASE EndFlushed
  <2>1. answer = "ok" /\ Quiet("kernel") /\ Quiet("side")
    BY <1>0, <1>q, <1>4, EndFlushedFacts
  <2>2. CASE Aborted
    BY <1>0, <2>1, <2>2, AbortedSettles
  <2>3. CASE ~Aborted
    <3>1. /\ runner'.pc = "endSide" /\ writer'["kernel"] = writer["kernel"]
          /\ Extended(writer'["side"], writer["side"], Flush) /\ answer' = "none"
      BY <1>4, <2>3, EndFlushedFacts DEF Runs
    <3>2. Asked("side")'
      BY <1>0, <2>1, <3>1, AskedAfter
    <3> QED
      BY <1>0, <2>1, <3>1, <3>2, QuietAfter DEF Settled
  <2> QED
    BY <2>2, <2>3
<1>5. CASE FlushRaises \/ Interrupt
  <2>1. Aborted
    BY <1>5, FlushRaisesFacts
  <2>2. runner.pc = "stream" \/ answer = "error"
    BY <1>5 DEF FlushRaises, Interrupt
  <2> QED
    BY <1>0, <1>q, <2>1, <2>2, AbortedSettles
<1>c. ASSUME Closes(writer, runner.status), Quiet("kernel"), Quiet("side")
      PROVE  Settled
  <2>1. /\ writer'["kernel"] = writer["kernel"] /\ answer' = "none"
        /\ \/ writer'["side"] = writer["side"] /\ runner'.pc \in {"settling", "raised"}
           \/ Extended(writer'["side"], writer["side"], Flush) /\ runner'.pc = "closeSide"
    BY <1>c DEF Closes
  <2>2. Quiet("side")' \/ Asked("side")'
    BY <1>0, <1>c, <2>1, QuietAfter, AskedAfter
  <2> QED
    BY <1>0, <1>c, <2>1, <2>2, QuietAfter DEF Settled
<1>6. CASE CloseAfterEnd
  BY <1>q, <1>c, <1>6, CloseAfterEndFacts
<1>7. CASE CloseAfterFailure
  BY <1>0, <1>q, <1>c, <1>7, CloseAfterFailureFacts
<1>8. CASE SideClosed
  <2>1. /\ answer # "none" /\ answer' = "none" /\ writer'["kernel"] = writer["kernel"]
        /\ \/ runner'.pc = "stopSide" /\ Extended(writer'["side"], writer["side"], Stop)
           \/ runner'.pc \in {"settling", "raised"} /\ writer'["side"] = writer["side"]
    BY <1>8, SideClosedFacts
  <2>2. Quiet("kernel") /\ Quiet("side")
    BY <1>q, <2>1
  <2>3. Quiet("side")'
    BY <1>0, <2>1, <2>2, QuietAfter, AskedAfter
  <2> QED
    BY <1>0, <2>1, <2>2, <2>3, QuietAfter DEF Settled
<1>9. CASE SideStopped
  <2>1. /\ runner.pc = "stopSide" /\ answer' = answer /\ writer'["side"] = writer["side"]
        /\ \/ runner'.pc \in {"settled", "settling", "unsettled"}
              /\ writer'["kernel"] = writer["kernel"]
           \/ runner'.pc = "closeKernel" /\ Extended(writer'["kernel"], writer["kernel"], Flush)
    BY <1>9, SideStoppedFacts
  <2>2. Quiet("kernel") /\ Quiet("side")
    BY <1>0, <1>q, <2>1
  <2>3. answer = "none"
    BY <2>1, BarriersAre DEF NotAsked
  <2>4. Quiet("kernel")' \/ Asked("kernel")'
    BY <1>0, <2>1, <2>2, <2>3, QuietAfter, AskedAfter
  <2> QED
    BY <1>0, <2>1, <2>2, <2>3, <2>4, QuietAfter DEF Settled
<1>10. CASE KernelClosed
  <2>1. /\ answer # "none" /\ answer' = "none" /\ writer'["side"] = writer["side"]
        /\ \/ runner'.pc = "stopKernel" /\ Extended(writer'["kernel"], writer["kernel"], Stop)
           \/ runner'.pc \in {"settling", "unsettled"} /\ writer'["kernel"] = writer["kernel"]
    BY <1>10, KernelClosedFacts
  <2>2. Quiet("kernel") /\ Quiet("side")
    BY <1>q, <2>1
  <2>3. Quiet("kernel")'
    BY <1>0, <2>1, <2>2, QuietAfter, AskedAfter
  <2> QED
    BY <1>0, <2>1, <2>2, <2>3, QuietAfter DEF Settled
<1>11. CASE KernelStopped \/ Settle
  <2>1. /\ runner.pc \in {"stopKernel", "settling"} /\ runner'.pc \in {"settled", "cut"}
        /\ writer' = writer
    BY <1>11, SettlingFacts
  <2> QED
    BY <1>0, <1>q, <2>1, QuietAfter DEF Settled
<1>12. CASE Cancel
  <2>1. CancelTurn \/ CancelEnding
    BY <1>12 DEF Cancel
  <2>2. CASE CancelTurn
    <3> DEFINE ws == [w \in Writers |-> Forget(w)]
               v == Forget("side")
    <3>1. /\ Closes(ws, "cancelled") /\ ws["side"] = v /\ ws["kernel"] = Forget("kernel")
          /\ Forgotten(Forget("kernel"), writer["kernel"]) /\ Forgotten(v, writer["side"])
      BY <1>0, <2>2, CancelTurnFacts
    <3> HIDE DEF ws, v
    <3>2. /\ writer'["kernel"] = Forget("kernel") /\ answer' = "none"
          /\ \/ writer'["side"] = v /\ runner'.pc \in {"settling", "raised"}
             \/ Extended(writer'["side"], v, Flush) /\ runner'.pc = "closeSide"
      BY <3>1 DEF Closes
    <3>3. Quiet("kernel")'
      BY <1>0, <3>1, <3>2, QuietAfter
    <3>4. Quiet("side")' \/ Asked("side")'
      BY <1>0, <3>1, <3>2, QuietAfter, AskedAfter
    <3> QED
      BY <3>2, <3>3, <3>4 DEF Settled
  <2>3. CASE CancelEnding
    <3>1. /\ runner'.pc \in {"cut", "raised"} /\ answer' = "none"
          /\ \A w \in Writers : Emptied(w) \/ Forgotten(writer'[w], writer[w])
      BY <2>3, CancelEndingFacts
    <3> QED
      BY <1>0, <3>1, QuietAfter DEF Settled
  <2> QED
    BY <2>1, <2>2, <2>3
<1>13. CASE Crash
  <2>1. runner'.pc = "crashed" /\ \A w \in Writers : Emptied(w)
    BY <1>13, CrashFacts
  <2> QED
    BY <1>0, <2>1, QuietAfter DEF Settled
<1> QED
  BY <1>1, <1>2, <1>3, <1>4, <1>5, <1>6, <1>7, <1>8, <1>9, <1>10, <1>11, <1>12, <1>13
     DEF RunnerStep

\* The first entry of a queue is taken.
LEMMA BarredPopped ==
    ASSUME WriterShape, NEW w \in Writers, Barred(w), Popped(w), UNCHANGED runner,
           writer'[w].st = writer[w].st \/ writer'[w].held # "flush"
    PROVE  /\ writer[w].queue[1] = Flush =>
                /\ answer = "none" /\ runner.pc \in Awaits(w) /\ writer[w].held # "flush"
                /\ \A i \in 1 .. Len(writer'[w].queue) : writer'[w].queue[i] # Flush
           /\ writer[w].queue[1] # Flush /\ answer' = answer
                /\ (writer'[w].held = "flush" => writer[w].held = "flush")
                /\ (writer[w].held # "flush" => writer'[w].held # "flush") => Barred(w)'
<1>0. PICK n, m, q, u : /\ n = Len(writer[w].queue) /\ u = writer[w].queue
                        /\ q = writer'[w].queue /\ m = Len(q)
  OBVIOUS
<1>1. /\ n \in Nat \ {0} /\ m = n - 1 /\ \A i \in 1 .. m : q[i] = u[i + 1]
  BY <1>0 DEF Popped
<1>2. 1 \in 1 .. n /\ \A i \in 1 .. m : i + 1 \in 1 .. n /\ i + 1 # 1
  BY <1>1
<1>3. \A i \in 1 .. n : u[i] = Flush =>
        /\ answer = "none" /\ runner.pc \in Awaits(w) /\ writer[w].held # "flush"
        /\ \A j \in 1 .. n : u[j] = Flush => i = j
  BY <1>0 DEF Barred
<1>4. ASSUME u[1] = Flush
      PROVE  \A i \in 1 .. m : q[i] # Flush
  <2> SUFFICES ASSUME NEW i \in 1 .. m, q[i] = Flush
               PROVE  FALSE
    OBVIOUS
  <2>1. u[i + 1] = Flush /\ i + 1 \in 1 .. n /\ i + 1 # 1
    BY <1>1, <1>2
  <2> QED
    BY <1>2, <1>3, <1>4, <2>1
<1>5. ASSUME u[1] # Flush, answer' = answer, writer'[w].held = "flush" => writer[w].held = "flush",
             writer[w].held # "flush" => writer'[w].held # "flush"
      PROVE  Barred(w)'
  <2>1. ASSUME NEW i \in 1 .. m, q[i] = Flush
        PROVE  /\ answer' = "none" /\ runner'.pc \in Awaits(w) /\ writer'[w].held # "flush"
               /\ \A j \in 1 .. m : q[j] = Flush => i = j
    <3>1. u[i + 1] = Flush /\ i + 1 \in 1 .. n
      BY <1>1, <1>2, <2>1
    <3>2. ASSUME NEW j \in 1 .. m, q[j] = Flush
          PROVE  i = j
      <4>1. u[j + 1] = Flush /\ j + 1 \in 1 .. n
        BY <1>1, <1>2, <3>2
      <4>2. i + 1 = j + 1
        BY <1>3, <3>1, <4>1
      <4> QED
        BY <4>2, <1>1
    <3> QED
      BY <1>3, <1>5, <3>1, <3>2
  <2>2. writer'[w].held = "flush" =>
          answer' = "none" /\ runner'.pc \in Awaits(w) /\ writer'[w].st = "running"
    BY <1>5 DEF Barred
  <2> QED
    BY <1>0, <2>1, <2>2 DEF Barred
<1> QED
  BY <1>0, <1>2, <1>3, <1>4, <1>5

LEMMA KernelLastPopped ==
    ASSUME WriterShape', KernelLast, Popped("kernel"), Kernel.held # "flush"
    PROVE  /\ Kernel.queue[1] = Flush => writer'["kernel"].queue = <<>>
           /\ writer'["kernel"].held # "flush" \/ Kernel.queue[1] = Flush => KernelLast'
<1>0. PICK n, m, q, u : /\ n = Len(Kernel.queue) /\ u = Kernel.queue
                        /\ q = writer'["kernel"].queue /\ m = Len(q)
  OBVIOUS
<1>1. /\ n \in Nat \ {0} /\ m = n - 1 /\ \A i \in 1 .. m : q[i] = u[i + 1]
  BY <1>0 DEF Popped, Kernel
<1>2. 1 \in 1 .. n /\ \A i \in 1 .. m : i + 1 \in 1 .. n
  BY <1>1
<1>3. ASSUME u[1] = Flush
      PROVE  q = <<>>
  <2>1. n = 1
    BY <1>0, <1>2, <1>3 DEF KernelLast
  <2>2. m = 0
    BY <1>1, <2>1
  <2>3. q \in Seq(Entries("kernel"))
    BY <1>0, PersistersAre DEF WriterShape
  <2> QED
    BY <1>0, <2>2, <2>3, EmptySeq
<1>4. ASSUME NEW i \in 1 .. m, q[i] = Flush
      PROVE  i = m
  <2>1. u[i + 1] = Flush /\ i + 1 \in 1 .. n
    BY <1>1, <1>2, <1>4
  <2>2. i + 1 = n
    BY <1>0, <2>1 DEF KernelLast
  <2> QED
    BY <1>1, <2>2
<1> QED
  BY <1>0, <1>3, <1>4 DEF KernelLast, Kernel

\* What a writer's own step leaves of the barriers.
Answers(w) ==
    /\ Barred(w)'
    /\ w = "kernel" => KernelLast' /\ KernelSpent'
    /\ answer' = answer \/ (runner.pc \in Awaits(w) /\ answer = "none")

LEMMA WriterAnswers ==
    ASSUME Shape, Barriers, BatchIsJob, NEW w \in Writers, WriterStep(w)
    PROVE  Answers(w)
<1>0. /\ WriterShape /\ JobShape /\ UNCHANGED runner /\ Barred(w)
      /\ w = "kernel" => KernelLast /\ KernelSpent /\ writer["kernel"] = Kernel
      /\ "kernel" \in Writers
  BY BarriersAre, PersistersAre
     DEF Shape, Kernel, WriterStep, TakeRow, TakeCommand, TakeCommandOnEmpty, Deadline, memory,
         Persisted, WriterFails
<1>b. writer[w].held # "none" => job[w] # NoJob
  BY DEF BatchIsJob
<1>i. NoJob.phase = "idle"
  BY DEF NoJob
<1>s. \A i \in 1 .. Len(writer[w].queue) : writer[w].queue[i] = Flush =>
        runner.pc \in Awaits(w) /\ answer = "none"
  BY <1>0 DEF Barred
<1>e. ASSUME Popped(w)
      PROVE  w = "kernel" => KernelLast /\ ~(runner.pc \in {"parent", "end"} /\ answer = "ok")
  <2>1. 1 \in 1 .. Len(writer[w].queue)
    BY <1>e DEF Popped
  <2>2. Len(writer[w].queue) # 0
    BY <1>e DEF Popped
  <2>3. writer[w].queue # <<>>
    BY <1>0, <2>2, WriterParts
  <2> QED
    BY <1>0, <2>3 DEF KernelSpent
<1>1. CASE TakeRow(w)
  <2>1. /\ WriterShape' /\ Popped(w) /\ SameBut(w, {"queue", "batch"})
        /\ writer[w].queue[1] = Row(writer[w].queue[1][2]) /\ job[w] = NoJob /\ answer' = answer
    BY <1>0, <1>1, TakeRowFacts DEF TakeRow
  <2>2. /\ writer[w].held = "none" /\ writer'[w].held = "none" /\ writer'[w].st = writer[w].st
        /\ writer[w].queue[1] # Flush
    BY <1>b, <2>1, EntryFacts DEF SameBut, Commands
  <2>3. Barred(w)'
    BY <1>0, <2>1, <2>2, BarredPopped
  <2>4. w = "kernel" => KernelLast' /\ KernelSpent'
    BY <1>0, <1>e, <2>1, <2>2, KernelLastPopped DEF KernelSpent
  <2> QED
    BY <2>1, <2>3, <2>4 DEF Answers
<1>2. CASE TakeCommand(w)
  <2>1. /\ WriterShape' /\ Popped(w) /\ SameBut(w, {"queue", "held"})
        /\ writer[w].queue[1] \in Commands /\ writer'[w].held = writer[w].queue[1][1]
        /\ writer[w].st = "running" /\ job[w] = NoJob /\ answer' = answer
    BY <1>0, <1>2, TakeCommandFacts DEF TakeCommand
  <2>2. /\ writer[w].held = "none" /\ writer'[w].st = "running"
        /\ writer'[w].held = "flush" <=> writer[w].queue[1] = Flush
    BY <1>b, <2>1, EntryFacts DEF SameBut, Commands
  <2>3. CASE writer[w].queue[1] = Flush
    <3>1. /\ answer = "none" /\ runner.pc \in Awaits(w)
          /\ \A i \in 1 .. Len(writer'[w].queue) : writer'[w].queue[i] # Flush
      BY <1>0, <2>1, <2>2, <2>3, BarredPopped
    <3>2. Barred(w)'
      BY <1>0, <2>1, <2>2, <3>1 DEF Barred
    <3>3. w = "kernel" => KernelLast'
      <4>1. w = "kernel" => writer'["kernel"].queue = <<>> /\ KernelLast'
        BY <1>0, <2>1, <2>2, <2>3, KernelLastPopped
      <4> QED
        BY <4>1
    <3> QED
      BY <1>0, <1>e, <2>1, <3>2, <3>3 DEF Answers, KernelSpent
  <2>4. CASE writer[w].queue[1] # Flush
    <3>1. Barred(w)'
      BY <1>0, <2>1, <2>2, <2>4, BarredPopped
    <3>2. w = "kernel" => KernelLast' /\ KernelSpent'
      BY <1>0, <1>e, <2>1, <2>2, <2>4, KernelLastPopped DEF KernelSpent
    <3> QED
      BY <2>1, <3>1, <3>2 DEF Answers
  <2> QED
    BY <2>3, <2>4
<1>3. CASE TakeCommandOnEmpty(w)
  <2>1. /\ WriterShape' /\ Popped(w) /\ SameBut(w, {"queue", "st"})
        /\ writer'[w].st = IF writer[w].queue[1] = Stop THEN "stopped" ELSE "running"
        /\ answer' = IF writer[w].queue[1] = Flush THEN "ok" ELSE answer
        /\ writer[w].st = "running" /\ job[w] = NoJob /\ writer[w].batch = <<>>
        /\ job' = job
    BY <1>0, <1>3, TakeCommandOnEmptyFacts DEF TakeCommandOnEmpty
  <2>2. writer[w].held = "none" /\ writer'[w].held = "none" /\ writer'[w].batch = <<>>
    BY <1>b, <2>1 DEF SameBut
  <2>3. CASE writer[w].queue[1] = Flush
    <3>1. /\ answer = "none" /\ runner.pc \in Awaits(w)
          /\ \A i \in 1 .. Len(writer'[w].queue) : writer'[w].queue[i] # Flush
      BY <1>0, <2>1, <2>2, <2>3, BarredPopped
    <3>2. Barred(w)'
      BY <2>2, <3>1 DEF Barred
    <3>3. writer'[w].st = "running"
      BY <2>1, <2>3, EntryFacts
    <3>4. w = "kernel" => KernelLast' /\ KernelSpent'
      <4>1. w = "kernel" => writer'["kernel"].queue = <<>> /\ KernelLast'
        BY <1>0, <2>1, <2>2, <2>3, KernelLastPopped
      <4>2. w = "kernel" => /\ writer'["kernel"].batch = <<>> /\ job'["kernel"] = NoJob
                            /\ writer'["kernel"].st = "running"
        BY <2>1, <2>2, <3>3
      <4> QED
        BY <4>1, <4>2 DEF KernelSpent, Kernel
    <3> QED
      BY <3>1, <3>2, <3>4 DEF Answers
  <2>4. CASE writer[w].queue[1] # Flush
    <3>1. Barred(w)'
      BY <1>0, <2>1, <2>2, <2>4, BarredPopped
    <3>2. w = "kernel" => KernelLast' /\ KernelSpent'
      BY <1>0, <1>e, <2>1, <2>2, <2>4, KernelLastPopped DEF KernelSpent
    <3> QED
      BY <2>1, <2>4, <3>1, <3>2 DEF Answers
  <2> QED
    BY <2>3, <2>4
<1>4. CASE Deadline(w)
  <2>1. /\ UNCHANGED <<runner, answer, writer>> /\ writer[w].batch # <<>>
    BY <1>4 DEF Deadline, memory
  <2>2. Barred(w)' /\ (KernelLast => KernelLast')
    BY <1>0, <2>1 DEF Barred, KernelLast, Kernel
  <2>3. w = "kernel" => KernelSpent'
    BY <1>0, <2>1 DEF KernelSpent
  <2> QED
    BY <1>0, <2>1, <2>2, <2>3 DEF Answers
<1>5. CASE Persisted(w)
  <2>1. /\ writer'[w].queue = writer[w].queue
        /\ writer'[w].batch = <<>> /\ writer'[w].held = "none" /\ job'[w] = NoJob
        /\ writer'[w].st = IF writer[w].held = "stop" THEN "stopped" ELSE writer[w].st
        /\ answer' = IF writer[w].held = "flush" THEN "ok" ELSE answer
        /\ Done(w)
    BY <1>0, <1>5, PersistedFacts DEF SameBut
  <2>2. job[w] # NoJob
    BY <1>i, <2>1 DEF Done, Gathered
  <2>3. CASE writer[w].held = "flush"
    <3>1. /\ answer = "none" /\ runner.pc \in Awaits(w) /\ writer[w].st = "running"
          /\ \A i \in 1 .. Len(writer[w].queue) : writer[w].queue[i] # Flush
      BY <1>0, <2>3 DEF Barred
    <3>2. Barred(w)'
      BY <2>1, <3>1 DEF Barred
    <3>3. w = "kernel" => KernelLast'
      BY <2>1, <3>1 DEF KernelLast, Kernel
    <3>4. w = "kernel" => writer["kernel"].queue = <<>>
      BY <1>0, <2>3 DEF KernelLast
    <3>5. w = "kernel" => KernelSpent'
      BY <2>1, <2>3, <3>1, <3>4 DEF KernelSpent, Kernel
    <3> QED
      BY <3>1, <3>2, <3>3, <3>5 DEF Answers
  <2>4. CASE writer[w].held # "flush"
    <3>1. Barred(w)'
      BY <1>0, <2>1, <2>4 DEF Barred
    <3>2. w = "kernel" => KernelLast'
      BY <1>0, <2>1 DEF KernelLast, Kernel
    <3>3. w = "kernel" => KernelSpent'
      BY <1>0, <2>1, <2>2, <2>4 DEF KernelSpent
    <3> QED
      BY <2>1, <2>4, <3>1, <3>2, <3>3 DEF Answers
  <2> QED
    BY <2>3, <2>4
<1>6. CASE WriterFails(w)
  <2>1. /\ Len(writer'[w].queue) = 0 /\ writer'[w].held = "none" /\ job[w].phase = "failed"
        /\ \/ answer' = answer
           \/ \E i \in 1 .. Len(writer[w].queue) : writer[w].queue[i] = Flush /\ answer' = "error"
    BY <1>0, <1>6, WriterFailsFacts
  <2>2. Barred(w)' /\ (w = "kernel" => KernelLast')
    BY <2>1 DEF Barred, KernelLast, Kernel
  <2>3. answer' = answer \/ (runner.pc \in Awaits(w) /\ answer = "none" /\ answer' = "error")
    BY <1>s, <2>1
  <2>4. w = "kernel" => KernelSpent'
    BY <1>0, <1>i, <2>1, <2>3 DEF KernelSpent
  <2> QED
    BY <2>2, <2>3, <2>4 DEF Answers
<1> QED
  BY <1>1, <1>2, <1>3, <1>4, <1>5, <1>6 DEF WriterStep

LEMMA BandStepSides ==
    ASSUME Shape, WriterStep("side")
    PROVE  /\ writer'["kernel"] = writer["kernel"] /\ job'["kernel"] = job["kernel"]
           /\ job'["sweep"] = job["sweep"] /\ job'["failure"] = job["failure"]
           /\ UNCHANGED <<runner, channel, side, database>>
<1>0. WriterShape /\ JobShape /\ "side" \in Writers /\ "kernel" \in Writers \ {"side"}
      /\ {"kernel", "sweep", "failure"} \subseteq Persisters \ {"side"}
  BY DEF Shape, Writers, Persisters
<1>1. UNCHANGED <<runner, channel, side, database>>
  BY DEF WriterStep, TakeRow, TakeCommand, TakeCommandOnEmpty, Deadline, Persisted, WriterFails, memory
<1>2. CASE TakeRow("side")
  BY <1>0, <1>1, <1>2, TakeRowFacts
<1>3. CASE TakeCommand("side")
  BY <1>0, <1>1, <1>3, TakeCommandFacts
<1>4. CASE TakeCommandOnEmpty("side")
  BY <1>0, <1>1, <1>4, TakeCommandOnEmptyFacts DEF TakeCommandOnEmpty
<1>5. CASE Deadline("side")
  BY <1>0, <1>1, <1>5, DeadlineFacts DEF Deadline, memory
<1>6. CASE Persisted("side")
  BY <1>0, <1>1, <1>6, PersistedFacts
<1>7. CASE WriterFails("side")
  BY <1>0, <1>1, <1>7, WriterFailsFacts
<1> QED
  BY <1>2, <1>3, <1>4, <1>5, <1>6, <1>7 DEF WriterStep

\* The runner and the event writer rest; the side writer's queue may grow by rows.
LEMMA BarriersRest ==
    ASSUME Shape, Barriers, UNCHANGED <<runner, answer>>, writer'["kernel"] = writer["kernel"],
           job'["kernel"] = job["kernel"] \/ job["kernel"] # NoJob,
           \/ writer'["side"] = writer["side"]
           \/ \E s \in Sides : Extended(writer'["side"], writer["side"], Row(Side(s)))
    PROVE  Barriers'
<1>0. WriterShape /\ Barred("kernel") /\ Barred("side") /\ KernelLast /\ KernelSpent /\ NotAsked
  BY BarriersAre DEF Shape
<1>1. Barred("kernel")' /\ KernelLast' /\ KernelSpent' /\ NotAsked'
  BY <1>0 DEF Barred, KernelLast, KernelSpent, NotAsked, Kernel
<1>2. Barred("side")'
  <2>1. CASE writer'["side"] = writer["side"]
    BY <1>0, <2>1 DEF Barred
  <2>2. CASE \E s \in Sides : Extended(writer'["side"], writer["side"], Row(Side(s)))
    <3>1. PICK s \in Sides : Extended(writer'["side"], writer["side"], Row(Side(s)))
      BY <2>2
    <3>2. Row(Side(s)) # Flush
      BY EntryFacts DEF Commands
    <3>3. PICK n, q : n = Len(writer["side"].queue) /\ q = writer'["side"].queue
      OBVIOUS
    <3>4. n \in Nat
      BY <1>0, <3>3, WriterParts, PersistersAre
    <3>5. \A i \in 1 .. n + 1 : i \in 1 .. n \/ i = n + 1
      BY <3>4
    <3>6. \A i \in 1 .. Len(q) : q[i] = Flush => i \in 1 .. n /\ writer["side"].queue[i] = Flush
      BY <3>1, <3>2, <3>3, <3>5 DEF Extended
    <3>7. \A i \in 1 .. Len(q) : q[i] = Flush =>
            /\ answer' = "none" /\ runner'.pc \in Awaits("side") /\ writer'["side"].held # "flush"
            /\ \A j \in 1 .. Len(q) : q[j] = Flush => i = j
      BY <1>0, <3>1, <3>3, <3>6 DEF Barred, Extended
    <3>8. writer'["side"].held = "flush" =>
            answer' = "none" /\ runner'.pc \in Awaits("side") /\ writer'["side"].st = "running"
      BY <1>0, <3>1 DEF Barred, Extended
    <3> QED
      BY <3>3, <3>7, <3>8 DEF Barred
  <2> QED
    BY <2>1, <2>2
<1> QED
  BY <1>1, <1>2, PersistersAre DEF Barriers, Barred, KernelLast, KernelSpent, NotAsked

LEMMA BarriersSteps ==
    ASSUME EventInv, [Next]_vars
    PROVE  Barriers'
<1>0. /\ Shape /\ Frame /\ Children /\ Barriers /\ BatchIsJob /\ WriterShape /\ JobShape
      /\ Barred("kernel") /\ Barred("side") /\ KernelLast /\ KernelSpent /\ NotAsked
      /\ "kernel" \in Writers /\ "side" \in Writers
      /\ Awaits("kernel") = {"parent", "end", "closeKernel"}
      /\ Awaits("side") = {"endSide", "closeSide"}
  BY ShapeIsType, BarriersAre, PersistersAre DEF EventInv, Shape, Awaits
<1>1. CASE RunnerStep \/ Disconnect \/ Interrupt \/ Cancel \/ Crash
  <2>1. WriterShape'
    BY ShapeAndJobs DEF StepInv, Shape
  <2> QED
    BY <1>0, <1>1, <2>1, RunnerSettles, BarriersAfter
<1>2. CASE WriterStep("kernel")
  <2>1. Answers("kernel") /\ writer'["side"] = writer["side"] /\ UNCHANGED runner
    BY <1>0, <1>2, WriterAnswers, KernelStepSides
  <2>2. Barred("side")' /\ NotAsked'
    BY <1>0, <2>1 DEF Answers, Barred, NotAsked
  <2> QED
    BY <2>1, <2>2, PersistersAre DEF Answers, Barriers, Barred, KernelLast, KernelSpent, NotAsked
<1>3. CASE WriterStep("side")
  <2>1. /\ Answers("side") /\ writer'["kernel"] = writer["kernel"] /\ UNCHANGED runner
        /\ job'["kernel"] = job["kernel"]
    BY <1>0, <1>3, WriterAnswers, BandStepSides
  <2>2. Barred("kernel")' /\ KernelLast' /\ KernelSpent' /\ NotAsked'
    BY <1>0, <2>1 DEF Answers, Barred, NotAsked, KernelLast, KernelSpent, Kernel
  <2> QED
    BY <2>1, <2>2, PersistersAre DEF Answers, Barriers, Barred, KernelLast, KernelSpent, NotAsked
<1>4. CASE \E p \in Persisters : PersistStep(p) \/ PersistFails(p)
  <2>1. PICK p \in Persisters : PersistStep(p) \/ PersistFails(p)
    BY <1>4
  <2>2. UNCHANGED memory /\ OtherJobs(p) /\ Active(p)
    BY <1>0, <2>1, PersistFacts
  <2>3. job'["kernel"] = job["kernel"] \/ job["kernel"] # NoJob
    BY <2>2, PersistersAre DEF OtherJobs, Active, NoJob
  <2> QED
    BY <1>0, <2>2, <2>3, BarriersRest DEF memory
<1>5. CASE Ingest \/ Ingested \/ UNCHANGED vars
  <2>1. UNCHANGED memory
    BY <1>5 DEF Ingest, Ingested, vars
  <2>2. job'["kernel"] = job["kernel"]
    <3>1. CASE Ingest
      BY <1>0, <3>1, IngestFacts, PersistersAre DEF OtherJobs, Shape
    <3>2. CASE Ingested
      BY <1>0, <3>2, JobEndFacts, PersistersAre DEF Ingested, OtherJobs
    <3> QED
      BY <1>5, <3>1, <3>2 DEF vars
  <2> QED
    BY <1>0, <2>1, <2>2, BarriersRest DEF memory
<1>6. ASSUME NEW s \in Sides, Publish(s)
      PROVE  Barriers'
  <2>1. UNCHANGED <<runner, answer, job>>
    BY <1>6, Zenon DEF Publish
  <2>2. /\ writer'["kernel"] = writer["kernel"]
        /\ writer' = writer \/ Extended(writer'["side"], writer["side"], Row(Side(s)))
    BY <1>0, <1>6, PublishFacts DEF Shape
  <2> QED
    BY <1>0, <2>1, <2>2, BarriersRest
<1> QED
  BY <1>1, <1>2, <1>3, <1>4, <1>5, <1>6, PersistersAre DEF Next

------------------------------------------------------------------------------
(* The runner.                                                             *)

\* It moves on past the event loop, with the status it has.
PastLoop ==
    /\ runner'.pc \notin {"stream", "parent", "end"}
    /\ runner'.pc \in {"closeSide", "stopSide"} => channel'.closed
    /\ runner'.status = "completed" /\ runner'.pc # "crashed" =>
          runner.status = "completed" /\ runner.pc \notin {"end", "crashed"}

LEMMA FramePast ==
    ASSUME Shape, Frame, PastLoop, UNCHANGED cursor
    PROVE  Frame'
BY DEF Frame, PastLoop

LEMMA AbortedPast ==
    ASSUME Aborted
    PROVE  PastLoop
BY DEF Aborted, PastLoop

LEMMA EndIsBehind ==
    ASSUME Shape, Frame, KernelSpent, HandedOver, runner.pc = "end", answer = "ok",
           runner.status = "completed"
    PROVE  Last <= cursor
<1>1. /\ Kernel.queue = <<>> /\ Kernel.batch = <<>> /\ Kernel.st # "failed"
      /\ runner.next = Last + 1
  BY DEF KernelSpent, Frame
<1>2. Last \in 1 .. runner.next - 1
  BY <1>1, LastAssumption
<1>3. Len(Kernel.queue) = 0 /\ Len(Kernel.batch) = 0
  BY <1>1
<1>4. Covered(Last, Len(Kernel.queue))
  BY <1>1, <1>2 DEF HandedOver, Streaming
<1> QED
  BY <1>3, <1>4 DEF Covered, Has, Queues

LEMMA FrameRunner ==
    ASSUME Shape, Frame, Children, KernelSpent, HandedOver,
           RunnerStep \/ Disconnect \/ Interrupt \/ Cancel \/ Crash
    PROVE  Frame'
<1>1. CASE Receive
  <2>1. /\ runner.pc = "stream" /\ runner.status = "interrupted" /\ runner.next \in 1 .. Last
        /\ cursor' = cursor
    BY <1>1, ReceiveFacts DEF Frame, database
  <2>2. CASE Aborted
    BY <2>1, <2>2, AbortedPast, FramePast
  <2>3. CASE ~Aborted
    <3>1. PICK pc \in {"stream", "parent", "end"} :
            /\ pc = "end" <=> runner.next = Last
            /\ pc = "parent" => runner.next \in Browser
            /\ Runs(pc, runner.next + 1,
                    IF runner.next = Last THEN "completed" ELSE runner.status)
      BY <1>1, <2>3, ReceiveFacts
    <3>2. PICK n : n = runner.next
      OBVIOUS
    <3>3. /\ n \in 1 .. Last /\ runner'.next = n + 1 /\ runner'.pc = pc
          /\ runner'.status = IF pc = "end" THEN "completed" ELSE "interrupted"
          /\ (pc = "end" <=> n = Last) /\ (pc = "parent" => n \in Browser)
      BY <2>1, <3>1, <3>2 DEF Runs
    <3>4. n + 1 - 1 = n /\ (n # Last => n + 1 <= Last)
      BY <3>3, LastAssumption
    <3> QED
      BY <3>3, <3>4 DEF Frame
  <2> QED
    BY <2>2, <2>3
<1>2. CASE Disconnect
  <2>1. cursor' = cursor
    BY <1>2, DisconnectFacts DEF database
  <2>2. CASE Aborted
    BY <2>1, <2>2, AbortedPast, FramePast
  <2>3. CASE ~Aborted
    BY <1>2, <2>3, DisconnectFacts DEF Runs, Frame
  <2> QED
    BY <2>2, <2>3
<1>3. CASE ParentFlushed
  <2>1. /\ runner.pc = "parent" /\ runner.status = "interrupted" /\ runner.next - 1 \in Browser
        /\ cursor' = cursor
    BY <1>3, ParentFlushedIs DEF Frame, database
  <2>2. CASE Aborted
    BY <2>1, <2>2, AbortedPast, FramePast
  <2>3. CASE ~Aborted
    <3>1. runner'.pc = "stream" /\ runner'.next = runner.next /\ runner'.status = "interrupted"
      BY <1>3, <2>1, <2>3, ParentFlushedIs DEF Runs
    <3>2. runner.next \in Int /\ runner.next - 1 \in 1 .. Last - 1
      BY <2>1, StartsAssumption, LastAssumption DEF Shape, RunnerShape, RunnerRecords
    <3>3. runner.next <= Last
      BY <3>2, LastAssumption
    <3> QED
      BY <3>1, <3>3 DEF Frame
  <2> QED
    BY <2>2, <2>3
<1>4. CASE EndFlushed
  <2>1. runner.pc = "end" /\ answer = "ok" /\ cursor' = cursor
    BY <1>4, EndFlushedFacts DEF database
  <2>2. CASE Aborted
    BY <2>1, <2>2, AbortedPast, FramePast
  <2>3. CASE ~Aborted
    <3>1. runner'.pc = "endSide" /\ runner'.status = runner.status
      BY <1>4, <2>3, EndFlushedFacts DEF Runs
    <3>2. runner.status = "completed" => Last <= cursor
      BY <2>1, EndIsBehind
    <3> QED
      BY <2>1, <3>1, <3>2 DEF Frame
  <2> QED
    BY <2>2, <2>3
<1>5. CASE FlushRaises \/ Interrupt
  BY <1>5, FlushRaisesFacts, AbortedPast, FramePast DEF database
<1>6. CASE CloseAfterEnd
  <2>1. /\ runner.pc = "endSide" /\ Closes(writer, runner.status) /\ cursor' = cursor
    BY <1>6, CloseAfterEndFacts DEF database
  <2>2. channel'.closed
    BY <2>1, ClosesShape DEF Shape
  <2> QED
    BY <2>1, <2>2, FramePast DEF PastLoop, Closes
<1>7. CASE CloseAfterFailure
  <2>1. /\ runner.pc = "failing" /\ Closes(writer, runner.status) /\ cursor' = cursor
    BY <1>7, CloseAfterFailureFacts DEF database
  <2>2. channel'.closed
    BY <2>1, ClosesShape DEF Shape
  <2> QED
    BY <2>1, <2>2, FramePast DEF PastLoop, Closes
<1>8. CASE SideClosed
  BY <1>8, SideClosedFacts, FramePast DEF PastLoop, Frame, database
<1>9. CASE SideStopped
  BY <1>9, SideStoppedFacts, FramePast DEF PastLoop, database
<1>10. CASE KernelClosed
  BY <1>10, KernelClosedFacts, FramePast DEF PastLoop, database
<1>11. CASE KernelStopped \/ Settle
  BY <1>11, SettlingFacts, FramePast DEF PastLoop
<1>12. CASE Cancel
  <2>1. (CancelTurn \/ CancelEnding) /\ cursor' = cursor
    BY <1>12 DEF Cancel, database
  <2>2. CASE CancelTurn
    <3> DEFINE ws == [w \in Writers |-> Forget(w)]
    <3>1. Closes(ws, "cancelled")
      BY <2>2, CancelTurnFacts
    <3> HIDE DEF ws
    <3>2. channel'.closed
      BY <3>1, ClosesShape DEF Shape
    <3> QED
      BY <2>1, <3>1, <3>2, FramePast DEF PastLoop, Closes
  <2>3. CASE CancelEnding
    <3>1. /\ runner.pc \in Closing \cup {"failing", "settling"}
          /\ runner'.pc \in {"cut", "raised"} /\ runner'.status = runner.status
      BY <2>3, CancelEndingFacts
    <3> QED
      BY <2>1, <3>1, FramePast DEF PastLoop, Closing
  <2> QED
    BY <2>1, <2>2, <2>3
<1>13. CASE Crash
  <2>1. runner'.pc = "crashed" /\ cursor' = cursor
    BY <1>13, CrashFacts DEF database
  <2> QED
    BY <2>1, FramePast DEF PastLoop
<1> QED
  BY <1>1, <1>2, <1>3, <1>4, <1>5, <1>6, <1>7, <1>8, <1>9, <1>10, <1>11, <1>12, <1>13
     DEF RunnerStep

LEMMA FrameSteps ==
    ASSUME EventInv, [Next]_vars
    PROVE  Frame'
<1>0. Shape /\ Frame /\ Children /\ KernelSpent /\ HandedOver
  BY ShapeIsType, BarriersAre DEF EventInv, Pipeline
<1>1. CASE RunnerStep \/ Disconnect \/ Interrupt \/ Cancel \/ Crash
  BY <1>0, <1>1, FrameRunner
<1>2. ASSUME UNCHANGED runner, channel'.closed = channel.closed, cursor <= cursor'
      PROVE  Frame'
  <2>1. cursor \in Int /\ cursor' \in Int /\ Last \in Int
    BY ShapeAndJobs, <1>0, LastAssumption DEF Shape, StepInv, DatabaseShape
  <2>2. Last <= cursor => Last <= cursor'
    BY <1>2, <2>1
  <2> QED
    BY <1>0, <1>2, <2>2 DEF Frame
<1>3. UNCHANGED cursor => cursor <= cursor'
  BY <1>0 DEF Shape, DatabaseShape
<1>4. CASE WriterStep("kernel") \/ WriterStep("side")
  BY <1>0, <1>2, <1>3, <1>4, KernelStepSides, BandStepSides DEF database
<1>5. CASE \E p \in Persisters : PersistStep(p) \/ PersistFails(p)
  <2>1. PICK p \in Persisters : PersistStep(p) \/ PersistFails(p)
    BY <1>5
  <2>2. UNCHANGED memory /\ (cursor' = cursor \/ AdvanceCursor(p))
    BY <1>0, <2>1, PersistFacts
  <2>3. cursor <= cursor'
    BY <1>0, <1>3, <2>2, AdvanceCursorFacts DEF Shape
  <2> QED
    BY <1>2, <2>2, <2>3 DEF memory
<1>6. CASE Ingest \/ Ingested \/ UNCHANGED vars
  BY <1>2, <1>3, <1>6 DEF Ingest, Ingested, vars, memory, database
<1>7. ASSUME NEW s \in Sides, Publish(s)
      PROVE  Frame'
  <2>1. UNCHANGED <<runner, database>>
    BY <1>7, Zenon DEF Publish
  <2>2. channel'.closed = channel.closed
    BY <1>0, <1>7, PublishFacts DEF Shape
  <2> QED
    BY <1>2, <1>3, <2>1, <2>2 DEF database
<1> QED
  BY <1>1, <1>4, <1>5, <1>6, <1>7, PersistersAre DEF Next

------------------------------------------------------------------------------
(* Children: what the channel knows and the side writer holds.             *)

DurableTools == \A e \in channel.durable : Durable(Native(e))
Listed(e) ==
    /\ \A i \in 1 .. Len(channel.waiting[e]) : Parent[channel.waiting[e][i]] = e
    /\ \A i \in 1 .. Len(channel.unmarked[e]) :
          Parent[channel.unmarked[e][i]] = e /\ channel.unmarked[e][i] \in channel.history
Lists == \A e \in Starts : Listed(e)
InQueue(s) == \E i \in 1 .. Len(Band.queue) : Band.queue[i] = Row(Side(s))
InBatch(s) == \E i \in 1 .. Len(Band.batch) : Band.batch[i] = Side(s)
InJob(s) ==
    Active("side") /\ \E i \in 1 .. Len(job["side"].rows) : job["side"].rows[i] = Side(s)
AfterParent(s) ==
    Parent[s] # None => ordinal[Native(Parent[s])] < job["side"].base
Pending ==
    \A s \in Sides :
        /\ InQueue(s) \/ InBatch(s) \/ InJob(s) => Parented(s)
        /\ InJob(s) /\ job["side"].phase = "write" => AfterParent(s)

LEMMA ChildrenAre ==
    Children <=> DurableTools /\ Lists /\ Pending /\ ChildAfterParent
BY DEF Children, DurableTools, Lists, Listed, Pending, InQueue, InBatch, InJob, AfterParent

\* A list of the channel that gets more rows.
LEMMA ListGrows ==
    ASSUME NEW s \in Seq(Sides), NEW t \in Seq(Sides), NEW P,
           \A i \in 1 .. Len(s) : s[i] \in P, \A i \in 1 .. Len(t) : t[i] \in P
    PROVE  \A i \in 1 .. Len(s \o t) : (s \o t)[i] \in P
<1>0. PICK m, n, u : m = Len(s) /\ n = Len(t) /\ u = s \o t
  OBVIOUS
<1>1. /\ m \in Nat /\ n \in Nat /\ Len(u) = m + n
      /\ \A i \in 1 .. m + n : u[i] = IF i <= m THEN s[i] ELSE t[i - m]
  BY <1>0, ConcatProperties
<1>2. \A i \in 1 .. m + n : IF i <= m THEN i \in 1 .. m ELSE i - m \in 1 .. n
  BY <1>1
<1>3. \A i \in 1 .. m + n : u[i] \in P
  BY <1>0, <1>1, <1>2
<1> QED
  BY <1>0, <1>1, <1>3

LEMMA ListAppended ==
    ASSUME NEW q \in Seq(Sides), NEW s \in Sides, NEW P, \A i \in 1 .. Len(q) : q[i] \in P, s \in P
    PROVE  \A i \in 1 .. Len(Append(q, s)) : Append(q, s)[i] \in P
<1>0. PICK n, u : n = Len(q) /\ u = Append(q, s)
  OBVIOUS
<1>1. n \in Nat /\ Len(u) = n + 1 /\ u[n + 1] = s /\ \A i \in 1 .. n : u[i] = q[i]
  BY <1>0, AppendProperties
<1>2. \A i \in 1 .. n + 1 : i \in 1 .. n \/ i = n + 1
  BY <1>1
<1> QED
  BY <1>0, <1>1, <1>2

LEMMA KnownLists ==
    ASSUME ChannelShape, Lists, NEW n \in Nat, channel' = Known(n)
    PROVE  Lists'
<1>1. CASE n \notin Starts
  <2>1. channel' = channel
    BY <1>1, KnownFacts
  <2> QED
    BY <2>1 DEF Lists, Listed
<1>2. CASE n \in Starts
  <2>1. PICK w, u, v : w = channel.waiting[n] /\ u = channel.unmarked[n] /\ v = u \o w
    OBVIOUS
  <2>2. /\ channel'.waiting = [channel.waiting EXCEPT ![n] = <<>>]
        /\ channel'.unmarked = [channel.unmarked EXCEPT ![n] = v]
        /\ channel'.history = channel.history \cup Range(w)
    BY <1>2, <2>1, KnownFacts
  <2>3. w \in Seq(Sides) /\ u \in Seq(Sides)
    BY <1>2, <2>1 DEF ChannelShape
  <2>4. \A i \in 1 .. Len(w) : w[i] \in {s \in channel'.history : Parent[s] = n}
    <3>1. \A i \in 1 .. Len(w) : Parent[w[i]] = n
      BY <1>2, <2>1 DEF Lists, Listed
    <3>2. \A i \in 1 .. Len(w) : w[i] \in channel'.history
      BY <2>2, <2>3, RangeOfSides
    <3> QED
      BY <3>1, <3>2
  <2>5. \A i \in 1 .. Len(u) : u[i] \in {s \in channel'.history : Parent[s] = n}
    <3>1. \A i \in 1 .. Len(u) : Parent[u[i]] = n /\ u[i] \in channel.history
      BY <1>2, <2>1 DEF Lists, Listed
    <3> QED
      BY <2>2, <3>1
  <2>6. \A i \in 1 .. Len(v) : v[i] \in {s \in channel'.history : Parent[s] = n}
    BY <2>1, <2>3, <2>4, <2>5, ListGrows
  <2>7. channel'.waiting[n] = <<>> /\ channel'.unmarked[n] = v
    BY <1>2, <2>2 DEF ChannelShape
  <2>8. Len(channel'.waiting[n]) = 0
    BY <2>7
  <2>9. Listed(n)'
    BY <2>6, <2>7, <2>8 DEF Listed
  <2>10. ASSUME NEW e \in Starts, e # n
         PROVE  Listed(e)'
    <3>1. /\ channel'.waiting[e] = channel.waiting[e] /\ channel'.unmarked[e] = channel.unmarked[e]
          /\ channel.history \subseteq channel'.history
      BY <2>2, <2>10 DEF ChannelShape
    <3> QED
      BY <3>1 DEF Lists, Listed
  <2> QED
    BY <2>9, <2>10 DEF Lists
<1> QED
  BY <1>1, <1>2

LEMMA PublishLists ==
    ASSUME Shape, Lists, NEW s \in Sides, Publish(s)
    PROVE  Lists'
<1> DEFINE e == Parent[s]
<1>0. /\ channel.waiting \in [Starts -> Seq(Sides)] /\ channel.unmarked \in [Starts -> Seq(Sides)]
      /\ channel.history \subseteq channel'.history
      /\ \/ /\ channel'.waiting = channel.waiting
            /\ channel'.unmarked = channel.unmarked
         \/ /\ e \in Starts
            /\ channel'.waiting = [channel.waiting EXCEPT ![e] = Append(@, s)]
            /\ channel'.unmarked = channel.unmarked
         \/ /\ e \in Starts /\ s \in channel'.history
            /\ channel'.waiting = channel.waiting
            /\ channel'.unmarked = [channel.unmarked EXCEPT ![e] = Append(@, s)]
  BY PublishFacts DEF Shape, ChannelShape
<1>1. channel.history \subseteq channel'.history
  BY <1>0
<1>2. SUFFICES ASSUME NEW d \in Starts
               PROVE  Listed(d)'
  BY DEF Lists
<1>3. Listed(d) /\ channel.waiting[d] \in Seq(Sides) /\ channel.unmarked[d] \in Seq(Sides)
  BY <1>0, <1>2 DEF Lists
<1>4. CASE channel'.waiting[d] = channel.waiting[d] /\ channel'.unmarked[d] = channel.unmarked[d]
  BY <1>0, <1>3, <1>4 DEF Listed
<1>5. CASE d = e /\ channel'.waiting[d] = Append(channel.waiting[d], s)
           /\ channel'.unmarked[d] = channel.unmarked[d]
  <2>1. PICK q, P : q = channel.waiting[d] /\ P = {t \in Sides : Parent[t] = d}
    OBVIOUS
  <2>2. q \in Seq(Sides) /\ s \in P /\ \A i \in 1 .. Len(q) : q[i] \in P
    BY <1>3, <1>5, <2>1, ElementOfSeq DEF Listed
  <2>3. \A i \in 1 .. Len(Append(q, s)) : Append(q, s)[i] \in P
    BY <2>2, ListAppended
  <2>4. \A i \in 1 .. Len(channel'.waiting[d]) : Parent[channel'.waiting[d][i]] = d
    BY <1>5, <2>1, <2>3
  <2> QED
    BY <1>1, <1>3, <1>5, <2>4 DEF Listed
<1>6. CASE d = e /\ channel'.unmarked[d] = Append(channel.unmarked[d], s)
           /\ channel'.waiting[d] = channel.waiting[d] /\ s \in channel'.history
  <2>1. PICK q, P : q = channel.unmarked[d] /\ P = {t \in channel'.history : Parent[t] = d}
    OBVIOUS
  <2>2. q \in Seq(Sides) /\ s \in P /\ \A i \in 1 .. Len(q) : q[i] \in P
    BY <1>0, <1>3, <1>6, <2>1 DEF Listed
  <2>3. \A i \in 1 .. Len(Append(q, s)) : Append(q, s)[i] \in P
    BY <2>2, ListAppended
  <2>4. \A i \in 1 .. Len(channel'.unmarked[d]) :
           Parent[channel'.unmarked[d][i]] = d /\ channel'.unmarked[d][i] \in channel'.history
    BY <1>6, <2>1, <2>3
  <2> QED
    BY <1>1, <1>3, <1>6, <2>4 DEF Listed
<1> QED
  BY <1>0, <1>2, <1>4, <1>5, <1>6

LEMMA NoRowsListed ==
    ASSUME channel'.waiting = NoRows, channel'.unmarked = NoRows
    PROVE  Lists'
<1>1. \A e \in Starts : Len(NoRows[e]) = 0
  BY DEF NoRows
<1> QED
  BY <1>1 DEF Lists, Listed

\* The tool whose barrier is answered is in the projections.
LEMMA ParentIsDurable ==
    ASSUME Shape, Frame, KernelSpent, Pipeline, Lossless, runner.pc = "parent", answer = "ok"
    PROVE  Durable(Native(runner.next - 1))
<1>0. PICK d : d = runner.next - 1
  OBVIOUS
<1>1. /\ Len(Kernel.queue) = 0 /\ Len(Kernel.batch) = 0 /\ Kernel.st # "failed"
      /\ d \in Browser /\ runner.status = "interrupted"
  BY <1>0 DEF KernelSpent, Frame
<1>2. d \in 1 .. Last - 1
  BY <1>1, StartsAssumption
<1>3. d \in 1 .. runner.next - 1
  BY <1>0, <1>2, LastAssumption DEF Shape, RunnerShape, RunnerRecords
<1>4. Covered(d, Len(Kernel.queue))
  BY <1>1, <1>3 DEF Pipeline, HandedOver, Streaming
<1>5. d <= cursor
  BY <1>1, <1>4 DEF Covered, Has, Queues
<1>6. d \in 1 .. cursor
  BY <1>2, <1>5, LastAssumption DEF Shape, DatabaseShape
<1>7. PICK r \in inbox : d \in Slots(r) /\ Durable(r)
  BY <1>6 DEF Pipeline, CursorBehindRows
<1>8. r \in Rows /\ r \notin Losts
  BY <1>1, <1>7 DEF Shape, DatabaseShape, Lossless
<1> QED
  BY <1>0, <1>7, <1>8, RowFacts

\* Steps that write nothing leave what the channel knows true.
LEMMA ChannelMoves ==
    ASSUME Shape, Frame, Children, KernelSpent, Pipeline, Lossless,
           RunnerStep \/ Disconnect \/ Interrupt \/ Cancel \/ Crash \/ Ingest \/ Ingested
             \/ (\E s \in Sides : Publish(s)) \/ (\E w \in Writers : WriterStep(w))
             \/ UNCHANGED vars
    PROVE  /\ UNCHANGED ordinal
           /\ DurableTools' /\ Lists'
<1>0. ChannelShape /\ DurableTools /\ Lists
  BY ChildrenAre DEF Shape
<1>r. ASSUME UNCHANGED <<channel, ordinal>>
      PROVE  UNCHANGED ordinal /\ DurableTools' /\ Lists'
  BY <1>0, <1>r DEF DurableTools, Lists, Listed, Durable
<1>c. ASSUME NEW u, NEW status, Closes(u, status), UNCHANGED ordinal
      PROVE  UNCHANGED ordinal /\ DurableTools' /\ Lists'
  <2>1. /\ channel'.durable = channel.durable
        /\ channel'.waiting = NoRows /\ channel'.unmarked = NoRows
    BY <1>0, <1>c, ClosesShape
  <2> QED
    BY <1>0, <1>c, <2>1, NoRowsListed DEF DurableTools, Durable
<1>1. CASE Receive
  <2>1. /\ channel' = Known(runner.next) /\ runner.next \in Nat /\ UNCHANGED ordinal
    BY <1>1, ReceiveFacts, LastAssumption DEF database
  <2>2. channel'.durable = channel.durable
    BY <1>0, <2>1, KnownFacts
  <2> QED
    BY <1>0, <2>1, <2>2, KnownLists DEF DurableTools, Durable
<1>2. CASE Disconnect
  BY <1>r, <1>2, DisconnectFacts DEF database
<1>3. CASE ParentFlushed
  <2>1. PICK n : n = runner.next - 1
    OBVIOUS
  <2>2. /\ runner.pc = "parent" /\ answer = "ok" /\ UNCHANGED ordinal
        /\ n \in Starts
        /\ channel'.durable = channel.durable \cup {n}
        /\ channel'.waiting = channel.waiting /\ channel'.history = channel.history
        /\ channel'.unmarked = [channel.unmarked EXCEPT ![n] = <<>>]
    BY <1>3, <2>1, ParentFlushedIs, StartsAssumption DEF database
  <2>3. Durable(Native(n))
    BY <2>1, <2>2, ParentIsDurable
  <2>4. DurableTools'
    BY <1>0, <2>2, <2>3 DEF DurableTools, Durable
  <2>5. ASSUME NEW e \in Starts
        PROVE  Listed(e)'
    <3>1. channel'.unmarked[e] = channel.unmarked[e] \/ channel'.unmarked[e] = <<>>
      BY <1>0, <2>2 DEF ChannelShape
    <3>2. CASE channel'.unmarked[e] = channel.unmarked[e]
      BY <1>0, <2>2, <3>2 DEF Lists, Listed
    <3>3. CASE channel'.unmarked[e] = <<>>
      <4>1. Len(channel'.unmarked[e]) = 0
        BY <3>3
      <4> QED
        BY <1>0, <2>2, <4>1 DEF Lists, Listed
    <3> QED
      BY <3>1, <3>2, <3>3
  <2> QED
    BY <2>2, <2>4, <2>5 DEF Lists
<1>4. CASE EndFlushed
  BY <1>r, <1>4, EndFlushedFacts DEF database
<1>5. CASE FlushRaises \/ Interrupt
  BY <1>r, <1>5, FlushRaisesFacts DEF database
<1>6. CASE CloseAfterEnd
  BY <1>c, <1>6, CloseAfterEndFacts DEF database
<1>7. CASE CloseAfterFailure
  BY <1>c, <1>7, CloseAfterFailureFacts DEF database
<1>8. CASE SideClosed
  BY <1>r, <1>8, SideClosedFacts DEF database
<1>9. CASE SideStopped
  BY <1>r, <1>9, SideStoppedFacts DEF database
<1>10. CASE KernelClosed
  BY <1>r, <1>10, KernelClosedFacts DEF database
<1>11. CASE KernelStopped \/ Settle
  BY <1>r, <1>11, SettlingFacts
<1>12. CASE Cancel
  <2>1. (CancelTurn \/ CancelEnding) /\ UNCHANGED ordinal
    BY <1>12 DEF Cancel, database
  <2>2. CASE CancelTurn
    BY <1>c, <2>1, <2>2, CancelTurnFacts
  <2>3. CASE CancelEnding
    BY <1>r, <2>1, <2>3, CancelEndingFacts
  <2> QED
    BY <2>1, <2>2, <2>3
<1>13. CASE Crash
  <2>1. /\ channel'.durable = {} /\ channel'.waiting = NoRows /\ channel'.unmarked = NoRows
        /\ UNCHANGED ordinal
    BY <1>13, CrashFacts DEF database
  <2> QED
    BY <2>1, NoRowsListed DEF DurableTools
<1>14. CASE Ingest \/ Ingested \/ UNCHANGED vars
  BY <1>r, <1>14 DEF Ingest, Ingested, vars, memory, database
<1>15. ASSUME NEW s \in Sides, Publish(s)
       PROVE  UNCHANGED ordinal /\ DurableTools' /\ Lists'
  <2>1. UNCHANGED database
    BY <1>15, Zenon DEF Publish
  <2>2. channel'.durable = channel.durable
    BY <1>15, PublishFacts DEF Shape
  <2> QED
    BY <1>0, <1>15, <2>1, <2>2, PublishLists DEF DurableTools, Durable, database
<1>16. ASSUME NEW w \in Writers, WriterStep(w)
       PROVE  UNCHANGED ordinal /\ DurableTools' /\ Lists'
  <2>1. UNCHANGED <<channel, ordinal>>
    BY <1>16, KernelStepSides, BandStepSides, PersistersAre DEF database
  <2> QED
    BY <1>r, <2>1
<1> QED
  BY <1>1, <1>2, <1>3, <1>4, <1>5, <1>6, <1>7, <1>8, <1>9, <1>10, <1>11, <1>12, <1>13, <1>14,
     <1>15, <1>16 DEF RunnerStep

Held(s) == InQueue(s) \/ InBatch(s)

\* Rows are taken from the queue into the batch, in their order.
LEMMA HeldTaken ==
    ASSUME WriterShape, Popped("side"),
           /\ Len(writer'["side"].batch) = Len(Band.batch) + 1
           /\ \A i \in 1 .. Len(Band.batch) : writer'["side"].batch[i] = Band.batch[i]
           /\ writer'["side"].batch[Len(Band.batch) + 1] = Band.queue[1][2]
           /\ Band.queue[1] = Row(Band.queue[1][2]),
           NEW s \in Sides
    PROVE  /\ Held(s)' <=> Held(s)
           /\ InBatch(s) => InBatch(s)'
<1>0. PICK n, q, u, k, b : /\ n = Len(Band.queue) /\ u = Band.queue /\ q = writer'["side"].queue
                           /\ k = Len(Band.batch) /\ b = writer'["side"].batch
  OBVIOUS
<1>1. /\ n \in Nat \ {0} /\ Len(q) = n - 1 /\ \A i \in 1 .. Len(q) : q[i] = u[i + 1]
      /\ k \in Nat /\ Len(b) = k + 1 /\ (\A i \in 1 .. k : b[i] = Band.batch[i])
      /\ b[k + 1] = u[1][2] /\ u[1] = Row(u[1][2])
  BY <1>0, WriterParts, PersistersAre DEF Popped, Band
<1>2. /\ \A i \in 1 .. n : i = 1 \/ (i - 1 \in 1 .. n - 1 /\ (i - 1) + 1 = i)
      /\ \A i \in 1 .. n - 1 : i + 1 \in 1 .. n
      /\ \A i \in 1 .. k + 1 : i \in 1 .. k \/ i = k + 1
      /\ (\A i \in 1 .. k : i \in 1 .. k + 1) /\ k + 1 \in 1 .. k + 1 /\ 1 \in 1 .. n
  <2>1. n \in Nat \ {0} /\ k \in Nat
    BY <1>1
  <2>2. /\ \A i \in 1 .. n : i = 1 \/ (i - 1 \in 1 .. n - 1 /\ (i - 1) + 1 = i)
        /\ \A i \in 1 .. n - 1 : i + 1 \in 1 .. n
    BY <2>1
  <2>3. /\ \A i \in 1 .. k + 1 : i \in 1 .. k \/ i = k + 1
        /\ (\A i \in 1 .. k : i \in 1 .. k + 1) /\ k + 1 \in 1 .. k + 1 /\ 1 \in 1 .. n
    BY <2>1
  <2> QED
    BY <2>2, <2>3
<1>3. u[1] = Row(Side(s)) <=> u[1][2] = Side(s)
  BY <1>1, EntryFacts
<1>4. InQueue(s) <=> u[1] = Row(Side(s)) \/ InQueue(s)'
  <2>1. ASSUME NEW i \in 1 .. n, u[i] = Row(Side(s)), i # 1
        PROVE  \E j \in 1 .. Len(q) : q[j] = Row(Side(s))
    <3>1. i - 1 \in 1 .. Len(q) /\ (i - 1) + 1 = i
      BY <1>1, <1>2, <2>1
    <3> QED
      BY <1>1, <2>1, <3>1
  <2>2. ASSUME NEW i \in 1 .. Len(q), q[i] = Row(Side(s))
        PROVE  \E j \in 1 .. n : u[j] = Row(Side(s))
    <3>1. i + 1 \in 1 .. n
      BY <1>1, <1>2, <2>2
    <3> QED
      BY <1>1, <2>2, <3>1
  <2> QED
    BY <1>0, <1>2, <2>1, <2>2 DEF InQueue, Band
<1>5. InBatch(s)' <=> u[1][2] = Side(s) \/ InBatch(s)
  BY <1>0, <1>1, <1>2 DEF InBatch, Band
<1> QED
  BY <1>3, <1>4, <1>5 DEF Held

\* A command taken leaves the rows.
LEMMA HeldPopped ==
    ASSUME WriterShape, Popped("side"), Band.queue[1] \in Commands,
           writer'["side"].batch = Band.batch, NEW s \in Sides
    PROVE  (InQueue(s)' <=> InQueue(s)) /\ (InBatch(s)' <=> InBatch(s))
<1>0. PICK n, q, u : n = Len(Band.queue) /\ u = Band.queue /\ q = writer'["side"].queue
  OBVIOUS
<1>1. /\ n \in Nat \ {0} /\ Len(q) = n - 1 /\ \A i \in 1 .. Len(q) : q[i] = u[i + 1]
      /\ u[1] # Row(Side(s))
  BY <1>0, EntryFacts DEF Popped, Band
<1>2. /\ \A i \in 1 .. n : i = 1 \/ (i - 1 \in 1 .. n - 1 /\ (i - 1) + 1 = i)
      /\ \A i \in 1 .. n - 1 : i + 1 \in 1 .. n
  BY <1>1
<1>3. ASSUME NEW i \in 1 .. n, u[i] = Row(Side(s))
      PROVE  \E j \in 1 .. Len(q) : q[j] = Row(Side(s))
  <2>1. i - 1 \in 1 .. Len(q) /\ (i - 1) + 1 = i
    BY <1>1, <1>2, <1>3
  <2> QED
    BY <1>1, <1>3, <2>1
<1>4. ASSUME NEW i \in 1 .. Len(q), q[i] = Row(Side(s))
      PROVE  \E j \in 1 .. n : u[j] = Row(Side(s))
  <2>1. i + 1 \in 1 .. n
    BY <1>1, <1>2, <1>4
  <2> QED
    BY <1>1, <1>4, <2>1
<1> QED
  BY <1>0, <1>3, <1>4 DEF InQueue, InBatch, Band

LEMMA BandOwnSteps ==
    ASSUME Shape, WriterStep("side"), NEW s \in Sides
    PROVE  /\ Held(s)' \/ InJob(s)' => Held(s) \/ InJob(s)
           /\ job'["side"].phase # "write" \/ job'["side"] = job["side"]
<1>0. WriterShape /\ JobShape /\ "side" \in Writers /\ writer["side"] = Band
  BY PersistersAre DEF Shape, Band
<1>p. ASSUME NEW rows \in Seq(Feed("side")), job'["side"] = Persist(rows)
      PROVE  job'["side"].phase = "reserve" /\ job'["side"].rows = rows
  BY <1>p, JobValues, PersistersAre
<1>n. ASSUME job'["side"] = NoJob
      PROVE  job'["side"].phase = "idle" /\ ~InJob(s)'
  BY <1>n DEF NoJob, InJob, Active
<1>1. CASE TakeRow("side")
  <2>1. /\ WriterShape' /\ Popped("side")
        /\ Band.queue[1] = Row(Band.queue[1][2])
        /\ Len(writer'["side"].batch) = Len(Band.batch) + 1
        /\ \A i \in 1 .. Len(Band.batch) : writer'["side"].batch[i] = Band.batch[i]
        /\ writer'["side"].batch[Len(Band.batch) + 1] = Band.queue[1][2]
        /\ job'["side"] = NoJob \/ job'["side"] = Persist(writer'["side"].batch)
    BY <1>0, <1>1, TakeRowFacts
  <2>2. Held(s)' <=> Held(s)
    BY <1>0, <2>1, HeldTaken
  <2>3. CASE job'["side"] = NoJob
    BY <1>n, <2>2, <2>3
  <2>4. CASE job'["side"] = Persist(writer'["side"].batch)
    <3>1. PICK rows \in Seq(Feed("side")) : rows = writer'["side"].batch
      BY <1>0, <2>1 DEF WriterShape
    <3>2. job'["side"].phase = "reserve" /\ job'["side"].rows = rows
      BY <1>p, <2>4, <3>1
    <3>3. InJob(s)' => InBatch(s)'
      BY <3>1, <3>2 DEF InJob, InBatch, Band
    <3> QED
      BY <2>2, <3>2, <3>3 DEF Held
  <2> QED
    BY <2>1, <2>3, <2>4
<1>2. CASE TakeCommand("side")
  <2>1. /\ Popped("side") /\ writer'["side"].batch = Band.batch /\ Band.queue[1] \in Commands
        /\ job'["side"] = Persist(Band.batch) /\ Band.batch \in Seq(Feed("side"))
    BY <1>0, <1>2, TakeCommandFacts, WriterParts DEF SameBut
  <2>2. (InQueue(s)' <=> InQueue(s)) /\ (InBatch(s)' <=> InBatch(s))
    BY <1>0, <2>1, HeldPopped
  <2>3. job'["side"].phase = "reserve" /\ job'["side"].rows = Band.batch
    BY <1>p, <2>1
  <2>4. InJob(s)' => InBatch(s)
    BY <2>3 DEF InJob, InBatch
  <2> QED
    BY <2>2, <2>3, <2>4 DEF Held
<1>3. CASE TakeCommandOnEmpty("side")
  <2>1. /\ Popped("side") /\ writer'["side"].batch = Band.batch /\ Band.queue[1] \in Commands
        /\ job' = job
    BY <1>0, <1>3, TakeCommandOnEmptyFacts DEF SameBut, TakeCommandOnEmpty
  <2>2. (InQueue(s)' <=> InQueue(s)) /\ (InBatch(s)' <=> InBatch(s))
    BY <1>0, <2>1, HeldPopped
  <2> QED
    BY <2>1, <2>2 DEF Held, InJob, Active
<1>4. CASE Deadline("side")
  <2>1. /\ writer' = writer /\ job'["side"] = Persist(Band.batch)
        /\ Band.batch \in Seq(Feed("side"))
    BY <1>0, <1>4, DeadlineFacts, WriterParts DEF Deadline, memory
  <2>2. job'["side"].phase = "reserve" /\ job'["side"].rows = Band.batch
    BY <1>p, <2>1
  <2>3. InJob(s)' => InBatch(s)
    BY <2>2 DEF InJob, InBatch
  <2>4. Held(s)' <=> Held(s)
    BY <2>1 DEF Held, InQueue, InBatch, Band
  <2> QED
    BY <2>2, <2>3, <2>4 DEF Held
<1>5. CASE Persisted("side") \/ WriterFails("side")
  <2>1. /\ writer'["side"].queue = Band.queue \/ Len(writer'["side"].queue) = 0
        /\ Len(writer'["side"].batch) = 0 /\ job'["side"] = NoJob
    BY <1>0, <1>5, PersistedFacts, WriterFailsFacts DEF SameBut
  <2>2. (InQueue(s)' => InQueue(s)) /\ ~InBatch(s)'
    BY <2>1 DEF InQueue, InBatch, Band
  <2> QED
    BY <1>n, <2>1, <2>2 DEF Held
<1> QED
  BY <1>1, <1>2, <1>3, <1>4, <1>5 DEF WriterStep

LEMMA PendingMoves ==
    ASSUME Shape, Pending, BandMoves, UNCHANGED ordinal, DurableTools'
    PROVE  Pending'
<1>0. /\ WriterShape /\ "side" \in Writers /\ writer["side"] = Band
      /\ Len(Band.queue) \in Nat
  BY WriterParts, PersistersAre DEF Shape, Band
<1>n. job'["side"] = NoJob => \A s \in Sides : ~InJob(s)'
  BY DEF NoJob, InJob, Active
<1>j. job'["side"] = job["side"] =>
        \A s \in Sides : (InJob(s)' <=> InJob(s)) /\ (AfterParent(s) => AfterParent(s)')
  BY DEF InJob, Active, AfterParent
<1>p. \A s \in Sides : Parented(s) => Parented(s)'
  BY DEF Parented, Durable
<1>1. CASE KeptRows("side") /\ job'["side"] = job["side"]
  <2>1. ASSUME NEW s \in Sides, InQueue(s)'
        PROVE  InQueue(s)
    <3>1. PICK i \in 1 .. Len(writer'["side"].queue) : writer'["side"].queue[i] = Row(Side(s))
      BY <2>1 DEF InQueue, Band
    <3>2. i <= Len(Band.queue) /\ Band.queue[i] = Row(Side(s))
      BY <1>0, <1>1, <3>1, EntryFacts DEF KeptRows
    <3>3. i \in 1 .. Len(Band.queue)
      BY <1>0, <3>1, <3>2
    <3> QED
      BY <3>2, <3>3 DEF InQueue
  <2>2. \A s \in Sides : InBatch(s)' => InBatch(s)
    BY <1>0, <1>1 DEF KeptRows, InBatch, Band
  <2> QED
    BY <1>1, <1>j, <1>p, <2>1, <2>2 DEF Pending
<1>2. CASE /\ Emptied("side")
           /\ job'["side"] = NoJob \/ job'["side"] = job["side"]
  <2>1. Len(writer'["side"].queue) = 0 /\ Len(writer'["side"].batch) = 0
    BY <1>2 DEF Emptied
  <2>2. \A s \in Sides : ~InQueue(s)' /\ ~InBatch(s)'
    BY <2>1 DEF InQueue, InBatch, Band
  <2> QED
    BY <1>2, <1>n, <1>j, <1>p, <2>2 DEF Pending
<1>3. ASSUME NEW ss \in SUBSET Sides, Grows(ss), job'["side"] = job["side"],
             \A s \in ss : Parent[s] \in channel'.durable \cup {None}
      PROVE  Pending'
  <2>1. ASSUME NEW s \in Sides, InQueue(s)'
        PROVE  InQueue(s) \/ s \in ss
    <3>1. PICK i \in 1 .. Len(writer'["side"].queue) : writer'["side"].queue[i] = Row(Side(s))
      BY <2>1 DEF InQueue, Band
    <3>2. CASE i <= Len(Band.queue)
      <4>1. i \in 1 .. Len(Band.queue)
        BY <1>0, <3>1, <3>2
      <4> QED
        BY <1>3, <3>1, <4>1 DEF Grows, InQueue
    <3>3. CASE \E t \in ss : writer'["side"].queue[i] = Row(Side(t))
      <4>1. PICK t \in ss : writer'["side"].queue[i] = Row(Side(t))
        BY <3>3
      <4>2. Side(s) = Side(t)
        BY <3>1, <4>1 DEF Row
      <4> QED
        BY <4>1, <4>2, RowFacts
    <3> QED
      BY <1>3, <3>1, <3>2, <3>3 DEF Grows
  <2>2. \A s \in Sides : InBatch(s)' => InBatch(s)
    BY <1>0, <1>3 DEF Grows, SameBut, InBatch, Band
  <2>3. \A s \in ss : Parented(s)'
    BY <1>3 DEF Parented, DurableTools
  <2> QED
    BY <1>3, <1>j, <1>p, <2>1, <2>2, <2>3 DEF Pending
<1> QED
  BY <1>1, <1>2, <1>3 DEF BandMoves

LEMMA PendingOwnSteps ==
    ASSUME Shape, Pending, WriterStep("side"), UNCHANGED ordinal
    PROVE  Pending'
<1> SUFFICES ASSUME NEW s \in Sides
             PROVE  /\ Held(s)' \/ InJob(s)' => Parented(s)'
                    /\ InJob(s)' /\ job'["side"].phase = "write" => AfterParent(s)'
  BY DEF Pending, Held
<1>1. /\ Held(s)' \/ InJob(s)' => Held(s) \/ InJob(s)
      /\ job'["side"].phase # "write" \/ job'["side"] = job["side"]
  BY BandOwnSteps
<1>2. Parented(s) => Parented(s)'
  BY DEF Parented, Durable
<1>3. job'["side"] = job["side"] => (InJob(s)' => InJob(s)) /\ (AfterParent(s) => AfterParent(s)')
  BY DEF InJob, Active, AfterParent
<1> QED
  BY <1>1, <1>2, <1>3 DEF Pending, Held

LEMMA PendingPersistSteps ==
    ASSUME Shape, Blocks, Pending, NEW p \in Persisters, PersistStep(p) \/ PersistFails(p)
    PROVE  Pending'
<1> SUFFICES ASSUME NEW s \in Sides
             PROVE  /\ Held(s)' \/ InJob(s)' => Parented(s)'
                    /\ InJob(s)' /\ job'["side"].phase = "write" => AfterParent(s)'
  BY DEF Pending, Held
<1>0. /\ JobShape /\ DatabaseShape /\ "side" \in Persisters
  BY PersistersAre DEF Shape
<1>a. /\ UNCHANGED memory /\ OtherJobs(p) /\ Active(p)
      /\ job'[p].phase \in {"write", "done", "failed"}
      /\ job'[p].phase = "write" => job'[p].rows = job[p].rows
  BY PersistFacts
<1>1. Held(s)' <=> Held(s)
  BY <1>a DEF memory, Held, InQueue, InBatch, Band
<1>2. InJob(s)' => InJob(s)
  BY <1>0, <1>a DEF OtherJobs, InJob, Active
<1>3. Parent[s] # None => Native(Parent[s]) \in Rows
  <2>1. Parent[s] # None => Parent[s] \in Starts
    BY ParentAssumption
  <2>2. \A e \in 1 .. Last - 1 : e \in 1 .. Last
    BY LastAssumption
  <2> QED
    BY <2>1, <2>2, StartsAssumption, RowFacts
<1>4. Parented(s) => Parented(s)' /\ (Parent[s] # None =>
         ordinal'[Native(Parent[s])] = ordinal[Native(Parent[s])])
  BY <1>3, PersistGrows DEF Parented
<1>5. Held(s)' \/ InJob(s)' => Parented(s)'
  BY <1>1, <1>2, <1>4 DEF Pending, Held
<1>6. ASSUME InJob(s)', job'["side"].phase = "write", Parent[s] # None
      PROVE  ordinal'[Native(Parent[s])] < job'["side"].base
  <2>0. PICK o : o = ordinal[Native(Parent[s])]
    OBVIOUS
  <2>1. Parented(s) /\ InJob(s) /\ ordinal'[Native(Parent[s])] = o
    BY <1>2, <1>4, <1>6, <2>0 DEF Pending
  <2>2. o \in Nat /\ o <= counter /\ counter \in Nat
    BY <1>0, <1>3, <1>6, <2>0 DEF Blocks, DatabaseShape
  <2>3. CASE Reserve(p) /\ p = "side"
    <3>1. job'["side"].base = counter + 1
      BY <1>0, <2>3, ReserveFacts
    <3> QED
      BY <2>1, <2>2, <3>1
  <2>4. CASE p # "side" \/ WriteInbox(p) \/ WriteProjection(p)
    <3>1. job'["side"].phase = job["side"].phase /\ job'["side"].base = job["side"].base
      BY <1>0, <1>a, <2>4, WriteInboxFacts, WriteProjectionFacts DEF OtherJobs, OneWritten
    <3>2. o < job["side"].base
      BY <1>6, <2>0, <2>1, <3>1 DEF Pending, AfterParent
    <3> QED
      BY <2>1, <3>1, <3>2
  <2>5. CASE AdvanceCursor(p) \/ PersistFails(p)
    <3>1. job'[p].phase # "write"
      BY <1>0, <2>5, AdvanceCursorFacts, PersistFailsFacts, JobValues DEF Phases
    <3>2. p # "side"
      BY <1>6, <3>1
    <3> QED
      BY <2>4, <3>2
  <2> QED
    BY <2>3, <2>4, <2>5 DEF PersistStep
<1> QED
  BY <1>5, <1>6 DEF AfterParent

\* A side row is written by the side writer's job, whose block is after the parent.
LEMMA ChildWritten ==
    ASSUME Shape, Pending, ChildAfterParent, NEW p \in Persisters, PersistStep(p) \/ PersistFails(p)
    PROVE  ChildAfterParent'
<1> SUFFICES ASSUME NEW s \in Sides, Parent[s] # None, Durable(Side(s))'
             PROVE  /\ Durable(Native(Parent[s]))'
                    /\ ordinal'[Native(Parent[s])] < ordinal'[Side(s)]
  BY DEF ChildAfterParent
<1>0. JobShape /\ DatabaseShape /\ "side" \in Persisters
  BY PersistersAre DEF Shape
<1>1. /\ Native(Parent[s]) \in Rows /\ Side(s) \in Rows /\ Native(Parent[s]) # Side(s)
      /\ Native(Parent[s]) \in Natives
  BY ParentAssumption, StartsAssumption, LastAssumption, RowFacts DEF Natives
<1>2. \A r \in Rows : Durable(r) => Durable(r)' /\ ordinal'[r] = ordinal[r]
  BY PersistGrows
<1>3. CASE Durable(Side(s))
  <2>1. Durable(Native(Parent[s])) /\ ordinal[Native(Parent[s])] < ordinal[Side(s)]
    BY <1>3 DEF ChildAfterParent
  <2> QED
    BY <1>1, <1>2, <1>3, <2>1
<1>4. CASE ~Durable(Side(s))
  <2>1. WriteProjection(p)
    <3>1. ordinal' = ordinal \/ WriteProjection(p)
      BY DEF PersistStep, PersistFails, Reserve, WriteInbox, AdvanceCursor, database
    <3> QED
      BY <1>4, <3>1 DEF Durable
  <2>2. /\ OneWritten(p, "projections")
        /\ \A r \in Rows : ordinal'[r] =
             IF r = Current(p, "projections") /\ ordinal[r] = 0
             THEN job[p].base + job[p].written["projections"] ELSE ordinal[r]
    BY <1>0, <2>1, WriteProjectionFacts
  <2>3. /\ Side(s) = Current(p, "projections")
        /\ ordinal'[Side(s)] = job[p].base + job[p].written["projections"]
    BY <1>1, <1>4, <2>2 DEF Durable
  <2>4. Side(s) \in Feed(p)
    BY <2>2, <2>3 DEF OneWritten
  <2>5. p = "side"
    <3>1. Side(s) # Failure /\ Side(s) \notin Natives /\ Side(s) \notin Losts
      BY RowFacts DEF Side, Failure, Losts, Lost
    <3> QED
      BY <2>4, <3>1, PersistersAre
  <2>6. PICK k, n, b : /\ k = job["side"].written["projections"] /\ n = Len(job["side"].rows)
                       /\ b = job["side"].base
    OBVIOUS
  <2>7. k \in Nat /\ n \in Nat /\ b \in Nat /\ k < n
    BY <1>0, <2>2, <2>5, <2>6, JobNumbers DEF OneWritten
  <2>8. k + 1 \in 1 .. n
    BY <2>7
  <2>9. job["side"].rows[k + 1] = Side(s) /\ job["side"].phase = "write"
    BY <2>2, <2>3, <2>5, <2>6 DEF OneWritten
  <2>10. InJob(s)
    BY <2>6, <2>8, <2>9 DEF InJob, Active
  <2>11. Durable(Native(Parent[s])) /\ ordinal[Native(Parent[s])] < b
    BY <2>6, <2>9, <2>10 DEF Pending, Parented, AfterParent
  <2>12. PICK o : o = ordinal[Native(Parent[s])]
    OBVIOUS
  <2>13. o \in Nat /\ o < b /\ ordinal'[Native(Parent[s])] = o /\ ordinal'[Side(s)] = b + k
    BY <1>0, <1>1, <1>2, <2>3, <2>5, <2>6, <2>11, <2>12 DEF DatabaseShape
  <2>14. o < b + k
    BY <2>7, <2>13
  <2> QED
    BY <1>1, <1>2, <2>11, <2>13, <2>14
<1> QED
  BY <1>3, <1>4

LEMMA ChildrenSteps ==
    ASSUME EventInv, [Next]_vars
    PROVE  Children'
<1>0. /\ Shape /\ Frame /\ Children /\ KernelSpent /\ Pipeline /\ Lossless /\ Blocks
      /\ DurableTools /\ Lists /\ Pending /\ ChildAfterParent
  BY ShapeIsType, BarriersAre, ChildrenAre DEF EventInv
<1>1. CASE \E p \in Persisters : PersistStep(p) \/ PersistFails(p)
  <2>1. PICK p \in Persisters : PersistStep(p) \/ PersistFails(p)
    BY <1>1
  <2>2. UNCHANGED memory /\ \A r \in Rows : Durable(r) => Durable(r)'
    BY <1>0, <2>1, PersistFacts, PersistGrows
  <2>3. \A e \in channel.durable : Native(e) \in Rows
    BY <1>0, StartsAssumption, LastAssumption, RowFacts DEF Shape, ChannelShape
  <2>4. DurableTools' /\ Lists'
    BY <1>0, <2>2, <2>3 DEF memory, DurableTools, Lists, Listed
  <2>5. Pending' /\ ChildAfterParent'
    BY <1>0, <2>1, PendingPersistSteps, ChildWritten
  <2> QED
    BY <2>4, <2>5 DEF Children, DurableTools, Lists, Listed, Pending, InQueue, InBatch, InJob, AfterParent
<1>2. CASE ~\E p \in Persisters : PersistStep(p) \/ PersistFails(p)
  <2>1. UNCHANGED ordinal /\ DurableTools' /\ Lists'
    BY <1>0, <1>2, ChannelMoves DEF Next
  <2>2. WriterStep("side") => Pending'
    BY <1>0, <2>1, PendingOwnSteps
  <2>3. BandMoves => Pending'
    BY <1>0, <2>1, PendingMoves
  <2>4. Pending'
    BY <1>0, <1>2, <2>2, <2>3, BandSteps, PersistersAre DEF Next
  <2>5. ChildAfterParent'
    BY <1>0, <2>1 DEF ChildAfterParent, Durable
  <2> QED
    BY <2>1, <2>4, <2>5 DEF Children, DurableTools, Lists, Listed, Pending, InQueue, InBatch, InJob, AfterParent
<1> QED
  BY <1>1, <1>2

------------------------------------------------------------------------------
(* What the side writer has accepted.                                      *)

HeldOrDurable ==
    Band.st \in {"running", "stopped"} => \A s \in channel.accepted : Durable(Side(s)) \/ Held(s)
StopIsLast ==
    /\ \A i \in 1 .. Len(Band.queue) : Band.queue[i] = Stop =>
          i = Len(Band.queue) /\ Over /\ Band.held # "stop"
    /\ Band.held = "stop" => Band.queue = <<>> /\ Over
    /\ Band.st = "stopped" => Band.queue = <<>> /\ Band.batch = <<>> /\ Over
KeptIsDurable == runner.kept => Over /\ \A s \in channel.accepted : Durable(Side(s))

LEMMA AcceptedIs ==
    AcceptedIsKept <=> HeldOrDurable /\ StopIsLast /\ KeptIsDurable
BY DEF AcceptedIsKept, HeldOrDurable, StopIsLast, KeptIsDurable, Held, InQueue, InBatch

LEMMA AcceptedMoves ==
    ASSUME Shape, WriterShape', BandMoves, HeldOrDurable, UNCHANGED ordinal
    PROVE  HeldOrDurable'
<1>0. WriterShape /\ "side" \in Writers /\ writer["side"] = Band /\ Len(Band.queue) \in Nat
  BY WriterParts, PersistersAre DEF Shape, Band
<1>1. CASE KeptRows("side") /\ channel'.accepted = channel.accepted
  <2>1. ASSUME NEW s \in Sides, InQueue(s)
        PROVE  InQueue(s)'
    <3>1. PICK i \in 1 .. Len(Band.queue) : Band.queue[i] = Row(Side(s))
      BY <2>1 DEF InQueue
    <3>2. i <= Len(writer'["side"].queue) /\ writer'["side"].queue[i] = Row(Side(s))
      BY <1>0, <1>1, <3>1, EntryFacts DEF KeptRows
    <3>3. Len(writer'["side"].queue) \in Nat
      BY <1>0, LenProperties DEF WriterShape
    <3>4. i \in 1 .. Len(writer'["side"].queue)
      BY <3>1, <3>2, <3>3
    <3> QED
      BY <3>2, <3>4 DEF InQueue, Band
  <2>2. writer'["side"].batch = Band.batch /\ writer'["side"].st = Band.st
    BY <1>0, <1>1 DEF KeptRows
  <2>3. \A s \in Sides : Held(s) => Held(s)'
    BY <2>1, <2>2 DEF Held, InBatch, Band
  <2>4. channel.accepted \subseteq Sides
    BY DEF Shape, ChannelShape
  <2> QED
    BY <1>1, <2>2, <2>3, <2>4 DEF HeldOrDurable, Band, Durable
<1>2. CASE Emptied("side")
  BY <1>2 DEF Emptied, HeldOrDurable, Band
<1>3. ASSUME NEW ss \in SUBSET Sides, Grows(ss), channel'.accepted = channel.accepted \cup ss
      PROVE  HeldOrDurable'
  <2>1. ASSUME NEW s \in Sides, InQueue(s)
        PROVE  InQueue(s)'
    <3>1. PICK i \in 1 .. Len(Band.queue) : Band.queue[i] = Row(Side(s))
      BY <2>1 DEF InQueue
    <3>2. writer'["side"].queue[i] = Row(Side(s)) /\ Len(Band.queue) <= Len(writer'["side"].queue)
      BY <1>3, <3>1 DEF Grows
    <3> QED
      BY <1>0, <3>1, <3>2 DEF InQueue, Band
  <2>2. writer'["side"].batch = Band.batch /\ writer'["side"].st = Band.st
    BY <1>0, <1>3 DEF Grows, SameBut
  <2>3. \A s \in Sides : Held(s) => Held(s)'
    BY <2>1, <2>2 DEF Held, InBatch, Band
  <2>4. \A s \in ss : Held(s)'
    BY <1>3 DEF Grows, Held, InQueue, Band
  <2>5. channel.accepted \subseteq Sides
    BY DEF Shape, ChannelShape
  <2> QED
    BY <1>3, <2>2, <2>3, <2>4, <2>5 DEF HeldOrDurable, Band, Durable
<1> QED
  BY <1>1, <1>2, <1>3 DEF BandMoves

\* What the steps of others do to the side writer's STOP.
StopMoves ==
    \/ /\ ~Over /\ runner'.kept \in {runner.kept, FALSE}
       /\ \A i \in 1 .. Len(writer'["side"].queue) : writer'["side"].queue[i] = Stop =>
             \E j \in 1 .. Len(Band.queue) : Band.queue[j] = Stop
       /\ writer'["side"].held = "stop" => Band.held = "stop"
       /\ writer'["side"].st = Band.st
    \/ /\ ~Over /\ Over' /\ Extended(writer'["side"], writer["side"], Stop)
       /\ runner'.kept = runner.kept
    \/ /\ \/ writer'["side"] = writer["side"]
          \/ Forgotten(writer'["side"], writer["side"])
          \/ Emptied("side")
       /\ Over => Over'
       /\ runner'.kept \in {runner.kept, FALSE} \/ Band.st = "stopped"

LEMMA StopExtended ==
    ASSUME WriterShape, ~Over, runner'.kept \in {runner.kept, FALSE}, NEW v, NEW x, x # Stop,
           v = writer["side"] \/ Forgotten(v, writer["side"]),
           Extended(writer'["side"], v, x)
    PROVE  StopMoves
<1>0. PICK n, q : n = Len(Band.queue) /\ q = writer'["side"].queue
  OBVIOUS
<1>1. /\ Len(v.queue) = n /\ (v.held = "stop" => Band.held = "stop") /\ v.st = Band.st
      /\ \A i \in 1 .. n : v.queue[i] = Stop => Band.queue[i] = Stop
  BY <1>0, EntryFacts DEF Forgotten, Band
<1>2. n \in Nat
  BY <1>0, WriterParts, PersistersAre DEF Band
<1>3. /\ Len(q) = n + 1 /\ q[n + 1] = x /\ \A i \in 1 .. n : q[i] = v.queue[i]
      /\ writer'["side"].held = v.held /\ writer'["side"].st = v.st
  BY <1>0, <1>1 DEF Extended
<1>4. \A i \in 1 .. n + 1 : i \in 1 .. n \/ i = n + 1
  BY <1>2
<1>5. \A i \in 1 .. Len(q) : q[i] = Stop => \E j \in 1 .. n : Band.queue[j] = Stop
  BY <1>1, <1>3, <1>4
<1> QED
  BY <1>0, <1>1, <1>3, <1>5 DEF StopMoves

LEMMA StopPushed ==
    ASSUME WriterShape, ~Over, runner'.kept = runner.kept, NEW ss \in SUBSET Sides, Grows(ss)
    PROVE  StopMoves
<1>1. \A s : Row(s) # Stop
  BY EntryFacts DEF Commands
<1>2. ASSUME NEW i \in 1 .. Len(writer'["side"].queue), writer'["side"].queue[i] = Stop
      PROVE  \E j \in 1 .. Len(Band.queue) : Band.queue[j] = Stop
  <2>1. i <= Len(Band.queue)
    BY <1>1, <1>2 DEF Grows
  <2>2. i \in 1 .. Len(Band.queue)
    BY <2>1, WriterParts, PersistersAre DEF Band
  <2> QED
    BY <1>2, <2>2 DEF Grows
<1> QED
  BY <1>2 DEF StopMoves, Grows, SameBut, Band

LEMMA StopRests ==
    ASSUME runner'.kept \in {runner.kept, FALSE}, Over => Over',
           \/ writer'["side"] = writer["side"]
           \/ Forgotten(writer'["side"], writer["side"])
           \/ Emptied("side")
    PROVE  StopMoves
BY DEF StopMoves

LEMMA StopSteps ==
    ASSUME Shape, Frame, Children,
           RunnerStep \/ Disconnect \/ Interrupt \/ Cancel \/ Crash \/ Ingest \/ Ingested
             \/ (\E s \in Sides : Publish(s)) \/ WriterStep("kernel") \/ UNCHANGED vars
    PROVE  StopMoves
<1>0. WriterShape /\ ChannelShape /\ Flush # Stop /\ runner.kept \in BOOLEAN
  BY EntryFacts DEF Shape, RunnerShape, RunnerRecords
<1>o. /\ runner.pc \notin Late => ~Over
      /\ runner'.pc \in Late /\ channel'.closed = channel.closed => (Over => Over')
  BY DEF Over
<1>l. Late = {"stopSide", "closeKernel", "stopKernel", "settling", "settled", "unsettled", "cut",
              "raised", "crashed"}
  BY DEF Late
<1>a. ASSUME Aborted, runner.pc \notin Late
      PROVE  StopMoves
  BY <1>a, <1>o, StopRests DEF Aborted
<1>c. ASSUME NEW u, NEW status, Closes(u, status), runner.pc \notin Late,
             NEW v, v = u["side"], v = writer["side"] \/ Forgotten(v, writer["side"])
      PROVE  StopMoves
  <2>1. \/ writer'["side"] = v /\ runner'.kept = FALSE
        \/ Extended(writer'["side"], v, Flush) /\ runner'.kept = runner.kept
    BY <1>c DEF Closes
  <2>2. ~Over
    BY <1>c, <1>o
  <2> QED
    BY <1>0, <1>c, <2>1, <2>2, StopExtended, StopRests
<1>1. CASE Receive
  <2>1. runner.pc = "stream" /\ (Aborted \/ (writer'["side"] = writer["side"]
                                            /\ runner'.kept = runner.kept))
    BY <1>1, ReceiveFacts DEF Handed
  <2> QED
    BY <1>a, <1>l, <1>o, <2>1, StopRests
<1>2. CASE Disconnect
  <2>1. runner.pc = "stream" /\ (Aborted \/ (writer'["side"] = writer["side"]
                                            /\ runner'.kept = runner.kept))
    BY <1>2, DisconnectFacts DEF Handed
  <2> QED
    BY <1>a, <1>l, <1>o, <2>1, StopRests
<1>3. CASE ParentFlushed
  <2>1. runner.pc = "parent"
    BY <1>3, ParentFlushedIs
  <2>2. CASE Aborted
    BY <1>a, <1>l, <2>1, <2>2
  <2>3. CASE ~Aborted
    <3> DEFINE rows == channel.unmarked[runner.next - 1]
    <3>1. /\ runner.next - 1 \in Starts /\ runner'.kept = runner.kept
          /\ Pushed("side", Items(rows)) /\ SameBut("side", {"queue"})
      BY <1>3, <2>3, ParentFlushedIs, StartsAssumption
    <3>2. rows \in Seq(Sides)
      BY <1>0, <3>1 DEF ChannelShape
    <3>3. Range(rows) \subseteq Sides
      BY <3>2, RangeOfSides
    <3> HIDE DEF rows
    <3>4. Grows(Range(rows))
      BY <1>0, <3>1, <3>2, PushedGrows
    <3> QED
      BY <1>0, <1>l, <1>o, <2>1, <3>1, <3>3, <3>4, StopPushed
  <2> QED
    BY <2>2, <2>3
<1>4. CASE EndFlushed
  <2>1. /\ runner.pc = "end"
        /\ Aborted \/ (Extended(writer'["side"], writer["side"], Flush)
                       /\ runner'.kept = runner.kept)
    BY <1>4, EndFlushedFacts
  <2> QED
    BY <1>0, <1>a, <1>l, <1>o, <2>1, StopExtended
<1>5. CASE FlushRaises \/ Interrupt
  BY <1>a, <1>l, <1>5, FlushRaisesFacts
<1>6. CASE CloseAfterEnd
  BY <1>c, <1>l, <1>6, CloseAfterEndFacts
<1>7. CASE CloseAfterFailure
  BY <1>c, <1>l, <1>7, CloseAfterFailureFacts
<1>8. CASE SideClosed
  <2>1. /\ runner.pc = "closeSide" /\ channel' = channel
        /\ \/ /\ runner'.pc = "stopSide" /\ runner'.kept = runner.kept
              /\ Extended(writer'["side"], writer["side"], Stop)
           \/ runner'.kept = FALSE /\ writer'["side"] = writer["side"]
    BY <1>8, SideClosedFacts
  <2>2. channel.closed
    BY <2>1 DEF Frame
  <2>3. ~Over /\ (runner'.pc = "stopSide" => Over')
    BY <1>l, <1>o, <2>1, <2>2 DEF Over
  <2> QED
    BY <2>1, <2>3, StopRests DEF StopMoves
<1>9. CASE SideStopped
  <2>1. /\ channel' = channel /\ runner'.pc \in {"settled", "closeKernel", "settling", "unsettled"}
        /\ writer["side"].st = "stopped" /\ writer'["side"] = writer["side"]
    BY <1>9, SideStoppedFacts
  <2> QED
    BY <1>l, <1>o, <2>1 DEF StopMoves, Band
<1>10. CASE KernelClosed
  <2>1. /\ channel' = channel /\ runner'.pc \in {"stopKernel", "settling", "unsettled"}
        /\ writer'["side"] = writer["side"] /\ runner'.kept \in {runner.kept, FALSE}
    BY <1>10, KernelClosedFacts
  <2> QED
    BY <1>l, <1>o, <2>1, StopRests
<1>11. CASE KernelStopped \/ Settle
  BY <1>l, <1>o, <1>11, SettlingFacts, StopRests
<1>12. CASE Cancel
  <2>1. CancelTurn \/ CancelEnding
    BY <1>12 DEF Cancel
  <2>2. CASE CancelTurn
    <3> DEFINE ws == [w \in Writers |-> Forget(w)]
    <3>1. /\ Closes(ws, "cancelled") /\ ws["side"] = Forget("side")
          /\ Forgotten(Forget("side"), writer["side"])
          /\ runner.pc \in {"stream", "parent", "end", "endSide"}
      BY <2>2, CancelTurnFacts, PersistersAre
    <3> HIDE DEF ws
    <3> QED
      BY <1>c, <1>l, <3>1
  <2>3. CASE CancelEnding
    <3>1. /\ runner'.pc \in {"cut", "raised"} /\ channel' = channel /\ runner'.kept = runner.kept
          /\ Emptied("side") \/ Forgotten(writer'["side"], writer["side"])
      BY <2>3, CancelEndingFacts, PersistersAre
    <3> QED
      BY <1>l, <1>o, <3>1, StopRests
  <2> QED
    BY <2>1, <2>2, <2>3
<1>13. CASE Crash
  <2>1. /\ runner'.pc = "crashed" /\ runner'.kept = runner.kept /\ channel'.closed = TRUE
        /\ Emptied("side")
    BY <1>13, CrashFacts, PersistersAre
  <2>2. Over'
    BY <1>l, <2>1 DEF Over
  <2> QED
    BY <2>1, <2>2, StopRests
<1>14. CASE Ingest \/ Ingested \/ UNCHANGED vars
  <2>1. UNCHANGED memory
    BY <1>14 DEF Ingest, Ingested, vars
  <2> QED
    BY <2>1, StopRests DEF memory, Over
<1>15. ASSUME NEW s \in Sides, Publish(s)
       PROVE  StopMoves
  <2>1. UNCHANGED runner
    BY <1>15, Zenon DEF Publish
  <2>2. /\ ~Over
        /\ writer' = writer \/ Extended(writer'["side"], writer["side"], Row(Side(s)))
    BY <1>15, PublishFacts DEF Shape, Over
  <2>3. CASE writer' = writer
    BY <2>1, <2>2, <2>3, StopRests
  <2>4. CASE Extended(writer'["side"], writer["side"], Row(Side(s)))
    <3>1. Grows({s})
      BY <1>0, <2>4, ExtendedGrows
    <3> QED
      BY <1>0, <2>1, <2>2, <3>1, StopPushed
  <2> QED
    BY <2>2, <2>3, <2>4
<1>16. CASE WriterStep("kernel")
  <2>1. UNCHANGED <<runner, channel>> /\ writer'["side"] = writer["side"]
    BY <1>16, KernelStepSides
  <2> QED
    BY <2>1, StopRests DEF Over
<1> QED
  BY <1>1, <1>2, <1>3, <1>4, <1>5, <1>6, <1>7, <1>8, <1>9, <1>10, <1>11, <1>12, <1>13, <1>14,
     <1>15, <1>16 DEF RunnerStep

LEMMA StopMoved ==
    ASSUME Shape, WriterShape', StopIsLast, KeptIsDurable, HeldOrDurable, BandMoves, StopMoves,
           UNCHANGED ordinal
    PROVE  StopIsLast' /\ KeptIsDurable'
<1>0. /\ WriterShape /\ "side" \in Writers /\ writer["side"] = Band
      /\ Len(Band.queue) \in Nat /\ Len(writer'["side"].queue) \in Nat
  BY WriterParts, PersistersAre, LenProperties DEF Shape, WriterShape, Band
<1>1. CASE /\ ~Over /\ runner'.kept \in {runner.kept, FALSE}
           /\ \A i \in 1 .. Len(writer'["side"].queue) : writer'["side"].queue[i] = Stop =>
                 \E j \in 1 .. Len(Band.queue) : Band.queue[j] = Stop
           /\ writer'["side"].held = "stop" => Band.held = "stop"
           /\ writer'["side"].st = Band.st
  <2>1. /\ \A i \in 1 .. Len(Band.queue) : Band.queue[i] # Stop
        /\ Band.held # "stop" /\ Band.st # "stopped"
        /\ ~runner.kept
    BY <1>1 DEF StopIsLast, KeptIsDurable
  <2>2. StopIsLast'
    BY <1>1, <2>1 DEF StopIsLast, Band
  <2>3. ~runner'.kept
    BY <1>1, <2>1
  <2> QED
    BY <2>2, <2>3 DEF KeptIsDurable
<1>2. CASE /\ ~Over /\ Over' /\ Extended(writer'["side"], writer["side"], Stop)
           /\ runner'.kept = runner.kept
  <2>1. /\ \A i \in 1 .. Len(Band.queue) : Band.queue[i] # Stop
        /\ Band.held # "stop" /\ Band.st # "stopped"
        /\ ~runner.kept
    BY <1>2 DEF StopIsLast, KeptIsDurable
  <2>2. PICK n, q : n = Len(Band.queue) /\ q = writer'["side"].queue
    OBVIOUS
  <2>3. /\ n \in Nat /\ Len(q) = n + 1 /\ \A i \in 1 .. n : q[i] # Stop
        /\ writer'["side"].held = Band.held /\ writer'["side"].st = Band.st
    BY <1>0, <1>2, <2>1, <2>2 DEF Extended
  <2>4. \A i \in 1 .. n + 1 : i \in 1 .. n \/ i = n + 1
    BY <2>3
  <2>5. \A i \in 1 .. Len(q) : q[i] = Stop => i = Len(q)
    BY <2>3, <2>4
  <2>6. StopIsLast'
    BY <1>2, <2>1, <2>2, <2>3, <2>5 DEF StopIsLast, Band
  <2> QED
    BY <1>2, <2>1, <2>6 DEF KeptIsDurable
<1>3. CASE /\ \/ writer'["side"] = writer["side"]
              \/ Forgotten(writer'["side"], writer["side"])
              \/ Emptied("side")
           /\ Over => Over'
           /\ runner'.kept \in {runner.kept, FALSE} \/ Band.st = "stopped"
  <2>1. StopIsLast'
    <3>1. CASE Emptied("side")
      <4>1. /\ Len(writer'["side"].queue) = 0 /\ writer'["side"].held = "none"
            /\ writer'["side"].st # "stopped"
        BY <3>1 DEF Emptied
      <4> QED
        BY <4>1 DEF StopIsLast, Band
    <3>2. CASE writer'["side"] = writer["side"] \/ Forgotten(writer'["side"], writer["side"])
      <4>1. /\ Len(writer'["side"].queue) = Len(Band.queue)
            /\ \A i \in 1 .. Len(Band.queue) : writer'["side"].queue[i] = Stop => Band.queue[i] = Stop
            /\ writer'["side"].held = "stop" <=> Band.held = "stop"
            /\ writer'["side"].st = Band.st /\ writer'["side"].batch = Band.batch
        BY <1>0, <3>2, EntryFacts DEF Forgotten
      <4>2. Band.queue = <<>> => Len(Band.queue) = 0
        OBVIOUS
      <4>3. Len(writer'["side"].queue) = 0 => writer'["side"].queue = <<>>
        BY <1>0, EmptySeq DEF WriterShape
      <4> QED
        BY <1>3, <4>1, <4>2, <4>3 DEF StopIsLast, Band
    <3> QED
      BY <1>3, <3>1, <3>2
  <2>2. KeptIsDurable'
    <3> SUFFICES ASSUME runner'.kept
                 PROVE  Over' /\ \A s \in channel'.accepted : Durable(Side(s))'
      BY DEF KeptIsDurable
    <3>1. Over /\ \A s \in channel.accepted : Durable(Side(s))
      <4>1. CASE runner'.kept = runner.kept
        BY <4>1 DEF KeptIsDurable
      <4>2. CASE Band.st = "stopped"
        <5>1. Over /\ Len(Band.queue) = 0 /\ Len(Band.batch) = 0
          BY <4>2 DEF StopIsLast
        <5>2. \A s \in channel.accepted : ~Held(s)
          BY <5>1 DEF Held, InQueue, InBatch
        <5> QED
          BY <4>2, <5>1, <5>2 DEF HeldOrDurable
      <4> QED
        BY <1>3, <4>1, <4>2
    <3>2. channel'.accepted \subseteq channel.accepted
      BY <3>1 DEF BandMoves
    <3> QED
      BY <1>3, <3>1, <3>2 DEF Durable
  <2> QED
    BY <2>1, <2>2
<1> QED
  BY <1>1, <1>2, <1>3 DEF StopMoves

LEMMA StopPopped ==
    ASSUME WriterShape', StopIsLast, Popped("side")
    PROVE  /\ Band.queue[1] = Stop => /\ Over /\ Band.held # "stop"
                                      /\ writer'["side"].queue = <<>>
           /\ \A i \in 1 .. Len(writer'["side"].queue) : writer'["side"].queue[i] = Stop =>
                 i = Len(writer'["side"].queue) /\ Over /\ Band.held # "stop"
<1>0. PICK n, m, q, u : /\ n = Len(Band.queue) /\ u = Band.queue
                        /\ q = writer'["side"].queue /\ m = Len(q)
  OBVIOUS
<1>1. /\ n \in Nat \ {0} /\ m = n - 1 /\ \A i \in 1 .. m : q[i] = u[i + 1]
  BY <1>0 DEF Popped, Band
<1>2. 1 \in 1 .. n /\ \A i \in 1 .. m : i + 1 \in 1 .. n
  BY <1>1
<1>3. ASSUME u[1] = Stop
      PROVE  Over /\ Band.held # "stop" /\ q = <<>>
  <2>1. 1 = n /\ Over /\ Band.held # "stop"
    BY <1>0, <1>2, <1>3 DEF StopIsLast
  <2>2. m = 0
    BY <1>1, <2>1
  <2>3. q \in Seq(Entries("side"))
    BY <1>0, PersistersAre DEF WriterShape
  <2> QED
    BY <1>0, <2>1, <2>2, <2>3, EmptySeq
<1>4. ASSUME NEW i \in 1 .. m, q[i] = Stop
      PROVE  i = m /\ Over /\ Band.held # "stop"
  <2>1. u[i + 1] = Stop /\ i + 1 \in 1 .. n
    BY <1>1, <1>2, <1>4
  <2>2. i + 1 = n /\ Over /\ Band.held # "stop"
    BY <1>0, <2>1 DEF StopIsLast
  <2> QED
    BY <1>1, <2>2
<1> QED
  BY <1>0, <1>3, <1>4

LEMMA AcceptedOwnSteps ==
    ASSUME Shape, BatchIsJob, WrittenIsThere, AcceptedIsKept, WriterStep("side")
    PROVE  AcceptedIsKept'
<1>0. /\ WriterShape /\ JobShape /\ "side" \in Writers /\ "side" \in Persisters
      /\ writer["side"] = Band /\ HeldOrDurable /\ StopIsLast /\ KeptIsDurable
      /\ channel.accepted \subseteq Sides
  BY PersistersAre, AcceptedIs DEF Shape, Band, ChannelShape
<1>1. /\ UNCHANGED <<runner, channel, database>> /\ (Over' <=> Over)
      /\ \A s \in Sides : Durable(Side(s))' <=> Durable(Side(s))
  BY BandStepSides DEF Over, database, Durable
<1>2. KeptIsDurable'
  BY <1>0, <1>1 DEF KeptIsDurable
<1>b. Band.held # "none" => job["side"] # NoJob /\ Band.st = "running"
  BY <1>0 DEF BatchIsJob
<1>e. \A q : q = <<>> => Len(q) = 0
  OBVIOUS
<1> SUFFICES HeldOrDurable' /\ StopIsLast'
  BY <1>2 DEF AcceptedIsKept, HeldOrDurable, StopIsLast, KeptIsDurable, Held, InQueue, InBatch
<1>3. CASE TakeRow("side")
  <2>1. /\ WriterShape' /\ Popped("side") /\ SameBut("side", {"queue", "batch"})
        /\ Band.queue[1] = Row(Band.queue[1][2])
        /\ Len(writer'["side"].batch) = Len(Band.batch) + 1
        /\ \A i \in 1 .. Len(Band.batch) : writer'["side"].batch[i] = Band.batch[i]
        /\ writer'["side"].batch[Len(Band.batch) + 1] = Band.queue[1][2]
        /\ Band.st = "running" /\ job["side"] = NoJob
    BY <1>0, <1>3, TakeRowFacts
  <2>2. writer'["side"].held = "none" /\ writer'["side"].st = "running" /\ Band.held = "none"
    BY <1>0, <1>b, <2>1 DEF SameBut
  <2>3. \A s \in Sides : Held(s)' <=> Held(s)
    BY <1>0, <2>1, HeldTaken
  <2>4. HeldOrDurable'
    BY <1>0, <1>1, <2>1, <2>3 DEF HeldOrDurable
  <2>5. StopIsLast'
    BY <1>0, <1>1, <2>1, <2>2, StopPopped DEF StopIsLast, Band
  <2> QED
    BY <2>4, <2>5
<1>4. CASE TakeCommand("side")
  <2>1. /\ WriterShape' /\ Popped("side") /\ SameBut("side", {"queue", "held"})
        /\ Band.queue[1] \in Commands /\ writer'["side"].held = Band.queue[1][1]
        /\ Band.st = "running" /\ job["side"] = NoJob
    BY <1>0, <1>4, TakeCommandFacts
  <2>2. /\ writer'["side"].batch = Band.batch /\ writer'["side"].st = "running"
        /\ Band.held = "none"
        /\ writer'["side"].held = "stop" <=> Band.queue[1] = Stop
    BY <1>0, <1>b, <2>1, EntryFacts DEF SameBut, Commands
  <2>3. \A s \in Sides : Held(s)' <=> Held(s)
    BY <1>0, <2>1, <2>2, HeldPopped DEF Held
  <2>4. HeldOrDurable'
    BY <1>0, <1>1, <2>1, <2>3 DEF HeldOrDurable
  <2>5. StopIsLast'
    <3>1. CASE Band.queue[1] = Stop
      <4>1. Over /\ writer'["side"].queue = <<>>
        BY <1>0, <2>1, <3>1, StopPopped
      <4> QED
        BY <1>1, <1>e, <2>2, <4>1 DEF StopIsLast, Band
    <3>2. CASE Band.queue[1] # Stop
      BY <1>0, <1>1, <2>1, <2>2, <3>2, StopPopped DEF StopIsLast, Band
    <3> QED
      BY <3>1, <3>2
  <2> QED
    BY <2>4, <2>5
<1>5. CASE TakeCommandOnEmpty("side")
  <2>1. /\ WriterShape' /\ Popped("side") /\ SameBut("side", {"queue", "st"})
        /\ Band.queue[1] \in Commands
        /\ writer'["side"].st = IF Band.queue[1] = Stop THEN "stopped" ELSE "running"
        /\ Band.st = "running" /\ job["side"] = NoJob /\ Band.batch = <<>>
    BY <1>0, <1>5, TakeCommandOnEmptyFacts
  <2>2. writer'["side"].batch = <<>> /\ writer'["side"].held = "none" /\ Band.held = "none"
    BY <1>0, <1>b, <2>1 DEF SameBut
  <2>3. \A s \in Sides : Held(s)' <=> Held(s)
    BY <1>0, <2>1, <2>2, HeldPopped DEF Held
  <2>4. HeldOrDurable'
    BY <1>0, <1>1, <2>1, <2>3 DEF HeldOrDurable
  <2>5. StopIsLast'
    <3>1. CASE Band.queue[1] = Stop
      <4>1. Over /\ writer'["side"].queue = <<>>
        BY <1>0, <2>1, <3>1, StopPopped
      <4> QED
        BY <1>1, <1>e, <2>2, <4>1 DEF StopIsLast, Band
    <3>2. CASE Band.queue[1] # Stop
      <4>1. writer'["side"].st = "running"
        BY <2>1, <3>2
      <4> QED
        BY <1>0, <1>1, <2>1, <2>2, <4>1, StopPopped DEF StopIsLast, Band
    <3> QED
      BY <3>1, <3>2
  <2> QED
    BY <2>4, <2>5
<1>6. CASE Deadline("side")
  <2>1. writer' = writer
    BY <1>6 DEF Deadline, memory
  <2>2. \A s \in Sides : Held(s)' <=> Held(s)
    BY <2>1 DEF Held, InQueue, InBatch, Band
  <2> QED
    BY <1>0, <1>1, <2>1, <2>2 DEF HeldOrDurable, StopIsLast, Band
<1>7. CASE Persisted("side")
  <2>1. /\ writer'["side"].queue = Band.queue
        /\ writer'["side"].batch = <<>> /\ writer'["side"].held = "none"
        /\ writer'["side"].st = IF Band.held = "stop" THEN "stopped" ELSE Band.st
        /\ Done("side")
    BY <1>0, <1>7, PersistedFacts DEF SameBut
  <2>2. Gathered("side")
    BY <2>1 DEF Done
  <2>3. \A i \in 1 .. Len(job["side"].rows) : Durable(job["side"].rows[i])
    BY <1>0, <2>2, GatheredIsThere
  <2>4. \A i \in 1 .. Len(Band.batch) : Durable(Band.batch[i])
    <3>1. CASE Band.st = "running"
      <4>1. Active("side")
        BY <2>2 DEF Gathered, Active
      <4>2. job["side"].rows = Band.batch
        BY <1>0, <3>1, <4>1 DEF BatchIsJob
      <4> QED
        BY <2>3, <4>2
    <3>2. CASE Band.st # "running"
      <4>1. Band.batch = <<>>
        BY <1>0, <3>2 DEF BatchIsJob
      <4> QED
        BY <1>e, <4>1
    <3> QED
      BY <3>1, <3>2
  <2>5. \A s \in Sides : Held(s) => Held(s)' \/ Durable(Side(s))
    BY <2>1, <2>4 DEF Held, InQueue, InBatch, Band
  <2>6. writer'["side"].st \in {"running", "stopped"} => Band.st \in {"running", "stopped"}
    BY <1>b, <2>1
  <2>7. HeldOrDurable'
    BY <1>0, <1>1, <2>5, <2>6 DEF HeldOrDurable, Band
  <2>8. StopIsLast'
    BY <1>0, <1>1, <1>e, <2>1 DEF StopIsLast, Band
  <2> QED
    BY <2>7, <2>8
<1>8. CASE WriterFails("side")
  <2>1. /\ Len(writer'["side"].queue) = 0 /\ writer'["side"].held = "none"
        /\ writer'["side"].st = "failed"
    BY <1>0, <1>8, WriterFailsFacts
  <2> QED
    BY <2>1 DEF HeldOrDurable, StopIsLast, Band
<1> QED
  BY <1>3, <1>4, <1>5, <1>6, <1>7, <1>8 DEF WriterStep

LEMMA AcceptedSteps ==
    ASSUME EventInv, [Next]_vars
    PROVE  AcceptedIsKept'
<1>0. /\ Shape /\ Frame /\ Children /\ BatchIsJob /\ WrittenIsThere /\ AcceptedIsKept
      /\ HeldOrDurable /\ StopIsLast /\ KeptIsDurable
      /\ channel.accepted \subseteq Sides
  BY ShapeIsType, AcceptedIs DEF EventInv, Shape, ChannelShape
<1>w. WriterShape'
  BY ShapeAndJobs DEF StepInv, Shape
<1>1. CASE \E p \in Persisters : PersistStep(p) \/ PersistFails(p)
  <2>1. PICK p \in Persisters : PersistStep(p) \/ PersistFails(p)
    BY <1>1
  <2>2. UNCHANGED memory /\ \A r \in Rows : Durable(r) => Durable(r)'
    BY <1>0, <2>1, PersistFacts, PersistGrows
  <2>3. \A s \in Sides : Durable(Side(s)) => Durable(Side(s))'
    BY <2>2, RowFacts
  <2> QED
    BY <1>0, <2>2, <2>3 DEF memory, AcceptedIsKept, Band, Over
<1>2. CASE WriterStep("side")
  BY <1>0, <1>2, AcceptedOwnSteps
<1>3. CASE ~(\E p \in Persisters : PersistStep(p) \/ PersistFails(p)) /\ ~WriterStep("side")
  <2>1. BandMoves /\ StopMoves
    BY <1>0, <1>3, BandSteps, StopSteps, PersistersAre DEF Next
  <2>2. KernelSpent /\ Pipeline /\ Lossless
    BY BarriersAre DEF EventInv
  <2>3. UNCHANGED ordinal
    BY <1>0, <1>3, <2>2, ChannelMoves DEF Next
  <2>4. HeldOrDurable' /\ StopIsLast' /\ KeptIsDurable'
    BY <1>0, <1>w, <2>1, <2>3, AcceptedMoves, StopMoved
  <2> QED
    BY <2>4 DEF AcceptedIsKept, HeldOrDurable, StopIsLast, KeptIsDurable, Held, InQueue, InBatch
<1> QED
  BY <1>1, <1>2, <1>3

------------------------------------------------------------------------------
(* The theorems.                                                           *)

LEMMA EventInit ==
    ASSUME Init
    PROVE  EventInv
<1>1. /\ \A w \in Writers : writer[w] = NewWriter
      /\ \A p \in Persisters : job[p] = NoJob
      /\ \A r \in Rows : ordinal[r] = 0
      /\ inbox = {} /\ counter = 0 /\ cursor = 0 /\ channel = NewChannel
      /\ runner.pc = "stream" /\ runner.status = "interrupted" /\ runner.next = 1
      /\ runner.kept = FALSE /\ answer = "none"
  BY DEF Init
<1>2. /\ NewWriter.queue = <<>> /\ NewWriter.batch = <<>> /\ NewWriter.held = "none"
      /\ NewWriter.st = "running" /\ Len(<<>>) = 0
      /\ NoJob.phase = "idle" /\ NoJob.rows = <<>>
  BY DEF NewWriter, NoJob
<1>3. Shape
  <2>1. RunnerShape /\ AnswerShape /\ SideShape
    BY LastAssumption DEF Init, RunnerShape, AnswerShape, SideShape, RunnerRecords, Pcs
  <2>2. ChannelShape
    BY <1>1, NoRowsShape DEF ChannelShape, NewChannel
  <2>3. WriterShape
    <3>1. \A w \in Writers : NewWriter \in [st : {"running", "stopped", "failed", "cancelled"},
                queue : Seq(Entries(w)), batch : Seq(Feed(w)),
                held : {"none", "flush", "stale", "stop"}]
      BY EmptySeq DEF NewWriter
    <3>2. NewWriter \in WriterRecords
      BY EmptySeq DEF NewWriter, WriterRecords
    <3>3. writer = [w \in Writers |-> NewWriter]
      BY DEF Init
    <3>4. writer \in [Writers -> WriterRecords]
      BY <3>2, <3>3
    <3> QED
      BY <1>1, <3>1, <3>4 DEF WriterShape
  <2>4. JobShape
    <3>1. \A p \in Persisters : NoJob \in [phase : Phases, rows : Seq(Feed(p)), base : Nat,
                                           written : [Collections -> Nat]]
      BY JobValues
    <3>2. NoJob \in JobRecords
      BY EmptySeq DEF NoJob, JobRecords, Phases
    <3>3. job = [p \in Persisters |-> NoJob]
      BY DEF Init
    <3>4. job \in [Persisters -> JobRecords]
      BY <3>2, <3>3
    <3> QED
      BY <1>1, <3>1, <3>4 DEF JobShape
  <2>5. DatabaseShape
    BY LastAssumption DEF Init, DatabaseShape
  <2> QED
    BY <2>1, <2>2, <2>3, <2>4, <2>5 DEF Shape
<1>4. TypeOK /\ Fed
  BY <1>3, ShapeIsType
<1>5. BatchIsJob /\ WrittenIsThere /\ DistinctOrdinals /\ Blocks
  BY <1>1, <1>2, PersistersAre
     DEF BatchIsJob, WrittenIsThere, DistinctOrdinals, Blocks, Active, Durable
<1>6. Pipeline
  <2>1. Len(Kernel.queue) = 0 /\ Len(Kernel.batch) = 0
    BY <1>1, <1>2, PersistersAre DEF Kernel
  <2>2. CursorBehindRows
    BY <1>1 DEF CursorBehindRows
  <2>3. JobHasNoGap("kernel") /\ JobHasNoGap("sweep") /\ DoneIsBehind
    BY <1>1, <1>2, PersistersAre DEF JobHasNoGap, DoneIsBehind, Active
  <2>4. BatchHasNoGap /\ QueueHasNoGap /\ HandedOver
    BY <1>1, <2>1 DEF BatchHasNoGap, QueueHasNoGap, HandedOver
  <2> QED
    BY <2>2, <2>3, <2>4 DEF Pipeline
<1>7. Lossless
  BY <1>1, <1>2, PersistersAre DEF Lossless, Kernel, Active
<1>8. Frame
  BY <1>1, LastAssumption DEF Frame
<1>9. Barriers
  BY <1>1, <1>2, PersistersAre DEF Barriers, Kernel
<1>10. Children
  <2>1. \A e \in Starts : NoRows[e] = <<>>
    BY DEF NoRows
  <2>2. DurableTools /\ Lists
    BY <1>1, <1>2, <2>1 DEF NewChannel, DurableTools, Lists, Listed
  <2>3. Pending
    BY <1>1, <1>2, PersistersAre DEF Pending, InQueue, InBatch, InJob, Band, Active
  <2>4. \A s \in Sides : ~Durable(Side(s))
    BY <1>1, RowFacts DEF Durable
  <2> QED
    BY <2>2, <2>3, <2>4, ChildrenAre DEF ChildAfterParent
<1>11. AcceptedIsKept
  BY <1>1, <1>2, PersistersAre DEF AcceptedIsKept, NewChannel, Band
<1> QED
  BY <1>4, <1>5, <1>6, <1>7, <1>8, <1>9, <1>10, <1>11 DEF EventInv

LEMMA EventNext ==
    ASSUME EventInv, [Next]_vars
    PROVE  EventInv'
<1>1. Shape' /\ WrittenIsThere' /\ Blocks' /\ DistinctOrdinals'
  BY ShapeAndJobs DEF StepInv, JobInv
<1>2. TypeOK' /\ Fed'
  BY <1>1 DEF Shape, RunnerShape, AnswerShape, ChannelShape, SideShape, WriterShape, JobShape,
              DatabaseShape, TypeOK, Fed, RunnerRecords, WriterRecords, JobRecords
<1> QED
  BY <1>1, <1>2, BatchSteps, PipelineSteps, LosslessSteps, FrameSteps, BarriersSteps,
     ChildrenSteps, AcceptedSteps DEF EventInv

\* The inductive invariant: what the queues, batches, jobs and barriers of the
\* runner, its writers and the sweep hold, and which rows are durable.
THEOREM EventInductive == Spec => []EventInv
<1>1. Init => EventInv
  BY EventInit
<1>2. EventInv /\ [Next]_vars => EventInv'
  BY EventNext
<1> QED
  BY <1>1, <1>2, PTL DEF Spec

\* The state has its shape, whatever fails, is cancelled or crashes.
THEOREM TypeCorrect == Spec => []TypeOK
<1>1. EventInv => TypeOK
  BY DEF EventInv
<1> QED
  BY <1>1, EventInductive, PTL

\* The durable cursor has behind it, for every event, an inbox row and a projected
\* row of that event: recovery and attachment, which begin at it, skip nothing.
THEOREM CursorIsBehindRows == Spec => []CursorBehindRows
<1>1. EventInv => CursorBehindRows
  BY DEF EventInv, Pipeline
<1> QED
  BY <1>1, EventInductive, PTL

\* The blocks of ordinals that the four tasks reserve never overlap: two rows of
\* the message never share one.
THEOREM OrdinalsAreDistinct == Spec => []DistinctOrdinals
<1>1. EventInv => DistinctOrdinals
  BY DEF EventInv
<1> QED
  BY <1>1, EventInductive, PTL

\* A side row of a tool is in the projections only after the tool's own row, and
\* with a later ordinal, so that a replay shows the parent first.
THEOREM ChildrenFollow == Spec => []ChildAfterParent
<1>1. EventInv => ChildAfterParent
  BY DEF EventInv, Children
<1> QED
  BY <1>1, EventInductive, PTL

\* A turn settled as completed has lost none of its events: its cursor is at the
\* last one, and both collections have every row.
THEOREM CompletedTurnIsWhole == Spec => []CompletedIsWhole
<1>1. EventInv => CompletedIsWhole
  <2> SUFFICES ASSUME EventInv, runner.pc = "settled", runner.status = "completed"
               PROVE  Natives \subseteq inbox /\ (\A r \in Natives : Durable(r)) /\ cursor = Last
    BY DEF CompletedIsWhole
  <2>1. Shape /\ Frame /\ Lossless /\ CursorBehindRows
    BY ShapeIsType DEF EventInv, Pipeline
  <2>2. cursor = Last
    BY <2>1, LastAssumption DEF Frame, Shape, DatabaseShape
  <2>3. ASSUME NEW e \in 1 .. Last
        PROVE  Native(e) \in inbox /\ Durable(Native(e))
    <3>1. PICK r \in inbox : e \in Slots(r) /\ Durable(r)
      BY <2>1, <2>2 DEF CursorBehindRows
    <3>2. r \in Rows /\ r \notin Losts
      BY <2>1, <3>1 DEF Shape, DatabaseShape, Lossless
    <3> QED
      BY <3>1, <3>2, RowFacts
  <2> QED
    BY <2>2, <2>3 DEF Natives
<1> QED
  BY <1>1, EventInductive, PTL

\* What the assistant row keeps of the side rows' history is in the projections,
\* for every row that the channel had accepted.
THEOREM KeptHistoryIsReplayable == Spec => []HistoryIsReplayable
<1>1. EventInv => HistoryIsReplayable
  BY DEF EventInv, AcceptedIsKept, HistoryIsReplayable
<1> QED
  BY <1>1, EventInductive, PTL

================================================================================
