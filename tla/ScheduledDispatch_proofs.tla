----------------------- MODULE ScheduledDispatch_proofs -----------------------
(***************************************************************************)
(* Theorems about ScheduledDispatch, for any number of processes, run-now  *)
(* calls, plans, edits, crashes, operations that raise and leases that     *)
(* lapse.  DispatchInv adds to the properties                              *)
(*   - Shape: what a process has in hand at each place of its code;        *)
(*   - Known: a run without a row is held only by who is to create it;     *)
(*   - Handed: a run that is observed, or whose job is released, is        *)
(*     settled;                                                            *)
(*   - OnTime: what has been taken up is not later than what is due;       *)
(*   - Exclusive: whoever works on a run has its lease, and is alone;      *)
(*   - Affordable: an account of turns.  A turn and a process that may     *)
(*     still start one cost two, one that is giving up costs one; a run    *)
(*     has two from the start, a crash and a lapse pay two, an operation   *)
(*     that raises pays one;                                               *)
(*   - Honest: undisturbed, where a run stands agrees with its turn;       *)
(*   - Edited, Copied: the plan that an edit or a dispatcher holds is the  *)
(*     job's, while it may still be written.                               *)
(* For each action one lemma (TakePendingFacts, ...) says what it does;    *)
(* the conjuncts follow from these.                                        *)
(***************************************************************************)
EXTENDS ScheduledDispatch, FiniteSetTheorems, SequenceTheorems, WellFoundedInduction, TLAPS

------------------------------------------------------------------------------
(* The inductive invariant.                                                *)

Dispatching == Working \cup {"claim", "create", "existing", "release", "unlease"}
OfSchedule == {"create", "existing", "release", "unlease"}

\* What a loop, and what a run-now task, may hold at a place.
Placed(p) ==
    /\ p \in Workers => /\ proc[p].pc \notin {"ready", "gone"}
                        /\ proc[p].host = p /\ proc[p].phase \in {"recover", "due"}
    /\ p \in Manuals => /\ proc[p].pc \in {"ready", "gone", "claim", "start", "mark", "failing"}
                        /\ proc[p].run \in {p, None}
    /\ proc[p].pc \in Dispatching <=> proc[p].run # None
    /\ proc[p].pc \in Dispatching => proc[p].host \in Workers
    /\ proc[p].pc \in Dispatching \ {"fetch", "orphan"} => proc[p].copy \in Copies
    /\ proc[p].pc \in OfSchedule => proc[p].run \in Instants
Shape == \A p \in Procs : Placed(p)

\* Only the process that is about to write a row holds a run that has none.
Known ==
    \A k \in Runs :
        /\ run[k].live => run[k].status = "dispatching"
        /\ run[k].status = "absent" =>
             /\ turns[k] = << >>
             /\ \A p \in Procs : proc[p].run = k => proc[p].pc = "create"
        /\ k \in Manuals /\ proc[k].pc = "ready" => run[k].status = "absent"

\* A run is observed, or its job released, when it has left the pending states,
\* and noted as started when it has a turn.
Handed ==
    /\ \A x \in watch : run[x[2]].status \in Settled /\ x[3] \in DOMAIN turns[x[2]]
    /\ \A p \in Procs : proc[p].pc = "release" => run[proc[p].run].status \in Settled
    /\ \A p \in Procs : proc[p].pc = "mark" => turns[proc[p].run] # << >>

\* The job moves on in time: what has been taken up is not later than now, nor
\* than what is due next.
Begun(k) == run[k].status # "absent" \/ \E p \in Procs : proc[p].run = k
OnTime ==
    \A k \in Instants : Begun(k) => k <= now /\ (job.due # None => k <= job.due)

\* Whoever works on a run holds its lease, unless the lease lapsed under him.
Exclusive ==
    slow = 0 =>
        \A p \in Procs : proc[p].pc \in Working =>
            /\ run[proc[p].run].status \in {"dispatching"} \cup Settled
            /\ run[proc[p].run].status = "dispatching" => run[proc[p].run].live
            /\ \A q \in Procs :
                 q # p /\ proc[q].pc \in Working => proc[q].run # proc[p].run

\* Every turn of a run after the first, and every process that may still start
\* one, is paid for: by a crash, a lapse, or two operations that raised.
Starting(k) == {p \in Procs : proc[p].run = k /\ proc[p].pc \in {"fetch", "orphan", "start"}}
Failing(k) == {p \in Procs : proc[p].run = k /\ proc[p].pc = "failing"}
Cost(k) == 2 * Len(turns[k]) + 2 * Cardinality(Starting(k)) + Cardinality(Failing(k))
Paid == 2 * crashes + 2 * slow + faults
Unheld(k) == run[k].status \in Pending /\ (run[k].live => ~AtWorkOnRun(k))
Affordable ==
    \A k \in Runs :
        /\ Cost(k) <= 2 + Paid
        /\ Unheld(k) => Cost(k) <= Paid

\* Undisturbed, where a run stands and what it says of its turn.
Calm == crashes + slow + faults = 0
Observed(k) ==
    \/ run[k].status = "failed" /\ turns[k] = << >>
    \/ run[k].status = "running" /\ \E x \in watch : x[2] = k
    \/ turns[k] # << >> /\ run[k].status = turns[k][1] /\ run[k].status # "running"
Honest ==
    Calm => \A k \in Runs :
        /\ \A p \in Procs : proc[p].run = k /\ proc[p].pc \in {"fetch", "orphan", "start", "failing"}
             => turns[k] = << >>
        /\ run[k].status \in Pending /\ turns[k] # << >> =>
             \E p \in Procs : proc[p].run = k /\ proc[p].pc = "mark"
        /\ run[k].status \in Settled =>
             /\ Observed(k)
             /\ \A p \in Procs : proc[p].run = k => proc[p].pc \notin Working

\* An edit holds the plan it read, and a dispatcher that may release the job the
\* plan the job has.
Edited == edit # None => edit = job.plan
Copied ==
    job.exists /\ ~raced =>
        \A p \in Procs :
            /\ proc[p].pc \in Dispatching \ {"fetch", "orphan"}
            /\ proc[p].run \in Instants
            /\ job.due # None /\ job.due <= proc[p].run
            => proc[p].copy.plan = job.plan /\ proc[p].copy.enabled

DispatchInv ==
    /\ TypeOK /\ Shape /\ Known /\ Handed /\ OnTime
    /\ Exclusive /\ Affordable /\ Honest
    /\ Edited /\ Copied /\ EditStands


------------------------------------------------------------------------------
(* The operators of the model.                                             *)

LEMMA Names ==
    /\ \A w \in Workers : w \notin Manuals /\ w \in Procs /\ w # None
    /\ \A m \in Manuals : m \notin Instants /\ m \in Procs /\ m \in Runs /\ m # None
    /\ \A k \in Runs : k # None /\ (k \in Instants <=> k \notin Manuals)
    /\ \A k \in Instants : k \in Runs /\ k \in Nat
    /\ \A p \in Procs : p \in Workers <=> p \notin Manuals
    /\ \A plan \in Plans : \A t \in plan : t \in Nat /\ t # None
    /\ "running" \notin Outcomes /\ "absent" \notin Settled
    /\ Pending \cap Settled = {} /\ "absent" \notin Pending /\ Outcomes \subseteq Settled
BY NamesAssumption, OutcomesAssumption DEF Procs, Runs, Instants, Pending, Settled

\* The next time of a plan is a time of the plan, and later.
LEMMA NextTime ==
    ASSUME NEW plan \in SUBSET Nat, NEW after \in Int
    PROVE  \/ NextRunAt(plan, after) = None
           \/ NextRunAt(plan, after) \in plan /\ NextRunAt(plan, after) > after
<1> DEFINE later == {v \in plan : v > after}
<1>1. CASE later = {}
  BY <1>1 DEF NextRunAt
<1>2. CASE later # {}
  <2>1. PICK t \in later : \A u \in later : ~(<<u, t>> \in OpToRel(<, Nat))
    BY <1>2, NatLessThanWellFounded, WFMin
  <2>2. \A u \in later : t <= u
    <3>1. \A u \in later : u \in Nat /\ ~(u < t)
      BY <2>1 DEF OpToRel
    <3>2. t \in Nat
      OBVIOUS
    <3> HIDE DEF later
    <3> QED
      BY <3>1, <3>2
  <2>3. (CHOOSE s \in later : \A u \in later : s <= u) \in later
    BY <2>2
  <2> QED
    BY <1>2, <2>3 DEF NextRunAt
<1> QED
  BY <1>1, <1>2

LEMMA JobIs ==
    ASSUME TypeOK
    PROVE  /\ job.exists \in BOOLEAN /\ job.plan \in Plans /\ job.enabled \in BOOLEAN
           /\ job.due \in (UNION Plans) \cup {None} /\ job.owner \in Workers \cup {None}
           /\ job.live \in BOOLEAN
           /\ job.due # None => job.due \in Nat
BY NamesAssumption DEF TypeOK, JobRows

LEMMA RunIs ==
    ASSUME TypeOK, NEW k \in Runs
    PROVE  /\ run[k].status \in {"absent"} \cup Pending \cup Settled /\ run[k].live \in BOOLEAN
           /\ turns[k] \in Seq({"running"} \cup Outcomes)
BY DEF TypeOK, RunRows

LEMMA ProcIs ==
    ASSUME TypeOK, NEW p \in Procs
    PROVE  /\ proc[p].pc \in Places /\ proc[p].phase \in {"recover", "due", "gone"}
           /\ proc[p].host \in Workers \cup {None} /\ proc[p].copy \in Copies \cup {None}
           /\ proc[p].run \in Runs \cup {None}
           /\ proc[p] \in Progress
BY DEF TypeOK, Progress

------------------------------------------------------------------------------
(* What the actions do to the processes and to the rows.                   *)

\* Only p moves, and it is where it may be; only the row of k is written.
Moved(p) ==
    /\ proc' \in [Procs -> Progress]
    /\ \A q \in Procs : q # p => proc'[q] = proc[q]
    /\ Placed(p)'
Wrote(k, row) ==
    /\ run' \in [Runs -> RunRows]
    /\ run'[k] = row
    /\ \A j \in Runs : j # k => run'[j] = run[j]
Keeps(p) == proc'[p].run = proc[p].run /\ proc'[p].copy = proc[p].copy
Rests(p) ==
    /\ proc'[p].run = None /\ proc'[p].copy = None
    /\ proc'[p].pc = IF p \in Manuals THEN "gone" ELSE proc'[p].phase
    /\ proc'[p].pc \in {"gone", "recover", "due"}

LEMMA ProcSet ==
    ASSUME TypeOK, NEW p \in Procs, NEW r \in Progress, proc' = [proc EXCEPT ![p] = r]
    PROVE  /\ proc' \in [Procs -> Progress] /\ proc'[p] = r
           /\ \A q \in Procs : q # p => proc'[q] = proc[q]
BY DEF TypeOK

LEMMA RowSet ==
    ASSUME TypeOK, NEW k \in Runs, NEW row \in RunRows, run' = [run EXCEPT ![k] = row]
    PROVE  Wrote(k, row)
BY DEF TypeOK, Wrote

LEMMA RowsAre ==
    /\ Claimed \in RunRows
    /\ \A s \in {"absent"} \cup Pending \cup Settled : Row(s) \in RunRows /\ Row(s).status = s /\ ~Row(s).live
    /\ Claimed.status = "dispatching" /\ Claimed.live
    /\ "dispatching" \in Pending /\ "queued" \in Pending
    /\ "failed" \in Settled /\ "running" \in Settled
BY DEF Claimed, Row, RunRows, Pending, Settled

LEMMA GotoFacts ==
    ASSUME TypeOK, Shape, NEW p \in Procs, NEW pc \in Places, Goto(p, pc),
           proc[p].pc \in Dispatching, pc \in Dispatching,
           pc \in OfSchedule => proc[p].run \in Instants /\ p \in Workers,
           pc \notin {"fetch", "orphan"} => proc[p].copy \in Copies,
           p \in Manuals => pc \in {"start", "mark", "failing"}
    PROVE  Moved(p) /\ Keeps(p) /\ proc'[p].pc = pc
<1> DEFINE r == [proc[p] EXCEPT !.pc = pc]
<1>1. r \in Progress /\ proc' = [proc EXCEPT ![p] = r]
  BY ProcIs DEF Goto, Progress
<1>2. /\ r.pc = pc /\ r.run = proc[p].run /\ r.copy = proc[p].copy
      /\ r.host = proc[p].host /\ r.phase = proc[p].phase
  BY ProcIs DEF Progress
<1> HIDE DEF r
<1>3. /\ proc' \in [Procs -> Progress] /\ proc'[p] = r
      /\ \A q \in Procs : q # p => proc'[q] = proc[q]
  BY <1>1, ProcSet
<1>4. Placed(p)'
  BY <1>2, <1>3, Names DEF Shape, Placed, Dispatching, Working
<1> QED
  BY <1>2, <1>3, <1>4 DEF Moved, Keeps

LEMMA RestFacts ==
    ASSUME TypeOK, NEW p \in Procs, NEW r \in Progress, proc' = [proc EXCEPT ![p] = r],
           r.run = None, r.copy = None,
           \/ p \in Manuals /\ r.pc = "gone"
           \/ p \in Workers /\ r.pc = r.phase /\ r.phase \in {"recover", "due"} /\ r.host = p
    PROVE  Moved(p) /\ Rests(p)
<1>1. /\ proc' \in [Procs -> Progress] /\ proc'[p] = r
      /\ \A q \in Procs : q # p => proc'[q] = proc[q]
  BY ProcSet
<1>2. Placed(p)' /\ Rests(p)
  BY <1>1, Names DEF Placed, Rests, Dispatching, Working, OfSchedule
<1> QED
  BY <1>1, <1>2 DEF Moved

LEMMA GoneFacts == Gone \in Progress /\ Gone.run = None /\ Gone.copy = None /\ Gone.pc = "gone"
BY DEF Gone, Progress, Places

LEMMA RestingFacts ==
    ASSUME NEW w \in Workers
    PROVE  /\ Resting(w) \in Progress
           /\ Resting(w).pc = "recover" /\ Resting(w).phase = "recover"
           /\ Resting(w).host = w /\ Resting(w).run = None /\ Resting(w).copy = None
BY DEF Resting, Progress, Places

LEMMA RestingRests ==
    ASSUME TypeOK, NEW w \in Workers, proc' = [proc EXCEPT ![w] = Resting(w)]
    PROVE  Moved(w) /\ Rests(w)
<1>1. PICK r : r = Resting(w)
  OBVIOUS
<1>2. /\ r \in Progress /\ r.pc = "recover" /\ r.phase = "recover" /\ r.host = w
      /\ r.run = None /\ r.copy = None
  BY <1>1, RestingFacts
<1>3. w \in Procs /\ proc' = [proc EXCEPT ![w] = r]
  BY <1>1, Names
<1> QED
  BY <1>2, <1>3, RestFacts

LEMMA DoneFacts ==
    ASSUME TypeOK, Shape, NEW p \in Procs, Done(p)
    PROVE  Moved(p) /\ Rests(p)
<1>1. CASE p \in Manuals
  BY <1>1, GoneFacts, RestFacts DEF Done
<1>2. CASE p \in Workers
  <2>1. proc[p].phase \in {"recover", "due"} /\ p \notin Manuals
    BY <1>2, Names DEF Shape, Placed
  <2> DEFINE r == [Resting(p) EXCEPT !.pc = proc[p].phase, !.phase = proc[p].phase]
  <2>2. proc' = [proc EXCEPT ![p] = r]
    BY <2>1 DEF Done
  <2>3. /\ r \in Progress /\ r.pc = r.phase /\ r.phase \in {"recover", "due"}
        /\ r.host = p /\ r.run = None /\ r.copy = None
    BY <1>2, <2>1 DEF Resting, Progress, Places
  <2> HIDE DEF r
  <2> QED
    BY <1>2, <2>2, <2>3, RestFacts
<1> QED
  BY <1>1, <1>2 DEF Procs

LEMMA CopyFacts ==
    ASSUME NEW row \in JobRows
    PROVE  /\ CopyOf(row) \in Copies
           /\ CopyOf(row).plan = row.plan /\ CopyOf(row).enabled = row.enabled
BY DEF CopyOf, Copies, JobRows

LEMMA TakePendingFacts ==
    ASSUME TypeOK, Shape, NEW w \in Workers, NEW k \in Runs, TakePending(w, k)
    PROVE  /\ Moved(w) /\ proc[w].pc = "recover" /\ proc'[w].pc = "fetch" /\ proc'[w].run = k
           /\ Claimable(k) /\ Wrote(k, Claimed)
           /\ UNCHANGED <<now, job, turns, watch, edit, raced, budget>>
<1> DEFINE r == [proc[w] EXCEPT !.pc = "fetch", !.run = k]
<1>1. w \in Procs /\ w \notin Manuals
  BY Names
<1>2. r \in Progress /\ r.pc = "fetch" /\ r.run = k /\ r.host = proc[w].host /\ r.phase = proc[w].phase
  BY <1>1, ProcIs DEF Progress, Places, Working
<1>3. proc' = [proc EXCEPT ![w] = r]
  BY DEF TakePending
<1> HIDE DEF r
<1>4. /\ proc' \in [Procs -> Progress] /\ proc'[w] = r
      /\ \A q \in Procs : q # w => proc'[q] = proc[q]
  BY <1>1, <1>2, <1>3, ProcSet
<1>5. Placed(w)'
  BY <1>1, <1>2, <1>4, Names DEF Shape, Placed, Dispatching, Working, OfSchedule
<1>6. Wrote(k, Claimed)
  BY RowSet, RowsAre DEF TakePending
<1> QED
  BY <1>2, <1>4, <1>5, <1>6 DEF TakePending, Moved

LEMMA NothingPendingFacts ==
    ASSUME TypeOK, Shape, NEW w \in Workers, NothingPending(w)
    PROVE  /\ Moved(w) /\ proc'[w].run = None /\ proc'[w].pc = "due"
           /\ UNCHANGED <<now, rows, turns, watch, edit, raced, budget>>
<1> DEFINE r == [proc[w] EXCEPT !.pc = "due", !.phase = "due"]
<1>1. w \in Procs /\ w \notin Manuals /\ proc[w].run = None
  BY Names DEF NothingPending, Shape, Placed, Dispatching, Working
<1>2. r \in Progress /\ r.pc = "due" /\ r.run = None /\ r.host = proc[w].host /\ r.phase = "due"
  BY <1>1, ProcIs DEF Progress, Places
<1>3. proc' = [proc EXCEPT ![w] = r]
  BY DEF NothingPending
<1> HIDE DEF r
<1>4. /\ proc' \in [Procs -> Progress] /\ proc'[w] = r
      /\ \A q \in Procs : q # w => proc'[q] = proc[q]
  BY <1>1, <1>2, <1>3, ProcSet
<1>5. Placed(w)'
  BY <1>1, <1>2, <1>4 DEF Shape, Placed, Dispatching, Working, OfSchedule
<1> QED
  BY <1>2, <1>4, <1>5 DEF NothingPending, Moved

LEMMA FetchJobFacts ==
    ASSUME TypeOK, Shape, NEW w \in Workers, FetchJob(w)
    PROVE  /\ Moved(w) /\ proc[w].pc = "fetch" /\ proc'[w].run = proc[w].run /\ proc[w].run \in Runs
           /\ \/ /\ job.exists /\ proc'[w].pc = "start"
                 /\ proc'[w].copy.plan = job.plan /\ proc'[w].copy.enabled = job.enabled
              \/ proc'[w].pc = "orphan"
           /\ UNCHANGED <<now, rows, turns, watch, edit, raced, budget>>
<1> DEFINE r == IF job.exists THEN [proc[w] EXCEPT !.pc = "start", !.copy = CopyOf(job)]
                ELSE [proc[w] EXCEPT !.pc = "orphan"]
<1>1. w \in Procs /\ w \notin Manuals /\ proc[w].run # None /\ proc[w].run \in Runs
  BY Names, ProcIs DEF FetchJob, Shape, Placed, Dispatching, Working
<1>2. /\ r \in Progress /\ r.run = proc[w].run /\ r.host = proc[w].host /\ r.phase = proc[w].phase
      /\ \/ /\ job.exists /\ r.pc = "start" /\ r.copy = CopyOf(job)
         \/ r.pc = "orphan"
  BY <1>1, ProcIs, CopyFacts DEF Progress, Places, Working, TypeOK
<1>3. proc' = [proc EXCEPT ![w] = r]
  BY DEF FetchJob
<1> HIDE DEF r
<1>4. /\ proc' \in [Procs -> Progress] /\ proc'[w] = r
      /\ \A q \in Procs : q # w => proc'[q] = proc[q]
  BY <1>1, <1>2, <1>3, ProcSet
<1>5. CopyOf(job) \in Copies /\ CopyOf(job).plan = job.plan /\ CopyOf(job).enabled = job.enabled
  BY CopyFacts DEF TypeOK
<1>6. Placed(w)'
  BY <1>1, <1>2, <1>4, <1>5, Names DEF Shape, Placed, Dispatching, Working, OfSchedule
<1> QED
  BY <1>1, <1>2, <1>4, <1>5, <1>6 DEF FetchJob, Moved

LEMMA FailPendingRunFacts ==
    ASSUME TypeOK, Shape, NEW w \in Workers, FailPendingRun(w)
    PROVE  /\ Moved(w) /\ Rests(w) /\ proc[w].pc = "orphan" /\ proc[w].run \in Runs
           /\ \/ run[proc[w].run].status = "dispatching" /\ Wrote(proc[w].run, Row("failed"))
              \/ run[proc[w].run].status # "dispatching" /\ run' = run
           /\ UNCHANGED <<now, job, turns, watch, edit, raced, budget>>
<1>1. w \in Procs /\ proc[w].run \in Runs
  BY Names, ProcIs DEF FailPendingRun, Shape, Placed, Dispatching, Working
<1>2. Moved(w) /\ Rests(w)
  BY <1>1, DoneFacts DEF FailPendingRun
<1>3. \/ run[proc[w].run].status = "dispatching" /\ Wrote(proc[w].run, Row("failed"))
      \/ run[proc[w].run].status # "dispatching" /\ run' = run
  BY <1>1, RowSet, RowsAre DEF FailPendingRun
<1> QED
  BY <1>1, <1>2, <1>3 DEF FailPendingRun

LEMMA ClaimDueJobFacts ==
    ASSUME TypeOK, Shape, NEW w \in Workers, ClaimDueJob(w)
    PROVE  /\ Moved(w) /\ proc[w].pc = "due" /\ proc'[w].pc = "create" /\ proc'[w].run = job.due
           /\ job.exists /\ job.enabled /\ job.due \in Instants /\ job.due <= now
           /\ proc'[w].copy.plan = job.plan /\ proc'[w].copy.enabled = job.enabled
           /\ job' \in JobRows /\ job'.exists = job.exists /\ job'.plan = job.plan
           /\ job'.enabled = job.enabled /\ job'.due = job.due
           /\ UNCHANGED <<now, run, turns, watch, edit, raced, budget>>
<1> DEFINE r == [proc[w] EXCEPT !.pc = "create", !.copy = CopyOf(job'), !.run = job.due]
<1>1. w \in Procs /\ w \notin Manuals
  BY Names
<1>2. /\ job' \in JobRows /\ job'.exists = job.exists /\ job'.plan = job.plan
      /\ job'.enabled = job.enabled /\ job'.due = job.due
  BY DEF ClaimDueJob, TypeOK, JobRows
<1>3. CopyOf(job') \in Copies /\ CopyOf(job').plan = job.plan /\ CopyOf(job').enabled = job.enabled
  BY <1>2, CopyFacts
<1>4. job.exists /\ job.enabled /\ job.due \in Instants /\ job.due <= now /\ job.due \in Runs
  BY JobIs, NamesAssumption DEF ClaimDueJob, IsDue, TypeOK, Instants, Runs
<1>5. /\ r \in Progress /\ r.pc = "create" /\ r.run = job.due /\ r.copy = CopyOf(job')
      /\ r.host = proc[w].host /\ r.phase = proc[w].phase
  BY <1>1, <1>3, <1>4, ProcIs DEF Progress, Places
<1>6. proc' = [proc EXCEPT ![w] = r]
  BY DEF ClaimDueJob
<1> HIDE DEF r
<1>7. /\ proc' \in [Procs -> Progress] /\ proc'[w] = r
      /\ \A q \in Procs : q # w => proc'[q] = proc[q]
  BY <1>1, <1>5, <1>6, ProcSet
<1>8. Placed(w)'
  BY <1>1, <1>3, <1>4, <1>5, <1>7, Names DEF Shape, Placed, Dispatching, Working, OfSchedule
<1>9. proc[w].pc = "due" /\ UNCHANGED <<now, run, turns, watch, edit, raced, budget>>
  BY DEF ClaimDueJob
<1>10. Moved(w)
  BY <1>7, <1>8 DEF Moved
<1> QED
  BY <1>2, <1>3, <1>4, <1>5, <1>7, <1>9, <1>10

LEMMA NothingDueFacts ==
    ASSUME TypeOK, Shape, NEW w \in Workers, NothingDue(w)
    PROVE  Moved(w) /\ Rests(w) /\ UNCHANGED <<now, rows, turns, watch, edit, raced, budget>>
BY RestingRests DEF NothingDue

LEMMA CreateRunFacts ==
    ASSUME TypeOK, Shape, NEW w \in Workers, CreateRun(w)
    PROVE  /\ Moved(w) /\ Keeps(w) /\ proc[w].pc = "create" /\ proc[w].run \in Instants
           /\ \/ /\ run[proc[w].run].status = "absent" /\ Wrote(proc[w].run, Row("queued"))
                 /\ proc'[w].pc = "claim"
              \/ run[proc[w].run].status # "absent" /\ run' = run /\ proc'[w].pc = "existing"
           /\ UNCHANGED <<now, job, turns, watch, edit, raced, budget>>
<1>1. w \in Procs /\ proc[w].pc = "create" /\ proc[w].run \in Instants /\ w \notin Manuals
  BY Names DEF CreateRun, Shape, Placed, OfSchedule
<1>2. proc[w].run \in Runs /\ proc[w].copy \in Copies
  BY <1>1 DEF Shape, Placed, Runs, Dispatching, Working
<1>3. CASE run[proc[w].run].status = "absent"
  <2>1. Wrote(proc[w].run, Row("queued"))
    BY <1>2, <1>3, RowSet, RowsAre DEF CreateRun
  <2>2. Moved(w) /\ Keeps(w) /\ proc'[w].pc = "claim"
    BY <1>1, <1>2, <1>3, GotoFacts DEF CreateRun, Places, Dispatching, OfSchedule
  <2> QED
    BY <1>1, <1>3, <2>1, <2>2 DEF CreateRun
<1>4. CASE run[proc[w].run].status # "absent"
  <2>1. Moved(w) /\ Keeps(w) /\ proc'[w].pc = "existing"
    BY <1>1, <1>2, <1>4, GotoFacts DEF CreateRun, Places, Dispatching, OfSchedule
  <2> QED
    BY <1>1, <1>4, <2>1 DEF CreateRun
<1> QED
  BY <1>3, <1>4

LEMMA CheckExistingFacts ==
    ASSUME TypeOK, Shape, NEW w \in Workers, CheckExisting(w)
    PROVE  /\ Moved(w) /\ Keeps(w) /\ proc[w].pc = "existing" /\ proc[w].run \in Instants
           /\ \/ proc'[w].pc = "claim"
              \/ run[proc[w].run].status \notin Pending /\ proc'[w].pc = "release"
           /\ UNCHANGED <<now, rows, turns, watch, edit, raced, budget>>
<1>1. w \in Procs /\ proc[w].pc = "existing" /\ proc[w].run \in Instants /\ w \notin Manuals
  BY Names DEF CheckExisting, Shape, Placed, OfSchedule
<1>2. proc[w].copy \in Copies
  BY <1>1 DEF Shape, Placed, Runs, Dispatching, Working
<1>3. PICK pc \in {"claim", "release"} :
        Goto(w, pc) /\ (pc = "release" => run[proc[w].run].status \notin Pending)
  BY DEF CheckExisting
<1>4. Moved(w) /\ Keeps(w) /\ proc'[w].pc = pc
  BY <1>1, <1>2, <1>3, GotoFacts DEF Places, Dispatching, OfSchedule
<1> QED
  BY <1>1, <1>3, <1>4 DEF CheckExisting

LEMMA ClaimRunFacts ==
    ASSUME TypeOK, Shape, NEW p \in Procs, ClaimRun(p)
    PROVE  /\ Moved(p) /\ proc[p].pc = "claim" /\ proc[p].run \in Runs
           /\ \/ /\ Claimable(proc[p].run) /\ Wrote(proc[p].run, Claimed)
                 /\ Keeps(p) /\ proc'[p].pc = "start"
              \/ Rests(p) /\ run' = run
           /\ UNCHANGED <<now, job, turns, watch, edit, raced, budget>>
<1>1. proc[p].pc = "claim" /\ proc[p].run \in Runs /\ proc[p].copy \in Copies
  BY ProcIs DEF ClaimRun, Shape, Placed, Dispatching, Working
<1>2. CASE Claimable(proc[p].run)
  <2>1. Wrote(proc[p].run, Claimed)
    BY <1>1, <1>2, RowSet, RowsAre DEF ClaimRun
  <2>2. Moved(p) /\ Keeps(p) /\ proc'[p].pc = "start"
    BY <1>1, <1>2, GotoFacts DEF ClaimRun, Places, Working, Dispatching, OfSchedule
  <2> QED
    BY <1>1, <1>2, <2>1, <2>2 DEF ClaimRun
<1>3. CASE ~Claimable(proc[p].run)
  BY <1>1, <1>3, DoneFacts DEF ClaimRun
<1> QED
  BY <1>2, <1>3

LEMMA RunNowFacts ==
    ASSUME TypeOK, Shape, NEW w \in Workers, NEW m \in Manuals, RunNow(w, m)
    PROVE  /\ Moved(m) /\ proc[m].pc = "ready" /\ proc'[m].pc = "claim" /\ proc'[m].run = m
           /\ proc[m].run = None /\ Wrote(m, Row("queued")) /\ calls' = calls + 1
           /\ UNCHANGED <<now, job, turns, watch, edit, raced, crashes, faults, slow>>
<1> DEFINE r == [proc[m] EXCEPT !.pc = "claim", !.host = w, !.copy = CopyOf(job), !.run = m]
<1>1. m \in Procs /\ m \in Runs /\ m \notin Workers /\ m # None
  BY Names
<1>2. CopyOf(job) \in Copies
  BY CopyFacts DEF TypeOK
<1>3. r \in Progress /\ r.pc = "claim" /\ r.run = m /\ r.copy = CopyOf(job) /\ r.host = w
  BY <1>1, <1>2, ProcIs DEF Progress, Places
<1>4. proc' = [proc EXCEPT ![m] = r]
  BY DEF RunNow
<1> HIDE DEF r
<1>5. /\ proc' \in [Procs -> Progress] /\ proc'[m] = r
      /\ \A q \in Procs : q # m => proc'[q] = proc[q]
  BY <1>1, <1>3, <1>4, ProcSet
<1>6. Placed(m)'
  BY <1>1, <1>2, <1>3, <1>5 DEF Placed, Dispatching, Working, OfSchedule
<1>7. Wrote(m, Row("queued"))
  BY <1>1, RowSet, RowsAre DEF RunNow
<1>8. proc[m].pc = "ready" /\ proc[m].run = None
  BY <1>1 DEF RunNow, Shape, Placed, Dispatching, Working
<1> QED
  BY <1>3, <1>5, <1>6, <1>7, <1>8 DEF RunNow, Moved

LEMMA RefuseFacts ==
    ASSUME TypeOK, Shape, NEW p \in Procs, Refuse(p)
    PROVE  /\ Moved(p) /\ Keeps(p) /\ proc[p].pc = "start" /\ proc'[p].pc = "failing"
           /\ proc[p].run \in Runs
           /\ UNCHANGED <<now, rows, turns, watch, edit, raced, budget>>
<1>1. proc[p].pc = "start" /\ proc[p].run \in Runs /\ proc[p].copy \in Copies
  BY ProcIs DEF Refuse, Shape, Placed, Dispatching, Working
<1>2. Moved(p) /\ Keeps(p) /\ proc'[p].pc = "failing"
  BY <1>1, GotoFacts DEF Refuse, Places, Working, Dispatching, OfSchedule
<1> QED
  BY <1>1, <1>2 DEF Refuse

LEMMA PrepareTurnFacts ==
    ASSUME TypeOK, Shape, NEW p \in Procs, PrepareTurn(p)
    PROVE  /\ Moved(p) /\ Keeps(p) /\ proc[p].pc = "start" /\ proc'[p].pc = "mark"
           /\ proc[p].run \in Runs
           /\ turns' \in [Runs -> Seq({"running"} \cup Outcomes)]
           /\ turns'[proc[p].run] = Append(turns[proc[p].run], "running")
           /\ \A j \in Runs : j # proc[p].run => turns'[j] = turns[j]
           /\ UNCHANGED <<now, rows, watch, edit, raced, budget>>
<1>1. proc[p].pc = "start" /\ proc[p].run \in Runs /\ proc[p].copy \in Copies
  BY ProcIs DEF PrepareTurn, Shape, Placed, Dispatching, Working
<1>2. Moved(p) /\ Keeps(p) /\ proc'[p].pc = "mark"
  BY <1>1, GotoFacts DEF PrepareTurn, Places, Working, Dispatching, OfSchedule
<1>3. PICK k \in Runs : k = proc[p].run
  BY <1>1
<1>4. turns' = [turns EXCEPT ![k] = Append(turns[k], "running")]
  BY <1>3 DEF PrepareTurn
<1>5. Append(turns[k], "running") \in Seq({"running"} \cup Outcomes)
  BY RunIs, AppendProperties
<1>6. /\ turns' \in [Runs -> Seq({"running"} \cup Outcomes)]
      /\ turns'[k] = Append(turns[k], "running")
      /\ \A j \in Runs : j # k => turns'[j] = turns[j]
  BY <1>4, <1>5 DEF TypeOK
<1> QED
  BY <1>1, <1>2, <1>3, <1>6 DEF PrepareTurn

\* A dispatch ends with the release of the job, unless the run is a manual one.
Leaves(p) ==
    \/ Rests(p)
    \/ Keeps(p) /\ proc'[p].pc = "release" /\ proc[p].run \in Instants

LEMMA StartedFacts ==
    ASSUME TypeOK, Shape, NEW p \in Procs, Started(p), proc[p].pc \in {"mark", "failing"}
    PROVE  Moved(p) /\ Leaves(p) /\ proc[p].run \in Runs
<1>1. proc[p].run \in Runs /\ proc[p].copy \in Copies
  BY ProcIs DEF Shape, Placed, Dispatching, Working
<1>2. CASE proc[p].run \in Manuals
  BY <1>1, <1>2, DoneFacts DEF Started, Leaves
<1>3. CASE proc[p].run \notin Manuals
  <2>1. proc[p].run \in Instants /\ p \in Workers /\ p \notin Manuals
    BY <1>1, <1>3, Names DEF Shape, Placed
  <2>2. Moved(p) /\ Keeps(p) /\ proc'[p].pc = "release"
    BY <1>1, <1>3, <2>1, GotoFacts DEF Started, Places, Working, Dispatching, OfSchedule
  <2> QED
    BY <1>1, <2>1, <2>2 DEF Leaves
<1> QED
  BY <1>2, <1>3

LEMMA MarkStartedFacts ==
    ASSUME TypeOK, Shape, NEW p \in Procs, MarkStarted(p)
    PROVE  /\ Moved(p) /\ Leaves(p) /\ proc[p].pc = "mark" /\ proc[p].run \in Runs
           /\ Wrote(proc[p].run, Row("running"))
           /\ watch' = watch \cup {<<proc[p].host, proc[p].run, Len(turns[proc[p].run])>>}
           /\ UNCHANGED <<now, job, turns, edit, raced, budget>>
<1>1. proc[p].pc = "mark" /\ Started(p)
  BY DEF MarkStarted
<1>2. Moved(p) /\ Leaves(p) /\ proc[p].run \in Runs
  BY <1>1, StartedFacts
<1>3. Wrote(proc[p].run, Row("running"))
  BY <1>2, RowSet, RowsAre DEF MarkStarted
<1> QED
  BY <1>1, <1>2, <1>3 DEF MarkStarted

LEMMA FailBeforeStartFacts ==
    ASSUME TypeOK, Shape, NEW p \in Procs, FailBeforeStart(p)
    PROVE  /\ Moved(p) /\ Leaves(p) /\ proc[p].pc = "failing" /\ proc[p].run \in Runs
           /\ Wrote(proc[p].run, Row("failed"))
           /\ UNCHANGED <<now, job, turns, watch, edit, raced, budget>>
<1>1. proc[p].pc = "failing" /\ Started(p)
  BY DEF FailBeforeStart
<1>2. Moved(p) /\ Leaves(p) /\ proc[p].run \in Runs
  BY <1>1, StartedFacts
<1>3. Wrote(proc[p].run, Row("failed"))
  BY <1>2, RowSet, RowsAre DEF FailBeforeStart
<1> QED
  BY <1>1, <1>2, <1>3 DEF FailBeforeStart

\* The job is released in time, or not at all.
LEMMA ReleaseFacts ==
    ASSUME TypeOK, Shape, NEW p \in Procs, Release(p)
    PROVE  /\ Moved(p) /\ proc[p].pc = "release" /\ proc[p].run \in Instants /\ proc[p].copy \in Copies
           /\ \/ /\ Rests(p) /\ job.exists /\ job.due # None /\ job.due <= proc[p].run
                 /\ job' \in JobRows /\ job'.exists /\ job'.plan = job.plan
                 /\ job'.enabled <=> job'.due # None /\ proc[p].copy.enabled
                 /\ job'.due # None => /\ job'.due \in proc[p].copy.plan
                                       /\ job'.due > proc[p].run /\ job'.due > now
              \/ Keeps(p) /\ proc'[p].pc = "unlease" /\ job' = job
           /\ UNCHANGED <<now, run, turns, watch, edit, raced, budget>>
<1>1. /\ proc[p].pc = "release" /\ proc[p].run \in Instants /\ proc[p].copy \in Copies
      /\ p \in Workers /\ p \notin Manuals
  BY ProcIs, Names DEF Release, Shape, Placed, Dispatching, Working, OfSchedule, Procs
<1>2. CASE job.exists /\ job.due # None /\ job.due <= proc[p].run
  <2> DEFINE after == Larger(proc[p].run, now)
             next == NextRunAt(proc[p].copy.plan, after)
  <2>1. after \in Int /\ after >= proc[p].run /\ after >= now
    BY <1>1, NamesAssumption DEF Larger, TypeOK, Instants
  <2>2. proc[p].copy.plan \in Plans /\ proc[p].copy.plan \in SUBSET Nat /\ proc[p].copy.enabled \in BOOLEAN
    BY <1>1, NamesAssumption DEF Copies
  <2> HIDE DEF after
  <2>3. next = None \/ (next \in proc[p].copy.plan /\ next > after)
    BY <2>1, <2>2, NextTime
  <2>4. next = None \/ (next \in (UNION Plans) /\ next \in Nat)
    BY <2>2, <2>3
  <2> HIDE DEF next
  <2>5. Done(p) /\ job' = [job EXCEPT !.due = next, !.owner = None, !.live = FALSE,
                                      !.enabled = next # None /\ proc[p].copy.enabled]
    BY <1>2 DEF Release, next, after
  <2>6. /\ job' \in JobRows /\ job'.exists /\ job'.plan = job.plan /\ job'.due = next
        /\ job'.enabled = (next # None /\ proc[p].copy.enabled)
    BY <1>2, <2>2, <2>4, <2>5 DEF TypeOK, JobRows
  <2>7. next # None => next > proc[p].run /\ next > now
    BY <1>1, <2>1, <2>3, <2>4, NamesAssumption DEF TypeOK, Instants
  <2>8. Moved(p) /\ Rests(p)
    BY <2>5, DoneFacts
  <2> QED
    BY <1>1, <1>2, <2>3, <2>6, <2>7, <2>8 DEF Release
<1>3. CASE ~(job.exists /\ job.due # None /\ job.due <= proc[p].run)
  <2>1. Moved(p) /\ Keeps(p) /\ proc'[p].pc = "unlease"
    BY <1>1, <1>3, GotoFacts DEF Release, Places, Working, Dispatching, OfSchedule
  <2> QED
    BY <1>1, <1>3, <2>1 DEF Release
<1> QED
  BY <1>2, <1>3

LEMMA UnleaseFacts ==
    ASSUME TypeOK, Shape, NEW p \in Procs, Unlease(p)
    PROVE  /\ Moved(p) /\ Rests(p)
           /\ job' \in JobRows /\ job'.exists = job.exists /\ job'.plan = job.plan
           /\ job'.enabled = job.enabled /\ job'.due = job.due
           /\ UNCHANGED <<now, run, turns, watch, edit, raced, budget>>
BY DoneFacts DEF Unlease, TypeOK, JobRows

LEMMA TurnEndsFacts ==
    ASSUME TypeOK, NEW k \in Runs, NEW i \in DOMAIN turns[k], TurnEnds(k, i)
    PROVE  /\ turns' \in [Runs -> Seq({"running"} \cup Outcomes)]
           /\ turns[k][i] = "running" /\ Len(turns'[k]) = Len(turns[k])
           /\ \A j \in DOMAIN turns[k] : j # i => turns'[k][j] = turns[k][j]
           /\ \A j \in Runs : j # k => turns'[j] = turns[j]
           /\ UNCHANGED <<now, rows, watch, proc, edit, raced, budget>>
<1>1. PICK o \in Outcomes : turns' = [turns EXCEPT ![k][i] = o]
  BY DEF TurnEnds
<1>2. PICK q : q = [turns[k] EXCEPT ![i] = o]
  OBVIOUS
<1>3. turns[k] \in Seq({"running"} \cup Outcomes)
  BY RunIs
<1>4. /\ q \in Seq({"running"} \cup Outcomes) /\ Len(q) = Len(turns[k])
      /\ \A j \in DOMAIN turns[k] : j # i => q[j] = turns[k][j]
  BY <1>2, <1>3, ExceptSeq
<1>5. turns' = [turns EXCEPT ![k] = q]
  BY <1>1, <1>2
<1>6. /\ turns' \in [Runs -> Seq({"running"} \cup Outcomes)] /\ turns'[k] = q
      /\ \A j \in Runs : j # k => turns'[j] = turns[j]
  BY <1>4, <1>5 DEF TypeOK
<1> QED
  BY <1>4, <1>6 DEF TurnEnds

LEMMA ObserveFacts ==
    ASSUME TypeOK, Handed, NEW k \in Runs, NEW i \in DOMAIN turns[k], NEW w \in Workers, Observe(w, k, i)
    PROVE  /\ turns[k][i] \in Outcomes /\ turns[k][i] # "running"
           /\ Wrote(k, Row(turns[k][i])) /\ <<w, k, i>> \in watch /\ watch' = watch \ {<<w, k, i>>}
           /\ UNCHANGED <<now, job, turns, proc, edit, raced, budget>>
<1>1. turns[k][i] \in {"running"} \cup Outcomes
  BY RunIs
<1>2. turns[k][i] \in Outcomes
  BY <1>1 DEF Observe
<1>3. Wrote(k, Row(turns[k][i]))
  BY <1>2, RowSet, RowsAre, Names DEF Observe
<1> QED
  BY <1>2, <1>3 DEF Observe

LEMMA RunLeaseFacts ==
    ASSUME TypeOK, NEW k \in Runs, RunLeaseLapses(k)
    PROVE  /\ run' \in [Runs -> RunRows] /\ run[k].live
           /\ run'[k].status = run[k].status /\ ~run'[k].live
           /\ \A j \in Runs : j # k => run'[j] = run[j]
           /\ \/ ~AtWorkOnRun(k) /\ slow' = slow
              \/ AtWorkOnRun(k) /\ slow' = slow + 1
           /\ UNCHANGED <<now, job, turns, watch, proc, edit, raced, calls, crashes, faults>>
<1>1. PICK row : row = [run[k] EXCEPT !.live = FALSE]
  OBVIOUS
<1>2. row \in RunRows /\ row.status = run[k].status /\ ~row.live
  BY <1>1 DEF TypeOK, RunRows
<1>3. run' = [run EXCEPT ![k] = row]
  BY <1>1 DEF RunLeaseLapses
<1>4. Wrote(k, row)
  BY <1>2, <1>3, RowSet
<1> QED
  BY <1>2, <1>4 DEF RunLeaseLapses, Late, Wrote

LEMMA JobLeaseFacts ==
    ASSUME TypeOK, JobLeaseLapses
    PROVE  /\ job' \in JobRows /\ job'.exists = job.exists /\ job'.plan = job.plan
           /\ job'.enabled = job.enabled /\ job'.due = job.due
           /\ slow' = slow \/ slow' = slow + 1
           /\ UNCHANGED <<now, run, turns, watch, proc, edit, raced, calls, crashes, faults>>
BY DEF JobLeaseLapses, Late, TypeOK, JobRows

LEMMA OperationRaisesFacts ==
    ASSUME TypeOK, Shape, NEW p \in Procs, OperationRaises(p)
    PROVE  /\ Moved(p) /\ faults' = faults + 1
           /\ \/ /\ Keeps(p) /\ proc[p].pc = "mark" /\ proc'[p].pc = "failing" /\ proc[p].run \in Runs
                 /\ run' = run \/ Wrote(proc[p].run, Row("running"))
              \/ Rests(p) /\ proc[p].pc # "mark" /\ proc[p].pc \notin {"ready", "gone"} /\ run' = run
           /\ UNCHANGED <<now, job, turns, watch, edit, raced, calls, crashes, slow>>
<1>0. faults' = faults + 1 /\ UNCHANGED <<now, job, turns, watch, edit, raced, calls, crashes, slow>>
  BY DEF OperationRaises
<1>1. CASE /\ proc[p].pc = "mark" /\ Goto(p, "failing")
           /\ run' \in {run, [run EXCEPT ![proc[p].run] = Row("running")]}
  <2>1. proc[p].run \in Runs /\ proc[p].copy \in Copies
    BY <1>1, ProcIs DEF Shape, Placed, Dispatching, Working
  <2>2. Moved(p) /\ Keeps(p) /\ proc'[p].pc = "failing"
    BY <1>1, <2>1, GotoFacts DEF Places, Working, Dispatching, OfSchedule
  <2>3. run' = run \/ Wrote(proc[p].run, Row("running"))
    BY <1>1, <2>1, RowSet, RowsAre
  <2> QED
    BY <1>0, <1>1, <2>1, <2>2, <2>3
<1>2. CASE /\ proc[p].pc \notin {"ready", "gone", "mark"} /\ UNCHANGED run
           /\ proc' = [proc EXCEPT ![p] = IF p \in Manuals THEN Gone ELSE Resting(p)]
  <2>1. CASE p \in Manuals
    <3>1. Moved(p) /\ Rests(p)
      BY <1>2, <2>1, GoneFacts, RestFacts
    <3> QED
      BY <1>0, <1>2, <3>1
  <2>2. CASE p \in Workers
    <3>1. Moved(p) /\ Rests(p)
      BY <1>2, <2>2, Names, RestingRests
    <3> QED
      BY <1>0, <1>2, <3>1
  <2> QED
    BY <2>1, <2>2 DEF Procs
<1> QED
  BY <1>1, <1>2 DEF OperationRaises

\* Everything that runs in the process w is gone.
LEMMA CrashFacts ==
    ASSUME TypeOK, Shape, NEW w \in Workers, Crash(w)
    PROVE  /\ proc' \in [Procs -> Progress]
           /\ \A p \in Procs : \/ proc'[p] = proc[p]
                               \/ Placed(p)' /\ proc'[p].run = None /\ proc'[p].pc \in {"recover", "gone"}
           /\ watch' \subseteq watch /\ crashes' = crashes + 1
           /\ UNCHANGED <<now, rows, turns, edit, raced, calls, faults, slow>>
<1>1. proc' = [p \in Procs |-> IF proc[p].host # w THEN proc[p]
                               ELSE IF p \in Workers THEN Resting(p) ELSE Gone]
  BY DEF Crash
<1>2. ASSUME NEW p \in Procs
      PROVE  /\ proc'[p] \in Progress
             /\ \/ proc'[p] = proc[p]
                \/ Placed(p)' /\ proc'[p].run = None /\ proc'[p].pc \in {"recover", "gone"}
  <2>1. CASE proc[p].host # w
    BY <1>1, <2>1, ProcIs
  <2>2. CASE proc[p].host = w /\ p \in Workers
    <3>1. proc'[p] = Resting(p) /\ p \notin Manuals
      BY <1>1, <2>2, Names
    <3> QED
      BY <2>2, <3>1, RestingFacts DEF Placed, Dispatching, Working, OfSchedule
  <2>3. CASE proc[p].host = w /\ p \notin Workers
    <3>1. proc'[p] = Gone
      BY <1>1, <2>3
    <3> QED
      BY <2>3, <3>1, GoneFacts DEF Placed, Dispatching, Working, OfSchedule
  <2> QED
    BY <2>1, <2>2, <2>3
<1>3. proc' \in [Procs -> Progress]
  <2>1. \A p \in Procs : (IF proc[p].host # w THEN proc[p]
                          ELSE IF p \in Workers THEN Resting(p) ELSE Gone) \in Progress
    BY <1>1, <1>2
  <2> QED
    BY <1>1, <2>1
<1> QED
  BY <1>2, <1>3 DEF Crash

LEMMA EditWriteFacts ==
    ASSUME TypeOK, EditWrite
    PROVE  /\ edit # None /\ edit' = None /\ job' \in JobRows /\ job'.exists = job.exists
           /\ raced' \in BOOLEAN /\ (raced => raced')
           /\ \/ job' = job
              \/ /\ job'.enabled <=> job'.due # None
                 /\ job'.due # None => /\ job'.due \in job'.plan /\ job'.due \in Nat /\ job'.due >= now
                                       /\ job'.due <= now => raced'
              \/ /\ job'.plan = edit /\ job'.due = job.due /\ job'.enabled = job.enabled
                 /\ raced' = raced
           /\ UNCHANGED <<now, run, turns, watch, proc, budget>>
<1>1. edit \in Plans /\ edit # None
  BY DEF EditWrite, TypeOK
<1>2. ASSUME NEW plan \in Plans, NEW enabled \in BOOLEAN, Reschedule(plan, enabled)
      PROVE  /\ job' \in JobRows /\ job'.exists = job.exists /\ raced' \in BOOLEAN /\ (raced => raced')
             /\ \/ job' = job
                \/ /\ job'.enabled <=> job'.due # None
                   /\ job'.due # None => /\ job'.due \in job'.plan /\ job'.due \in Nat /\ job'.due >= now
                                         /\ job'.due <= now => raced'
  <2>0. PICK next : /\ next = IF enabled THEN NextRunAt(plan, now - 1) ELSE None
                    /\ IF enabled /\ next = None THEN UNCHANGED <<job, raced>>
                       ELSE /\ job' = [job EXCEPT !.plan = plan, !.enabled = enabled, !.due = next]
                            /\ raced' = (raced \/ (next # None /\ next <= now))
    BY <1>2, Zenon DEF Reschedule
  <2>1. plan \in SUBSET Nat /\ now - 1 \in Int /\ now \in Nat
    BY NamesAssumption DEF TypeOK, Instants
  <2>2. /\ next = None \/ (next \in plan /\ next > now - 1)
        /\ ~enabled => next = None
    BY <2>0, <2>1, NextTime
  <2>3. next # None => next \in Nat /\ next >= now /\ next \in (UNION Plans)
    <3>1. next # None => next \in Nat
      BY <2>1, <2>2
    <3>2. next # None => next \in (UNION Plans)
      BY <2>2
    <3>3. next # None => next >= now
      BY <2>1, <2>2, <3>1
    <3> QED
      BY <3>1, <3>2, <3>3
  <2>4. CASE enabled /\ next = None
    BY <2>0, <2>4 DEF TypeOK
  <2>5. CASE ~(enabled /\ next = None)
    <3>1. /\ job' = [job EXCEPT !.plan = plan, !.enabled = enabled, !.due = next]
          /\ raced' = (raced \/ (next # None /\ next <= now))
      BY <2>0, <2>5
    <3>2. job' \in JobRows /\ job'.exists = job.exists /\ job'.plan = plan /\ job'.enabled = enabled /\ job'.due = next
      BY <2>3, <3>1 DEF TypeOK, JobRows
    <3>3. raced' \in BOOLEAN /\ (raced => raced')
      BY <3>1 DEF TypeOK
    <3> QED
      BY <2>2, <2>3, <2>5, <3>1, <3>2, <3>3
  <2> QED
    BY <2>4, <2>5
<1>3. CASE job.exists /\ \E plan \in Plans, enabled \in BOOLEAN : Reschedule(plan, enabled)
  BY <1>1, <1>2, <1>3 DEF EditWrite
<1>4. CASE job.exists /\ \E enabled \in BOOLEAN : Reschedule(edit, enabled)
  BY <1>1, <1>2, <1>4 DEF EditWrite
<1>5. CASE job' = [job EXCEPT !.plan = edit] /\ UNCHANGED raced
  BY <1>1, <1>5 DEF EditWrite, TypeOK, JobRows
<1>6. CASE UNCHANGED <<job, raced>>
  BY <1>1, <1>6 DEF EditWrite, TypeOK
<1> QED
  BY <1>3, <1>4, <1>5, <1>6 DEF EditWrite

------------------------------------------------------------------------------
(* Types, and where the processes may stand.                               *)

LEMMA ShapeMoves ==
    ASSUME Shape, NEW p \in Procs, Moved(p)
    PROVE  Shape'
BY DEF Shape, Placed, Moved

LEMMA ShapeRests ==
    ASSUME Shape, UNCHANGED proc
    PROVE  Shape'
BY DEF Shape, Placed

LEMMA TypeNext ==
    ASSUME TypeOK, Shape, Handed, Next
    PROVE  TypeOK' /\ Shape'
<1> DEFINE Good == TypeOK' /\ Shape'
<1>1. ASSUME NEW w \in Workers, LoopStep(w) PROVE Good
  <2>0. w \in Procs
    BY Names
  <2>1. ASSUME NEW k \in Runs, TakePending(w, k) PROVE Good
    BY <2>0, <2>1, TakePendingFacts, ShapeMoves DEF TypeOK, Moved, Wrote, budget
  <2>2. CASE NothingPending(w)
    BY <2>0, <2>2, NothingPendingFacts, ShapeMoves DEF TypeOK, Moved, rows, budget
  <2>3. CASE FetchJob(w)
    BY <2>0, <2>3, FetchJobFacts, ShapeMoves DEF TypeOK, Moved, rows, budget
  <2>4. CASE FailPendingRun(w)
    BY <2>0, <2>4, FailPendingRunFacts, ShapeMoves DEF TypeOK, Moved, Wrote, budget
  <2>5. CASE ClaimDueJob(w)
    BY <2>0, <2>5, ClaimDueJobFacts, ShapeMoves DEF TypeOK, Moved, budget
  <2>6. CASE NothingDue(w)
    BY <2>0, <2>6, NothingDueFacts, ShapeMoves DEF TypeOK, Moved, rows, budget
  <2>7. CASE CreateRun(w)
    BY <2>0, <2>7, CreateRunFacts, ShapeMoves DEF TypeOK, Moved, Wrote, budget
  <2>8. CASE CheckExisting(w)
    BY <2>0, <2>8, CheckExistingFacts, ShapeMoves DEF TypeOK, Moved, rows, budget
  <2> QED
    BY <1>1, <2>1, <2>2, <2>3, <2>4, <2>5, <2>6, <2>7, <2>8 DEF LoopStep
<1>2. ASSUME NEW p \in Procs, DispatchStep(p) PROVE Good
  <2>1. CASE ClaimRun(p)
    BY <2>1, ClaimRunFacts, ShapeMoves DEF TypeOK, Moved, Wrote, budget
  <2>2. CASE Refuse(p)
    BY <2>2, RefuseFacts, ShapeMoves DEF TypeOK, Moved, rows, budget
  <2>3. CASE PrepareTurn(p)
    BY <2>3, PrepareTurnFacts, ShapeMoves DEF TypeOK, Moved, rows, budget
  <2>4. CASE MarkStarted(p)
    <3>1. /\ Moved(p) /\ Shape' /\ Wrote(proc[p].run, Row("running")) /\ proc[p].run \in Runs
          /\ watch' = watch \cup {<<proc[p].host, proc[p].run, Len(turns[proc[p].run])>>}
          /\ UNCHANGED <<now, job, turns, edit, raced, budget>>
      BY <2>4, MarkStartedFacts, ShapeMoves
    <3>2. proc[p].host \in Workers /\ Len(turns[proc[p].run]) \in Nat
      BY <2>4, <3>1, RunIs, LenProperties DEF MarkStarted, Shape, Placed, Dispatching, Working
    <3> QED
      BY <3>1, <3>2 DEF TypeOK, Moved, Wrote, budget
  <2>5. CASE FailBeforeStart(p)
    BY <2>5, FailBeforeStartFacts, ShapeMoves DEF TypeOK, Moved, Wrote, budget
  <2>6. CASE Release(p)
    BY <2>6, ReleaseFacts, ShapeMoves DEF TypeOK, Moved, budget
  <2>7. CASE Unlease(p)
    BY <2>7, UnleaseFacts, ShapeMoves DEF TypeOK, Moved, budget
  <2> QED
    BY <1>2, <2>1, <2>2, <2>3, <2>4, <2>5, <2>6, <2>7 DEF DispatchStep
<1>3. ASSUME NEW p \in Procs, OperationRaises(p) PROVE Good
  BY <1>3, OperationRaisesFacts, ShapeMoves DEF TypeOK, Moved, Wrote
<1>4. ASSUME NEW w \in Workers, Crash(w) PROVE Good
  <2>1. Shape'
    BY <1>4, CrashFacts DEF Shape, Placed
  <2> QED
    BY <1>4, <2>1, CrashFacts DEF TypeOK, rows
<1>5. ASSUME NEW w \in Workers, NEW m \in Manuals, RunNow(w, m) PROVE Good
  <2>1. /\ m \in Procs /\ Moved(m) /\ Wrote(m, Row("queued")) /\ calls' = calls + 1
        /\ UNCHANGED <<now, job, turns, watch, edit, raced, crashes, faults, slow>>
    BY <1>5, Names, RunNowFacts
  <2>2. Shape'
    BY <2>1, ShapeMoves
  <2> QED
    BY <2>1, <2>2 DEF TypeOK, Moved, Wrote
<1>6. ASSUME NEW k \in Runs, TurnStep(k) PROVE Good
  <2>1. PICK i \in DOMAIN turns[k] : TurnEnds(k, i) \/ \E w \in Workers : Observe(w, k, i)
    BY <1>6 DEF TurnStep
  <2>2. CASE TurnEnds(k, i)
    <3>1. /\ turns' \in [Runs -> Seq({"running"} \cup Outcomes)]
          /\ UNCHANGED <<now, rows, watch, proc, edit, raced, budget>>
      BY <2>2, TurnEndsFacts
    <3> QED
      BY <3>1, ShapeRests DEF TypeOK, rows, budget
  <2>3. ASSUME NEW w \in Workers, Observe(w, k, i) PROVE Good
    <3>1. /\ run' \in [Runs -> RunRows] /\ watch' \subseteq watch
          /\ UNCHANGED <<now, job, turns, proc, edit, raced, budget>>
      BY <2>3, ObserveFacts DEF Wrote
    <3> QED
      BY <3>1, ShapeRests DEF TypeOK, budget
  <2> QED
    BY <2>1, <2>2, <2>3
<1>7. CASE EditRead
  BY <1>7 DEF EditRead, TypeOK, JobRows, Shape, Placed, rows
<1>8. CASE EditWrite
  BY <1>8, EditWriteFacts DEF TypeOK, Shape, Placed, budget
<1>9. CASE DeleteJob
  BY <1>9 DEF DeleteJob, TypeOK, JobRows, Shape, Placed, budget
<1>10. CASE Tick
  BY <1>10, NamesAssumption DEF Tick, TypeOK, Instants, Shape, Placed, rows, budget
<1>11. CASE JobLeaseLapses
  BY <1>11, JobLeaseFacts DEF TypeOK, Shape, Placed
<1>12. ASSUME NEW k \in Runs, RunLeaseLapses(k) PROVE Good
  <2>1. /\ run' \in [Runs -> RunRows] /\ slow' \in {slow, slow + 1}
        /\ UNCHANGED <<now, job, turns, watch, proc, edit, raced, calls, crashes, faults>>
    BY <1>12, RunLeaseFacts
  <2> QED
    BY <2>1, ShapeRests DEF TypeOK
<1> QED
  BY <1>1, <1>2, <1>3, <1>4, <1>5, <1>6, <1>7, <1>8, <1>9, <1>10, <1>11, <1>12 DEF Next, Lapse

LEMMA KnownNext ==
    ASSUME TypeOK, Shape, Known, Handed, Next
    PROVE  Known'
<1>1. ASSUME NEW w \in Workers, LoopStep(w) PROVE Known'
  <2>0. w \in Procs
    BY Names
  <2>1. ASSUME NEW k \in Runs, TakePending(w, k) PROVE Known'
    <3>1. /\ Moved(w) /\ proc'[w].pc = "fetch" /\ proc'[w].run = k
          /\ run[k].status \in Pending /\ Wrote(k, Claimed) /\ turns' = turns
      BY <2>1, TakePendingFacts DEF Claimable
    <3>2. /\ run'[k].status = "dispatching" /\ run[k].status # "absent"
          /\ \A j \in Runs : j # k => run'[j] = run[j]
      BY <3>1, RowsAre, Names DEF Wrote
    <3>3. \A p \in Procs : proc'[p].pc = "ready" => proc[p].pc = "ready"
      BY <3>1 DEF Moved
    <3>4. \A p \in Procs : \A j \in Runs : j # k /\ proc'[p].run = j => proc'[p] = proc[p]
      BY <3>1 DEF Moved
    <3> QED
      BY <3>1, <3>2, <3>3, <3>4, RowsAre, Names DEF Known
  <2>2. CASE NothingPending(w)
    BY <2>0, <2>2, NothingPendingFacts, RowsAre, Names DEF rows, Known, Moved, Keeps, Rests, Wrote
  <2>3. CASE FetchJob(w)
    BY <2>0, <2>3, FetchJobFacts, RowsAre, Names DEF rows, Known, Moved, Keeps, Rests, Wrote
  <2>4. CASE FailPendingRun(w)
    BY <2>0, <2>4, FailPendingRunFacts, RowsAre, Names DEF Known, Moved, Keeps, Rests, Wrote
  <2>5. CASE ClaimDueJob(w)
    BY <2>0, <2>5, ClaimDueJobFacts, RowsAre, Names DEF Known, Moved, Keeps, Rests, Wrote
  <2>6. CASE NothingDue(w)
    BY <2>0, <2>6, NothingDueFacts, RowsAre, Names DEF rows, Known, Moved, Keeps, Rests, Wrote
  <2>7. CASE CreateRun(w)
    BY <2>0, <2>7, CreateRunFacts, RowsAre, Names DEF Known, Moved, Keeps, Rests, Wrote
  <2>8. CASE CheckExisting(w)
    BY <2>0, <2>8, CheckExistingFacts, RowsAre, Names DEF rows, Known, Moved, Keeps, Rests, Wrote
  <2> QED
    BY <1>1, <2>1, <2>2, <2>3, <2>4, <2>5, <2>6, <2>7, <2>8 DEF LoopStep
<1>2. ASSUME NEW p \in Procs, DispatchStep(p) PROVE Known'
  <2>1. CASE ClaimRun(p)
    BY <2>1, ClaimRunFacts, RowsAre, Names DEF Known, Moved, Keeps, Rests, Wrote
  <2>2. CASE Refuse(p)
    BY <2>2, RefuseFacts, RowsAre, Names DEF rows, Known, Moved, Keeps, Rests, Wrote
  <2>3. CASE PrepareTurn(p)
    <3>1. /\ Moved(p) /\ Keeps(p) /\ proc[p].pc = "start" /\ proc'[p].pc = "mark" /\ proc[p].run \in Runs
          /\ \A j \in Runs : j # proc[p].run => turns'[j] = turns[j]
          /\ run' = run
      BY <2>3, PrepareTurnFacts DEF rows
    <3>2. run[proc[p].run].status # "absent"
      BY <3>1 DEF Known
    <3>3. \A q \in Procs : /\ proc'[q].run = proc[q].run
                           /\ proc[q].pc = "create" => proc'[q].pc = "create"
                           /\ proc'[q].pc = "ready" => proc[q].pc = "ready"
      BY <3>1 DEF Moved, Keeps
    <3>4. \A k \in Runs : run[k].status = "absent" => turns'[k] = << >>
      BY <3>1, <3>2 DEF Known
    <3> QED
      <4> SUFFICES ASSUME NEW k \in Runs
                   PROVE  /\ run[k].live => run[k].status = "dispatching"
                          /\ run[k].status = "absent" =>
                               \A q \in Procs : proc'[q].run = k => proc'[q].pc = "create"
                          /\ k \in Manuals /\ proc'[k].pc = "ready" => run[k].status = "absent"
        BY <3>1, <3>4 DEF Known
      <4> QED
        BY <3>3, Names DEF Known
  <2>4. CASE MarkStarted(p)
    BY <2>4, MarkStartedFacts, RowsAre, Names DEF Leaves, Known, Moved, Keeps, Rests, Wrote
  <2>5. CASE FailBeforeStart(p)
    BY <2>5, FailBeforeStartFacts, RowsAre, Names DEF Leaves, Known, Moved, Keeps, Rests, Wrote
  <2>6. CASE Release(p)
    BY <2>6, ReleaseFacts, RowsAre, Names DEF Known, Moved, Keeps, Rests, Wrote
  <2>7. CASE Unlease(p)
    BY <2>7, UnleaseFacts, RowsAre, Names DEF Known, Moved, Keeps, Rests, Wrote
  <2> QED
    BY <1>2, <2>1, <2>2, <2>3, <2>4, <2>5, <2>6, <2>7 DEF DispatchStep
<1>3. ASSUME NEW p \in Procs, OperationRaises(p) PROVE Known'
  BY <1>3, OperationRaisesFacts, RowsAre, Names DEF Known, Moved, Keeps, Rests, Wrote
<1>4. ASSUME NEW w \in Workers, Crash(w) PROVE Known'
  BY <1>4, CrashFacts, RowsAre, Names DEF rows, Known, Moved, Keeps, Rests, Wrote
<1>5. ASSUME NEW w \in Workers, NEW m \in Manuals, RunNow(w, m) PROVE Known'
  BY <1>5, Names, RunNowFacts, RowsAre, Names DEF Known, Moved, Keeps, Rests, Wrote
<1>6. ASSUME NEW k \in Runs, TurnStep(k) PROVE Known'
  <2>1. PICK i \in DOMAIN turns[k] : TurnEnds(k, i) \/ \E w \in Workers : Observe(w, k, i)
    BY <1>6 DEF TurnStep
  <2>2. CASE TurnEnds(k, i)
    BY <2>2, TurnEndsFacts, RowsAre, Names DEF rows, Known, Moved, Keeps, Rests, Wrote
  <2>3. ASSUME NEW w \in Workers, Observe(w, k, i) PROVE Known'
    <3>1. /\ Wrote(k, Row(turns[k][i])) /\ turns[k][i] \in Settled /\ run[k].status \in Settled
          /\ UNCHANGED <<turns, proc>>
      <4>1. <<w, k, i>> \in watch /\ turns[k][i] \in Outcomes /\ Wrote(k, Row(turns[k][i]))
            /\ UNCHANGED <<turns, proc>>
        BY <2>3, ObserveFacts
      <4>2. run[k].status \in Settled
        BY <4>1 DEF Handed
      <4> QED
        BY <4>1, <4>2, Names
    <3>2. run'[k].status \in Settled /\ ~run'[k].live
      BY <3>1, RowsAre DEF Wrote
    <3>3. k \in Manuals => proc[k].pc # "ready"
      BY <3>1, Names DEF Known
    <3> QED
      BY <3>1, <3>2, <3>3, Names DEF Known, Wrote
  <2> QED
    BY <2>1, <2>2, <2>3
<1>7. CASE EditRead
  BY <1>7, RowsAre, Names DEF EditRead, rows, Known, Moved, Keeps, Rests, Wrote
<1>8. CASE EditWrite
  BY <1>8, EditWriteFacts, RowsAre, Names DEF Known, Moved, Keeps, Rests, Wrote
<1>9. CASE DeleteJob
  BY <1>9, RowsAre, Names DEF DeleteJob, Known, Moved, Keeps, Rests, Wrote
<1>10. CASE Tick
  BY <1>10, RowsAre, Names DEF Tick, rows, Known, Moved, Keeps, Rests, Wrote
<1>11. CASE JobLeaseLapses
  BY <1>11, JobLeaseFacts, RowsAre, Names DEF Known, Moved, Keeps, Rests, Wrote
<1>12. ASSUME NEW k \in Runs, RunLeaseLapses(k) PROVE Known'
  BY <1>12, RunLeaseFacts, RowsAre, Names DEF Known, Moved, Keeps, Rests, Wrote
<1> QED
  BY <1>1, <1>2, <1>3, <1>4, <1>5, <1>6, <1>7, <1>8, <1>9, <1>10, <1>11, <1>12 DEF Next, Lapse

(* A run that has left the pending states does not come back to them.       *)
Stays == \A k \in Runs : run[k].status \in Settled => run'[k].status \in Settled

LEMMA SettledStays ==
    ASSUME TypeOK, Shape, Known, Handed, Next
    PROVE  Stays
<1>1. ASSUME NEW w \in Workers, LoopStep(w) PROVE Stays
  <2>0. w \in Procs
    BY Names
  <2>1. ASSUME NEW k \in Runs, TakePending(w, k) PROVE Stays
    BY <2>0, <2>1, TakePendingFacts, RowsAre, Names DEF Stays, Wrote, Claimable
  <2>2. CASE NothingPending(w)
    BY <2>0, <2>2, NothingPendingFacts, RowsAre, Names DEF rows, Stays, Wrote, Claimable
  <2>3. CASE FetchJob(w)
    BY <2>0, <2>3, FetchJobFacts, RowsAre, Names DEF rows, Stays, Wrote, Claimable
  <2>4. CASE FailPendingRun(w)
    BY <2>0, <2>4, FailPendingRunFacts, RowsAre, Names DEF Stays, Wrote, Claimable
  <2>5. CASE ClaimDueJob(w)
    BY <2>0, <2>5, ClaimDueJobFacts, RowsAre, Names DEF Stays, Wrote, Claimable
  <2>6. CASE NothingDue(w)
    BY <2>0, <2>6, NothingDueFacts, RowsAre, Names DEF rows, Stays, Wrote, Claimable
  <2>7. CASE CreateRun(w)
    BY <2>0, <2>7, CreateRunFacts, RowsAre, Names DEF Stays, Wrote, Claimable
  <2>8. CASE CheckExisting(w)
    BY <2>0, <2>8, CheckExistingFacts, RowsAre, Names DEF rows, Stays, Wrote, Claimable
  <2> QED
    BY <1>1, <2>1, <2>2, <2>3, <2>4, <2>5, <2>6, <2>7, <2>8 DEF LoopStep
<1>2. ASSUME NEW p \in Procs, DispatchStep(p) PROVE Stays
  <2>1. CASE ClaimRun(p)
    BY <2>1, ClaimRunFacts, RowsAre, Names DEF Stays, Wrote, Claimable
  <2>2. CASE Refuse(p)
    BY <2>2, RefuseFacts, RowsAre, Names DEF rows, Stays, Wrote, Claimable
  <2>3. CASE PrepareTurn(p)
    BY <2>3, PrepareTurnFacts, RowsAre, Names DEF rows, Stays, Wrote, Claimable
  <2>4. CASE MarkStarted(p)
    BY <2>4, MarkStartedFacts, RowsAre, Names DEF Leaves, Stays, Wrote, Claimable
  <2>5. CASE FailBeforeStart(p)
    BY <2>5, FailBeforeStartFacts, RowsAre, Names DEF Leaves, Stays, Wrote, Claimable
  <2>6. CASE Release(p)
    BY <2>6, ReleaseFacts, RowsAre, Names DEF Stays, Wrote, Claimable
  <2>7. CASE Unlease(p)
    BY <2>7, UnleaseFacts, RowsAre, Names DEF Stays, Wrote, Claimable
  <2> QED
    BY <1>2, <2>1, <2>2, <2>3, <2>4, <2>5, <2>6, <2>7 DEF DispatchStep
<1>3. ASSUME NEW p \in Procs, OperationRaises(p) PROVE Stays
  BY <1>3, OperationRaisesFacts, RowsAre, Names DEF Stays, Wrote, Claimable
<1>4. ASSUME NEW w \in Workers, Crash(w) PROVE Stays
  BY <1>4, CrashFacts, RowsAre, Names DEF rows, Stays, Wrote, Claimable
<1>5. ASSUME NEW w \in Workers, NEW m \in Manuals, RunNow(w, m) PROVE Stays
  <2>1. proc[m].pc = "ready" /\ Wrote(m, Row("queued")) /\ m \in Runs
    BY <1>5, RunNowFacts, Names
  <2>2. run[m].status = "absent"
    BY <2>1 DEF Known
  <2> QED
    BY <2>1, <2>2, Names DEF Stays, Wrote
<1>6. ASSUME NEW k \in Runs, TurnStep(k) PROVE Stays
  <2>1. PICK i \in DOMAIN turns[k] : TurnEnds(k, i) \/ \E w \in Workers : Observe(w, k, i)
    BY <1>6 DEF TurnStep
  <2>2. CASE TurnEnds(k, i)
    BY <2>2, TurnEndsFacts, RowsAre, Names DEF rows, Stays, Wrote, Claimable
  <2>3. ASSUME NEW w \in Workers, Observe(w, k, i) PROVE Stays
    <3>1. turns[k][i] \in Outcomes /\ Wrote(k, Row(turns[k][i]))
      BY <2>3, ObserveFacts
    <3>2. run'[k].status \in Settled
      BY <3>1, RowsAre, Names DEF Wrote
    <3> QED
      BY <3>1, <3>2 DEF Stays, Wrote
  <2> QED
    BY <2>1, <2>2, <2>3
<1>7. CASE EditRead
  BY <1>7, RowsAre, Names DEF EditRead, rows, Stays, Wrote, Claimable
<1>8. CASE EditWrite
  BY <1>8, EditWriteFacts, RowsAre, Names DEF Stays, Wrote, Claimable
<1>9. CASE DeleteJob
  BY <1>9, RowsAre, Names DEF DeleteJob, Stays, Wrote, Claimable
<1>10. CASE Tick
  BY <1>10, RowsAre, Names DEF Tick, rows, Stays, Wrote, Claimable
<1>11. CASE JobLeaseLapses
  BY <1>11, JobLeaseFacts, RowsAre, Names DEF Stays, Wrote, Claimable
<1>12. ASSUME NEW k \in Runs, RunLeaseLapses(k) PROVE Stays
  BY <1>12, RunLeaseFacts, RowsAre, Names DEF Stays, Wrote, Claimable
<1> QED
  BY <1>1, <1>2, <1>3, <1>4, <1>5, <1>6, <1>7, <1>8, <1>9, <1>10, <1>11, <1>12 DEF Next, Lapse

(* What has been handed over stays handed over.                            *)
LEMMA HandedGoes ==
    ASSUME TypeOK, Shape, Handed, Stays,
           \A k \in Runs : \/ turns'[k] = turns[k]
                           \/ turns'[k] # << >> /\ DOMAIN turns[k] \subseteq DOMAIN turns'[k],
           \A q \in Procs : proc'[q].pc = "mark" =>
             \/ proc[q].pc = "mark" /\ proc'[q].run = proc[q].run
             \/ turns'[proc'[q].run] # << >>,
           \A x \in watch' : \/ x \in watch
                             \/ run'[x[2]].status \in Settled /\ x[3] \in DOMAIN turns'[x[2]],
           \A q \in Procs : proc'[q].pc = "release" =>
             \/ proc[q].pc = "release" /\ proc'[q].run = proc[q].run
             \/ run'[proc'[q].run].status \in Settled
    PROVE  Handed'
<1>1. \A x \in watch : x[2] \in Runs
  BY DEF TypeOK
<1>2. \A q \in Procs : proc[q].pc \in {"mark", "release"} => proc[q].run \in Runs
  BY ProcIs DEF Shape, Placed, Dispatching, Working
<1> QED
  BY <1>1, <1>2 DEF Handed, Stays

LEMMA HandedNext ==
    ASSUME TypeOK, Shape, Known, Handed, Next
    PROVE  Handed'
<1>1. ASSUME NEW w \in Workers, LoopStep(w) PROVE Handed'
  <2>0. w \in Procs
    BY Names
  <2>1. ASSUME NEW k \in Runs, TakePending(w, k) PROVE Handed'
    BY <2>0, <2>1, TakePendingFacts, SettledStays, HandedGoes DEF Moved, Keeps, Rests
  <2>2. CASE NothingPending(w)
    BY <2>0, <2>2, NothingPendingFacts, SettledStays, HandedGoes DEF rows, Moved, Keeps, Rests
  <2>3. CASE FetchJob(w)
    BY <2>0, <2>3, FetchJobFacts, SettledStays, HandedGoes DEF rows, Moved, Keeps, Rests
  <2>4. CASE FailPendingRun(w)
    BY <2>0, <2>4, FailPendingRunFacts, SettledStays, HandedGoes DEF Moved, Keeps, Rests
  <2>5. CASE ClaimDueJob(w)
    BY <2>0, <2>5, ClaimDueJobFacts, SettledStays, HandedGoes DEF Moved, Keeps, Rests
  <2>6. CASE NothingDue(w)
    BY <2>0, <2>6, NothingDueFacts, SettledStays, HandedGoes DEF rows, Moved, Keeps, Rests
  <2>7. CASE CreateRun(w)
    BY <2>0, <2>7, CreateRunFacts, SettledStays, HandedGoes DEF Moved, Keeps, Rests
  <2>8. CASE CheckExisting(w)
    <3>1. /\ Moved(w) /\ Keeps(w) /\ proc[w].pc = "existing" /\ proc[w].run \in Runs
          /\ proc'[w].pc = "claim" \/ run[proc[w].run].status \notin Pending
          /\ proc'[w].pc \in {"claim", "release"}
          /\ UNCHANGED <<run, turns, watch>>
      BY <2>0, <2>8, CheckExistingFacts, Names DEF rows
    <3>2. run[proc[w].run].status # "absent"
      BY <2>0, <3>1 DEF Known
    <3>3. proc'[w].pc = "claim" \/ run'[proc'[w].run].status \in Settled
      BY <3>1, <3>2, RunIs DEF Keeps
    <3> QED
      BY <3>1, <3>3, SettledStays, HandedGoes DEF Moved
  <2> QED
    BY <1>1, <2>1, <2>2, <2>3, <2>4, <2>5, <2>6, <2>7, <2>8 DEF LoopStep
<1>2. ASSUME NEW p \in Procs, DispatchStep(p) PROVE Handed'
  <2>1. CASE ClaimRun(p)
    BY <2>1, ClaimRunFacts, SettledStays, HandedGoes DEF Moved, Keeps, Rests
  <2>2. CASE Refuse(p)
    BY <2>2, RefuseFacts, SettledStays, HandedGoes DEF rows, Moved, Keeps, Rests
  <2>3. CASE PrepareTurn(p)
    <3>1. /\ Moved(p) /\ Keeps(p) /\ proc'[p].pc = "mark" /\ proc[p].run \in Runs
          /\ turns'[proc[p].run] = Append(turns[proc[p].run], "running")
          /\ \A j \in Runs : j # proc[p].run => turns'[j] = turns[j]
          /\ UNCHANGED <<run, watch>>
      BY <2>3, PrepareTurnFacts DEF rows
    <3>2. PICK k \in Runs : k = proc[p].run
      BY <3>1
    <3>3. turns[k] \in Seq({"running"} \cup Outcomes)
      BY RunIs
    <3>4. /\ Len(turns'[k]) = Len(turns[k]) + 1 /\ Len(turns[k]) \in Nat
          /\ turns'[k] \in Seq({"running"} \cup Outcomes)
      <4>1. PICK q \in Seq({"running"} \cup Outcomes) : q = turns[k]
        BY <3>3
      <4>2. turns'[k] = Append(q, "running")
        BY <3>1, <3>2, <4>1
      <4> QED
        BY <4>1, <4>2, AppendProperties, LenProperties
    <3>5. turns'[k] # << >> /\ DOMAIN turns[k] \subseteq DOMAIN turns'[k]
      BY <3>3, <3>4, LenProperties, EmptySeq
    <3> QED
      BY <3>1, <3>2, <3>5, SettledStays, HandedGoes DEF Moved, Keeps
  <2>4. CASE MarkStarted(p)
    <3>1. /\ Moved(p) /\ Leaves(p) /\ proc[p].run \in Runs /\ Wrote(proc[p].run, Row("running"))
          /\ watch' = watch \cup {<<proc[p].host, proc[p].run, Len(turns[proc[p].run])>>}
          /\ turns' = turns /\ proc[p].pc = "mark"
      BY <2>4, MarkStartedFacts
    <3>2. run'[proc[p].run].status \in Settled
      BY <3>1, RowsAre DEF Wrote
    <3>3. Len(turns[proc[p].run]) \in DOMAIN turns[proc[p].run]
      <4>1. turns[proc[p].run] # << >>
        BY <3>1 DEF Handed
      <4> QED
        BY <3>1, <4>1, RunIs, LenProperties
    <3>4. \A q \in Procs : proc'[q].pc = "release" =>
             \/ proc[q].pc = "release" /\ proc'[q].run = proc[q].run
             \/ run'[proc'[q].run].status \in Settled
      BY <3>1, <3>2 DEF Moved, Leaves, Keeps, Rests
    <3> QED
      BY <3>1, <3>2, <3>3, <3>4, SettledStays, HandedGoes DEF Moved, Leaves, Keeps, Rests
  <2>5. CASE FailBeforeStart(p)
    <3>1. /\ Moved(p) /\ Leaves(p) /\ proc[p].run \in Runs /\ Wrote(proc[p].run, Row("failed"))
          /\ UNCHANGED <<turns, watch>>
      BY <2>5, FailBeforeStartFacts
    <3>2. run'[proc[p].run].status \in Settled
      BY <3>1, RowsAre DEF Wrote
    <3>3. \A q \in Procs : proc'[q].pc = "release" =>
             \/ proc[q].pc = "release" /\ proc'[q].run = proc[q].run
             \/ run'[proc'[q].run].status \in Settled
      BY <3>1, <3>2 DEF Moved, Leaves, Keeps, Rests
    <3> QED
      BY <3>1, <3>3, SettledStays, HandedGoes DEF Moved, Leaves, Keeps, Rests
  <2>6. CASE Release(p)
    BY <2>6, ReleaseFacts, SettledStays, HandedGoes DEF Moved, Keeps, Rests
  <2>7. CASE Unlease(p)
    BY <2>7, UnleaseFacts, SettledStays, HandedGoes DEF Moved, Keeps, Rests
  <2> QED
    BY <1>2, <2>1, <2>2, <2>3, <2>4, <2>5, <2>6, <2>7 DEF DispatchStep
<1>3. ASSUME NEW p \in Procs, OperationRaises(p) PROVE Handed'
  BY <1>3, OperationRaisesFacts, SettledStays, HandedGoes DEF Moved, Keeps, Rests
<1>4. ASSUME NEW w \in Workers, Crash(w) PROVE Handed'
  BY <1>4, CrashFacts, SettledStays, HandedGoes DEF rows, Moved, Keeps, Rests
<1>5. ASSUME NEW w \in Workers, NEW m \in Manuals, RunNow(w, m) PROVE Handed'
  BY <1>5, Names, RunNowFacts, SettledStays, HandedGoes DEF Moved, Keeps, Rests
<1>6. ASSUME NEW k \in Runs, TurnStep(k) PROVE Handed'
  <2>1. PICK i \in DOMAIN turns[k] : TurnEnds(k, i) \/ \E w \in Workers : Observe(w, k, i)
    BY <1>6 DEF TurnStep
  <2>2. CASE TurnEnds(k, i)
    <3>1. /\ turns' \in [Runs -> Seq({"running"} \cup Outcomes)] /\ Len(turns'[k]) = Len(turns[k])
          /\ \A j \in Runs : j # k => turns'[j] = turns[j]
          /\ UNCHANGED <<run, watch, proc>>
      BY <2>2, TurnEndsFacts DEF rows
    <3>2. DOMAIN turns'[k] = DOMAIN turns[k]
      BY <3>1, RunIs, LenProperties
    <3>3. turns'[k] # << >>
      BY <3>2
    <3> QED
      BY <3>1, <3>2, <3>3, SettledStays, HandedGoes
  <2>3. ASSUME NEW w \in Workers, Observe(w, k, i) PROVE Handed'
    BY <2>3, ObserveFacts, SettledStays, HandedGoes DEF Moved, Keeps, Rests
  <2> QED
    BY <2>1, <2>2, <2>3
<1>7. CASE EditRead
  BY <1>7, SettledStays, HandedGoes DEF EditRead, rows, Moved, Keeps, Rests
<1>8. CASE EditWrite
  BY <1>8, EditWriteFacts, SettledStays, HandedGoes DEF Moved, Keeps, Rests
<1>9. CASE DeleteJob
  BY <1>9, SettledStays, HandedGoes DEF DeleteJob, Moved, Keeps, Rests
<1>10. CASE Tick
  BY <1>10, SettledStays, HandedGoes DEF Tick, rows, Moved, Keeps, Rests
<1>11. CASE JobLeaseLapses
  BY <1>11, JobLeaseFacts, SettledStays, HandedGoes DEF Moved, Keeps, Rests
<1>12. ASSUME NEW k \in Runs, RunLeaseLapses(k) PROVE Handed'
  BY <1>12, RunLeaseFacts, SettledStays, HandedGoes DEF Moved, Keeps, Rests
<1> QED
  BY <1>1, <1>2, <1>3, <1>4, <1>5, <1>6, <1>7, <1>8, <1>9, <1>10, <1>11, <1>12 DEF Next, Lapse

(* Nothing that has been taken up is late.                                  *)
LEMMA OnTimeGoes ==
    ASSUME TypeOK, OnTime, now' \in Nat, now <= now',
           \A k \in Instants : Begun(k)' =>
             Begun(k) \/ (k <= now /\ (job.due # None => k <= job.due)),
           job'.due \in {job.due, None} \/ (job'.due \in Nat /\ now <= job'.due)
    PROVE  OnTime'
<1> SUFFICES ASSUME NEW k \in Instants, Begun(k)'
             PROVE  k <= now' /\ (job'.due # None => k <= job'.due)
  BY DEF OnTime, Instants
<1>1. k \in Nat /\ now \in Nat /\ (job.due # None => job.due \in Nat)
  BY Names, JobIs, NamesAssumption DEF TypeOK, Instants
<1>2. k <= now /\ (job.due # None => k <= job.due)
  BY DEF OnTime
<1>3. k <= now'
  BY <1>1, <1>2
<1>4. CASE job'.due \in {job.due, None}
  BY <1>2, <1>3, <1>4
<1>5. CASE job'.due \in Nat /\ now <= job'.due
  BY <1>1, <1>2, <1>3, <1>5
<1> QED
  BY <1>4, <1>5

LEMMA BegunGoes ==
    ASSUME NEW p \in Procs, Moved(p),
           \A j \in Runs : run'[j].status # "absent" => run[j].status # "absent" \/ proc[p].run = j,
           proc'[p].run \in {proc[p].run, None} \/ run[proc'[p].run].status # "absent"
    PROVE  \A k \in Instants : Begun(k)' => Begun(k)
BY Names DEF Begun, Moved

LEMMA NowIs == ASSUME TypeOK PROVE now \in Nat /\ now <= now
BY NamesAssumption DEF TypeOK, Instants

LEMMA OnTimeNext ==
    ASSUME TypeOK, Shape, Known, Handed, OnTime, Next
    PROVE  OnTime'
<1>1. ASSUME NEW w \in Workers, LoopStep(w) PROVE OnTime'
  <2>0. w \in Procs
    BY Names
  <2>1. ASSUME NEW k \in Runs, TakePending(w, k) PROVE OnTime'
    <3>1. /\ Moved(w) /\ proc'[w].run = k /\ run[k].status # "absent" /\ Wrote(k, Claimed)
          /\ UNCHANGED <<now, job>>
      BY <2>1, TakePendingFacts, Names DEF Claimable
    <3> QED
      BY <2>0, <3>1, NowIs, BegunGoes, OnTimeGoes DEF Wrote
  <2>2. CASE NothingPending(w)
    BY <2>0, <2>2, NothingPendingFacts, NowIs, BegunGoes, OnTimeGoes DEF rows, Keeps, Rests, Wrote
  <2>3. CASE FetchJob(w)
    BY <2>0, <2>3, FetchJobFacts, NowIs, BegunGoes, OnTimeGoes DEF rows, Keeps, Rests, Wrote
  <2>4. CASE FailPendingRun(w)
    BY <2>0, <2>4, FailPendingRunFacts, NowIs, BegunGoes, OnTimeGoes DEF Keeps, Rests, Wrote
  <2>5. CASE ClaimDueJob(w)
    <3>1. /\ Moved(w) /\ proc'[w].run = job.due /\ job.due \in Instants /\ job.due <= now
          /\ job'.due = job.due /\ UNCHANGED <<now, run>>
      BY <2>5, ClaimDueJobFacts
    <3>2. \A k \in Instants : Begun(k)' => Begun(k) \/ k = job.due
      BY <2>0, <3>1, Names DEF Begun, Moved
    <3>3. \A k \in Instants : k = job.due => k <= now /\ k <= job.due
      BY <3>1, Names
    <3> QED
      BY <3>1, <3>2, <3>3, NowIs, OnTimeGoes
  <2>6. CASE NothingDue(w)
    BY <2>0, <2>6, NothingDueFacts, NowIs, BegunGoes, OnTimeGoes DEF rows, Keeps, Rests, Wrote
  <2>7. CASE CreateRun(w)
    BY <2>0, <2>7, CreateRunFacts, NowIs, BegunGoes, OnTimeGoes DEF Keeps, Rests, Wrote
  <2>8. CASE CheckExisting(w)
    BY <2>0, <2>8, CheckExistingFacts, NowIs, BegunGoes, OnTimeGoes DEF rows, Keeps, Rests, Wrote
  <2> QED
    BY <1>1, <2>1, <2>2, <2>3, <2>4, <2>5, <2>6, <2>7, <2>8 DEF LoopStep
<1>2. ASSUME NEW p \in Procs, DispatchStep(p) PROVE OnTime'
  <2>1. CASE ClaimRun(p)
    BY <2>1, ClaimRunFacts, NowIs, BegunGoes, OnTimeGoes DEF Keeps, Rests, Wrote
  <2>2. CASE Refuse(p)
    BY <2>2, RefuseFacts, NowIs, BegunGoes, OnTimeGoes DEF rows, Keeps, Rests, Wrote
  <2>3. CASE PrepareTurn(p)
    BY <2>3, PrepareTurnFacts, NowIs, BegunGoes, OnTimeGoes DEF rows, Keeps, Rests, Wrote
  <2>4. CASE MarkStarted(p)
    BY <2>4, MarkStartedFacts, NowIs, BegunGoes, OnTimeGoes DEF Leaves, Keeps, Rests, Wrote
  <2>5. CASE FailBeforeStart(p)
    BY <2>5, FailBeforeStartFacts, NowIs, BegunGoes, OnTimeGoes DEF Leaves, Keeps, Rests, Wrote
  <2>6. CASE Release(p)
    <3>1. /\ Moved(p) /\ proc'[p].run \in {proc[p].run, None}
          /\ job' = job \/ (job' \in JobRows /\ (job'.due # None => job'.due > now))
          /\ UNCHANGED <<now, run>>
      BY <2>6, ReleaseFacts DEF Keeps, Rests
    <3>2. job'.due \in {job.due, None} \/ (job'.due \in Nat /\ now <= job'.due)
      <4>1. job' = job \/ job'.due = None \/ job'.due \in Nat
        BY <3>1, NamesAssumption DEF JobRows
      <4> QED
        BY <3>1, <4>1, NowIs
    <3> QED
      BY <3>1, <3>2, NowIs, BegunGoes, OnTimeGoes
  <2>7. CASE Unlease(p)
    BY <2>7, UnleaseFacts, NowIs, BegunGoes, OnTimeGoes DEF Keeps, Rests, Wrote
  <2> QED
    BY <1>2, <2>1, <2>2, <2>3, <2>4, <2>5, <2>6, <2>7 DEF DispatchStep
<1>3. ASSUME NEW p \in Procs, OperationRaises(p) PROVE OnTime'
  BY <1>3, OperationRaisesFacts, NowIs, BegunGoes, OnTimeGoes DEF Keeps, Rests, Wrote
<1>4. ASSUME NEW w \in Workers, Crash(w) PROVE OnTime'
  <2>1. \A k \in Instants : Begun(k)' => Begun(k)
    BY <1>4, CrashFacts, Names DEF Begun, rows
  <2> QED
    BY <1>4, <2>1, CrashFacts, NowIs, OnTimeGoes DEF rows
<1>5. ASSUME NEW w \in Workers, NEW m \in Manuals, RunNow(w, m) PROVE OnTime'
  <2>1. \A k \in Instants : Begun(k)' => Begun(k)
    BY <1>5, RunNowFacts, Names DEF Begun, Moved, Wrote
  <2> QED
    BY <1>5, <2>1, RunNowFacts, NowIs, OnTimeGoes
<1>6. ASSUME NEW k \in Runs, TurnStep(k) PROVE OnTime'
  <2>1. PICK i \in DOMAIN turns[k] : TurnEnds(k, i) \/ \E w \in Workers : Observe(w, k, i)
    BY <1>6 DEF TurnStep
  <2>2. CASE TurnEnds(k, i)
    <3>1. UNCHANGED <<now, job, run, proc>>
      BY <2>2, TurnEndsFacts DEF rows
    <3>2. \A j \in Instants : Begun(j)' => Begun(j)
      BY <3>1 DEF Begun
    <3> QED
      BY <3>1, <3>2, NowIs, OnTimeGoes
  <2>3. ASSUME NEW w \in Workers, Observe(w, k, i) PROVE OnTime'
    <3>1. /\ <<w, k, i>> \in watch /\ Wrote(k, Row(turns[k][i])) /\ UNCHANGED <<now, job, proc>>
      BY <2>3, ObserveFacts
    <3>2. run[k].status # "absent"
      BY <3>1, Names DEF Handed
    <3>3. \A j \in Instants : Begun(j)' => Begun(j)
      BY <3>1, <3>2, Names DEF Begun, Wrote
    <3> QED
      BY <3>1, <3>3, NowIs, OnTimeGoes
  <2> QED
    BY <2>1, <2>2, <2>3
<1>7. CASE EditRead
  <2>1. /\ UNCHANGED <<now, run, proc>>
        /\ job'.due \in {job.due, None} \/ (job'.due \in Nat /\ now <= job'.due)
    BY <1>7, NowIs DEF EditRead, rows, TypeOK, JobRows
  <2>2. \A j \in Instants : Begun(j)' => Begun(j)
    BY <2>1 DEF Begun
  <2> QED
    BY <2>1, <2>2, NowIs, OnTimeGoes
<1>8. CASE EditWrite
  <2>1. /\ UNCHANGED <<now, run, proc>>
        /\ job'.due \in {job.due, None} \/ (job'.due \in Nat /\ now <= job'.due)
    BY <1>8, EditWriteFacts, NowIs DEF EditWrite, rows, TypeOK, JobRows
  <2>2. \A j \in Instants : Begun(j)' => Begun(j)
    BY <2>1 DEF Begun
  <2> QED
    BY <2>1, <2>2, NowIs, OnTimeGoes
<1>9. CASE DeleteJob
  <2>1. /\ UNCHANGED <<now, run, proc>>
        /\ job'.due \in {job.due, None} \/ (job'.due \in Nat /\ now <= job'.due)
    BY <1>9, NowIs DEF DeleteJob, rows, TypeOK, JobRows
  <2>2. \A j \in Instants : Begun(j)' => Begun(j)
    BY <2>1 DEF Begun
  <2> QED
    BY <2>1, <2>2, NowIs, OnTimeGoes
<1>10. CASE Tick
  <2>1. \A j \in Instants : Begun(j)' => Begun(j)
    BY <1>10 DEF Begun, Tick, rows
  <2>2. now' \in Nat /\ now <= now' /\ job' = job
    BY <1>10, NowIs DEF Tick, rows
  <2> QED
    BY <2>1, <2>2, OnTimeGoes
<1>11. CASE JobLeaseLapses
  <2>1. /\ UNCHANGED <<now, run, proc>>
        /\ job'.due \in {job.due, None} \/ (job'.due \in Nat /\ now <= job'.due)
    BY <1>11, JobLeaseFacts, NowIs DEF JobLeaseLapses, rows, TypeOK, JobRows
  <2>2. \A j \in Instants : Begun(j)' => Begun(j)
    BY <2>1 DEF Begun
  <2> QED
    BY <2>1, <2>2, NowIs, OnTimeGoes
<1>12. ASSUME NEW k \in Runs, RunLeaseLapses(k) PROVE OnTime'
  <2>1. \A j \in Instants : Begun(j)' => Begun(j)
    BY <1>12, RunLeaseFacts, Names DEF Begun
  <2> QED
    BY <1>12, <2>1, RunLeaseFacts, NowIs, OnTimeGoes
<1> QED
  BY <1>1, <1>2, <1>3, <1>4, <1>5, <1>6, <1>7, <1>8, <1>9, <1>10, <1>11, <1>12 DEF Next, Lapse

(* What an edit and a dispatcher have read is what the job has.             *)
LEMMA CopiedGoes ==
    ASSUME Copied, job'.exists => job.exists, raced => raced',
           job'.plan = job.plan, job'.due = job.due,
           \A q \in Procs :
             proc'[q].pc \in Dispatching \ {"fetch", "orphan"} /\ proc'[q].run \in Instants =>
               /\ proc[q].pc \in Dispatching \ {"fetch", "orphan"}
               /\ proc'[q].run = proc[q].run /\ proc'[q].copy = proc[q].copy
    PROVE  Copied'
BY DEF Copied

LEMMA RunsAreBegun ==
    ASSUME TypeOK, OnTime, NEW q \in Procs, proc[q].run \in Instants
    PROVE  proc[q].run <= now /\ (job.due # None => proc[q].run <= job.due)
BY DEF OnTime, Begun

\* A due time later than now is later than all that is being dispatched.
LEMMA LaterDue ==
    ASSUME TypeOK, OnTime,
           job'.due # None => job'.due \in Nat /\ now <= job'.due /\ (job'.due <= now => raced'),
           \A q \in Procs : proc'[q].run \in Instants => proc'[q].run = proc[q].run
    PROVE  Copied'
<1>1. now \in Nat
  BY NowIs
<1>2. ASSUME NEW q \in Procs, proc'[q].run \in Instants, job'.due # None, job'.due <= proc'[q].run
      PROVE  raced'
  <2>1. proc[q].run \in Instants /\ proc'[q].run = proc[q].run /\ proc[q].run \in Nat
    BY <1>2, Names
  <2>2. proc[q].run <= now
    BY <2>1, RunsAreBegun
  <2>3. job'.due <= now
    BY <1>1, <1>2, <2>1, <2>2
  <2> QED
    BY <1>2, <2>3
<1> QED
  BY <1>2 DEF Copied

LEMMA CopiedNext ==
    ASSUME TypeOK, Shape, Handed, OnTime, Edited, EditStands, Copied, Next
    PROVE  Copied'
<1>1. ASSUME NEW w \in Workers, LoopStep(w) PROVE Copied'
  <2>0. w \in Procs
    BY Names
  <2>1. ASSUME NEW k \in Runs, TakePending(w, k) PROVE Copied'
    BY <2>0, <2>1, TakePendingFacts, CopiedGoes DEF Moved, Keeps, Rests, Dispatching, Working
  <2>2. CASE NothingPending(w)
    BY <2>0, <2>2, NothingPendingFacts, CopiedGoes DEF rows, Moved, Keeps, Rests, Dispatching, Working
  <2>3. CASE FetchJob(w)
    <3>1. /\ Moved(w) /\ proc'[w].run = proc[w].run
          /\ proc'[w].pc = "orphan" \/ /\ proc'[w].copy.plan = job.plan
                                       /\ proc'[w].copy.enabled = job.enabled
          /\ UNCHANGED <<job, raced>>
      BY <2>3, FetchJobFacts DEF rows
    <3>2. job.exists /\ ~raced /\ job.due # None => job.enabled
      BY DEF EditStands
    <3> QED
      BY <2>0, <3>1, <3>2 DEF Copied, Moved
  <2>4. CASE FailPendingRun(w)
    BY <2>0, <2>4, FailPendingRunFacts, CopiedGoes DEF Moved, Keeps, Rests, Dispatching, Working
  <2>5. CASE ClaimDueJob(w)
    <3>1. /\ Moved(w) /\ proc'[w].copy.plan = job.plan /\ proc'[w].copy.enabled = job.enabled
          /\ job.enabled /\ job'.exists = job.exists /\ job'.plan = job.plan /\ job'.due = job.due
          /\ raced' = raced
      BY <2>5, ClaimDueJobFacts
    <3> QED
      BY <2>0, <3>1 DEF Copied, Moved
  <2>6. CASE NothingDue(w)
    BY <2>0, <2>6, NothingDueFacts, CopiedGoes DEF rows, Moved, Keeps, Rests, Dispatching, Working
  <2>7. CASE CreateRun(w)
    BY <2>0, <2>7, CreateRunFacts, CopiedGoes DEF Moved, Keeps, Rests, Dispatching, Working
  <2>8. CASE CheckExisting(w)
    BY <2>0, <2>8, CheckExistingFacts, CopiedGoes DEF rows, Moved, Keeps, Rests, Dispatching, Working
  <2> QED
    BY <1>1, <2>1, <2>2, <2>3, <2>4, <2>5, <2>6, <2>7, <2>8 DEF LoopStep
<1>2. ASSUME NEW p \in Procs, DispatchStep(p) PROVE Copied'
  <2>1. CASE ClaimRun(p)
    BY <2>1, ClaimRunFacts, CopiedGoes DEF Moved, Keeps, Rests, Dispatching, Working
  <2>2. CASE Refuse(p)
    BY <2>2, RefuseFacts, CopiedGoes DEF rows, Moved, Keeps, Rests, Dispatching, Working
  <2>3. CASE PrepareTurn(p)
    BY <2>3, PrepareTurnFacts, CopiedGoes DEF rows, Moved, Keeps, Rests, Dispatching, Working
  <2>4. CASE MarkStarted(p)
    BY <2>4, MarkStartedFacts, CopiedGoes DEF Leaves, Moved, Keeps, Rests, Dispatching, Working
  <2>5. CASE FailBeforeStart(p)
    BY <2>5, FailBeforeStartFacts, CopiedGoes DEF Leaves, Moved, Keeps, Rests, Dispatching, Working
  <2>6. CASE Release(p)
    <3>1. /\ Moved(p) /\ proc'[p].run \in {proc[p].run, None} /\ raced' = raced
          /\ \/ Keeps(p) /\ proc[p].pc = "release" /\ job' = job
             \/ job' \in JobRows /\ (job'.due # None => job'.due > now)
      BY <2>6, ReleaseFacts DEF Keeps, Rests
    <3>2. CASE Keeps(p) /\ proc[p].pc = "release" /\ job' = job
      BY <3>1, <3>2, CopiedGoes DEF Moved, Keeps, Dispatching
    <3>3. CASE job' \in JobRows /\ (job'.due # None => job'.due > now)
      <4>1. job'.due # None => job'.due \in Nat
        BY <3>3, NamesAssumption DEF JobRows
      <4>2. job'.due # None => now <= job'.due /\ ~(job'.due <= now)
        BY <3>3, <4>1, NowIs
      <4>3. \A q \in Procs : proc'[q].run \in Instants => proc'[q].run = proc[q].run
        BY <3>1, Names DEF Moved, Instants
      <4> QED
        BY <4>1, <4>2, <4>3, LaterDue
    <3> QED
      BY <3>1, <3>2, <3>3
  <2>7. CASE Unlease(p)
    <3>1. /\ Moved(p) /\ Rests(p) /\ raced' = raced
          /\ job'.exists = job.exists /\ job'.plan = job.plan /\ job'.due = job.due
      BY <2>7, UnleaseFacts
    <3> QED
      BY <3>1, CopiedGoes DEF Moved, Rests, Dispatching, Working
  <2> QED
    BY <1>2, <2>1, <2>2, <2>3, <2>4, <2>5, <2>6, <2>7 DEF DispatchStep
<1>3. ASSUME NEW p \in Procs, OperationRaises(p) PROVE Copied'
  BY <1>3, OperationRaisesFacts, CopiedGoes DEF Moved, Keeps, Rests, Dispatching, Working
<1>4. ASSUME NEW w \in Workers, Crash(w) PROVE Copied'
  BY <1>4, CrashFacts, CopiedGoes DEF rows, Moved, Keeps, Rests, Dispatching, Working
<1>5. ASSUME NEW w \in Workers, NEW m \in Manuals, RunNow(w, m) PROVE Copied'
  <2>1. /\ Moved(m) /\ proc'[m].run \notin Instants /\ UNCHANGED <<job, raced>>
    BY <1>5, Names, RunNowFacts
  <2> QED
    BY <2>1, CopiedGoes DEF Moved
<1>6. ASSUME NEW k \in Runs, TurnStep(k) PROVE Copied'
  <2>1. PICK i \in DOMAIN turns[k] : TurnEnds(k, i) \/ \E w \in Workers : Observe(w, k, i)
    BY <1>6 DEF TurnStep
  <2>2. CASE TurnEnds(k, i)
    BY <2>2, TurnEndsFacts, CopiedGoes DEF rows, Moved, Keeps, Rests, Dispatching, Working
  <2>3. ASSUME NEW w \in Workers, Observe(w, k, i) PROVE Copied'
    BY <2>3, ObserveFacts, CopiedGoes DEF Moved, Keeps, Rests, Dispatching, Working
  <2> QED
    BY <2>1, <2>2, <2>3
<1>7. CASE EditRead
  BY <1>7, CopiedGoes DEF EditRead, rows, Moved, Keeps, Rests, Dispatching, Working
<1>8. CASE EditWrite
  <2>1. /\ UNCHANGED proc /\ job'.exists = job.exists /\ (raced => raced')
        /\ \/ job'.plan = job.plan /\ job'.due = job.due
           \/ job'.due # None => job'.due \in Nat /\ job'.due >= now /\ (job'.due <= now => raced')
    BY <1>8, EditWriteFacts DEF Edited
  <2>2. CASE job'.plan = job.plan /\ job'.due = job.due
    BY <2>1, <2>2, CopiedGoes
  <2>3. CASE job'.due # None => job'.due \in Nat /\ job'.due >= now /\ (job'.due <= now => raced')
    <3>1. job'.due # None => now <= job'.due
      BY <2>3, NowIs
    <3> QED
      BY <2>1, <2>3, <3>1, LaterDue
  <2> QED
    BY <2>1, <2>2, <2>3
<1>9. CASE DeleteJob
  BY <1>9, CopiedGoes DEF DeleteJob, Moved, Keeps, Rests, Dispatching, Working
<1>10. CASE Tick
  BY <1>10, CopiedGoes DEF Tick, rows, Moved, Keeps, Rests, Dispatching, Working
<1>11. CASE JobLeaseLapses
  BY <1>11, JobLeaseFacts, CopiedGoes DEF Moved, Keeps, Rests, Dispatching, Working
<1>12. ASSUME NEW k \in Runs, RunLeaseLapses(k) PROVE Copied'
  BY <1>12, RunLeaseFacts, CopiedGoes DEF Moved, Keeps, Rests, Dispatching, Working
<1> QED
  BY <1>1, <1>2, <1>3, <1>4, <1>5, <1>6, <1>7, <1>8, <1>9, <1>10, <1>11, <1>12 DEF Next, Lapse

Settings == Edited /\ EditStands

LEMMA SettingsNext ==
    ASSUME TypeOK, Shape, Handed, Settings, Copied, Next
    PROVE  Settings'
<1>1. ASSUME NEW w \in Workers, LoopStep(w) PROVE Settings'
  <2>0. w \in Procs
    BY Names
  <2>1. ASSUME NEW k \in Runs, TakePending(w, k) PROVE Settings'
    BY <2>0, <2>1, TakePendingFacts DEF Settings, Edited, EditStands
  <2>2. CASE NothingPending(w)
    BY <2>0, <2>2, NothingPendingFacts DEF rows, Settings, Edited, EditStands
  <2>3. CASE FetchJob(w)
    BY <2>0, <2>3, FetchJobFacts DEF rows, Settings, Edited, EditStands
  <2>4. CASE FailPendingRun(w)
    BY <2>0, <2>4, FailPendingRunFacts DEF Settings, Edited, EditStands
  <2>5. CASE ClaimDueJob(w)
    BY <2>0, <2>5, ClaimDueJobFacts DEF Settings, Edited, EditStands
  <2>6. CASE NothingDue(w)
    BY <2>0, <2>6, NothingDueFacts DEF rows, Settings, Edited, EditStands
  <2>7. CASE CreateRun(w)
    BY <2>0, <2>7, CreateRunFacts DEF Settings, Edited, EditStands
  <2>8. CASE CheckExisting(w)
    BY <2>0, <2>8, CheckExistingFacts DEF rows, Settings, Edited, EditStands
  <2> QED
    BY <1>1, <2>1, <2>2, <2>3, <2>4, <2>5, <2>6, <2>7, <2>8 DEF LoopStep
<1>2. ASSUME NEW p \in Procs, DispatchStep(p) PROVE Settings'
  <2>1. CASE ClaimRun(p)
    BY <2>1, ClaimRunFacts DEF Settings, Edited, EditStands
  <2>2. CASE Refuse(p)
    BY <2>2, RefuseFacts DEF rows, Settings, Edited, EditStands
  <2>3. CASE PrepareTurn(p)
    BY <2>3, PrepareTurnFacts DEF rows, Settings, Edited, EditStands
  <2>4. CASE MarkStarted(p)
    BY <2>4, MarkStartedFacts DEF Leaves, Settings, Edited, EditStands
  <2>5. CASE FailBeforeStart(p)
    BY <2>5, FailBeforeStartFacts DEF Leaves, Settings, Edited, EditStands
  <2>6. CASE Release(p)
    <3>1. /\ UNCHANGED <<edit, raced>>
          /\ \/ /\ proc[p].pc = "release" /\ proc[p].run \in Instants /\ job.exists /\ job.due # None
                /\ job.due <= proc[p].run /\ job'.plan = job.plan
                /\ job'.enabled <=> job'.due # None /\ proc[p].copy.enabled
                /\ job'.due # None => job'.due \in proc[p].copy.plan
             \/ job' = job
      BY <2>6, ReleaseFacts
    <3>2. job' = job \/ raced \/ (proc[p].copy.plan = job.plan /\ proc[p].copy.enabled)
      BY <3>1 DEF Copied, Dispatching, Working
    <3> QED
      BY <3>1, <3>2 DEF Settings, Edited, EditStands
  <2>7. CASE Unlease(p)
    BY <2>7, UnleaseFacts DEF Settings, Edited, EditStands
  <2> QED
    BY <1>2, <2>1, <2>2, <2>3, <2>4, <2>5, <2>6, <2>7 DEF DispatchStep
<1>3. ASSUME NEW p \in Procs, OperationRaises(p) PROVE Settings'
  BY <1>3, OperationRaisesFacts DEF Settings, Edited, EditStands
<1>4. ASSUME NEW w \in Workers, Crash(w) PROVE Settings'
  BY <1>4, CrashFacts DEF rows, Settings, Edited, EditStands
<1>5. ASSUME NEW w \in Workers, NEW m \in Manuals, RunNow(w, m) PROVE Settings'
  BY <1>5, Names, RunNowFacts DEF Settings, Edited, EditStands
<1>6. ASSUME NEW k \in Runs, TurnStep(k) PROVE Settings'
  <2>1. PICK i \in DOMAIN turns[k] : TurnEnds(k, i) \/ \E w \in Workers : Observe(w, k, i)
    BY <1>6 DEF TurnStep
  <2>2. CASE TurnEnds(k, i)
    BY <2>2, TurnEndsFacts DEF rows, Settings, Edited, EditStands
  <2>3. ASSUME NEW w \in Workers, Observe(w, k, i) PROVE Settings'
    BY <2>3, ObserveFacts DEF Settings, Edited, EditStands
  <2> QED
    BY <2>1, <2>2, <2>3
<1>7. CASE EditRead
  BY <1>7 DEF EditRead, rows, Settings, Edited, EditStands
<1>8. CASE EditWrite
  BY <1>8, EditWriteFacts DEF Settings, Edited, EditStands
<1>9. CASE DeleteJob
  BY <1>9 DEF DeleteJob, Settings, Edited, EditStands
<1>10. CASE Tick
  BY <1>10 DEF Tick, rows, Settings, Edited, EditStands
<1>11. CASE JobLeaseLapses
  BY <1>11, JobLeaseFacts DEF Settings, Edited, EditStands
<1>12. ASSUME NEW k \in Runs, RunLeaseLapses(k) PROVE Settings'
  BY <1>12, RunLeaseFacts DEF Settings, Edited, EditStands
<1> QED
  BY <1>1, <1>2, <1>3, <1>4, <1>5, <1>6, <1>7, <1>8, <1>9, <1>10, <1>11, <1>12 DEF Next, Lapse

(* One process at a time works on a run.                                    *)
LEMMA ExclusiveGoes ==
    ASSUME Shape, TypeOK, Exclusive, slow' = 0 => slow = 0,
           \A q \in Procs : proc'[q].pc \in Working =>
             /\ proc[q].pc \in Working /\ proc'[q].run = proc[q].run
             /\ \/ run'[proc[q].run] = run[proc[q].run]
                \/ run'[proc[q].run].status \in Settled
    PROVE  Exclusive'
BY Names, RowsAre DEF Exclusive

\* A claim fails while the lease is held.
LEMMA ClaimIsAlone ==
    ASSUME Shape, TypeOK, Exclusive, NEW p \in Procs, NEW k \in Runs, Moved(p), proc'[p].run = k,
           Claimable(k), Wrote(k, Claimed), slow' = slow
    PROVE  Exclusive'
<1>1. run'[k].status = "dispatching" /\ run'[k].live /\ run[k].status \in Pending /\ ~run[k].live
  BY RowsAre DEF Claimable, Wrote
<1>2. ASSUME slow = 0, NEW q \in Procs, q # p, proc'[q].pc \in Working
      PROVE  /\ proc[q].pc \in Working /\ proc'[q].run = proc[q].run /\ proc[q].run \in Runs
             /\ proc[q].run # k /\ run'[proc[q].run] = run[proc[q].run]
  <2>1. proc[q].pc \in Working /\ proc'[q].run = proc[q].run
    BY <1>2 DEF Moved
  <2>2. proc[q].run \in Runs
    BY <2>1, ProcIs DEF Shape, Placed, Dispatching
  <2>3. proc[q].run # k
    BY <1>1, <1>2, <2>1, Names DEF Exclusive
  <2> QED
    BY <2>1, <2>2, <2>3 DEF Wrote
<1>3. ASSUME slow = 0, NEW q \in Procs, proc'[q].pc \in Working
      PROVE  /\ run'[proc'[q].run].status \in {"dispatching"} \cup Settled
             /\ run'[proc'[q].run].status = "dispatching" => run'[proc'[q].run].live
             /\ \A r \in Procs : r # q /\ proc'[r].pc \in Working => proc'[r].run # proc'[q].run
  <2>1. CASE q = p
    BY <1>1, <1>2, <1>3, <2>1
  <2>2. CASE q # p
    <3>1. /\ proc[q].pc \in Working /\ proc'[q].run = proc[q].run /\ proc[q].run # k
          /\ run'[proc[q].run] = run[proc[q].run]
      BY <1>2, <1>3, <2>2
    <3>2. \A r \in Procs : r # q /\ proc'[r].pc \in Working => proc'[r].run # proc'[q].run
      BY <1>2, <1>3, <3>1 DEF Exclusive
    <3> QED
      BY <1>3, <3>1, <3>2 DEF Exclusive
  <2> QED
    BY <2>1, <2>2
<1> QED
  BY <1>3 DEF Exclusive

LEMMA ExclusiveNext ==
    ASSUME TypeOK, Shape, Known, Handed, Exclusive, Next
    PROVE  Exclusive'
<1>1. ASSUME NEW w \in Workers, LoopStep(w) PROVE Exclusive'
  <2>0. w \in Procs
    BY Names
  <2>1. ASSUME NEW k \in Runs, TakePending(w, k) PROVE Exclusive'
    BY <2>0, <2>1, TakePendingFacts, ClaimIsAlone DEF budget
  <2>2. CASE NothingPending(w)
    BY <2>0, <2>2, NothingPendingFacts, ExclusiveGoes DEF rows, Moved, Keeps, Rests, Working, budget
  <2>3. CASE FetchJob(w)
    BY <2>0, <2>3, FetchJobFacts, ExclusiveGoes DEF rows, Moved, Keeps, Rests, Working, budget
  <2>4. CASE FailPendingRun(w)
    <3>1. /\ Moved(w) /\ proc'[w].pc \notin Working /\ slow' = slow /\ proc[w].run \in Runs
          /\ run' = run \/ Wrote(proc[w].run, Row("failed"))
      BY <2>0, <2>4, FailPendingRunFacts DEF budget, Rests, Working
    <3>2. \A j \in Runs : run'[j] = run[j] \/ run'[j].status \in Settled
      BY <3>1, RowsAre DEF Wrote
    <3>3. \A q \in Procs : proc[q].pc \in Working => proc[q].run \in Runs
      BY ProcIs DEF Shape, Placed, Dispatching
    <3> QED
      BY <2>0, <3>1, <3>2, <3>3, ExclusiveGoes DEF Moved
  <2>5. CASE ClaimDueJob(w)
    BY <2>0, <2>5, ClaimDueJobFacts, ExclusiveGoes DEF Moved, Keeps, Rests, Working, budget
  <2>6. CASE NothingDue(w)
    BY <2>0, <2>6, NothingDueFacts, ExclusiveGoes DEF rows, Moved, Keeps, Rests, Working, budget
  <2>7. CASE CreateRun(w)
    <3>1. /\ Moved(w) /\ proc'[w].pc \notin Working /\ slow' = slow
          /\ run' = run \/ (run[proc[w].run].status = "absent" /\ Wrote(proc[w].run, Row("queued")))
          /\ proc[w].run \in Runs
      BY <2>0, <2>7, CreateRunFacts, Names DEF budget, Working
    <3>2. \A q \in Procs : proc[q].pc \in Working =>
            proc[q].run \in Runs /\ run'[proc[q].run] = run[proc[q].run]
      <4> SUFFICES ASSUME NEW q \in Procs, proc[q].pc \in Working
                   PROVE  proc[q].run \in Runs /\ run'[proc[q].run] = run[proc[q].run]
        OBVIOUS
      <4>1. proc[q].run \in Runs
        BY ProcIs DEF Shape, Placed, Dispatching
      <4>2. run[proc[q].run].status # "absent"
        BY <4>1 DEF Known, Working
      <4> QED
        BY <3>1, <4>1, <4>2 DEF Wrote
    <3> QED
      BY <2>0, <3>1, <3>2, ExclusiveGoes DEF Moved
  <2>8. CASE CheckExisting(w)
    BY <2>0, <2>8, CheckExistingFacts, ExclusiveGoes DEF rows, Moved, Keeps, Rests, Working, budget
  <2> QED
    BY <1>1, <2>1, <2>2, <2>3, <2>4, <2>5, <2>6, <2>7, <2>8 DEF LoopStep
<1>2. ASSUME NEW p \in Procs, DispatchStep(p) PROVE Exclusive'
  <2>1. CASE ClaimRun(p)
    <3>1. /\ Moved(p) /\ slow' = slow /\ proc[p].run \in Runs
          /\ \/ Claimable(proc[p].run) /\ Wrote(proc[p].run, Claimed) /\ proc'[p].run = proc[p].run
             \/ Rests(p) /\ run' = run
      BY <2>1, ClaimRunFacts DEF budget, Keeps
    <3>2. CASE Rests(p) /\ run' = run
      BY <3>1, <3>2, ExclusiveGoes DEF Moved, Rests, Working
    <3> QED
      BY <3>1, <3>2, ClaimIsAlone
  <2>2. CASE Refuse(p)
    BY <2>2, RefuseFacts, ExclusiveGoes DEF rows, Moved, Keeps, Rests, Working, budget
  <2>3. CASE PrepareTurn(p)
    BY <2>3, PrepareTurnFacts, ExclusiveGoes DEF rows, Moved, Keeps, Rests, Working, budget
  <2>4. CASE MarkStarted(p)
    <3>1. /\ Moved(p) /\ proc'[p].pc \notin Working /\ slow' = slow /\ proc[p].run \in Runs
          /\ Wrote(proc[p].run, Row("running"))
      BY <2>4, MarkStartedFacts DEF budget, Leaves, Rests, Working
    <3>2. \A j \in Runs : run'[j] = run[j] \/ run'[j].status \in Settled
      BY <3>1, RowsAre DEF Wrote
    <3>3. \A q \in Procs : proc[q].pc \in Working => proc[q].run \in Runs
      BY ProcIs DEF Shape, Placed, Dispatching
    <3> QED
      BY <3>1, <3>2, <3>3, ExclusiveGoes DEF Moved
  <2>5. CASE FailBeforeStart(p)
    <3>1. /\ Moved(p) /\ proc'[p].pc \notin Working /\ slow' = slow /\ proc[p].run \in Runs
          /\ Wrote(proc[p].run, Row("failed"))
      BY <2>5, FailBeforeStartFacts DEF budget, Leaves, Rests, Working
    <3>2. \A j \in Runs : run'[j] = run[j] \/ run'[j].status \in Settled
      BY <3>1, RowsAre DEF Wrote
    <3>3. \A q \in Procs : proc[q].pc \in Working => proc[q].run \in Runs
      BY ProcIs DEF Shape, Placed, Dispatching
    <3> QED
      BY <3>1, <3>2, <3>3, ExclusiveGoes DEF Moved
  <2>6. CASE Release(p)
    BY <2>6, ReleaseFacts, ExclusiveGoes DEF Moved, Keeps, Rests, Working, budget
  <2>7. CASE Unlease(p)
    BY <2>7, UnleaseFacts, ExclusiveGoes DEF Moved, Keeps, Rests, Working, budget
  <2> QED
    BY <1>2, <2>1, <2>2, <2>3, <2>4, <2>5, <2>6, <2>7 DEF DispatchStep
<1>3. ASSUME NEW p \in Procs, OperationRaises(p) PROVE Exclusive'
  <2>1. /\ Moved(p) /\ slow' = slow
        /\ \/ proc[p].pc \in Working /\ proc'[p].run = proc[p].run
           \/ proc'[p].pc \notin Working
        /\ run' = run \/ (Wrote(proc[p].run, Row("running")) /\ proc[p].run \in Runs)
    BY <1>3, OperationRaisesFacts DEF Keeps, Rests, Working
  <2>2. \A j \in Runs : run'[j] = run[j] \/ run'[j].status \in Settled
    BY <2>1, RowsAre DEF Wrote
  <2>3. \A q \in Procs : proc[q].pc \in Working => proc[q].run \in Runs
    BY ProcIs DEF Shape, Placed, Dispatching
  <2> QED
    BY <2>1, <2>2, <2>3, ExclusiveGoes DEF Moved
<1>4. ASSUME NEW w \in Workers, Crash(w) PROVE Exclusive'
  BY <1>4, CrashFacts, ExclusiveGoes DEF rows, Moved, Keeps, Rests, Working, budget
<1>5. ASSUME NEW w \in Workers, NEW m \in Manuals, RunNow(w, m) PROVE Exclusive'
  <2>1. /\ Moved(m) /\ proc'[m].pc = "claim" /\ slow' = slow /\ m \in Procs /\ m \in Runs
        /\ proc[m].pc = "ready" /\ Wrote(m, Row("queued"))
    BY <1>5, Names, RunNowFacts
  <2>2. run[m].status = "absent"
    BY <2>1 DEF Known
  <2>3. \A q \in Procs : proc[q].pc \in Working => run'[proc[q].run] = run[proc[q].run]
    <3> SUFFICES ASSUME NEW q \in Procs, proc[q].pc \in Working
                 PROVE  run'[proc[q].run] = run[proc[q].run]
      OBVIOUS
    <3>1. proc[q].run \in Runs
      BY ProcIs DEF Shape, Placed, Dispatching
    <3>2. proc[q].run # m
      BY <2>1, <2>2 DEF Known, Working
    <3> QED
      BY <2>1, <3>1, <3>2 DEF Wrote
  <2> QED
    BY <2>1, <2>3, ExclusiveGoes DEF Moved, Working
<1>6. ASSUME NEW k \in Runs, TurnStep(k) PROVE Exclusive'
  <2>1. PICK i \in DOMAIN turns[k] : TurnEnds(k, i) \/ \E w \in Workers : Observe(w, k, i)
    BY <1>6 DEF TurnStep
  <2>2. CASE TurnEnds(k, i)
    BY <2>2, TurnEndsFacts, ExclusiveGoes DEF rows, Moved, Keeps, Rests, Working, budget
  <2>3. ASSUME NEW w \in Workers, Observe(w, k, i) PROVE Exclusive'
    <3>1. Wrote(k, Row(turns[k][i])) /\ turns[k][i] \in Outcomes /\ UNCHANGED <<proc, slow>>
      BY <2>3, ObserveFacts DEF budget
    <3>2. run'[k].status \in Settled
      BY <3>1, RowsAre, Names DEF Wrote
    <3>3. \A q \in Procs : proc[q].pc \in Working => proc[q].run \in Runs
      BY ProcIs DEF Shape, Placed, Dispatching
    <3> QED
      BY <3>1, <3>2, <3>3, ExclusiveGoes DEF Wrote
  <2> QED
    BY <2>1, <2>2, <2>3
<1>7. CASE EditRead
  BY <1>7, ExclusiveGoes DEF EditRead, rows, Moved, Keeps, Rests, Working, budget
<1>8. CASE EditWrite
  BY <1>8, EditWriteFacts, ExclusiveGoes DEF Moved, Keeps, Rests, Working, budget
<1>9. CASE DeleteJob
  BY <1>9, ExclusiveGoes DEF DeleteJob, Moved, Keeps, Rests, Working, budget
<1>10. CASE Tick
  BY <1>10, ExclusiveGoes DEF Tick, rows, Moved, Keeps, Rests, Working, budget
<1>11. CASE JobLeaseLapses
  <2>1. UNCHANGED <<run, proc>> /\ (slow' = slow \/ slow' = slow + 1)
    BY <1>11, JobLeaseFacts
  <2>2. slow' = 0 => slow = 0
    BY <2>1 DEF TypeOK
  <2> QED
    BY <2>1, <2>2, ExclusiveGoes
<1>12. ASSUME NEW k \in Runs, RunLeaseLapses(k) PROVE Exclusive'
  <2>1. /\ \A j \in Runs : j # k => run'[j] = run[j]
        /\ (~AtWorkOnRun(k) /\ slow' = slow) \/ slow' = slow + 1
        /\ UNCHANGED proc
    BY <1>12, RunLeaseFacts
  <2>2. slow' = 0 => slow = 0 /\ ~AtWorkOnRun(k)
    BY <2>1 DEF TypeOK
  <2>3. CASE AtWorkOnRun(k)
    BY <2>2, <2>3 DEF Exclusive
  <2>4. CASE ~AtWorkOnRun(k)
    <3>1. \A q \in Procs : proc[q].pc \in Working => proc[q].run \in Runs /\ proc[q].run # k
      BY <2>4, ProcIs DEF Shape, Placed, Dispatching, AtWorkOnRun
    <3> QED
      BY <2>1, <2>2, <3>1, ExclusiveGoes
  <2> QED
    BY <2>3, <2>4
<1> QED
  BY <1>1, <1>2, <1>3, <1>4, <1>5, <1>6, <1>7, <1>8, <1>9, <1>10, <1>11, <1>12 DEF Next, Lapse

------------------------------------------------------------------------------
(* Every turn after the first is paid for.                                  *)

AffordedAt(k) ==
    /\ Cost(k) <= 2 + Paid
    /\ Unheld(k) => Cost(k) <= Paid

\* What a process contributes to the cost of a run.
Share(p, k) ==
    IF proc[p].run # k THEN 0
    ELSE IF proc[p].pc \in {"fetch", "orphan", "start"} THEN 2
    ELSE IF proc[p].pc = "failing" THEN 1 ELSE 0

LEMMA ProcsCount ==
    ASSUME NEW S, S \subseteq Procs, NEW p
    PROVE  /\ IsFiniteSet(S) /\ Cardinality(S) \in Nat
           /\ p \in S => Cardinality(S) = Cardinality(S \ {p}) + 1
           /\ p \notin S => S \ {p} = S
<1>1. IsFiniteSet(Procs)
  BY NamesAssumption, FS_Union DEF Procs
<1>2. IsFiniteSet(S) /\ Cardinality(S) \in Nat
  BY <1>1, FS_Subset, FS_CardinalityType
<1>3. ASSUME p \in S PROVE Cardinality(S) = Cardinality(S \ {p}) + 1
  <2>1. Cardinality(S \ {p}) = Cardinality(S) - 1
    BY <1>2, <1>3, FS_RemoveElement
  <2> QED
    BY <1>2, <2>1
<1> QED
  BY <1>2, <1>3

LEMMA CostIs ==
    ASSUME TypeOK, NEW k \in Runs
    PROVE  /\ Cost(k) \in Nat /\ Len(turns[k]) \in Nat /\ Paid \in Nat
           /\ crashes \in Nat /\ slow \in Nat /\ faults \in Nat
<1>1. PICK n, s, f : /\ n = Len(turns[k]) /\ s = Cardinality(Starting(k)) /\ f = Cardinality(Failing(k))
                     /\ Cost(k) = 2 * n + 2 * s + f
  BY DEF Cost
<1>2. n \in Nat /\ s \in Nat /\ f \in Nat
  BY <1>1, RunIs, LenProperties, ProcsCount DEF Starting, Failing
<1>3. Paid \in Nat /\ crashes \in Nat /\ slow \in Nat /\ faults \in Nat
  BY DEF TypeOK, Paid
<1> QED
  BY <1>1, <1>2, <1>3

\* Two disjoint sets of processes, with and without p.
LEMMA SharesCount ==
    ASSUME NEW S, S \subseteq Procs, NEW F, F \subseteq Procs, NEW p, p \in S => p \notin F
    PROVE  /\ 2 * Cardinality(S \ {p}) + Cardinality(F \ {p}) \in Nat
           /\ 2 * Cardinality(S) + Cardinality(F)
                = (IF p \in S THEN 2 ELSE IF p \in F THEN 1 ELSE 0)
                  + (2 * Cardinality(S \ {p}) + Cardinality(F \ {p}))
<1>1. PICK s, f, t, g : /\ s = Cardinality(S) /\ f = Cardinality(F)
                        /\ t = Cardinality(S \ {p}) /\ g = Cardinality(F \ {p})
  OBVIOUS
<1>2. s \in Nat /\ f \in Nat /\ t \in Nat /\ g \in Nat
  BY <1>1, ProcsCount
<1>3. /\ p \in S => s = t + 1
      /\ p \notin S => s = t
      /\ p \in F => f = g + 1
      /\ p \notin F => f = g
  BY <1>1, ProcsCount
<1>4. 2 * t + g \in Nat
  BY <1>2
<1>5. CASE p \in S
  <2>1. 2 * s + f = 2 + (2 * t + g)
    BY <1>2, <1>3, <1>5
  <2> QED
    BY <1>1, <1>4, <1>5, <2>1
<1>6. CASE p \notin S /\ p \in F
  <2>1. 2 * s + f = 1 + (2 * t + g)
    BY <1>2, <1>3, <1>6
  <2> QED
    BY <1>1, <1>4, <1>6, <2>1
<1>7. CASE p \notin S /\ p \notin F
  <2>1. 2 * s + f = 0 + (2 * t + g)
    BY <1>2, <1>3, <1>7
  <2> QED
    BY <1>1, <1>4, <1>7, <2>1
<1> QED
  BY <1>5, <1>6, <1>7

\* When p moves, the cost changes by its share and by the turns.
LEMMA CostMoves ==
    ASSUME TypeOK, TypeOK', NEW p \in Procs, Moved(p), NEW k \in Runs
    PROVE  \E c \in Nat : /\ Cost(k) = 2 * Len(turns[k]) + Share(p, k) + c
                          /\ Cost(k)' = 2 * Len(turns'[k]) + Share(p, k)' + c
                          /\ Cost(k) \in Nat /\ Cost(k)' \in Nat
                          /\ Len(turns[k]) \in Nat /\ Len(turns'[k]) \in Nat
<1>1. PICK S, F, T, G : S = Starting(k) /\ F = Failing(k) /\ T = Starting(k)' /\ G = Failing(k)'
  OBVIOUS
<1>2. /\ S \subseteq Procs /\ F \subseteq Procs /\ T \subseteq Procs /\ G \subseteq Procs
      /\ (p \in S => p \notin F) /\ (p \in T => p \notin G)
  BY <1>1 DEF Starting, Failing
<1>3. S \ {p} = T \ {p} /\ F \ {p} = G \ {p}
  BY <1>1 DEF Starting, Failing, Moved
<1>4. PICK n, m, c, s, f, t, g : /\ n = Len(turns[k]) /\ m = Len(turns'[k])
                           /\ c = 2 * Cardinality(S \ {p}) + Cardinality(F \ {p})
                           /\ s = Cardinality(S) /\ f = Cardinality(F)
                           /\ t = Cardinality(T) /\ g = Cardinality(G)
  OBVIOUS
<1>5. n \in Nat /\ m \in Nat /\ c \in Nat /\ s \in Nat /\ f \in Nat /\ t \in Nat /\ g \in Nat
  <2>1. n \in Nat /\ m \in Nat
    BY <1>4, LenProperties DEF TypeOK
  <2>2. c \in Nat
    BY <1>2, <1>4, SharesCount
  <2> QED
    BY <1>2, <1>4, <2>1, <2>2, ProcsCount
<1>6. /\ 2 * s + f = Share(p, k) + c
      /\ Share(p, k) \in {0, 1, 2}
  <2>1. Share(p, k) = IF p \in S THEN 2 ELSE IF p \in F THEN 1 ELSE 0
    BY <1>1 DEF Share, Starting, Failing
  <2> QED
    BY <1>2, <1>4, <2>1, SharesCount
<1>7. /\ 2 * t + g = Share(p, k)' + c
      /\ Share(p, k)' \in {0, 1, 2}
  <2>1. Share(p, k)' = IF p \in T THEN 2 ELSE IF p \in G THEN 1 ELSE 0
    BY <1>1 DEF Share, Starting, Failing
  <2>2. 2 * t + g = (IF p \in T THEN 2 ELSE IF p \in G THEN 1 ELSE 0)
                    + (2 * Cardinality(T \ {p}) + Cardinality(G \ {p}))
    <3>1. 2 * Cardinality(T) + Cardinality(G)
            = (IF p \in T THEN 2 ELSE IF p \in G THEN 1 ELSE 0)
              + (2 * Cardinality(T \ {p}) + Cardinality(G \ {p}))
      BY <1>2, SharesCount
    <3> QED
      BY <1>4, <3>1
  <2> QED
    BY <1>3, <1>4, <2>1, <2>2
<1>8. Cost(k) = 2 * n + 2 * s + f /\ Cost(k)' = 2 * m + 2 * t + g
  BY <1>1, <1>4 DEF Cost
<1>9. 2 * n + 2 * s + f = 2 * n + Share(p, k) + c
  BY <1>5, <1>6
<1>10. 2 * m + 2 * t + g = 2 * m + Share(p, k)' + c
  BY <1>5, <1>7
<1>11. Cost(k) \in Nat /\ Cost(k)' \in Nat
  BY <1>5, <1>8
<1> QED
  BY <1>4, <1>5, <1>8, <1>9, <1>10, <1>11

LEMMA ShareOfOthers ==
    ASSUME TypeOK, TypeOK', NEW p \in Procs, Moved(p), NEW k \in Runs,
           Share(p, k) = 0, Share(p, k)' = 0, turns'[k] = turns[k]
    PROVE  Cost(k)' = Cost(k)
<1>1. PICK c \in Nat : /\ Cost(k) = 2 * Len(turns[k]) + Share(p, k) + c
                       /\ Cost(k)' = 2 * Len(turns'[k]) + Share(p, k)' + c
  BY CostMoves
<1> QED
  BY <1>1

LEMMA PaidIs ==
    ASSUME TypeOK
    PROVE  Paid \in Nat /\ \A k \in Runs : Cost(k) \in Nat
BY CostIs DEF TypeOK, Paid

\* A process that does not work on the run k leaves its account alone.
LEMMA AccountRests ==
    ASSUME TypeOK, TypeOK', NEW p \in Procs, Moved(p), NEW k \in Runs, AffordedAt(k),
           proc[p].pc \in Working => proc[p].run # k,
           proc'[p].pc \in Working => proc'[p].run # k,
           turns'[k] = turns[k], run'[k] = run[k], Paid' \in Nat, Paid <= Paid'
    PROVE  AffordedAt(k)'
<1>1. Share(p, k) = 0 /\ Share(p, k)' = 0
  BY DEF Share, Working
<1>2. Cost(k)' = Cost(k)
  BY <1>1, ShareOfOthers
<1>3. AtWorkOnRun(k)' <=> AtWorkOnRun(k)
  BY DEF AtWorkOnRun, Moved
<1>4. Unheld(k)' => Unheld(k)
  BY <1>3 DEF Unheld
<1>5. Cost(k) \in Nat /\ Paid \in Nat
  BY PaidIs
<1> QED
  BY <1>2, <1>4, <1>5 DEF AffordedAt

\* A process that stays at work on k, or settles it, costs no more.
LEMMA AccountHolds ==
    ASSUME TypeOK, NEW k \in Runs, AffordedAt(k),
           Cost(k)' \in Nat, Cost(k)' <= Cost(k), Paid' = Paid,
           \/ AtWorkOnRun(k) /\ AtWorkOnRun(k)' /\ run'[k] = run[k]
           \/ run'[k].status \notin Pending
    PROVE  AffordedAt(k)'
<1>1. Cost(k) \in Nat /\ Paid \in Nat
  BY PaidIs
<1> QED
  BY <1>1 DEF AffordedAt, Unheld

LEMMA WorksOn ==
    ASSUME TypeOK, Shape, NEW p \in Procs, proc[p].pc \in Working
    PROVE  proc[p].run \in Runs /\ AtWorkOnRun(proc[p].run)
BY ProcIs DEF Shape, Placed, Dispatching, AtWorkOnRun

\* The accounts of all runs, when p works on none or on k only.
LEMMA AccountsRest ==
    ASSUME TypeOK, TypeOK', Affordable, NEW p \in Procs, Moved(p), NEW k,
           proc[p].pc \in Working => proc[p].run = k,
           proc'[p].pc \in Working => proc'[p].run = k,
           \A j \in Runs : j # k => turns'[j] = turns[j] /\ run'[j] = run[j],
           Paid' \in Nat, Paid <= Paid',
           k \in Runs => AffordedAt(k)'
    PROVE  Affordable'
<1> SUFFICES ASSUME NEW j \in Runs, j # k PROVE AffordedAt(j)'
  BY DEF Affordable, AffordedAt
<1>1. AffordedAt(j)
  BY DEF Affordable, AffordedAt
<1> QED
  BY <1>1, AccountRests

LEMMA AccountsIdle ==
    ASSUME TypeOK, TypeOK', Affordable, NEW p \in Procs, Moved(p),
           proc[p].pc \notin Working, proc'[p].pc \notin Working,
           turns' = turns, run' = run, Paid' \in Nat, Paid <= Paid'
    PROVE  Affordable'
BY Names, AccountsRest

LEMMA ClaimIsPaid ==
    ASSUME TypeOK, TypeOK', Affordable, NEW p \in Procs, Moved(p), NEW k \in Runs,
           proc[p].pc \notin Working, proc'[p].pc \in Working, proc'[p].run = k,
           Claimable(k), Wrote(k, Claimed), turns' = turns, Paid' = Paid
    PROVE  Affordable'
<1>1. AffordedAt(k) /\ Unheld(k)
  BY DEF Affordable, AffordedAt, Unheld, Claimable
<1>2. PICK c \in Nat : /\ Cost(k) = 2 * Len(turns[k]) + Share(p, k) + c
                       /\ Cost(k)' = 2 * Len(turns'[k]) + Share(p, k)' + c
                       /\ Len(turns[k]) \in Nat
  BY CostMoves
<1>3. Share(p, k) = 0 /\ Share(p, k)' \in {0, 1, 2}
  BY DEF Share, Working
<1>4. Cost(k)' <= 2 + Paid
  <2>1. Cost(k) <= Paid /\ Paid \in Nat
    BY <1>1, PaidIs DEF AffordedAt
  <2> QED
    BY <1>2, <1>3, <2>1
<1>5. AtWorkOnRun(k)' /\ run'[k].live
  BY RowsAre DEF AtWorkOnRun, Wrote
<1>6. AffordedAt(k)'
  BY <1>4, <1>5 DEF AffordedAt, Unheld
<1> QED
  BY <1>6, PaidIs, AccountsRest DEF Wrote

LEMMA StaysAtWork ==
    ASSUME TypeOK, TypeOK', Affordable, NEW p \in Procs, Moved(p), NEW k \in Runs,
           proc[p].pc \in Working, proc'[p].pc \in Working, proc[p].run = k, proc'[p].run = k,
           \A j \in Runs : j # k => turns'[j] = turns[j], run' = run, Paid' = Paid,
           2 * Len(turns'[k]) + Share(p, k)' <= 2 * Len(turns[k]) + Share(p, k)
    PROVE  Affordable'
<1>1. PICK c \in Nat : /\ Cost(k) = 2 * Len(turns[k]) + Share(p, k) + c
                       /\ Cost(k)' = 2 * Len(turns'[k]) + Share(p, k)' + c
                       /\ Cost(k)' \in Nat /\ Len(turns[k]) \in Nat /\ Len(turns'[k]) \in Nat
  BY CostMoves
<1>2. Share(p, k) \in {0, 1, 2} /\ Share(p, k)' \in {0, 1, 2}
  BY DEF Share
<1>3. Cost(k)' <= Cost(k)
  <2>1. PICK n \in Nat, m \in Nat, s \in {0, 1, 2}, t \in {0, 1, 2} :
          n = Len(turns[k]) /\ m = Len(turns'[k]) /\ s = Share(p, k) /\ t = Share(p, k)'
    BY <1>1, <1>2
  <2>2. 2 * m + t <= 2 * n + s
    BY <2>1
  <2>3. Cost(k) = 2 * n + s + c /\ Cost(k)' = 2 * m + t + c
    BY <1>1, <2>1
  <2> QED
    BY <2>2, <2>3
<1>4. AtWorkOnRun(k) /\ AtWorkOnRun(k)'
  BY DEF AtWorkOnRun
<1>5. AffordedAt(k)'
  BY <1>1, <1>3, <1>4, AccountHolds DEF Affordable, AffordedAt
<1> QED
  BY <1>5, PaidIs, AccountsRest

LEMMA SettledIsPaid ==
    ASSUME TypeOK, TypeOK', Affordable, NEW p \in Procs, Moved(p), NEW k \in Runs, NEW row \in RunRows,
           proc[p].run = k, proc'[p].pc \notin Working, Wrote(k, row), row.status \notin Pending,
           turns' = turns, Paid' = Paid
    PROVE  Affordable'
<1>1. PICK c \in Nat : /\ Cost(k) = 2 * Len(turns[k]) + Share(p, k) + c
                       /\ Cost(k)' = 2 * Len(turns'[k]) + Share(p, k)' + c
                       /\ Cost(k)' \in Nat /\ Len(turns[k]) \in Nat
  BY CostMoves
<1>2. Share(p, k) \in {0, 1, 2} /\ Share(p, k)' = 0
  BY DEF Share, Working
<1>3. Cost(k)' <= Cost(k)
  BY <1>1, <1>2
<1>4. AffordedAt(k)'
  BY <1>1, <1>3, AccountHolds DEF Affordable, AffordedAt, Wrote
<1> QED
  BY <1>4, PaidIs, AccountsRest DEF Wrote

\* A dispatcher that gives up leaves a run that another may take up.
LEMMA GivenUpIsPaid ==
    ASSUME TypeOK, TypeOK', Affordable, NEW p \in Procs, Moved(p), NEW k \in Runs,
           proc[p].run = k, proc'[p].pc \notin Working, run' = run, turns' = turns,
           \/ Share(p, k) = 2 /\ Paid' \in Nat /\ Paid <= Paid'
           \/ Share(p, k) = 1 /\ Paid' = Paid + 1
    PROVE  Affordable'
<1>1. PICK c \in Nat : /\ Cost(k) = 2 * Len(turns[k]) + Share(p, k) + c
                       /\ Cost(k)' = 2 * Len(turns'[k]) + Share(p, k)' + c
                       /\ Len(turns[k]) \in Nat
  BY CostMoves
<1>2. Share(p, k)' = 0
  BY DEF Share, Working
<1>3. Cost(k) <= 2 + Paid /\ Paid \in Nat /\ Paid' \in Nat /\ Paid <= Paid'
  BY PaidIs DEF Affordable
<1>4. PICK n \in Nat : Len(turns[k]) = n /\ Len(turns'[k]) = n
  BY <1>1
<1>5. Cost(k)' = 2 * n + c /\ Cost(k)' <= Paid'
  BY <1>1, <1>2, <1>3, <1>4
<1>6. Cost(k)' <= 2 + Paid'
  <2>1. PICK x \in Nat, y \in Nat : x = Cost(k)' /\ y = Paid'
    BY <1>3, <1>5
  <2>2. x <= y
    BY <1>5, <2>1
  <2>3. x <= 2 + y
    BY <2>2
  <2> QED
    BY <2>1, <2>3
<1>7. AffordedAt(k)'
  BY <1>5, <1>6 DEF AffordedAt
<1> QED
  BY <1>3, <1>7, AccountsRest

LEMMA PaidWillBe ==
    ASSUME TypeOK'
    PROVE  Paid' \in Nat
<1>1. crashes' \in Nat /\ slow' \in Nat /\ faults' \in Nat
  BY DEF TypeOK
<1>2. PICK c \in Nat, s \in Nat, f \in Nat : c = crashes' /\ s = slow' /\ f = faults'
  BY <1>1
<1>3. Paid' = 2 * c + 2 * s + f
  BY <1>2 DEF Paid
<1> QED
  BY <1>3

\* The processes stand still: a run is free only if it was, or its lapse is paid.
LEMMA AccountsStill ==
    ASSUME TypeOK, TypeOK', Affordable, UNCHANGED proc, Paid <= Paid',
           \A k \in Runs : Len(turns'[k]) = Len(turns[k]),
           \A k \in Runs : Unheld(k)' => Unheld(k) \/ Paid' = Paid + 2
    PROVE  Affordable'
<1> SUFFICES ASSUME NEW k \in Runs PROVE AffordedAt(k)'
  BY DEF Affordable, AffordedAt
<1>0. Cost(k) \in Nat /\ Paid \in Nat /\ Paid' \in Nat
  BY PaidIs, PaidWillBe
<1>1. PICK x \in Nat, y \in Nat, z \in Nat : x = Cost(k) /\ y = Paid /\ z = Paid'
  BY <1>0
<1>2. x <= 2 + y /\ (Unheld(k) => x <= y) /\ y <= z
  BY <1>1 DEF Affordable
<1>3. Cost(k)' = x
  <2>1. Starting(k)' = Starting(k) /\ Failing(k)' = Failing(k)
    BY DEF Starting, Failing
  <2> QED
    BY <1>1, <2>1 DEF Cost
<1>4. x <= 2 + z
  BY <1>2
<1>5. Unheld(k)' => x <= z
  <2>1. CASE Unheld(k)
    BY <1>2, <2>1
  <2>2. CASE z = y + 2
    BY <1>2, <2>2
  <2> QED
    BY <1>1, <2>1, <2>2
<1> QED
  BY <1>1, <1>3, <1>4, <1>5 DEF AffordedAt

\* The first row of a run: nothing has been spent on it.
LEMMA FirstIsPaid ==
    ASSUME TypeOK, TypeOK', Known, Affordable, NEW p \in Procs, Moved(p), NEW k \in Runs,
           run[k].status = "absent", Wrote(k, Row("queued")), proc[p].pc \notin Working,
           proc'[p].pc = "claim", turns' = turns, Paid' = Paid
    PROVE  Affordable'
<1>1. \A q \in Procs : proc'[q].run = k => proc'[q].pc \in {"create", "claim"}
  BY DEF Known, Moved
<1>2. Starting(k)' = {} /\ Failing(k)' = {}
  BY <1>1 DEF Starting, Failing
<1>3. Len(turns'[k]) = 0
  BY EmptySeq DEF Known
<1>4. Cost(k)' = 0
  BY <1>2, <1>3, FS_EmptySet DEF Cost
<1>5. Paid \in Nat
  BY PaidIs
<1>6. Cost(k)' <= Paid' /\ Cost(k)' <= 2 + Paid'
  <2>1. PICK y \in Nat : y = Paid /\ y = Paid'
    BY <1>5
  <2>2. 0 <= y /\ 0 <= 2 + y
    OBVIOUS
  <2> QED
    BY <1>4, <2>1, <2>2
<1>7. AffordedAt(k)'
  BY <1>6 DEF AffordedAt
<1>8. /\ proc'[p].pc \notin Working
      /\ \A j \in Runs : j # k => run'[j] = run[j] /\ turns'[j] = turns[j]
  BY DEF Working, Wrote
<1>9. Paid' \in Nat /\ Paid <= Paid'
  BY <1>5
<1> QED
  BY <1>7, <1>8, <1>9, AccountsRest

\* The start of a turn cannot be noted: its dispatcher, about to fail the run, may
\* not be able to note that either.
LEMMA UnmarkedIsPaid ==
    ASSUME TypeOK, TypeOK', Affordable, NEW p \in Procs, Moved(p), NEW k \in Runs,
           proc[p].run = k, proc'[p].run = k, proc[p].pc = "mark", proc'[p].pc = "failing",
           run' = run \/ Wrote(k, Row("running")), turns' = turns, Paid' = Paid + 1
    PROVE  Affordable'
<1>1. PICK c \in Nat : /\ Cost(k) = 2 * Len(turns[k]) + Share(p, k) + c
                       /\ Cost(k)' = 2 * Len(turns'[k]) + Share(p, k)' + c
                       /\ Len(turns[k]) \in Nat
  BY CostMoves
<1>2. Share(p, k) = 0 /\ Share(p, k)' = 1
  BY DEF Share
<1>3. Cost(k) <= 2 + Paid /\ Paid \in Nat
  BY PaidIs DEF Affordable
<1>4. PICK n \in Nat : Len(turns[k]) = n /\ Len(turns'[k]) = n
  BY <1>1
<1>5. PICK y \in Nat : y = Paid /\ Paid' = y + 1
  BY <1>3
<1>6. Cost(k)' = 2 * n + 1 + c /\ Cost(k) = 2 * n + c /\ 2 * n + c <= 2 + y
  BY <1>1, <1>2, <1>3, <1>4, <1>5
<1>7. Cost(k)' <= 2 + Paid'
  BY <1>5, <1>6
<1>8. Unheld(k)' => Cost(k)' <= Paid'
  <2>1. CASE run' = run
    <3>1. AtWorkOnRun(k)' /\ AtWorkOnRun(k)
      BY DEF AtWorkOnRun, Working
    <3>2. Unheld(k)' => 2 * n + c <= y
      BY <1>5, <1>6, <2>1, <3>1 DEF Unheld, Affordable
    <3> QED
      BY <1>5, <1>6, <3>2
  <2>2. CASE Wrote(k, Row("running"))
    BY <2>2, RowsAre, Names DEF Wrote, Unheld
  <2> QED
    BY <2>1, <2>2
<1>9. AffordedAt(k)'
  BY <1>7, <1>8 DEF AffordedAt
<1>10. Paid' \in Nat /\ Paid <= Paid'
  BY <1>5
<1>11. \A j \in Runs : j # k => run'[j] = run[j] /\ turns'[j] = turns[j]
  BY DEF Wrote
<1> QED
  BY <1>9, <1>10, <1>11, AccountsRest

\* A crash pays for every run its process leaves.
LEMMA CrashIsPaid ==
    ASSUME TypeOK, TypeOK', Shape, Affordable, NEW w \in Workers, Crash(w)
    PROVE  Affordable'
<1> SUFFICES ASSUME NEW k \in Runs PROVE AffordedAt(k)'
  BY DEF Affordable, AffordedAt
<1>1. \A p \in Procs : proc'[p] = proc[p] \/ proc'[p].run = None
  BY CrashFacts
<1>2. PICK S, F, T, G : S = Starting(k) /\ F = Failing(k) /\ T = Starting(k)' /\ G = Failing(k)'
  OBVIOUS
<1>3. T \subseteq S /\ G \subseteq F /\ S \subseteq Procs /\ F \subseteq Procs
  BY <1>1, <1>2, Names DEF Starting, Failing
<1>4. /\ Cardinality(T) \in Nat /\ Cardinality(S) \in Nat /\ Cardinality(T) <= Cardinality(S)
      /\ Cardinality(G) \in Nat /\ Cardinality(F) \in Nat /\ Cardinality(G) <= Cardinality(F)
  <2>1. IsFiniteSet(S) /\ IsFiniteSet(F) /\ T \subseteq Procs /\ G \subseteq Procs
    BY <1>3, ProcsCount
  <2> QED
    BY <1>3, <2>1, FS_Subset, ProcsCount
<1>5. /\ Len(turns[k]) \in Nat /\ turns' = turns /\ Paid \in Nat
      /\ Cost(k) <= 2 + Paid
  BY CostIs, CrashFacts DEF Affordable
<1>6. Paid' = Paid + 2
  <2>1. crashes' = crashes + 1 /\ faults' = faults /\ slow' = slow
    BY CrashFacts
  <2>2. crashes \in Nat /\ slow \in Nat /\ faults \in Nat
    BY CostIs
  <2> QED
    BY <2>1, <2>2 DEF Paid
<1>7. PICK n \in Nat, s \in Nat, f \in Nat, t \in Nat, g \in Nat, y \in Nat :
        /\ n = Len(turns[k]) /\ s = Cardinality(S) /\ f = Cardinality(F)
        /\ t = Cardinality(T) /\ g = Cardinality(G) /\ y = Paid
  BY <1>4, <1>5
<1>8. Cost(k) = 2 * n + 2 * s + f /\ Cost(k)' = 2 * n + 2 * t + g
  BY <1>2, <1>5, <1>7 DEF Cost
<1>9. t <= s /\ g <= f /\ 2 * n + 2 * s + f <= 2 + y
  BY <1>4, <1>5, <1>7, <1>8
<1>10. Cost(k)' <= Paid' /\ Cost(k)' <= 2 + Paid'
  <2>1. 2 * n + 2 * t + g <= 2 + y /\ 2 * n + 2 * t + g <= 2 + (y + 2)
    BY <1>9
  <2>2. Paid' = y + 2 /\ y + 2 = 2 + y
    BY <1>6, <1>7
  <2> QED
    BY <1>8, <2>1, <2>2
<1> QED
  BY <1>10 DEF AffordedAt

LEMMA AffordableNext ==
    ASSUME TypeOK, Shape, Known, Handed, Affordable, Next
    PROVE  Affordable'
<1> USE TypeNext
<1>0. UNCHANGED budget => Paid' = Paid /\ Paid' \in Nat /\ Paid <= Paid'
  BY PaidIs DEF budget, Paid
<1>1. ASSUME NEW w \in Workers, LoopStep(w) PROVE Affordable'
  <2>0. w \in Procs
    BY Names
  <2>1. ASSUME NEW k \in Runs, TakePending(w, k) PROVE Affordable'
    <3>1. /\ Moved(w) /\ proc[w].pc \notin Working /\ proc'[w].pc \in Working /\ proc'[w].run = k
          /\ Claimable(k) /\ Wrote(k, Claimed) /\ turns' = turns /\ UNCHANGED budget
      BY <2>1, TakePendingFacts DEF Working
    <3> QED
      BY <2>0, <3>1, <1>0, ClaimIsPaid
  <2>2. CASE NothingPending(w)
    <3>1. /\ Moved(w) /\ proc[w].pc \notin Working /\ proc'[w].pc \notin Working
          /\ turns' = turns /\ run' = run /\ UNCHANGED budget
      <4>1. proc[w].pc = "recover"
        BY <2>2 DEF NothingPending
      <4> QED
        BY <2>2, <4>1, NothingPendingFacts DEF rows, Working
    <3> QED
      BY <2>0, <3>1, <1>0, AccountsIdle
  <2>3. CASE FetchJob(w)
    <3>1. PICK k \in Runs : k = proc[w].run
      BY <2>3, FetchJobFacts
    <3>2. /\ Moved(w) /\ proc[w].pc = "fetch" /\ proc'[w].pc \in {"start", "orphan"} /\ proc'[w].run = k
          /\ run' = run /\ turns' = turns /\ UNCHANGED budget
      BY <2>3, <3>1, FetchJobFacts DEF rows
    <3>3. Share(w, k) = 2 /\ Share(w, k)' = 2
      BY <3>1, <3>2 DEF Share
    <3>4. Len(turns[k]) \in Nat
      BY CostIs
    <3>5. 2 * Len(turns'[k]) + Share(w, k)' <= 2 * Len(turns[k]) + Share(w, k)
      BY <3>2, <3>3, <3>4
    <3> QED
      BY <2>0, <3>1, <3>2, <3>5, <1>0, StaysAtWork DEF Working
  <2>4. CASE FailPendingRun(w)
    <3>1. PICK k \in Runs : k = proc[w].run
      BY <2>4, FailPendingRunFacts
    <3>2. /\ Moved(w) /\ proc[w].pc = "orphan" /\ proc'[w].pc \notin Working
          /\ turns' = turns /\ UNCHANGED budget
          /\ run' = run \/ Wrote(k, Row("failed"))
      BY <2>4, <3>1, FailPendingRunFacts DEF Rests, Working
    <3>3. CASE Wrote(k, Row("failed"))
      <4>1. Row("failed") \in RunRows /\ Row("failed").status \notin Pending
        BY RowsAre, Names
      <4> QED
        BY <2>0, <3>1, <3>2, <3>3, <4>1, <1>0, SettledIsPaid
    <3>4. CASE run' = run
      <4>1. Share(w, k) = 2
        BY <3>1, <3>2 DEF Share
      <4> QED
        BY <2>0, <3>1, <3>2, <3>4, <4>1, <1>0, GivenUpIsPaid
    <3> QED
      BY <3>2, <3>3, <3>4
  <2>5. CASE ClaimDueJob(w)
    <3>1. /\ Moved(w) /\ proc[w].pc \notin Working /\ proc'[w].pc \notin Working
          /\ turns' = turns /\ run' = run /\ UNCHANGED budget
      BY <2>0, <2>5, ClaimDueJobFacts DEF Working
    <3> QED
      BY <2>0, <3>1, <1>0, AccountsIdle
  <2>6. CASE NothingDue(w)
    <3>1. /\ Moved(w) /\ proc[w].pc \notin Working /\ proc'[w].pc \notin Working
          /\ turns' = turns /\ run' = run /\ UNCHANGED budget
      BY <2>0, <2>6, NothingDueFacts DEF NothingDue, rows, Rests, Working
    <3> QED
      BY <2>0, <3>1, <1>0, AccountsIdle
  <2>7. CASE CreateRun(w)
    <3>1. PICK k \in Runs : k = proc[w].run
      BY <2>7, CreateRunFacts, Names
    <3>2. /\ Moved(w) /\ proc[w].pc = "create" /\ proc[w].pc \notin Working /\ turns' = turns /\ UNCHANGED budget
          /\ \/ run[k].status = "absent" /\ Wrote(k, Row("queued")) /\ proc'[w].pc = "claim"
             \/ run' = run /\ proc'[w].pc = "existing"
      BY <2>7, <3>1, CreateRunFacts DEF Working
    <3>3. CASE run[k].status = "absent" /\ Wrote(k, Row("queued")) /\ proc'[w].pc = "claim"
      BY <2>0, <3>2, <3>3, <1>0, FirstIsPaid
    <3>4. CASE run' = run /\ proc'[w].pc = "existing"
      BY <2>0, <3>2, <3>4, <1>0, AccountsIdle DEF Working
    <3> QED
      BY <3>2, <3>3, <3>4
  <2>8. CASE CheckExisting(w)
    <3>1. /\ Moved(w) /\ proc[w].pc \notin Working /\ proc'[w].pc \notin Working
          /\ turns' = turns /\ run' = run /\ UNCHANGED budget
      BY <2>0, <2>8, CheckExistingFacts DEF CheckExisting, rows, Rests, Working
    <3> QED
      BY <2>0, <3>1, <1>0, AccountsIdle
  <2> QED
    BY <1>1, <2>1, <2>2, <2>3, <2>4, <2>5, <2>6, <2>7, <2>8 DEF LoopStep
<1>2. ASSUME NEW p \in Procs, DispatchStep(p) PROVE Affordable'
  <2>1. CASE ClaimRun(p)
    <3>1. PICK k \in Runs : k = proc[p].run
      BY <2>1, ClaimRunFacts
    <3>2. /\ Moved(p) /\ proc[p].pc \notin Working /\ turns' = turns /\ UNCHANGED budget
          /\ \/ /\ Claimable(k) /\ Wrote(k, Claimed) /\ proc'[p].run = k
                /\ proc'[p].pc \in Working
             \/ run' = run /\ proc'[p].pc \notin Working
      BY <2>1, <3>1, ClaimRunFacts DEF Working, Keeps, Rests
    <3>3. CASE run' = run /\ proc'[p].pc \notin Working
      BY <3>2, <3>3, <1>0, AccountsIdle
    <3> QED
      BY <3>2, <3>3, <1>0, ClaimIsPaid
  <2>2. CASE Refuse(p)
    <3>1. PICK k \in Runs : k = proc[p].run
      BY <2>2, RefuseFacts
    <3>2. /\ Moved(p) /\ proc[p].pc = "start" /\ proc'[p].pc = "failing" /\ proc'[p].run = k
          /\ run' = run /\ turns' = turns /\ UNCHANGED budget
      BY <2>2, <3>1, RefuseFacts DEF rows, Keeps
    <3>3. Share(p, k) = 2 /\ Share(p, k)' = 1
      BY <3>1, <3>2 DEF Share
    <3>4. Len(turns[k]) \in Nat
      BY CostIs
    <3>5. 2 * Len(turns'[k]) + Share(p, k)' <= 2 * Len(turns[k]) + Share(p, k)
      BY <3>2, <3>3, <3>4
    <3> QED
      BY <3>1, <3>2, <3>5, <1>0, StaysAtWork DEF Working
  <2>3. CASE PrepareTurn(p)
    <3>1. PICK k \in Runs : k = proc[p].run
      BY <2>3, PrepareTurnFacts
    <3>2. /\ Moved(p) /\ proc[p].pc = "start" /\ proc'[p].pc = "mark" /\ proc'[p].run = k
          /\ turns'[k] = Append(turns[k], "running") /\ run' = run /\ UNCHANGED budget
          /\ \A j \in Runs : j # k => turns'[j] = turns[j]
      BY <2>3, <3>1, PrepareTurnFacts DEF rows, Keeps
    <3>3. Share(p, k) = 2 /\ Share(p, k)' = 0
      BY <3>1, <3>2 DEF Share
    <3>4. Len(turns[k]) \in Nat /\ Len(turns'[k]) = Len(turns[k]) + 1
      BY <3>2, RunIs, LenProperties, AppendProperties
    <3>5. 2 * Len(turns'[k]) + Share(p, k)' <= 2 * Len(turns[k]) + Share(p, k)
      BY <3>3, <3>4
    <3> QED
      BY <3>1, <3>2, <3>5, <1>0, StaysAtWork DEF Working
  <2>4. CASE MarkStarted(p)
    <3>1. PICK k \in Runs : k = proc[p].run
      BY <2>4, MarkStartedFacts
    <3>2. /\ Moved(p) /\ proc'[p].pc \notin Working /\ Wrote(k, Row("running"))
          /\ turns' = turns /\ UNCHANGED budget
      BY <2>4, <3>1, MarkStartedFacts DEF Leaves, Rests, Working
    <3>3. Row("running") \in RunRows /\ Row("running").status \notin Pending
      BY RowsAre, Names
    <3> QED
      BY <3>1, <3>2, <3>3, <1>0, SettledIsPaid
  <2>5. CASE FailBeforeStart(p)
    <3>1. PICK k \in Runs : k = proc[p].run
      BY <2>5, FailBeforeStartFacts
    <3>2. /\ Moved(p) /\ proc'[p].pc \notin Working /\ Wrote(k, Row("failed"))
          /\ turns' = turns /\ UNCHANGED budget
      BY <2>5, <3>1, FailBeforeStartFacts DEF Leaves, Rests, Working
    <3>3. Row("failed") \in RunRows /\ Row("failed").status \notin Pending
      BY RowsAre, Names
    <3> QED
      BY <3>1, <3>2, <3>3, <1>0, SettledIsPaid
  <2>6. CASE Release(p)
    <3>1. /\ Moved(p) /\ proc[p].pc \notin Working /\ proc'[p].pc \notin Working
          /\ turns' = turns /\ run' = run /\ UNCHANGED budget
      BY <2>6, ReleaseFacts DEF Rests, Working
    <3> QED
      BY <3>1, <1>0, AccountsIdle
  <2>7. CASE Unlease(p)
    <3>1. /\ Moved(p) /\ proc[p].pc \notin Working /\ proc'[p].pc \notin Working
          /\ turns' = turns /\ run' = run /\ UNCHANGED budget
      BY <2>7, UnleaseFacts DEF Unlease, Rests, Working
    <3> QED
      BY <3>1, <1>0, AccountsIdle
  <2> QED
    BY <1>2, <2>1, <2>2, <2>3, <2>4, <2>5, <2>6, <2>7 DEF DispatchStep
<1>3. ASSUME NEW p \in Procs, OperationRaises(p) PROVE Affordable'
  <2>1. Paid' = Paid + 1 /\ turns' = turns
    BY <1>3, OperationRaisesFacts DEF Paid, TypeOK
  <2>2. Moved(p)
    BY <1>3, OperationRaisesFacts
  <2>3. Paid \in Nat /\ Paid' \in Nat /\ Paid <= Paid'
    BY <2>1, PaidIs
  <2>4. CASE proc[p].pc = "mark"
    <3>1. PICK k \in Runs : k = proc[p].run
      BY <1>3, <2>4, OperationRaisesFacts
    <3>2. /\ proc'[p].run = k /\ proc'[p].pc = "failing"
          /\ run' = run \/ Wrote(k, Row("running"))
      BY <1>3, <2>4, <3>1, OperationRaisesFacts DEF Keeps
    <3> QED
      BY <2>1, <2>2, <2>4, <3>1, <3>2, UnmarkedIsPaid
  <2>5. CASE proc[p].pc \in Working \ {"mark"}
    <3>1. PICK k \in Runs : k = proc[p].run
      BY <2>5, WorksOn
    <3>2. run' = run /\ proc'[p].pc \notin Working
      BY <1>3, <2>5, OperationRaisesFacts DEF Rests, Working
    <3>3. Share(p, k) \in {1, 2}
      BY <2>5, <3>1 DEF Share, Working
    <3> QED
      BY <2>1, <2>2, <2>3, <3>1, <3>2, <3>3, GivenUpIsPaid
  <2>6. CASE proc[p].pc \notin Working
    <3>1. run' = run /\ proc'[p].pc \notin Working
      BY <1>3, <2>6, OperationRaisesFacts DEF Rests, Working
    <3> QED
      BY <2>1, <2>2, <2>3, <2>6, <3>1, AccountsIdle
  <2> QED
    BY <2>4, <2>5, <2>6
<1>4. ASSUME NEW w \in Workers, Crash(w) PROVE Affordable'
  BY <1>4, CrashIsPaid
<1>5. ASSUME NEW w \in Workers, NEW m \in Manuals, RunNow(w, m) PROVE Affordable'
  <2>1. /\ m \in Procs /\ m \in Runs /\ Moved(m) /\ Wrote(m, Row("queued")) /\ proc[m].pc = "ready"
        /\ proc'[m].pc = "claim" /\ turns' = turns /\ UNCHANGED <<crashes, slow, faults>>
    BY <1>5, Names, RunNowFacts
  <2>2. run[m].status = "absent" /\ proc[m].pc \notin Working /\ Paid' = Paid
    BY <2>1 DEF Known, Working, Paid
  <2> QED
    BY <2>1, <2>2, FirstIsPaid
<1>6. ASSUME NEW k \in Runs, TurnStep(k) PROVE Affordable'
  <2>1. PICK i \in DOMAIN turns[k] : TurnEnds(k, i) \/ \E w \in Workers : Observe(w, k, i)
    BY <1>6 DEF TurnStep
  <2>2. CASE TurnEnds(k, i)
    <3>1. /\ UNCHANGED <<proc, run, crashes, slow, faults>>
          /\ \A j \in Runs : Len(turns'[j]) = Len(turns[j])
      BY <2>2, TurnEndsFacts DEF rows, budget
    <3>2. Paid' = Paid /\ Paid <= Paid' /\ \A j \in Runs : Unheld(j)' <=> Unheld(j)
      BY <3>1, PaidIs DEF Paid, Unheld, AtWorkOnRun
    <3> QED
      BY <3>1, <3>2, AccountsStill
  <2>3. ASSUME NEW w \in Workers, Observe(w, k, i) PROVE Affordable'
    <3>1. /\ UNCHANGED <<proc, turns, crashes, slow, faults>>
          /\ Wrote(k, Row(turns[k][i])) /\ turns[k][i] \in Outcomes
      BY <2>3, ObserveFacts DEF budget
    <3>2. run'[k].status \notin Pending
      BY <3>1, RowsAre, Names DEF Wrote
    <3>3. Paid' = Paid /\ Paid <= Paid' /\ \A j \in Runs : Unheld(j)' => Unheld(j)
      BY <3>1, <3>2, PaidIs DEF Paid, Unheld, AtWorkOnRun, Wrote
    <3> QED
      BY <3>1, <3>3, AccountsStill
  <2> QED
    BY <2>1, <2>2, <2>3
<1>7. CASE EditRead
  <2>1. UNCHANGED <<proc, run, turns, crashes, slow, faults>>
    BY <1>7 DEF EditRead, rows, budget
  <2>2. Paid' = Paid /\ Paid <= Paid' /\ \A j \in Runs : Unheld(j)' <=> Unheld(j)
    BY <2>1, PaidIs DEF Paid, Unheld, AtWorkOnRun
  <2> QED
    BY <2>1, <2>2, AccountsStill
<1>8. CASE EditWrite
  <2>1. UNCHANGED <<proc, run, turns, crashes, slow, faults>>
    BY <1>8, EditWriteFacts DEF budget
  <2>2. Paid' = Paid /\ Paid <= Paid' /\ \A j \in Runs : Unheld(j)' <=> Unheld(j)
    BY <2>1, PaidIs DEF Paid, Unheld, AtWorkOnRun
  <2> QED
    BY <2>1, <2>2, AccountsStill
<1>9. CASE DeleteJob
  <2>1. UNCHANGED <<proc, run, turns, crashes, slow, faults>>
    BY <1>9 DEF DeleteJob, rows, budget
  <2>2. Paid' = Paid /\ Paid <= Paid' /\ \A j \in Runs : Unheld(j)' <=> Unheld(j)
    BY <2>1, PaidIs DEF Paid, Unheld, AtWorkOnRun
  <2> QED
    BY <2>1, <2>2, AccountsStill
<1>10. CASE Tick
  <2>1. UNCHANGED <<proc, run, turns, crashes, slow, faults>>
    BY <1>10 DEF Tick, rows, budget
  <2>2. Paid' = Paid /\ Paid <= Paid' /\ \A j \in Runs : Unheld(j)' <=> Unheld(j)
    BY <2>1, PaidIs DEF Paid, Unheld, AtWorkOnRun
  <2> QED
    BY <2>1, <2>2, AccountsStill
<1>11. CASE JobLeaseLapses
  <2>1. /\ UNCHANGED <<proc, run, turns, crashes, faults>> /\ (slow' = slow \/ slow' = slow + 1)
    BY <1>11, JobLeaseFacts
  <2>2. Paid <= Paid'
    <3>1. crashes \in Nat /\ slow \in Nat /\ faults \in Nat
      BY DEF TypeOK
    <3> QED
      BY <2>1, <3>1 DEF Paid
  <2>3. \A j \in Runs : Unheld(j)' <=> Unheld(j)
    BY <2>1 DEF Unheld, AtWorkOnRun
  <2> QED
    BY <2>1, <2>2, <2>3, AccountsStill
<1>12. ASSUME NEW k \in Runs, RunLeaseLapses(k) PROVE Affordable'
  <2>1. /\ UNCHANGED <<proc, turns, crashes, faults>>
        /\ run[k].live /\ run'[k].status = run[k].status
        /\ \A j \in Runs : j # k => run'[j] = run[j]
        /\ \/ ~AtWorkOnRun(k) /\ slow' = slow
           \/ slow' = slow + 1
    BY <1>12, RunLeaseFacts
  <2>2. Paid <= Paid' /\ (slow' = slow + 1 => Paid' = Paid + 2)
    <3>1. crashes \in Nat /\ slow \in Nat /\ faults \in Nat
      BY DEF TypeOK
    <3> QED
      BY <2>1, <3>1 DEF Paid
  <2>3. \A j \in Runs : Unheld(j)' => Unheld(j) \/ Paid' = Paid + 2
    BY <2>1, <2>2 DEF Unheld, AtWorkOnRun
  <2> QED
    BY <2>1, <2>2, <2>3, AccountsStill
<1> QED
  BY <1>1, <1>2, <1>3, <1>4, <1>5, <1>6, <1>7, <1>8, <1>9, <1>10, <1>11, <1>12 DEF Next, Lapse

------------------------------------------------------------------------------
(* Undisturbed, the row of a run tells what became of its turn.             *)

HonestAt(k) ==
    /\ \A p \in Procs : proc[p].run = k /\ proc[p].pc \in {"fetch", "orphan", "start", "failing"}
         => turns[k] = << >>
    /\ run[k].status \in Pending /\ turns[k] # << >> =>
         \E p \in Procs : proc[p].run = k /\ proc[p].pc = "mark"
    /\ run[k].status \in Settled =>
         /\ Observed(k)
         /\ \A p \in Procs : proc[p].run = k => proc[p].pc \notin Working

LEMMA CalmMeans ==
    ASSUME TypeOK, Calm
    PROVE  slow = 0 /\ crashes = 0 /\ faults = 0
BY DEF TypeOK, Calm

LEMMA OneWhenCalm ==
    ASSUME TypeOK, Affordable, Calm, NEW k \in Runs, NEW i \in DOMAIN turns[k]
    PROVE  i = 1 /\ turns[k] # << >> /\ Len(turns[k]) = 1
<1>1. PICK n, s, f : /\ n = Len(turns[k]) /\ s = Cardinality(Starting(k)) /\ f = Cardinality(Failing(k))
                     /\ Cost(k) = 2 * n + 2 * s + f
  BY DEF Cost
<1>2. n \in Nat /\ s \in Nat /\ f \in Nat
  BY <1>1, RunIs, LenProperties, ProcsCount DEF Starting, Failing
<1>3. Paid = 0
  BY CalmMeans DEF Paid
<1>4. Cost(k) <= 2
  BY <1>3 DEF Affordable
<1>5. n <= 1
  <2>1. 2 * n + 2 * s + f <= 2
    BY <1>1, <1>4
  <2> QED
    BY <1>2, <2>1
<1>6. i \in 1..n
  BY <1>1, RunIs, LenProperties
<1>7. i = 1 /\ n = 1
  BY <1>2, <1>5, <1>6
<1> QED
  BY <1>1, <1>7, EmptySeq

\* Nobody else works on a run on which a process works.
LEMMA AloneWhenCalm ==
    ASSUME TypeOK, Exclusive, Calm, NEW p \in Procs, proc[p].pc \in Working
    PROVE  /\ \A q \in Procs : proc[q].run = proc[p].run /\ proc[q].pc \in Working => q = p
           /\ run[proc[p].run].status \in {"dispatching"} \cup Settled
BY CalmMeans DEF Exclusive

\* A run that can be claimed has no turn yet, and nobody works on it.
LEMMA FreeWhenCalm ==
    ASSUME TypeOK, Exclusive, Honest, Calm, NEW k \in Runs, Claimable(k)
    PROVE  turns[k] = << >> /\ \A q \in Procs : proc[q].run = k => proc[q].pc \notin Working
<1>1. \A q \in Procs : proc[q].run = k => proc[q].pc \notin Working
  BY CalmMeans, Names DEF Exclusive, Claimable
<1>2. \A q \in Procs : proc[q].run = k => proc[q].pc # "mark"
  BY <1>1 DEF Working
<1> QED
  BY <1>1, <1>2 DEF Honest, Claimable

\* A run on which p does not work is left alone.
LEMMA HonestRests ==
    ASSUME TypeOK, NEW p \in Procs, Moved(p), NEW k \in Runs, HonestAt(k),
           proc[p].pc \in Working => proc[p].run # k,
           proc'[p].pc \in Working => proc'[p].run # k,
           turns'[k] = turns[k], run'[k] = run[k],
           \A x \in watch : x[2] = k => x \in watch'
    PROVE  HonestAt(k)'
<1>1. \A q \in Procs : proc'[q].run = k /\ proc'[q].pc \in Working => proc[q].run = k /\ proc'[q] = proc[q]
  BY DEF Moved
<1>2. \A q \in Procs : proc[q].run = k /\ proc[q].pc = "mark" => proc'[q] = proc[q]
  BY DEF Moved, Working
<1>3. Observed(k) => Observed(k)'
  BY DEF Observed
<1>4. \A q \in Procs : proc'[q].run = k /\ proc'[q].pc \in {"fetch", "orphan", "start", "failing"}
        => turns'[k] = << >>
  BY <1>1 DEF HonestAt, Working
<1>5. run'[k].status \in Pending /\ turns'[k] # << >> =>
        \E q \in Procs : proc'[q].run = k /\ proc'[q].pc = "mark"
  BY <1>2 DEF HonestAt
<1>6. run'[k].status \in Settled => \A q \in Procs : proc'[q].run = k => proc'[q].pc \notin Working
  BY <1>1 DEF HonestAt
<1>7. run'[k].status \in Settled => Observed(k)'
  BY <1>3 DEF HonestAt
<1> QED
  BY <1>4, <1>5, <1>6, <1>7 DEF HonestAt

\* All runs, when p works on none or on k only.
LEMMA HonestRest ==
    ASSUME TypeOK, Honest, Calm, NEW p \in Procs, Moved(p), NEW k,
           proc[p].pc \in Working => proc[p].run = k,
           proc'[p].pc \in Working => proc'[p].run = k,
           \A j \in Runs : j # k => turns'[j] = turns[j] /\ run'[j] = run[j],
           \A x \in watch : x \in watch',
           k \in Runs => HonestAt(k)'
    PROVE  Honest'
<1> SUFFICES ASSUME NEW j \in Runs, j # k PROVE HonestAt(j)'
  BY DEF Honest, HonestAt
<1>1. HonestAt(j)
  BY DEF Honest, HonestAt
<1> QED
  BY <1>1, HonestRests

LEMMA HonestIdle ==
    ASSUME TypeOK, Honest, Calm, NEW p \in Procs, Moved(p),
           proc[p].pc \notin Working, proc'[p].pc \notin Working,
           turns' = turns, run' = run, watch' = watch
    PROVE  Honest'
BY Names, HonestRest

LEMMA ClaimIsHonest ==
    ASSUME TypeOK, Exclusive, Honest, Calm, NEW p \in Procs, Moved(p), NEW k \in Runs,
           proc[p].pc \notin Working, proc'[p].run = k,
           Claimable(k), Wrote(k, Claimed), turns' = turns, watch' = watch
    PROVE  Honest'
<1>1. turns'[k] = << >>
  BY FreeWhenCalm
<1>2. run'[k].status \notin Settled
  BY RowsAre, Names DEF Wrote
<1>3. HonestAt(k)'
  BY <1>1, <1>2 DEF HonestAt
<1> QED
  BY <1>3, HonestRest DEF Wrote

LEMMA FirstIsHonest ==
    ASSUME TypeOK, Known, Honest, Calm, NEW p \in Procs, Moved(p), NEW k \in Runs,
           run[k].status = "absent", Wrote(k, Row("queued")), proc[p].pc \notin Working,
           proc'[p].pc = "claim", turns' = turns, watch' = watch
    PROVE  Honest'
<1>1. turns'[k] = << >>
  BY DEF Known
<1>2. run'[k].status \notin Settled
  BY RowsAre, Names DEF Wrote
<1>3. HonestAt(k)'
  BY <1>1, <1>2 DEF HonestAt
<1> QED
  BY <1>3, HonestRest DEF Wrote, Working

\* Before the turn is started, and when it will not be.
LEMMA PreparesHonestly ==
    ASSUME TypeOK, Honest, Calm, NEW p \in Procs, Moved(p), NEW k \in Runs,
           proc[p].run = k, proc'[p].run = k,
           proc[p].pc \in {"fetch", "orphan", "start"}, proc'[p].pc \in {"fetch", "orphan", "start", "failing"},
           turns' = turns, run' = run, watch' = watch
    PROVE  Honest'
<1>1. turns[k] = << >>
  BY DEF Honest
<1>2. run[k].status \notin Settled
  BY DEF Honest, Working
<1>3. HonestAt(k)'
  BY <1>1, <1>2 DEF HonestAt
<1> QED
  BY <1>3, HonestRest

\* Whoever settles a run leaves it, and it was alone.
LEMMA SettlesHonestly ==
    ASSUME TypeOK, Exclusive, Honest, Calm, NEW p \in Procs, Moved(p), NEW k \in Runs,
           proc[p].run = k, proc[p].pc \in Working, proc'[p].pc \notin Working, turns' = turns,
           NEW row \in RunRows, Wrote(k, row), row.status \in Settled,
           \A x \in watch : x \in watch', Observed(k)'
    PROVE  Honest'
<1>1. \A q \in Procs : proc'[q].run = k => proc'[q].pc \notin Working
  BY AloneWhenCalm DEF Moved
<1>2. run'[k].status \in Settled /\ run'[k].status \notin Pending
  BY Names DEF Wrote
<1>3. HonestAt(k)'
  BY <1>1, <1>2 DEF HonestAt, Working
<1> QED
  BY <1>3, HonestRest DEF Wrote

\* The processes stand still.
LEMMA HonestStill ==
    ASSUME TypeOK, Honest, Calm, UNCHANGED proc,
           \A j \in Runs : turns'[j] = turns[j] /\ run'[j].status = run[j].status,
           watch' = watch
    PROVE  Honest'
<1> SUFFICES ASSUME NEW j \in Runs PROVE HonestAt(j)'
  BY DEF Honest, HonestAt
<1>1. HonestAt(j)
  BY DEF Honest, HonestAt
<1>2. Observed(j)' <=> Observed(j)
  BY DEF Observed
<1> QED
  BY <1>1, <1>2 DEF HonestAt

LEMMA CalmWillMean ==
    ASSUME TypeOK', Calm'
    PROVE  slow' = 0 /\ crashes' = 0 /\ faults' = 0
<1>1. PICK c \in Nat, s \in Nat, f \in Nat : c = crashes' /\ s = slow' /\ f = faults'
  BY DEF TypeOK
<1>2. c + s + f = 0
  BY <1>1 DEF Calm
<1>3. c = 0 /\ s = 0 /\ f = 0
  BY <1>2
<1> QED
  BY <1>1, <1>3

LEMMA HonestNext ==
    ASSUME TypeOK, Shape, Known, Handed, Exclusive, Affordable, Honest, Next
    PROVE  Honest'
<1> SUFFICES ASSUME Calm' PROVE Honest'
  BY DEF Honest
<1> USE TypeNext
<1>0. UNCHANGED budget => Calm
  BY DEF budget, Calm
<1>1. ASSUME NEW w \in Workers, LoopStep(w) PROVE Honest'
  <2>0. w \in Procs
    BY Names
  <2>1. ASSUME NEW k \in Runs, TakePending(w, k) PROVE Honest'
    <3>1. /\ Moved(w) /\ proc[w].pc \notin Working /\ proc'[w].run = k
          /\ Claimable(k) /\ Wrote(k, Claimed) /\ turns' = turns /\ watch' = watch /\ UNCHANGED budget
      BY <2>1, TakePendingFacts DEF Working
    <3> QED
      BY <2>0, <3>1, <1>0, ClaimIsHonest
  <2>2. CASE NothingPending(w)
    <3>1. proc[w].pc = "recover"
      BY <2>2 DEF NothingPending
    <3>2. /\ Moved(w) /\ proc[w].pc \notin Working /\ proc'[w].pc \notin Working
          /\ turns' = turns /\ run' = run /\ watch' = watch /\ UNCHANGED budget
      BY <2>2, <3>1, NothingPendingFacts DEF rows, Working
    <3> QED
      BY <2>0, <3>2, <1>0, HonestIdle
  <2>3. CASE FetchJob(w)
    <3>1. /\ Moved(w) /\ proc[w].pc = "fetch" /\ proc'[w].pc \in {"start", "orphan"}
          /\ proc[w].run \in Runs /\ proc'[w].run = proc[w].run
          /\ run' = run /\ turns' = turns /\ watch' = watch /\ UNCHANGED budget
      BY <2>3, FetchJobFacts DEF rows
    <3> QED
      BY <2>0, <3>1, <1>0, PreparesHonestly
  <2>4. CASE FailPendingRun(w)
    <3>1. PICK k \in Runs : k = proc[w].run
      BY <2>4, FailPendingRunFacts
    <3>2. /\ Moved(w) /\ proc[w].pc = "orphan" /\ proc[w].pc \in Working /\ proc'[w].pc \notin Working
          /\ turns' = turns /\ watch' = watch /\ UNCHANGED budget
          /\ run[k].status # "dispatching" \/ Wrote(k, Row("failed"))
      BY <2>4, <3>1, FailPendingRunFacts DEF Rests, Working
    <3>3. Calm /\ turns[k] = << >>
      BY <2>0, <3>1, <3>2, <1>0 DEF Honest
    <3>4. run[k].status = "dispatching"
      BY <2>0, <3>1, <3>2, <3>3, AloneWhenCalm DEF Honest
    <3>5. Row("failed") \in RunRows /\ Row("failed").status = "failed" /\ "failed" \in Settled
      BY RowsAre
    <3>6. Observed(k)'
      BY <3>2, <3>3, <3>4, <3>5 DEF Observed, Wrote
    <3> QED
      BY <2>0, <3>1, <3>2, <3>3, <3>4, <3>5, <3>6, SettlesHonestly
  <2>5. CASE ClaimDueJob(w)
    <3>1. /\ Moved(w) /\ proc[w].pc \notin Working /\ proc'[w].pc \notin Working
          /\ turns' = turns /\ run' = run /\ watch' = watch /\ UNCHANGED budget
      BY <2>0, <2>5, ClaimDueJobFacts DEF Working
    <3> QED
      BY <2>0, <3>1, <1>0, HonestIdle
  <2>6. CASE NothingDue(w)
    <3>1. /\ Moved(w) /\ proc[w].pc \notin Working /\ proc'[w].pc \notin Working
          /\ turns' = turns /\ run' = run /\ watch' = watch /\ UNCHANGED budget
      BY <2>0, <2>6, NothingDueFacts DEF NothingDue, rows, Rests, Working
    <3> QED
      BY <2>0, <3>1, <1>0, HonestIdle
  <2>7. CASE CreateRun(w)
    <3>1. PICK k \in Runs : k = proc[w].run
      BY <2>7, CreateRunFacts, Names
    <3>2. /\ Moved(w) /\ proc[w].pc = "create" /\ proc[w].pc \notin Working
          /\ turns' = turns /\ watch' = watch /\ UNCHANGED budget
          /\ \/ run[k].status = "absent" /\ Wrote(k, Row("queued")) /\ proc'[w].pc = "claim"
             \/ run' = run /\ proc'[w].pc = "existing"
      BY <2>7, <3>1, CreateRunFacts DEF Working
    <3>3. CASE run[k].status = "absent" /\ Wrote(k, Row("queued")) /\ proc'[w].pc = "claim"
      BY <2>0, <3>2, <3>3, <1>0, FirstIsHonest
    <3>4. CASE run' = run /\ proc'[w].pc = "existing"
      BY <2>0, <3>2, <3>4, <1>0, HonestIdle DEF Working
    <3> QED
      BY <3>2, <3>3, <3>4
  <2>8. CASE CheckExisting(w)
    <3>1. /\ Moved(w) /\ proc[w].pc \notin Working /\ proc'[w].pc \notin Working
          /\ turns' = turns /\ run' = run /\ watch' = watch /\ UNCHANGED budget
      BY <2>0, <2>8, CheckExistingFacts DEF rows, Working
    <3> QED
      BY <2>0, <3>1, <1>0, HonestIdle
  <2> QED
    BY <1>1, <2>1, <2>2, <2>3, <2>4, <2>5, <2>6, <2>7, <2>8 DEF LoopStep
<1>2. ASSUME NEW p \in Procs, DispatchStep(p) PROVE Honest'
  <2>1. CASE ClaimRun(p)
    <3>1. PICK k \in Runs : k = proc[p].run
      BY <2>1, ClaimRunFacts
    <3>2. /\ Moved(p) /\ proc[p].pc \notin Working /\ turns' = turns /\ watch' = watch /\ UNCHANGED budget
          /\ \/ Claimable(k) /\ Wrote(k, Claimed) /\ proc'[p].run = k
             \/ run' = run /\ proc'[p].pc \notin Working
      BY <2>1, <3>1, ClaimRunFacts DEF Working, Keeps, Rests
    <3>3. CASE run' = run /\ proc'[p].pc \notin Working
      BY <3>2, <3>3, <1>0, HonestIdle
    <3> QED
      BY <3>2, <3>3, <1>0, ClaimIsHonest
  <2>2. CASE Refuse(p)
    <3>1. /\ Moved(p) /\ proc[p].pc = "start" /\ proc'[p].pc = "failing"
          /\ proc[p].run \in Runs /\ proc'[p].run = proc[p].run
          /\ run' = run /\ turns' = turns /\ watch' = watch /\ UNCHANGED budget
      BY <2>2, RefuseFacts DEF rows, Keeps
    <3> QED
      BY <3>1, <1>0, PreparesHonestly
  <2>3. CASE PrepareTurn(p)
    <3>1. PICK k \in Runs : k = proc[p].run
      BY <2>3, PrepareTurnFacts
    <3>2. /\ Moved(p) /\ proc[p].pc = "start" /\ proc[p].pc \in Working
          /\ proc'[p].pc = "mark" /\ proc'[p].run = k
          /\ run' = run /\ watch' = watch /\ UNCHANGED budget
          /\ \A j \in Runs : j # k => turns'[j] = turns[j]
      BY <2>3, <3>1, PrepareTurnFacts DEF rows, Keeps, Working
    <3>3. Calm /\ run[k].status \notin Settled
      BY <3>1, <3>2, <1>0 DEF Honest
    <3>4. \A q \in Procs : proc'[q].run = k /\ proc'[q].pc \in Working => q = p
      BY <3>1, <3>2, <3>3, AloneWhenCalm DEF Moved
    <3>5. \A q \in Procs : proc'[q].run = k => proc'[q].pc \notin {"fetch", "orphan", "start", "failing"}
      BY <3>2, <3>4 DEF Working
    <3>6. HonestAt(k)'
      BY <3>2, <3>3, <3>5 DEF HonestAt
    <3> QED
      BY <3>1, <3>2, <3>3, <3>6, HonestRest
  <2>4. CASE MarkStarted(p)
    <3>1. PICK k \in Runs : k = proc[p].run
      BY <2>4, MarkStartedFacts
    <3>2. /\ Moved(p) /\ proc[p].pc \in Working /\ proc'[p].pc \notin Working
          /\ Wrote(k, Row("running")) /\ turns' = turns /\ UNCHANGED budget
          /\ \A x \in watch : x \in watch'
          /\ <<proc[p].host, k, Len(turns[k])>> \in watch'
      BY <2>4, <3>1, MarkStartedFacts DEF Leaves, Rests, Working
    <3>3. Row("running") \in RunRows /\ Row("running").status = "running" /\ "running" \in Settled
      BY RowsAre
    <3>4. \E x \in watch' : x[2] = k
      BY <3>2
    <3>5. Observed(k)'
      BY <3>2, <3>3, <3>4 DEF Observed, Wrote
    <3> QED
      BY <3>1, <3>2, <3>3, <3>5, <1>0, SettlesHonestly
  <2>5. CASE FailBeforeStart(p)
    <3>1. PICK k \in Runs : k = proc[p].run
      BY <2>5, FailBeforeStartFacts
    <3>2. /\ Moved(p) /\ proc[p].pc = "failing" /\ proc[p].pc \in Working /\ proc'[p].pc \notin Working
          /\ Wrote(k, Row("failed")) /\ turns' = turns /\ watch' = watch /\ UNCHANGED budget
      BY <2>5, <3>1, FailBeforeStartFacts DEF Leaves, Rests, Working
    <3>3. Row("failed") \in RunRows /\ Row("failed").status = "failed" /\ "failed" \in Settled
      BY RowsAre
    <3>4. Calm /\ turns[k] = << >>
      BY <3>1, <3>2, <1>0 DEF Honest
    <3>5. Observed(k)'
      BY <3>2, <3>3, <3>4 DEF Observed, Wrote
    <3> QED
      BY <3>1, <3>2, <3>3, <3>4, <3>5, SettlesHonestly
  <2>6. CASE Release(p)
    <3>1. /\ Moved(p) /\ proc[p].pc \notin Working /\ proc'[p].pc \notin Working
          /\ turns' = turns /\ run' = run /\ watch' = watch /\ UNCHANGED budget
      BY <2>6, ReleaseFacts DEF Rests, Working
    <3> QED
      BY <3>1, <1>0, HonestIdle
  <2>7. CASE Unlease(p)
    <3>1. /\ Moved(p) /\ proc[p].pc \notin Working /\ proc'[p].pc \notin Working
          /\ turns' = turns /\ run' = run /\ watch' = watch /\ UNCHANGED budget
      BY <2>7, UnleaseFacts DEF Unlease, Rests, Working
    <3> QED
      BY <3>1, <1>0, HonestIdle
  <2> QED
    BY <1>2, <2>1, <2>2, <2>3, <2>4, <2>5, <2>6, <2>7 DEF DispatchStep
<1>3. ASSUME NEW p \in Procs, OperationRaises(p) PROVE Honest'
  <2>1. faults' = faults + 1 /\ faults \in Nat
    BY <1>3, OperationRaisesFacts DEF TypeOK
  <2>2. faults' = 0
    BY CalmWillMean
  <2> QED
    BY <2>1, <2>2
<1>4. ASSUME NEW w \in Workers, Crash(w) PROVE Honest'
  <2>1. crashes' = crashes + 1 /\ crashes \in Nat
    BY <1>4, CrashFacts DEF TypeOK
  <2>2. crashes' = 0
    BY CalmWillMean
  <2> QED
    BY <2>1, <2>2
<1>5. ASSUME NEW w \in Workers, NEW m \in Manuals, RunNow(w, m) PROVE Honest'
  <2>1. /\ m \in Procs /\ m \in Runs /\ Moved(m) /\ Wrote(m, Row("queued")) /\ proc[m].pc = "ready"
        /\ proc'[m].pc = "claim" /\ turns' = turns /\ watch' = watch /\ UNCHANGED <<crashes, slow, faults>>
    BY <1>5, Names, RunNowFacts
  <2>2. run[m].status = "absent" /\ proc[m].pc \notin Working /\ Calm
    BY <2>1 DEF Known, Working, Calm
  <2> QED
    BY <2>1, <2>2, FirstIsHonest
<1>6. ASSUME NEW k \in Runs, TurnStep(k) PROVE Honest'
  <2>1. PICK i \in DOMAIN turns[k] : TurnEnds(k, i) \/ \E w \in Workers : Observe(w, k, i)
    BY <1>6 DEF TurnStep
  <2>2. CASE TurnEnds(k, i)
    <3>1. /\ UNCHANGED <<proc, run, watch>> /\ UNCHANGED budget
          /\ turns[k][i] = "running" /\ turns'[k] # << >>
          /\ \A j \in Runs : j # k => turns'[j] = turns[j]
      <4>1. Len(turns'[k]) = Len(turns[k]) /\ Len(turns[k]) \in Nat /\ i \in 1..Len(turns[k])
        BY <2>2, TurnEndsFacts, RunIs, LenProperties
      <4>2. Len(turns'[k]) # 0
        BY <4>1
      <4> QED
        BY <2>2, <4>2, TurnEndsFacts, EmptySeq DEF rows
    <3>2. Calm /\ turns[k] # << >> /\ turns[k][1] = "running"
      BY <3>1, <1>0, OneWhenCalm
    <3>3. HonestAt(k) /\ \A j \in Runs : HonestAt(j)
      BY <3>2 DEF Honest, HonestAt
    <3>4. Observed(k) => Observed(k)'
      BY <3>1, <3>2 DEF Observed
    <3>5. HonestAt(k)'
      BY <3>1, <3>2, <3>3, <3>4 DEF HonestAt
    <3>6. ASSUME NEW j \in Runs, j # k PROVE HonestAt(j)'
      <4>1. (Observed(j) <=> Observed(j)') /\ turns'[j] = turns[j]
        BY <3>1, <3>6 DEF Observed
      <4> QED
        BY <3>1, <3>3, <4>1 DEF HonestAt
    <3> QED
      BY <3>5, <3>6 DEF Honest, HonestAt
  <2>3. ASSUME NEW w \in Workers, Observe(w, k, i) PROVE Honest'
    <3>1. /\ UNCHANGED <<proc, turns>> /\ UNCHANGED budget
          /\ Wrote(k, Row(turns[k][i])) /\ turns[k][i] \in Outcomes /\ turns[k][i] # "running"
          /\ <<w, k, i>> \in watch /\ watch' = watch \ {<<w, k, i>>}
      BY <2>3, ObserveFacts
    <3>2. Calm /\ turns[k] # << >> /\ i = 1
      BY <3>1, <1>0, OneWhenCalm
    <3>3. run'[k].status = turns[k][1] /\ run'[k].status \in Settled /\ run'[k].status \notin Pending
      BY <3>1, <3>2, RowsAre, Names DEF Wrote
    <3>4. run[k].status \in Settled
      BY <3>1 DEF Handed
    <3>5. \A j \in Runs : HonestAt(j)
      BY <3>2 DEF Honest, HonestAt
    <3>6. Observed(k)'
      BY <3>1, <3>2, <3>3 DEF Observed
    <3>7. HonestAt(k)'
      BY <3>1, <3>3, <3>4, <3>5, <3>6 DEF HonestAt
    <3>8. ASSUME NEW j \in Runs, j # k PROVE HonestAt(j)'
      <4>1. \A x \in watch : x[2] = j => x \in watch'
        BY <3>1, <3>8
      <4>2. run'[j] = run[j]
        BY <3>1, <3>8 DEF Wrote
      <4>3. Observed(j) => Observed(j)'
        BY <3>1, <4>1, <4>2 DEF Observed
      <4> QED
        BY <3>1, <3>5, <4>2, <4>3 DEF HonestAt
    <3> QED
      BY <3>7, <3>8 DEF Honest, HonestAt
  <2> QED
    BY <2>1, <2>2, <2>3
<1>7. CASE EditRead
  <2>1. /\ UNCHANGED <<proc, run, turns, watch, crashes, slow, faults>>
    BY <1>7 DEF EditRead, rows, budget
  <2>2. Calm
    BY <2>1 DEF Calm
  <2> QED
    BY <2>1, <2>2, HonestStill
<1>8. CASE EditWrite
  <2>1. /\ UNCHANGED <<proc, run, turns, watch, crashes, slow, faults>>
    BY <1>8, EditWriteFacts DEF budget
  <2>2. Calm
    BY <2>1 DEF Calm
  <2> QED
    BY <2>1, <2>2, HonestStill
<1>9. CASE DeleteJob
  <2>1. /\ UNCHANGED <<proc, run, turns, watch, crashes, slow, faults>>
    BY <1>9 DEF DeleteJob, rows, budget
  <2>2. Calm
    BY <2>1 DEF Calm
  <2> QED
    BY <2>1, <2>2, HonestStill
<1>10. CASE Tick
  <2>1. /\ UNCHANGED <<proc, run, turns, watch, crashes, slow, faults>>
    BY <1>10 DEF Tick, rows, budget
  <2>2. Calm
    BY <2>1 DEF Calm
  <2> QED
    BY <2>1, <2>2, HonestStill
<1>11. CASE JobLeaseLapses
  <2>1. /\ UNCHANGED <<proc, run, turns, watch, crashes, faults>> /\ (slow' = slow \/ slow' = slow + 1)
    BY <1>11, JobLeaseFacts
  <2>2. slow' = 0 /\ slow \in Nat
    BY CalmWillMean DEF TypeOK
  <2>3. Calm
    BY <2>1, <2>2 DEF Calm
  <2> QED
    BY <2>1, <2>3, HonestStill
<1>12. ASSUME NEW k \in Runs, RunLeaseLapses(k) PROVE Honest'
  <2>1. /\ UNCHANGED <<proc, turns, watch, crashes, faults>>
        /\ run'[k].status = run[k].status /\ (slow' = slow \/ slow' = slow + 1)
        /\ \A j \in Runs : j # k => run'[j] = run[j]
    BY <1>12, RunLeaseFacts
  <2>2. slow' = 0 /\ slow \in Nat
    BY CalmWillMean DEF TypeOK
  <2>3. Calm
    BY <2>1, <2>2 DEF Calm
  <2>4. \A j \in Runs : turns'[j] = turns[j] /\ run'[j].status = run[j].status
    BY <2>1
  <2> QED
    BY <2>1, <2>3, <2>4, HonestStill
<1> QED
  BY <1>1, <1>2, <1>3, <1>4, <1>5, <1>6, <1>7, <1>8, <1>9, <1>10, <1>11, <1>12 DEF Next, Lapse

------------------------------------------------------------------------------
(* The theorems.                                                            *)

LEMMA DispatchInit ==
    ASSUME Init
    PROVE  DispatchInv
<1>1. PICK plan \in Plans :
        /\ NextRunAt(plan, now - 1) # None
        /\ job = [exists |-> TRUE, plan |-> plan, enabled |-> TRUE,
                  due |-> NextRunAt(plan, now - 1), owner |-> None, live |-> FALSE]
  BY DEF Init
<1>2. now = 0 /\ now - 1 \in Int /\ plan \in SUBSET Nat
  BY NamesAssumption DEF Init
<1>3. PICK due : due = NextRunAt(plan, now - 1)
  OBVIOUS
<1>4. due \in plan /\ due # None /\ due \in Nat /\ due \in UNION Plans
  BY <1>1, <1>2, <1>3, NextTime
<1>5. /\ job \in JobRows /\ job.exists /\ job.plan = plan /\ job.enabled /\ job.due = due
  BY <1>1, <1>3, <1>4 DEF JobRows
<1>6. /\ \A p \in Procs : /\ proc[p] \in Progress /\ proc[p].run = None /\ proc[p].copy = None
                          /\ proc[p].pc \in {"recover", "ready"} /\ Placed(p)
      /\ proc \in [Procs -> Progress]
  <2>1. proc = [p \in Procs |-> IF p \in Workers THEN Resting(p) ELSE Ready]
    BY DEF Init
  <2>2. /\ Ready \in Progress /\ Ready.run = None /\ Ready.copy = None /\ Ready.pc = "ready"
    BY DEF Ready, Gone, Progress, Places
  <2>3. ASSUME NEW p \in Procs
        PROVE  /\ proc[p] \in Progress /\ proc[p].run = None /\ proc[p].copy = None
               /\ proc[p].pc \in {"recover", "ready"} /\ Placed(p)
    <3>1. CASE p \in Workers
      <4>1. proc[p] = Resting(p) /\ p \notin Manuals
        BY <2>1, <3>1, Names
      <4> QED
        BY <3>1, <4>1, RestingFacts DEF Placed, Dispatching, Working, OfSchedule
    <3>2. CASE p \notin Workers
      <4>1. proc[p] = Ready
        BY <2>1, <3>2
      <4> QED
        BY <2>2, <3>2, <4>1 DEF Placed, Dispatching, Working, OfSchedule
    <3> QED
      BY <3>1, <3>2
  <2>4. \A p \in Procs : (IF p \in Workers THEN Resting(p) ELSE Ready) \in Progress
    BY <2>1, <2>3
  <2> QED
    BY <2>1, <2>3, <2>4
<1>7. /\ run \in [Runs -> RunRows] /\ turns \in [Runs -> Seq({"running"} \cup Outcomes)]
      /\ \A k \in Runs : run[k].status = "absent" /\ ~run[k].live /\ turns[k] = << >>
  <2>1. Row("absent") \in RunRows /\ Row("absent").status = "absent" /\ ~Row("absent").live
    BY RowsAre
  <2>2. << >> \in Seq({"running"} \cup Outcomes)
    BY EmptySeq
  <2> QED
    BY <2>1, <2>2 DEF Init
<1>8. TypeOK
  <2>1. now \in Instants
    BY <1>2, NamesAssumption DEF Instants
  <2> QED
    BY <1>5, <1>6, <1>7, <2>1 DEF Init, TypeOK
<1>9. Shape /\ Known
  BY <1>6, <1>7, Names DEF Shape, Known
<1>10. Handed /\ Exclusive
  BY <1>6 DEF Init, Handed, Exclusive, Working
<1>11. OnTime
  BY <1>6, <1>7, Names DEF OnTime, Begun
<1>12. Affordable
  <2> SUFFICES ASSUME NEW k \in Runs PROVE AffordedAt(k)
    BY DEF Affordable, AffordedAt
  <2>1. Starting(k) = {} /\ Failing(k) = {}
    BY <1>6 DEF Starting, Failing
  <2>2. Len(turns[k]) = 0
    BY <1>7, EmptySeq
  <2>3. Cost(k) = 0
    BY <2>1, <2>2, FS_EmptySet DEF Cost
  <2>4. Paid = 0
    BY DEF Init, Paid
  <2> QED
    BY <2>3, <2>4 DEF AffordedAt
<1>13. Honest
  BY <1>6, <1>7, Names DEF Honest
<1>14. Edited /\ Copied /\ EditStands
  BY <1>4, <1>5, <1>6 DEF Init, Edited, Copied, EditStands, Dispatching, Working
<1> QED
  BY <1>8, <1>9, <1>10, <1>11, <1>12, <1>13, <1>14 DEF DispatchInv

LEMMA DispatchNext ==
    ASSUME DispatchInv, [Next]_vars
    PROVE  DispatchInv'
<1>1. CASE Next
  <2>1. TypeOK' /\ Shape'
    BY <1>1, TypeNext DEF DispatchInv
  <2>2. Known' /\ Handed' /\ OnTime'
    BY <1>1, KnownNext, HandedNext, OnTimeNext DEF DispatchInv
  <2>3. Exclusive' /\ Affordable' /\ Honest'
    BY <1>1, ExclusiveNext, AffordableNext, HonestNext DEF DispatchInv
  <2>4. Edited' /\ Copied' /\ EditStands'
    BY <1>1, SettingsNext, CopiedNext DEF DispatchInv, Settings
  <2> QED
    BY <2>1, <2>2, <2>3, <2>4 DEF DispatchInv
<1>2. CASE UNCHANGED vars
  <2>1. UNCHANGED <<now, job, run, turns, watch, proc, edit, raced, calls, crashes, faults, slow>>
    BY <1>2 DEF vars, rows, budget
  <2>2. TypeOK' /\ Shape' /\ Known' /\ Handed'
    BY <2>1 DEF DispatchInv, TypeOK, Shape, Placed, Known, Handed
  <2>3. OnTime' /\ Exclusive'
    BY <2>1 DEF DispatchInv, OnTime, Begun, Exclusive
  <2>4. Affordable'
    BY <2>1 DEF DispatchInv, Affordable, Cost, Starting, Failing, Paid, Unheld, AtWorkOnRun
  <2>5. Honest'
    BY <2>1 DEF DispatchInv, Honest, Calm, Observed
  <2>6. Edited' /\ Copied' /\ EditStands'
    BY <2>1 DEF DispatchInv, Edited, Copied, EditStands
  <2> QED
    BY <2>2, <2>3, <2>4, <2>5, <2>6 DEF DispatchInv
<1> QED
  BY <1>1, <1>2

\* The inductive invariant holds in every state of the dispatcher.
THEOREM DispatchInductive == Spec => []DispatchInv
BY DispatchInit, DispatchNext, PTL DEF Spec

DueStays ==
    edit' = edit /\ job.due # None /\ job'.due # job.due
        => run[job.due].status \in Settled

LEMMA DueStaysNext ==
    ASSUME TypeOK, Shape, Known, Handed, OnTime, Next
    PROVE  DueStays
<1>1. ASSUME NEW w \in Workers, LoopStep(w) PROVE DueStays
  <2>0. w \in Procs
    BY Names
  <2>1. ASSUME NEW k \in Runs, TakePending(w, k) PROVE DueStays
    BY <2>0, <2>1, TakePendingFacts DEF DueStays
  <2>2. CASE NothingPending(w)
    BY <2>0, <2>2, NothingPendingFacts DEF rows, DueStays
  <2>3. CASE FetchJob(w)
    BY <2>0, <2>3, FetchJobFacts DEF rows, DueStays
  <2>4. CASE FailPendingRun(w)
    BY <2>0, <2>4, FailPendingRunFacts DEF DueStays
  <2>5. CASE ClaimDueJob(w)
    BY <2>0, <2>5, ClaimDueJobFacts DEF DueStays
  <2>6. CASE NothingDue(w)
    BY <2>0, <2>6, NothingDueFacts DEF rows, DueStays
  <2>7. CASE CreateRun(w)
    BY <2>0, <2>7, CreateRunFacts DEF DueStays
  <2>8. CASE CheckExisting(w)
    BY <2>0, <2>8, CheckExistingFacts DEF rows, DueStays
  <2> QED
    BY <1>1, <2>1, <2>2, <2>3, <2>4, <2>5, <2>6, <2>7, <2>8 DEF LoopStep
<1>2. ASSUME NEW p \in Procs, DispatchStep(p) PROVE DueStays
  <2>1. CASE ClaimRun(p)
    BY <2>1, ClaimRunFacts DEF DueStays
  <2>2. CASE Refuse(p)
    BY <2>2, RefuseFacts DEF rows, DueStays
  <2>3. CASE PrepareTurn(p)
    BY <2>3, PrepareTurnFacts DEF rows, DueStays
  <2>4. CASE MarkStarted(p)
    BY <2>4, MarkStartedFacts DEF Leaves, DueStays
  <2>5. CASE FailBeforeStart(p)
    BY <2>5, FailBeforeStartFacts DEF Leaves, DueStays
  <2>6. CASE Release(p)
    <3>1. CASE job' = job
      BY <3>1 DEF DueStays
    <3>2. CASE job' # job
      <4>1. /\ proc[p].pc = "release" /\ proc[p].run \in Instants /\ job.due # None
            /\ job.due <= proc[p].run
        BY <2>6, <3>2, ReleaseFacts
      <4>2. proc[p].run <= job.due
        BY <4>1 DEF OnTime, Begun
      <4>3. PICK k \in Nat, d \in Nat : k = proc[p].run /\ d = job.due
        BY <4>1, Names, JobIs
      <4>4. k <= d /\ d <= k
        BY <4>1, <4>2, <4>3
      <4>5. job.due = proc[p].run
        BY <4>3, <4>4
      <4> QED
        BY <4>1, <4>5 DEF Handed, DueStays
    <3> QED
      BY <3>1, <3>2
  <2>7. CASE Unlease(p)
    BY <2>7, UnleaseFacts DEF DueStays
  <2> QED
    BY <1>2, <2>1, <2>2, <2>3, <2>4, <2>5, <2>6, <2>7 DEF DispatchStep
<1>3. ASSUME NEW p \in Procs, OperationRaises(p) PROVE DueStays
  BY <1>3, OperationRaisesFacts DEF DueStays
<1>4. ASSUME NEW w \in Workers, Crash(w) PROVE DueStays
  BY <1>4, CrashFacts DEF rows, DueStays
<1>5. ASSUME NEW w \in Workers, NEW m \in Manuals, RunNow(w, m) PROVE DueStays
  BY <1>5, Names, RunNowFacts DEF DueStays
<1>6. ASSUME NEW k \in Runs, TurnStep(k) PROVE DueStays
  <2>1. PICK i \in DOMAIN turns[k] : TurnEnds(k, i) \/ \E w \in Workers : Observe(w, k, i)
    BY <1>6 DEF TurnStep
  <2>2. CASE TurnEnds(k, i)
    BY <2>2, TurnEndsFacts DEF rows, DueStays
  <2>3. ASSUME NEW w \in Workers, Observe(w, k, i) PROVE DueStays
    BY <2>3, ObserveFacts DEF DueStays
  <2> QED
    BY <2>1, <2>2, <2>3
<1>7. CASE EditRead
  BY <1>7 DEF EditRead, rows, DueStays
<1>8. CASE EditWrite
  BY <1>8, EditWriteFacts DEF DueStays
<1>9. CASE DeleteJob
  BY <1>9 DEF DeleteJob, DueStays
<1>10. CASE Tick
  BY <1>10 DEF Tick, rows, DueStays
<1>11. CASE JobLeaseLapses
  BY <1>11, JobLeaseFacts DEF DueStays
<1>12. ASSUME NEW k \in Runs, RunLeaseLapses(k) PROVE DueStays
  BY <1>12, RunLeaseFacts DEF DueStays
<1> QED
  BY <1>1, <1>2, <1>3, <1>4, <1>5, <1>6, <1>7, <1>8, <1>9, <1>10, <1>11, <1>12 DEF Next, Lapse

\* The types of the variables, the rows and the progress of the processes.
THEOREM TypeCorrect == Spec => []TypeOK
BY DispatchInductive, PTL DEF DispatchInv

\* However many processes find a due time or take up a run, it starts one turn:
\* each turn more is paid for by a crash, by a lease that lapsed under its holder,
\* or by two operations that raised (claim_due, recover_pending, _dispatch).
THEOREM DispatchedOnce == Spec => []OneTurnPerRun
<1>1. DispatchInv => OneTurnPerRun
  <2> SUFFICES ASSUME DispatchInv, NEW k \in Runs
               PROVE  Len(turns[k]) <= 1 + crashes + slow + faults \div 2
    BY DEF OneTurnPerRun
  <2>1. TypeOK /\ Cost(k) <= 2 + Paid
    BY DEF DispatchInv, Affordable
  <2>2. /\ Len(turns[k]) \in Nat /\ crashes \in Nat /\ slow \in Nat /\ faults \in Nat
        /\ Cardinality(Starting(k)) \in Nat /\ Cardinality(Failing(k)) \in Nat
    BY <2>1, CostIs, ProcsCount DEF Starting, Failing
  <2>3. PICK n \in Nat, s \in Nat, f \in Nat, x \in Nat, y \in Nat, z \in Nat :
          /\ n = Len(turns[k]) /\ s = Cardinality(Starting(k)) /\ f = Cardinality(Failing(k))
          /\ x = crashes /\ y = slow /\ z = faults
    BY <2>2
  <2>4. 2 * n + 2 * s + f <= 2 + (2 * x + 2 * y + z)
    BY <2>1, <2>3 DEF Cost, Paid
  <2>5. n <= 1 + x + y + z \div 2
    BY <2>4
  <2> QED
    BY <2>3, <2>5
<1> QED
  BY <1>1, DispatchInductive, PTL

\* The lease of a run keeps every other process from it, while it does not lapse
\* under its holder (claim_run, claim_pending_run).
THEOREM DispatchedAlone == Spec => []OneDispatcher
<1>1. DispatchInv => OneDispatcher
  BY DEF DispatchInv, Exclusive, OneDispatcher
<1> QED
  BY <1>1, DispatchInductive, PTL

\* What the row of a run says is what became of its turn (_mark_started,
\* _mark_finished, fail_before_start, fail_pending_run).
THEOREM StatusTellsTheTurn == Spec => []StatusIsHonest
<1>1. DispatchInv => StatusIsHonest
  <2> SUFFICES ASSUME DispatchInv, Calm, NEW k \in Runs, run[k].status \in Settled,
                      \A p \in Procs : proc[p].run # k, \A x \in watch : x[2] # k
               PROVE  run[k].status = IF turns[k] = << >> THEN "failed" ELSE turns[k][1]
    BY DEF StatusIsHonest, Calm
  <2>1. Observed(k)
    BY DEF DispatchInv, Honest
  <2> QED
    BY <2>1 DEF Observed
<1> QED
  BY <1>1, DispatchInductive, PTL

\* Whatever the dispatcher does between the read and the write of an edit, what
\* the user saved stands (update_job, release_after_dispatch).
THEOREM EditsStand == Spec => []EditStands
BY DispatchInductive, PTL DEF DispatchInv

\* next_run_at passes a due time only when the run of that time is settled
\* (release_after_dispatch).
THEOREM DueTimesAreServed == Spec => NoDueTimeSkipped
<1>1. ASSUME DispatchInv, [Next]_vars PROVE [DueStays]_vars
  BY <1>1, DueStaysNext DEF DispatchInv
<1> QED
  BY <1>1, DispatchInductive, PTL DEF Spec, NoDueTimeSkipped, DueStays

================================================================================
