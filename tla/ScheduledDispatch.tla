-------------------------- MODULE ScheduledDispatch --------------------------
(***************************************************************************)
(* The dispatcher of scheduled tasks: the loop of ScheduledTaskScheduler   *)
(* in every chat-api process, the run-now endpoint, ScheduledChatRunner    *)
(* and ScheduledDshExecution that start a turn and observe its end, and    *)
(* the user who edits, switches off or deletes the job meanwhile.          *)
(*                                                                         *)
(* One job.  Its plan is the set of its due instants (module Schedule says *)
(* which these are); the clock moves in the second in which update_job     *)
(* looks back.  A run row is named by its due instant, since the index     *)
(* (job_id, scheduled_for) is unique, or by the run-now call that wrote it.*)
(* The leases of two minutes lapse at any moment: a lease that lapses      *)
(* under a process still working on it is counted in `slow'.               *)
(*                                                                         *)
(* An action is one database operation.  What only the sidebar shows       *)
(* (last_run_status, titles, the unread flag) is left out.                 *)
(***************************************************************************)
EXTENDS Integers, Sequences, FiniteSets

CONSTANTS
    Workers,      \* chat-api processes
    Manuals,      \* run-now calls, each writes one run
    Plans,        \* the plans a job can have: sets of due instants
    NowPlans,     \* bound: the plans during which run-now is called
    FixedSession, \* whether the job's runs share one conversation
    Outcomes,     \* how a turn may end
    None,
    Horizon,      \* bound: the last instant of the clock
    MaxCalls,     \* bound: edits and run-now calls by the user
    MaxTroubles   \* bound: crashes, operations that raise, and late dispatches

ASSUME OutcomesAssumption ==
    Outcomes \subseteq {"completed", "failed", "cancelled", "suspended"}

\* Instants are counted from zero; a run-now call is neither a process nor an instant.
ASSUME NamesAssumption ==
    /\ Horizon \in Nat /\ Plans \subseteq SUBSET Nat
    /\ IsFiniteSet(Workers) /\ IsFiniteSet(Manuals)
    /\ Manuals \cap Workers = {} /\ Manuals \cap Nat = {}
    /\ None \notin Nat /\ None \notin Workers /\ None \notin Manuals

VARIABLES
    now,          \* the clock
    job,          \* the row of scheduled_jobs
    run,          \* rows of scheduled_job_runs
    turns,        \* the turns prepare_turn has started for a run, in order
    watch,        \* observer tasks: <<process, run, position in turns>>
    proc,         \* progress of the loops and of the run-now tasks
    edit,         \* the plan an edit has read
    raced,        \* whether an edit scheduled an instant that is already due
    calls, crashes, faults, slow   \* how often; slow: a lease lapsed under its holder

rows == <<job, run>>
budget == <<calls, crashes, faults, slow>>
vars == <<now, rows, turns, watch, proc, edit, raced, budget>>

Instants == 0..Horizon
Runs == Instants \cup Manuals
Procs == Workers \cup Manuals
Pending == {"queued", "dispatching"}
Settled == {"running", "failed"} \cup Outcomes

\* A process holds the lease of its run from the claim to the outcome.
Working == {"fetch", "orphan", "start", "mark", "failing"}
Places == Working \cup {"recover", "due", "create", "existing", "claim", "release",
                        "unlease", "ready", "gone"}
Copies == [plan : Plans, enabled : BOOLEAN, owner : Workers \cup {None}]

\* schedule.py next_run_at: the first due instant of a plan after an instant.
NextRunAt(plan, after) ==
    LET later == {t \in plan : t > after}
    IN  IF later = {} THEN None
        ELSE CHOOSE t \in later : \A u \in later : t <= u

Larger(x, y) == IF x < y THEN y ELSE x

\* The loop begins an iteration at "recover" and looks for due jobs at "due".
Resting(w) == [pc |-> "recover", phase |-> "recover", host |-> w, copy |-> None, run |-> None]
Gone == [pc |-> "gone", phase |-> "gone", host |-> None, copy |-> None, run |-> None]
Ready == [Gone EXCEPT !.pc = "ready"]

\* Nobody reads the dispatch lease of a run that has left the pending states.
Row(status) == [status |-> status, live |-> FALSE]

Init ==
    /\ now = 0
    /\ \E plan \in Plans :
         /\ NextRunAt(plan, now - 1) # None
         /\ job = [exists |-> TRUE, plan |-> plan, enabled |-> TRUE,
                   due |-> NextRunAt(plan, now - 1), owner |-> None, live |-> FALSE]
    /\ run = [k \in Runs |-> Row("absent")]
    /\ turns = [k \in Runs |-> << >>]
    /\ watch = {}
    /\ proc = [p \in Procs |-> IF p \in Workers THEN Resting(p) ELSE Ready]
    /\ edit = None
    /\ raced = FALSE
    /\ calls = 0 /\ crashes = 0 /\ faults = 0 /\ slow = 0

------------------------------------------------------------------------------
(* The dispatcher. *)

Goto(p, pc) == proc' = [proc EXCEPT ![p].pc = pc]

\* A dispatch is over: the loop looks for the next one of the same phase.
Done(p) ==
    proc' = [proc EXCEPT ![p] =
        IF p \in Manuals THEN Gone
        ELSE [Resting(p) EXCEPT !.pc = proc[p].phase, !.phase = proc[p].phase]]

CopyOf(row) == [plan |-> row.plan, enabled |-> row.enabled, owner |-> row.owner]
\* Mutant of Claimable: a run that is leased is claimed as well.
ClaimableWhileLeased(k) == run[k].status \in Pending
\* Mutant of Claimable: a run whose dispatcher died stays as it is.
ClaimableWhenQueued(k) == run[k].status = "queued" /\ ~run[k].live
Claimable(k) == run[k].status \in Pending /\ ~run[k].live
\* Mutant of Claimed: a status nobody knows.
ClaimedByName == [status |-> "claimed", live |-> TRUE]
Claimed == [status |-> "dispatching", live |-> TRUE]

IsDue ==
    /\ job.exists /\ job.enabled
    /\ job.due # None /\ job.due <= now
    /\ ~job.live

\* _recover_pending takes any run that waits for a dispatcher.
TakePending(w, k) ==
    /\ proc[w].pc = "recover"
    /\ Claimable(k)
    /\ run' = [run EXCEPT ![k] = Claimed]
    /\ proc' = [proc EXCEPT ![w] = [@ EXCEPT !.pc = "fetch", !.run = k]]
    /\ UNCHANGED <<now, job, turns, watch, edit, raced, budget>>

NothingPending(w) ==
    /\ proc[w].pc = "recover"
    /\ \A k \in Runs : ~Claimable(k)
    /\ proc' = [proc EXCEPT ![w] = [@ EXCEPT !.pc = "due", !.phase = "due"]]
    /\ UNCHANGED <<now, rows, turns, watch, edit, raced, budget>>

\* The run is claimed; its job may have been deleted or edited.
FetchJob(w) ==
    /\ proc[w].pc = "fetch"
    /\ proc' = [proc EXCEPT ![w] =
         IF job.exists THEN [@ EXCEPT !.pc = "start", !.copy = CopyOf(job)]
         ELSE [@ EXCEPT !.pc = "orphan"]]
    /\ UNCHANGED <<now, rows, turns, watch, edit, raced, budget>>

FailPendingRun(w) ==
    /\ proc[w].pc = "orphan"
    /\ run' = IF run[proc[w].run].status = "dispatching"
              THEN [run EXCEPT ![proc[w].run] = Row("failed")] ELSE run
    /\ Done(w)
    /\ UNCHANGED <<now, job, turns, watch, edit, raced, budget>>

ClaimDueJob(w) ==
    /\ proc[w].pc = "due"
    /\ IsDue
    /\ job' = [job EXCEPT !.owner = w, !.live = TRUE]
    /\ proc' = [proc EXCEPT ![w] =
                  [@ EXCEPT !.pc = "create", !.copy = CopyOf(job'), !.run = job.due]]
    /\ UNCHANGED <<now, run, turns, watch, edit, raced, budget>>

\* Nothing is due: the loop sleeps and begins again.
NothingDue(w) ==
    /\ proc[w].pc = "due"
    /\ ~IsDue
    /\ proc' = [proc EXCEPT ![w] = Resting(w)]
    /\ UNCHANGED <<now, rows, turns, watch, edit, raced, budget>>

CreateRun(w) ==
    /\ proc[w].pc = "create"
    /\ LET k == proc[w].run
       IN  IF run[k].status = "absent"
           THEN /\ run' = [run EXCEPT ![k] = Row("queued")]
                /\ Goto(w, "claim")
           ELSE /\ UNCHANGED run
                /\ Goto(w, "existing")
    /\ UNCHANGED <<now, job, turns, watch, edit, raced, budget>>

\* Mutant of CheckExisting: whoever wrote the row takes care of it.
CheckNothing(w) ==
    /\ proc[w].pc = "existing"
    /\ Goto(w, "release")
    /\ UNCHANGED <<now, rows, turns, watch, edit, raced, budget>>

\* The row existed already: an earlier dispatcher was interrupted or is at work.
CheckExisting(w) ==
    /\ proc[w].pc = "existing"
    /\ Goto(w, IF run[proc[w].run].status \in Pending THEN "claim" ELSE "release")
    /\ UNCHANGED <<now, rows, turns, watch, edit, raced, budget>>

\* Losing the claim leaves the job's lease to lapse.
ClaimRun(p) ==
    /\ proc[p].pc = "claim"
    /\ IF Claimable(proc[p].run)
       THEN /\ run' = [run EXCEPT ![proc[p].run] = Claimed]
            /\ Goto(p, "start")
       ELSE /\ UNCHANGED run
            /\ Done(p)
    /\ UNCHANGED <<now, job, turns, watch, edit, raced, budget>>

RunNow(w, m) ==
    /\ proc[m].pc = "ready"
    /\ calls < MaxCalls
    /\ calls' = calls + 1
    /\ job.exists /\ job.plan \in NowPlans
    /\ run' = [run EXCEPT ![m] = Row("queued")]
    /\ proc' = [proc EXCEPT ![m] = 
         [@ EXCEPT !.pc = "claim", !.host = w, !.copy = CopyOf(job), !.run = m]]
    /\ UNCHANGED <<now, job, turns, watch, edit, raced, crashes, faults, slow>>

------------------------------------------------------------------------------
(* Starting and observing a turn. *)

Busy == \E k \in Runs : \E i \in DOMAIN turns[k] : turns[k][i] = "running"

\* User, quota, target conversation, skill or prepare_turn say no.
Refuse(p) ==
    /\ proc[p].pc = "start"
    /\ Goto(p, "failing")
    /\ UNCHANGED <<now, rows, turns, watch, edit, raced, budget>>

PrepareTurn(p) ==
    /\ proc[p].pc = "start"
    /\ FixedSession => ~Busy
    /\ turns' = [turns EXCEPT ![proc[p].run] = Append(@, "running")]
    /\ Goto(p, "mark")
    /\ UNCHANGED <<now, rows, watch, edit, raced, budget>>

\* A run of a schedule ends with release_after_dispatch, a manual one does not.
Started(p) == IF proc[p].run \in Manuals THEN Done(p) ELSE Goto(p, "release")

\* Mutant of MarkStarted: no observer task.
MarkUnobserved(p) ==
    /\ proc[p].pc = "mark"
    /\ run' = [run EXCEPT ![proc[p].run] = Row("running")]
    /\ Started(p)
    /\ UNCHANGED <<now, job, turns, watch, edit, raced, budget>>

MarkStarted(p) ==
    /\ proc[p].pc = "mark"
    /\ LET k == proc[p].run
       IN  /\ run' = [run EXCEPT ![k] = Row("running")]
           /\ watch' = watch \cup {<<proc[p].host, k, Len(turns[k])>>}
    /\ Started(p)
    /\ UNCHANGED <<now, job, turns, edit, raced, budget>>

FailBeforeStart(p) ==
    /\ proc[p].pc = "failing"
    /\ run' = [run EXCEPT ![proc[p].run] = Row("failed")]
    /\ Started(p)
    /\ UNCHANGED <<now, job, turns, watch, edit, raced, budget>>

\* Mutant of Release: the update does not compare next_run_at.
ReleaseAnyDue(p) ==
    /\ proc[p].pc = "release"
    /\ LET copy == proc[p].copy
           next == NextRunAt(copy.plan, Larger(proc[p].run, now))
       IN  job' = [job EXCEPT !.due = next, !.owner = None, !.live = FALSE,
                              !.enabled = next # None /\ copy.enabled]
    /\ Done(p)
    /\ UNCHANGED <<now, run, turns, watch, edit, raced, budget>>

\* The next time comes from the copy of the job that was read at the claim.
Release(p) ==
    /\ proc[p].pc = "release"
    /\ LET scheduledFor == proc[p].run
           copy == proc[p].copy
           next == NextRunAt(copy.plan, Larger(scheduledFor, now))
       IN  IF job.exists /\ job.due # None /\ job.due <= scheduledFor
           THEN /\ job' = [job EXCEPT !.due = next, !.owner = None, !.live = FALSE,
                                      !.enabled = next # None /\ copy.enabled]
                /\ Done(p)
           ELSE /\ UNCHANGED job
                /\ Goto(p, "unlease")
    /\ UNCHANGED <<now, run, turns, watch, edit, raced, budget>>

Unlease(p) ==
    /\ proc[p].pc = "unlease"
    /\ job' = IF job.exists /\ job.owner = proc[p].copy.owner
              THEN [job EXCEPT !.owner = None, !.live = FALSE] ELSE job
    /\ Done(p)
    /\ UNCHANGED <<now, run, turns, watch, edit, raced, budget>>

TurnEnds(k, i) ==
    /\ turns[k][i] = "running"
    /\ \E o \in Outcomes : turns' = [turns EXCEPT ![k][i] = o]
    /\ UNCHANGED <<now, rows, watch, proc, edit, raced, budget>>

\* _observe: wait_turn returned, _mark_finished records the outcome.
Observe(w, k, i) ==
    /\ <<w, k, i>> \in watch
    /\ turns[k][i] # "running"
    /\ run' = [run EXCEPT ![k] = Row(turns[k][i])]
    /\ watch' = watch \ {<<w, k, i>>}
    /\ UNCHANGED <<now, job, turns, proc, edit, raced, budget>>

------------------------------------------------------------------------------
(* The user. *)

EditRead ==
    /\ edit = None
    /\ calls < MaxCalls
    /\ job.exists
    /\ edit' = job.plan
    /\ calls' = calls + 1
    /\ UNCHANGED <<now, rows, turns, watch, proc, raced, crashes, faults, slow>>

\* update_job looks one second back, so the present instant counts.
Reschedule(plan, enabled) ==
    LET next == IF enabled THEN NextRunAt(plan, now - 1) ELSE None
    IN  IF enabled /\ next = None
        THEN UNCHANGED <<job, raced>>
        ELSE /\ job' = [job EXCEPT !.plan = plan, !.enabled = enabled, !.due = next]
             /\ raced' = (raced \/ (next # None /\ next <= now))

\* The editor sends the whole job; the switch sends `enabled' only; a change of
\* the prompt touches neither.  All of them write the anchor that was read.
EditWrite ==
    /\ edit # None
    /\ edit' = None
    /\ IF job.exists
       THEN \/ \E plan \in Plans, enabled \in BOOLEAN : Reschedule(plan, enabled)
            \/ \E enabled \in BOOLEAN : Reschedule(edit, enabled)
            \/ job' = [job EXCEPT !.plan = edit] /\ UNCHANGED raced
       ELSE UNCHANGED <<job, raced>>
    /\ UNCHANGED <<now, run, turns, watch, proc, budget>>

DeleteJob ==
    /\ edit # None
    /\ edit' = None
    /\ job' = [job EXCEPT !.exists = FALSE]
    /\ UNCHANGED <<now, run, turns, watch, proc, raced, budget>>

------------------------------------------------------------------------------
(* Time, failures. *)

Tick ==
    /\ now < Horizon
    /\ now' = now + 1
    /\ UNCHANGED <<rows, turns, watch, proc, edit, raced, budget>>

AtWorkOnJob == \E w \in Workers : proc[w].copy # None /\ proc[w].copy.owner = w /\ job.owner = w
AtWorkOnRun(k) == \E p \in Procs : proc[p].run = k /\ proc[p].pc \in Working

Late(working) ==
    /\ working => crashes + faults + slow < MaxTroubles
    /\ slow' = IF working THEN slow + 1 ELSE slow

JobLeaseLapses ==
    /\ job.live
    /\ Late(AtWorkOnJob)
    /\ job' = [job EXCEPT !.live = FALSE]
    /\ UNCHANGED <<now, run, turns, watch, proc, edit, raced, calls, crashes, faults>>

RunLeaseLapses(k) ==
    /\ run[k].live
    /\ Late(AtWorkOnRun(k))
    /\ run' = [run EXCEPT ![k].live = FALSE]
    /\ UNCHANGED <<now, job, turns, watch, proc, edit, raced, calls, crashes, faults>>

\* A database operation raises.  Inside the runner's try block this fails the
\* run, which _mark_started may have written before it raised; elsewhere it ends
\* the iteration of the loop, or the run-now task.
OperationRaises(p) ==
    /\ crashes + faults + slow < MaxTroubles
    /\ faults' = faults + 1
    /\ \/ /\ proc[p].pc = "mark"
          /\ run' \in {run, [run EXCEPT ![proc[p].run] = Row("running")]}
          /\ Goto(p, "failing")
       \/ /\ proc[p].pc \notin {"ready", "gone", "mark"}
          /\ proc' = [proc EXCEPT ![p] = IF p \in Manuals THEN Gone ELSE Resting(p)]
          /\ UNCHANGED run
    /\ UNCHANGED <<now, job, turns, watch, edit, raced, calls, crashes, slow>>

\* The observers and run-now tasks live in the process; so do its turns, which
\* the recovery of turns ends later.
Crash(w) ==
    /\ crashes + faults + slow < MaxTroubles
    /\ crashes' = crashes + 1
    /\ watch' = {x \in watch : x[1] # w}
    /\ proc' = [p \in Procs |->
         IF proc[p].host # w THEN proc[p]
         ELSE IF p \in Workers THEN Resting(p) ELSE Gone]
    /\ UNCHANGED <<now, rows, turns, edit, raced, calls, faults, slow>>

------------------------------------------------------------------------------
LoopStep(w) ==
    \/ \E k \in Runs : TakePending(w, k)
    \/ NothingPending(w) \/ FetchJob(w) \/ FailPendingRun(w)
    \/ ClaimDueJob(w) \/ NothingDue(w) \/ CreateRun(w) \/ CheckExisting(w)

DispatchStep(p) ==
    \/ ClaimRun(p) \/ Refuse(p) \/ PrepareTurn(p) \/ MarkStarted(p)
    \/ FailBeforeStart(p) \/ Release(p) \/ Unlease(p)

TurnStep(k) ==
    \E i \in DOMAIN turns[k] :
        \/ TurnEnds(k, i)
        \/ \E w \in Workers : Observe(w, k, i)

Lapse == JobLeaseLapses \/ \E k \in Runs : RunLeaseLapses(k)

Next ==
    \/ \E w \in Workers : LoopStep(w) \/ Crash(w)
    \/ \E p \in Procs : DispatchStep(p) \/ OperationRaises(p)
    \/ \E w \in Workers, m \in Manuals : RunNow(w, m)
    \/ \E k \in Runs : TurnStep(k)
    \/ EditRead \/ EditWrite \/ DeleteJob
    \/ Tick \/ Lapse

Spec == Init /\ [][Next]_vars

\* The loops and the tasks on the event loop go on, turns end, leases of a dead
\* or finished holder lapse.  Nothing is assumed of the user, of failures, of
\* crashes, or of leases under a working process (they are bounded).
Fairness ==
    /\ \A p \in Workers : WF_vars(LoopStep(p) \/ DispatchStep(p))
    /\ \A p \in Manuals : WF_vars(DispatchStep(p))
    /\ WF_vars(\E k \in Runs : TurnStep(k))
    /\ WF_vars(\E k \in Runs : RunLeaseLapses(k))
    /\ WF_vars(JobLeaseLapses)

FairSpec == Spec /\ Fairness

------------------------------------------------------------------------------
(* Properties. *)

JobRows == [exists : BOOLEAN, plan : Plans, enabled : BOOLEAN,
            due : (UNION Plans) \cup {None}, owner : Workers \cup {None}, live : BOOLEAN]
RunRows == [status : {"absent"} \cup Pending \cup Settled, live : BOOLEAN]
Progress == [pc : Places, phase : {"recover", "due", "gone"}, host : Workers \cup {None},
             copy : Copies \cup {None}, run : Runs \cup {None}]

TypeOK ==
    /\ now \in Instants
    /\ job \in JobRows
    /\ run \in [Runs -> RunRows]
    /\ turns \in [Runs -> Seq({"running"} \cup Outcomes)]
    /\ watch \subseteq Workers \X Runs \X Nat
    /\ proc \in [Procs -> Progress]
    /\ edit \in Plans \cup {None}
    /\ raced \in BOOLEAN
    /\ calls \in Nat /\ crashes \in Nat /\ faults \in Nat /\ slow \in Nat

\* A due time or a run-now call starts at most one turn, however many processes
\* find it; one more for every crash and for every lease that lapsed under its
\* holder, and one for every two operations that raise: neither the start of the
\* turn nor its failure could be noted, and the run is dispatched again.
OneTurnPerRun == \A k \in Runs : Len(turns[k]) <= 1 + crashes + slow + faults \div 2

\* While no lease lapses under its holder, no two processes work on one run.
OneDispatcher ==
    slow = 0 => \A p, q \in Procs :
        p # q /\ {proc[p].pc, proc[q].pc} \subseteq Working => proc[p].run # proc[q].run

\* Undisturbed, a run whose dispatch and observation are over tells how its turn
\* ended, and `failed' if it never started one.
StatusIsHonest ==
    crashes + slow + faults = 0 =>
        \A k \in Runs :
            /\ run[k].status \in Settled
            /\ \A p \in Procs : proc[p].run # k
            /\ \A x \in watch : x[2] # k
            => run[k].status = IF turns[k] = << >> THEN "failed" ELSE turns[k][1]

\* The dispatcher moves next_run_at past a due time only when the run of that
\* time has been dispatched: no due time is lost between two processes.
NoDueTimeSkipped ==
    [][edit' = edit /\ job.due # None /\ job'.due # job.due
         => run[job.due].status \in Settled]_vars

\* Unless an edit lands in the very second of a due time, what the user saved
\* stands: next_run_at is an instant of the plan, and exists iff enabled.
EditStands ==
    job.exists /\ ~raced =>
        /\ job.due # None => job.due \in job.plan
        /\ job.enabled <=> job.due # None

\* The comment in release_after_dispatch: "A concurrent user edit owns the new
\* schedule; only release this worker's lease."
EditOwnsSchedule ==
    job.exists => (job.due # None => job.due \in job.plan)

\* A run that waits is dispatched, whoever crashed, and although its job may be
\* deleted.
NothingIsPending == \A k \in Runs : run[k].status \notin Pending

\* A due time is served unless the user changes or deletes the job.
NothingIsDue ==
    job.exists /\ job.due # None /\ job.due <= now => run[job.due].status \in Settled
===============================================================================
