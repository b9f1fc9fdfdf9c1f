------------------------------ MODULE Assistance ------------------------------
(***************************************************************************)
(* Human assistance for the browser in one conversation: a browser call of *)
(* a turn that needs the user leaves a suspension; the user hands the      *)
(* browser back and resumes, which starts a turn that goes on with the     *)
(* mission and settles the suspension when it ends.                        *)
(*                                                                         *)
(* An action is one read or one atomic update of runtime_suspensions, or   *)
(* the start or the end of a turn, of which the conversation has one at a  *)
(* time (module TurnLifecycle).  Suspensions are numbered as they come.    *)
(***************************************************************************)
EXTENDS Naturals, FiniteSets

CONSTANTS
    Messages,        \* chat messages, each a turn
    Resumes,         \* POST /tasks/{run_id}/resume requests
    ToolCalls,       \* calls of browser tools
    MaxSuspensions,  \* bound
    Nobody,
    MaxTroubles      \* bound: wrong requests, refused turns, failed updates, crashes

ASSUME TurnsAssumption ==
    Messages \cap Resumes = {} /\ Nobody \notin Messages \cup Resumes

VARIABLES
    status,          \* of a suspension
    turn,            \* the conversation's running turn
    tool,            \* progress of a browser call, and the turn it belongs to
    request,         \* progress of a resume request, and its suspension
    outcome,         \* how the turn of a message or a resume ended
    adrift,          \* suspensions whose claim a crash, a wrong run or a failed
                     \* update left behind
    assistTroubles

assistVars == <<status, turn, tool, request, outcome, adrift, assistTroubles>>

Suspensions == 1..MaxSuspensions
Turns == Messages \cup Resumes
Active == {"suspended", "ready"}

AssistInit ==
    /\ status = [s \in Suspensions |-> "none"]
    /\ turn = Nobody
    /\ tool = [t \in ToolCalls |-> [pc |-> "new", of |-> Nobody]]
    /\ request = [q \in Resumes |-> [pc |-> "new", on |-> 0]]
    /\ outcome = [t \in Turns |-> "none"]
    /\ adrift = {}
    /\ assistTroubles = 0

AssistTrouble == assistTroubles < MaxTroubles /\ assistTroubles' = assistTroubles + 1

\* SuspensionStore.transition: a compare-and-set on the status.
Transition(s, from, to) == status[s] = from /\ status' = [status EXCEPT ![s] = to]

------------------------------------------------------------------------------
(* Turns and their browser calls. *)

StartTurn(m) ==
    /\ turn = Nobody
    /\ outcome[m] = "none"
    /\ turn' = m
    /\ outcome' = [outcome EXCEPT ![m] = "running"]
    /\ UNCHANGED <<status, tool, request, adrift, assistTroubles>>

\* A call that continues a mission does not look for a pending handoff; a look
\* that raises has found none.
BeginBrowserTask(t) ==
    /\ tool[t].pc = "new"
    /\ turn # Nobody
    /\ \/ /\ tool' = [tool EXCEPT ![t] =
               IF turn \in Messages /\ \E s \in Suspensions : status[s] \in Active
               THEN [pc |-> "done", of |-> turn] ELSE [pc |-> "mission", of |-> turn]]
          /\ UNCHANGED assistTroubles
       \/ /\ tool' = [tool EXCEPT ![t] = [pc |-> "mission", of |-> turn]]
          /\ AssistTrouble
    /\ UNCHANGED <<status, turn, request, outcome, adrift>>

EndBrowserTask(t) ==
    /\ tool[t].pc = "mission"
    /\ tool' = [tool EXCEPT ![t].pc = "done"]
    /\ UNCHANGED <<status, turn, request, outcome, adrift, assistTroubles>>

SuspendForIntervention(t) ==
    /\ tool[t].pc = "mission"
    /\ \E s \in Suspensions :
          /\ \A r \in Suspensions : r < s <=> status[r] # "none"
          /\ Transition(s, "none", "suspended")
    /\ tool' = [tool EXCEPT ![t].pc = "done"]
    /\ UNCHANGED <<turn, request, outcome, adrift, assistTroubles>>

\* A turn that is cancelled or fails takes its browser calls with it.
EndTurn(how) ==
    /\ turn # Nobody
    /\ how = "completed" => \A t \in ToolCalls : tool[t].of = turn => tool[t].pc = "done"
    /\ outcome' = [outcome EXCEPT ![turn] = how]
    /\ turn' = Nobody
    /\ tool' = [t \in ToolCalls |->
          IF tool[t].of = turn THEN [tool[t] EXCEPT !.pc = "done"] ELSE tool[t]]
    /\ UNCHANGED <<status, request, adrift, assistTroubles>>

------------------------------------------------------------------------------
(* The user. *)

MarkReady(s) ==
    /\ Transition(s, "suspended", "ready")
    /\ UNCHANGED <<turn, tool, request, outcome, adrift, assistTroubles>>

At(q, pc) == request[q].pc = pc
Go(q, pc) == request' = [request EXCEPT ![q].pc = pc]

ReadSuspension(q) ==
    /\ At(q, "new")
    /\ \E s \in Suspensions :
          /\ status[s] # "none"
          /\ request' = [request EXCEPT ![q] =
                [pc |-> IF status[s] = "ready" THEN "claim" ELSE "done", on |-> s]]
    /\ UNCHANGED <<status, turn, tool, outcome, adrift, assistTroubles>>

\* Mutant of ClaimResume: what was read is relied upon.
ClaimUnguarded(q) ==
    /\ At(q, "claim")
    /\ status' = [status EXCEPT ![request[q].on] = "resuming"]
    /\ Go(q, "claimed")
    /\ UNCHANGED <<turn, tool, outcome, adrift, assistTroubles>>

ClaimResume(q) ==
    /\ At(q, "claim")
    /\ \/ Transition(request[q].on, "ready", "resuming") /\ Go(q, "claimed")
       \/ status[request[q].on] # "ready" /\ Go(q, "done") /\ UNCHANGED status
    /\ UNCHANGED <<turn, tool, outcome, adrift, assistTroubles>>

\* The answer 409 to a request with the wrong run keeps the claim; one with the
\* wrong node is released.
WrongRun(q) ==
    /\ At(q, "claimed")
    /\ AssistTrouble
    /\ adrift' = adrift \cup {request[q].on}
    /\ Go(q, "done")
    /\ UNCHANGED <<status, turn, tool, outcome>>

WrongNode(q) ==
    /\ At(q, "claimed")
    /\ AssistTrouble
    /\ Go(q, "release")
    /\ UNCHANGED <<status, turn, tool, outcome, adrift>>

\* Mutant of StartResumedTurn: a refused turn is just answered.
StartOrAnswer(q) ==
    /\ At(q, "claimed")
    /\ IF turn = Nobody
       THEN /\ turn' = q
            /\ outcome' = [outcome EXCEPT ![q] = "running"]
            /\ Go(q, "watch")
       ELSE Go(q, "done") /\ UNCHANGED <<turn, outcome>>
    /\ UNCHANGED <<status, tool, adrift, assistTroubles>>

\* The turn is refused while another is running, or raises.
StartResumedTurn(q) ==
    /\ At(q, "claimed")
    /\ \/ /\ turn = Nobody
          /\ turn' = q
          /\ outcome' = [outcome EXCEPT ![q] = "running"]
          /\ Go(q, "watch")
          /\ UNCHANGED assistTroubles
       \/ /\ IF turn = Nobody THEN AssistTrouble ELSE UNCHANGED assistTroubles
          /\ Go(q, "release")
          /\ UNCHANGED <<turn, outcome>>
    /\ UNCHANGED <<status, tool, adrift>>

ReleaseResume(q) ==
    /\ At(q, "release")
    /\ Transition(request[q].on, "resuming", "ready")
    /\ Go(q, "done")
    /\ UNCHANGED <<turn, tool, outcome, adrift, assistTroubles>>

\* schedule_browser_resume: complete_resume or fail_resume.
SettleResume(q) ==
    /\ At(q, "watch")
    /\ outcome[q] \in {"completed", "failed"}
    /\ Transition(request[q].on, "resuming",
                  IF outcome[q] = "completed" THEN "resumed" ELSE "resume_failed")
    /\ Go(q, "done")
    /\ UNCHANGED <<turn, tool, outcome, adrift, assistTroubles>>

\* An update that raises is logged, or answered with an error.
UpdateRaises(q) ==
    /\ At(q, "release") \/ (At(q, "watch") /\ outcome[q] \in {"completed", "failed"})
    /\ AssistTrouble
    /\ adrift' = adrift \cup {request[q].on}
    /\ Go(q, "done")
    /\ UNCHANGED <<status, turn, tool, outcome>>

\* chat-api restarts: recovery ends the turn, nobody watches it.
Crash ==
    /\ AssistTrouble
    /\ adrift' = adrift \cup {s \in Suspensions : status[s] = "resuming"}
    /\ turn' = Nobody
    /\ outcome' = [t \in Turns |-> IF outcome[t] = "running" THEN "lost" ELSE outcome[t]]
    /\ tool' = [t \in ToolCalls |-> [tool[t] EXCEPT !.pc = IF @ = "mission" THEN "done" ELSE @]]
    /\ request' = [q \in Resumes |-> [request[q] EXCEPT !.pc = IF @ = "new" THEN @ ELSE "done"]]
    /\ UNCHANGED status

TurnStep ==
    \/ \E t \in ToolCalls : EndBrowserTask(t) \/ SuspendForIntervention(t)
    \/ \E how \in {"completed", "failed"} : EndTurn(how)
ResumeStep(q) ==
    \/ ClaimResume(q) \/ WrongRun(q) \/ WrongNode(q) \/ StartResumedTurn(q)
    \/ ReleaseResume(q) \/ SettleResume(q) \/ UpdateRaises(q)

AssistNext ==
    \/ \E m \in Messages : StartTurn(m)
    \/ \E t \in ToolCalls : BeginBrowserTask(t)
    \/ TurnStep
    \/ \E s \in Suspensions : MarkReady(s)
    \/ \E q \in Resumes : ReadSuspension(q) \/ ResumeStep(q)
    \/ Crash

\* Browser calls have a deadline and turns end; requests and watchers go on.
AssistFairness == WF_assistVars(TurnStep) /\ \A q \in Resumes : WF_assistVars(ResumeStep(q))

AssistSpec == AssistInit /\ [][AssistNext]_assistVars

------------------------------------------------------------------------------
(* Properties. *)

AssistTypeOK ==
    /\ \A s \in Suspensions :
          status[s] \in Active \cup {"none", "resuming", "resumed", "resume_failed"}
    /\ turn \in Turns \cup {Nobody}
    /\ \A t \in ToolCalls : tool[t].pc \in {"new", "mission", "done"}
    /\ \A q \in Resumes :
          request[q].pc \in {"new", "claim", "claimed", "release", "watch", "done"}

Started(q) == outcome[q] # "none"

\* A mission that waits for the user is continued by one turn at most, however
\* often the user resumes it, and counts as resumed when that turn completed.
ResumedByOneTurn ==
    \A s \in Suspensions :
        /\ \A q, r \in Resumes :
              Started(q) /\ Started(r) /\ request[q].on = s /\ request[r].on = s => q = r
        /\ status[s] = "resumed" =>
              \E q \in Resumes : request[q].on = s /\ outcome[q] = "completed"

\* A suspension in RESUMING, which no list of active suspensions shows, is in
\* the hands of a request or of the watcher of its turn.
ResumingIsOwned ==
    \A s \in Suspensions \ adrift : status[s] = "resuming" =>
        \E q \in Resumes : request[q].on = s /\ request[q].pc \in {"claimed", "release", "watch"}

\* ... and leaves that status: it is resumed, has failed, or can be resumed again.
ResumesAreSettled == \A s \in Suspensions : status[s] = "resuming" => s \in adrift
===============================================================================
