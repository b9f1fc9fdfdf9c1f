--------------------------- MODULE Assistance_proofs ---------------------------
(***************************************************************************)
(* Proofs about module Assistance, for any number of messages, resume      *)
(* requests, browser calls and suspensions.                                *)
(*                                                                         *)
(* The argument: a claim is exclusive (OwnerHolds), so of the requests for *)
(* one suspension at most one is between its claim and its settlement; a   *)
(* turn that was started for a suspension keeps it out of READY for ever   *)
(* (StartedIsSpent), so nobody claims it a second time.                    *)
(***************************************************************************)
EXTENDS Assistance, TLAPS

Statuses == Active \cup {"none", "resuming", "resumed", "resume_failed"}
Steps == {"new", "claim", "claimed", "release", "watch", "done"}
TurnOutcomes == {"none", "running", "completed", "failed", "lost"}
Owning == {"claimed", "release", "watch"}

AssistTypes ==
    /\ status \in [Suspensions -> Statuses]
    /\ turn \in Turns \cup {Nobody}
    /\ tool \in [ToolCalls -> [pc : {"new", "mission", "done"}, of : Turns \cup {Nobody}]]
    /\ request \in [Resumes -> [pc : Steps, on : Suspensions \cup {0}]]
    /\ outcome \in [Turns -> TurnOutcomes]
    /\ adrift \subseteq Suspensions
    /\ assistTroubles \in Nat

\* A request that has claimed knows its suspension, and has not started a turn
\* before it stands at "watch".
RequestFrame ==
    \A q \in Resumes :
        /\ request[q].pc # "new" => request[q].on \in Suspensions
        /\ request[q].pc \notin {"watch", "done"} => ~Started(q)

\* The claim is exclusive.
OwnerHolds ==
    \A q \in Resumes : request[q].pc \in Owning =>
        /\ status[request[q].on] = "resuming"
        /\ \A r \in Resumes :
              request[r].pc \in Owning /\ request[r].on = request[q].on => q = r

\* A suspension whose turn was started is never offered again.
StartedIsSpent ==
    \A q \in Resumes : Started(q) =>
        status[request[q].on] \in {"resuming", "resumed", "resume_failed"}

\* A request that holds an unused claim finds no turn started before it.
ClaimIsFresh ==
    \A q, r \in Resumes :
        request[q].pc \in {"claimed", "release"} /\ Started(r) => request[r].on # request[q].on

TurnRuns == turn \in Turns => outcome[turn] = "running"

OneStarted ==
    \A q, r \in Resumes : Started(q) /\ Started(r) /\ request[q].on = request[r].on => q = r

ResumedIsCompleted ==
    \A s \in Suspensions : status[s] = "resumed" =>
        \E q \in Resumes : request[q].on = s /\ outcome[q] = "completed"

AssistInv ==
    /\ AssistTypes /\ RequestFrame /\ OwnerHolds /\ StartedIsSpent /\ ClaimIsFresh
    /\ TurnRuns /\ OneStarted /\ ResumedIsCompleted /\ ResumingIsOwned

------------------------------------------------------------------------------
LEMMA AssistInitInv == AssistInit => AssistInv
<1> SUFFICES ASSUME AssistInit PROVE AssistInv
  OBVIOUS
<1>1. AssistTypes
  BY DEF AssistInit, AssistTypes, Statuses, Active, Steps, TurnOutcomes
<1>2. RequestFrame /\ OwnerHolds /\ StartedIsSpent /\ ClaimIsFresh /\ OneStarted
  BY DEF AssistInit, RequestFrame, OwnerHolds, StartedIsSpent, ClaimIsFresh, OneStarted,
         Started, Owning, Turns
<1>3. TurnRuns /\ ResumedIsCompleted /\ ResumingIsOwned
  BY TurnsAssumption DEF AssistInit, TurnRuns, ResumedIsCompleted, ResumingIsOwned, Turns
<1> QED
  BY <1>1, <1>2, <1>3 DEF AssistInv

(* The steps that change something the invariant looks at.                 *)
LEMMA StartTurnKeeps ==
    ASSUME AssistInv, NEW m \in Messages, StartTurn(m)
    PROVE  AssistInv'
<1> USE DEF AssistInv, AssistTypes, Turns, Statuses, Active, Steps, TurnOutcomes
<1>1. AssistTypes'
  BY DEF StartTurn
<1>2. RequestFrame'
  BY TurnsAssumption DEF StartTurn, RequestFrame, Started
<1>3. OwnerHolds'
  BY TurnsAssumption DEF StartTurn, RequestFrame, OwnerHolds, Owning
<1>4. StartedIsSpent'
  BY TurnsAssumption DEF StartTurn, RequestFrame, OwnerHolds, StartedIsSpent, Started,
         Owning
<1>5. ClaimIsFresh'
  BY TurnsAssumption DEF StartTurn, RequestFrame, OwnerHolds, StartedIsSpent,
         ClaimIsFresh, Started, Owning
<1>6. TurnRuns'
  BY TurnsAssumption DEF StartTurn, TurnRuns, RequestFrame
<1>7. OneStarted'
  BY TurnsAssumption DEF StartTurn, RequestFrame, OneStarted, ClaimIsFresh, Started
<1>8. ResumedIsCompleted'
  BY TurnsAssumption DEF StartTurn, ResumedIsCompleted, RequestFrame, OwnerHolds,
         TurnRuns, Started, Owning
<1>9. ResumingIsOwned'
  BY TurnsAssumption DEF StartTurn, ResumingIsOwned, RequestFrame
<1> QED
  BY <1>1, <1>2, <1>3, <1>4, <1>5, <1>6, <1>7, <1>8, <1>9

LEMMA BeginBrowserTaskKeeps ==
    ASSUME AssistInv, NEW t \in ToolCalls, BeginBrowserTask(t)
    PROVE  AssistInv'
<1> USE DEF AssistInv, AssistTypes, Turns, Statuses, Active, Steps, TurnOutcomes
<1>1. UNCHANGED <<status, turn, request, outcome, adrift>>
  BY DEF BeginBrowserTask
<1>2. \E pc \in {"done", "mission"} :
         tool' = [tool EXCEPT ![t] = [pc |-> pc, of |-> turn]]
  <2>1. CASE tool' = [tool EXCEPT ![t] = [pc |-> "mission", of |-> turn]]
    BY <2>1
  <2>2. CASE turn \in Messages /\ \E s \in Suspensions : status[s] \in Active
    BY <2>2 DEF BeginBrowserTask
  <2>3. CASE ~(turn \in Messages /\ \E s \in Suspensions : status[s] \in Active)
    BY <2>3 DEF BeginBrowserTask
  <2> QED
    BY <2>1, <2>2, <2>3
<1>3. assistTroubles' \in Nat
  BY DEF BeginBrowserTask, AssistTrouble
<1>4. AssistTypes'
  BY <1>1, <1>2, <1>3
<1> QED
  BY <1>1, <1>4 DEF RequestFrame, OwnerHolds, StartedIsSpent, ClaimIsFresh, TurnRuns,
         OneStarted, ResumedIsCompleted, ResumingIsOwned, Started

LEMMA EndBrowserTaskKeeps ==
    ASSUME AssistInv, NEW t \in ToolCalls, EndBrowserTask(t)
    PROVE  AssistInv'
<1> USE DEF AssistInv, AssistTypes, Turns, Statuses, Active, Steps, TurnOutcomes
<1>1. AssistTypes'
  BY DEF EndBrowserTask
<1>2. UNCHANGED <<status, turn, request, outcome, adrift>>
  BY DEF EndBrowserTask
<1> QED
  BY <1>1, <1>2 DEF RequestFrame, OwnerHolds, StartedIsSpent, ClaimIsFresh, TurnRuns,
         OneStarted, ResumedIsCompleted, ResumingIsOwned, Started

LEMMA SuspendForInterventionKeeps ==
    ASSUME AssistInv, NEW t \in ToolCalls, SuspendForIntervention(t)
    PROVE  AssistInv'
<1> USE DEF AssistInv, AssistTypes, Turns, Statuses, Active, Steps, TurnOutcomes
<1>1. AssistTypes'
  BY DEF SuspendForIntervention, Transition
<1>2. RequestFrame'
  BY DEF SuspendForIntervention, Transition, RequestFrame, Started
<1>3. OwnerHolds'
  BY DEF SuspendForIntervention, Transition, RequestFrame, OwnerHolds, Owning
<1>4. StartedIsSpent'
  BY DEF SuspendForIntervention, Transition, RequestFrame, OwnerHolds, StartedIsSpent,
         Started, Owning
<1>5. ClaimIsFresh'
  BY DEF SuspendForIntervention, Transition, RequestFrame, OwnerHolds, StartedIsSpent,
         ClaimIsFresh, Started, Owning
<1>6. TurnRuns'
  BY DEF SuspendForIntervention, Transition, TurnRuns, RequestFrame
<1>7. OneStarted'
  BY DEF SuspendForIntervention, Transition, RequestFrame, OneStarted, ClaimIsFresh,
         Started
<1>8. ResumedIsCompleted'
  BY DEF SuspendForIntervention, Transition, ResumedIsCompleted, RequestFrame,
         OwnerHolds, TurnRuns, Started, Owning
<1>9. ResumingIsOwned'
  BY DEF SuspendForIntervention, Transition, ResumingIsOwned, RequestFrame
<1> QED
  BY <1>1, <1>2, <1>3, <1>4, <1>5, <1>6, <1>7, <1>8, <1>9

LEMMA EndTurnKeeps ==
    ASSUME AssistInv, NEW how \in {"completed", "failed"}, EndTurn(how)
    PROVE  AssistInv'
<1> USE DEF AssistInv, AssistTypes, Turns, Statuses, Active, Steps, TurnOutcomes
<1>1. AssistTypes'
  BY DEF EndTurn
<1>2. RequestFrame'
  BY TurnsAssumption DEF EndTurn, RequestFrame, Started, TurnRuns
<1>3. OwnerHolds'
  BY TurnsAssumption DEF EndTurn, RequestFrame, OwnerHolds, Owning, TurnRuns
<1>4. StartedIsSpent'
  BY TurnsAssumption DEF EndTurn, RequestFrame, OwnerHolds, StartedIsSpent, Started,
         Owning, TurnRuns
<1>5. ClaimIsFresh'
  BY TurnsAssumption DEF EndTurn, RequestFrame, OwnerHolds, StartedIsSpent,
         ClaimIsFresh, Started, Owning, TurnRuns
<1>6. TurnRuns'
  BY TurnsAssumption DEF EndTurn, TurnRuns, RequestFrame
<1>7. OneStarted'
  BY TurnsAssumption DEF EndTurn, RequestFrame, OneStarted, ClaimIsFresh, Started,
         TurnRuns
<1>8. ResumedIsCompleted'
  BY TurnsAssumption DEF EndTurn, ResumedIsCompleted, RequestFrame, OwnerHolds,
         TurnRuns, Started, Owning
<1>9. ResumingIsOwned'
  BY TurnsAssumption DEF EndTurn, ResumingIsOwned, RequestFrame, TurnRuns
<1> QED
  BY <1>1, <1>2, <1>3, <1>4, <1>5, <1>6, <1>7, <1>8, <1>9

LEMMA MarkReadyKeeps ==
    ASSUME AssistInv, NEW s \in Suspensions, MarkReady(s)
    PROVE  AssistInv'
<1> USE DEF AssistInv, AssistTypes, Turns, Statuses, Active, Steps, TurnOutcomes
<1>1. AssistTypes'
  BY DEF MarkReady, Transition, Active
<1>2. RequestFrame'
  BY DEF MarkReady, Transition, Active, RequestFrame, Started
<1>3. OwnerHolds'
  BY DEF MarkReady, Transition, Active, RequestFrame, OwnerHolds, Owning
<1>4. StartedIsSpent'
  BY DEF MarkReady, Transition, Active, RequestFrame, OwnerHolds, StartedIsSpent,
         Started, Owning
<1>5. ClaimIsFresh'
  BY DEF MarkReady, Transition, Active, RequestFrame, OwnerHolds, StartedIsSpent,
         ClaimIsFresh, Started, Owning
<1>6. TurnRuns'
  BY DEF MarkReady, Transition, Active, TurnRuns, RequestFrame
<1>7. OneStarted'
  BY DEF MarkReady, Transition, Active, RequestFrame, OneStarted, ClaimIsFresh, Started
<1>8. ResumedIsCompleted'
  BY DEF MarkReady, Transition, Active, ResumedIsCompleted, RequestFrame, OwnerHolds,
         TurnRuns, Started, Owning
<1>9. ResumingIsOwned'
  BY DEF MarkReady, Transition, Active, ResumingIsOwned, RequestFrame
<1> QED
  BY <1>1, <1>2, <1>3, <1>4, <1>5, <1>6, <1>7, <1>8, <1>9

LEMMA ReadSuspensionKeeps ==
    ASSUME AssistInv, NEW q \in Resumes, ReadSuspension(q)
    PROVE  AssistInv'
<1> USE DEF AssistInv, AssistTypes, Turns, Statuses, Active, Steps, TurnOutcomes
<1>1. AssistTypes'
  BY DEF ReadSuspension, At
<1>2. RequestFrame'
  BY DEF ReadSuspension, At, RequestFrame, Started
<1>3. OwnerHolds'
  BY DEF ReadSuspension, At, RequestFrame, OwnerHolds, Owning
<1>4. StartedIsSpent'
  BY DEF ReadSuspension, At, RequestFrame, OwnerHolds, StartedIsSpent, Started, Owning
<1>5. ClaimIsFresh'
  BY DEF ReadSuspension, At, RequestFrame, OwnerHolds, StartedIsSpent, ClaimIsFresh,
         Started, Owning
<1>6. TurnRuns'
  BY DEF ReadSuspension, At, TurnRuns, RequestFrame
<1>7. OneStarted'
  BY DEF ReadSuspension, At, RequestFrame, OneStarted, ClaimIsFresh, Started
<1>8. ResumedIsCompleted'
  BY DEF ReadSuspension, At, ResumedIsCompleted, RequestFrame, OwnerHolds, TurnRuns,
         Started, Owning
<1>9. ResumingIsOwned'
  BY DEF ReadSuspension, At, ResumingIsOwned, RequestFrame
<1> QED
  BY <1>1, <1>2, <1>3, <1>4, <1>5, <1>6, <1>7, <1>8, <1>9

LEMMA ClaimResumeKeeps ==
    ASSUME AssistInv, NEW q \in Resumes, ClaimResume(q)
    PROVE  AssistInv'
<1> USE DEF AssistInv, AssistTypes, Turns, Statuses, Active, Steps, TurnOutcomes
<1>1. AssistTypes'
  BY DEF ClaimResume, At, Go, Transition
<1>2. RequestFrame'
  BY DEF ClaimResume, At, Go, Transition, RequestFrame, Started
<1>3. OwnerHolds'
  <2>1. /\ request[q].pc = "claim" /\ request'[q].on = request[q].on
        /\ request[q].on \in Suspensions
        /\ \A r \in Resumes : r # q => request'[r] = request[r]
    BY DEF ClaimResume, At, Go, RequestFrame
  <2>2. CASE Transition(request[q].on, "ready", "resuming")
    <3>1. \A r \in Resumes : request[r].pc \in Owning => request[r].on # request[q].on
      BY <2>2 DEF OwnerHolds, Transition
    <3>2. \A r \in Resumes : request[r].pc \in Owning =>
              status'[request[r].on] = "resuming"
      BY <2>1, <2>2, <3>1 DEF OwnerHolds, Transition, RequestFrame, Owning
    <3>3. status'[request[q].on] = "resuming"
      BY <2>1, <2>2 DEF Transition
    <3>4. ASSUME NEW r \in Resumes, request'[r].pc \in Owning
          PROVE  status'[request'[r].on] = "resuming"
      BY <2>1, <3>2, <3>3, <3>4
    <3>5. ASSUME NEW r \in Resumes, NEW p \in Resumes, request'[r].on = request'[p].on,
                 request'[r].pc \in Owning, request'[p].pc \in Owning
          PROVE  r = p
      BY <2>1, <3>1, <3>5 DEF OwnerHolds
    <3> QED
      BY <3>4, <3>5 DEF OwnerHolds
  <2>3. CASE UNCHANGED status /\ Go(q, "done")
    BY <2>1, <2>3 DEF OwnerHolds, Owning, Go
  <2> QED
    BY <2>2, <2>3 DEF ClaimResume
<1>4. StartedIsSpent'
  <2>1. /\ request[q].pc = "claim" /\ request'[q].on = request[q].on
        /\ request[q].on \in Suspensions
        /\ \A r \in Resumes : r # q => request'[r] = request[r]
        /\ outcome' = outcome
    BY DEF ClaimResume, At, Go, RequestFrame
  <2>2. CASE Transition(request[q].on, "ready", "resuming")
    <3>1. \A r \in Resumes : Started(r) =>
             request[r].on # request[q].on /\ request[r].on \in Suspensions
      BY <2>2 DEF StartedIsSpent, RequestFrame, Started, Transition
    <3> QED
      BY <2>1, <2>2, <3>1 DEF StartedIsSpent, Started, Transition
  <2>3. CASE UNCHANGED status
    BY <2>1, <2>3 DEF StartedIsSpent, Started
  <2> QED
    BY <2>2, <2>3 DEF ClaimResume
<1>5. ClaimIsFresh'
  BY DEF ClaimResume, At, Go, Transition, RequestFrame, OwnerHolds, StartedIsSpent,
         ClaimIsFresh, Started, Owning
<1>6. TurnRuns'
  BY DEF ClaimResume, At, Go, Transition, TurnRuns, RequestFrame
<1>7. OneStarted'
  BY DEF ClaimResume, At, Go, Transition, RequestFrame, OneStarted, ClaimIsFresh,
         Started
<1>8. ResumedIsCompleted'
  BY DEF ClaimResume, At, Go, Transition, ResumedIsCompleted, RequestFrame, OwnerHolds,
         TurnRuns, Started, Owning
<1>9. ResumingIsOwned'
  BY DEF ClaimResume, At, Go, Transition, ResumingIsOwned, RequestFrame
<1> QED
  BY <1>1, <1>2, <1>3, <1>4, <1>5, <1>6, <1>7, <1>8, <1>9

LEMMA WrongRunKeeps ==
    ASSUME AssistInv, NEW q \in Resumes, WrongRun(q)
    PROVE  AssistInv'
<1> USE DEF AssistInv, AssistTypes, Turns, Statuses, Active, Steps, TurnOutcomes
<1>1. AssistTypes'
  BY DEF WrongRun, At, Go, AssistTrouble, RequestFrame
<1>2. RequestFrame'
  BY DEF WrongRun, At, Go, AssistTrouble, RequestFrame, Started
<1>3. OwnerHolds'
  BY DEF WrongRun, At, Go, AssistTrouble, RequestFrame, OwnerHolds, Owning
<1>4. StartedIsSpent'
  BY DEF WrongRun, At, Go, AssistTrouble, RequestFrame, OwnerHolds, StartedIsSpent,
         Started, Owning
<1>5. ClaimIsFresh'
  BY DEF WrongRun, At, Go, AssistTrouble, RequestFrame, OwnerHolds, StartedIsSpent,
         ClaimIsFresh, Started, Owning
<1>6. TurnRuns'
  BY DEF WrongRun, At, Go, AssistTrouble, TurnRuns, RequestFrame
<1>7. OneStarted'
  BY DEF WrongRun, At, Go, AssistTrouble, RequestFrame, OneStarted, ClaimIsFresh,
         Started
<1>8. ResumedIsCompleted'
  BY DEF WrongRun, At, Go, AssistTrouble, ResumedIsCompleted, RequestFrame, OwnerHolds,
         TurnRuns, Started, Owning
<1>9. ResumingIsOwned'
  BY DEF WrongRun, At, Go, AssistTrouble, ResumingIsOwned, RequestFrame
<1> QED
  BY <1>1, <1>2, <1>3, <1>4, <1>5, <1>6, <1>7, <1>8, <1>9

LEMMA WrongNodeKeeps ==
    ASSUME AssistInv, NEW q \in Resumes, WrongNode(q)
    PROVE  AssistInv'
<1> USE DEF AssistInv, AssistTypes, Turns, Statuses, Active, Steps, TurnOutcomes
<1>1. AssistTypes'
  BY DEF WrongNode, At, Go, AssistTrouble
<1>2. RequestFrame'
  BY DEF WrongNode, At, Go, AssistTrouble, RequestFrame, Started
<1>3. OwnerHolds'
  BY DEF WrongNode, At, Go, AssistTrouble, RequestFrame, OwnerHolds, Owning
<1>4. StartedIsSpent'
  BY DEF WrongNode, At, Go, AssistTrouble, RequestFrame, OwnerHolds, StartedIsSpent,
         Started, Owning
<1>5. ClaimIsFresh'
  BY DEF WrongNode, At, Go, AssistTrouble, RequestFrame, OwnerHolds, StartedIsSpent,
         ClaimIsFresh, Started, Owning
<1>6. TurnRuns'
  BY DEF WrongNode, At, Go, AssistTrouble, TurnRuns, RequestFrame
<1>7. OneStarted'
  BY DEF WrongNode, At, Go, AssistTrouble, RequestFrame, OneStarted, ClaimIsFresh,
         Started
<1>8. ResumedIsCompleted'
  BY DEF WrongNode, At, Go, AssistTrouble, ResumedIsCompleted, RequestFrame, OwnerHolds,
         TurnRuns, Started, Owning
<1>9. ResumingIsOwned'
  BY DEF WrongNode, At, Go, AssistTrouble, ResumingIsOwned, RequestFrame
<1> QED
  BY <1>1, <1>2, <1>3, <1>4, <1>5, <1>6, <1>7, <1>8, <1>9

LEMMA StartResumedTurnKeeps ==
    ASSUME AssistInv, NEW q \in Resumes, StartResumedTurn(q)
    PROVE  AssistInv'
<1> USE DEF AssistInv, AssistTypes, Turns, Statuses, Active, Steps, TurnOutcomes
<1>1. AssistTypes'
  <2>1. status' = status /\ tool' = tool /\ adrift' = adrift /\ q \in Turns
    BY DEF StartResumedTurn
  <2>2. assistTroubles' \in Nat
    BY DEF StartResumedTurn, AssistTrouble
  <2>3. request' \in [Resumes -> [pc : Steps, on : Suspensions \cup {0}]]
    BY DEF StartResumedTurn, Go
  <2>4. turn' \in Turns \cup {Nobody} /\ outcome' \in [Turns -> TurnOutcomes]
    BY <2>1 DEF StartResumedTurn
  <2> QED
    BY <2>1, <2>2, <2>3, <2>4
<1>2. RequestFrame'
  BY TurnsAssumption DEF StartResumedTurn, At, Go, AssistTrouble, RequestFrame, Started
<1>3. OwnerHolds'
  <2>1. status' = status
    BY DEF StartResumedTurn
  <2>2. /\ request[q].pc = "claimed"
        /\ \A r \in Resumes : r # q => request'[r] = request[r]
        /\ request'[q].on = request[q].on
    BY DEF StartResumedTurn, At, Go
  <2> QED
    BY <2>1, <2>2 DEF OwnerHolds, Owning
<1>4. StartedIsSpent'
  BY TurnsAssumption DEF StartResumedTurn, At, Go, AssistTrouble, RequestFrame,
         OwnerHolds, StartedIsSpent, Started, Owning
<1>5. ClaimIsFresh'
  BY TurnsAssumption DEF StartResumedTurn, At, Go, AssistTrouble, RequestFrame,
         OwnerHolds, StartedIsSpent, ClaimIsFresh, Started, Owning
<1>6. TurnRuns'
  BY TurnsAssumption DEF StartResumedTurn, At, Go, AssistTrouble, TurnRuns, RequestFrame
<1>7. OneStarted'
  BY TurnsAssumption DEF StartResumedTurn, At, Go, AssistTrouble, RequestFrame,
         OneStarted, ClaimIsFresh, Started
<1>8. ResumedIsCompleted'
  BY TurnsAssumption DEF StartResumedTurn, At, Go, AssistTrouble, ResumedIsCompleted,
         RequestFrame, OwnerHolds, TurnRuns, Started, Owning
<1>9. ResumingIsOwned'
  BY TurnsAssumption DEF StartResumedTurn, At, Go, AssistTrouble, ResumingIsOwned,
         RequestFrame
<1> QED
  BY <1>1, <1>2, <1>3, <1>4, <1>5, <1>6, <1>7, <1>8, <1>9

LEMMA ReleaseResumeKeeps ==
    ASSUME AssistInv, NEW q \in Resumes, ReleaseResume(q)
    PROVE  AssistInv'
<1> USE DEF AssistInv, AssistTypes, Turns, Statuses, Active, Steps, TurnOutcomes
<1>1. AssistTypes'
  BY DEF ReleaseResume, At, Go, Transition
<1>2. RequestFrame'
  BY DEF ReleaseResume, At, Go, Transition, RequestFrame, Started
<1>3. OwnerHolds'
  BY DEF ReleaseResume, At, Go, Transition, RequestFrame, OwnerHolds, Owning
<1>4. StartedIsSpent'
  BY DEF ReleaseResume, At, Go, Transition, RequestFrame, OwnerHolds, StartedIsSpent,
         Started, Owning, ClaimIsFresh
<1>5. ClaimIsFresh'
  BY DEF ReleaseResume, At, Go, Transition, RequestFrame, OwnerHolds, StartedIsSpent,
         ClaimIsFresh, Started, Owning
<1>6. TurnRuns'
  BY DEF ReleaseResume, At, Go, Transition, TurnRuns, RequestFrame
<1>7. OneStarted'
  BY DEF ReleaseResume, At, Go, Transition, RequestFrame, OneStarted, ClaimIsFresh,
         Started
<1>8. ResumedIsCompleted'
  BY DEF ReleaseResume, At, Go, Transition, ResumedIsCompleted, RequestFrame,
         OwnerHolds, TurnRuns, Started, Owning
<1>9. ResumingIsOwned'
  BY DEF ReleaseResume, At, Go, Transition, ResumingIsOwned, RequestFrame
<1> QED
  BY <1>1, <1>2, <1>3, <1>4, <1>5, <1>6, <1>7, <1>8, <1>9

LEMMA SettleResumeKeeps ==
    ASSUME AssistInv, NEW q \in Resumes, SettleResume(q)
    PROVE  AssistInv'
<1> USE DEF AssistInv, AssistTypes, Turns, Statuses, Active, Steps, TurnOutcomes
<1>1. AssistTypes'
  BY DEF SettleResume, At, Go, Transition
<1>2. RequestFrame'
  BY DEF SettleResume, At, Go, Transition, RequestFrame, Started
<1>3. OwnerHolds'
  BY DEF SettleResume, At, Go, Transition, RequestFrame, OwnerHolds, Owning
<1>4. StartedIsSpent'
  BY DEF SettleResume, At, Go, Transition, RequestFrame, OwnerHolds, StartedIsSpent,
         Started, Owning
<1>5. ClaimIsFresh'
  BY DEF SettleResume, At, Go, Transition, RequestFrame, OwnerHolds, StartedIsSpent,
         ClaimIsFresh, Started, Owning
<1>6. TurnRuns'
  BY DEF SettleResume, At, Go, Transition, TurnRuns, RequestFrame
<1>7. OneStarted'
  BY DEF SettleResume, At, Go, Transition, RequestFrame, OneStarted, ClaimIsFresh,
         Started
<1>8. ResumedIsCompleted'
  BY DEF SettleResume, At, Go, Transition, ResumedIsCompleted, RequestFrame, OwnerHolds,
         TurnRuns, Started, Owning
<1>9. ResumingIsOwned'
  BY DEF SettleResume, At, Go, Transition, ResumingIsOwned, RequestFrame
<1> QED
  BY <1>1, <1>2, <1>3, <1>4, <1>5, <1>6, <1>7, <1>8, <1>9

LEMMA UpdateRaisesKeeps ==
    ASSUME AssistInv, NEW q \in Resumes, UpdateRaises(q)
    PROVE  AssistInv'
<1> USE DEF AssistInv, AssistTypes, Turns, Statuses, Active, Steps, TurnOutcomes
<1>1. AssistTypes'
  BY DEF UpdateRaises, At, Go, AssistTrouble, RequestFrame
<1>2. RequestFrame'
  BY DEF UpdateRaises, At, Go, AssistTrouble, RequestFrame, Started
<1>3. OwnerHolds'
  BY DEF UpdateRaises, At, Go, AssistTrouble, RequestFrame, OwnerHolds, Owning
<1>4. StartedIsSpent'
  BY DEF UpdateRaises, At, Go, AssistTrouble, RequestFrame, OwnerHolds, StartedIsSpent,
         Started, Owning
<1>5. ClaimIsFresh'
  BY DEF UpdateRaises, At, Go, AssistTrouble, RequestFrame, OwnerHolds, StartedIsSpent,
         ClaimIsFresh, Started, Owning
<1>6. TurnRuns'
  BY DEF UpdateRaises, At, Go, AssistTrouble, TurnRuns, RequestFrame
<1>7. OneStarted'
  BY DEF UpdateRaises, At, Go, AssistTrouble, RequestFrame, OneStarted, ClaimIsFresh,
         Started
<1>8. ResumedIsCompleted'
  BY DEF UpdateRaises, At, Go, AssistTrouble, ResumedIsCompleted, RequestFrame,
         OwnerHolds, TurnRuns, Started, Owning
<1>9. ResumingIsOwned'
  BY DEF UpdateRaises, At, Go, AssistTrouble, ResumingIsOwned, RequestFrame
<1> QED
  BY <1>1, <1>2, <1>3, <1>4, <1>5, <1>6, <1>7, <1>8, <1>9

LEMMA CrashKeeps ==
    ASSUME AssistInv, Crash
    PROVE  AssistInv'
<1> USE DEF AssistInv, AssistTypes, Turns, Statuses, Active, Steps, TurnOutcomes
<1>1. AssistTypes'
  <2>1. tool' \in [ToolCalls -> [pc : {"new", "mission", "done"}, of : Turns \cup {Nobody}]]
    BY DEF Crash
  <2>2. request' \in [Resumes -> [pc : Steps, on : Suspensions \cup {0}]]
    BY DEF Crash
  <2>3. outcome' \in [Turns -> TurnOutcomes]
    BY DEF Crash
  <2> QED
    BY <2>1, <2>2, <2>3 DEF Crash, AssistTrouble
<1>2. RequestFrame'
  BY TurnsAssumption DEF Crash, AssistTrouble, RequestFrame, Started
<1>3. OwnerHolds'
  BY TurnsAssumption DEF Crash, AssistTrouble, RequestFrame, OwnerHolds, Owning
<1>4. StartedIsSpent'
  BY TurnsAssumption DEF Crash, AssistTrouble, RequestFrame, OwnerHolds, StartedIsSpent,
         Started, Owning
<1>5. ClaimIsFresh'
  BY TurnsAssumption DEF Crash, AssistTrouble, RequestFrame, OwnerHolds, StartedIsSpent,
         ClaimIsFresh, Started, Owning
<1>6. TurnRuns'
  BY TurnsAssumption DEF Crash, AssistTrouble, TurnRuns, RequestFrame
<1>7. OneStarted'
  BY TurnsAssumption DEF Crash, AssistTrouble, RequestFrame, OneStarted, ClaimIsFresh,
         Started
<1>8. ResumedIsCompleted'
  BY TurnsAssumption, SMTT(20) DEF Crash, AssistTrouble, ResumedIsCompleted, RequestFrame,
         OwnerHolds, TurnRuns, Started, Owning
<1>9. ResumingIsOwned'
  BY TurnsAssumption DEF Crash, AssistTrouble, ResumingIsOwned, RequestFrame
<1> QED
  BY <1>1, <1>2, <1>3, <1>4, <1>5, <1>6, <1>7, <1>8, <1>9

LEMMA StutterKeeps ==
    ASSUME AssistInv, UNCHANGED assistVars
    PROVE  AssistInv'
BY DEF AssistInv, assistVars, AssistTypes, RequestFrame, OwnerHolds, StartedIsSpent, ClaimIsFresh,
       TurnRuns, OneStarted, ResumedIsCompleted, ResumingIsOwned, Started

(* The invariant is inductive, for any number of messages, requests, calls  *)
(* and suspensions (governance/suspensions/service.py, store.py).           *)
THEOREM AssistInductive == AssistSpec => []AssistInv
<1>1. ASSUME AssistInv, [AssistNext]_assistVars
      PROVE  AssistInv'
  <2>1. CASE UNCHANGED assistVars
    BY <1>1, <2>1, StutterKeeps
  <2>2. CASE \/ \E m \in Messages : StartTurn(m)
             \/ \E t \in ToolCalls : BeginBrowserTask(t)
             \/ TurnStep
             \/ \E s \in Suspensions : MarkReady(s)
             \/ Crash
    BY <1>1, <2>2, StartTurnKeeps, BeginBrowserTaskKeeps, EndBrowserTaskKeeps,
       SuspendForInterventionKeeps, EndTurnKeeps, MarkReadyKeeps, CrashKeeps DEF TurnStep
  <2>3. ASSUME NEW q \in Resumes, ReadSuspension(q) \/ ResumeStep(q)
        PROVE  AssistInv'
    BY <1>1, <2>3, ReadSuspensionKeeps, ClaimResumeKeeps, WrongRunKeeps, WrongNodeKeeps,
       StartResumedTurnKeeps, ReleaseResumeKeeps, SettleResumeKeeps, UpdateRaisesKeeps
       DEF ResumeStep
  <2> QED
    BY <1>1, <2>1, <2>2, <2>3 DEF AssistNext
<1> QED
  BY AssistInitInv, <1>1, PTL DEF AssistSpec

(* The types of the progress of turns, calls, suspensions and requests.     *)
THEOREM AssistTypeCorrect == AssistSpec => []AssistTypeOK
<1>1. AssistInv => AssistTypeOK
  BY DEF AssistInv, AssistTypes, AssistTypeOK, Statuses, Steps
<1> QED
  BY <1>1, AssistInductive, PTL

(* A suspended mission is continued by at most one turn, however often the  *)
(* user resumes it and whatever crashes or fails in between, and it counts  *)
(* as resumed only if that turn completed.                                  *)
THEOREM OneTurnResumes == AssistSpec => []ResumedByOneTurn
<1>1. AssistInv => ResumedByOneTurn
  BY DEF AssistInv, OneStarted, ResumedIsCompleted, ResumedByOneTurn
<1> QED
  BY <1>1, AssistInductive, PTL

(* A suspension in RESUMING is in the hands of a request or a watcher,      *)
(* unless a crash, a wrong run or a failed update left it behind.           *)
THEOREM ResumingHasOwner == AssistSpec => []ResumingIsOwned
<1>1. AssistInv => ResumingIsOwned
  BY DEF AssistInv
<1> QED
  BY <1>1, AssistInductive, PTL
================================================================================
