------------------------------ MODULE TurnClaim ------------------------------
(***************************************************************************)
(* What the admission lock of one Conversation promises, whoever finalizes *)
(* a turn and however often.  Every turn is admitted at most once, at most *)
(* one turn runs, a turn receives one verdict and keeps it.  The detailed  *)
(* module TurnLifecycle implements this specification.                     *)
(***************************************************************************)
CONSTANTS
    Turns,      \* assistant message ids, each minted for one prepare_turn call
    None        \* the empty active_turn

VARIABLES
    holder,     \* the turn recorded in the current binding's active_turn
    verdict     \* the status of every turn: the one recorded, and the overwritten

claimVars == <<holder, verdict>>

Terminal == {"completed", "failed", "cancelled"}
Verdict == {"none", "running"} \cup Terminal

ClaimTypeOK ==
    /\ holder \in Turns \cup {None}
    /\ verdict \in [Turns -> Verdict]

ClaimInit ==
    /\ holder = None
    /\ verdict = [m \in Turns |-> "none"]

Idle == \A m \in Turns : verdict[m] # "running"

Admit(m) ==
    /\ Idle
    /\ verdict[m] = "none"
    /\ holder' = m
    /\ verdict' = [verdict EXCEPT ![m] = "running"]

Release(m) ==
    /\ holder = m
    /\ verdict[m] = "running"
    /\ \E s \in Terminal : verdict' = [verdict EXCEPT ![m] = s]
    /\ UNCHANGED holder

\* A successor binding starts without an active turn.
Rotate ==
    /\ Idle
    /\ holder' = None
    /\ UNCHANGED verdict

ClaimNext ==
    \/ \E m \in Turns : Admit(m) \/ Release(m)
    \/ Rotate

ClaimSpec == ClaimInit /\ [][ClaimNext]_claimVars

------------------------------------------------------------------------------
\* Mutual exclusion: never two turns of one Conversation run, although the
\* code looks at one binding row only and rotates rows.
AtMostOneRuns ==
    \A m, n \in Turns : verdict[m] = "running" /\ verdict[n] = "running" => m = n

\* Several coordinators may finalize a turn; the first verdict stands.
VerdictIsFinal ==
    [][\A m \in Turns : verdict[m] \in Terminal => verdict'[m] = verdict[m]]_claimVars

\* Inductive: the running turn is the recorded one.
RunningIsHeld == \A m \in Turns : verdict[m] = "running" => holder = m
ClaimInv == ClaimTypeOK /\ RunningIsHeld
==============================================================================
