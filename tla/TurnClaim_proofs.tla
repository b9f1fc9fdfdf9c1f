-------------------------- MODULE TurnClaim_proofs --------------------------
(***************************************************************************)
(* The admission lock excludes, and its verdicts are final, for any set of *)
(* turns.  TurnLifecycle implements the lock, so both hold of it too.      *)
(***************************************************************************)
EXTENDS TurnClaim, TLAPS

(* The running turn is the recorded one, initially and after every step.   *)
LEMMA ClaimInductive == ClaimSpec => []ClaimInv
  <1>1. ClaimInit => ClaimInv
    BY DEF ClaimInit, ClaimInv, ClaimTypeOK, RunningIsHeld, Verdict
  <1>2. ASSUME ClaimInv, [ClaimNext]_claimVars
        PROVE  ClaimInv'
    <2> USE DEF ClaimInv, ClaimTypeOK, RunningIsHeld
    <2>1. ASSUME NEW m \in Turns, Admit(m)
          PROVE  ClaimInv'
      BY <1>2, <2>1 DEF Admit, Idle, Verdict
    <2>2. ASSUME NEW m \in Turns, Release(m)
          PROVE  ClaimInv'
      BY <1>2, <2>2 DEF Release, Verdict, Terminal
    <2>3. CASE Rotate
      BY <1>2, <2>3 DEF Rotate, Idle
    <2>4. CASE UNCHANGED claimVars
      BY <1>2, <2>4 DEF claimVars
    <2> QED
      BY <1>2, <2>1, <2>2, <2>3, <2>4 DEF ClaimNext
  <1> QED
    BY <1>1, <1>2, PTL DEF ClaimSpec

(* At most one turn of a Conversation runs.                                *)
THEOREM Exclusion == ClaimSpec => []AtMostOneRuns
  <1>1. ClaimInv => AtMostOneRuns
    BY DEF ClaimInv, RunningIsHeld, AtMostOneRuns
  <1> QED
    BY <1>1, ClaimInductive, PTL

(* No step takes a verdict back or replaces it.                            *)
THEOREM FirstVerdictStands == ClaimSpec => VerdictIsFinal
  <1>1. ASSUME ClaimInv, [ClaimNext]_claimVars, NEW m \in Turns, verdict[m] \in Terminal
        PROVE  verdict'[m] = verdict[m]
    <2>1. verdict[m] # "none" /\ verdict[m] # "running"
      BY <1>1 DEF Terminal
    <2> QED
      BY <1>1, <2>1 DEF ClaimNext, Admit, Release, Rotate, claimVars, ClaimInv, ClaimTypeOK
  <1>2. ClaimInv /\ [ClaimNext]_claimVars
          => [\A m \in Turns : verdict[m] \in Terminal => verdict'[m] = verdict[m]]_claimVars
    BY <1>1
  <1> QED
    BY <1>2, ClaimInductive, PTL DEF ClaimSpec, VerdictIsFinal
=============================================================================
