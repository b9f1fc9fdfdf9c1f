------------------------ MODULE MC_ScheduledDispatch ------------------------
(***************************************************************************)
(* Small instances of ScheduledDispatch: two processes, a daily job and    *)
(* one that runs once, beside which run-now may be called.  The processes  *)
(* are symmetric, as no liveness property is checked here.                 *)
(***************************************************************************)
EXTENDS ScheduledDispatch, TLC

CONSTANTS w1, w2, m1

TwoWorkers == {w1, w2}
SymmetricWorkers == Permutations(TwoWorkers)

Once == {1}
Daily == {0, 1, 2}
NextButOne == {1, 3}
MCPlans == {Once, Daily}
OnceOnly == {Once}
RacingPlans == {Daily, NextButOne}
===============================================================================
