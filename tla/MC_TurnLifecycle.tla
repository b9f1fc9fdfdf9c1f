--------------------------- MODULE MC_TurnLifecycle ---------------------------
(***************************************************************************)
(* Small instances of TurnLifecycle: two competing requests, one Cancel,   *)
(* one claim sweep, and one of every kind of failure.                      *)
(***************************************************************************)
EXTENDS TurnLifecycle

CONSTANTS r1, r2

TwoRequests == {r1, r2}
OwnToken == [r \in TwoRequests |-> r]
SameToken == [r \in TwoRequests |-> r1]

OneRequest == {r1}
===============================================================================
