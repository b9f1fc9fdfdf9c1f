------------------------- MODULE MC_EventPersistence -------------------------
(* The first event starts a browser_task, of which child is a row; an      *)
(* approval row stands alone.                                              *)
EXTENDS EventPersistence

CONSTANTS child, approval

MCParent == [s \in Sides |-> IF s = child THEN 1 ELSE None]
===============================================================================
