------------------------------ MODULE MC_Services ------------------------------
(* A small instance of the components around the turn. *)
EXTENDS Services

\* The clock goes forward or back by one of four hours of a day, at a day's
\* end, inside a day and in the second hour of the epoch's fourth day.
Zone(change, before, after) == [at |-> change, before |-> before, after |-> after]
MCZones == {Zone(12, 1, 1), Zone(12, 0, 1), Zone(13, 0, 1),
            Zone(13, 1, 0), Zone(12, 1, 0), Zone(11, 1, 0)}
MCAnchors == (4..7) \cup (12..14)
MCAfters == 0..21
===============================================================================
