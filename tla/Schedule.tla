------------------------------- MODULE Schedule -------------------------------
(***************************************************************************)
(* When a scheduled task runs next: next_run_at of schedule.py.  A user    *)
(* gives a wall time, a time zone and perhaps weekdays; the answer is an   *)
(* instant.  A time zone changes its offset once, forward (the wall times  *)
(* of a gap do not exist) or back (those of a fold exist twice).           *)
(*                                                                         *)
(* An hour is the unit of time; a day has DayLength hours and a week seven *)
(* days.  The module computes one answer for every query.                  *)
(***************************************************************************)
EXTENDS Integers, FiniteSets

CONSTANTS
    DayLength,   \* hours of a day
    Zones,       \* [at, before, after]: the instant and the two offsets
    Anchors,     \* wall times of run_at
    Afters,      \* instants after_utc
    WeekdaySets, \* the weekdays a user may tick; {} stands for none given
    Asked,       \* no answer yet
    None

VARIABLES query, answer

scheduleVars == <<query, answer>>

Kinds == {"once", "daily", "weekly"}
Queries == [kind : Kinds, anchor : Anchors, zone : Zones, after : Afters,
            weekdays : WeekdaySets]

Offset(zone, instant) == IF instant < zone.at THEN zone.before ELSE zone.after
Wall(zone, instant) == instant + Offset(zone, instant)
Date(wall) == wall \div DayLength
TimeOfDay(wall) == wall % DayLength
Weekday(date) == date % 7

Earliest(instants) ==
    IF instants = {} THEN None
    ELSE CHOOSE i \in instants : \A j \in instants : i <= j

\* The first of two instants with this wall time; in a gap the offset before it
\* applies, which moves the wall time forward by the gap.
LocalizeWallTime(wall, zone) ==
    LET candidate == wall - zone.before
        second == wall - zone.after
    IN  IF Wall(zone, candidate) = wall \/ Wall(zone, second) # wall
        THEN candidate ELSE second

Candidate(date, anchor, zone) ==
    LocalizeWallTime(date * DayLength + TimeOfDay(Wall(zone, anchor)), zone)

\* The first day looked at, and how far the two loops look.
FirstDay(after, anchor, zone) ==
    LET today == Date(Wall(zone, after))
        start == Date(Wall(zone, anchor))
    IN  IF today < start THEN start ELSE today

\* Mutant of SearchDays: a week is enough for a weekly task.
SearchOneWeek(kind) == IF kind = "daily" THEN 0..2 ELSE 0..6

SearchDays(kind) == IF kind = "daily" THEN 0..2 ELSE 0..14

Allowed(q, anchor) ==
    IF q.kind = "daily" THEN 0..6
    ELSE IF q.weekdays = {} THEN {Weekday(Date(Wall(q.zone, anchor)))}
    ELSE q.weekdays

\* None stands for no next time, as for the ValueError after the loops.
NextRunAt(q) ==
    LET anchor == LocalizeWallTime(q.anchor, q.zone)
        days == {FirstDay(q.after, anchor, q.zone) + n : n \in SearchDays(q.kind)}
        hits == {Candidate(d, anchor, q.zone) :
                    d \in {x \in days : Weekday(x) \in Allowed(q, anchor)}}
    IN  IF q.kind = "once" THEN (IF anchor > q.after THEN anchor ELSE None)
        ELSE Earliest({i \in hits : i > q.after /\ i >= anchor})

Init == query = None /\ answer = Asked

Compute ==
    /\ answer = Asked
    /\ query' \in Queries
    /\ answer' = NextRunAt(query')

Next == Compute
Spec == Init /\ [][Next]_scheduleVars

------------------------------------------------------------------------------
(* Properties. *)

TypeOK == query \in Queries \cup {None} /\ (answer = Asked \/ answer = None \/ answer \in Int)

\* Every time a recurring task is due, by its definition: on each allowed day
\* from the anchor on, at the anchor's time of day.
Occurrences(q) ==
    LET anchor == LocalizeWallTime(q.anchor, q.zone)
        start == Date(Wall(q.zone, anchor))
        last == Date(Wall(q.zone, q.after))
    IN  {Candidate(d, anchor, q.zone) :
            d \in {x \in start..(start + last + 21) : Weekday(x) \in Allowed(q, anchor)}}

\* The search window of the code is long enough and starts early enough: the
\* answer is the first occurrence after the given instant, and a recurring task
\* never runs out of occurrences.
NextIsEarliest ==
    answer # Asked /\ query.kind # "once" =>
        /\ answer # None
        /\ answer = Earliest({i \in Occurrences(query) : i > query.after})

\* Asked again at the time of a run, a daily task is due on the next calendar
\* day of the user: a change of the clock neither doubles nor skips a day.
OncePerDay ==
    answer \notin {Asked, None} /\ query.kind = "daily" =>
        LET again == NextRunAt([query EXCEPT !.after = answer])
        IN  Date(Wall(query.zone, again)) = Date(Wall(query.zone, answer)) + 1

\* The instant has the time of day of the anchor unless that time falls into a
\* gap on that day, and then it comes later by the gap.
KeepsTimeOfDay ==
    answer \notin {Asked, None} =>
        LET zone == query.zone
            wanted == TimeOfDay(Wall(zone, LocalizeWallTime(query.anchor, zone)))
            got == TimeOfDay(Wall(zone, answer))
        IN  got = wanted \/ (zone.after > zone.before /\ got = wanted + zone.after - zone.before)
===============================================================================
