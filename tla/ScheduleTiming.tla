--------------------------- MODULE ScheduleTiming ---------------------------
(***************************************************************************)
(* shared/schedules/timing.ts: when a schedule runs next, and when it last  *)
(* should have run.  Instants are whole numbers of one unit, days have Day   *)
(* of them and an hour has Hour; the zone of a calendar schedule changes its *)
(* offset once, as clocks do in spring and in autumn.                       *)
(*                                                                         *)
(* The state machine runs one schedule: from any instant on, each run asks  *)
(* for the next.                                                           *)
(***************************************************************************)
EXTENDS Integers

CONSTANTS
    Timings,     \* the schedules
    Starts,      \* the instants they are asked at first
    Day,         \* units of a day
    Hour,        \* units of an hour
    None,
    End          \* bound on the instants that are followed

VARIABLES
    timing,      \* the schedule
    at,          \* the last instant asked for, which is a run once one was found
    ran          \* whether it is

timingVars == <<timing, at, ran>>

(***************************************************************************)
(* Local time                                                               *)
(***************************************************************************)

Offset(zone, t) == IF t < zone.change THEN zone.before ELSE zone.after
Local(zone, t) == t + Offset(zone, t)
Date(l) == l \div Day
Wall(l) == l % Day
Weekday(l) == Date(l) % 7

\* fromWallClock: a time that the clocks skip is an hour later.
FromWallClock(zone, date, wall) ==
    LET Resolve(naive) == naive - Offset(zone, naive - Offset(zone, naive))
        resolved == Resolve(date * Day + wall)
    IN IF Wall(Local(zone, resolved)) = wall THEN resolved ELSE Resolve(date * Day + wall + Hour)

OnDay(s, weekday) ==
    CASE s.frequency = "daily" -> TRUE
      [] s.frequency = "weekdays" -> weekday \notin {0, 6}
      [] s.frequency = "weekly" -> weekday = s.weekday

\* The run of the date that is so many days from the date of an instant.
Candidate(s, t, days) == FromWallClock(s.zone, Date(Local(s.zone, t)) + days, s.wall)

\* Mutant of First: the dates in the other order.
FirstFromTheEnd(found) == CHOOSE d \in found : \A e \in found : d >= e

\* The first date, from one on, on which the schedule runs after or before.
First(found) == CHOOSE d \in found : \A e \in found : d <= e

(***************************************************************************)
(* computeNextRun and computeLatestRun                                      *)
(***************************************************************************)

NextOnCalendar(s, after) ==
    LET found == {d \in 0..14 : LET c == Candidate(s, after, d)
                                IN after < c /\ OnDay(s, Weekday(Local(s.zone, c)))}
    IN IF found = {} THEN None ELSE Candidate(s, after, First(found))

NextInterval(s, after) ==
    IF s.anchor > after THEN s.anchor
    ELSE s.anchor + ((after - s.anchor) \div s.every + 1) * s.every

NextRun(s, after) ==
    CASE s.kind = "once" -> IF s.at > after THEN s.at ELSE None
      [] s.kind = "interval" -> NextInterval(s, after)
      [] s.kind = "calendar" -> NextOnCalendar(s, after)

LatestOnCalendar(s, t) ==
    LET found == {d \in 0..14 : LET c == Candidate(s, t, -d)
                                IN c <= t /\ OnDay(s, Weekday(Local(s.zone, c)))}
    IN IF found = {} THEN None ELSE Candidate(s, t, -First(found))

LatestRun(s, t) ==
    CASE s.kind = "once" -> IF s.at <= t THEN s.at ELSE None
      [] s.kind = "interval" ->
           IF s.anchor > t THEN None ELSE s.anchor + ((t - s.anchor) \div s.every) * s.every
      [] s.kind = "calendar" -> LatestOnCalendar(s, t)

-----------------------------------------------------------------------------
TimingInit == timing \in Timings /\ at \in Starts /\ ran = FALSE

Runs ==
    LET next == NextRun(timing, at)
    IN /\ next # None /\ at < End
       /\ at' = next /\ ran' = TRUE /\ UNCHANGED timing

-----------------------------------------------------------------------------
(***************************************************************************)
(* Properties                                                               *)
(***************************************************************************)

\* What a schedule asks for, as its reader understands it: the instants that show
\* its local time on one of its days.
Shows(s, t) == Wall(Local(s.zone, t)) = s.wall /\ OnDay(s, Weekday(Local(s.zone, t)))
SameTime(s, t, u) == Local(s.zone, t) = Local(s.zone, u)

\* A calendar schedule keeps its local time across a change of the clocks; only
\* when the clocks skip it is the run an hour late.
KeepsLocalTime ==
    ran /\ timing.kind = "calendar" =>
        \/ Wall(Local(timing.zone, at)) = timing.wall
        \/ LET missed == Local(timing.zone, at) - Hour
           IN /\ Wall(missed) = timing.wall
              /\ \A t \in (at - 2 * Day)..(at + Day) : Local(timing.zone, t) # missed

\* Between one run and the next no time of the schedule passes, but for the second
\* of two equal times where the first was taken.
NothingIsPassed ==
    timing.kind = "calendar" =>
        \A t \in (at + 1)..(at' - 1) :
            Shows(timing, t) => \E u \in {at', at} \cup (at - Day)..at : SameTime(timing, t, u)

\* A daily schedule runs once on every date.
OncePerDate ==
    timing.kind = "calendar" /\ timing.frequency = "daily" /\ ran =>
        Date(Local(timing.zone, at')) = Date(Local(timing.zone, at)) + 1

\* A weekly schedule runs every week: its next run is eight days away at most.
EveryWeek ==
    timing.kind = "calendar" /\ timing.frequency = "weekly" => at' - at <= 8 * Day

\* At a run that run is the latest one, and it stays the latest until the next:
\* the two algorithms know the same runs.
LatestIsTheLastRun ==
    ran => LET next == NextRun(timing, at)
           IN /\ LatestRun(timing, at) = at
              /\ next # None => LatestRun(timing, next - 1) = at

\* An interval schedule does not drift from its anchor, whenever it is asked.
IntervalsKeepTheirAnchor ==
    ran /\ timing.kind = "interval" => (at - timing.anchor) % timing.every = 0
=============================================================================
