-------------------------- MODULE MCTimingMidnight --------------------------
(* Weekly schedules over a week in which the clocks are put forward, at midnight too. *)
EXTENDS ScheduleTiming

Zones == [change : (16 * Day)..(17 * Day - 1), before : -7..5, after : -7..6]
MCTimings ==
    {[kind |-> "calendar", frequency |-> "weekly", wall |-> w, weekday |-> d, zone |-> z] :
        w \in 0..(Day - 1), d \in {1, 2, 3},
        z \in {zone \in Zones : zone.after - zone.before \in {1, 2}}}
MCStarts == {15 * Day, 15 * Day + 5}

Spec == TimingInit /\ [][Runs]_timingVars

\* A weekly schedule keeps its recurrence when the clocks change (computeNextRun), also
\* where they skip the last hour of its date, as in America/Nuuk.
WeeklyRunsEveryWeek == [][EveryWeek]_timingVars
=============================================================================
