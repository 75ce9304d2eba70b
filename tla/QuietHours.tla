------------------------------ MODULE QuietHours ------------------------------
(***************************************************************************)
(* delivery_service/core/quiet_hours.py: the hours of the day in which a   *)
(* subscriber is not to be disturbed, and the next time one may be. Times  *)
(* are counted in hours from a midnight of the subscriber's time zone, as  *)
(* a date and an hour of that day; changes of the zone's offset are left   *)
(* out.                                                                    *)
(***************************************************************************)
EXTENDS Integers

CONSTANT Day    \* hours in a day

ASSUME DayAssumption == Day \in Nat \ {0}

Hours == 0 .. Day - 1

\* The window [start, end), which may contain midnight. An empty one stands for
\* no quiet hours too: the code has none when a bound is NULL.
Windows == [start : Hours, end : Hours]

\* is_in_quiet_hours
InQuietHours(hour, window) ==
    \/ window.start < window.end /\ window.start <= hour /\ hour < window.end
    \/ window.start > window.end /\ (hour >= window.start \/ hour < window.end)

\* Mutant of QuietEndDate: the end is always today's.
QuietEndToday(date, hour, window) == date

\* _compute_quiet_end_date
QuietEndDate(date, hour, window) ==
    IF window.start >= window.end /\ hour >= window.start THEN date + 1 ELSE date

\* compute_next_allowed_time, in hours from midnight of date 0.
NextAllowed(date, hour, window) ==
    IF InQuietHours(hour, window)
      THEN QuietEndDate(date, hour, window) * Day + window.end
      ELSE date * Day + hour

\* _next_quiet_hours_retry: how long from an hour of the day on the quiet hours
\* last; 0 outside of them.
QuietFor(hour, window) ==
    IF NextAllowed(0, hour, window) > hour THEN NextAllowed(0, hour, window) - hour ELSE 0
===============================================================================
