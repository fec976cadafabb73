------------------------------ MODULE MCSlaSweep ------------------------------
(* Small instances of SlaSweep for TLC: days of three instants, weeks of two. *)
EXTENDS SlaSweep, TLC

CONSTANTS k1, k2, s1, s2

Version(from, until, windows, holidays, exceptions) ==
  [from |-> from, until |-> until, windows |-> windows, holidays |-> holidays,
   exceptions |-> exceptions]
On(weekday, open, close) == [weekday |-> weekday, open |-> open, close |-> close]
NoExceptions == [d \in {} |-> {}]

\* A day desk that is shut on a holiday.
DayDesk == {Version(0, Never, {On(0, 1, 3), On(1, 0, 2)}, {1}, NoExceptions)}
\* A night desk whose shift runs past midnight, with a day of its own hours.
NightDesk == {Version(0, Never, {On(0, 2, 4), On(1, 2, 4)}, {}, 1 :> {[open |-> 1, close |-> 2]})}
\* New hours from the middle of a day on, after a gap without a version.
TwoVersions == {Version(0, 2, {On(0, 0, 3), On(1, 0, 3)}, {}, NoExceptions),
                Version(4, Never, {On(0, 1, 2), On(1, 0, 3)}, {2}, NoExceptions)}
\* Nobody declared any hours.
NoCalendar == {}

AllHistories == {DayDesk, NightDesk, TwoVersions, NoCalendar}

Promise(scope, clock, seconds, basis) ==
  [scope |-> scope, clock |-> clock, seconds |-> seconds, basis |-> basis, warningPct |-> 50]
\* The category's answer target hides the team's; the other promise is to finish.
AllPromises == {{Promise("TEAM", "FIRST_RESPONSE", 3, "BUSINESS_HOURS"),
                 Promise("CATEGORY", "FIRST_RESPONSE", 2, "CALENDAR_24X7")},
                {Promise("TEAM", "RESOLUTION", 2, "BUSINESS_HOURS")}}
=============================================================================
