---------------------------- MODULE BusinessClock ----------------------------
(***************************************************************************)
(* The business calendar and the SLA clock: pure functions of a team's     *)
(* calendar history, computed on every read and never stored.              *)
(*                                                                         *)
(* An instant is a number of ticks; a day has DayLength of them and a week *)
(* WeekLength days.  A calendar version is a record: in force from .from   *)
(* until .until (Never if open-ended), .windows of [weekday, open, close]  *)
(* whose close may lie beyond midnight, .holidays, and .exceptions, a      *)
(* function from some dates to the windows that replace that day's.  One   *)
(* zone without DST stands for the conversion of wall clocks to instants.  *)
(***************************************************************************)
EXTENDS Integers, FiniteSets, FiniteSetsExt

CONSTANTS DayLength, WeekLength,
          Lookahead,   \* ticks that a forward search covers: 60 or 365 days
          Never        \* later than every instant

ASSUME CalendarAssumption == {DayLength, WeekLength, Lookahead, Never} \subseteq Nat \ {0}

-----------------------------------------------------------------------------
(* calendar.ts *)

\* An exception replaces the day, a holiday closes it, else the weekly pattern.
WindowsOn(v, day) ==
  IF day \in DOMAIN v.exceptions THEN v.exceptions[day]
  ELSE IF day \in v.holidays THEN {}
  ELSE {[open |-> w.open, close |-> w.close] :
          w \in {x \in v.windows : x.weekday = day % WeekLength}}

\* The sign on the door: today's windows, or yesterday's late shift.
IsOpenAt(v, t) ==
  LET day == t \div DayLength
      minute == t % DayLength
  IN \/ \E w \in WindowsOn(v, day) : w.open <= minute /\ minute < w.close
     \/ \E w \in WindowsOn(v, day - 1) :
          /\ w.close > DayLength
          /\ w.open <= minute + DayLength /\ minute + DayLength < w.close

InForce(v, t) == v.from <= t /\ t < v.until

\* No version, no declared hours: not open.
DoorOpen(history, t) == \E v \in history : InForce(v, t) /\ IsOpenAt(v, t)

-----------------------------------------------------------------------------
(* clock.ts *)

Earlier(a, b) == IF a <= b THEN a ELSE b
Later(a, b) == IF a <= b THEN b ELSE a

\* mutant: the walk forgets the shift that began the day before
FromToday(from) == from \div DayLength

\* The walk over local days starts one early, for a window past midnight.
FirstDay(from) == (from \div DayLength) - 1

\* Every stretch of [from, to) in which a version, while in force, is open: one
\* per day and window, clipped to the query and to the version.
Intervals(history, from, to) ==
  LET stretch(v, day, w) ==
        [version |-> v, day |-> day,
         from |-> Later(day * DayLength + w.open, Later(from, v.from)),
         to |-> Earlier(day * DayLength + w.close, Earlier(to, v.until))]
      days(v) == FirstDay(Later(from, v.from)) .. (Earlier(to, v.until) \div DayLength)
  IN {i \in UNION {UNION {{stretch(v, day, w) : w \in WindowsOn(v, day)} : day \in days(v)} :
                     v \in history} : i.from < i.to}

Length(intervals) == MapThenSumSet(LAMBDA i : i.to - i.from, intervals)

ElapsedWorking(history, from, to) == Length(Intervals(history, from, to))

\* mutant: a target met exactly at closing time is carried to the next opening
ReachedLate(sum, seconds) == sum > seconds

Reached(sum, seconds) == sum >= seconds

\* The instant at which that much working time has passed, if it ever does.
InstantAfter(history, from, seconds) ==
  LET all == Intervals(history, from, from + Lookahead)
      before(i) == Length({j \in all : j.from < i.from})
      ends == {i \in all : Reached(before(i) + (i.to - i.from), seconds)}
  IN IF seconds <= 0 THEN from
     ELSE IF ends = {} THEN Never
     ELSE LET i == CHOOSE x \in ends : \A y \in ends : x.from <= y.from
          IN i.from + (seconds - before(i))

NextOpening(history, t) ==
  LET starts == {i.from : i \in Intervals(history, t, t + Lookahead)}
  IN IF starts = {} THEN Never ELSE Min(starts)

-----------------------------------------------------------------------------
(* sla-state.ts *)

\* A stretch of time on the basis of a clock.
OnBasis(basis, history, from, to) ==
  IF from >= to THEN 0
  ELSE IF basis = "CALENDAR_24X7" THEN to - from ELSE ElapsedWorking(history, from, to)

\* Pauses count on the resolution clock only, clipped to what is measured; one
\* without an end lasts until then.
Paused(target, history, pauses, start, end) ==
  IF target.clock # "RESOLUTION" THEN 0
  ELSE MapThenSumSet(LAMBDA p : OnBasis(target.basis, history, Later(p.from, start),
                                        Earlier(p.to, end)), pauses)

\* One clock: status, elapsed, and the instant of the breach.  start is Never
\* for a clock that has not started, stop for one that is running.
SlaState(target, history, start, stop, pauses, at) ==
  LET end == IF stop # Never THEN stop ELSE at
      paused == Paused(target, history, pauses, start, end)
      elapsed == Later(0, OnBasis(target.basis, history, start, end) - paused)
      over == elapsed >= target.seconds
      breachAt == IF target.basis = "CALENDAR_24X7" THEN start + target.seconds + paused
                  ELSE InstantAfter(history, start, target.seconds + paused)
  IN IF start = Never
       THEN [status |-> "NOT_STARTED", elapsed |-> 0, breachAt |-> Never]
       ELSE [status |-> IF stop # Never THEN (IF over THEN "MISSED" ELSE "MET")
                        ELSE IF over THEN "BREACHED"
                        ELSE IF elapsed * 100 >= target.seconds * target.warningPct
                               THEN "WARNING" ELSE "RUNNING",
             elapsed |-> elapsed, breachAt |-> breachAt]

\* The category's target before the team's; none is none.
SelectTarget(targets, clock) ==
  LET of(kind) == {t \in targets : t.clock = clock /\ t.scope = kind}
  IN IF of("CATEGORY") # {} THEN of("CATEGORY") ELSE of("TEAM")
=============================================================================
