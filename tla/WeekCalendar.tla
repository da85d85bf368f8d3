---------------------------- MODULE WeekCalendar ----------------------------
(***************************************************************************)
(* The calendar of odd and even weeks and the runs it gives a schedule:    *)
(* utils/weekTypeForData.go and nextRun, legacyRunBounds and runBounds of  *)
(* scheduler/scheduler.go.                                                 *)
(*                                                                         *)
(* Dates are numbered, 0 is a Monday, and a day has DayLength instants:    *)
(* Moscow has had no change of its clocks since 2014.  A slot is the       *)
(* weekday, the type of week and the times of a schedule; a week setting   *)
(* says of which type the week of some date is (week1_date, week1_type).   *)
(***************************************************************************)
EXTENDS Integers, FiniteSetsExt

CONSTANTS
    DayLength, \* instants of a day
    Early,     \* how long before a run a message of an older version was posted
    NoRun      \* not a run

ASSUME CalendarAssumption ==
    /\ {DayLength, Early} \subseteq Nat /\ DayLength > 1 /\ Early <= DayLength

-----------------------------------------------------------------------------
WeekTypes == {"odd", "even"}
SwitchWeekType == [odd |-> "even", even |-> "odd"]

DateOf(instant) == instant \div DayLength
MondayOf(date) == date - (date % 7)

(* Mondays are whole weeks apart, so the division of Go is exact.          *)
WeekTypeForDate(date, week) ==
    LET weeksSince == (MondayOf(date) - MondayOf(week.date)) \div 7
    IN  IF weeksSince % 2 = 0 THEN week.type ELSE SwitchWeekType[week.type]

(* A run that would close before it opens closes on the next day.          *)
RunBounds(slot, date) ==
    LET opens == date * DayLength + slot.start
        closes == date * DayLength + slot.end
    IN  [opens |-> opens, closes |-> IF closes > opens THEN closes ELSE closes + DayLength]

HasRun(slot, week, date) == date % 7 = slot.day /\ WeekTypeForDate(date, week) = slot.week
FirstRun(slot, dates) == IF dates = {} THEN NoRun ELSE RunBounds(slot, Min(dates))

(* Mutant: a run that crosses midnight is not looked for on its second day.*)
NextRunFromToday(slot, week, now) ==
    FirstRun(slot, {date \in DateOf(now)..DateOf(now) + 14 :
                        HasRun(slot, week, date) /\ now < RunBounds(slot, date).closes})

(* The first run from yesterday to two weeks ahead that has not closed.    *)
NextRun(slot, week, now) ==
    FirstRun(slot, {date \in DateOf(now) - 1..DateOf(now) + 14 :
                        HasRun(slot, week, date) /\ now < RunBounds(slot, date).closes})

(* The run that a message without a run belongs to, by the time it was     *)
(* posted; a one-shot queue may have run on any day.                       *)
LegacyRunBounds(slot, oneShot, sentAt) ==
    FirstRun(slot, {date \in DateOf(sentAt) - 1..DateOf(sentAt) + 1 :
                        /\ oneShot \/ date % 7 = slot.day
                        /\ RunBounds(slot, date).opens - Early <= sentAt
                        /\ sentAt < RunBounds(slot, date).closes})

-----------------------------------------------------------------------------
(* Reference: all the runs of a slot within a horizon.                     *)

AllRuns(slot, week, horizon) == {RunBounds(slot, date) : date \in {d \in horizon : HasRun(slot, week, d)}}
Earliest(runs) == CHOOSE r \in runs : \A other \in runs : r.closes <= other.closes

(* The week of the given date has the given type, and types alternate.     *)
Alternates(week, horizon) ==
    /\ WeekTypeForDate(week.date, week) = week.type
    /\ \A d \in horizon : /\ WeekTypeForDate(d, week) = WeekTypeForDate(MondayOf(d), week)
                          /\ WeekTypeForDate(d + 7, week) # WeekTypeForDate(d, week)

FindsNextRun(slot, week, now, horizon) ==
    NextRun(slot, week, now) = Earliest({r \in AllRuns(slot, week, horizon) : now < r.closes})

(* A message of a weekly schedule that was posted shortly before a run     *)
(* opens or while it is open is given to that run.                         *)
FindsLegacyRun(slot, week, now, horizon) ==
    \A r \in AllRuns(slot, week, horizon) :
        r.opens - Early <= now /\ now < r.closes => LegacyRunBounds(slot, FALSE, now) = r
=============================================================================
