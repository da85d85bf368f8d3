------------------------------ MODULE Timetable ------------------------------
(***************************************************************************)
(* Time: the settings give each schedule its runs, and the runs take the   *)
(* topics of the chat.  The scheduler's decisions (run, restoreLegacy,     *)
(* keepRun and RunInstant of scheduler/scheduler.go) compose the calendar, *)
(* the settings and the rows; how its workers divide them is in Scheduler, *)
(* and what the queue service does around a row in QueueService.           *)
(***************************************************************************)
EXTENDS TopicSlots, Settings

CONSTANTS
    Lead,     \* how long before it opens a run is prepared
    Delay,    \* one_shot_delay
    Duration, \* one_shot_duration
    Dates,    \* the dates a developer names
    Limits    \* the instances: who is there, and the bounds

ASSUME TimetableAssumption ==
    /\ NoRun = NotRunning
    /\ {Lead, Delay, Duration} \subseteq Nat /\ Duration > 0
    /\ Dates \subseteq Nat
    /\ \A l \in Limits : l.topics \subseteq Topics /\ l.from \in Nat /\ l.until \in Nat /\ l.from <= l.until

VARIABLES
    clock,  \* Clock.Now
    limits, \* the instance
    spent   \* how many Updates there were

vars == <<topicVars, settingsVars, clock, limits, spent>>

-----------------------------------------------------------------------------
(* A schedule: its day, its week and its times, which differ.              *)
Slots == {slot \in [day : 0..6, week : WeekTypes, start : 0..DayLength - 1, end : 0..DayLength - 1] :
              slot.start # slot.end}

Today == DateOf(clock)
Slot(s) == limits.slots[s]
Regular(s) == s \notin OneShots
Waits(s) == rows[s].exists /\ ~Running(s)

(* The rows of the instance; those of an older version have a message      *)
(* that was posted at limits.sent.                                         *)
Init ==
    /\ limits \in Limits
    /\ TopicInit
    /\ \A s \in Schedules : rows[s].thread \in limits.topics
    /\ \A s \in Schedules \ limits.schedules : ~rows[s].exists /\ rows[s].thread = limits.away
    /\ \E date \in Dates, type \in WeekTypes : SettingsInit([date |-> date, type |-> type])
    /\ clock = limits.from /\ spent = 0

TimetableRest == UNCHANGED <<settingsVars, clock, limits, spent>>

-----------------------------------------------------------------------------
(* The scheduler.                                                          *)

(* Prepare, once the next run is near; its transaction begins with the run *)
(* that the settings gave then.                                            *)
Prepare(s) ==
    /\ Regular(s) /\ Waits(s) /\ rows[s].message = NoMessage
    /\ LET r == NextRun(Slot(s), published, clock)
       IN  r \in Runs /\ clock >= r.opens - Lead /\ BeginRun(s, r, FALSE)
    /\ TimetableRest

(* restoreLegacy: a run that is over is closed, one that is not is begun   *)
(* with the message it has.                                                *)
RestoreLegacy(s) ==
    /\ Waits(s) /\ rows[s].message # NoMessage
    /\ LET r == LegacyRunBounds(Slot(s), ~Regular(s), limits.sent)
       IN  /\ r \in Runs
           /\ \/ clock < r.closes /\ BeginRun(s, r, TRUE)
              \/ clock >= r.closes /\ FinishQueueRun(s)
    /\ TimetableRest

RunInstant(s, t) ==
    /\ s \in limits.schedules /\ t \in limits.topics
    /\ LET opens == clock + Delay
           r == [opens |-> opens, closes |-> opens + Duration]
       IN  r \in Runs /\ BeginOneShot(s, t, r)
    /\ TimetableRest

Close(s) ==
    /\ Running(s) /\ clock >= rows[s].run.closes
    /\ FinishQueueRun(s)
    /\ TimetableRest

(* keepRun: a run that has not opened and that the settings no longer give *)
(* is cancelled.                                                           *)
CancelPending(s) ==
    /\ Regular(s) /\ Running(s) /\ clock < rows[s].run.opens
    /\ NextRun(Slot(s), published, clock) # rows[s].run
    /\ FinishQueueRun(s)
    /\ TimetableRest

Scheduling(s) ==
    \/ Prepare(s)
    \/ RestoreLegacy(s)
    \/ \E t \in Topics : RunInstant(s, t)
    \/ Transaction(s) /\ TimetableRest
    \/ Close(s)
    \/ CancelPending(s)

(* What the queue service and the menu of schedules do to a row.           *)
Editing(s) ==
    /\ s \in limits.schedules
    /\ \/ \E m \in Messages \ {NoMessage} : SetQueueMessageID(s, m)
       \/ \E t \in limits.topics : ChangeThreadID(s, t) \/ AddNewScheduleEntry(s, t)
       \/ DeleteScheduleEntry(s)
    /\ TimetableRest

-----------------------------------------------------------------------------
(* A button of any week so far may be pressed today.                       *)
ChangeSettings ==
    /\ spent < limits.updates
    /\ \E type \in WeekTypes :
           \/ \E date \in Dates : ChangeField(date, type, Today)
           \/ \E monday \in {MondayOf(date) : date \in DateOf(limits.from)..Today} :
                  SetCurrentWeek(monday, type, Today)
    /\ spent' = spent + 1
    /\ UNCHANGED <<topicVars, clock, limits>>

SettingsStep ==
    /\ Save \/ SaveFails \/ Publish
    /\ UNCHANGED <<topicVars, clock, limits, spent>>

(* What is under way at PostgreSQL ends as it will.                        *)
Restart ==
    /\ limits.stops
    /\ LoadSettings
    /\ UNCHANGED <<topicVars, clock, limits, spent>>

(* Time stands still at the end of the instance.                           *)
Tick ==
    /\ clock < limits.until
    /\ clock' = clock + 1
    /\ UNCHANGED <<topicVars, settingsVars, limits, spent>>

Next ==
    \/ \E s \in Schedules : Scheduling(s) \/ Editing(s)
    \/ ChangeSettings
    \/ SettingsStep
    \/ Restart
    \/ Tick

Spec == Init /\ [][Next]_vars

-----------------------------------------------------------------------------
(* Readers see the settings that were last told to be in force, and these  *)
(* are what a restart loads, until a later Update fails, perhaps after it  *)
(* was stored, or is on its way (settings.go:91-148).                      *)
SettingsAgree ==
    /\ SettingsTypeOK
    /\ published = told
    /\ stored \in {told} \cup doubt \cup {u.values : u \in update}

(* After the press that says of which type the current week is, today is   *)
(* in a week of that type, even when the button was drawn weeks before     *)
(* (config_handlers.go:267, weekTypeForData.go:20).                        *)
WeekChoiceHolds ==
    \A u \in update : u.current => WeekTypeForDate(u.at, u.values) = u.values.type

(* Every weekly schedule's next run and the run of each message it posted  *)
(* before or during a run are found at every instant under every setting   *)
(* that can be in force: the runs that cross midnight, and the last day of *)
(* the fortnight (scheduler.go:498-562).                                   *)
Horizon(now) == DateOf(now) - 2..DateOf(now) + 15
CalendarHolds(week, now) ==
    /\ Alternates(week, Horizon(now))
    /\ \A slot \in Slots : /\ FindsNextRun(slot, week, now, Horizon(now))
                           /\ FindsLegacyRun(slot, week, now, Horizon(now))

(* Computed once, for every setting and instant of the instances.          *)
Instants == UNION {l.from..l.until : l \in Limits}
References == Dates \cup {MondayOf(DateOf(now)) : now \in Instants}
CalendarTable == {<<at[1], at[2], CalendarHolds(at[1], at[2])>> :
                      at \in [date : References, type : WeekTypes] \X Instants}

RunsAreFound == <<published, clock, TRUE>> \in CalendarTable
==============================================================================
