--------------------------- MODULE TimetableProofs ---------------------------
(***************************************************************************)
(* Whatever the calendar, the settings and the clock make of it, what      *)
(* Timetable does to the rows is what TopicSlots allows; and under every   *)
(* setting, at every instant, the scheduler finds the runs there are.      *)
(***************************************************************************)
EXTENDS Timetable, TopicSlotsProofs, WellFoundedInduction

LEMMA SchedulingTakesTopicSteps ==
    ASSUME NEW s \in Schedules, Scheduling(s)
    PROVE  [TopicNext]_topicVars
  <1> SUFFICES TopicNext
    OBVIOUS
  <1>1. CASE Prepare(s)
    <2> PICK r \in Runs : BeginRun(s, r, FALSE)
      BY <1>1, Zenon DEF Prepare
    <2> QED BY DEF TopicNext
  <1>2. CASE RestoreLegacy(s)
    <2>1. (\E r \in Runs : BeginRun(s, r, TRUE)) \/ FinishQueueRun(s)
      BY <1>2, Zenon DEF RestoreLegacy
    <2> QED BY <2>1 DEF TopicNext
  <1>3. CASE \E t \in Topics : RunInstant(s, t)
    <2> PICK t \in Topics, r \in Runs : BeginOneShot(s, t, r)
      BY <1>3, Zenon DEF RunInstant
    <2> QED BY DEF TopicNext
  <1>4. CASE Transaction(s) /\ TimetableRest
    BY <1>4 DEF TopicNext
  <1>5. CASE Close(s)
    BY <1>5 DEF Close, TopicNext
  <1>6. CASE CancelPending(s)
    BY <1>6 DEF CancelPending, TopicNext
  <1> QED BY <1>1, <1>2, <1>3, <1>4, <1>5, <1>6 DEF Scheduling

LEMMA InitMeetsTopics == Init => TopicInit
  BY DEF Init

LEMMA NextMeetsTopics ==
    ASSUME limits \in Limits, [Next]_vars
    PROVE  [TopicNext]_topicVars /\ limits' \in Limits
  <1>1. CASE \E s \in Schedules : Scheduling(s)
    <2> PICK s \in Schedules : Scheduling(s)
      BY <1>1
    <2>1. limits' = limits
      BY DEF Scheduling, Prepare, RestoreLegacy, RunInstant, Close, CancelPending, TimetableRest
    <2> QED BY <2>1, SchedulingTakesTopicSteps
  <1>2. CASE \E s \in Schedules : Editing(s)
    <2> PICK s \in Schedules : Editing(s)
      BY <1>2
    <2>1. limits' = limits /\ limits.topics \subseteq Topics
      BY TimetableAssumption DEF Editing, TimetableRest
    <2>2. TopicNext
      BY <2>1 DEF Editing, TopicNext
    <2> QED BY <2>1, <2>2
  <1>3. CASE ChangeSettings \/ SettingsStep \/ Restart \/ Tick
    BY <1>3 DEF ChangeSettings, SettingsStep, Restart, Tick, topicVars
  <1>4. CASE UNCHANGED vars
    BY <1>4 DEF vars, topicVars
  <1> QED BY <1>1, <1>2, <1>3, <1>4 DEF Next

(* The scheduler and the menu of schedules leave the topics to the         *)
(* transactions: what they do to the rows is a behaviour of TopicSlots,    *)
(* whatever runs the calendar and the settings ask for                     *)
(* (scheduler.go:213-364, schedule_repo.go:108-245).                       *)
THEOREM ImplementsTopicSlots == Spec => TopicSpec
  <1>1. Init => TopicInit /\ limits \in Limits
    BY InitMeetsTopics DEF Init
  <1>2. limits \in Limits /\ [Next]_vars => [TopicNext]_topicVars /\ (limits \in Limits)'
    BY NextMeetsTopics
  <1> QED BY <1>1, <1>2, PTL DEF Spec, TopicSpec

(* Under every timetable the topic that was found free stays free until    *)
(* the run is stored in it, and two runs never share a topic               *)
(* (schedule_repo.go:108-219).                                             *)
THEOREM TimetableKeepsTopics == Spec => [](ChecksHold /\ TopicExclusive)
  BY ImplementsTopicSlots, ChecksHoldAlways, TopicsAreExclusive, PTL
-----------------------------------------------------------------------------
(* The calendar.                                                           *)

LEMMA MondayFacts ==
    ASSUME NEW d \in Int
    PROVE  /\ MondayOf(d) \in Int /\ MondayOf(MondayOf(d)) = MondayOf(d)
           /\ MondayOf(d + 7) = MondayOf(d) + 7
           /\ d \in Nat => MondayOf(d) \in Nat
  BY DEF MondayOf

(* The week of reference has its type, and types alternate, over every     *)
(* date before it and after it (weekTypeForData.go:20-35).                 *)
THEOREM WeeksAlternate ==
    ASSUME NEW week \in [date : Int, type : WeekTypes], NEW d \in Int
    PROVE  /\ WeekTypeForDate(week.date, week) = week.type
           /\ WeekTypeForDate(MondayOf(d), week) = WeekTypeForDate(d, week)
           /\ WeekTypeForDate(d + 7, week) # WeekTypeForDate(d, week)
  <1> DEFINE WeeksSince(x) == (MondayOf(x) - MondayOf(week.date)) \div 7
  <1>0. week.date \in Int /\ week.type \in {"odd", "even"}
    BY DEF WeekTypes
  <1>1. WeeksSince(week.date) = 0 /\ WeeksSince(MondayOf(d)) = WeeksSince(d)
    BY <1>0, MondayFacts
  <1>2. WeeksSince(d) \in Int /\ WeeksSince(d + 7) = WeeksSince(d) + 1
    <2> DEFINE n == MondayOf(d) - MondayOf(week.date)
    <2>1. n \in Int /\ MondayOf(d + 7) - MondayOf(week.date) = n + 7
      BY <1>0, MondayFacts
    <2> HIDE DEF n
    <2>2. (n + 7) \div 7 = (n \div 7) + 1 /\ n \div 7 \in Int
      BY <2>1
    <2> QED BY <2>1, <2>2 DEF n
  <1>3. \A x : WeekTypeForDate(x, week) =
                  IF WeeksSince(x) % 2 = 0 THEN week.type ELSE SwitchWeekType[week.type]
    BY DEF WeekTypeForDate
  <1>4. SwitchWeekType[week.type] # week.type
    BY <1>0 DEF SwitchWeekType
  <1> HIDE DEF WeeksSince
  <1>5. 0 % 2 = 0 /\ ((WeeksSince(d) + 1) % 2 = 0 <=> WeeksSince(d) % 2 # 0)
    BY <1>2
  <1> QED BY <1>1, <1>2, <1>3, <1>4, <1>5
(* An instant and its date; dates are a day apart.                         *)
LEMMA DayIs == ASSUME NEW n \in Nat
               PROVE  /\ DateOf(n) \in Int
                      /\ DateOf(n) * DayLength <= n /\ n < DateOf(n) * DayLength + DayLength
  <1>1. DayLength \in Nat /\ DayLength > 1
    BY CalendarAssumption
  <1> QED BY <1>1 DEF DateOf

LEMMA DaysApart == ASSUME NEW d \in Int, NEW e \in Int, d < e
                   PROVE  d * DayLength \in Int /\ e * DayLength \in Int /\ d * DayLength + DayLength <= e * DayLength
  <1>1. DayLength \in Nat /\ DayLength > 1
    BY CalendarAssumption
  <1>2. e - d - 1 >= 0 
    OBVIOUS
  <1>3. (e - d - 1) * DayLength >= 0 
    BY <1>1, <1>2
  <1>4. e * DayLength = d * DayLength + DayLength + (e - d - 1) * DayLength
    BY <1>1
  <1> QED BY <1>1, <1>3, <1>4

(* A set of integers that has a bound has a least element.                 *)
LEMMA LeastIs == ASSUME NEW S, S \subseteq Int, S # {}, NEW low \in Int, \A x \in S : low <= x
                 PROVE  Min(S) \in S /\ \A y \in S : Min(S) <= y
  <1> DEFINE above == {x - low : x \in S}
             less == {ss \in Nat \X Nat : ss[1] < ss[2]}
  <1>1. above \subseteq Nat /\ above # {}
    <2>1. \A x \in S : x - low \in Nat
      OBVIOUS
    <2>2. PICK x \in S : TRUE
      OBVIOUS
    <2>3. x - low \in above
      OBVIOUS
    <2> QED BY <2>1, <2>3
  <1>2. IsWellFoundedOn(less, Nat)
    BY NatLessThanWellFounded DEF OpToRel
  <1>3. \E n \in above : \A m \in above : ~(<<m, n>> \in less)
    <2> HIDE DEF above, less
    <2> QED BY <1>1, <1>2, WFMin
  <1>4. \A m, n \in Nat : ~(<<m, n>> \in less) => n <= m
    OBVIOUS
  <1>5. \E n \in above : \A m \in above : n <= m
    <2> HIDE DEF above, less
    <2> QED BY <1>1, <1>3, <1>4
  <1>6. PICK x \in S : \A y \in S : x - low <= y - low
    BY <1>5
  <1>7. \A y \in S : x <= y
    BY <1>6
  <1> QED BY <1>7 DEF Min

(* A run is open from its date on, for less than a day.                    *)
LEMMA BoundsAre ==
    ASSUME NEW slot \in Slots, NEW d \in Int
    PROVE  LET r == RunBounds(slot, d)
           IN  /\ d * DayLength \in Int /\ r.opens \in Int /\ r.closes \in Int
               /\ d * DayLength <= r.opens /\ r.opens < r.closes
               /\ r.opens < d * DayLength + DayLength /\ r.closes < d * DayLength + 2 * DayLength
               /\ r = [opens |-> r.opens, closes |-> r.closes]
               /\ r.opens = d * DayLength + slot.start
  BY CalendarAssumption DEF RunBounds, Slots

(* Runs of a slot open and close in the order of their dates.              *)
LEMMA InOrder ==
    ASSUME NEW slot \in Slots, NEW d \in Int, NEW e \in Int, d < e
    PROVE  /\ RunBounds(slot, d).opens < RunBounds(slot, e).opens
           /\ RunBounds(slot, d).closes < RunBounds(slot, e).closes
           /\ RunBounds(slot, d).closes + DayLength <= RunBounds(slot, e).closes
  <1>1. d * DayLength \in Int /\ e * DayLength \in Int /\ d * DayLength + DayLength <= e * DayLength
    BY DaysApart
  <1> QED BY <1>1, CalendarAssumption DEF RunBounds, Slots

AnyWeek == [date : Int, type : WeekTypes]

(* A slot has a run in every fortnight.                                    *)
LEMMA RunInFortnight ==
    ASSUME NEW slot \in Slots, NEW week \in AnyWeek, NEW date \in Int
    PROVE  \E d \in date..date + 13 : HasRun(slot, week, d)
  <1> DEFINE d == date + ((slot.day - date) % 7)
  <1>1. slot.day \in 0..6 /\ slot.week \in WeekTypes
    BY DEF Slots
  <1>2. d \in date..date + 6 /\ d % 7 = slot.day
    BY <1>1
  <1> HIDE DEF d
  <1>3. d \in Int /\ d + 7 \in date..date + 13 /\ (d + 7) % 7 = slot.day /\ d \in date..date + 13
    BY <1>2
  <1>4. ASSUME NEW e \in Int PROVE WeekTypeForDate(e, week) \in WeekTypes
    <2>1. week.type \in {"odd", "even"}
      BY DEF AnyWeek, WeekTypes
    <2> QED BY <2>1 DEF WeekTypeForDate, SwitchWeekType, WeekTypes
  <1>5. WeekTypeForDate(d + 7, week) # WeekTypeForDate(d, week)
    BY <1>3, WeeksAlternate DEF AnyWeek
  <1>6. WeekTypeForDate(d, week) = slot.week \/ WeekTypeForDate(d + 7, week) = slot.week
    <2>1. WeekTypeForDate(d, week) \in {"odd", "even"} /\ WeekTypeForDate(d + 7, week) \in {"odd", "even"}
      BY <1>3, <1>4 DEF WeekTypes
    <2> QED BY <1>1, <1>5, <2>1 DEF WeekTypes
  <1> QED BY <1>2, <1>3, <1>6 DEF HasRun

(* Every run that has not closed at now, from two days before to a         *)
(* fortnight ahead, is found if it is the first.                           *)
LEMMA NextRunIsFound ==
    ASSUME NEW slot \in Slots, NEW week \in AnyWeek, NEW now \in Nat
    PROVE  FindsNextRun(slot, week, now, Horizon(now))
  <1> DEFINE today == DateOf(now)
             coming == {date \in today - 1..today + 14 :
                           HasRun(slot, week, date) /\ now < RunBounds(slot, date).closes}
             runs == {r \in AllRuns(slot, week, Horizon(now)) : now < r.closes}
             first == RunBounds(slot, Min(coming))
  <1>1. today \in Int /\ today * DayLength <= now /\ now < today * DayLength + DayLength
    BY DayIs
  <1>2. coming # {}
    <2>1. PICK d \in today + 1..today + 14 : HasRun(slot, week, d)
      <3> HIDE DEF today
      <3>1. today + 1 \in Int
        BY <1>1
      <3>2. \E d \in today + 1..today + 1 + 13 : HasRun(slot, week, d)
        BY <3>1, RunInFortnight
      <3>3. today + 1 + 13 = today + 14
        BY <1>1
      <3> QED BY <3>2, <3>3
    <2>2. d \in Int /\ today < d
      BY <1>1, <2>1
    <2>3. today * DayLength \in Int /\ d * DayLength \in Int /\ today * DayLength + DayLength <= d * DayLength
      BY <1>1, <2>2, DaysApart
    <2>4. now < RunBounds(slot, d).closes
      BY <1>1, <2>2, <2>3, BoundsAre, CalendarAssumption
    <2> QED BY <1>1, <2>1, <2>4
  <1>3. Min(coming) \in coming /\ \A d \in coming : Min(coming) <= d
    <2>1. coming \subseteq Int /\ today - 1 \in Int /\ \A d \in coming : today - 1 <= d
      BY <1>1
    <2> HIDE DEF coming
    <2> QED BY <1>2, <2>1, LeastIs
  <1>4. first \in runs
    <2>1. /\ Min(coming) \in today - 1..today + 14 /\ HasRun(slot, week, Min(coming))
          /\ now < first.closes
      BY <1>3
    <2>2. Min(coming) \in Horizon(now)
      BY <1>1, <2>1 DEF Horizon
    <2> HIDE DEF coming
    <2> QED BY <2>1, <2>2 DEF AllRuns
  <1>5. ASSUME NEW r \in runs PROVE r = first \/ (first.closes \in Int /\ r.closes \in Int /\ first.closes < r.closes)
    <2>1. PICK d \in today - 2..today + 15 : HasRun(slot, week, d) /\ r = RunBounds(slot, d)
      BY <1>5 DEF AllRuns, Horizon
    <2>2. d # today - 2
      <3>1. (today - 2) * DayLength = today * DayLength - 2 * DayLength
        BY <1>1, CalendarAssumption
      <3>2. today - 2 \in Int /\ today * DayLength \in Int
        BY <1>1, CalendarAssumption
      <3> HIDE DEF today
      <3>3. RunBounds(slot, today - 2).closes < today * DayLength
        BY <3>1, <3>2, BoundsAre, CalendarAssumption
      <3> QED BY <1>1, <1>5, <2>1, <3>2, <3>3, BoundsAre
    <2>3. Min(coming) \in today - 1..today + 14
      BY <1>3
    <2>4. d = Min(coming) \/ Min(coming) < d
      <3>1. CASE d = today + 15
        BY <1>1, <2>3, <3>1
      <3>2. CASE d \in today - 1..today + 14
        <4>1. d \in coming
          BY <1>5, <2>1, <3>2
        <4> QED BY <1>1, <1>3, <2>3, <3>2, <4>1
      <3> QED BY <1>1, <2>1, <2>2, <3>1, <3>2
    <2>5. d \in Int /\ Min(coming) \in Int
      BY <1>1, <2>1, <2>3
    <2> HIDE DEF coming
    <2> QED BY <2>1, <2>4, <2>5, InOrder, BoundsAre
  <1>6. first.closes \in Int
    <2>1. Min(coming) \in Int
      BY <1>1, <1>3
    <2> QED BY <2>1, BoundsAre
  <1>7. Earliest(runs) = first
    <2> HIDE DEF runs, first
    <2>1. \A r \in runs : first.closes <= r.closes
      BY <1>5, <1>6
    <2>2. ASSUME NEW r \in runs, \A other \in runs : r.closes <= other.closes PROVE r = first
      BY <1>4, <1>5, <1>6, <2>2
    <2> QED BY <1>4, <2>1, <2>2 DEF Earliest
  <1>8. NextRun(slot, week, now) = first
    BY <1>2 DEF NextRun, FirstRun
  <1> QED BY <1>7, <1>8 DEF FindsNextRun

(* No two of three days have the same weekday.                             *)
LEMMA LegacyRunIsFound ==
    ASSUME NEW slot \in Slots, NEW week \in AnyWeek, NEW now \in Nat
    PROVE  FindsLegacyRun(slot, week, now, Horizon(now))
  <1> DEFINE today == DateOf(now)
             fits(date) == /\ date % 7 = slot.day
                           /\ RunBounds(slot, date).opens - Early <= now
                           /\ now < RunBounds(slot, date).closes
             dates == {date \in today - 1..today + 1 : fits(date)}
  <1> SUFFICES ASSUME NEW d \in Horizon(now), HasRun(slot, week, d), fits(d)
               PROVE  LegacyRunBounds(slot, FALSE, now) = RunBounds(slot, d)
    BY DEF FindsLegacyRun, AllRuns, HasRun
  <1>1. /\ today \in Int /\ today * DayLength \in Int
        /\ today * DayLength <= now /\ now < today * DayLength + DayLength
        /\ d \in Int
    BY DayIs, CalendarAssumption DEF Horizon
  <1>2. d \in today - 1..today + 1
    <2>1. ASSUME d < today - 1 PROVE FALSE
      <3>1. (today - 1) * DayLength = today * DayLength - DayLength
        BY <1>1, CalendarAssumption
      <3>2. d * DayLength + DayLength <= (today - 1) * DayLength /\ d * DayLength \in Int
        BY <1>1, <2>1, DaysApart
      <3> HIDE DEF today
      <3> QED BY <1>1, <3>1, <3>2, BoundsAre, CalendarAssumption
    <2>2. ASSUME d > today + 1 PROVE FALSE
      <3>1. (today + 1) * DayLength = today * DayLength + DayLength
        BY <1>1, CalendarAssumption
      <3>2. (today + 1) * DayLength + DayLength <= d * DayLength /\ d * DayLength \in Int
        BY <1>1, <2>2, DaysApart
      <3> HIDE DEF today
      <3> QED BY <1>1, <3>1, <3>2, BoundsAre, CalendarAssumption
    <2> QED BY <1>1, <2>1, <2>2
  <1>3. dates = {d}
    <2>1. d \in dates
      BY <1>2
    <2>2. ASSUME NEW e \in dates PROVE e = d
      <3>1. e \in today - 1..today + 1 /\ e % 7 = d % 7
        BY <2>2
      <3> QED BY <1>1, <1>2, <3>1
    <2> QED BY <2>1, <2>2
  <1>4. Min(dates) = d
    <2>1. {d} \subseteq Int /\ {d} # {} /\ d \in Int /\ \A x \in {d} : d <= x
      BY <1>1
    <2>2. Min({d}) \in {d}
      BY <2>1, LeastIs
    <2> HIDE DEF dates
    <2> QED BY <1>3, <2>2
  <1>5. LegacyRunBounds(slot, FALSE, now) = FirstRun(slot, dates)
    BY DEF LegacyRunBounds
  <1> QED BY <1>3, <1>4, <1>5 DEF FirstRun

(* The next run of every slot and the run of each of its messages are      *)
(* found, under every setting and at every instant (scheduler.go:498-562). *)
THEOREM CalendarIsRight ==
    ASSUME NEW week \in AnyWeek, NEW now \in Nat
    PROVE  CalendarHolds(week, now)
  <1>1. Horizon(now) \subseteq Int
    BY DayIs DEF Horizon
  <1>2. Alternates(week, Horizon(now))
    BY <1>1, WeeksAlternate DEF Alternates, AnyWeek
  <1> QED BY <1>2, NextRunIsFound, LegacyRunIsFound DEF CalendarHolds
-----------------------------------------------------------------------------
(* The settings.                                                           *)

(* Why SettingsAgree and WeekChoiceHolds hold: what is about to be         *)
(* published has been stored.                                              *)
StoredFirst == \A u \in update : u.step = "publish" => stored = u.values
SettingsInv == clock \in Nat /\ SettingsAgree /\ WeekChoiceHolds /\ StoredFirst

LEMMA SettingsInitInv == Init => SettingsInv
  <1> SUFFICES ASSUME Init PROVE SettingsInv
    OBVIOUS
  <1>1. PICK date \in Dates, type \in WeekTypes : SettingsInit([date |-> date, type |-> type])
    BY DEF Init
  <1>2. [date |-> date, type |-> type] \in Weeks
    BY TimetableAssumption DEF Weeks
  <1>3. clock \in Nat
    BY TimetableAssumption DEF Init
  <1> QED BY <1>1, <1>2, <1>3 DEF SettingsInit, SettingsInv, SettingsAgree, SettingsTypeOK, WeekChoiceHolds,
                                  StoredFirst

LEMMA UpdateBegun ==
    ASSUME SettingsInv, NEW values \in Weeks, NEW current \in BOOLEAN,
           current => WeekTypeForDate(Today, values) = values.type,
           BeginUpdate(values, Today, current), UNCHANGED clock
    PROVE  SettingsInv'
  <1> DEFINE u == [step |-> "save", values |-> values, at |-> Today, current |-> current]
  <1>1. Today \in Nat
    BY CalendarAssumption DEF SettingsInv, Today, DateOf
  <1>2. u \in Updates /\ update' = {u} /\ u.step = "save" /\ u.values = values /\ u.at = Today
        /\ u.current = current
    BY <1>1 DEF BeginUpdate, Updates
  <1> HIDE DEF u
  <1> QED BY <1>2 DEF BeginUpdate, SettingsInv, SettingsAgree, SettingsTypeOK, WeekChoiceHolds, StoredFirst

LEMMA SettingsChangeInv ==
    ASSUME SettingsInv, ChangeSettings
    PROVE  SettingsInv'
  <1> PICK type \in WeekTypes :
         \/ \E date \in Dates : ChangeField(date, type, Today)
         \/ \E monday \in {MondayOf(date) : date \in DateOf(limits.from)..Today} :
                SetCurrentWeek(monday, type, Today)
    BY DEF ChangeSettings
  <1>0. UNCHANGED clock
    BY DEF ChangeSettings
  <1>1. CASE \E date \in Dates : ChangeField(date, type, Today)
    <2> PICK date \in Dates : ChangeField(date, type, Today)
      BY <1>1
    <2>1. [date |-> date, type |-> type] \in Weeks
      BY TimetableAssumption DEF Weeks
    <2> QED BY <1>0, <2>1, UpdateBegun DEF ChangeField
  <1>2. CASE \E monday \in {MondayOf(date) : date \in DateOf(limits.from)..Today} :
                SetCurrentWeek(monday, type, Today)
    <2> DEFINE values == [date |-> MondayOf(Today), type |-> type]
    <2>1. BeginUpdate(values, Today, TRUE)
      BY <1>2 DEF SetCurrentWeek, ButtonHolds
    <2>2. Today \in Nat /\ MondayOf(Today) \in Nat
      BY CalendarAssumption, MondayFacts DEF SettingsInv, Today, DateOf
    <2>3. values \in Weeks /\ values \in [date : Int, type : WeekTypes] /\ values.type = type
          /\ values.date = MondayOf(Today)
      BY <2>2 DEF Weeks
    <2> HIDE DEF values
    <2>4. WeekTypeForDate(Today, values) = values.type
      BY <2>2, <2>3, WeeksAlternate
    <2> QED BY <1>0, <2>1, <2>3, <2>4, UpdateBegun
  <1> QED BY <1>1, <1>2

LEMMA SettingsStepInv ==
    ASSUME SettingsInv, SettingsStep
    PROVE  SettingsInv'
  <1> USE DEF SettingsInv, SettingsAgree, SettingsTypeOK
  <1>0. UNCHANGED clock
    BY DEF SettingsStep
  <1>1. CASE Save
    <2> PICK u \in update : /\ u.step = "save" /\ stored' = u.values
                            /\ update' = {[u EXCEPT !.step = "publish"]}
                            /\ UNCHANGED <<published, told, doubt>>
      BY <1>1 DEF Save
    <2> DEFINE v == [u EXCEPT !.step = "publish"]
    <2>1. /\ v \in Updates /\ v.values = u.values /\ v.at = u.at /\ v.current = u.current
          /\ u.values \in Weeks
      BY DEF Updates
    <2>2. update' = {v}
      OBVIOUS
    <2> HIDE DEF v
    <2> QED BY <1>0, <2>1, <2>2 DEF WeekChoiceHolds, StoredFirst
  <1>2. CASE SaveFails
    <2> PICK u \in update : /\ u.step = "save" /\ stored' \in {stored, u.values}
                            /\ update' = {} /\ doubt' = doubt \cup {u.values}
                            /\ UNCHANGED <<published, told>>
      BY <1>2 DEF SaveFails
    <2>1. u.values \in Weeks /\ update = {u}
      BY DEF Updates
    <2> QED BY <1>0, <2>1 DEF WeekChoiceHolds, StoredFirst
  <1>3. CASE Publish
    <2> PICK u \in update : /\ u.step = "publish" /\ published' = u.values /\ told' = u.values
                            /\ update' = {} /\ doubt' = {} /\ UNCHANGED stored
      BY <1>3 DEF Publish
    <2>1. u.values \in Weeks /\ stored = u.values
      BY DEF Updates, StoredFirst
    <2> QED BY <1>0, <2>1 DEF WeekChoiceHolds, StoredFirst
  <1> QED BY <1>1, <1>2, <1>3 DEF SettingsStep

LEMMA SettingsNextInv == ASSUME SettingsInv, [Next]_vars
                         PROVE  SettingsInv'
  <1> USE DEF SettingsInv, SettingsAgree, SettingsTypeOK, WeekChoiceHolds, StoredFirst
  <1>1. CASE UNCHANGED <<settingsVars, clock>>
    BY <1>1 DEF settingsVars
  <1>2. CASE \E s \in Schedules : Scheduling(s) \/ Editing(s)
    <2>1. TimetableRest
      BY <1>2 DEF Scheduling, Editing, Prepare, RestoreLegacy, RunInstant, Close, CancelPending
    <2> QED BY <1>1, <2>1 DEF TimetableRest
  <1>3. CASE ChangeSettings
    BY <1>3, SettingsChangeInv
  <1>4. CASE SettingsStep
    BY <1>4, SettingsStepInv
  <1>5. CASE Restart
    BY <1>5 DEF Restart, LoadSettings
  <1>6. CASE Tick
    BY <1>6 DEF Tick, settingsVars
  <1>7. CASE UNCHANGED vars
    BY <1>1, <1>7 DEF vars
  <1> QED BY <1>2, <1>3, <1>4, <1>5, <1>6, <1>7 DEF Next

(* Readers and the database agree on the settings, whatever saving fails   *)
(* and whenever the process ends (settings.go:91-148).                     *)
THEOREM SettingsAgreeAlways == Spec => []SettingsAgree
  <1>1. SettingsInv => SettingsAgree
    BY DEF SettingsInv
  <1> QED BY <1>1, SettingsInitInv, SettingsNextInv, PTL DEF Spec

(* After the press that chose the type of the current week, that week has  *)
(* the type, at every date (config_handlers.go:267).                       *)
THEOREM WeekChoiceHoldsAlways == Spec => []WeekChoiceHolds
  <1>1. SettingsInv => WeekChoiceHolds
    BY DEF SettingsInv
  <1> QED BY <1>1, SettingsInitInv, SettingsNextInv, PTL DEF Spec

(* The clock and the settings stay within the table.                       *)
Tabled(week) == week \in [date : References, type : WeekTypes]
TableInv ==
    /\ limits \in Limits /\ clock \in limits.from..limits.until
    /\ Tabled(published) /\ Tabled(stored)
    /\ \A u \in update : Tabled(u.values)

LEMMA TableIs == ASSUME limits \in Limits, clock \in limits.from..limits.until
                 PROVE  clock \in Instants /\ MondayOf(Today) \in References /\ Dates \subseteq References
  <1>1. clock \in Instants
    BY DEF Instants
  <1> QED BY <1>1 DEF References, Today

LEMMA TableNextInv == TableInv /\ [Next]_vars => TableInv'
  <1> SUFFICES ASSUME TableInv, [Next]_vars PROVE TableInv'
    OBVIOUS
  <1> USE DEF TableInv
  <1>1. CASE UNCHANGED <<settingsVars, clock, limits>>
    BY <1>1 DEF settingsVars, Tabled
  <1>2. CASE \E s \in Schedules : Scheduling(s) \/ Editing(s)
    <2>1. TimetableRest
      BY <1>2 DEF Scheduling, Editing, Prepare, RestoreLegacy, RunInstant, Close, CancelPending
    <2> QED BY <1>1, <2>1 DEF TimetableRest
  <1>3. CASE ChangeSettings
    <2>1. PICK date \in References, type \in WeekTypes, current \in BOOLEAN :
            BeginUpdate([date |-> date, type |-> type], Today, current)
      BY <1>3, TableIs DEF ChangeSettings, ChangeField, SetCurrentWeek, ButtonHolds
    <2> DEFINE values == [date |-> date, type |-> type]
    <2>2. Tabled(values)
      BY DEF Tabled
    <2> HIDE DEF values
    <2>3. \A u \in update' : u.values = values
      BY <2>1 DEF BeginUpdate, values
    <2>4. UNCHANGED <<stored, published, clock, limits>>
      BY <1>3, <2>1 DEF ChangeSettings, BeginUpdate
    <2> QED BY <2>2, <2>3, <2>4 DEF Tabled
  <1>4. CASE SettingsStep
    <2>1. UNCHANGED <<clock, limits>>
      BY <1>4 DEF SettingsStep
    <2>2. CASE Save
      <3>1. PICK u \in update : /\ stored' = u.values /\ update' = {[u EXCEPT !.step = "publish"]}
                               /\ UNCHANGED published
        BY <2>2 DEF Save
      <3>2. [u EXCEPT !.step = "publish"].values = u.values
        OBVIOUS
      <3>3. \A v \in update' : v.values = u.values
        BY <3>1, <3>2
      <3> QED BY <2>1, <3>1, <3>3 DEF Tabled
    <2>3. CASE SaveFails \/ Publish
      BY <2>1, <2>3 DEF SaveFails, Publish, Tabled
    <2> QED BY <1>4, <2>2, <2>3 DEF SettingsStep
  <1>5. CASE Restart
    BY <1>5 DEF Restart, LoadSettings, Tabled
  <1>6. CASE Tick
    <2>1. clock + 1 \in limits.from..limits.until
      BY <1>6, TimetableAssumption DEF Tick
    <2> QED BY <1>6, <2>1 DEF Tick, settingsVars, Tabled
  <1> QED BY <1>1, <1>2, <1>3, <1>4, <1>5, <1>6 DEF Next, vars

LEMMA TableInitInv == Init => TableInv
  <1> SUFFICES ASSUME Init PROVE TableInv
    OBVIOUS
  <1>1. limits \in Limits /\ clock = limits.from
    BY DEF Init
  <1>2. clock \in limits.from..limits.until
    BY <1>1, TimetableAssumption
  <1>3. PICK date \in Dates, type \in WeekTypes : SettingsInit([date |-> date, type |-> type])
    BY DEF Init
  <1>4. Tabled([date |-> date, type |-> type])
    BY <1>1, <1>2, TableIs DEF Tabled
  <1> QED BY <1>1, <1>2, <1>3, <1>4 DEF TableInv, SettingsInit, Tabled

(* At every instant, under the settings in force, the scheduler finds each *)
(* run, and the run of each old message, of a weekly schedule              *)
(* (scheduler.go:498-562).                                                 *)
THEOREM RunsAreFoundAlways == Spec => []RunsAreFound
  <1>1. TableInv => RunsAreFound
    <2> SUFFICES ASSUME TableInv PROVE RunsAreFound
      OBVIOUS
    <2>1. published \in [date : References, type : WeekTypes] /\ clock \in Instants
      BY TableIs DEF TableInv, Tabled
    <2>2. Instants \subseteq Nat
      BY TimetableAssumption DEF Instants
    <2>3. References \subseteq Int
      <3>1. ASSUME NEW now \in Instants PROVE MondayOf(DateOf(now)) \in Int
        <4>1. DateOf(now) \in Int
          BY <2>2, DayIs
        <4> QED BY <4>1, MondayFacts
      <3>2. Dates \subseteq Int
        BY TimetableAssumption
      <3> QED BY <3>1, <3>2, Zenon DEF References
    <2>4. published \in AnyWeek /\ clock \in Nat
      BY <2>1, <2>2, <2>3 DEF AnyWeek
    <2>5. CalendarHolds(published, clock) = TRUE
      <3>1. CalendarHolds(published, clock)
        BY <2>4, CalendarIsRight
      <3> QED BY <3>1 DEF CalendarHolds
    <2>6. <<published, clock, CalendarHolds(published, clock)>> \in CalendarTable
      <3> DEFINE at == <<published, clock>>
      <3>1. at \in [date : References, type : WeekTypes] \X Instants
        BY <2>1
      <3>2. at[1] = published /\ at[2] = clock
        OBVIOUS
      <3> HIDE DEF at
      <3>3. <<at[1], at[2], CalendarHolds(at[1], at[2])>> \in CalendarTable
        BY <3>1, Zenon DEF CalendarTable
      <3> QED BY <3>2, <3>3
    <2>7. <<published, clock, TRUE>> \in CalendarTable
      BY <2>5, <2>6
    <2> QED BY <2>7 DEF RunsAreFound
  <1> QED BY <1>1, TableInitInv, TableNextInv, PTL DEF Spec
==============================================================================
