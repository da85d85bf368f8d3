------------------------------ MODULE Scheduler ------------------------------
(***************************************************************************)
(* The scheduler of one schedule: scheduler/scheduler.go, with the calls   *)
(* that handlers make of it.                                               *)
(*                                                                         *)
(* A worker goroutine reads the row, sleeps until its next run is due,     *)
(* has it prepared, announces, refreshes and closes it.  Handlers edit,    *)
(* add and delete the schedule, change settings and start one-shot queues; *)
(* they stop and replace workers under lifecycleMu.  The worker is the     *)
(* only one to look after a run, so there must be one for every run, never *)
(* two, and none that follows an old calendar.                             *)
(*                                                                         *)
(* A call of the queue service or the database is one step here            *)
(* (QueueService has its inside); it may fail, with a COMMIT that lands    *)
(* later.  Times are counted in steps between which five minutes before    *)
(* opening, one minute before opening, opening and closing lie.            *)
(***************************************************************************)
EXTENDS Integers

CONSTANTS
    Runs, NoRun, \* runs, named by their opening and closing times
    OpensAt, ClosesAt, \* the times of each run
    Plans, NoPlan, \* the weekly times that a row may hold
    FirstPlan,   \* the plan of a row that is there from the beginning
    Weeks, FirstWeek, \* the values of the settings week1_date and week1_type
    Calendar,    \* Calendar[plan][week]: the runs of such a row
    LegacyRun,   \* the run whose message an older version left, from one minute before its opening on
    Workers, NoWorker, \* worker goroutines; two could overlap
    Callers, NoCaller, \* handlers and main, which call the scheduler
    Horizon,     \* bound: the last instant
    MaxTroubles  \* bound: calls by handlers, failing calls and shutdowns, together

ASSUME SchedulerAssumption ==
    /\ NoRun \notin Runs /\ NoPlan \notin Plans /\ NoWorker \notin Workers /\ NoCaller \notin Callers
    /\ Workers # {}
    /\ {Horizon, MaxTroubles} \subseteq Nat
    /\ OpensAt \in [Runs -> Nat] /\ ClosesAt \in [Runs -> Nat]
    /\ \A r \in Runs : OpensAt[r] < ClosesAt[r]
    /\ Calendar \in [Plans -> [Weeks -> SUBSET Runs]]
    /\ FirstWeek \in Weeks /\ FirstPlan \in Plans
    /\ LegacyRun \in Runs

VARIABLES
    row,      \* the row of schedules
    ghost,    \* the row that a transaction in doubt will leave, if any
    existed,  \* the row was inserted; its identifier is not used again
    closing,  \* queueState.closing: Close is owed to the service
    week,     \* the settings
    phase,    \* the process is "down", "up" or "stopping" (Scheduler.ctx cancelled)
    worker,   \* the goroutines with their scheduleWorker and local variables
    mapped,   \* Scheduler.workers: the worker of the schedule
    call,     \* what each caller does
    holder,   \* who holds lifecycleMu
    clock,
    troubles, \* calls by handlers, failures and shutdowns left
    applied,  \* history: this process' last Reconfigure succeeded and since then nothing has
              \* changed, nor has the run of an old message been restored
    sent,     \* history: how often each notice of the stored run was sent, by all its workers
    forgot,   \* history: how many of these workers ended without its mark in the row
    stranded  \* history: the COMMIT of a one-shot queue was reported as failed

db == <<row, ghost, existed>>
lifecycle == <<call, holder, mapped>>
notices == <<sent, forgot>>
vars == <<db, closing, week, phase, worker, lifecycle, clock, troubles, applied, notices, stranded>>
world == <<existed, week, phase, clock, stranded>>

-----------------------------------------------------------------------------
Marks == {"five", "one", "open"}
Notices == {"five", "one"}
Never == [k \in Notices |-> 0]

Row == [plan : Plans, temp : BOOLEAN, run : Runs \cup {NoRun}, posted : BOOLEAN, notified : SUBSET Marks]
NoRow == [plan |-> NoPlan, temp |-> FALSE, run |-> NoRun, posted |-> FALSE, notified |-> {}]
Exists(s) == s # NoRow
Regular(p) == [NoRow EXCEPT !.plan = p]

(* What a transaction leaves in the row: BeginQueueRun, FinishQueueRun.    *)
Begun(r) == [row EXCEPT !.run = r, !.posted = FALSE, !.notified = {}]
Ended == IF row.temp THEN NoRow ELSE [row EXCEPT !.run = NoRun, !.posted = FALSE, !.notified = {}]
Marked(m) == IF Exists(row) THEN [row EXCEPT !.notified = @ \cup {m}] ELSE row
Posted == IF row.run # NoRun /\ clock < ClosesAt[row.run] THEN [row EXCEPT !.posted = TRUE] ELSE row

(* A write waits for the lock of a transaction in doubt.                   *)
Stored(s) == ghost = {} /\ row' = s /\ UNCHANGED ghost
Write(s) == Stored(s) /\ UNCHANGED troubles
(* A write fails and is rolled back, or its outcome is open.               *)
Lose(s) == ghost = {} /\ ghost' \in {{}, {s}} /\ UNCHANGED row

Trouble == troubles > 0 /\ troubles' = troubles - 1
Fault(free) == IF free THEN UNCHANGED troubles ELSE Trouble

Threads == {"gone", "waiting", "restoring", "claiming", "preparing", "closing",
            "noticing", "marking", "refreshing", "leaving"}
ServiceCalls == {"restoring", "preparing", "closing", "noticing", "refreshing"}

(* Fields f over those of g.                                               *)
f ++ g == [k \in (DOMAIN f) \cup (DOMAIN g) |-> IF k \in DOMAIN f THEN f[k] ELSE g[k]]

(* The local variables of one round of run and processActive.              *)
Round == [seen |-> NoRow, now |-> 0, target |-> NoRun, mark |-> "five", failed |-> FALSE]
(* A new goroutine with its scheduleWorker.                                *)
Spawned(busy) == [pc |-> "waiting", active |-> busy, canceled |-> FALSE, sync |-> TRUE, until |-> 0,
                  key |-> NoRun, delivered |-> {}, reconciled |-> FALSE] ++ Round
Gone == [Spawned(FALSE) EXCEPT !.pc = "gone"]

(* A call: whose it is, its next step, the step after stopping a worker,   *)
(* the schedule it brings, the run it cancels, the worker it waits for;    *)
(* whether all its steps succeeded and nothing changed since it began.     *)
Idle == [of |-> "nobody", pc |-> "idle", then |-> "end", sch |-> NoRow, run |-> NoRun, awaited |-> NoWorker,
         ok |-> TRUE, sure |-> TRUE]
Steps == {"idle", "reread", "delete", "remove", "schedule", "list", "stop", "await", "check", "replace",
          "sync", "cancel", "refetch"}

(* Whatever was begun before a change does not carry it out.               *)
Unsure == [d \in Callers |-> [call[d] EXCEPT !.sure = call[d] = Idle]]

Thread == [pc : Threads, active : BOOLEAN, canceled : BOOLEAN, sync : BOOLEAN, until : Nat,
           key : Runs \cup {NoRun}, delivered : SUBSET Marks, reconciled : BOOLEAN,
           seen : Row \cup {NoRow}, now : 0..Horizon, target : Runs \cup {NoRun}, mark : Marks,
           failed : BOOLEAN]
Call == [of : {"nobody", "start", "reconfigure", "edit"}, pc : Steps, then : {"end", "start", "sync"},
         sch : Row \cup {NoRow}, run : Runs \cup {NoRun}, awaited : Workers \cup {NoWorker},
         ok : BOOLEAN, sure : BOOLEAN]
(* What was delivered and reconciled is of the run that a worker looks after. *)
KeyIsSeen(w) == worker[w].pc \in {"noticing", "marking", "refreshing"} =>
    worker[w].seen.run # NoRun /\ worker[w].key = worker[w].seen.run

TypeOK ==
    /\ row \in Row \cup {NoRow} /\ ghost \in SUBSET (Row \cup {NoRow})
    /\ existed \in BOOLEAN /\ closing \in BOOLEAN /\ week \in Weeks /\ phase \in {"down", "up", "stopping"}
    /\ worker \in [Workers -> Thread] /\ \A w \in Workers : KeyIsSeen(w)
    /\ mapped \in Workers \cup {NoWorker} /\ holder \in Callers \cup {NoCaller}
    /\ call \in [Callers -> Call]
    /\ clock \in 0..Horizon /\ troubles \in 0..MaxTroubles
    /\ applied \in BOOLEAN /\ stranded \in BOOLEAN
    /\ sent \in [Notices -> Nat] /\ forgot \in [Notices -> Nat]

Init ==
    /\ row = NoRow \/ \E b, t \in BOOLEAN : row = [Regular(FirstPlan) EXCEPT !.posted = b, !.temp = t]
    /\ ghost = {} /\ existed = Exists(row) /\ closing = FALSE /\ week = FirstWeek
    /\ phase = "down" /\ worker = [w \in Workers |-> Gone] /\ mapped = NoWorker
    /\ call = [c \in Callers |-> Idle] /\ holder = NoCaller
    /\ clock = 0 /\ troubles = MaxTroubles
    /\ applied = FALSE /\ stranded = FALSE /\ sent = Never /\ forgot = Never

-----------------------------------------------------------------------------
(* nextRun: the first run that is not over; none within the model's        *)
(* horizon is NoRun.                                                       *)
NextRun(p, now) ==
    LET coming == {r \in Calendar[p][week] : now < ClosesAt[r]}
    IN IF coming = {} THEN NoRun ELSE CHOOSE r \in coming : \A q \in coming : OpensAt[r] <= OpensAt[q]

FiveMinutesBefore(r) == OpensAt[r] - 2
OneMinuteBefore(r) == OpensAt[r] - 1
DueAt == [five |-> [r \in Runs |-> FiveMinutesBefore(r)], one |-> [r \in Runs |-> OneMinuteBefore(r)]]
UselessAt == [five |-> [r \in Runs |-> OneMinuteBefore(r)], one |-> OpensAt]

(* keepRun *)
Keeps(s) ==
    \/ s.temp
    \/ s.run # NoRun /\ (OpensAt[s.run] <= clock \/ NextRun(s.plan, clock) = s.run)

-----------------------------------------------------------------------------
(* The worker: run, processActive, wait.                                   *)

Halted(w) == worker[w].canceled \/ phase = "stopping"
Fails(w) == Fault(Halted(w))
At(w, pc) == phase # "down" /\ worker[w].pc = pc
Set(w, fields) == worker' = [worker EXCEPT ![w] = fields ++ @]
IfMapped(w, active) == IF mapped = w THEN active ELSE worker[w].active

Rests(w, until) == Set(w, [pc |-> "waiting", until |-> until] ++ Round)
Leaves(w) == Set(w, [pc |-> "leaving"] ++ Round)
GivesUp(w) == Leaves(w)
Retries(w) == Set(w, [pc |-> "waiting", until |-> 0, sync |-> TRUE] ++ Round)
UnpreparedEnd(w) == Leaves(w)
Unprepared(w) == Set(w, [pc |-> "waiting", until |-> 0, sync |-> TRUE, active |-> IfMapped(w, FALSE)] ++ Round)
Quiet == UNCHANGED <<world, closing, lifecycle, applied, notices>>

(* With another run the notices are counted anew.                          *)
Recount == /\ sent' = IF row'.run = row.run THEN sent ELSE Never
           /\ forgot' = IF row'.run = row.run THEN forgot ELSE Never

(* A row without a run: its next run is prepared when it is due.           *)
Planned(w, s) ==
    LET next == NextRun(s.plan, clock)
        free == [active |-> IfMapped(w, FALSE), sync |-> FALSE, seen |-> s, now |-> clock]
    IN IF s.temp THEN Leaves(w)
       ELSE IF next = NoRun THEN Set(w, [pc |-> "waiting", until |-> Horizon + 1] ++ Round ++ free)
       ELSE IF clock < FiveMinutesBefore(next)
       THEN Set(w, [pc |-> "waiting", until |-> FiveMinutesBefore(next)] ++ Round ++ free)
       ELSE Set(w, [pc |-> "claiming", target |-> next] ++ free)

(* The time to wait is over: read the row.  SyncQueueState, after a        *)
(* failure and at first, waits for transactions in doubt, GetScheduleEntry *)
(* does not.                                                               *)
Read(w) ==
    /\ At(w, "waiting") /\ worker[w].until <= clock /\ ~Halted(w)
    /\ \/ Trouble /\ Retries(w)
       \/ /\ worker[w].sync => ghost = {}
          /\ UNCHANGED troubles
          /\ IF ~Exists(row) THEN Leaves(w)
             ELSE IF row.run # NoRun
             THEN Set(w, [pc |-> "claiming", seen |-> row, now |-> clock, sync |-> FALSE])
             ELSE IF row.posted THEN Set(w, [pc |-> "restoring", sync |-> FALSE])
             ELSE Planned(w, row)
    /\ Quiet /\ UNCHANGED <<row, ghost>>

CanceledInWait(w) ==
    /\ At(w, "waiting") /\ Halted(w)
    /\ Leaves(w)
    /\ Quiet /\ UNCHANGED <<row, ghost, troubles>>

(* restoreLegacy: the date of the message tells which run it was, opened   *)
(* or about to open, whatever the calendar says by now; or, with times     *)
(* edited since, it fits none.  A Reconfigure begun before a run was       *)
(* restored did not see it.                                                *)
Restored == IF Exists(row) THEN [row EXCEPT !.run = LegacyRun] ELSE row

RestoreLegacy(w) ==
    /\ At(w, "restoring")
    /\ \/ ~Exists(row) /\ Leaves(w) /\ UNCHANGED <<row, ghost, closing, troubles, applied, call>>
       \/ Exists(row) /\ Retries(w) /\ UNCHANGED <<row, ghost, closing, troubles, applied, call>>
       \/ /\ clock < ClosesAt[LegacyRun] /\ UNCHANGED closing
          /\ applied' = FALSE /\ call' = Unsure
          /\ \/ /\ Exists(row) /\ Write(Restored)
                /\ Set(w, [pc |-> "claiming", seen |-> Restored, now |-> clock])
             \/ Fails(w) /\ Lose(Restored) /\ Retries(w)
       \/ /\ Exists(row) /\ ClosesAt[LegacyRun] <= clock
          /\ \/ /\ Write(Ended) /\ closing' = FALSE
                /\ IF row.temp THEN Leaves(w) ELSE Planned(w, Ended)
             \/ Fails(w) /\ Lose(Ended) /\ closing' = TRUE /\ Retries(w)
          /\ UNCHANGED <<applied, call>>
    /\ Recount
    /\ UNCHANGED <<world, holder, mapped>>

(* processActive: what is to be done for a run, in this order.  A notice   *)
(* is due from its time on, the message from one minute before opening.    *)
Due(me, k) == k \notin me.seen.notified /\ DueAt[k][me.seen.run] <= me.now
Opened(me) == OpensAt[me.seen.run] <= me.now /\ "open" \notin me.seen.notified
NeedsRefresh(me) == /\ OneMinuteBefore(me.seen.run) <= me.now
                    /\ ~me.reconciled \/ ~me.seen.posted \/ Opened(me)

DutyAfter(me, done) ==
    IF done = "nothing" /\ Due(me, "five") THEN [pc |-> "noticing", mark |-> "five"]
    ELSE IF done \in {"nothing", "five"} /\ Due(me, "one") THEN [pc |-> "noticing", mark |-> "one"]
    ELSE IF done \in {"nothing", "five", "one"} /\ NeedsRefresh(me) THEN [pc |-> "refreshing"]
    ELSE IF done = "refresh" /\ Opened(me) THEN [pc |-> "marking", mark |-> "open"]
    ELSE [pc |-> "waiting", until |-> 0, sync |-> me.failed] ++ Round

(* The worker with these fields goes on to its next duty.                  *)
Proceeds(w, fields, done) ==
    \E me \in {fields ++ worker[w]} : worker' = [worker EXCEPT ![w] = DutyAfter(me, done) ++ me]

(* claimActive, then what processActive looks at first.                    *)
NewKey(w) == IF worker[w].key = worker[w].seen.run THEN <<>>
             ELSE [key |-> worker[w].seen.run, delivered |-> {}, reconciled |-> FALSE]

MayClaim(w) == ~Halted(w) /\ mapped = w

ClaimActive(w) ==
    /\ At(w, "claiming")
    /\ LET run == worker[w].seen.run IN
       IF ~MayClaim(w) THEN Leaves(w)
       ELSE IF run = NoRun THEN Set(w, [pc |-> "preparing", active |-> TRUE])
       ELSE IF ClosesAt[run] <= worker[w].now THEN Set(w, [pc |-> "closing", active |-> TRUE])
       ELSE Proceeds(w, [active |-> TRUE] ++ NewKey(w), "nothing")
    /\ Quiet /\ UNCHANGED <<row, ghost, troubles>>

Deleting == \E c \in Callers : call[c].pc = "delete"
(* Prepare begins the run unless the row has another run or an old message *)
(* or Close or Delete is not over.                                         *)
CanBegin(r) == Exists(row) /\ ~closing /\ ~Deleting /\ (row.run = r \/ (row.run = NoRun /\ ~row.posted))
Prepared(r) == IF row.run = r THEN row ELSE Begun(r)

Prepare(w) ==
    LET r == worker[w].target IN
    /\ At(w, "preparing")
    /\ \/ /\ CanBegin(r) /\ Write(Prepared(r))
          /\ Rests(w, 0)
       \/ CanBegin(r) /\ Fails(w) /\ Lose(Prepared(r)) /\ Unprepared(w)
       \/ ~CanBegin(r) /\ Unprepared(w) /\ UNCHANGED <<row, ghost, troubles>>
    /\ Recount
    /\ UNCHANGED <<world, closing, lifecycle, applied>>

(* Close; after a failure the service goes on trying by itself.            *)
Close(w) ==
    /\ At(w, "closing")
    /\ \/ /\ Write(Ended) /\ closing' = FALSE
          /\ IF worker[w].seen.temp THEN Leaves(w) ELSE Rests(w, 0)
       \/ Fails(w) /\ Lose(Ended) /\ closing' = TRUE /\ Retries(w)
    /\ UNCHANGED <<world, lifecycle, applied, notices>>

ServiceCloses ==
    /\ phase # "down" /\ closing
    /\ Write(Ended) /\ closing' = FALSE
    /\ UNCHANGED <<world, worker, lifecycle, applied, notices>>

(* A notice that is sent in time; one that is late, or was sent before, is *)
(* only marked.  The grace ends at some instant before the next event.     *)
InTime(me, k) == k \notin me.delivered /\ me.now < UselessAt[k][me.seen.run]
ToMarkOnly(w, k) == Set(w, [pc |-> "marking"])
ToMark(w, k) == Set(w, [pc |-> "marking", delivered |-> worker[w].delivered \cup {k}])
Failed == [failed |-> TRUE]

Notify(w) ==
    LET k == worker[w].mark IN
    /\ At(w, "noticing") /\ InTime(worker[w], k)
    /\ \/ ToMark(w, k) /\ sent' = [sent EXCEPT ![k] = @ + 1] /\ UNCHANGED troubles
       \/ Fails(w) /\ Proceeds(w, Failed, k) /\ UNCHANGED sent
    /\ UNCHANGED <<world, row, ghost, closing, lifecycle, applied, forgot>>

TooLate(w) ==
    /\ At(w, "noticing")
    /\ ToMark(w, worker[w].mark)
    /\ Quiet /\ UNCHANGED <<row, ghost, troubles>>

(* SetNotified5min, SetNotified1min, SetNotifiedOpen.                      *)
Mark(w) ==
    LET k == worker[w].mark IN
    /\ At(w, "marking")
    /\ \/ Write(Marked(k)) /\ Proceeds(w, <<>>, k)
       \/ Fails(w) /\ Lose(Marked(k)) /\ Proceeds(w, Failed, k)
    /\ Quiet

Refresh(w) ==
    /\ At(w, "refreshing")
    /\ \/ Write(Posted) /\ Proceeds(w, [reconciled |-> TRUE], "refresh")
       \/ Fails(w) /\ Lose(Posted) /\ Proceeds(w, Failed, "failed refresh")
    /\ Quiet

(* What a worker has sent and not marked in the row is forgotten with it.  *)
Unmarked(w) == IF row.run # NoRun /\ worker[w].key = row.run
               THEN {k \in worker[w].delivered \ row.notified : k \in Notices /\ forgot[k] < sent[k]}
               ELSE {}
Forgets(ws) ==
    forgot' = [k \in Notices |-> IF \E w \in ws : k \in Unmarked(w) THEN forgot[k] + 1 ELSE forgot[k]]

(* The deferred end of run: leave the map, close done.                     *)
Leave(w) ==
    /\ At(w, "leaving")
    /\ worker' = [worker EXCEPT ![w] = Gone]
    /\ mapped' = IF mapped = w THEN NoWorker ELSE mapped
    /\ Forgets({w})
    /\ UNCHANGED <<world, row, ghost, closing, call, holder, troubles, applied, sent>>

WorkerStep(w) ==
    \/ Read(w) \/ CanceledInWait(w) \/ RestoreLegacy(w) \/ ClaimActive(w) \/ Prepare(w) \/ Close(w)
    \/ Notify(w) \/ TooLate(w) \/ Mark(w) \/ Refresh(w) \/ Leave(w)

-----------------------------------------------------------------------------
(* The calls: what handlers change, and the scheduler under lifecycleMu.   *)

CallAt(c, pc) == phase # "down" /\ call[c].pc = pc
Goes(c, fields) == call' = [call EXCEPT ![c] = fields ++ @]
IsFree(c) == call[c] = Idle /\ c = CHOOSE d \in Callers : call[d] = Idle
Begins(c) == /\ phase = "up" /\ IsFree(c) /\ \A d \in Callers : call[d].of # "start"
             /\ Trouble
CallFails == Fault(phase = "stopping")
(* lifecycleMu is released and the call is over.                           *)
Ends(c, ok) ==
    /\ call' = [call EXCEPT ![c] = Idle]
    /\ holder' = NoCaller
    /\ applied' = (applied \/ (call[c].of = "reconfigure" /\ ok /\ call[c].sure))

(* A moderator saves settings; Reconfigure follows.                        *)
ChangeSettings(c) ==
    /\ Begins(c)
    /\ week' \in Weeks
    /\ call' = [Unsure EXCEPT ![c] = [Idle EXCEPT !.of = "reconfigure", !.pc = "list"]]
    /\ applied' = FALSE
    /\ UNCHANGED <<db, closing, phase, worker, mapped, holder, clock, notices, stranded>>

(* ChangeWeekType, ChangeWeekDay, HandleNewTime: store, read, reschedule.  *)
EditSchedule(c) ==
    /\ Begins(c)
    /\ Exists(row) /\ ~row.temp
    /\ \E p \in Plans \ {row.plan} :
          LET edited == [row EXCEPT !.plan = p] IN
          \/ /\ Stored(edited) /\ applied' = FALSE
             /\ call' = [Unsure EXCEPT ![c] = [Idle EXCEPT !.of = "edit", !.pc = "reread"]]
          \/ Lose(edited) /\ UNCHANGED <<call, applied>>
    /\ UNCHANGED <<existed, closing, week, phase, worker, mapped, holder, clock, notices, stranded>>

Reread(c) ==
    /\ CallAt(c, "reread")
    /\ \/ CallFails /\ Goes(c, Idle)
       \/ /\ Goes(c, IF Exists(row) /\ row.run = NoRun THEN [pc |-> "remove", sch |-> row] ELSE Idle)
          /\ UNCHANGED troubles
    /\ UNCHANGED <<world, row, ghost, closing, worker, mapped, holder, applied, notices>>

AddSchedule(c) ==
    /\ Begins(c)
    /\ ~existed /\ existed' = TRUE
    /\ \E p \in Plans :
          \/ Stored(Regular(p)) /\ Goes(c, [pc |-> "schedule", sch |-> Regular(p)])
          \/ Lose(Regular(p)) /\ UNCHANGED call
    /\ UNCHANGED <<closing, week, phase, worker, mapped, holder, clock, applied, notices, stranded>>

(* Delete owes Close first: what it has closed stays closed if it fails.   *)
DeleteSchedule(c) ==
    /\ Begins(c)
    /\ Exists(row) /\ ~row.temp
    /\ closing' = TRUE /\ Goes(c, [pc |-> "delete"])
    /\ UNCHANGED <<db, week, phase, worker, mapped, holder, clock, applied, notices, stranded>>

Delete(c) ==
    /\ CallAt(c, "delete")
    /\ \/ Write(NoRow) /\ closing' = FALSE /\ Goes(c, [pc |-> "remove"])
       \/ CallFails /\ Lose(Ended) /\ Goes(c, Idle) /\ UNCHANGED closing
       \/ /\ CallFails /\ ghost = {} /\ row' = Ended /\ ghost' \in {{}, {NoRow}}
          /\ closing' = FALSE /\ Goes(c, Idle)
    /\ UNCHANGED <<world, worker, mapped, holder, applied, notices>>

(* RunInstant: the row of a one-shot queue is stored with its run.         *)
RunInstant(c) ==
    /\ Begins(c) /\ ~existed /\ existed' = TRUE
    /\ holder = NoCaller
    /\ \E r \in Runs :
          LET s == [Regular(FirstPlan) EXCEPT !.temp = TRUE, !.run = r] IN
          /\ clock < OpensAt[r]
          /\ \/ /\ Stored(s)
                /\ holder' = c /\ Goes(c, [pc |-> "check", sch |-> s])
                /\ UNCHANGED stranded
             \/ /\ Lose(s) /\ stranded' = (ghost' # {})
                /\ UNCHANGED <<holder, call>>
    /\ Recount
    /\ UNCHANGED <<closing, week, phase, worker, mapped, clock, applied>>

(* stopWorker: cancel the worker and forget it, then wait until it is done.*)
Stops(c, fields) ==
    /\ worker' = IF mapped = NoWorker THEN worker ELSE [worker EXCEPT ![mapped].canceled = TRUE]
    /\ mapped' = NoWorker
    /\ Goes(c, [pc |-> "await", awaited |-> mapped] ++ fields)

NotAwaited(w) == TRUE
IsDone(w) == w # NoWorker => worker[w].pc = "gone"

RemoveSchedule(c) ==
    /\ CallAt(c, "remove") /\ holder = NoCaller /\ holder' = c
    /\ Stops(c, [then |-> "end"])
    /\ UNCHANGED <<world, row, ghost, closing, troubles, applied, notices>>

(* ScheduleNext and scheduleNext: a worker with a run is left alone;       *)
(* otherwise it is stopped, which begins with another look at the map.     *)
Busy(c) == mapped # NoWorker /\ (worker[mapped].active \/ call[c].sch.run # NoRun)

ScheduleNext(c) ==
    /\ \/ CallAt(c, "schedule") /\ holder = NoCaller
       \/ CallAt(c, "check")
    /\ IF Busy(c) THEN Ends(c, call[c].ok)
       ELSE Goes(c, [pc |-> "replace"]) /\ holder' = c /\ UNCHANGED applied
    /\ UNCHANGED <<world, row, ghost, closing, worker, mapped, troubles, notices>>

ReplaceWorker(c) ==
    /\ CallAt(c, "replace")
    /\ Stops(c, [then |-> "start"])
    /\ UNCHANGED <<world, row, ghost, closing, holder, troubles, applied, notices>>

WorkerStopped(c) ==
    /\ CallAt(c, "await") /\ IsDone(call[c].awaited)
    /\ \/ /\ call[c].then = "sync"
          /\ Goes(c, [pc |-> "sync", awaited |-> NoWorker]) /\ UNCHANGED <<holder, applied>>
       \/ /\ call[c].then = "end" /\ call[c].of = "edit"
          /\ Goes(c, [pc |-> "schedule", awaited |-> NoWorker])
          /\ holder' = NoCaller /\ UNCHANGED applied
       \/ call[c].then = "end" /\ call[c].of # "edit" /\ Ends(c, call[c].ok)
    /\ UNCHANGED <<world, row, ghost, closing, worker, mapped, troubles, notices>>

StartWorker(c) ==
    /\ CallAt(c, "await") /\ call[c].then = "start" /\ IsDone(call[c].awaited)
    /\ IF phase = "stopping"
         THEN UNCHANGED <<worker, mapped>>
         ELSE LET w == CHOOSE v \in Workers : worker[v].pc = "gone" IN
              /\ worker' = [worker EXCEPT ![w] = Spawned(call[c].sch.run # NoRun \/ call[c].sch.posted)]
              /\ mapped' = w
    /\ Ends(c, call[c].ok)
    /\ UNCHANGED <<world, row, ghost, closing, troubles, notices>>

(* Reconfigure: list the schedules, keep a run that is one-shot, has       *)
(* opened or is planned still; otherwise stop the worker, read again,      *)
(* cancel the run and start a new worker.  The worker of a schedule that   *)
(* is not listed is stopped.                                               *)
Reconfigure(c) ==
    /\ CallAt(c, "list") /\ holder = NoCaller
    /\ \/ CallFails /\ Ends(c, FALSE) /\ UNCHANGED <<worker, mapped>>
       \/ /\ Keeps(row)
          /\ Goes(c, [pc |-> "check", sch |-> row])
          /\ holder' = c /\ UNCHANGED <<worker, mapped, troubles, applied>>
       \/ /\ ~Keeps(row)
          /\ Goes(c, [pc |-> "stop", sch |-> row, then |-> IF Exists(row) THEN "sync" ELSE "end"])
          /\ holder' = c /\ UNCHANGED <<worker, mapped, troubles, applied>>
    /\ UNCHANGED <<world, row, ghost, closing, notices>>

StopListed(c) ==
    /\ CallAt(c, "stop")
    /\ Stops(c, <<>>)
    /\ UNCHANGED <<world, row, ghost, closing, holder, troubles, applied, notices>>

(* reconfigurePending: SyncQueueState sees also what the stopped worker    *)
(* left in doubt.                                                          *)
SyncAtOnce == TRUE
SyncWaits == ghost = {}

SyncPending(c) ==
    /\ CallAt(c, "sync")
    /\ \/ CallFails /\ Goes(c, [pc |-> "check", ok |-> FALSE]) /\ UNCHANGED <<holder, applied>>
       \/ /\ SyncWaits /\ ~Exists(row)
          /\ Ends(c, FALSE) /\ UNCHANGED troubles
       \/ /\ SyncWaits /\ Exists(row)
          /\ Goes(c, IF Keeps(row) \/ row.run = NoRun THEN [pc |-> "check", sch |-> row]
                     ELSE [pc |-> "cancel", run |-> row.run])
          /\ UNCHANGED <<holder, applied, troubles>>
    /\ UNCHANGED <<world, row, ghost, closing, worker, mapped, notices>>

(* CancelPending has nothing to do once the run has opened or is gone.     *)
Cancellable == Exists(row) /\ ~closing /\ ~row.temp /\ row.run # NoRun /\ clock < OpensAt[row.run]

CancelPending(c) ==
    /\ CallAt(c, "cancel")
    /\ LET failed == Goes(c, [pc |-> "refetch", ok |-> FALSE]) IN
       \/ Cancellable /\ row.run = call[c].run /\ Write(Ended) /\ Goes(c, [pc |-> "refetch"])
       \/ Cancellable /\ row.run = call[c].run /\ CallFails /\ Lose(Ended) /\ failed
       \/ /\ Cancellable => row.run # call[c].run
          /\ Goes(c, [pc |-> "refetch", ok |-> call[c].ok /\ ~Cancellable]) /\ UNCHANGED <<row, ghost, troubles>>
    /\ UNCHANGED <<world, closing, worker, mapped, holder, applied, notices>>

Refetch(c) ==
    /\ CallAt(c, "refetch")
    /\ \/ CallFails /\ Goes(c, [pc |-> "check", ok |-> FALSE]) /\ UNCHANGED <<holder, applied>>
       \/ Exists(row) /\ Goes(c, [pc |-> "check", sch |-> row]) /\ UNCHANGED <<holder, applied, troubles>>
       \/ ~Exists(row) /\ Ends(c, FALSE) /\ UNCHANGED troubles
    /\ UNCHANGED <<world, row, ghost, closing, worker, mapped, notices>>

CallStep(c) ==
    \/ Reread(c) \/ Delete(c) \/ RemoveSchedule(c) \/ ScheduleNext(c) \/ ReplaceWorker(c) \/ WorkerStopped(c) \/ StartWorker(c)
    \/ Reconfigure(c) \/ StopListed(c) \/ SyncPending(c) \/ CancelPending(c) \/ Refetch(c)

Change(c) == ChangeSettings(c) \/ EditSchedule(c) \/ AddSchedule(c) \/ DeleteSchedule(c) \/ RunInstant(c)

-----------------------------------------------------------------------------
(* main: Start before the handlers run; the context is cancelled; the      *)
(* process ends at any time after that, so also at once.                   *)
Start(c) ==
    /\ phase = "down" /\ phase' = "up" /\ IsFree(c)
    /\ IF Exists(row)
         THEN Goes(c, [of |-> "start", pc |-> "check", sch |-> row]) /\ holder' = c
         ELSE UNCHANGED <<call, holder>>
    /\ UNCHANGED <<db, closing, week, worker, mapped, clock, troubles, applied, notices, stranded>>

Shutdown ==
    /\ phase = "up" /\ phase' = "stopping" /\ Trouble
    /\ UNCHANGED <<db, closing, week, worker, lifecycle, clock, applied, notices, stranded>>

Exit ==
    /\ phase = "stopping" /\ phase' = "down"
    /\ worker' = [w \in Workers |-> Gone] /\ mapped' = NoWorker
    /\ call' = [c \in Callers |-> Idle] /\ holder' = NoCaller
    /\ closing' = FALSE /\ applied' = FALSE
    /\ Forgets(Workers)
    /\ UNCHANGED <<db, week, clock, troubles, sent, stranded>>

(* A COMMIT in doubt is decided; a plan that lands has not been applied.   *)
GhostLands ==
    /\ \E s \in ghost : row' \in {row, s}
    /\ ghost' = {}
    /\ applied' = (applied /\ row'.plan = row.plan)
    /\ call' = IF row'.plan = row.plan THEN call ELSE Unsure
    /\ Recount
    /\ UNCHANGED <<world, closing, worker, mapped, holder, troubles>>

Tick ==
    /\ clock < Horizon /\ clock' = clock + 1
    /\ UNCHANGED <<db, closing, week, phase, worker, lifecycle, troubles, applied, notices, stranded>>

Next ==
    \/ \E w \in Workers : WorkerStep(w)
    \/ \E c \in Callers : CallStep(c) \/ Change(c) \/ Start(c)
    \/ ServiceCloses \/ Shutdown \/ Exit \/ GhostLands \/ Tick

Spec == Init /\ [][Next]_vars

(* Goroutines run on, COMMITs are decided, time passes, and the process is *)
(* started again.                                                          *)
Fairness ==
    /\ \A w \in Workers : WF_vars(WorkerStep(w))
    /\ \A c \in Callers : WF_vars(CallStep(c))
    /\ WF_vars(\E c \in Callers : Start(c))
    /\ WF_vars(ServiceCloses) /\ WF_vars(Exit) /\ WF_vars(GhostLands) /\ WF_vars(Tick)

FairSpec == Spec /\ Fairness

-----------------------------------------------------------------------------
(* What QueueService takes for granted of its caller: one worker at a time *)
(* calls it for a schedule, and CancelPending is called when no worker     *)
(* does.                                                                   *)
CallsAreAlone ==
    LET calling == {w \in Workers : worker[w].pc \in ServiceCalls}
    IN /\ TypeOK
       /\ \A v, w \in calling : v = w
       /\ (\E c \in Callers : call[c].pc = "cancel") => calling = {}

(* A run is never left without somebody who will open and close it: it has *)
(* a worker, or a call on its way will start one.  A one-shot queue whose  *)
(* COMMIT was reported as failed is the exception.                         *)
LooksAfter(w) == worker[w].pc \notin {"gone", "leaving"} /\ ~worker[w].canceled
Brings(c) == call[c].pc \notin {"idle", "reread", "list"} /\ Exists(call[c].sch)
RunsHaveWorkers ==
    phase = "up" /\ row.run # NoRun /\ ~stranded =>
        (mapped # NoWorker /\ LooksAfter(mapped)) \/ \E c \in Callers : Brings(c)

(* Once Reconfigure has reported success, no run that has yet to open is   *)
(* one of an old calendar, unless it is about to be closed.  The run of an *)
(* old message, which is restored whatever the calendar says, is left      *)
(* alone until the next Reconfigure.                                       *)
SettingsApplied ==
    applied /\ ghost = {} /\ ~closing /\ row.run # NoRun /\ ~row.temp /\ clock < OpensAt[row.run] =>
        row.run \in Calendar[row.plan][week]

(* A notice is sent once for a run, also when storing its mark fails; it   *)
(* is repeated only by a successor of a worker that ended, by a stop or    *)
(* with the process, before the mark was stored, once for each of these.   *)
(* A sending reported as failed is tried again and not counted, although   *)
(* Telegram may have carried it out.                                       *)
NoticedOnce == \A k \in Notices : sent[k] <= 1 + forgot[k]

(* Every run that is stored is closed, or cancelled before it opens.       *)
RunsEnd == \A r \in Runs : row.run = r /\ ~stranded ~> row.run # r \/ stranded
=============================================================================
