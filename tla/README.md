# A verification development of queuebot

queuebot keeps queues in the topics of Telegram chats: at a scheduled time it
posts a message with numbered buttons, people take and leave places by pressing
them, and at closing time the message gets a final drawing.  This directory
models the parts of the program whose correctness depends on timing, failures
and concurrency, checks them with TLC on small instances and proves with TLAPS
what holds for every instance.  Paths below are relative to the root of the
repository (`src/`).

## Inventory

| part | state | operations | talks to |
|---|---|---|---|
| queue service `queue/service.go`, `render_lane.go` | per schedule: `queueState` (render lane, owed redraw, intents to close and delete, publication and cancellation in doubt, cleanups) | Prepare, Refresh, Close, Delete, CancelPending, Notify, LegacyMessageDate, Join, Leave, Complete, Swap, Repost, Active, Changed, the update workers | PostgreSQL (rows, advisory locks), Telegram (posting and editing), called by scheduler and handlers |
| rate limits `queue/ratelimit.go` | cooldown per chat | callHTTP | Telegram |
| dispatcher `dispatch/dispatch.go` | lanes, ready keys, counter, `changed` channel | Submit, worker, Shutdown | called by the middleware for every update; runs the handlers |
| schedule rows `db/schedule_repo.go` | table `schedules`: settings of a schedule, its run, its message | BeginQueueRun, SetLegacyQueueRunBounds, FinishQueueRun, SetQueueMessageID, SyncQueueState, AddTemporarySchedule | advisory locks of a queue and of a topic |
| queue entries `db/queue_repo.go`, `db/moderation_repo.go`, `queue/moderation.go` | tables `queue_entries`, `queue_rejoin_blocks` | join, leave, complete, swap, remove, block, unblock | the lock of the queue |
| scheduler `scheduler/scheduler.go` | a worker per schedule with its `active` mark | Start, ScheduleNext, RemoveSchedule, Reconfigure, RunInstant, the worker's loop | queue service, rows, settings |
| settings `settings/settings.go` | current values, stored values | Update, Values | read by everyone; its change calls Reconfigure |
| swap requests `handlers/swap_handlers.go` | map of pending requests | request, confirm, reject, expire | queue service |
| menus `handlers/menu_sessions.go` | sessions per owner, cleanup by generation (stored) | send, edit, close, retry, bootstrap, shutdown | Telegram, database |
| access, chats | tables of administrators, permissions and chats | add, remove, label, permission; remember, rename, default | handlers, queue service |
| calendar `utils/weekTypeForData.go`, `scheduler.nextRun` | none | week type of a date, next run of a schedule | scheduler |
| handlers' forms, wording, start-up, migrations | forms per user | navigation | not modelled, see below |

What is hard in this code: HTTP calls that take seconds and run outside the
mutex while the state changes; writes whose COMMIT was sent and whose answer was
lost; messages that were posted but whose identifier could not be stored; callers
that give up; settings that change while a run is announced; and coalescing of
redraws, where a forgotten one leaves people looking at an old list.  The
`hazards` of PROJECT.json list these places line by line.

## What is modelled

### QueueService: one schedule of the queue service

`QueueService.tla` follows `queue/service.go` and `queue/render_lane.go` for one
schedule; schedules do not share state, apart from the cooldown of their chat.

| in the model | in the code |
|---|---|
| `row` | the row of `schedules`, with a revision in place of its participants |
| `ghost` | a transaction whose COMMIT was sent and whose answer was lost |
| `mem` | `queueState.closing`, `deleting`, `publish`, `uncertain`, `publication`, `cancellation`, `cleanup` |
| `dirty`, `pending`, `inflight` | the fields of `queueState` of the same names |
| `op` | the goroutine that holds the render lane: where it stands and its local variables |
| `callers` | calls of Close and Delete that wait for the lane; `"restore"`: the scheduler's `restoreLegacy` between its call and its write |
| `msgs` | what each message of the chat shows |

`queueState.mu` makes each critical section one action; the HTTP calls between
them (`Edit`, `Send`, `CleanMessage`) are actions of their own, so callers,
people, the clock and the database move in between.  `Acquire` and `Started` are
the two halves of `startHTTP`, `Finish` is `finishHTTP`, `WorkerStarts` and
`WorkerDrops` are the pool's `worker`.  A write may apply, be rolled back, or
report an error while its COMMIT is still under way (`WriteFails`,
`DoubtfulWrite`, `GhostLands`), the bounds of a legacy run and DELETE too, after
whose errors the code notes no doubt (`Unnoted`).  Join, Leave, Complete and Swap have one shape at
this level: `active`, a transaction, `scheduleUpdate` (`Mutate`).  The scheduler
appears by its calls and by what it guarantees about them: one call at a time
(`SchedulerFree`), CancelPending only after the worker has stopped; that it keeps
this is checked in Scheduler (`CallsAreAlone`).

A row that an older version left has a message and no run; `restoreLegacy` asks
the service for the date of that message and then writes the run into the row
itself, past the service.  Between the two, and while a Delete waits for the lane,
a refresh may close the queue; the write still gives the row its run, because it
looks at neither the message nor `queueState`, and a Delete that then fails leaves
a closed message to be redrawn for that run.  `NeverRevived` and
`DeleteSparesRuns` name these exceptions, for rows of an older version only
(`MayBeLegacy`), so `replaced_runs`, which has none, checks them in full; with such
rows the run `two_failures` checks its own four, and the proofs cover the safety
properties of both.

Left out: a DELETE whose packets reach PostgreSQL only after the driver gave up on
it (here a late DELETE already holds the lock of the row, so that a run which is
begun waits for it), and a Telegram call that times out and is delivered later.

### Dispatcher: the pool that runs updates

`Dispatcher.tla` follows `dispatch/dispatch.go`: one action per critical section
of `Submit`, `worker` and `Shutdown`; the channel `changed`, which is closed and
replaced by `notify`, appears as the set of sleepers that have been woken.
`SerialLanes.tla` says what the dispatcher promises: per key, accepted actions
run one at a time in the order of acceptance, at most `Capacity` of them wait,
and none is accepted after closing.

### QueueEntries: who sits where

`Seating.tla` says what people are promised: one place each, marks that stay
with their owner, exchanges of pairs, removed people who stay out, a queue that
is emptied only between runs.  `QueueEntries.tla` follows the presses of
`queue/service.go`, the moderators' calls of `queue/moderation.go` and the
transactions of `db/queue_repo.go` and `db/moderation_repo.go`.

| in the model | in the code |
|---|---|
| `tables` | `queue_entries`, the unexpired `queue_rejoin_blocks`, run and message of the row in `schedules` |
| `ghost` | a transaction whose COMMIT was sent and whose answer was lost; it holds the lock of the queue |
| `uncertain`, `closing` | the fields of `queueState` |
| `noted` | an entry of `queueState.seen` whose press may be delivered again |
| `cause`, `answer` | history: the call that this step carried out, as its button named it, and the answer it gave; `AskedFor` compares the two with the mark that changed |

`queueState.mu` is held from the first read of a call to its answer, so a call is
one step; what it names (`Call`) was drawn earlier, so `PressOfTakenSeat`,
`ConfirmedSwap`, `RemovalByModerator` and `UnblockByModerator` try every entry
and block made so far, and every place and run.  `Transact` commits, is rolled
back, or leaves its outcome to `GhostLands`; `AnswersAreTrue` demands that an
answer is true of both outcomes.  `limits` picks one of two instances, so that one
run checks a crowd without moderators and moderators without a crowd.  An
observation: a press on a place that was left since it was drawn is answered with
`ErrNotJoined`, "you do not stand in this queue", also to a person who stands in it
elsewhere (`queue/service.go:23,755`); `AnswersAreTrue` speaks of the other answers.
The publication of messages, close and
cancellation are here only what they do to the tables; their order is
QueueService's matter.  Left out: the deletion of a schedule (it takes entries and
blocks with it), the migration of a queue from an older version, names, and the
ten minutes after which `seen` forgets a press.

### SwapRequests: asking to change places

`SwapRequests.tla` follows `handlers/swap_handlers.go`: one action per read of
`/swap` (nothing is locked between them), the sending of the question and its
entry into `pendingSwaps`; the claim of a button press, the checks of
`SwapConfirm`, `Service.Swap` as one step; the timer; the edit that shows the
result and the deletion five seconds later.  `handler` is the handler that runs
in the topic with its local variables: the dispatcher runs one at a time
(`SerialExecution`, proved in DispatcherProofs), which is why nobody can press "yes" between `Send` and
`Store`.  Timers, moderators, the end and the beginning of runs and a restart do
not wait for it.

### Scheduler: who looks after a run

`Scheduler.tla` follows `scheduler/scheduler.go` for one schedule, and the
handlers that call it.

| in the model | in the code |
|---|---|
| `row`, `ghost`, `existed` | the row of `schedules`, a transaction in doubt, whether its identifier was used |
| `worker` | the goroutine of `run` with its `scheduleWorker` (`active`, `key`, `delivered`, `reconciled`), its context (`canceled`) and the local variables of its round (`seen`, `now`, ...) |
| `mapped` | `Scheduler.workers[id]` |
| `holder` | `lifecycleMu` |
| `call` | the handler that changes something and then calls the scheduler, or `Start` |
| `closing` | `queueState.closing`: the service goes on closing by itself |
| `phase` | the process: down, up, or `Scheduler.ctx` cancelled |
| `applied`, `sent`, `forgot`, `stranded` | history for the properties: what Reconfigure last said; how often each notice of the stored run was sent, and how many workers ended without its mark; the exception of `RunsHaveWorkers` |

A call of the queue service or of the database is one step, which succeeds, fails,
or fails with an open COMMIT; `s.mu` makes the look at the map one step
(`ScheduleNext`, `Stops`, `ClaimActive`, `Leave`); reading the row and deciding
what to do with it touches nothing shared and is one step (`Read`).
`SyncQueueState` waits for transactions in doubt, `GetScheduleEntry` does not.
The order of `processActive` (five minutes, one minute, refresh, mark) is
`DutyAfter`.  `Exit` may follow `Shutdown` at once, so it also stands for a crash;
`Start` begins the next process.

`CallsAreAlone` is what QueueService assumes of its caller (`SchedulerFree`).
`RunsHaveWorkers` has one exception, `stranded`: when the answer to the COMMIT of
`RunInstant` is lost, the moderator is told that it failed, and the row has no
worker until the next Reconfigure or restart.  `SettingsApplied` does not speak of
a run that Close or Delete is already ending, which CancelPending leaves alone.
`restoreLegacy` gives an old row the run of its message whatever the calendar says,
also one that has yet to open (`scheduler/scheduler.go:548`);
`scheduler/scheduler_test.go:426` (`TestLegacyPublishedRunSurvivesChangedCalendarParity`)
wants it so.  Its write counts as a change: `applied` is false until the next
Reconfigure, and one that is under way can no longer promise (`Unsure`).
`NoticedOnce` counts what all workers sent of a run.  A second sending is allowed
only to the successor of a worker that ended, by a stop or with the process, before
its mark was in the row: only `delivered` knew (`Forgets`), so the code cannot do
better.  A sending that Telegram carried out although it was reported as failed is
not counted.

Left out: the errors of `nextRun` (rows with equal times or an unknown weekday
have no worker), the exclusion of two runs in a topic and the choice of the next
run (both in Timetable), `warnConflictingRuns`, the delays between retries, and several schedules: Reconfigure handles them one after
the other under `lifecycleMu`, and a failure of one does not end the loop.

### MenuSessions: every menu disappears

Service menus are messages with buttons that the bot posts for one person and
must delete afterwards.  `MenuSessions.tla` follows `handlers/menu_sessions.go`
and the table `menu_cleanup` for one owner.

| in the model | in the code |
|---|---|
| `shown` | the bot's messages on the owner's screen, with the generation in their buttons |
| `rows` | the table `menu_cleanup`, keyed by the identity of the message |
| `menu`, `expired` | the owner's entries of `menus`, `userState` and `editMessages`, which change together; the edit session has timed out |
| `cleanup` | `menuCleanup`, with `due` for a deadline that has passed |
| `op` | the section under `editActionMu` and `menusMu`: where it stands between two calls |
| `pressed`, `acted` | a press on its way; history: what it was carried out on |
| `up` | the process: up, stopping (`Shutdown`) or down |

`op` names the chain of calls that the code makes under its mutexes: a deletion is
`Note` (SaveMenuCleanup), `Delete` (Telegram), `Forget` (DeleteMenuCleanup) or
`Renote` (scheduleMenuRetryLocked), and goes on with what its caller does next; an
opening is `Send`, `Store`, `Draw`; a private menu that cannot be shown leaves a
note (`Notice`, `NoticeStore`) which is deleted like a menu.  Every call may fail
before or after it took effect.  An identity of an ephemeral message may be given
out again once its message is gone; identities of other messages are never used
twice.  `MenusGo` excepts only what nobody can know: a message whose identifier
did not arrive, or that a crash met before its row was stored.

Left out: redrawing a live menu (`editMenu` changes its text and none of this
state), the deadline that a redraw stores (`TouchMenuCleanup`; a restart may find
any deadline, passed or not), a shutdown that is itself cut short when it is the only
end of the process (`MaxStops` is 1), a bot without a database, a menu without its entry
of `menus`, which no path of the program leaves behind, and a statement
that PostgreSQL carries out only after a later one, long after its error was reported.

### Timetable: which run, which topic

Four modules say when a schedule runs and where.

| module | what it follows |
|---|---|
| `WeekCalendar` | `utils/weekTypeForData.go` and `nextRun`, `legacyRunBounds`, `runBounds` of `scheduler/scheduler.go`, as functions of dates and instants, with a reference definition that lists all runs |
| `Settings` | `settings/settings.go` over `runtime_settings`, and the two handlers that change the week of reference |
| `TopicSlots` | `db/schedule_repo.go` for several rows: the transactions that begin a run, step by step with their locks, and the statements that end, move, add and delete |
| `Timetable` | their composition: what the scheduler asks of the rows at each instant under the settings published then |

Dates are integers, 0 is a Monday; a day has `DayLength` instants and no hour is
skipped or repeated, as in Moscow since 2014.  `tx[s]` is the transaction that
begins a run of `s`: `ReadRow` locks queue and row, `LockTopic` waits for the
topic, `TopicAvailable` looks for an occupant, `Commit` stores the run under the
thread that the row has *then*, unless the unique index
`schedules_active_topic_unique` refuses it.  That index is never met (`ChecksHold`),
which matters because its error is not `ErrTopicBusy` and no caller expects it.
A transaction carries the run that the scheduler decided on before; settings and
clock may move until it commits, and `CancelPending` clears up.  `NextRun` and
`Update` only read and write what is published, so a run decided under old
settings is a behaviour of the model too.  Deleting and moving are not guarded by
the checks of the menu, so the model does more than the forms can.

An observation.  `ChangeThreadID` moves a row without a run to any topic.  A row of
an older version that still has a message occupies the topic it is moved to, even
when a run is there: until one of them ends `GetActiveScheduleByTopic` answers
`ErrMultipleActiveQueuesInThread` there (`db/schedule_repo.go:67`).  `TopicExclusive`
therefore speaks of runs, not of occupants.

Left out: `SaveSettings` that is carried out after its error was reported and
after a later Update, or after the load of the next process; one-shot queues in the
calendar, whose run is their row (`LegacyRunBounds` has their case, the reference
definition has not); a change of the weekday or the times of a schedule while it
runs (Scheduler has it as a change of the calendar); `BackfillChatIDs`; and chats: a
topic stands for a chat and a thread.

## Checks

| run | instance | what it shows |
|---|---|---|
| `replaced_runs` | 2 overlapping runs, clock 0–3, 3 messages, 1 change, 1 failure | A run is cancelled by changed settings and replaced by an overlapping one, with one failed call anywhere, also of the deletion of the row, whose late COMMIT nobody notes: no message, participant or closed drawing of the first leaks into the second, and no deletion takes a queue with it. |
| `two_failures` | 1 run of a regular or an old row, 4 messages, 1 change, 2 failures | Two calls fail (or two messages are deleted by people) anywhere in the life of one run, of a regular schedule or of a queue left by an older version: every live message stays accounted for, no owed redraw is lost and the final drawing has everybody, also when the bounds of the old queue's run or the deletion of the row are committed late. |
| `liveness` | 1 run, one-shot row, 1 failure, fairness | A one-shot queue, whose row disappears when it is finished: under fairness a requested close is carried out and an outdated drawing is redrawn, replaced or closed, whatever call fails once. |
| `cleanup_forgotten` | as `liveness` | (violation) A message noted for cleaning may stay live for ever: Close settles a rejected publication into the cleanup map but never cleans it. |
| `settings_return` | 1 run, 1 failure, settings may be changed back | (violation) When settings are changed back while a cancellation is in doubt, Prepare clears the doubt without settling it and the cancelled preview stays live. |
| `seats` | 3 people, 2 places, 1 run, 3 entries, repeated presses; and 2 people, 2 places, 2 runs, 2 entries, 2 blocks; 1 failure each | Three people compete for two places, swap them and press twice; two people and moderators with old menus, blocks and two runs; each with one lost COMMIT anywhere: one place each, true answers, places, marks and blocks change only by the presses that name them or as agreed, and the tables implement Seating. |
| `swap_requests` | 3 people, 2 places, 1 request, 2 messages of the queue, 3 entries, 1 failure or restart, fairness | Three people, one request, a failed call or a restart, and a queue that is closed, begun again or shown in a new message between any two steps: press and timer never both act, the shown result is what happened, only what was asked and agreed is exchanged, and a question that was remembered disappears or shows its result. |
| `dispatcher` | 5 actions, 2 keys, 3 workers, 2 places, fairness | Five presses under two keys, three workers, room for two: the inductive invariant (one key is served by one worker in order, nothing is lost or run twice, nobody sleeps through news, shutting down drains) holds, and it implements SerialLanes.  Under fairness of the workers every accepted action runs and after closing the pool ends with nobody left waiting. |
| `scheduler` | 1 row, 2 overlapping calendars of 2 runs and a run of an old message, 2 callers, 2 workers, clock 0–3, 2 troubles | Any two of: a handler changing settings, an edit, an addition, a deletion, a one-shot queue, a failing call, a shutdown; with restarts, between any two steps of the worker: nobody calls the queue service for a schedule beside its worker, every run has a worker, changed settings reach every run that has yet to open, and a notice is sent once, or once more by the successor of a worker that ended before its mark was stored.  The run of an old message, which opens later than the model begins and is in no calendar, is among the runs. |
| `scheduler_liveness` | as `scheduler`, clock 0–4, 1 trouble, fairness | Under fairness every run that is stored is closed, or cancelled before it opens, whatever call fails, is made or interrupted by a restart. |
| `menus` | 1 owner, 3 menus, 1 ephemeral identity, 2 failures, 1 crash or stop, fairness | One person opens three menus in public and in private, with two failures (a call that did or did not take effect) and one end of the process anywhere: every menu that Telegram shows will be deleted unless the process died before noting it, no retry deletes the live menu, a press changes the menu it was made on, and under fairness a menu that nobody uses disappears. |
| `timetable` | 3 rows in 2 topics for one evening; 1 row that crosses midnight through a fortnight, 1 change; the same from Sunday to Monday with 2 changes and restarts | Three queues take two topics in one evening while they are moved, added and deleted; a schedule that crosses midnight goes through a fortnight with a change of the settings; two changes fail or are interrupted by a restart from Sunday to Monday: a topic found free stays free until the run is stored, every next run is found, and readers, database and the button of the week agree. |

Why the instances are enough.  The hazards of QueueService need one failed call
at a chosen point, a second one while the first is being repaired, and a caller
or a person in between: `MaxFaults` is 2 in `two_failures` and 1 where two runs
multiply the states.  Two runs (`replaced_runs`) are enough
for something of one to leak into another; they overlap, as they do when the
settings of an announced run change, and the clock passes the beginning and the
end of both.  Revisions only matter by being equal or not, so one change per run
(`MaxRev`) suffices.  Identifiers of messages are reused once nothing refers to
them, so the set `Messages` only has to be larger than the number of references
that can exist at once: 3 with one failure, 4 with two; `Send` then always has an
identifier to hand out.  In QueueEntries two people suffice for a mark, a block or a place to end with
the wrong one, a third for a full queue and for an exchange that meets a
newcomer; one lost COMMIT is all that can be in doubt at a time, because the next
transaction waits for it.  Five actions under two keys let the dispatcher fill its
queue of two, keep a caller waiting and have three workers compete for lanes.
Scheduler needs one change that is interrupted by one failure, another change or a
restart: `MaxTroubles` is 2, and 1 for liveness, where a failure is the
interruption.  A third run is that of the old message: it is the first, opens after the
model begins and is in no calendar, so a legacy run that has yet to open and
that the settings do not know is among the behaviours.  A worker that was stopped is waited for under `lifecycleMu` before
the next is started, so two `Workers` would show any overlap, and two `Callers`
any race for the mutex.  The clock distinguishes the instants between which
something becomes due for one of two runs; the second run opens when the first
closes, and changed settings or times exchange them.
MenuSessions needs a menu, the one that replaces it and one more that may get an
identity again, a failed call and another while it is being retried, and one end of
the process.  Timetable takes three instances: three rows in two topics are the
fewest that let a transaction wait for the lock of one topic while another row is
moved there; the fortnight is the distance nextRun looks ahead, from each of its
instants; and from Sunday to Monday the current week changes.  `RunsAreFound` is
evaluated for every weekday, type of week and pair of times.
`CHECK_DEADLOCK FALSE` stands in the dispatcher's configurations because the pool
stops after `Shutdown`, in that of SwapRequests because nobody has to ask, in that
of MenuSessions because the bounded number of menus may be used up, and in those of
Scheduler and Timetable because the clock ends.

Fairness.  `QueueService!FairSpec`: the holder of the lane is a goroutine whose
calls have time-outs, so it moves on (weak fairness of `OperationStep`);
PostgreSQL ends every transaction (`GhostLands`); a caller that waits for the
lane gets it or times out.  A job of the worker pool competes for the lane with
calls that come seconds apart, and after losing is put back by `finishHTTP`, so it
is not beaten for ever (strong fairness of `WorkerStarts`).  People, the clock and
the scheduler's own calls are not fair.  `Dispatcher!FairSpec` assumes only that
workers which can move do move.  `SwapRequests!FairSpec` assumes that handlers move
on (their calls have time-outs), that time passes and timers fire; nobody has to
answer.  `Scheduler!FairSpec`: goroutines run on, because what they wait for has a
time-out or is a worker that was cancelled; PostgreSQL ends transactions; the
update workers of the service repeat a close that they owe (`ServiceCloses`,
`CloseCompletes` of QueueService); time passes; and a process that ended is started
again (`restart: unless-stopped` in `docker-compose.yml`).  `MenuSessions!FairSpec`: a
section that has begun goes on, because its calls have time-outs; the tickers of
expired menus and of pending deletions come again (`handlers/menu_sessions.go:402-506`);
deadlines pass; a shutdown ends and the process is started again.  The owner, who
opens, closes and presses, is not fair.

### Disagreements between the code and its tests or texts

* `cleanup_forgotten`: `close` settles a rejected publication into
  `state.cleanup` and never cleans it; when the run is over no redraw is owed and
  the message keeps its live buttons.  `recovery_integration_test.go:153,193`
  says that such an orphan is closed.
* `settings_return`: `Prepare` clears the doubt about the row without settling the
  cancellation in doubt.  If settings are changed back before the retry, the
  preview that was cancelled stays live although the row has lost its identifier;
  `recovery_integration_test.go:274` says it is closed.  The other runs set
  `SettingsReturn = FALSE`, which excludes just this behaviour.

## Proofs

`DispatcherProofs` proves the inductive invariant `IInv` of the dispatcher (types;
a key is ready or running, never both, exactly when its lane has work; the counter
counts; sleepers are woken; after the end nothing is left), and from it each
safety property and `Refinement`: every step of the dispatcher is a step of
`SerialLanes` or a stutter, for any number of actions, keys, workers and places.
It is needed because none of these properties is inductive alone: that one key has
one worker depends on the lists of ready keys, which depend on the lanes.

`QueueServiceProofs` does the same for one schedule, from the assumption
`ServiceAssumption` only (runs open before they close; identifiers are positive).
`MessageOfItsRun` by itself is not inductive: a publication in flight or a lane
holder with an old snapshot could break it.  So `IInv` says in addition that while
the lane holder draws a live message the row is still in the run it draws
(`DrawsTheRun`: no caller can end or begin a run without the lane, and no late
COMMIT that could is in flight, because reads wait for it, except a late DELETE,
which finds nothing to draw), what a late COMMIT may
do (`LateWrites`), that nobody has a place before the opening
(`EmptyBeforeOpening`), that a row without a run has nobody and a deleted row has
nothing (`GoneIsEmpty`), and that a close under way is asked for or finds nothing
to close (`CloseIsMeant`).  `DoubtIsRemembered`, its part about doubts, excepts the two
writes of which the code keeps no note; what protects the row from those is what
they can do: DELETE is sent only for a row without message and people, and the
bounds only enter a row without a run.  There is one lemma per action; steps of the lane holder
that only move on share `TouchStep`.  `EndOfRun` then gives `CancelLosesNobody`,
which speaks of those who joined through this version, and `DeleteSparesRuns`: a
deleted regular row has no message, nobody, and no run that the service began.

Two more invariants rest on `IInv`.  `Pictures` follows the messages in the chat: the
current one is as fresh as the row, or a redrawing is owed, under way or will be
retried (`PictureIsFresh`, `Covered`); while somebody draws, the current message is
the one of his snapshot and nothing is in doubt (`DrawsTheMessage`); a late COMMIT
finds its doubt still remembered (`LateIsRemembered`); the final drawing is taken when
nobody can join any more (`FinalIsComplete`).  It gives `FreshWhenQuiet`,
`NeverRevived` and `FinalPictureComplete` from `ServiceAssumption` alone.  `Accounts`
adds what is needed for `NoOrphan`: the cancellation in doubt is that of the run in
the row, or the row has no message (`CancellationFits`), so that settling the doubts
marks every message it forgets (`ResolvingAccounts`).  Its theorem assumes
`~SettingsReturn`, without which the property is false: the run `settings_return`
shows that.

`TopicSlotsProofs` proves `TopicInv` from `TopicAssumption`.  That two runs never share
a topic is not inductive: the test and the update are two steps, and what keeps the
topic free between them is that the row is locked (`RowsAreKept`), that the lock of a
topic has one holder (`LocksAreExclusive`) and that the others who could bring a run
there need it (`CheckedStaysFree`).  The proof does not use the unique index; it
follows from `TopicInv` that the index is never met (`ChecksHoldAlways`).
`RowWritten` and `TxWritten` treat a step by the one row or transaction it writes.

`TimetableProofs` shows that every step of Timetable is a step of TopicSlots or a
stutter (`ImplementsTopicSlots`), so the topics need no second proof; that the types
of weeks alternate over all integers (`WeeksAlternate`); and `SettingsAgree` and
`WeekChoiceHolds`, the former with the strengthening that an Update about to publish
has been stored (`StoredFirst`).  `RunsAreFound` is proved for every setting and
instant, not only those the clock reaches (`CalendarIsRight`): runs of a slot are on
days whose ends are ordered as the days are, every fortnight has one, so the window
that the code searches holds a run that has not closed, and a set of integers
bounded below has a least element.  It needs `CalendarAssumption`: the margin of
`NextRun` is at most a day (a minute, `scheduler/scheduler.go:548`).

`QueueEntriesProofs` proves `OneSeatEach` and `BlockedStayOut` from
`EntriesAssumption`, by an invariant (`SeatsInv`) about every outcome: the tables as
they are and as a transaction in doubt would leave them.  It adds that identifiers
of entries stay below their sequence, without which a new entry could share one.
What each transaction writes is sound (`SeatedSound`, `MarkedSound`,
`ExchangedSound`, `RemovedSound`, `FewerSound`); what a transaction that commits,
fails or loses its answer does to the invariant is said once (`TransactInv`), and
it is there that the lock counts: a new transaction begins only when none is in
doubt, so the outcomes are always sound against the tables they were computed from.
The action properties follow from what a step can do to the tables, one of eight
changes (`Does`), each of which keeps places, blocks and marks as they promise; the
same eight changes map to steps of Seating, which is the refinement
(`SeatingStep`).  `AnswersAreTrue` needs that whoever is told something while a
transaction is in doubt is told that it is (`DoubtIsKnown`).

`SwapRequestsProofs` proves all properties of the swap requests.  The key is that a
message keeps the request as it was asked: a request in memory, in a hand or on the
screen with one identifier is one request, a request that is held still has the
message that asks, and it was not exchanged yet.  Then whoever takes it out of
memory is the only one to answer it.

`SchedulerProofs` proves `CallsAreAlone`, `RunsHaveWorkers`, `NoticedOnce` and
`SettingsApplied` from `SchedulerAssumption`.  For the first, a goroutine that is not gone is the one in
the map or the one that `stopWorker` awaits, and only the holder of `lifecycleMu`
changes the map (`Alone`).  For the second (`Tended`): what the row and a COMMIT in
doubt can hold, that a mapped worker leaves only when no run is left to it, and
that a call that has stopped a worker carries the row that it will start one for.
An interrupted one-shot that is given up is the exception the code makes, and
`RunsHaveWorkers` names it.
`NoticedOnce` follows from what a worker remembers (`Knows`): what was sent of the
stored run, and not forgotten with a worker, is marked in the row that it has read,
or in its `delivered` for that run; and when the worker ends, what only it knew is
counted as forgotten (`Told`).  A row in doubt has the marks of the row it replaces, or begins or ends the run;
while one may begin a run the worker waits, with `sync` set, so that it reads only
what was decided.
`SettingsApplied` is about calls that overlap, for any calendars and any run of an
old message: it rests on which calls of
Reconfigure may still report success (`Promises`) and on what each has made true
before it may (`Settled`): the row and what a COMMIT in doubt may leave have a run
of the calendar, and so has the worker that is about to begin one (`AimsFit`, which
is why a worker is stopped before the run is cancelled).  Cancelling is safe because
`SyncQueueState` has waited for what was in doubt (`CancelIsSure`); a run that is
restored takes back every promise (`RestoredSettles`).

`MenuSessionsProofs` proves `Accounted`, `LiveMenuIsSafe` and `PressesHitTheirMenu`
from `MenuAssumption`.  None of them is inductive: what may be forgotten depends on
where the section that runs stands.  `MenuInv` adds that a generation names one
message and that of a message of the chat is its number (`Generated`, `Numbered`),
what holds between the calls of a section (`Sections`: before a menu is stored no
deletion of its identity is noted, before its note is dropped it is off the screen),
and what a process that ended leaves (`Stopped`).  One lemma per action; the three
ways a call can end share theirs.

Only model-checked: liveness, which is out of the prover's reach.

## Not modelled

* What a crash does to the queue service: its memory is lost by design, and the
  plan below has a composition that says exactly what that costs.  Restarts are in
  Scheduler, SwapRequests, MenuSessions and Timetable.
* Drawings that arrive late: an edit whose answer was lost is applied at once or
  never in the model, not after the next edit.
* A message whose identifier never arrived: nobody can refer to it, and `active`
  refuses presses on it; it is not counted among `Messages`.
* The lengths of delays (cooldowns, debounce, time-outs): they only decide when a
  step happens.
* Access control and known chats: tables that single transactions write and every
  handler reads again.  What a permission that is gone does to an open menu is in
  QueueEntries and MenuSessions.
* Forms, wording, navigation, start-up and migrations.

## Plan

Done so far: the inventory, `SerialLanes`, `Dispatcher`, `QueueService`, `Seating`,
`QueueEntries`, `SwapRequests`, `Scheduler`, `MenuSessions`, and `Timetable` with
`WeekCalendar`, `Settings` and `TopicSlots`, their runs, and the proofs above.  Next, in this order:

1. A composition of scheduler and queue service with crashes and restarts, and
   the order of shutdown: what exactly is lost with the memory of the service.
2. `Access` (`access/service.go`): the protected role of the developer while
   administrators are added and removed.
