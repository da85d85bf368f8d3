---------------------------- MODULE QueueService ----------------------------
(***************************************************************************)
(* queue/service.go and queue/render_lane.go: the state machine that the   *)
(* service keeps for ONE schedule.  States of different schedules are      *)
(* independent, except for the rate-limit cooldown of their chat, which    *)
(* only adds failed HTTP calls and delays.                                 *)
(*                                                                         *)
(* Three parties move: callers (the scheduler, the Telegram handlers), the *)
(* pool of update workers, and the outside world (PostgreSQL, Telegram,    *)
(* the clock).  queueState.mu makes each critical section one step.  The   *)
(* HTTP calls run outside mu, under the render lane: a channel of capacity *)
(* one that a single operation holds from startHTTP to finishHTTP.         *)
(***************************************************************************)
EXTENDS Integers, FiniteSets

CONSTANTS
    Runs,        \* the runs the scheduler may ask for (opensAt and closesAt identify one)
    OpensAt,     \* OpensAt[r]: the instant run r opens
    ClosesAt,    \* ClosesAt[r]: the instant run r closes
    MaxClock,    \* bound: the last instant of the clock
    Messages,    \* Telegram message identifiers, a bounded set of positive numbers
    MaxRev,      \* bound: accepted changes of the participants per run
    MaxFaults,   \* bound: failed calls and deletions by people per behaviour
    Starts,      \* the kinds of row a behaviour may start from
    SettingsReturn  \* may settings be changed back at once, so that a run is prepared
                    \* again while the outcome of its cancellation is still in doubt

NoRun == 0
NoMessage == 0
StartKinds == {"scheduled", "temporary", "legacy"}

ASSUME ServiceAssumption ==
    /\ Runs \subseteq Nat \ {0}
    /\ OpensAt \in [Runs -> Nat]
    /\ ClosesAt \in [Runs -> Nat]
    /\ \A r \in Runs : OpensAt[r] < ClosesAt[r]
    /\ Messages \subseteq Nat \ {0}
    /\ 1 \in Messages
    /\ MaxClock \in Nat /\ MaxRev \in Nat \ {0} /\ MaxFaults \in Nat
    /\ Starts \subseteq StartKinds
    /\ SettingsReturn \in BOOLEAN

VARIABLES
    row,       \* the row of the schedule with its participants' revision
    ghost,     \* a transaction whose COMMIT was sent and whose fate is unknown
    mem,       \* the guarded fields of queueState that the lane does not schedule by
    dirty,     \* queueState.dirty: a render is owed
    pending,   \* queueState.pending: a timer or a job for the worker pool exists
    inflight,  \* queueState.inflight
    op,        \* the operation that holds the render lane, with its local variables
    callers,   \* calls of Close and Delete that wait for the lane; "restore" is the
               \* scheduler's restoreLegacy between its call and its write
    msgs,      \* what the chat shows
    clock,     \* time.Now, in the units of OpensAt and ClosesAt
    faults     \* failures left to the environment

db == <<row, ghost>>
wake == <<dirty, pending>>
vars == <<row, ghost, mem, dirty, pending, inflight, op, callers, msgs, clock, faults>>

-----------------------------------------------------------------------------
(* Records.                                                                *)

Run0 == Runs \cup {NoRun}
Message0 == Messages \cup {NoMessage}
Revisions == 0..MaxRev

Row == [exists : BOOLEAN, run : Run0, mes : Message0, rev : Revisions, temp : BOOLEAN]

(* Snapshot: the run and the participants a message is drawn from, the     *)
(* message that was current, and whether the drawing accepts buttons       *)
(* (QueuePending and QueueOpen) or not (QueueClosed).                      *)
Snapshot == [run : Run0, rev : Revisions, mes : Message0, live : BOOLEAN]
NoSnap == [run |-> NoRun, rev |-> 0, mes |-> NoMessage, live |-> FALSE]
SnapshotOf(r, live) == [run |-> r.run, rev |-> r.rev, mes |-> r.mes, live |-> live]

Publication == [mes : Message0, prev : Message0]
NoPublication == [mes |-> NoMessage, prev |-> NoMessage]

Memory == [closing : BOOLEAN, deleting : BOOLEAN, publish : BOOLEAN, uncertain : BOOLEAN,
           publication : Publication, cancellation : Snapshot,
           cleanup : [Messages -> {"none", "retire", "close"}]]

Ghost == [kind : {"none", "begin", "bounds", "publish", "finish", "mutate", "delete"}, run : Run0, mes : Message0]
NoGhost == [kind |-> "none", run |-> NoRun, mes |-> NoMessage]

Kinds == {"prepare", "refresh", "repost", "close", "delete", "notify", "legacyDate", "cancel", "update"}
Capturing == {"refresh", "repost", "close", "delete"}
RetryingButUpdates == {"refresh", "repost", "close", "delete", "cancel"}
Retrying == {"refresh", "repost", "close", "delete", "cancel", "update"}
SchedulerKinds == {"prepare", "close", "notify", "legacyDate", "cancel"}
Places == {"idle", "acquired", "prepare", "refresh", "repost", "render", "edit", "recheck", "send",
           "persist", "cleanup", "cleaning", "close", "finishRun", "deleteRow",
           "cancel", "notify", "legacyDate", "done"}

Operation == [kind : Kinds \cup {"none"}, at : Places, run : Run0, ref : Message0, snap : Snapshot,
              sent : Message0, todo : SUBSET Messages, result : {"ok", "error", "norows"}]
NoOp == [kind |-> "none", at |-> "idle", run |-> NoRun, ref |-> NoMessage, snap |-> NoSnap,
         sent |-> NoMessage, todo |-> {}, result |-> "ok"]

(* A message with an identifier.  One that was posted while the answer got *)
(* lost has none: nobody can touch it again, and a press on it (NoMessage) *)
(* is refused as stale.                                                    *)
Message == [show : {"unsent", "live", "closed", "retired", "missing"}, run : Run0, rev : Revisions]

TypeOK ==
    /\ row \in Row
    /\ ghost \in Ghost
    /\ mem \in Memory
    /\ dirty \in BOOLEAN
    /\ pending \in BOOLEAN
    /\ inflight \in BOOLEAN
    /\ op \in Operation
    /\ callers \in SUBSET {"close", "delete", "restore"}
    /\ msgs \in [Messages -> Message]
    /\ clock \in Nat
    /\ faults \in Nat

-----------------------------------------------------------------------------
(* The database: what each transaction does to the row (db/*_repo.go).     *)

GoneRow == [exists |-> FALSE, run |-> NoRun, mes |-> NoMessage, rev |-> 0, temp |-> row.temp]

(* BeginQueueRun refuses a row that runs another run or still shows a      *)
(* message; asking again for the run it already has changes nothing.       *)
RunConflict(r) == IF row.run = NoRun THEN row.mes # NoMessage ELSE row.run # r

BegunRow(r) == IF row.run = r THEN row ELSE [row EXCEPT !.run = r, !.mes = NoMessage, !.rev = 0]

FinishedRowKeepingMessage == IF row.temp THEN GoneRow ELSE [row EXCEPT !.run = NoRun, !.rev = 0]
FinishedRowKeepingRun == IF row.temp THEN GoneRow ELSE [row EXCEPT !.mes = NoMessage, !.rev = 0]
FinishedRow == IF row.temp THEN GoneRow
               ELSE [row EXCEPT !.run = NoRun, !.mes = NoMessage, !.rev = 0]

PublishedRow(m) == IF row.exists THEN [row EXCEPT !.mes = m] ELSE row

MutatedRow == [row EXCEPT !.rev = @ + 1]

(* SetLegacyQueueRunBounds keeps the message and the participants.         *)
BoundRow(r) == IF row.exists /\ row.run = NoRun THEN [row EXCEPT !.run = r] ELSE row

GhostRow == CASE ghost.kind = "begin"   -> BegunRow(ghost.run)
              [] ghost.kind = "bounds"  -> BoundRow(ghost.run)
              [] ghost.kind = "delete"  -> GoneRow
              [] ghost.kind = "publish" -> PublishedRow(ghost.mes)
              [] ghost.kind = "finish"  -> FinishedRow
              [] ghost.kind = "mutate"  -> MutatedRow
              [] OTHER -> row

(* A failure the environment may still cause.                              *)
Fault == faults > 0 /\ faults' = faults - 1

(* A write reports an error: it was rolled back, or its COMMIT is on its   *)
(* way while the transaction keeps the advisory lock of the queue (DELETE  *)
(* keeps the lock of the row, which every other write needs).              *)
WriteFails(g) == /\ Fault
                 /\ ghost' \in {ghost} \cup IF ghost = NoGhost THEN {g} ELSE {}
                 /\ UNCHANGED row

(* The same for a write whose outcome the service reads back at once: it   *)
(* may already have been applied.                                          *)
DoubtfulWrite(g, r) ==
    \/ ghost = NoGhost /\ ghost' = g /\ UNCHANGED row
    \/ ghost = NoGhost /\ row' = r /\ UNCHANGED ghost
    \/ UNCHANGED <<row, ghost>>

(* A write succeeds: it had to take the advisory lock first.               *)
WriteApplies(r) == ghost = NoGhost /\ row' = r /\ UNCHANGED <<ghost, faults>>

-----------------------------------------------------------------------------
(* Helpers of queue/service.go.                                            *)

Active(r) == r.exists /\ r.run # NoRun /\ clock < ClosesAt[r.run]

(* readSchedule succeeds: after a doubtful write it goes through           *)
(* SyncQueueState, which waits for the advisory lock and so for the        *)
(* write's fate; DELETE alone does not take that lock.                     *)
CanRead == mem.uncertain => ghost.kind \in {"none", "delete"}

(* resolveWrites, on the memory m left by readSchedule, for the row r.     *)
(* A publication in doubt is the current message, or an orphan to close.   *)
Landed(m, r) == m.publication # NoPublication /\ r.exists /\ r.mes = m.publication.mes

LostUnnoticed(m, r) == FALSE
Lost(m, r) == m.publication # NoPublication /\ ~Landed(m, r)

ResolveWrites(m, r) ==
    LET landed == Landed(m, r)
        lost == Lost(m, r)
        canceled == /\ m.cancellation # NoSnap
                    /\ ~(r.exists /\ r.run # NoRun /\ r.run = m.cancellation.run)
    IN [m EXCEPT !.publish = @ /\ ~landed,
                 !.publication = NoPublication,
                 !.cancellation = NoSnap,
                 !.cleanup = [i \in Messages |->
                    IF canceled /\ i = m.cancellation.mes THEN "close"
                    ELSE IF landed /\ i = m.publication.prev THEN "retire"
                    ELSE IF lost /\ i = m.publication.mes THEN "close"
                    ELSE m.cleanup[i]]]

Synced == [mem EXCEPT !.uncertain = FALSE]
Doubtful == [mem EXCEPT !.uncertain = TRUE]

Settled == ResolveWrites(Synced, row)

(* The guard of active and Prepare: no intent to close or delete.          *)
ReceptiveWhileClosing == ~mem.deleting
Receptive == ~mem.closing /\ ~mem.deleting

(* reconcileWrites, after the write that left memory m: the read back may  *)
(* fail, and does while the write is still in flight.                      *)
ReconcileAtOnce(m) == {m, ResolveWrites([m EXCEPT !.uncertain = FALSE], row')}
ReconcileWrites(m) ==
    {m} \cup IF ghost' = NoGhost THEN {ResolveWrites([m EXCEPT !.uncertain = FALSE], row')} ELSE {}

(* scheduleUpdate: mark the render as owed; unless a job exists or an      *)
(* operation is in flight (its finishHTTP will look), start a timer.       *)
ScheduleUpdate == dirty' = TRUE /\ pending' = (pending \/ ~inflight)

Goto(place) == op' = [op EXCEPT !.at = place]
Ended(place, result) == [NoOp EXCEPT !.kind = op.kind, !.at = place, !.result = result]
Return(result) == op' = Ended("done", result)
ToFinishRun == op' = Ended("finishRun", "ok")
ToCleanup(result) == op' = Ended("cleanup", result)
At(place) == op.at = place

(* Most steps of the lane holder leave these alone.                        *)
Aside == UNCHANGED <<inflight, callers, clock>>

(* What a drawing of s makes of message m; which run a closed message      *)
(* belonged to no longer matters, nor what a dead one shows.               *)
Drawn(m, s) == [msgs EXCEPT ![m] = IF s.live THEN [show |-> "live", run |-> s.run, rev |-> s.rev]
                                   ELSE [show |-> "closed", run |-> NoRun, rev |-> s.rev]]
Dead(show) == [show |-> show, run |-> NoRun, rev |-> 0]

(* Identifiers nothing refers to any more stand for the fresh ones that    *)
(* Telegram would hand out, so that a bounded set is enough.               *)
Referenced == {row.mes, ghost.mes, mem.publication.mes, mem.publication.prev, mem.cancellation.mes,
               op.ref, op.snap.mes, op.sent} \cup {m \in Messages : mem.cleanup[m] # "none"}
Fresh == {m \in Messages : msgs[m].show # "live" /\ m \notin Referenced}
IsFresh(m) == m \in Fresh /\ \A n \in Fresh : m <= n

-----------------------------------------------------------------------------
(* Initial rows: a plain schedule, a one-shot queue that RunInstant        *)
(* inserts with its run, or a queue of an older version, which shows a     *)
(* message and has participants but no run; the revisions count what       *)
(* changes from then on.                                                   *)

StartRow(start, r) ==
    CASE start = "scheduled" -> [exists |-> TRUE, run |-> NoRun, mes |-> NoMessage, rev |-> 0, temp |-> FALSE]
      [] start = "temporary" -> [exists |-> TRUE, run |-> r, mes |-> NoMessage, rev |-> 0, temp |-> TRUE]
      [] start = "legacy"    -> [exists |-> TRUE, run |-> NoRun, mes |-> 1, rev |-> 0, temp |-> FALSE]

FreshMemory == [closing |-> FALSE, deleting |-> FALSE, publish |-> FALSE, uncertain |-> FALSE,
                publication |-> NoPublication, cancellation |-> NoSnap,
                cleanup |-> [m \in Messages |-> "none"]]

Init ==
    /\ \E start \in Starts, r \in Runs :
          /\ row = StartRow(start, r)
          /\ msgs = [m \in Messages |->
                [show |-> IF start = "legacy" /\ m = 1 THEN "live" ELSE "unsent",
                 run |-> NoRun, rev |-> 0]]
    /\ ghost = NoGhost
    /\ mem = FreshMemory
    /\ dirty = FALSE /\ pending = FALSE /\ inflight = FALSE
    /\ op = NoOp
    /\ callers = {}
    /\ clock = 0
    /\ faults = MaxFaults

-----------------------------------------------------------------------------
(* The lane.                                                               *)

(* One scheduler worker drives a schedule, one call at a time; CancelPending *)
(* is called after that worker has stopped.                                *)
SchedulerFree == callers \cap {"close", "restore"} = {} /\ op.kind \notin SchedulerKinds

(* startHTTP, first half: the channel accepts the token of this caller.    *)
(* Callers that were turned away by their timeout have changed nothing.    *)
Acquire(kind, r, m) ==
    /\ op = NoOp
    /\ op' = [NoOp EXCEPT !.kind = kind, !.at = "acquired", !.run = r, !.ref = m]
    /\ UNCHANGED <<db, mem, wake, inflight, msgs, clock, faults>>

AcquirePrepare(r) == /\ SchedulerFree /\ ~row.temp /\ clock < ClosesAt[r]
                     /\ SettingsReturn \/ mem.cancellation.run # r
                     /\ Acquire("prepare", r, NoMessage) /\ UNCHANGED callers
AcquireNotify == /\ SchedulerFree /\ row.run # NoRun
                 /\ Acquire("notify", NoRun, NoMessage) /\ UNCHANGED callers
AcquireLegacyDate == /\ SchedulerFree /\ row.run = NoRun /\ row.mes # NoMessage
                     /\ Acquire("legacyDate", NoRun, NoMessage) /\ UNCHANGED callers
AcquireCancel(r) == /\ SchedulerFree
                    /\ Acquire("cancel", r, NoMessage) /\ UNCHANGED callers
(* The caller of Refresh saw an active run before it queued for the lane;  *)
(* by now the run may have ended.                                          *)
AcquireRefresh == Acquire("refresh", NoRun, NoMessage) /\ UNCHANGED callers
AcquireRepost(m) == /\ m # NoMessage => msgs[m].show = "live"
                    /\ Acquire("repost", NoRun, m) /\ UNCHANGED callers
AcquireClose(kind) == /\ kind \in callers
                      /\ Acquire(kind, NoRun, NoMessage) /\ callers' = callers \ {kind}

(* startHTTP, second half, under mu.  Refresh goes on to ask for a         *)
(* publication before it looks at anything else.                           *)
Started ==
    /\ At("acquired")
    /\ inflight' = TRUE
    /\ dirty' = (dirty /\ op.kind \notin Capturing)
    /\ mem' = [mem EXCEPT !.publish = @ \/ op.kind = "refresh"]
    /\ Goto(IF op.kind = "delete" THEN "close" ELSE op.kind)
    /\ UNCHANGED <<db, pending, callers, msgs, clock, faults>>

(* finishHTTP: release the lane, retry after an error, or serve an update  *)
(* that arrived meanwhile.  Delete first withdraws its flag.               *)
Failed == op.kind \in Retrying /\ op.result = "error"

RetryWithoutTimer == dirty' = (dirty \/ Failed) /\ pending' = (pending \/ (dirty /\ ~Failed))
RetryOnly == dirty' = Failed /\ pending' = (pending \/ Failed)
RetryOrServe == dirty' = (dirty \/ Failed) /\ pending' = (pending \/ dirty \/ Failed)

Finish ==
    /\ At("done")
    /\ op' = NoOp
    /\ inflight' = FALSE
    /\ mem' = [mem EXCEPT !.deleting = @ /\ op.kind # "delete"]
    /\ RetryOrServe
    /\ UNCHANGED <<db, callers, msgs, clock, faults>>

(* worker: take the job.  With an operation in flight, or nothing owed, or *)
(* the lane just taken, the job is dropped; otherwise the worker holds the *)
(* lane and starts a refresh.                                              *)
WorkerDrops ==
    /\ pending
    /\ op # NoOp \/ ~dirty
    /\ pending' = FALSE
    /\ UNCHANGED <<db, mem, dirty, inflight, op, callers, msgs, clock, faults>>

WorkerStarts ==
    /\ pending /\ dirty
    /\ op = NoOp
    /\ pending' = FALSE /\ dirty' = FALSE /\ inflight' = TRUE
    /\ op' = [NoOp EXCEPT !.kind = "update", !.at = "refresh"]
    /\ UNCHANGED <<db, mem, callers, msgs, clock, faults>>

-----------------------------------------------------------------------------
(* Prepare, Notify, LegacyMessageDate.                                     *)

(* A read of the schedule fails, and with it the step that needed it.      *)
ReadFails ==
    /\ \/ op.at \in {"render", "close", "cancel", "legacyDate"}
       \/ op.at = "cleanup" /\ \E m \in Messages : mem.cleanup[m] # "none"
       \/ op.at = "refresh" /\ ~mem.closing
       \/ op.at \in {"prepare", "repost"} /\ Receptive
    /\ Fault
    /\ IF At("render") THEN ToCleanup("error") ELSE Return("error")
    /\ UNCHANGED <<db, mem, wake, msgs>> /\ Aside

PrepareRefused ==
    /\ At("prepare")
    /\ \/ ~Receptive /\ Return("error") /\ UNCHANGED mem
       \/ Receptive /\ ~row.exists /\ CanRead /\ Return("norows") /\ mem' = Synced
    /\ UNCHANGED <<db, wake, msgs, faults>> /\ Aside

(* BeginQueueRun refuses the row it finds once it has the locks, or the    *)
(* row is being deleted.                                                   *)
Prepare ==
    /\ At("prepare")
    /\ Receptive /\ CanRead /\ row.exists
    /\ \/ /\ ~RunConflict(op.run)
          /\ WriteApplies(BegunRow(op.run))
          /\ mem' = [Synced EXCEPT !.publish = @ /\ row.run # NoRun]
          /\ Return("ok")
       \/ /\ \/ RunConflict(op.run) /\ ghost = NoGhost
             \/ ghost.kind = "delete"
          /\ mem' = Doubtful
          /\ Return("error")
          /\ UNCHANGED <<db, faults>>
       \/ /\ ~RunConflict(op.run)
          /\ WriteFails([kind |-> "begin", run |-> op.run, mes |-> NoMessage])
          /\ mem' = Doubtful
          /\ Return("error")
    /\ UNCHANGED <<wake, msgs>> /\ Aside

(* A call that changes no queue state: it is delivered or it fails.        *)
Notify ==
    /\ At("notify")
    /\ \/ Return("ok") /\ UNCHANGED faults
       \/ Return("error") /\ Fault
    /\ UNCHANGED <<db, mem, wake, msgs>> /\ Aside

LegacyMessageDate ==
    /\ At("legacyDate")
    /\ CanRead
    /\ mem' = Synced
    /\ LET found == row.mes # NoMessage /\ msgs[row.mes].show # "missing"
       IN /\ Return(IF found THEN "ok" ELSE "error")
          /\ callers' = callers \cup IF found THEN {"restore"} ELSE {}
    /\ UNCHANGED <<db, wake, inflight, msgs, clock, faults>>

(* restoreLegacy, once it knows the date of the message: the row gets the  *)
(* bounds of that run, which may open within a minute.  The write looks    *)
(* only at the run of the row: meanwhile Delete may have taken its message *)
(* away.  An error leaves no mark in queueState.                           *)
SetLegacyQueueRunBounds(r) ==
    /\ "restore" \in callers /\ op.kind \notin SchedulerKinds
    /\ row.exists /\ row.run = NoRun
    /\ clock < ClosesAt[r]
    /\ \/ WriteApplies(BoundRow(r))
       \/ WriteFails([kind |-> "bounds", run |-> r, mes |-> NoMessage])
    /\ callers' = callers \ {"restore"}
    /\ UNCHANGED <<mem, wake, inflight, op, msgs, clock>>

(* It is refused (the row is gone, the topic is busy), finds the run over, *)
(* or its worker is stopped.                                               *)
RestoreEnds ==
    /\ "restore" \in callers /\ op.kind \notin SchedulerKinds
    /\ callers' = callers \ {"restore"}
    /\ UNCHANGED <<db, mem, wake, inflight, op, msgs, clock, faults>>

-----------------------------------------------------------------------------
(* Refresh and the worker's update: refresh, then refreshCurrent.          *)

(* refresh: an intent to close turns it into the close itself; otherwise   *)
(* read the row and settle the writes whose outcome was in doubt.          *)
Refresh ==
    /\ At("refresh")
    /\ \/ /\ mem.closing
          /\ Goto("close")
          /\ UNCHANGED mem
       \/ /\ ~mem.closing /\ CanRead
          /\ mem' = Settled
          /\ IF row.exists THEN Goto("render") ELSE ToCleanup("norows")
    /\ UNCHANGED <<db, wake, msgs, faults>> /\ Aside

(* refreshCurrent, under mu: nothing to draw, or take the snapshot (which  *)
(* pays what was owed) and leave mu for the HTTP call.                     *)
NothingToDraw == ~Active(row) \/ mem.closing \/ (row.mes = NoMessage /\ ~mem.publish)

Render ==
    /\ At("render")
    /\ CanRead
    /\ mem' = Synced
    /\ IF NothingToDraw
       THEN ToCleanup(IF row.exists THEN "ok" ELSE "norows") /\ UNCHANGED dirty
       ELSE /\ op' = [op EXCEPT !.at = IF row.mes = NoMessage THEN "recheck" ELSE "edit",
                                !.snap = SnapshotOf(row, TRUE)]
            /\ dirty' = FALSE
    /\ UNCHANGED <<db, pending, msgs, faults>> /\ Aside

(* EditQueue, on the current message of a refresh or with the final        *)
(* drawing of a close: drawn; gone, which asks for a new one; or an error, *)
(* with the drawing applied or not.                                        *)
Edit ==
    /\ At("edit")
    /\ LET m == op.snap.mes
           gone == msgs[m].show = "missing"
       IN \/ /\ ~gone
             /\ msgs' = Drawn(m, op.snap)
             /\ IF op.snap.live THEN ToCleanup("ok") ELSE ToFinishRun
             /\ UNCHANGED faults
          \/ /\ gone
             /\ Goto(IF op.snap.live THEN "recheck" ELSE "send")
             /\ UNCHANGED <<msgs, faults>>
          \/ /\ Fault
             /\ msgs' \in {msgs} \cup IF gone THEN {} ELSE {Drawn(m, op.snap)}
             /\ IF op.snap.live THEN ToCleanup("error") ELSE Return("error")
    /\ UNCHANGED <<db, mem, wake>> /\ Aside

(* Before it posts a new message the refresh looks at closing once more.   *)
Recheck ==
    /\ At("recheck")
    /\ IF mem.closing THEN ToCleanup("ok") ELSE Goto("send")
    /\ UNCHANGED <<db, mem, wake, msgs, faults>> /\ Aside

(* A publication failed: a refresh still cleans up, a repost or a close    *)
(* returns.                                                                *)
NotPublished == IF op.kind \in {"refresh", "update"} /\ op.snap.live
                THEN ToCleanup("error") ELSE Return("error")

(* SendQueue, for a refresh, a repost or the replacement of a final        *)
(* message that is gone: posted; or an error, with a message posted whose  *)
(* identifier is never known, or none.                                     *)
Send ==
    /\ At("send")
    /\ \E m \in Messages :
          /\ IsFresh(m)
          /\ \/ /\ msgs' = Drawn(m, op.snap)
                /\ op' = [op EXCEPT !.at = "persist", !.sent = m]
                /\ UNCHANGED faults
             \/ /\ Fault
                /\ NotPublished
                /\ UNCHANGED msgs
    /\ UNCHANGED <<db, mem, wake>> /\ Aside

(* persistPublication: store the identifier.  When that fails, also if the *)
(* row is gone, remember the publication, try at once to read back what    *)
(* happened to it, and owe an update.                                      *)
Persisted == [mem EXCEPT !.publish = FALSE,
                         !.cleanup = [i \in Messages |-> IF i = op.ref THEN "retire" ELSE @[i]]]
Unpersisted == [mem EXCEPT !.publication = [mes |-> op.sent, prev |-> op.ref], !.uncertain = TRUE]
AfterPersist(result) ==
    IF result = "ok"
    THEN IF op.snap.live THEN ToCleanup("ok") ELSE ToFinishRun
    ELSE NotPublished

PersistPublication ==
    /\ At("persist")
    /\ \/ /\ row.exists
          /\ WriteApplies(PublishedRow(op.sent))
          /\ mem' = Persisted
          /\ AfterPersist("ok")
          /\ UNCHANGED wake
       \/ /\ ~row.exists
          /\ UNCHANGED <<db, faults>>
          /\ mem' \in ReconcileWrites(Unpersisted)
          /\ AfterPersist("error")
          /\ ScheduleUpdate
       \/ /\ row.exists /\ Fault
          /\ DoubtfulWrite([kind |-> "publish", run |-> NoRun, mes |-> op.sent], PublishedRow(op.sent))
          /\ mem' \in ReconcileWrites(Unpersisted)
          /\ AfterPersist("error")
          /\ ScheduleUpdate
    /\ UNCHANGED msgs /\ Aside

(* cleanupMessages, under mu: forget the entry of the message that is      *)
(* current after all, take a copy of the others; then one HTTP call each,  *)
(* in any order, that retires or closes the message.                       *)
Kept == {m \in Messages : mem.cleanup[m] # "none" /\ m # row.mes}

Cleanup ==
    /\ At("cleanup")
    /\ IF \A m \in Messages : mem.cleanup[m] = "none"
       THEN Goto("done") /\ UNCHANGED mem
       ELSE /\ CanRead
            /\ mem' = [Synced EXCEPT !.cleanup = [m \in Messages |-> IF m \in Kept THEN @[m] ELSE "none"]]
            /\ op' = [op EXCEPT !.at = IF Kept = {} THEN "done" ELSE "cleaning", !.todo = Kept]
    /\ UNCHANGED <<db, wake, msgs, faults>> /\ Aside

Cleaned(m) == [msgs EXCEPT ![m] =
    Dead(IF msgs[m].show = "missing" THEN "missing"
         ELSE IF mem.cleanup[m] = "close" THEN "closed" ELSE "retired")]

CleanMessage(m) ==
    /\ At("cleaning")
    /\ m \in op.todo
    /\ LET left == op.todo \ {m}
           next == IF left = {} THEN "done" ELSE "cleaning"
       IN \/ /\ msgs' = Cleaned(m)
             /\ mem' = [mem EXCEPT !.cleanup[m] = "none"]
             /\ op' = [op EXCEPT !.at = next, !.todo = left]
             /\ UNCHANGED faults
          \/ /\ Fault
             /\ msgs' \in {msgs, Cleaned(m)}
             /\ op' = [op EXCEPT !.at = next, !.todo = left, !.result = "error"]
             /\ UNCHANGED mem
    /\ UNCHANGED <<db, wake>> /\ Aside

-----------------------------------------------------------------------------
(* Close and Delete.                                                       *)

(* The intent is visible at once; the call then waits for the lane.        *)
CloseIntent ==
    /\ SchedulerFree
    /\ row.exists
    /\ IF row.run = NoRun THEN row.mes # NoMessage ELSE clock >= ClosesAt[row.run]
    /\ mem' = [mem EXCEPT !.closing = TRUE]
    /\ callers' = callers \cup {"close"}
    /\ UNCHANGED <<db, wake, inflight, op, msgs, clock, faults>>

DeleteIntent ==
    /\ "delete" \notin callers /\ op.kind # "delete"
    /\ row.exists
    /\ mem' = [mem EXCEPT !.closing = TRUE, !.deleting = TRUE]
    /\ callers' = callers \cup {"delete"}
    /\ UNCHANGED <<db, wake, inflight, op, msgs, clock, faults>>

(* The wait for the lane times out: the intent to close stays, and an      *)
(* update is owed that will carry it out.                                  *)
GiveUpForGood(kind) ==
    /\ kind \in callers
    /\ callers' = callers \ {kind}
    /\ mem' = [mem EXCEPT !.deleting = @ /\ kind # "delete"]
    /\ UNCHANGED <<db, wake, inflight, op, msgs, clock, faults>>

GiveUp(kind) ==
    /\ kind \in callers
    /\ callers' = callers \ {kind}
    /\ mem' = [mem EXCEPT !.deleting = @ /\ kind # "delete"]
    /\ ScheduleUpdate
    /\ UNCHANGED <<db, inflight, op, msgs, clock, faults>>

Closed == IF op.kind = "delete" THEN Goto("deleteRow") ELSE Return("ok")

Close ==
    /\ At("close")
    /\ CanRead
    /\ \/ /\ ~row.exists
          /\ mem' = [Synced EXCEPT !.closing = FALSE]
          /\ Closed
       \/ /\ row.exists
          /\ mem' = Settled
          /\ IF row.mes = NoMessage
             THEN ToFinishRun
             ELSE op' = [op EXCEPT !.at = "edit", !.snap = SnapshotOf(row, FALSE)]
    /\ UNCHANGED <<db, wake, msgs, faults>> /\ Aside

FinishRun ==
    /\ At("finishRun")
    /\ \/ /\ WriteApplies(IF row.exists THEN FinishedRow ELSE row)
          /\ mem' = [mem EXCEPT !.closing = FALSE, !.publish = FALSE]
          /\ Closed
          /\ UNCHANGED wake
       \/ /\ WriteFails([kind |-> "finish", run |-> NoRun, mes |-> NoMessage])
          /\ mem' = Doubtful
          /\ Return("error")
          /\ ScheduleUpdate
    /\ UNCHANGED msgs /\ Aside

(* DELETE, whose error leaves no mark in queueState either.                *)
DeleteScheduleEntry ==
    /\ At("deleteRow")
    /\ \/ WriteApplies(GoneRow) /\ Return("ok")
       \/ /\ Fault
          /\ DoubtfulWrite([kind |-> "delete", run |-> NoRun, mes |-> NoMessage], GoneRow)
          /\ Return("error")
    /\ UNCHANGED <<mem, wake, msgs>> /\ Aside

-----------------------------------------------------------------------------
(* CancelPending, which the scheduler calls when changed settings move a   *)
(* run that has not opened yet.                                            *)

CancellableWhenOpen == ~mem.closing /\ ~row.temp /\ row.run # NoRun
Cancellable == ~mem.closing /\ ~row.temp /\ row.run # NoRun /\ clock < OpensAt[row.run]

CancelPending ==
    /\ At("cancel")
    /\ CanRead
    /\ LET read == IF row.exists THEN Settled ELSE Synced
           canceled == [read EXCEPT !.cancellation = SnapshotOf(row, FALSE)]
       IN \/ /\ ~Cancellable
             /\ mem' = read /\ ToCleanup("ok")
             /\ UNCHANGED <<db, wake, faults>>
          \/ /\ Cancellable /\ row.run # op.run
             /\ mem' = read /\ Return("error")
             /\ UNCHANGED <<db, wake, faults>>
          \/ /\ Cancellable /\ row.run = op.run
             /\ WriteApplies(FinishedRow)
             /\ mem' = ResolveWrites([canceled EXCEPT !.publish = FALSE], row')
             /\ ToCleanup("ok")
             /\ UNCHANGED wake
          \/ /\ Cancellable /\ row.run = op.run
             /\ Fault
             /\ DoubtfulWrite([kind |-> "finish", run |-> NoRun, mes |-> NoMessage], FinishedRow)
             /\ mem' \in ReconcileWrites([canceled EXCEPT !.uncertain = TRUE])
             /\ Return("error")
             /\ ScheduleUpdate
    /\ UNCHANGED msgs /\ Aside

-----------------------------------------------------------------------------
(* Actions of people on the message m: active, Repost, and the mutations.  *)

(* active, once the row is read: the button was pressed on the current     *)
(* message, and the run is open.                                           *)
Accepts(m) == /\ row.exists /\ row.mes = m /\ m # NoMessage
              /\ row.run # NoRun /\ OpensAt[row.run] <= clock /\ clock < ClosesAt[row.run]

Repost ==
    /\ At("repost")
    /\ \/ /\ ~Receptive
          /\ Return("error")
          /\ UNCHANGED <<mem, dirty>>
       \/ /\ Receptive /\ CanRead /\ ~Accepts(op.ref)
          /\ Return("error")
          /\ mem' = Synced
          /\ UNCHANGED dirty
       \/ /\ Receptive /\ CanRead /\ Accepts(op.ref)
          /\ mem' = Settled
          /\ op' = [op EXCEPT !.at = "send", !.snap = SnapshotOf(row, TRUE)]
          /\ dirty' = FALSE
    /\ UNCHANGED <<db, pending, msgs, faults>> /\ Aside

(* GetQueue fails while a snapshot is taken, after the row was read.       *)
SnapshotFails ==
    /\ CanRead
    /\ \/ /\ At("render") /\ ~NothingToDraw
          /\ mem' = Synced
          /\ ToCleanup("error")
       \/ /\ \/ At("close") /\ row.mes # NoMessage
             \/ At("cancel") /\ Cancellable /\ row.run = op.run
             \/ At("repost") /\ Receptive /\ Accepts(op.ref)
          /\ mem' = Settled
          /\ Return("error")
    /\ Fault
    /\ UNCHANGED <<db, wake, msgs>> /\ Aside

(* Join, Leave, Complete and Swap share this shape: one critical section,  *)
(* independent of the lane.  The transaction applies, is refused by the    *)
(* database (the place is taken, the entry changed) or fails.              *)
Mutate(m) ==
    /\ Receptive /\ CanRead /\ Accepts(m)
    /\ row.rev < MaxRev
    /\ \/ WriteApplies(MutatedRow) /\ mem' = Synced
       \/ mem' = Doubtful /\ UNCHANGED <<db, faults>>
       \/ /\ WriteFails([kind |-> "mutate", run |-> NoRun, mes |-> NoMessage])
          /\ mem' = Doubtful
    /\ ScheduleUpdate
    /\ UNCHANGED <<inflight, op, callers, msgs, clock>>

(* A read-only call (Active) settles the doubt about the row as a side     *)
(* effect.                                                                 *)
ReadBack ==
    /\ Receptive /\ mem.uncertain /\ CanRead
    /\ mem' = Synced
    /\ UNCHANGED <<db, wake, inflight, op, callers, msgs, clock, faults>>

(* Changed: the title was edited.                                          *)
Changed ==
    /\ row.exists
    /\ ScheduleUpdate
    /\ UNCHANGED <<db, mem, inflight, op, callers, msgs, clock, faults>>

-----------------------------------------------------------------------------
(* The world.                                                              *)

Tick == clock < MaxClock /\ clock' = clock + 1
        /\ UNCHANGED <<db, mem, wake, inflight, op, callers, msgs, faults>>

GhostLands == /\ ghost # NoGhost
              /\ row' \in {GhostRow, row}
              /\ ghost' = NoGhost
              /\ UNCHANGED <<mem, wake, inflight, op, callers, msgs, clock, faults>>

PersonDeletes(m) == /\ msgs[m].show = "live"
                    /\ Fault
                    /\ msgs' = [msgs EXCEPT ![m] = Dead("missing")]
                    /\ UNCHANGED <<db, mem, wake, inflight, op, callers, clock>>

-----------------------------------------------------------------------------
(* A step of the operation that holds the lane.                            *)
OperationStep ==
    \/ Started \/ Finish
    \/ ReadFails \/ SnapshotFails
    \/ PrepareRefused \/ Prepare \/ Notify \/ LegacyMessageDate
    \/ Refresh \/ Render \/ Edit \/ Recheck \/ Send \/ PersistPublication
    \/ Cleanup \/ \E m \in Messages : CleanMessage(m)
    \/ Close \/ FinishRun \/ DeleteScheduleEntry
    \/ CancelPending \/ Repost

Calls ==
    \/ \E r \in Runs : AcquirePrepare(r) \/ AcquireCancel(r) \/ SetLegacyQueueRunBounds(r)
    \/ AcquireNotify \/ AcquireLegacyDate \/ AcquireRefresh \/ RestoreEnds
    \/ \E m \in Message0 : AcquireRepost(m)
    \/ \E m \in Messages : Mutate(m)
    \/ CloseIntent \/ DeleteIntent
    \/ \E kind \in {"close", "delete"} : GiveUp(kind)
    \/ ReadBack \/ Changed

World == Tick \/ GhostLands \/ \E m \in Messages : PersonDeletes(m)

Next ==
    \/ OperationStep
    \/ WorkerDrops \/ WorkerStarts
    \/ \E kind \in {"close", "delete"} : AcquireClose(kind)
    \/ Calls
    \/ World

Spec == Init /\ [][Next]_vars

-----------------------------------------------------------------------------
(* Safety.                                                                 *)

(* Every message that takes button presses and whose identifier the        *)
(* service has learned is accounted for: it is the current one in the      *)
(* database, or the operation in progress is about to store it, or it is   *)
(* remembered as a publication in doubt, as the preview of a run being     *)
(* cancelled, or as a message to retire or to close.  No failed write, at  *)
(* any point of Refresh, Repost, Close or CancelPending, leaves behind a   *)
(* second live queue that nothing will clean up.                           *)
NoOrphan ==
    \A m \in Messages : msgs[m].show = "live" =>
        \/ m \in {row.mes, op.sent, mem.publication.mes, mem.publication.prev, mem.cancellation.mes}
        \/ mem.cleanup[m] # "none"

(* The current live message shows the run the database is in: nothing sent *)
(* for an earlier or cancelled run gets attached to its successor.         *)
MessageOfItsRun ==
    row.run # NoRun /\ row.mes # NoMessage =>
        (msgs[row.mes].show = "live" => msgs[row.mes].run \in {row.run, NoRun})

(* When the lane is free and no render is owed, the live message of an     *)
(* active run shows exactly the participants the database holds: no change *)
(* made during somebody's HTTP call, and no write in doubt, is forgotten.  *)
FreshWhenQuiet ==
    op = NoOp /\ ~dirty /\ ~mem.closing /\ Active(row) /\ row.mes # NoMessage
        => (msgs[row.mes].show = "live" => msgs[row.mes].rev = row.rev)

(* An owed render always has somebody to serve it: a timer or a job, or    *)
(* the operation in the lane, whose finishHTTP will look.                  *)
NoLostUpdate == dirty => pending \/ op # NoOp

(* While the fate of a COMMIT is open the service knows it, so its next    *)
(* read waits for the lock instead of trusting the row it would see.  The  *)
(* bounds of a legacy run and DELETE are the exceptions: the code notes no *)
(* doubt about them.                                                       *)
Unnoted == ghost.kind \in {"none", "bounds", "delete"}
DoubtIsRemembered == ~Unnoted => mem.uncertain

(* A publication in doubt is settled before another can replace it.        *)
OneDoubtAtATime == At("persist") => mem.publication = NoPublication

(* May the row be one of an older version, whose run is bounded behind     *)
(* the back of the service?                                                *)
MayBeLegacy == "legacy" \in Starts

(* A message that was closed or retired never takes presses again, except  *)
(* as a new message under a reused identifier of the bounded model: no     *)
(* older render arrives after the final one.  Only a row of an older       *)
(* version, given its run between the close and the DELETE of a Delete     *)
(* that fails, has its closed message redrawn, for that run.               *)
NeverRevived ==
    [][\A m \in Messages :
          msgs[m].show \in {"closed", "retired"} /\ msgs'[m].show = "live" =>
              \/ At("send")
              \/ /\ MayBeLegacy /\ msgs[m].show = "closed"
                 /\ row.mes = m /\ row.run = op.snap.run /\ row.run # NoRun]_vars

(* When a run ends by Close or Delete its message no longer takes presses, *)
(* and if it still exists its last drawing has everybody who was in the    *)
(* queue: nobody joins, leaves or swaps after the final picture was taken. *)
FinalPictureComplete ==
    [][row.run # NoRun /\ row'.run = NoRun /\ mem.closing /\ mem.cancellation = NoSnap
        /\ row.mes # NoMessage
       => \/ msgs[row.mes].show = "missing"
          \/ msgs[row.mes].show = "closed" /\ msgs[row.mes].rev = row.rev]_vars

(* A run that ends without a request to close it, that is by CancelPending *)
(* at once or by its late COMMIT, had no participants who joined through   *)
(* this version.                                                           *)
CancelLosesNobody ==
    [][row.run # NoRun /\ row'.run = NoRun /\ (~mem.closing \/ mem.cancellation # NoSnap)
       => row.rev = 0]_vars

(* Deleting a regular schedule, at once or by a late DELETE, never takes a *)
(* queue with it that shows a message or has people, nor a run that the    *)
(* service began.                                                          *)
DeleteSparesRuns ==
    [][row.exists /\ ~row'.exists /\ ~row.temp =>
          row.mes = NoMessage /\ row.rev = 0 /\ (row.run = NoRun \/ MayBeLegacy)]_vars

-----------------------------------------------------------------------------
(* The inductive invariant behind several of these properties.             *)

(* The lane has a holder exactly while an operation stands somewhere, and  *)
(* inflight says whether that operation has passed startHTTP.              *)
LaneMarks ==
    /\ op.at = "idle" <=> op = NoOp
    /\ inflight <=> op.at \notin {"idle", "acquired"}
    /\ At("acquired") => op.kind \notin {"none", "update"}
    /\ At("prepare") => op.kind = "prepare"
    /\ At("legacyDate") => op.kind = "legacyDate"
    /\ At("cancel") => op.kind = "cancel"

(* While an operation draws, no older publication is in doubt, and the run *)
(* it draws is the one in the database: nobody else can change it, but the *)
(* row may be deleted.                                                     *)
Drawing == op.at \in {"edit", "recheck", "send", "persist"}
DrawsTheRun ==
    /\ Drawing \/ At("render") => mem.publication = NoPublication
    /\ At("recheck") => op.snap.live
    /\ Drawing /\ op.snap.live /\ row.exists => row.run = op.snap.run /\ row.run # NoRun
    /\ Drawing /\ ~op.snap.live => row.mes # NoMessage
    /\ Drawing \/ At("finishRun") => ghost.kind \in {"none", "mutate", "bounds", "delete"}
    /\ At("persist") => op.sent # NoMessage /\
          (msgs[op.sent].show = "live" => op.snap.live /\ msgs[op.sent].run = op.snap.run)

(* What a write in flight may do when it is committed at last.             *)
LateWrites ==
    /\ ghost.kind = "begin" => row.exists /\ ~RunConflict(ghost.run)
    /\ ghost.kind = "bounds" => row.exists /\ row.run = NoRun /\ MayBeLegacy
    /\ ghost.kind = "mutate" => row.run # NoRun /\ OpensAt[row.run] <= clock /\ row.rev < MaxRev
    /\ ghost.kind = "finish" => row.rev = 0 \/ (mem.closing /\ mem.cancellation = NoSnap)
    /\ ghost.kind = "publish" =>
          /\ ghost.mes # NoMessage /\ (msgs[ghost.mes].show = "live" => msgs[ghost.mes].run = row.run)
          /\ row.run # NoRun \/ MayBeLegacy
    /\ ghost.kind = "delete" => row.mes = NoMessage /\ row.rev = 0 /\ (row.run = NoRun \/ MayBeLegacy)

(* A deleted row holds no run and no message, a row without a run nobody   *)
(* and, unless it is of an older version, no message.                      *)
GoneIsEmpty ==
    /\ ~row.exists => row.run = NoRun /\ row.mes = NoMessage
    /\ row.run = NoRun => row.rev = 0 /\ (row.mes = NoMessage \/ MayBeLegacy)

(* Nobody takes a place before the run opens.                              *)
EmptyBeforeOpening == row.run # NoRun /\ clock < OpensAt[row.run] => row.rev = 0

(* A live current message was drawn for the run of the row or for none, as *)
(* the message of a legacy queue.                                          *)
CurrentOfItsRun ==
    row.mes # NoMessage /\ msgs[row.mes].show = "live" => msgs[row.mes].run \in {row.run, NoRun}

(* A close that is waiting or under way is still asked for, or there is    *)
(* nothing to close and no new run can begin.  The exception is a Delete   *)
(* whose close a refresh has carried out while it waits: it withdraws the  *)
(* request, and the row of an older version may then get its run.          *)
NothingToClose == /\ row.run = NoRun /\ row.mes = NoMessage /\ row.rev = 0
                  /\ ghost.kind \in {"none", "finish", "delete"}
FinalDrawing == Drawing /\ ~op.snap.live
Closing == \/ "close" \in callers \/ "delete" \in callers \/ At("close") \/ At("finishRun")
           \/ At("acquired") /\ op.kind \in {"close", "delete"}
Withdrawn == MayBeLegacy /\ mem.deleting /\ "close" \notin callers /\ op.kind # "close"
CloseIsMeant ==
    /\ "close" \in callers => op.kind \notin SchedulerKinds /\ "restore" \notin callers
    /\ "restore" \in callers => op.kind \notin SchedulerKinds \ {"legacyDate"}
    /\ "restore" \in callers \/ op.kind = "legacyDate" => MayBeLegacy
    /\ op.kind = "delete" => "delete" \notin callers /\ mem.deleting
    /\ "delete" \in callers => mem.deleting
    /\ mem.deleting /\ ~mem.closing => row.rev = 0 /\ ghost.kind # "mutate"
    /\ Closing => mem.closing \/ NothingToClose \/ Withdrawn
    /\ At("close") \/ At("finishRun") => mem.closing \/ op.kind \in {"close", "delete"}
    /\ FinalDrawing => mem.closing \/ (Withdrawn /\ op.kind = "delete")
    /\ FinalDrawing \/ At("finishRun") => mem.cancellation = NoSnap
    /\ At("deleteRow") => /\ op.kind = "delete" /\ Unnoted
                          /\ row.mes = NoMessage /\ row.rev = 0
                          /\ (row.run = NoRun \/ MayBeLegacy)

(* Together they hold again after every step of the lane holder, of the    *)
(* callers, of the workers and of the world: the intents, the doubts and   *)
(* the drawing in progress always fit the row, whichever of them changes.  *)
IInv ==
    /\ TypeOK
    /\ LaneMarks
    /\ NoLostUpdate
    /\ DoubtIsRemembered
    /\ DrawsTheRun
    /\ LateWrites
    /\ GoneIsEmpty
    /\ EmptyBeforeOpening
    /\ CurrentOfItsRun
    /\ CloseIsMeant

-----------------------------------------------------------------------------
(* Liveness.  The lane holder is a goroutine whose calls have time-outs; a *)
(* caller in the queue for the lane gets it or gives up; PostgreSQL ends   *)
(* every transaction.  A job finds the lane free again and again, because  *)
(* calls come seconds apart: it is not beaten to it for ever.  People, the *)
(* clock and the scheduler's calls are not fair.                           *)
Fairness ==
    /\ WF_vars(OperationStep)
    /\ WF_vars(GhostLands)
    /\ SF_vars(WorkerStarts)
    /\ \A kind \in {"close", "delete"} : WF_vars(AcquireClose(kind) \/ GiveUp(kind))

FairSpec == Spec /\ Fairness

(* A requested close is carried out, even if its caller gave up or its     *)
(* HTTP calls and writes failed.                                           *)
CloseCompletes == mem.closing ~> ~mem.closing

(* A message that shows outdated participants is redrawn, replaced, or its *)
(* run ends.                                                               *)
Outdated == /\ Active(row) /\ row.mes # NoMessage /\ ~mem.closing
            /\ msgs[row.mes].show = "live" /\ msgs[row.mes].rev # row.rev
UpdatesArrive == Outdated ~> ~Outdated

(* A message noted for cleaning (an orphan of a failed publication, the    *)
(* message a repost replaced, the preview of a cancelled run) is cleaned.  *)
CleanupCompletes == \A m \in Messages : mem.cleanup[m] # "none" ~> mem.cleanup[m] = "none"

=============================================================================
