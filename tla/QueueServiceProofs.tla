------------------------- MODULE QueueServiceProofs -------------------------
(***************************************************************************)
(* The inductive invariant IInv of QueueService holds in every reachable   *)
(* state, for any runs, messages, bounds and number of failures; from it   *)
(* follow the safety properties about rows and writes.  On it rest two     *)
(* more: Pictures, what the messages in the chat show, and Accounts, who   *)
(* remembers them.  One lemma per action for each of the three.            *)
(***************************************************************************)
EXTENDS QueueService, TLAPS

USE ServiceAssumption
USE DEF NoRun, NoMessage, Run0, Message0, Revisions

-----------------------------------------------------------------------------
(* What the helpers return.                                                *)

(* Constants of the record types.                                          *)
LEMMA ConstantsTyped ==
    /\ NoSnap \in Snapshot /\ NoPublication \in Publication /\ NoGhost \in Ghost
    /\ NoOp \in Operation
  BY DEF NoSnap, Snapshot, NoPublication, Publication, NoGhost, Ghost, NoOp, Operation, Places

(* A read that succeeds finds no COMMIT in flight that is to be noted.     *)
LEMMA ReadMeansSettled == ASSUME IInv, CanRead PROVE Unnoted
  BY DEF IInv, CanRead, DoubtIsRemembered, Unnoted

(* resolveWrites keeps the intents and leaves nothing in doubt but the     *)
(* knowledge of the row.                                                   *)
LEMMA Resolving ==
    ASSUME NEW m \in Memory, NEW r \in Row
    PROVE  LET n == ResolveWrites(m, r) IN
           /\ n \in Memory
           /\ n.publication = NoPublication /\ n.cancellation = NoSnap
           /\ n.closing = m.closing /\ n.deleting = m.deleting /\ n.uncertain = m.uncertain
  <1> DEFINE clean == [i \in Messages |-> ResolveWrites(m, r).cleanup[i]]
  <1>1. NoPublication \in Publication /\ NoSnap \in Snapshot
    BY ConstantsTyped
  <1>2. \A i \in Messages : m.cleanup[i] \in {"none", "retire", "close"}
    BY DEF Memory
  <1>3. ResolveWrites(m, r).cleanup \in [Messages -> {"none", "retire", "close"}]
    BY <1>2 DEF ResolveWrites, Memory
  <1>4. ResolveWrites(m, r) \in Memory
    BY <1>1, <1>3 DEF ResolveWrites, Memory, Landed
  <1>5. QED
    BY <1>4 DEF ResolveWrites, Memory

(* The memory after a settling read, a plain read or a failed write.       *)
LEMMA Remembering ==
    ASSUME TypeOK
    PROVE  /\ Synced \in Memory /\ Synced = [mem EXCEPT !.uncertain = FALSE]
           /\ Doubtful \in Memory /\ Doubtful = [mem EXCEPT !.uncertain = TRUE]
           /\ Settled \in Memory
           /\ Settled.publication = NoPublication /\ Settled.cancellation = NoSnap
           /\ Settled.closing = mem.closing /\ Settled.deleting = mem.deleting
           /\ ~Settled.uncertain
  <1>1. Synced \in Memory /\ Doubtful \in Memory
    BY DEF Synced, Doubtful, TypeOK, Memory
  <1>2. row \in Row
    BY DEF TypeOK
  <1>3. /\ Settled \in Memory
        /\ Settled.publication = NoPublication /\ Settled.cancellation = NoSnap
        /\ Settled.closing = Synced.closing /\ Settled.deleting = Synced.deleting
        /\ Settled.uncertain = Synced.uncertain
    BY <1>1, <1>2, Resolving DEF Settled
  <1>4. /\ Synced.closing = mem.closing /\ Synced.deleting = mem.deleting
        /\ ~Synced.uncertain
    BY DEF Synced, TypeOK, Memory
  <1>5. QED
    BY <1>1, <1>3, <1>4 DEF Synced, Doubtful

(* The rows the transactions write.                                        *)
LEMMA Rows ==
    ASSUME TypeOK
    PROVE  /\ FinishedRow \in Row /\ FinishedRow.run = NoRun
           /\ FinishedRow.mes = NoMessage /\ FinishedRow.rev = 0
           /\ FinishedRow.exists => row.exists
           /\ row.exists /\ ~FinishedRow.exists => row.temp
           /\ GoneRow \in Row /\ GoneRow.run = NoRun /\ ~GoneRow.exists
           /\ GoneRow.mes = NoMessage /\ GoneRow.rev = 0
           /\ \A r \in Run0 : BegunRow(r) \in Row /\ BegunRow(r).exists = row.exists
           /\ \A m \in Message0 : PublishedRow(m) \in Row
  <1>1. row \in Row
    BY DEF TypeOK
  <1>2. /\ GoneRow \in Row /\ GoneRow.run = NoRun /\ ~GoneRow.exists
        /\ GoneRow.mes = NoMessage /\ GoneRow.rev = 0
    BY <1>1 DEF Row, GoneRow
  <1>3. /\ FinishedRow \in Row /\ FinishedRow.run = NoRun
        /\ FinishedRow.mes = NoMessage /\ FinishedRow.rev = 0
        /\ FinishedRow.exists => row.exists
        /\ row.exists /\ ~FinishedRow.exists => row.temp
    BY <1>1, <1>2 DEF Row, FinishedRow
  <1>4. ASSUME NEW r \in Run0
        PROVE  BegunRow(r) \in Row /\ BegunRow(r).exists = row.exists
    <2>1. CASE row.run = r
      BY <1>1, <2>1 DEF BegunRow
    <2>2. CASE row.run # r
      <3>1. 0 \in Revisions /\ NoMessage \in Message0
        OBVIOUS
      <3>2. BegunRow(r) = [row EXCEPT !.run = r, !.mes = NoMessage, !.rev = 0]
        BY <2>2 DEF BegunRow
      <3>3. QED
        BY <1>1, <3>1, <3>2 DEF Row
    <2>3. QED
      BY <2>1, <2>2
  <1>5. ASSUME NEW m \in Message0
        PROVE  PublishedRow(m) \in Row
    BY <1>1 DEF Row, PublishedRow
  <1>6. QED
    BY <1>2, <1>3, <1>4, <1>5

(* The end of an operation.                                                *)
LEMMA Ending ==
    ASSUME TypeOK, NEW place \in Places, NEW result \in {"ok", "error", "norows"}
    PROVE  /\ Ended(place, result) \in Operation
           /\ Ended(place, result).at = place /\ Ended(place, result).kind = op.kind
  <1>1. NoOp \in Operation /\ op.kind \in Kinds \cup {"none"}
    BY ConstantsTyped DEF TypeOK, Operation
  <1>2. QED
    BY <1>1 DEF Ended, Operation

(* The operation moves on, as it is or with a snapshot.                    *)
LEMMA Going ==
    ASSUME TypeOK, NEW place \in Places
    PROVE  LET o == [op EXCEPT !.at = place] IN
           /\ o \in Operation /\ o.at = place /\ o.kind = op.kind
           /\ o.snap = op.snap /\ o.sent = op.sent
  BY DEF TypeOK, Operation

LEMMA GoingWith ==
    ASSUME TypeOK, NEW place \in Places, NEW live \in BOOLEAN
    PROVE  LET o == [op EXCEPT !.at = place, !.snap = SnapshotOf(row, live)] IN
           /\ o \in Operation /\ o.at = place /\ o.kind = op.kind
           /\ o.snap.live = live /\ o.snap.run = row.run /\ o.snap.mes = row.mes
  <1>1. SnapshotOf(row, live) \in Snapshot
    BY DEF TypeOK, Row, SnapshotOf, Snapshot
  <1>2. op \in Operation
    BY DEF TypeOK
  <1>3. LET o == [op EXCEPT !.at = place, !.snap = SnapshotOf(row, live)] IN
        /\ o \in Operation /\ o.at = place /\ o.kind = op.kind
        /\ o.snap = SnapshotOf(row, live)
    BY <1>1, <1>2 DEF Operation
  <1>4. /\ SnapshotOf(row, live).live = live /\ SnapshotOf(row, live).run = row.run
        /\ SnapshotOf(row, live).mes = row.mes
    BY DEF SnapshotOf
  <1>5. QED
    BY <1>3, <1>4

(* Owing a render and using up a failure.                                  *)
LEMMA Scheduling == ASSUME TypeOK, ScheduleUpdate PROVE dirty' \in BOOLEAN /\ pending' \in BOOLEAN
  BY DEF TypeOK, ScheduleUpdate

LEMMA Failing == ASSUME TypeOK, Fault PROVE faults' \in Nat
  BY DEF TypeOK, Fault

(* The instants of the run of the row are numbers.                         *)
LEMMA Instants == ASSUME TypeOK, row.run # NoRun PROVE OpensAt[row.run] \in Nat
  <1>1. row.run \in Runs
    BY DEF TypeOK, Row
  <1>2. QED
    BY <1>1

(* An operation that stands beyond startHTTP has marked itself.            *)
LEMMA Marked == ASSUME IInv, op.at \notin {"idle", "acquired"} PROVE inflight
  BY DEF IInv, LaneMarks

-----------------------------------------------------------------------------
(* What most steps of the lane holder have in common.                      *)

(* A memory with the same intents, and with no less doubt than the ghost   *)
(* requires.                                                               *)
Faithful(m) ==
    /\ m \in Memory
    /\ m.closing = mem.closing /\ m.deleting = mem.deleting
    /\ m.cancellation \in {mem.cancellation, NoSnap}
    /\ m.uncertain \/ Unnoted

(* The memories that reads, refusals and failures leave are faithful.      *)
LEMMA FaithfulMemories ==
    ASSUME IInv
    PROVE  /\ Faithful(mem) /\ Faithful(Doubtful)
           /\ CanRead => Faithful(Synced) /\ Faithful(Settled)
  <1>1. TypeOK /\ DoubtIsRemembered
    BY DEF IInv
  <1>2. Faithful(mem)
    BY <1>1 DEF Faithful, Unnoted, TypeOK, DoubtIsRemembered
  <1>3. Faithful(Doubtful)
    BY <1>1, Remembering DEF Faithful, Unnoted, TypeOK, Memory
  <1>4. ASSUME CanRead PROVE Faithful(Synced) /\ Faithful(Settled)
    BY <1>1, <1>4, Remembering, ReadMeansSettled DEF Faithful, Unnoted, TypeOK, Memory
  <1>5. QED
    BY <1>2, <1>3, <1>4

(* A step of the lane holder that does not write the database, and makes   *)
(* no message live but one of the current run, keeps every part of the     *)
(* invariant that does not speak of the place it goes to.                  *)
Touches ==
    /\ UNCHANGED <<row, ghost, callers, clock, inflight>>
    /\ msgs' \in [Messages -> Message]
    /\ \A m \in Messages :
          msgs'[m].show = "live" => \/ msgs'[m] = msgs[m] \/ msgs'[m].run = row.run
                                    \/ ~row.exists /\ ghost.kind # "publish"

LEMMA TouchStep ==
    ASSUME IInv, inflight, Touches, Faithful(mem'),
           op' \in Operation, op'.kind = op.kind,
           op'.at \notin {"idle", "acquired", "prepare", "legacyDate", "cancel"},
           dirty' \in BOOLEAN, pending' \in BOOLEAN, faults' \in Nat
    PROVE  /\ TypeOK' /\ LaneMarks' /\ NoLostUpdate' /\ DoubtIsRemembered' /\ LateWrites'
           /\ GoneIsEmpty' /\ EmptyBeforeOpening' /\ CurrentOfItsRun'
  <1>1. TypeOK'
    BY DEF IInv, TypeOK, Touches, Faithful, Unnoted
  <1>2. LaneMarks' /\ NoLostUpdate'
    BY DEF IInv, LaneMarks, NoLostUpdate, At, Touches, NoOp
  <1>3. DoubtIsRemembered'
    BY DEF IInv, DoubtIsRemembered, Unnoted, Touches, Faithful
  <1>4. row.mes \in Message0 /\ ghost.mes \in Message0
    BY DEF IInv, TypeOK, Row, Ghost
  <1>5. LateWrites'
    BY <1>4 DEF IInv, LateWrites, Touches, Faithful, Unnoted, RunConflict
  <1>6. GoneIsEmpty' /\ EmptyBeforeOpening' /\ CurrentOfItsRun'
    BY <1>4 DEF IInv, GoneIsEmpty, EmptyBeforeOpening, CurrentOfItsRun, Touches
  <1>7. QED
    BY <1>1, <1>2, <1>3, <1>5, <1>6

(* If it neither draws nor closes there, the whole invariant is kept.      *)
Quiet == Places \ {"idle", "acquired", "prepare", "legacyDate", "cancel", "render", "edit", "recheck",
                   "send", "persist", "close", "finishRun", "deleteRow"}

LEMMA QuietTouch ==
    ASSUME IInv, inflight, Touches, Faithful(mem'),
           op' \in Operation, op'.kind = op.kind, op'.at \in Quiet,
           dirty' \in BOOLEAN, pending' \in BOOLEAN, faults' \in Nat
    PROVE  IInv'
  <1>1. DrawsTheRun'
    BY DEF DrawsTheRun, Drawing, At, Quiet
  <1>2. CloseIsMeant'
    BY DEF IInv, CloseIsMeant, Closing, NothingToClose, Withdrawn, FinalDrawing, Drawing, At, Quiet,
           Touches, Faithful, Unnoted
  <1>3. QED
    BY <1>1, <1>2, TouchStep DEF IInv, Quiet

(* The same for steps that leave the chat alone.                           *)
Stays == UNCHANGED <<row, ghost, callers, msgs, clock, inflight>>

LEMMA StaysTouches == ASSUME TypeOK, Stays PROVE Touches
  BY DEF TypeOK, Stays, Touches

LEMMA LaneStep ==
    ASSUME IInv, inflight, Stays, Faithful(mem'),
           op' \in Operation, op'.kind = op.kind,
           op'.at \notin {"idle", "acquired", "prepare", "legacyDate", "cancel"},
           dirty' \in BOOLEAN, pending' \in BOOLEAN, faults' \in Nat
    PROVE  /\ TypeOK' /\ LaneMarks' /\ NoLostUpdate' /\ DoubtIsRemembered' /\ LateWrites'
           /\ GoneIsEmpty' /\ EmptyBeforeOpening' /\ CurrentOfItsRun'
  BY TouchStep, StaysTouches DEF IInv

LEMMA QuietStep ==
    ASSUME IInv, inflight, Stays, Faithful(mem'),
           op' \in Operation, op'.kind = op.kind, op'.at \in Quiet,
           dirty' \in BOOLEAN, pending' \in BOOLEAN, faults' \in Nat
    PROVE  IInv'
  BY QuietTouch, StaysTouches DEF IInv

-----------------------------------------------------------------------------
(* The steps that only read, fail or refuse.                               *)

LEMMA PrepareRefusedStep == ASSUME IInv, PrepareRefused PROVE IInv'
  <1>1. TypeOK /\ inflight
    BY Marked DEF IInv, PrepareRefused, At
  <1>2. Stays /\ UNCHANGED <<dirty, pending, faults>>
    BY DEF PrepareRefused, Stays, Aside, db, wake
  <1>3. PICK result \in {"error", "norows"} : op' = Ended("done", result)
    BY DEF PrepareRefused, Return
  <1>4. Faithful(mem')
    BY FaithfulMemories DEF PrepareRefused
  <1>5. QED
    BY <1>1, <1>2, <1>3, <1>4, QuietStep, Ending DEF Quiet, Places, TypeOK

LEMMA NotifyStep == ASSUME IInv, Notify PROVE IInv'
  <1>1. TypeOK /\ inflight
    BY Marked DEF IInv, Notify, At
  <1>2. Stays /\ UNCHANGED <<mem, dirty, pending>> /\ faults' \in Nat
    BY <1>1 DEF Notify, Stays, Aside, db, wake, Fault, TypeOK
  <1>3. PICK result \in {"ok", "error"} : op' = Ended("done", result)
    BY DEF Notify, Return
  <1>4. Faithful(mem')
    BY <1>2, FaithfulMemories DEF Faithful, Unnoted
  <1>5. QED
    BY <1>1, <1>2, <1>3, <1>4, QuietStep, Ending DEF Quiet, Places, TypeOK

LEMMA LegacyMessageDateStep == ASSUME IInv, LegacyMessageDate PROVE IInv'
  <1>1. TypeOK /\ inflight
    BY Marked DEF IInv, LegacyMessageDate, At
  <1>2. UNCHANGED <<row, ghost, msgs, clock, inflight, dirty, pending, faults>>
    BY DEF LegacyMessageDate, db, wake
  <1>3. PICK result \in {"ok", "error"} :
           /\ op' = Ended("done", result)
           /\ callers' \in {callers, callers \cup {"restore"}}
    BY DEF LegacyMessageDate, Return
  <1>4. Faithful(mem')
    BY FaithfulMemories DEF LegacyMessageDate
  <1>5. op.kind = "legacyDate" /\ "close" \notin callers
    BY DEF IInv, LaneMarks, CloseIsMeant, LegacyMessageDate, At, SchedulerKinds
  <1>6. op' \in Operation /\ op'.kind = "legacyDate" /\ op'.at = "done"
    BY <1>1, <1>3, <1>5, Ending DEF Places
  <1>7. TypeOK'
    BY <1>2, <1>3, <1>4, <1>6 DEF IInv, TypeOK, Faithful
  <1>8. LaneMarks' /\ NoLostUpdate' /\ DoubtIsRemembered' /\ DrawsTheRun'
    BY <1>1, <1>2, <1>4, <1>6
       DEF IInv, LaneMarks, NoLostUpdate, DoubtIsRemembered, DrawsTheRun, Drawing, Unnoted,
           Faithful, At, NoOp
  <1>9. LateWrites' /\ GoneIsEmpty' /\ EmptyBeforeOpening' /\ CurrentOfItsRun'
    BY <1>2, <1>4 DEF IInv, LateWrites, GoneIsEmpty, EmptyBeforeOpening, CurrentOfItsRun,
                      Faithful, RunConflict
  <1>10. CloseIsMeant'
    BY <1>2, <1>3, <1>4, <1>5, <1>6
       DEF IInv, CloseIsMeant, Closing, NothingToClose, Withdrawn, FinalDrawing, Drawing,
           Faithful, SchedulerKinds, At
  <1>11. QED
    BY <1>7, <1>8, <1>9, <1>10 DEF IInv

LEMMA ReadFailsStep == ASSUME IInv, ReadFails PROVE IInv'
  <1>1. TypeOK /\ inflight
    BY Marked DEF IInv, ReadFails, At
  <1>2. Stays /\ UNCHANGED <<mem, dirty, pending>> /\ faults' \in Nat
    BY <1>1 DEF ReadFails, Stays, Aside, db, wake, Fault, TypeOK
  <1>3. PICK place \in {"cleanup", "done"} : op' = Ended(place, "error")
    BY DEF ReadFails, Return, ToCleanup
  <1>4. Faithful(mem')
    BY <1>2, FaithfulMemories DEF Faithful, Unnoted
  <1>5. QED
    BY <1>1, <1>2, <1>3, <1>4, QuietStep, Ending DEF Quiet, Places, TypeOK

LEMMA SnapshotFailsStep == ASSUME IInv, SnapshotFails PROVE IInv'
  <1>1. TypeOK /\ inflight
    BY Marked DEF IInv, SnapshotFails, At
  <1>2. Stays /\ UNCHANGED <<dirty, pending>> /\ faults' \in Nat
    BY <1>1 DEF SnapshotFails, Stays, Aside, db, wake, Fault, TypeOK
  <1>3. PICK place \in {"cleanup", "done"} : op' = Ended(place, "error")
    BY DEF SnapshotFails, Return, ToCleanup
  <1>4. Faithful(mem')
    BY FaithfulMemories DEF SnapshotFails
  <1>5. QED
    BY <1>1, <1>2, <1>3, <1>4, QuietStep, Ending DEF Quiet, Places, TypeOK

-----------------------------------------------------------------------------
(* Refreshing and reposting.                                               *)

LEMMA RefreshStep == ASSUME IInv, Refresh PROVE IInv'
  <1>1. TypeOK /\ inflight
    BY Marked DEF IInv, Refresh, At
  <1>2. Stays /\ UNCHANGED <<dirty, pending, faults>>
    BY DEF Refresh, Stays, Aside, db, wake
  <1>3. CASE mem.closing /\ Goto("close") /\ UNCHANGED mem
    <2>1. /\ op' \in Operation /\ op'.kind = op.kind /\ op'.at = "close"
          /\ op' = [op EXCEPT !.at = "close"]
      BY <1>1, <1>3, Going DEF Goto, Places
    <2>2. Faithful(mem')
      BY <1>3, FaithfulMemories DEF Faithful, Unnoted
    <2>3. DrawsTheRun'
      BY <2>1 DEF DrawsTheRun, Drawing, At
    <2>4. CloseIsMeant'
      BY <1>2, <1>3, <2>1 DEF IInv, CloseIsMeant, Closing, FinalDrawing, Drawing, At, Stays
    <2>5. QED
      BY <1>1, <1>2, <2>1, <2>2, <2>3, <2>4, LaneStep DEF IInv, TypeOK
  <1>4. CASE CanRead /\ mem' = Settled /\ Goto("render")
    <2>1. /\ op' \in Operation /\ op'.kind = op.kind /\ op'.at = "render"
      BY <1>1, <1>4, Going DEF Goto, Places
    <2>2. Faithful(mem') /\ mem'.publication = NoPublication
      BY <1>1, <1>4, FaithfulMemories, Remembering
    <2>3. DrawsTheRun'
      BY <2>1, <2>2 DEF DrawsTheRun, Drawing, At
    <2>4. CloseIsMeant'
      BY <1>2, <2>1, <2>2 DEF IInv, CloseIsMeant, Closing, NothingToClose, Withdrawn, FinalDrawing,
         Drawing, At, Stays, Faithful, Unnoted
    <2>5. QED
      BY <1>1, <1>2, <2>1, <2>2, <2>3, <2>4, LaneStep DEF IInv, TypeOK
  <1>5. CASE CanRead /\ mem' = Settled /\ ToCleanup("norows")
    <2>1. Faithful(mem')
      BY <1>5, FaithfulMemories
    <2>2. QED
      BY <1>1, <1>2, <1>5, <2>1, QuietStep, Ending DEF Quiet, Places, TypeOK, ToCleanup
  <1>6. QED
    BY <1>3, <1>4, <1>5 DEF Refresh

(* Steps that begin or continue a drawing which accepts presses.           *)
LEMMA DrawingStep ==
    ASSUME IInv, inflight, Stays, Faithful(mem'),
           op' \in Operation, op'.kind = op.kind, op'.at \in {"edit", "recheck", "send"},
           op'.snap.live, row.exists => op'.snap.run = row.run /\ row.run # NoRun,
           mem'.publication = NoPublication,
           ghost.kind \in {"none", "mutate", "bounds", "delete"},
           dirty' \in BOOLEAN, pending' \in BOOLEAN, faults' \in Nat
    PROVE  IInv'
  <1>1. DrawsTheRun'
    BY DEF DrawsTheRun, Drawing, At, Stays
  <1>2. CloseIsMeant'
    BY DEF IInv, CloseIsMeant, Closing, NothingToClose, Withdrawn, FinalDrawing, Drawing, At, Stays, Faithful, Unnoted
  <1>3. QED
    BY <1>1, <1>2, LaneStep DEF IInv

LEMMA RenderStep == ASSUME IInv, Render PROVE IInv'
  <1>1. TypeOK /\ inflight /\ Unnoted
    BY Marked, ReadMeansSettled DEF IInv, Render, At
  <1>2. Stays /\ UNCHANGED <<pending, faults>>
    BY DEF Render, Stays, Aside, db
  <1>3. Faithful(mem') /\ mem'.publication = mem.publication
    BY <1>1, FaithfulMemories, Remembering DEF Render, TypeOK, Memory
  <1>4. CASE NothingToDraw
    <2>1. PICK result \in {"ok", "norows"} : ToCleanup(result) /\ UNCHANGED dirty
      BY <1>4 DEF Render
    <2>2. QED
      BY <1>1, <1>2, <1>3, <2>1, QuietStep, Ending DEF Quiet, Places, TypeOK, ToCleanup
  <1>5. CASE ~NothingToDraw
    <2>1. PICK place \in {"recheck", "edit"} :
             op' = [op EXCEPT !.at = place, !.snap = SnapshotOf(row, TRUE)]
      BY <1>5 DEF Render
    <2>2. dirty' = FALSE
      BY <1>5 DEF Render
    <2>3. row.run # NoRun /\ mem'.publication = NoPublication
      BY <1>3, <1>5 DEF NothingToDraw, Active, IInv, DrawsTheRun, Render, At
    <2>4. place \in Places
      BY DEF Places
    <2>5. /\ op' \in Operation /\ op'.kind = op.kind /\ op'.at = place
          /\ op'.snap.live /\ op'.snap.run = row.run
      BY <1>1, <2>1, <2>4, GoingWith
    <2>6. QED
      BY <1>1, <1>2, <1>3, <2>2, <2>3, <2>5, DrawingStep DEF TypeOK, Unnoted
  <1>6. QED
    BY <1>4, <1>5

LEMMA RecheckStep == ASSUME IInv, Recheck PROVE IInv'
  <1>1. TypeOK /\ inflight /\ At("recheck")
    BY Marked DEF IInv, Recheck, At
  <1>2. Stays /\ UNCHANGED <<mem, dirty, pending, faults>>
    BY DEF Recheck, Stays, Aside, db, wake
  <1>3. Faithful(mem')
    BY <1>2, FaithfulMemories DEF Faithful, Unnoted
  <1>4. CASE ToCleanup("ok")
    BY <1>1, <1>2, <1>3, <1>4, QuietStep, Ending DEF Quiet, Places, TypeOK, ToCleanup
  <1>5. CASE ~mem.closing /\ Goto("send")
    <2>1. /\ op' \in Operation /\ op'.kind = op.kind /\ op'.at = "send" /\ op'.snap = op.snap
      BY <1>1, <1>5, Going DEF Goto, Places
    <2>2. op.snap.live
      BY <1>1 DEF IInv, DrawsTheRun
    <2>3. /\ row.exists => op.snap.run = row.run /\ row.run # NoRun
          /\ mem'.publication = NoPublication
          /\ ghost.kind \in {"none", "mutate", "bounds", "delete"}
      BY <1>1, <1>2, <2>2 DEF IInv, DrawsTheRun, Drawing, At
    <2>4. QED
      BY <1>1, <1>2, <1>3, <1>5, <2>1, <2>2, <2>3, DrawingStep DEF TypeOK
  <1>6. QED
    BY <1>4, <1>5 DEF Recheck

LEMMA RepostStep == ASSUME IInv, Repost PROVE IInv'
  <1>1. TypeOK /\ inflight
    BY Marked DEF IInv, Repost, At
  <1>2. Stays /\ UNCHANGED <<pending, faults>>
    BY DEF Repost, Stays, Aside, db
  <1>3. CASE Return("error") /\ mem' \in {mem, Synced} /\ (mem' = mem \/ CanRead) /\ UNCHANGED dirty
    <2>1. Faithful(mem')
      BY <1>3, FaithfulMemories DEF Faithful, Unnoted
    <2>2. QED
      BY <1>1, <1>2, <1>3, <2>1, QuietStep, Ending DEF Quiet, Places, TypeOK, Return
  <1>4. CASE /\ CanRead /\ Accepts(op.ref) /\ mem' = Settled /\ dirty' = FALSE
             /\ op' = [op EXCEPT !.at = "send", !.snap = SnapshotOf(row, TRUE)]
    <2>2. /\ op' \in Operation /\ op'.kind = op.kind /\ op'.at = "send"
          /\ op'.snap.live /\ op'.snap.run = row.run
      BY <1>1, <1>4, GoingWith DEF Places
    <2>3. /\ Faithful(mem') /\ mem'.publication = NoPublication
          /\ ghost.kind \in {"none", "mutate", "bounds", "delete"} /\ row.run # NoRun
      BY <1>1, <1>4, FaithfulMemories, Remembering, ReadMeansSettled DEF Accepts, Unnoted
    <2>4. QED
      BY <1>1, <1>2, <1>4, <2>2, <2>3, DrawingStep DEF TypeOK
  <1>5. QED
    BY <1>3, <1>4 DEF Repost

-----------------------------------------------------------------------------
(* Drawing and cleaning.                                                   *)

(* A drawing of the lane holder's snapshot is one of the current run.      *)
LEMMA Drawings ==
    ASSUME IInv, Drawing, NEW m
    PROVE  /\ Drawn(m, op.snap) \in [Messages -> Message]
           /\ \A n \in Messages : Drawn(m, op.snap)[n].show = "live" =>
                 \/ Drawn(m, op.snap)[n] = msgs[n] \/ Drawn(m, op.snap)[n].run = row.run
                 \/ ~row.exists /\ ghost.kind # "publish"
           /\ m \in Messages /\ Drawn(m, op.snap)[m].show = "live" =>
                 op.snap.live /\ Drawn(m, op.snap)[m].run = op.snap.run
  <1>1. /\ op.snap.run \in Run0 /\ op.snap.rev \in Revisions
        /\ msgs \in [Messages -> Message]
    BY DEF IInv, TypeOK, Operation, Snapshot
  <1>2. op.snap.live => op.snap.run = row.run \/ (~row.exists /\ ghost.kind # "publish")
    BY DEF IInv, DrawsTheRun
  <1>3. Drawn(m, op.snap) \in [Messages -> Message]
    BY <1>1 DEF Drawn, Message
  <1>4. CASE op.snap.live
    BY <1>1, <1>2, <1>3, <1>4 DEF Drawn
  <1>5. CASE ~op.snap.live
    BY <1>1, <1>3, <1>5 DEF Drawn
  <1>6. QED
    BY <1>4, <1>5

LEMMA EditStep == ASSUME IInv, Edit PROVE IInv'
  <1>1. TypeOK /\ inflight /\ At("edit") /\ Drawing
    BY Marked DEF IInv, Edit, At, Drawing
  <1>2. /\ UNCHANGED <<row, ghost, mem, dirty, pending, callers, clock, inflight>>
        /\ faults' \in Nat
    BY <1>1 DEF Edit, Aside, db, wake, Fault, TypeOK
  <1>3. msgs' \in {msgs, Drawn(op.snap.mes, op.snap)}
    BY DEF Edit
  <1>4. Touches
    BY <1>1, <1>2, <1>3, Drawings DEF Touches, TypeOK
  <1>5. Faithful(mem') /\ mem'.publication = NoPublication
    BY <1>1, <1>2, FaithfulMemories DEF Faithful, Unnoted, IInv, DrawsTheRun
  <1>6. /\ ghost.kind \in {"none", "mutate", "bounds", "delete"}
        /\ op.snap.live /\ row.exists => row.run = op.snap.run /\ row.run # NoRun
        /\ ~op.snap.live => /\ mem.closing \/ (Withdrawn /\ op.kind = "delete")
                            /\ mem.cancellation = NoSnap
                            /\ row.mes # NoMessage
    BY <1>1 DEF IInv, DrawsTheRun, CloseIsMeant, FinalDrawing
  <1>7. CASE \E place \in {"cleanup", "done"}, result \in {"ok", "error"} : op' = Ended(place, result)
    BY <1>1, <1>2, <1>4, <1>5, <1>7, QuietTouch, Ending DEF Quiet, Places, TypeOK
  <1>8. CASE ~op.snap.live /\ ToFinishRun
    <2>1. op' \in Operation /\ op'.kind = op.kind /\ op'.at = "finishRun"
      BY <1>1, <1>8, Ending DEF ToFinishRun, Places
    <2>2. DrawsTheRun'
      BY <1>2, <1>6, <2>1 DEF DrawsTheRun, Drawing, At
    <2>3. CloseIsMeant'
      BY <1>1, <1>2, <1>6, <1>8, <2>1
         DEF IInv, CloseIsMeant, Closing, FinalDrawing, Drawing, At, NothingToClose, Withdrawn
    <2>4. QED
      BY <1>1, <1>2, <1>4, <1>5, <2>1, <2>2, <2>3, TouchStep DEF IInv, TypeOK
  <1>9. CASE Goto(IF op.snap.live THEN "recheck" ELSE "send") /\ UNCHANGED msgs
    <2>1. PICK place \in {"recheck", "send"} :
             op' = [op EXCEPT !.at = place] /\ (place = "recheck" => op.snap.live)
      BY <1>9 DEF Goto
    <2>2. place \in Places
      BY DEF Places
    <2>3. op' \in Operation /\ op'.kind = op.kind /\ op'.at = place /\ op'.snap = op.snap
      BY <1>1, <2>1, <2>2, Going
    <2>4. DrawsTheRun'
      BY <1>2, <1>5, <1>6, <2>1, <2>3 DEF DrawsTheRun, Drawing, At
    <2>5. CloseIsMeant'
      BY <1>1, <1>2, <2>3 DEF IInv, CloseIsMeant, Closing, NothingToClose, Withdrawn, FinalDrawing,
         Drawing, At
    <2>6. QED
      BY <1>1, <1>2, <1>4, <1>5, <2>3, <2>4, <2>5, TouchStep DEF IInv, TypeOK
  <1>10. QED
    BY <1>7, <1>8, <1>9 DEF Edit, ToCleanup, Return

LEMMA SendStep == ASSUME IInv, Send PROVE IInv'
  <1>1. TypeOK /\ inflight /\ At("send") /\ Drawing
    BY Marked DEF IInv, Send, At, Drawing
  <1>2. UNCHANGED <<row, ghost, mem, dirty, pending, callers, clock, inflight>>
    BY DEF Send, Aside, db, wake
  <1>3. Faithful(mem') /\ mem'.publication = NoPublication
    BY <1>1, <1>2, FaithfulMemories DEF Faithful, Unnoted, IInv, DrawsTheRun
  <1>4. CASE NotPublished /\ Fault /\ UNCHANGED msgs
    <2>1. \E place \in {"cleanup", "done"} : op' = Ended(place, "error")
      BY <1>4 DEF NotPublished, ToCleanup, Return
    <2>2. Stays /\ faults' \in Nat
      BY <1>1, <1>2, <1>4 DEF Stays, Fault, TypeOK
    <2>3. QED
      BY <1>1, <1>2, <1>3, <2>1, <2>2, QuietStep, Ending DEF Quiet, Places, TypeOK
  <1>5. ASSUME NEW m \in Messages, msgs' = Drawn(m, op.snap), UNCHANGED faults,
               op' = [op EXCEPT !.at = "persist", !.sent = m]
        PROVE  IInv'
    <2>1. Touches /\ (msgs'[m].show = "live" => op.snap.live /\ msgs'[m].run = op.snap.run)
      BY <1>1, <1>2, <1>5, Drawings DEF Touches
    <2>2. /\ op' \in Operation /\ op'.kind = op.kind /\ op'.at = "persist"
          /\ op'.snap = op.snap /\ op'.sent = m
      BY <1>1, <1>5 DEF TypeOK, Operation, Places
    <2>3. m # NoMessage
      OBVIOUS
    <2>4. DrawsTheRun'
      BY <1>1, <1>2, <1>3, <2>1, <2>2, <2>3 DEF IInv, DrawsTheRun, Drawing, At
    <2>5. CloseIsMeant'
      BY <1>1, <1>2, <2>2 DEF IInv, CloseIsMeant, Closing, NothingToClose, Withdrawn, FinalDrawing,
         Drawing, At
    <2>6. QED
      BY <1>1, <1>2, <1>3, <1>5, <2>1, <2>2, <2>4, <2>5, TouchStep DEF IInv, TypeOK
  <1>6. QED
    BY <1>4, <1>5 DEF Send

LEMMA CleanupStep == ASSUME IInv, Cleanup PROVE IInv'
  <1>1. TypeOK /\ inflight
    BY Marked DEF IInv, Cleanup, At
  <1>2. Stays /\ UNCHANGED <<dirty, pending, faults>>
    BY DEF Cleanup, Stays, Aside, db, wake
  <1>3. CASE Goto("done") /\ UNCHANGED mem
    <2>1. op' \in Operation /\ op'.kind = op.kind /\ op'.at = "done"
      BY <1>1, <1>3, Going DEF Goto, Places
    <2>2. Faithful(mem')
      BY <1>3, FaithfulMemories DEF Faithful, Unnoted
    <2>3. QED
      BY <1>1, <1>2, <2>1, <2>2, QuietStep DEF Quiet, Places, TypeOK
  <1>4. CASE /\ CanRead
             /\ mem' = [Synced EXCEPT !.cleanup =
                          [m \in Messages |-> IF m \in Kept THEN @[m] ELSE "none"]]
             /\ op' = [op EXCEPT !.at = IF Kept = {} THEN "done" ELSE "cleaning", !.todo = Kept]
    <2>1. Kept \in SUBSET Messages
      BY DEF Kept
    <2>2. PICK place \in {"done", "cleaning"} : op' = [op EXCEPT !.at = place, !.todo = Kept]
      BY <1>4
    <2>3. op' \in Operation /\ op'.kind = op.kind /\ op'.at = place
      BY <1>1, <2>1, <2>2 DEF TypeOK, Operation, Places
    <2>4. Synced \in Memory /\ Faithful(Synced)
      BY <1>1, <1>4, Remembering, FaithfulMemories
    <2>5. \A m \in Messages : Synced.cleanup[m] \in {"none", "retire", "close"}
      BY <2>4 DEF Memory
    <2>6. Faithful(mem')
      BY <1>4, <2>4, <2>5 DEF Faithful, Unnoted, Memory
    <2>7. QED
      BY <1>1, <1>2, <2>3, <2>6, QuietStep DEF Quiet, Places, TypeOK
  <1>5. QED
    BY <1>3, <1>4 DEF Cleanup

LEMMA CleanMessageStep == ASSUME IInv, NEW m \in Messages, CleanMessage(m) PROVE IInv'
  <1>1. TypeOK /\ inflight
    BY Marked DEF IInv, CleanMessage, At
  <1>2. /\ UNCHANGED <<row, ghost, dirty, pending, callers, clock, inflight>>
        /\ faults' \in Nat
    BY <1>1 DEF CleanMessage, Aside, db, wake, Fault, TypeOK
  <1>3. Cleaned(m) \in [Messages -> Message] /\ Cleaned(m)[m].show # "live"
    BY <1>1 DEF Cleaned, Dead, TypeOK, Message
  <1>4. Touches
    BY <1>1, <1>2, <1>3 DEF CleanMessage, Touches, Cleaned, TypeOK
  <1>5. mem' = mem \/ mem' = [mem EXCEPT !.cleanup[m] = "none"]
    BY DEF CleanMessage
  <1>6. Faithful(mem')
    BY <1>1, <1>5, FaithfulMemories DEF Faithful, Unnoted, Memory
  <1> DEFINE left == op.todo \ {m}
             next == IF left = {} THEN "done" ELSE "cleaning"
             moved == [op EXCEPT !.at = next, !.todo = left]
             failed == [op EXCEPT !.at = next, !.todo = left, !.result = "error"]
  <1>7. op' = moved \/ op' = failed
    BY DEF CleanMessage
  <1>8. op' \in Operation /\ op'.kind = op.kind /\ op'.at \in {"done", "cleaning"}
    <2>1. left \in SUBSET Messages /\ next \in {"done", "cleaning"}
      BY <1>1 DEF TypeOK, Operation
    <2>2. op \in Operation /\ next \in Places
      BY <1>1, <2>1 DEF TypeOK, Places
    <2>3. /\ moved \in Operation /\ moved.at = next /\ moved.kind = op.kind
          /\ failed \in Operation /\ failed.at = next /\ failed.kind = op.kind
      <3> HIDE DEF left, next
      <3>1. QED
        BY <2>1, <2>2 DEF Operation
    <2>4. QED
      BY <1>7, <2>1, <2>3
  <1>9. QED
    BY <1>1, <1>2, <1>4, <1>6, <1>8, QuietTouch DEF Quiet, Places, TypeOK

-----------------------------------------------------------------------------
(* The transactions of the lane holder.                                    *)

(* reconcileWrites: the memory keeps the doubt unless the write's fate is  *)
(* known.                                                                  *)
LEMMA Reconciling ==
    ASSUME NEW m \in Memory, m.uncertain, row' \in Row, NEW n \in ReconcileWrites(m)
    PROVE  /\ n \in Memory /\ n.closing = m.closing /\ n.deleting = m.deleting
           /\ n.cancellation \in {m.cancellation, NoSnap}
           /\ n.publication \in {m.publication, NoPublication}
           /\ n.uncertain \/ ghost' = NoGhost
  <1>1. CASE n = m
    BY <1>1
  <1>2. CASE ghost' = NoGhost /\ n = ResolveWrites([m EXCEPT !.uncertain = FALSE], row')
    <2> DEFINE known == [m EXCEPT !.uncertain = FALSE]
    <2>1. /\ known \in Memory /\ known.closing = m.closing /\ known.deleting = m.deleting
      BY DEF Memory
    <2>2. QED
      <3> HIDE DEF known
      <3>1. n = ResolveWrites(known, row')
        BY <1>2 DEF known
      <3>2. QED
        BY <1>2, <2>1, <3>1, Resolving
  <1>3. QED
    BY <1>1, <1>2 DEF ReconcileWrites

LEMMA PrepareStep == ASSUME IInv, Prepare PROVE IInv'
  <1>1. /\ TypeOK /\ inflight /\ Unnoted /\ row.exists
        /\ op.kind = "prepare" /\ op.run \in Run0
    BY Marked, ReadMeansSettled DEF IInv, LaneMarks, Prepare, At, TypeOK, Operation
  <1>2. callers = {} /\ ~mem.deleting /\ ~mem.closing
    BY <1>1 DEF IInv, CloseIsMeant, SchedulerKinds, Prepare, Receptive, TypeOK
  <1>3. /\ UNCHANGED <<dirty, pending, msgs, callers, clock, inflight>> /\ faults' \in Nat
    BY <1>1 DEF Prepare, Aside, wake, db, WriteApplies, WriteFails, Fault, TypeOK
  <1>4. PICK result \in {"ok", "error"} : op' = Ended("done", result)
    BY DEF Prepare, Return
  <1>5. op' \in Operation /\ op'.kind = op.kind /\ op'.at = "done"
    BY <1>1, <1>4, Ending DEF Places
  <1>6. /\ mem' \in Memory /\ mem'.deleting = mem.deleting
        /\ ghost' = NoGhost \/ mem'.uncertain
    <2>1. CASE mem' = Doubtful
      BY <1>1, <2>1, Remembering DEF TypeOK, Memory
    <2>2. CASE mem' = [Synced EXCEPT !.publish = @ /\ row.run # NoRun] /\ ghost' = NoGhost
      BY <1>1, <2>2, Remembering DEF Memory
    <2>3. QED
      BY <2>1, <2>2 DEF Prepare, WriteApplies
  <1>7. row' \in Row /\ ghost' \in Ghost
    <2>1. row' \in {row, BegunRow(op.run)}
      BY DEF Prepare, WriteApplies, WriteFails, db
    <2>2. ghost' = ghost \/ ghost' = [kind |-> "begin", run |-> op.run, mes |-> NoMessage]
      BY DEF Prepare, WriteApplies, WriteFails, db
    <2>3. [kind |-> "begin", run |-> op.run, mes |-> NoMessage] \in Ghost
      BY <1>1 DEF Ghost
    <2>4. QED
      BY <1>1, <2>1, <2>2, <2>3, Rows DEF TypeOK
  <1>8. TypeOK'
    BY <1>1, <1>3, <1>5, <1>6, <1>7 DEF TypeOK
  <1>9. LaneMarks' /\ NoLostUpdate' /\ DoubtIsRemembered' /\ DrawsTheRun'
    BY <1>1, <1>3, <1>5, <1>6 DEF LaneMarks, NoLostUpdate, DoubtIsRemembered, Unnoted, DrawsTheRun,
       Drawing, At, NoOp, NoGhost
  <1>10. CloseIsMeant'
    BY <1>1, <1>2, <1>3, <1>5, <1>6 DEF CloseIsMeant, Closing, FinalDrawing, Drawing, At
  <1>11. LateWrites'
    <2>1. CASE ghost' = NoGhost
      BY <2>1 DEF LateWrites, NoGhost
    <2>2. CASE UNCHANGED <<row, ghost>>
      BY <1>1, <1>2, <1>3, <2>2 DEF IInv, LateWrites, Unnoted, RunConflict
    <2>3. CASE UNCHANGED row /\ ~RunConflict(op.run)
               /\ ghost' = [kind |-> "begin", run |-> op.run, mes |-> NoMessage]
      BY <1>1, <2>3 DEF LateWrites, RunConflict
    <2>4. QED
      BY <2>1, <2>2, <2>3 DEF Prepare, WriteApplies, WriteFails, db
  <1>12. GoneIsEmpty'
    <2>1. CASE UNCHANGED row
      BY <2>1 DEF IInv, GoneIsEmpty
    <2>2. CASE row' = BegunRow(op.run) /\ ~RunConflict(op.run) /\ row.run # op.run
      <3>1. row' = [row EXCEPT !.run = op.run, !.mes = NoMessage, !.rev = 0]
        BY <2>2 DEF BegunRow
      <3>2. row'.exists /\ row'.mes = NoMessage /\ row'.rev = 0
        BY <1>1, <3>1 DEF TypeOK, Row
      <3>3. QED
        BY <3>2 DEF GoneIsEmpty
    <2>3. QED
      BY <2>1, <2>2 DEF Prepare, WriteApplies, WriteFails, db, BegunRow
  <1>13. EmptyBeforeOpening'
    BY <1>1, <1>3 DEF IInv, Prepare, EmptyBeforeOpening, WriteApplies, WriteFails, db, BegunRow,
       TypeOK, Row
  <1>14. CurrentOfItsRun'
    BY <1>1, <1>3 DEF IInv, Prepare, CurrentOfItsRun, WriteApplies, WriteFails, db, BegunRow,
       TypeOK, Row
  <1>15. QED
    BY <1>8, <1>9, <1>10, <1>11, <1>12, <1>13, <1>14 DEF IInv

(* What holds when a publication is about to be stored.                    *)
LEMMA Publishing ==
    ASSUME IInv, At("persist")
    PROVE  /\ TypeOK /\ inflight /\ op.sent \in Messages /\ mem.publication = NoPublication
           /\ ghost.kind \in {"none", "mutate", "bounds", "delete"}
           /\ row.exists =>
                 /\ msgs[op.sent].show = "live" => msgs[op.sent].run = row.run
                 /\ op.snap.live => row.run # NoRun
           /\ ~op.snap.live => /\ mem.closing \/ (Withdrawn /\ op.kind = "delete")
                               /\ mem.cancellation = NoSnap
                               /\ row.mes # NoMessage
  <1>1. TypeOK /\ inflight /\ Drawing
    BY Marked DEF IInv, At, Drawing
  <1>2. /\ op.sent \in Messages /\ mem.publication = NoPublication
        /\ ghost.kind \in {"none", "mutate", "bounds", "delete"}
        /\ row.exists => /\ op.snap.live => row.run # NoRun
                         /\ msgs[op.sent].show = "live" => msgs[op.sent].run = row.run
    BY <1>1 DEF IInv, DrawsTheRun, At, TypeOK, Operation
  <1>3. ~op.snap.live => /\ mem.closing \/ (Withdrawn /\ op.kind = "delete")
                         /\ mem.cancellation = NoSnap
                         /\ row.mes # NoMessage
    BY <1>1 DEF IInv, CloseIsMeant, DrawsTheRun, FinalDrawing
  <1>4. QED
    BY <1>1, <1>2, <1>3

LEMMA PublishedOK ==
    ASSUME IInv, At("persist"), row.exists, WriteApplies(PublishedRow(op.sent)),
           mem' = Persisted, AfterPersist("ok"), UNCHANGED wake, UNCHANGED msgs, Aside
    PROVE  IInv'
  <1>1. /\ ghost = NoGhost /\ row' = [row EXCEPT !.mes = op.sent]
        /\ UNCHANGED <<ghost, faults, dirty, pending, msgs, callers, clock, inflight>>
    BY DEF WriteApplies, PublishedRow, Aside, wake
  <1>2. PICK place \in {"cleanup", "finishRun"} :
           op' = Ended(place, "ok") /\ (place = "finishRun" => ~op.snap.live)
    BY DEF AfterPersist, ToCleanup, ToFinishRun
  <1>3. op' \in Operation /\ op'.kind = op.kind /\ op'.at = place
    BY <1>2, Publishing, Ending DEF Places
  <1>4. row' \in Row /\ row'.mes = op.sent /\ UNCHANGED <<row.exists, row.run, row.rev>>
    BY <1>1, Publishing DEF TypeOK, Row
  <1>5. /\ mem' \in Memory /\ mem'.publication = mem.publication
        /\ UNCHANGED <<mem.closing, mem.deleting, mem.cancellation>>
    <2>1. mem \in Memory /\ \A n \in Messages : mem.cleanup[n] \in {"none", "retire", "close"}
      BY Publishing DEF TypeOK, Memory
    <2>2. QED
      BY <2>1 DEF Persisted, Memory
  <1>6. TypeOK'
    BY <1>1, <1>3, <1>4, <1>5, Publishing DEF TypeOK
  <1>7. LaneMarks' /\ NoLostUpdate' /\ DoubtIsRemembered' /\ DrawsTheRun' /\ LateWrites'
    BY <1>1, <1>3, Publishing DEF LaneMarks, NoLostUpdate, DoubtIsRemembered, Unnoted, DrawsTheRun,
       LateWrites, Drawing, At, NoOp, NoGhost
  <1>8. GoneIsEmpty' /\ EmptyBeforeOpening' /\ CurrentOfItsRun'
    BY <1>1, <1>4, Publishing DEF IInv, GoneIsEmpty, EmptyBeforeOpening, CurrentOfItsRun
  <1>9. CloseIsMeant'
    BY <1>1, <1>2, <1>3, <1>4, <1>5, Publishing
       DEF IInv, CloseIsMeant, Closing, NothingToClose, Withdrawn, FinalDrawing, Drawing, At
  <1>10. QED
    BY <1>6, <1>7, <1>8, <1>9 DEF IInv

LEMMA PublishedInDoubt ==
    ASSUME IInv, At("persist"),
           \/ /\ row.exists /\ Fault
              /\ DoubtfulWrite([kind |-> "publish", run |-> NoRun, mes |-> op.sent],
                               PublishedRow(op.sent))
           \/ ~row.exists /\ UNCHANGED <<db, faults>>,
           mem' \in ReconcileWrites(Unpersisted), AfterPersist("error"), ScheduleUpdate,
           UNCHANGED msgs, Aside
    PROVE  IInv'
  <1> DEFINE publish == [kind |-> "publish", run |-> NoRun, mes |-> op.sent]
  <1>1. /\ UNCHANGED <<msgs, callers, clock, inflight>> /\ dirty' = TRUE
        /\ pending' \in BOOLEAN /\ faults' \in Nat
    BY Publishing DEF Aside, ScheduleUpdate, Fault, TypeOK
  <1>2. \/ ghost = NoGhost /\ ghost' = publish /\ row' = row /\ row.exists
        \/ ghost = NoGhost /\ ghost' = NoGhost /\ row' = PublishedRow(op.sent) /\ row.exists
        \/ ghost' = ghost /\ row' = row
    BY DEF DoubtfulWrite, db
  <1>3. PICK place \in {"cleanup", "done"} : op' = Ended(place, "error")
    BY DEF AfterPersist, NotPublished, ToCleanup, Return
  <1>4. op' \in Operation /\ op'.kind = op.kind /\ op'.at = place
    BY <1>3, Publishing, Ending DEF Places
  <1>5. publish \in Ghost
    BY Publishing DEF Ghost
  <1>6. row' \in Row /\ ghost' \in Ghost
    <2>1. row \in Row /\ ghost \in Ghost /\ PublishedRow(op.sent) \in Row
      BY Publishing, Rows DEF TypeOK
    <2> HIDE DEF publish
    <2>2. QED
      BY <1>2, <1>5, <2>1
  <1>7. /\ mem' \in Memory /\ (mem'.uncertain \/ ghost' = NoGhost)
        /\ UNCHANGED <<mem.closing, mem.deleting>>
        /\ mem'.cancellation \in {mem.cancellation, NoSnap}
    <2>1. op.ref \in Message0 /\ mem \in Memory
      BY Publishing DEF TypeOK, Operation
    <2>2. /\ Unpersisted \in Memory /\ Unpersisted.uncertain
          /\ Unpersisted.closing = mem.closing /\ Unpersisted.deleting = mem.deleting
          /\ Unpersisted.cancellation = mem.cancellation
      BY <2>1, Publishing DEF Unpersisted, Memory, Publication
    <2>3. QED
      BY <1>6, <2>2, Reconciling
  <1>8. TypeOK'
    BY <1>1, <1>4, <1>6, <1>7, Publishing DEF TypeOK
  <1>9. LaneMarks' /\ NoLostUpdate' /\ DoubtIsRemembered' /\ DrawsTheRun'
    BY <1>1, <1>4, <1>7, Publishing DEF LaneMarks, NoLostUpdate, DoubtIsRemembered, Unnoted, DrawsTheRun,
       Drawing, At, NoOp, NoGhost
  <1>10. LateWrites'
    <2>1. CASE ghost = NoGhost /\ ghost' = publish /\ row' = row /\ row.exists
      <3>1. op.sent # NoMessage /\ (row.run # NoRun \/ MayBeLegacy)
        BY <2>1, Publishing DEF IInv, DrawsTheRun, GoneIsEmpty
      <3>2. msgs[op.sent].show = "live" => msgs[op.sent].run = row.run
        BY <2>1, Publishing
      <3>3. ghost'.kind = "publish" /\ ghost'.mes = op.sent
        BY <2>1
      <3> HIDE DEF publish
      <3>4. QED
        BY <1>1, <2>1, <3>1, <3>2, <3>3 DEF LateWrites
    <2>2. CASE ghost' = NoGhost
      BY <2>2 DEF LateWrites, NoGhost
    <2>3. CASE ghost' = ghost /\ row' = row
      <3>1. UNCHANGED mem.closing
        BY <1>7
      <3>2. mem'.cancellation = NoSnap \/ mem'.cancellation = mem.cancellation
        BY <1>7
      <3>3. QED
        BY <1>1, <2>3, <3>1, <3>2 DEF IInv, LateWrites, RunConflict
    <2>4. QED
      BY <1>2, <2>1, <2>2, <2>3
  <1>11. GoneIsEmpty' /\ EmptyBeforeOpening'
    BY <1>1, <1>2, Publishing DEF IInv, GoneIsEmpty, EmptyBeforeOpening, PublishedRow, TypeOK, Row
  <1>12. CurrentOfItsRun'
    BY <1>1, <1>2, Publishing DEF IInv, CurrentOfItsRun, PublishedRow, TypeOK, Row
  <1>13. CloseIsMeant'
    <2>1. CASE UNCHANGED row
      BY <1>1, <1>2, <1>4, <1>7, <2>1, Publishing
         DEF IInv, CloseIsMeant, Closing, NothingToClose, Withdrawn, FinalDrawing, Drawing, At,
             NoGhost
    <2>2. CASE /\ row.exists /\ ghost' = NoGhost
               /\ row' = [row EXCEPT !.mes = op.sent]
      <3>1. UNCHANGED <<row.exists, row.run, row.rev>>
        BY <2>2, Publishing DEF TypeOK, Row
      <3>2. ~NothingToClose
        BY <2>2, Publishing DEF NothingToClose
      <3>3. QED
        BY <1>1, <1>4, <1>7, <2>2, <3>1, <3>2, Publishing
           DEF IInv, CloseIsMeant, Closing, Withdrawn, FinalDrawing, Drawing, At, NoGhost
    <2>3. QED
      BY <1>2, <2>1, <2>2 DEF PublishedRow
  <1>14. QED
    BY <1>8, <1>9, <1>10, <1>11, <1>12, <1>13 DEF IInv

LEMMA PersistPublicationStep == ASSUME IInv, PersistPublication PROVE IInv'
  BY PublishedOK, PublishedInDoubt DEF PersistPublication

-----------------------------------------------------------------------------
(* Closing and deleting.                                                   *)

LEMMA CloseStep == ASSUME IInv, Close PROVE IInv'
  <1>1. TypeOK /\ inflight /\ At("close") /\ Unnoted
    BY Marked, ReadMeansSettled DEF IInv, Close, At
  <1>2. Stays /\ UNCHANGED <<dirty, pending, faults>>
    BY DEF Close, Stays, Aside, db, wake
  <1>3. CASE ~row.exists /\ mem' = [Synced EXCEPT !.closing = FALSE] /\ Closed
    <2>1. PICK place \in {"deleteRow", "done"} :
             /\ op' = [op EXCEPT !.at = place] \/ op' = Ended(place, "ok")
             /\ place = "deleteRow" => op.kind = "delete"
      BY <1>3 DEF Closed, Goto, Return
    <2>2. place \in Places
      BY DEF Places
    <2>3. /\ op' \in Operation /\ op'.kind = op.kind /\ op'.at = place
          /\ place = "deleteRow" => op.kind = "delete"
      <3>1. CASE op' = [op EXCEPT !.at = place]
        BY <1>1, <2>1, <2>2, <3>1, Going
      <3>2. CASE op' = Ended(place, "ok")
        BY <1>1, <2>1, <2>2, <3>2, Ending
      <3>3. QED
        BY <2>1, <3>1, <3>2
    <2>4. mem' \in Memory /\ UNCHANGED <<mem.deleting, mem.cancellation>>
      <3>1. /\ Synced \in Memory /\ Synced.deleting = mem.deleting
            /\ Synced.cancellation = mem.cancellation
        BY <1>1, Remembering DEF Synced, Memory, TypeOK
      <3>2. QED
        BY <1>3, <3>1 DEF Memory
    <2>5. TypeOK'
      BY <1>1, <1>2, <2>3, <2>4 DEF TypeOK, Stays
    <2>6. LaneMarks' /\ NoLostUpdate' /\ DoubtIsRemembered' /\ DrawsTheRun' /\ LateWrites'
      BY <1>1, <1>2, <2>3 DEF IInv, LaneMarks, NoLostUpdate, DoubtIsRemembered, Unnoted,
         DrawsTheRun, LateWrites, Drawing, At, NoOp, Stays
    <2>7. GoneIsEmpty' /\ EmptyBeforeOpening' /\ CurrentOfItsRun'
      BY <1>2 DEF IInv, GoneIsEmpty, EmptyBeforeOpening, CurrentOfItsRun, Stays
    <2>8. CloseIsMeant'
      <3>1. NothingToClose'
        BY <1>1, <1>2, <1>3 DEF IInv, GoneIsEmpty, LateWrites, NothingToClose, Stays, Unnoted
      <3>2. QED
        BY <1>1, <1>2, <2>3, <2>4, <3>1
           DEF IInv, CloseIsMeant, NothingToClose, FinalDrawing, Drawing, At, Stays, Unnoted
    <2>9. QED
      BY <2>5, <2>6, <2>7, <2>8 DEF IInv
  <1>4. CASE row.exists /\ mem' = Settled
    <2>1. /\ Faithful(mem') /\ mem'.publication = NoPublication /\ mem'.cancellation = NoSnap
      BY <1>1, <1>4, FaithfulMemories, Remembering DEF Close
    <2>2. mem.closing \/ NothingToClose \/ (Withdrawn /\ op.kind = "delete")
      BY <1>1 DEF IInv, CloseIsMeant, Closing, Withdrawn
    <2>3. CASE ToFinishRun
      <3>1. op' \in Operation /\ op'.kind = op.kind /\ op'.at = "finishRun"
        BY <1>1, <2>3, Ending DEF ToFinishRun, Places
      <3>2. DrawsTheRun'
        BY <1>1, <1>2, <3>1 DEF DrawsTheRun, Drawing, At, Stays, Unnoted
      <3>3. CloseIsMeant'
        BY <1>1, <1>2, <2>1, <2>2, <3>1
           DEF IInv, CloseIsMeant, Closing, NothingToClose, Withdrawn, FinalDrawing,
               Drawing, At, Stays, Faithful
      <3>4. QED
        BY <1>1, <1>2, <2>1, <3>1, <3>2, <3>3, LaneStep DEF IInv, TypeOK
    <2>4. CASE /\ row.mes # NoMessage
               /\ op' = [op EXCEPT !.at = "edit", !.snap = SnapshotOf(row, FALSE)]
      <3>1. op' \in Operation /\ op'.kind = op.kind /\ op'.at = "edit" /\ ~op'.snap.live
        BY <1>1, <2>4, GoingWith DEF Places
      <3>2. DrawsTheRun'
        BY <1>1, <1>2, <2>1, <2>4, <3>1 DEF DrawsTheRun, Drawing, At, Stays, Unnoted
      <3>3. mem.closing \/ (Withdrawn /\ op.kind = "delete")
        BY <2>2, <2>4 DEF NothingToClose
      <3>4. CloseIsMeant'
        BY <1>2, <2>1, <2>4, <3>1, <3>3
           DEF IInv, CloseIsMeant, Closing, Withdrawn, NothingToClose, FinalDrawing,
               Drawing, At, Stays, Faithful
      <3>5. QED
        BY <1>1, <1>2, <2>1, <3>1, <3>2, <3>4, LaneStep DEF IInv, TypeOK
    <2>5. QED
      BY <1>4, <2>3, <2>4 DEF Close
  <1>5. QED
    BY <1>3, <1>4 DEF Close

LEMMA FinishRunStep == ASSUME IInv, FinishRun PROVE IInv'
  <1>1. /\ TypeOK /\ inflight /\ At("finishRun")
        /\ ghost.kind \in {"none", "mutate", "bounds", "delete"}
        /\ mem.cancellation = NoSnap /\ (mem.closing \/ NothingToClose \/ Withdrawn)
    BY Marked DEF IInv, FinishRun, At, DrawsTheRun, CloseIsMeant, Closing
  <1>2. UNCHANGED <<msgs, callers, clock, inflight>>
    BY DEF FinishRun, Aside
  <1>3. CASE /\ WriteApplies(IF row.exists THEN FinishedRow ELSE row)
             /\ mem' = [mem EXCEPT !.closing = FALSE, !.publish = FALSE]
             /\ Closed /\ UNCHANGED wake
    <2>1. PICK place \in {"deleteRow", "done"} :
             /\ op' = [op EXCEPT !.at = place] \/ op' = Ended(place, "ok")
             /\ place = "deleteRow" => op.kind = "delete"
      BY <1>3 DEF Closed, Goto, Return
    <2>2. place \in Places
      BY DEF Places
    <2>3. /\ op' \in Operation /\ op'.kind = op.kind /\ op'.at = place
          /\ place = "deleteRow" => op.kind = "delete"
      <3>1. CASE op' = [op EXCEPT !.at = place]
        BY <1>1, <2>1, <2>2, <3>1, Going
      <3>2. CASE op' = Ended(place, "ok")
        BY <1>1, <2>1, <2>2, <3>2, Ending
      <3>3. QED
        BY <2>1, <3>1, <3>2
    <2>4. /\ mem' \in Memory /\ UNCHANGED <<mem.deleting, mem.cancellation, mem.publication>>
      BY <1>1, <1>3 DEF Memory, TypeOK
    <2>5. ghost = NoGhost /\ UNCHANGED <<ghost, faults, dirty, pending>>
      BY <1>3 DEF WriteApplies, wake
    <2>6. row' \in Row /\ row'.run = NoRun /\ row'.mes = NoMessage /\ row'.rev = 0
      BY <1>1, <1>3, Rows DEF WriteApplies, IInv, GoneIsEmpty, TypeOK
    <2>7. TypeOK'
      BY <1>1, <1>2, <2>3, <2>4, <2>5, <2>6 DEF TypeOK
    <2>8. LaneMarks' /\ NoLostUpdate' /\ DoubtIsRemembered' /\ DrawsTheRun' /\ LateWrites'
      BY <1>1, <1>2, <2>3, <2>5 DEF LaneMarks, NoLostUpdate, DoubtIsRemembered, Unnoted, DrawsTheRun,
         LateWrites, Drawing, At, NoOp, NoGhost
    <2>9. GoneIsEmpty' /\ EmptyBeforeOpening' /\ CurrentOfItsRun'
      BY <2>6 DEF GoneIsEmpty, EmptyBeforeOpening, CurrentOfItsRun
    <2>10. CloseIsMeant'
      <3>1. NothingToClose'
        BY <2>5, <2>6 DEF NothingToClose, NoGhost
      <3>2. QED
        BY <1>1, <1>2, <2>3, <2>4, <2>5, <2>6, <3>1
           DEF IInv, CloseIsMeant, FinalDrawing, Drawing, At, NoGhost, Unnoted
    <2>11. QED
      BY <2>7, <2>8, <2>9, <2>10 DEF IInv
  <1>4. CASE /\ WriteFails([kind |-> "finish", run |-> NoRun, mes |-> NoMessage])
             /\ mem' = Doubtful /\ Return("error") /\ ScheduleUpdate
    <2> DEFINE finish == [kind |-> "finish", run |-> NoRun, mes |-> NoMessage]
    <2>1. op' \in Operation /\ op'.kind = op.kind /\ op'.at = "done"
      BY <1>1, <1>4, Ending DEF Return, Places
    <2>2. finish \in Ghost
      BY DEF Ghost
    <2>3. /\ ghost' = ghost \/ (ghost = NoGhost /\ ghost' = finish)
          /\ UNCHANGED row /\ faults' \in Nat
      BY <1>1, <1>4 DEF WriteFails, Fault, TypeOK
    <2>4. /\ mem' \in Memory /\ mem'.uncertain
          /\ UNCHANGED <<mem.closing, mem.deleting, mem.cancellation>>
      BY <1>1, <1>4, Remembering DEF Memory, TypeOK
    <2>5. dirty' \in BOOLEAN /\ pending' \in BOOLEAN
      BY <1>1, <1>4 DEF ScheduleUpdate, TypeOK
    <2>6. TypeOK'
      BY <1>1, <1>2, <2>1, <2>2, <2>3, <2>4, <2>5 DEF TypeOK
    <2>7. LaneMarks' /\ NoLostUpdate' /\ DoubtIsRemembered' /\ DrawsTheRun'
      BY <1>1, <1>2, <2>1, <2>4 DEF LaneMarks, NoLostUpdate, DoubtIsRemembered, Unnoted, DrawsTheRun,
         Drawing, At, NoOp
    <2>8. LateWrites'
      BY <1>1, <1>2, <2>3, <2>4 DEF IInv, LateWrites, NothingToClose, Withdrawn, CloseIsMeant
    <2>9. GoneIsEmpty' /\ EmptyBeforeOpening' /\ CurrentOfItsRun'
      BY <1>2, <2>3 DEF IInv, GoneIsEmpty, EmptyBeforeOpening, CurrentOfItsRun
    <2>10. CloseIsMeant'
      <3>1. mem'.closing \/ NothingToClose' \/ Withdrawn'
        BY <1>1, <1>2, <2>1, <2>3, <2>4 DEF NothingToClose, Withdrawn
      <3>2. QED
        BY <1>1, <1>2, <2>1, <2>3, <2>4, <3>1 DEF IInv, CloseIsMeant, FinalDrawing, Drawing, At
    <2>11. QED
      BY <2>6, <2>7, <2>8, <2>9, <2>10 DEF IInv
  <1>5. QED
    BY <1>3, <1>4 DEF FinishRun

LEMMA DeleteScheduleEntryStep == ASSUME IInv, DeleteScheduleEntry PROVE IInv'
  <1> DEFINE delete == [kind |-> "delete", run |-> NoRun, mes |-> NoMessage]
  <1>1. /\ TypeOK /\ inflight /\ op.kind = "delete"
        /\ row.mes = NoMessage /\ row.rev = 0 /\ (row.run = NoRun \/ MayBeLegacy)
    BY Marked DEF IInv, DeleteScheduleEntry, At, CloseIsMeant
  <1>2. /\ UNCHANGED <<mem, dirty, pending, msgs, callers, clock, inflight>>
        /\ faults' \in Nat
    BY <1>1 DEF DeleteScheduleEntry, Aside, wake, Fault, TypeOK, WriteApplies
  <1>3. PICK result \in {"ok", "error"} : op' = Ended("done", result)
    BY DEF DeleteScheduleEntry, Return
  <1>4. op' \in Operation /\ op'.kind = op.kind /\ op'.at = "done"
    BY <1>1, <1>3, Ending DEF Places
  <1>5. delete \in Ghost
    BY DEF Ghost
  <1>6. \/ UNCHANGED <<row, ghost>>
        \/ ghost = NoGhost /\ ghost' = delete /\ UNCHANGED row
        \/ ghost = NoGhost /\ row' = GoneRow /\ UNCHANGED ghost
    BY DEF DeleteScheduleEntry, WriteApplies, DoubtfulWrite
  <1>7. /\ row' \in Row /\ row'.mes = NoMessage /\ row'.rev = 0
        /\ row'.run = NoRun \/ UNCHANGED row
    BY <1>1, <1>6, Rows DEF TypeOK
  <1>8. TypeOK'
    BY <1>1, <1>2, <1>4, <1>5, <1>6, <1>7 DEF TypeOK
  <1>9. LaneMarks' /\ NoLostUpdate' /\ DoubtIsRemembered' /\ DrawsTheRun'
    BY <1>1, <1>2, <1>4, <1>6 DEF IInv, LaneMarks, NoLostUpdate, DoubtIsRemembered, Unnoted,
       DrawsTheRun, Drawing, At, NoOp
  <1>10. LateWrites'
    <2>1. CASE UNCHANGED <<row, ghost>>
      BY <1>2, <2>1 DEF IInv, LateWrites, RunConflict
    <2>2. CASE ghost' = delete /\ UNCHANGED row
      BY <1>1, <2>2 DEF LateWrites
    <2>3. CASE ghost' = NoGhost
      BY <2>3 DEF LateWrites, NoGhost
    <2>4. QED
      BY <1>6, <2>1, <2>2, <2>3
  <1>11. GoneIsEmpty' /\ EmptyBeforeOpening' /\ CurrentOfItsRun'
    BY <1>7 DEF IInv, GoneIsEmpty, EmptyBeforeOpening, CurrentOfItsRun
  <1>12. CloseIsMeant'
    <2>1. NothingToClose => NothingToClose'
      BY <1>6, <1>7 DEF NothingToClose
    <2>2. QED
      BY <1>1, <1>2, <1>4, <1>6, <1>7, <2>1
         DEF IInv, CloseIsMeant, Closing, Withdrawn, FinalDrawing, Drawing, At, NoGhost
  <1>13. QED
    BY <1>8, <1>9, <1>10, <1>11, <1>12 DEF IInv

-----------------------------------------------------------------------------
(* CancelPending.                                                          *)

(* The memory that a cancellation in doubt leaves, before it is settled.   *)
LEMMA Canceling ==
    ASSUME TypeOK, NEW read \in {Settled, Synced}, NEW s \in Snapshot
    PROVE  LET canceled == [read EXCEPT !.cancellation = s]
               applied == [canceled EXCEPT !.publish = FALSE]
               doubtful == [canceled EXCEPT !.uncertain = TRUE] IN
           /\ applied \in Memory /\ applied.closing = mem.closing
           /\ applied.deleting = mem.deleting
           /\ doubtful \in Memory /\ doubtful.closing = mem.closing
           /\ doubtful.deleting = mem.deleting /\ doubtful.uncertain
  <1>1. read \in Memory /\ read.closing = mem.closing /\ read.deleting = mem.deleting
    BY Remembering DEF TypeOK, Memory
  <1>2. QED
    BY <1>1 DEF Memory

LEMMA CancelPendingStep == ASSUME IInv, CancelPending PROVE IInv'
  <1>1. TypeOK /\ inflight /\ Unnoted
    BY Marked, ReadMeansSettled DEF IInv, CancelPending, At
  <1>2. UNCHANGED <<msgs, callers, clock, inflight>>
    BY DEF CancelPending, Aside
  <1> DEFINE read == IF row.exists THEN Settled ELSE Synced
             canceled == [read EXCEPT !.cancellation = SnapshotOf(row, FALSE)]
             finish == [kind |-> "finish", run |-> NoRun, mes |-> NoMessage]
  <1>3. read \in {Settled, Synced} /\ Faithful(read)
    BY FaithfulMemories DEF CancelPending
  <1>4. SnapshotOf(row, FALSE) \in Snapshot
    BY <1>1 DEF TypeOK, Row, SnapshotOf, Snapshot
  <1>5. CASE /\ mem' = read /\ UNCHANGED <<db, wake, faults>>
             /\ ToCleanup("ok") \/ Return("error")
    <2>1. \E place \in {"cleanup", "done"}, result \in {"ok", "error"} : op' = Ended(place, result)
      BY <1>5 DEF ToCleanup, Return
    <2>2. Stays /\ UNCHANGED <<dirty, pending, faults>>
      BY <1>2, <1>5 DEF Stays, db, wake
    <2>3. QED
      BY <1>1, <1>3, <1>5, <2>1, <2>2, QuietStep, Ending DEF Quiet, Places, TypeOK
  <1>6. CASE /\ Cancellable
             /\ \/ /\ WriteApplies(FinishedRow)
                   /\ mem' = ResolveWrites([canceled EXCEPT !.publish = FALSE], row')
                   /\ ToCleanup("ok") /\ UNCHANGED wake
                \/ /\ Fault /\ DoubtfulWrite(finish, FinishedRow)
                   /\ mem' \in ReconcileWrites([canceled EXCEPT !.uncertain = TRUE])
                   /\ Return("error") /\ ScheduleUpdate
    <2>1. /\ ~mem.closing /\ row.run # NoRun /\ row.rev = 0
          /\ Closing => Withdrawn
      BY <1>1, <1>6 DEF Cancellable, IInv, EmptyBeforeOpening, CloseIsMeant, NothingToClose
    <2>2. \/ ghost' = NoGhost /\ row' \in {row, FinishedRow}
          \/ ghost' = finish /\ row' = row
          \/ UNCHANGED <<row, ghost>>
      BY <1>1, <1>6 DEF WriteApplies, DoubtfulWrite
    <2>3. row' \in Row /\ finish \in Ghost /\ ghost' \in Ghost
      <3>1. finish \in Ghost
        BY DEF Ghost
      <3>2. row \in Row /\ ghost \in Ghost /\ FinishedRow \in Row
        BY <1>1, Rows DEF TypeOK
      <3> HIDE DEF finish
      <3>3. QED
        BY <2>2, <3>1, <3>2, ConstantsTyped
    <2>4. PICK place \in {"cleanup", "done"}, result \in {"ok", "error"} : op' = Ended(place, result)
      BY <1>6 DEF ToCleanup, Return
    <2>5. op' \in Operation /\ op'.kind = op.kind /\ op'.at = place
      BY <1>1, <2>4, Ending DEF Places
    <2>6. dirty' \in BOOLEAN /\ pending' \in BOOLEAN /\ faults' \in Nat
      <3>1. UNCHANGED <<dirty, pending, faults>> \/ (ScheduleUpdate /\ Fault)
        BY <1>6 DEF WriteApplies, wake
      <3>2. QED
        BY <1>1, <3>1, Scheduling, Failing DEF TypeOK
    <2>7. /\ mem' \in Memory /\ UNCHANGED <<mem.closing, mem.deleting>>
          /\ mem'.uncertain \/ ghost' = NoGhost
      <3> DEFINE applied == [canceled EXCEPT !.publish = FALSE]
                 doubtful == [canceled EXCEPT !.uncertain = TRUE]
      <3>1. /\ applied \in Memory /\ applied.closing = mem.closing
            /\ applied.deleting = mem.deleting
            /\ doubtful \in Memory /\ doubtful.closing = mem.closing
            /\ doubtful.deleting = mem.deleting /\ doubtful.uncertain
        BY <1>1, <1>3, <1>4, Canceling
      <3>2. \/ mem' = ResolveWrites(applied, row') /\ ghost' = NoGhost
            \/ mem' \in ReconcileWrites(doubtful)
        BY <1>6 DEF WriteApplies
      <3> HIDE DEF applied, doubtful
      <3>3. CASE mem' = ResolveWrites(applied, row') /\ ghost' = NoGhost
        BY <2>3, <3>1, <3>3, Resolving
      <3>4. CASE mem' \in ReconcileWrites(doubtful)
        BY <2>3, <3>1, <3>4, Reconciling
      <3>5. QED
        BY <3>2, <3>3, <3>4
    <2>8. TypeOK'
      BY <1>1, <1>2, <2>3, <2>5, <2>6, <2>7 DEF TypeOK
    <2>9. LaneMarks' /\ NoLostUpdate' /\ DoubtIsRemembered' /\ DrawsTheRun'
      BY <1>1, <1>2, <2>5, <2>7 DEF LaneMarks, NoLostUpdate, DoubtIsRemembered, Unnoted, DrawsTheRun,
         Drawing, At, NoOp, NoGhost
    <2>10. LateWrites'
      <3>1. CASE UNCHANGED <<row, ghost>>
        BY <1>1, <2>1, <3>1 DEF IInv, LateWrites, Unnoted
      <3>2. CASE ~UNCHANGED <<row, ghost>>
        BY <2>1, <2>2, <3>2 DEF LateWrites, NoGhost
      <3>3. QED
        BY <3>1, <3>2
    <2>11. GoneIsEmpty' /\ EmptyBeforeOpening' /\ CurrentOfItsRun'
      BY <1>1, <1>2, <2>2, Rows DEF IInv, GoneIsEmpty, EmptyBeforeOpening, CurrentOfItsRun
    <2>12. CloseIsMeant'
      <3>1. row'.rev = 0 /\ (ghost'.kind # "mutate" \/ ghost' = ghost)
        BY <2>1, <2>2, Rows, <1>1 DEF NoGhost
      <3>2. QED
        BY <1>2, <2>1, <2>5, <2>7, <3>1
           DEF IInv, CloseIsMeant, Closing, Withdrawn, FinalDrawing, Drawing, At
    <2>13. QED
      BY <2>8, <2>9, <2>10, <2>11, <2>12 DEF IInv
  <1>7. QED
    BY <1>5, <1>6 DEF CancelPending

-----------------------------------------------------------------------------
(* The lane and the workers.                                               *)

(* Everything but the lane holder, the owed render and the callers stays.  *)
Calm == UNCHANGED <<row, ghost, msgs, clock, faults>>

(* What does not speak of the lane is kept by such steps.                  *)
LEMMA CalmStep ==
    ASSUME IInv, Calm, UNCHANGED <<mem.uncertain, mem.closing, mem.cancellation>>
    PROVE  /\ DoubtIsRemembered' /\ LateWrites' /\ GoneIsEmpty' /\ EmptyBeforeOpening'
           /\ CurrentOfItsRun'
  BY DEF IInv, Calm, DoubtIsRemembered, Unnoted, LateWrites, RunConflict, GoneIsEmpty, EmptyBeforeOpening,
     CurrentOfItsRun

LEMMA AcquireStep ==
    ASSUME IInv, NEW kind \in Kinds \ {"update"}, NEW r \in Run0, NEW m \in Message0,
           Acquire(kind, r, m), callers' \in SUBSET callers,
           kind \in SchedulerKinds \ {"close"} => SchedulerFree,
           kind \in {"close", "delete"} => kind \in callers /\ kind \notin callers',
           kind = "legacyDate" => row.run = NoRun /\ row.mes # NoMessage
    PROVE  IInv'
  <1>1. TypeOK /\ op = NoOp /\ ~inflight
    BY DEF IInv, LaneMarks, Acquire, NoOp
  <1>2. Calm /\ UNCHANGED <<mem, dirty, pending, inflight>>
    BY DEF Acquire, Calm, db, wake
  <1>3. /\ op' \in Operation /\ op'.kind = kind /\ op'.at = "acquired"
    BY ConstantsTyped DEF Acquire, Operation, Places
  <1>4. TypeOK'
    BY <1>1, <1>2, <1>3 DEF TypeOK, Calm
  <1>5. LaneMarks' /\ NoLostUpdate' /\ DrawsTheRun'
    BY <1>1, <1>2, <1>3 DEF LaneMarks, NoLostUpdate, DrawsTheRun, Drawing, At, NoOp, Kinds
  <1>6. CloseIsMeant'
    BY <1>1, <1>2, <1>3 DEF IInv, CloseIsMeant, Closing, NothingToClose, Withdrawn, FinalDrawing, Drawing, At,
       Calm, SchedulerFree, SchedulerKinds, GoneIsEmpty
  <1>7. QED
    BY <1>2, <1>4, <1>5, <1>6, CalmStep DEF IInv

LEMMA StartedStep == ASSUME IInv, Started PROVE IInv'
  <1>1. /\ TypeOK /\ op.kind \in Kinds /\ op.kind # "update"
        /\ op.kind \in {"close", "delete"} => mem.closing \/ NothingToClose \/ Withdrawn
    BY DEF IInv, LaneMarks, Started, At, TypeOK, Operation, CloseIsMeant, Closing
  <1>2. Calm /\ UNCHANGED <<pending, callers>> /\ inflight' = TRUE /\ dirty' \in BOOLEAN
    BY DEF Started, Calm, db
  <1> DEFINE place == IF op.kind = "delete" THEN "close" ELSE op.kind
  <1>3. place \in {"prepare", "refresh", "repost", "close", "notify", "legacyDate", "cancel"}
    BY <1>1 DEF Kinds
  <1>4. /\ place = "prepare" => op.kind = "prepare"
        /\ place = "close" => op.kind \in {"close", "delete"}
        /\ place = "legacyDate" => op.kind = "legacyDate"
        /\ place = "cancel" => op.kind = "cancel"
    OBVIOUS
  <1> HIDE DEF place
  <1>5. op' \in Operation /\ op'.kind = op.kind /\ op'.at = place
    BY <1>1, <1>3, Going DEF Started, Goto, Places, place
  <1>6. /\ mem' \in Memory
        /\ UNCHANGED <<mem.uncertain, mem.closing, mem.deleting, mem.cancellation, mem.publication>>
    BY <1>1 DEF Started, TypeOK, Memory
  <1>7. TypeOK'
    BY <1>1, <1>2, <1>5, <1>6 DEF TypeOK, Calm
  <1>8. LaneMarks' /\ NoLostUpdate' /\ DrawsTheRun'
    BY <1>2, <1>3, <1>4, <1>5 DEF LaneMarks, NoLostUpdate, DrawsTheRun, Drawing, At, NoOp
  <1>9. CloseIsMeant'
    BY <1>1, <1>2, <1>3, <1>4, <1>5, <1>6 DEF IInv, CloseIsMeant, Closing, NothingToClose, Withdrawn,
       FinalDrawing, Drawing, At, Calm
  <1>10. QED
    BY <1>2, <1>6, <1>7, <1>8, <1>9, CalmStep DEF IInv

(* The lane is given back: only the flag of Delete changes, and no delete  *)
(* waits when a Delete ends.                                               *)
LEMMA FinishStep == ASSUME IInv, Finish PROVE IInv'
  <1>1. TypeOK
    BY DEF IInv
  <1>2. Calm /\ UNCHANGED callers /\ inflight' = FALSE /\ op' = NoOp
    BY DEF Finish, Calm, db
  <1>3. dirty' \in BOOLEAN /\ pending' \in BOOLEAN /\ (dirty' => pending')
    BY <1>1 DEF Finish, RetryOrServe, TypeOK
  <1>4. /\ mem' \in Memory /\ (mem'.deleting <=> mem.deleting /\ op.kind # "delete")
        /\ UNCHANGED <<mem.uncertain, mem.closing, mem.cancellation, mem.publication>>
    BY <1>1 DEF Finish, TypeOK, Memory
  <1>5. TypeOK'
    BY <1>1, <1>2, <1>3, <1>4, ConstantsTyped DEF TypeOK, Calm
  <1>6. LaneMarks' /\ NoLostUpdate' /\ DrawsTheRun'
    BY <1>2, <1>3 DEF LaneMarks, NoLostUpdate, DrawsTheRun, Drawing, At, NoOp
  <1>7. CloseIsMeant'
    BY <1>2, <1>4 DEF IInv, CloseIsMeant, Closing, NothingToClose, Withdrawn, FinalDrawing, Drawing, At,
       Calm, NoOp, SchedulerKinds
  <1>8. QED
    BY <1>2, <1>4, <1>5, <1>6, <1>7, CalmStep DEF IInv

LEMMA WorkerDropsStep == ASSUME IInv, WorkerDrops PROVE IInv'
  <1>1. Calm /\ UNCHANGED <<mem, op, inflight, callers, dirty>> /\ pending' = FALSE
    BY DEF WorkerDrops, Calm, db
  <1>2. TypeOK' /\ LaneMarks'
    BY <1>1 DEF IInv, TypeOK, LaneMarks, At, Calm
  <1>3. NoLostUpdate'
    BY <1>1 DEF WorkerDrops, NoLostUpdate
  <1>4. DrawsTheRun' /\ CloseIsMeant'
    <2>1. UNCHANGED <<row, ghost, msgs, clock>>
      BY <1>1 DEF Calm
    <2>2. DrawsTheRun'
      BY <1>1, <2>1 DEF IInv, DrawsTheRun, Drawing, At
    <2>3. /\ NothingToClose' = NothingToClose /\ Withdrawn' = Withdrawn /\ Closing' = Closing
          /\ FinalDrawing' = FinalDrawing /\ Unnoted' = Unnoted
      BY <1>1, <2>1 DEF NothingToClose, Withdrawn, Closing, FinalDrawing, Drawing, Unnoted, At
    <2>4. CloseIsMeant'
      BY <1>1, <2>1, <2>3 DEF IInv, CloseIsMeant, At
    <2>5. QED
      BY <2>2, <2>4
  <1>5. QED
    BY <1>1, <1>2, <1>3, <1>4, CalmStep DEF IInv

LEMMA WorkerStartsStep == ASSUME IInv, WorkerStarts PROVE IInv'
  <1>1. /\ Calm /\ UNCHANGED <<mem, callers>> /\ pending' = FALSE /\ dirty' = FALSE
        /\ inflight' = TRUE /\ op = NoOp
    BY DEF WorkerStarts, Calm, db
  <1>2. op' \in Operation /\ op'.kind = "update" /\ op'.at = "refresh"
    BY ConstantsTyped DEF WorkerStarts, Operation, Places, Kinds
  <1>3. TypeOK'
    BY <1>1, <1>2 DEF IInv, TypeOK, Calm
  <1>4. LaneMarks' /\ NoLostUpdate' /\ DrawsTheRun'
    BY <1>1, <1>2 DEF LaneMarks, NoLostUpdate, DrawsTheRun, Drawing, At, NoOp
  <1>5. CloseIsMeant'
    BY <1>1, <1>2 DEF IInv, CloseIsMeant, Closing, NothingToClose, Withdrawn, FinalDrawing, Drawing, At,
       Calm, SchedulerKinds
  <1>6. QED
    BY <1>1, <1>3, <1>4, <1>5, CalmStep DEF IInv

-----------------------------------------------------------------------------
(* The callers.                                                            *)

(* A call that touches neither the lane nor the row, and keeps or raises   *)
(* the intents.                                                            *)
LEMMA IntentStep ==
    ASSUME IInv, Calm, UNCHANGED <<op, inflight>>, mem' \in Memory,
           UNCHANGED <<mem.uncertain, mem.cancellation, mem.publication>>,
           callers' \in SUBSET {"close", "delete", "restore"},
           dirty' \in BOOLEAN, pending' \in BOOLEAN, dirty' => pending' \/ op # NoOp,
           \/ mem'.closing
           \/ mem'.closing = mem.closing /\ callers' \subseteq callers,
           "close" \in callers' =>
              "close" \in callers \/ (op.kind \notin SchedulerKinds /\ "restore" \notin callers),
           "restore" \in callers' => "restore" \in callers,
           "delete" \in callers' => mem'.deleting /\ op.kind # "delete",
           op.kind = "delete" => mem'.deleting,
           mem'.deleting => mem.deleting \/ mem'.closing
    PROVE  IInv'
  <1>1. TypeOK'
    BY DEF IInv, TypeOK, Calm
  <1>2. LaneMarks' /\ NoLostUpdate' /\ DrawsTheRun'
    BY DEF IInv, LaneMarks, NoLostUpdate, DrawsTheRun, Drawing, At, Calm
  <1>3. DoubtIsRemembered' /\ GoneIsEmpty' /\ EmptyBeforeOpening' /\ CurrentOfItsRun'
    BY DEF IInv, Calm, DoubtIsRemembered, Unnoted, GoneIsEmpty, EmptyBeforeOpening, CurrentOfItsRun
  <1>4. LateWrites'
    BY DEF IInv, Calm, LateWrites, RunConflict
  <1>5. CloseIsMeant'
    <2>1. /\ Closing' /\ ~mem'.closing => NothingToClose' \/ Withdrawn'
          /\ FinalDrawing' /\ ~mem'.closing => Withdrawn' /\ op'.kind = "delete"
      BY DEF IInv, CloseIsMeant, Closing, NothingToClose, Withdrawn, FinalDrawing, Drawing, At, Calm
    <2>2. Unnoted' = Unnoted
      BY DEF Calm, Unnoted
    <2>3. QED
      BY <2>1, <2>2 DEF IInv, CloseIsMeant, FinalDrawing, Drawing, At, Calm
  <1>6. QED
    BY <1>1, <1>2, <1>3, <1>4, <1>5 DEF IInv

LEMMA CloseIntentStep == ASSUME IInv, CloseIntent PROVE IInv'
  <1>1. Calm /\ UNCHANGED <<op, inflight, dirty, pending>>
    BY DEF CloseIntent, Calm, db, wake
  <1>2. /\ mem' \in Memory /\ mem'.closing
        /\ UNCHANGED <<mem.uncertain, mem.cancellation, mem.publication, mem.deleting>>
    BY DEF CloseIntent, IInv, TypeOK, Memory
  <1>3. /\ callers' = callers \cup {"close"} /\ op.kind \notin SchedulerKinds
        /\ "restore" \notin callers
    BY DEF CloseIntent, SchedulerFree
  <1>4. /\ "delete" \in callers => mem.deleting /\ op.kind # "delete"
        /\ op.kind = "delete" => mem.deleting
    BY DEF IInv, CloseIsMeant
  <1>5. TypeOK /\ NoLostUpdate
    BY DEF IInv
  <1>6. QED
    BY <1>1, <1>2, <1>3, <1>4, <1>5, IntentStep DEF TypeOK, NoLostUpdate

LEMMA DeleteIntentStep == ASSUME IInv, DeleteIntent PROVE IInv'
  <1>1. Calm /\ UNCHANGED <<op, inflight, dirty, pending>>
    BY DEF DeleteIntent, Calm, db, wake
  <1>2. /\ mem' \in Memory /\ mem'.closing /\ mem'.deleting
        /\ UNCHANGED <<mem.uncertain, mem.cancellation, mem.publication>>
    BY DEF DeleteIntent, IInv, TypeOK, Memory
  <1>3. callers' = callers \cup {"delete"} /\ op.kind # "delete"
    BY DEF DeleteIntent
  <1>4. TypeOK /\ NoLostUpdate
    BY DEF IInv
  <1>5. QED
    BY <1>1, <1>2, <1>3, <1>4, IntentStep DEF TypeOK, NoLostUpdate

(* An owed render has somebody to serve it as soon as it is owed.          *)
LEMMA ServedLater == ASSUME IInv, ScheduleUpdate, UNCHANGED op PROVE dirty' => pending' \/ op # NoOp
  BY DEF IInv, LaneMarks, ScheduleUpdate, NoOp

LEMMA GiveUpStep == ASSUME IInv, NEW kind \in {"close", "delete"}, GiveUp(kind) PROVE IInv'
  <1>1. Calm /\ UNCHANGED <<op, inflight>>
    BY DEF GiveUp, Calm, db
  <1>2. /\ mem' \in Memory /\ (mem'.deleting <=> mem.deleting /\ kind # "delete")
        /\ UNCHANGED <<mem.uncertain, mem.cancellation, mem.publication, mem.closing>>
    BY DEF GiveUp, IInv, TypeOK, Memory
  <1>3. callers' = callers \ {kind}
    BY DEF GiveUp
  <1>4. /\ "delete" \in callers => mem.deleting /\ op.kind # "delete"
        /\ op.kind = "delete" => mem.deleting
        /\ kind \in callers
    BY DEF IInv, CloseIsMeant, GiveUp
  <1>5. dirty' \in BOOLEAN /\ pending' \in BOOLEAN /\ (dirty' => pending' \/ op # NoOp)
    BY <1>1, Scheduling, ServedLater DEF GiveUp, IInv
  <1>6. callers' \in SUBSET {"close", "delete", "restore"} /\ callers' \subseteq callers
    BY <1>3 DEF IInv, TypeOK
  <1>7. QED
    BY <1>1, <1>2, <1>3, <1>4, <1>5, <1>6, IntentStep

LEMMA ChangedStep == ASSUME IInv, Changed PROVE IInv'
  <1>1. Calm /\ UNCHANGED <<op, inflight, mem, callers>>
    BY DEF Changed, Calm, db
  <1>2. /\ "delete" \in callers => mem.deleting /\ op.kind # "delete"
        /\ op.kind = "delete" => mem.deleting
    BY DEF IInv, CloseIsMeant
  <1>3. dirty' \in BOOLEAN /\ pending' \in BOOLEAN /\ (dirty' => pending' \/ op # NoOp)
    BY <1>1, Scheduling, ServedLater DEF Changed, IInv
  <1>4. mem' \in Memory /\ callers' \in SUBSET {"close", "delete", "restore"}
    BY <1>1 DEF IInv, TypeOK
  <1>5. QED
    BY <1>1, <1>2, <1>3, <1>4, IntentStep

LEMMA RestoreEndsStep == ASSUME IInv, RestoreEnds PROVE IInv'
  <1>1. Calm /\ UNCHANGED <<op, inflight, mem, dirty, pending>>
    BY DEF RestoreEnds, Calm, db, wake
  <1>2. /\ "delete" \in callers => mem.deleting /\ op.kind # "delete"
        /\ op.kind = "delete" => mem.deleting
    BY DEF IInv, CloseIsMeant
  <1>3. /\ TypeOK /\ NoLostUpdate /\ callers' = callers \ {"restore"}
        /\ callers' \in SUBSET {"close", "delete", "restore"} /\ callers' \subseteq callers
    BY DEF IInv, TypeOK, RestoreEnds
  <1>4. QED
    BY <1>1, <1>2, <1>3, IntentStep DEF TypeOK, NoLostUpdate

LEMMA ReadBackStep == ASSUME IInv, ReadBack PROVE IInv'
  <1>1. /\ TypeOK /\ Unnoted
    BY ReadMeansSettled DEF IInv, ReadBack
  <1>2. Calm /\ UNCHANGED <<op, inflight, dirty, pending, callers>>
    BY DEF ReadBack, Calm, db, wake
  <1>3. /\ mem' \in Memory
        /\ UNCHANGED <<mem.closing, mem.deleting, mem.cancellation, mem.publication>>
    BY <1>1, Remembering DEF ReadBack, TypeOK, Memory, Synced
  <1>4. TypeOK'
    BY <1>1, <1>2, <1>3 DEF TypeOK, Calm
  <1>5. LaneMarks' /\ NoLostUpdate' /\ DrawsTheRun'
    BY <1>2, <1>3 DEF IInv, LaneMarks, NoLostUpdate, DrawsTheRun, Drawing, At, Calm
  <1>6. DoubtIsRemembered' /\ GoneIsEmpty' /\ EmptyBeforeOpening' /\ CurrentOfItsRun' /\ LateWrites'
    BY <1>1, <1>2 DEF IInv, Calm, DoubtIsRemembered, Unnoted, GoneIsEmpty, EmptyBeforeOpening,
       CurrentOfItsRun, LateWrites
  <1>7. CloseIsMeant'
    BY <1>2, <1>3 DEF IInv, CloseIsMeant, Closing, NothingToClose, Withdrawn, FinalDrawing,
                      Drawing, At, Calm, Unnoted
  <1>8. QED
    BY <1>4, <1>5, <1>6, <1>7 DEF IInv

(* A change of the participants: it moves the revision of an open run.     *)
LEMMA MutateStep == ASSUME IInv, NEW m \in Messages, Mutate(m) PROVE IInv'
  <1>1. /\ TypeOK /\ ghost.kind = "none" /\ ~mem.closing /\ ~mem.deleting /\ row.exists
        /\ row.run # NoRun /\ OpensAt[row.run] <= clock /\ row.rev < MaxRev
        /\ row.mes # NoMessage
    BY ReadMeansSettled DEF IInv, Mutate, Accepts, Receptive, Unnoted, LateWrites
  <1> DEFINE mutate == [kind |-> "mutate", run |-> NoRun, mes |-> NoMessage]
  <1>2. UNCHANGED <<inflight, op, callers, msgs, clock>> /\ ScheduleUpdate
    BY DEF Mutate
  <1>3. /\ row' \in {row, MutatedRow} /\ ghost' \in {ghost, mutate}
        /\ ghost' = mutate => row' = row
    <2>1. CASE WriteApplies(MutatedRow)
      BY <1>1, <2>1 DEF WriteApplies, NoGhost
    <2>2. CASE UNCHANGED db
      BY <1>1, <2>2 DEF db
    <2>3. CASE WriteFails(mutate)
      BY <2>3 DEF WriteFails
    <2>4. QED
      BY <2>1, <2>2, <2>3 DEF Mutate
  <1>4. /\ row' \in Row /\ UNCHANGED <<row.exists, row.run, row.mes>>
    <2>1. row.rev \in Nat /\ row.rev + 1 \in Revisions
      BY <1>1 DEF TypeOK, Row
    <2>2. QED
      BY <1>1, <1>3, <2>1 DEF MutatedRow, TypeOK, Row
  <1>5. mutate \in Ghost /\ ghost' \in Ghost
    BY <1>1, <1>3 DEF TypeOK, Ghost
  <1>6. /\ mem' \in Memory /\ (mem'.uncertain \/ ghost' = NoGhost)
        /\ UNCHANGED <<mem.closing, mem.deleting, mem.cancellation, mem.publication>>
    <2>1. CASE mem' = Synced /\ ghost' = NoGhost
      BY <1>1, <2>1, Remembering DEF TypeOK, Memory, Synced
    <2>2. CASE mem' = Doubtful
      BY <1>1, <2>2, Remembering DEF TypeOK, Memory, Doubtful
    <2>3. QED
      BY <2>1, <2>2 DEF Mutate, WriteApplies
  <1>7. faults' \in Nat
    BY <1>1, Failing DEF Mutate, WriteApplies, WriteFails, TypeOK
  <1>8. dirty' \in BOOLEAN /\ pending' \in BOOLEAN /\ (dirty' => pending' \/ op # NoOp)
    BY <1>1, <1>2, Scheduling, ServedLater
  <1>9. TypeOK'
    BY <1>1, <1>2, <1>4, <1>5, <1>6, <1>7, <1>8 DEF TypeOK
  <1>10. LaneMarks' /\ NoLostUpdate' /\ DoubtIsRemembered'
    BY <1>2, <1>6, <1>8 DEF IInv, LaneMarks, NoLostUpdate, DoubtIsRemembered, Unnoted, At, NoGhost
  <1>11. DrawsTheRun'
    BY <1>2, <1>3, <1>4, <1>6 DEF IInv, DrawsTheRun, Drawing, At
  <1>12. LateWrites'
    BY <1>1, <1>2, <1>3 DEF LateWrites, NoGhost
  <1>13. GoneIsEmpty' /\ EmptyBeforeOpening' /\ CurrentOfItsRun'
    <2>1. OpensAt[row.run] \in Nat /\ clock \in Nat
      BY <1>1 DEF TypeOK, Row
    <2>2. EmptyBeforeOpening'
      BY <1>1, <1>2, <1>4, <2>1 DEF EmptyBeforeOpening
    <2>3. GoneIsEmpty' /\ CurrentOfItsRun'
      BY <1>1, <1>2, <1>4 DEF IInv, GoneIsEmpty, CurrentOfItsRun
    <2>4. QED
      BY <2>2, <2>3
  <1>14. CloseIsMeant'
    <2>1. ~Closing /\ ~FinalDrawing /\ ~At("deleteRow")
      BY <1>1 DEF IInv, CloseIsMeant, NothingToClose, Withdrawn
    <2>2. QED
      BY <1>1, <1>2, <1>6, <2>1 DEF IInv, CloseIsMeant, Closing, FinalDrawing, Drawing, At
  <1>15. QED
    BY <1>9, <1>10, <1>11, <1>12, <1>13, <1>14 DEF IInv

LEMMA SetLegacyQueueRunBoundsStep ==
    ASSUME IInv, NEW r \in Runs, SetLegacyQueueRunBounds(r) PROVE IInv'
  <1> DEFINE bounds == [kind |-> "bounds", run |-> r, mes |-> NoMessage]
  <1>1. /\ TypeOK /\ row.exists /\ row.run = NoRun /\ row.rev = 0
        /\ "restore" \in callers /\ op.kind \notin SchedulerKinds /\ MayBeLegacy
        /\ callers' = callers \ {"restore"}
    BY DEF IInv, SetLegacyQueueRunBounds, GoneIsEmpty, CloseIsMeant
  <1>2. /\ UNCHANGED <<mem, dirty, pending, op, msgs, inflight, clock>> /\ faults' \in Nat
    BY <1>1 DEF SetLegacyQueueRunBounds, WriteApplies, WriteFails, wake, Fault, TypeOK
  <1>3. /\ \/ ghost = NoGhost /\ UNCHANGED ghost /\ row' = [row EXCEPT !.run = r]
           \/ ghost = NoGhost /\ ghost' = bounds /\ UNCHANGED row
           \/ UNCHANGED <<row, ghost>>
    BY <1>1 DEF SetLegacyQueueRunBounds, WriteApplies, WriteFails, BoundRow
  <1>4. bounds \in Ghost
    BY DEF Ghost
  <1>5. /\ row' \in Row /\ row'.run \in {r, NoRun}
        /\ UNCHANGED <<row.exists, row.mes, row.rev>>
    BY <1>1, <1>3 DEF TypeOK, Row
  <1>6. TypeOK'
    BY <1>1, <1>2, <1>3, <1>4, <1>5 DEF TypeOK
  <1>7. LaneMarks' /\ NoLostUpdate' /\ DoubtIsRemembered'
    BY <1>2, <1>3 DEF IInv, LaneMarks, NoLostUpdate, DoubtIsRemembered, Unnoted, At
  <1>8. LateWrites'
    <2>1. CASE UNCHANGED <<row, ghost>>
      BY <1>2, <2>1 DEF IInv, LateWrites, RunConflict
    <2>2. CASE ghost' = bounds /\ UNCHANGED row
      BY <1>1, <2>2 DEF LateWrites
    <2>3. CASE ghost' = NoGhost
      BY <2>3 DEF LateWrites, NoGhost
    <2>4. QED
      BY <1>3, <2>1, <2>2, <2>3
  <1>9. DrawsTheRun'
    BY <1>1, <1>2, <1>3, <1>5 DEF IInv, DrawsTheRun, Drawing, At
  <1>10. GoneIsEmpty' /\ EmptyBeforeOpening' /\ CurrentOfItsRun'
    BY <1>1, <1>2, <1>5 DEF IInv, GoneIsEmpty, EmptyBeforeOpening, CurrentOfItsRun
  <1>11. CloseIsMeant'
    <2>1. Closing /\ ~mem.closing => Withdrawn
      BY <1>1 DEF IInv, CloseIsMeant, Closing, Withdrawn, SchedulerKinds
    <2>2. ghost'.kind # "mutate" \/ UNCHANGED ghost
      BY <1>3
    <2>3. Unnoted => Unnoted'
      BY <1>3 DEF Unnoted
    <2>4. QED
      BY <1>1, <1>2, <1>5, <2>1, <2>2, <2>3
         DEF IInv, CloseIsMeant, Closing, Withdrawn, FinalDrawing, Drawing, At
  <1>12. QED
    BY <1>6, <1>7, <1>8, <1>9, <1>10, <1>11 DEF IInv

-----------------------------------------------------------------------------
(* The world.                                                              *)

LEMMA TickStep == ASSUME IInv, Tick PROVE IInv'
  <1>1. TypeOK /\ clock' = clock + 1
    BY DEF IInv, Tick
  <1>2. UNCHANGED <<row, ghost, mem, dirty, pending, inflight, op, callers, msgs, faults>>
    BY DEF Tick, db, wake
  <1>3. clock' \in Nat /\ (row.run # NoRun => OpensAt[row.run] \in Nat)
    <2>1. clock' \in Nat
      BY <1>1 DEF TypeOK
    <2>2. QED
      BY <1>1, <2>1, Instants
  <1>4. clock \in Nat
    BY <1>1 DEF TypeOK
  <1>5. TypeOK'
    BY <1>1, <1>2, <1>3 DEF TypeOK
  <1>6. EmptyBeforeOpening'
    BY <1>1, <1>2, <1>3, <1>4 DEF IInv, EmptyBeforeOpening
  <1>7. LateWrites'
    BY <1>1, <1>2, <1>3, <1>4 DEF IInv, LateWrites, RunConflict
  <1>8. /\ LaneMarks' /\ NoLostUpdate' /\ DoubtIsRemembered' /\ DrawsTheRun'
        /\ GoneIsEmpty' /\ CurrentOfItsRun' /\ CloseIsMeant'
    BY <1>2 DEF IInv, LaneMarks, NoLostUpdate, DoubtIsRemembered, Unnoted, DrawsTheRun, GoneIsEmpty,
       CurrentOfItsRun, CloseIsMeant, Closing, NothingToClose, Withdrawn, FinalDrawing, Drawing, At
  <1>9. QED
    BY <1>5, <1>6, <1>7, <1>8 DEF IInv

(* A message deleted by a person is not live any more.                     *)
LEMMA PersonDeletesStep == ASSUME IInv, NEW m \in Messages, PersonDeletes(m) PROVE IInv'
  <1>1. TypeOK
    BY DEF IInv
  <1>2. /\ UNCHANGED <<row, ghost, mem, dirty, pending, inflight, op, callers, clock>>
        /\ faults' \in Nat
    BY <1>1, Failing DEF PersonDeletes, db, wake
  <1>3. /\ msgs' \in [Messages -> Message]
        /\ \A n \in Messages : msgs'[n].show = "live" => msgs'[n] = msgs[n]
    BY <1>1 DEF PersonDeletes, Dead, TypeOK, Message
  <1>4. /\ row.mes \in Message0 /\ ghost.mes \in Message0 /\ op.sent \in Message0
    BY <1>1 DEF TypeOK, Row, Ghost, Operation
  <1>5. TypeOK'
    BY <1>1, <1>2, <1>3 DEF TypeOK
  <1>6. DrawsTheRun'
    BY <1>2, <1>3, <1>4 DEF IInv, DrawsTheRun, Drawing, At
  <1>7. LateWrites'
    BY <1>2, <1>3, <1>4 DEF IInv, LateWrites, RunConflict
  <1>8. CurrentOfItsRun'
    BY <1>2, <1>3, <1>4 DEF IInv, CurrentOfItsRun
  <1>9. /\ LaneMarks' /\ NoLostUpdate' /\ DoubtIsRemembered' /\ GoneIsEmpty'
        /\ EmptyBeforeOpening' /\ CloseIsMeant'
    BY <1>2 DEF IInv, LaneMarks, NoLostUpdate, DoubtIsRemembered, Unnoted, GoneIsEmpty, EmptyBeforeOpening,
       CloseIsMeant, Closing, NothingToClose, Withdrawn, FinalDrawing, Drawing, At
  <1>10. QED
    BY <1>5, <1>6, <1>7, <1>8, <1>9 DEF IInv

(* A COMMIT arrives late, or never: what the row becomes depends on what   *)
(* LateWrites promised about the write.                                    *)
LEMMA GhostLandsStep == ASSUME IInv, GhostLands PROVE IInv'
  <1>1. TypeOK /\ ghost' = NoGhost /\ row' \in {row, GhostRow}
    BY DEF IInv, GhostLands
  <1>2. UNCHANGED <<mem, dirty, pending, inflight, op, callers, msgs, clock, faults>>
    BY DEF GhostLands, wake
  <1>3. /\ ghost.run \in Run0 /\ ghost.mes \in Message0 /\ row \in Row /\ clock \in Nat
        /\ row.rev \in Nat
        /\ ghost.kind \in {"none", "begin", "bounds", "publish", "finish", "mutate", "delete"}
    BY <1>1 DEF TypeOK, Ghost, Row
  <1>4. /\ LaneMarks' /\ NoLostUpdate' /\ DoubtIsRemembered' /\ LateWrites'
    BY <1>1, <1>2 DEF IInv, LaneMarks, NoLostUpdate, DoubtIsRemembered, Unnoted, LateWrites, At, NoGhost
  <1>5. CASE row' = row
    <2>1. TypeOK'
      BY <1>1, <1>2, <1>5, ConstantsTyped DEF TypeOK
    <2>2. DrawsTheRun' /\ CloseIsMeant'
      BY <1>1, <1>2, <1>5 DEF IInv, DrawsTheRun, CloseIsMeant, Closing, NothingToClose, Withdrawn,
         FinalDrawing, Drawing, At, NoGhost, Unnoted
    <2>3. GoneIsEmpty' /\ EmptyBeforeOpening' /\ CurrentOfItsRun'
      BY <1>2, <1>5 DEF IInv, GoneIsEmpty, EmptyBeforeOpening, CurrentOfItsRun
    <2>4. QED
      BY <1>4, <2>1, <2>2, <2>3 DEF IInv
  <1>6. CASE ghost.kind = "begin" /\ row' = BegunRow(ghost.run)
    <2>1. row.exists /\ ~RunConflict(ghost.run)
      BY <1>6 DEF IInv, LateWrites
    <2>2. row' = row \/ (row'.run = ghost.run /\ row'.mes = NoMessage /\ row'.rev = 0 /\ row'.exists)
      BY <1>3, <1>6, <2>1 DEF BegunRow, Row
    <2>3. row' \in Row
      BY <1>1, <1>3, <1>6, Rows
    <2>4. TypeOK'
      BY <1>1, <1>2, <2>3, ConstantsTyped DEF TypeOK
    <2>5. GoneIsEmpty' /\ EmptyBeforeOpening' /\ CurrentOfItsRun'
      BY <1>2, <2>2 DEF IInv, GoneIsEmpty, EmptyBeforeOpening, CurrentOfItsRun
    <2>6. DrawsTheRun'
      BY <1>1, <1>2, <1>6 DEF IInv, DrawsTheRun, Drawing, At, NoGhost
    <2>7. CloseIsMeant'
      BY <1>1, <1>2, <1>6, <2>2
         DEF IInv, CloseIsMeant, Closing, NothingToClose, Withdrawn, FinalDrawing, Drawing, At,
             Unnoted, NoGhost
    <2>8. QED
      BY <1>4, <2>4, <2>5, <2>6, <2>7 DEF IInv
  <1>7. CASE ghost.kind = "publish" /\ row' = PublishedRow(ghost.mes)
    <2>1. /\ ghost.mes # NoMessage /\ (row.run # NoRun \/ MayBeLegacy)
          /\ msgs[ghost.mes].show = "live" => msgs[ghost.mes].run = row.run
      BY <1>7 DEF IInv, LateWrites
    <2>2. /\ UNCHANGED <<row.exists, row.run, row.rev>>
          /\ row' = row \/ (row.exists /\ row'.mes = ghost.mes)
      BY <1>3, <1>7 DEF PublishedRow, Row
    <2>3. row' \in Row
      BY <1>1, <1>3, <1>7, Rows
    <2>4. TypeOK'
      BY <1>1, <1>2, <2>3, ConstantsTyped DEF TypeOK
    <2>5. GoneIsEmpty' /\ EmptyBeforeOpening' /\ CurrentOfItsRun'
      BY <1>2, <2>1, <2>2 DEF IInv, GoneIsEmpty, EmptyBeforeOpening, CurrentOfItsRun
    <2>6. DrawsTheRun'
      BY <1>1, <1>2, <1>7 DEF IInv, DrawsTheRun, Drawing, At, NoGhost
    <2>7. CloseIsMeant'
      BY <1>1, <1>2, <1>7, <2>2
         DEF IInv, CloseIsMeant, Closing, NothingToClose, Withdrawn, FinalDrawing, Drawing, At,
             Unnoted, NoGhost
    <2>8. QED
      BY <1>4, <2>4, <2>5, <2>6, <2>7 DEF IInv
  <1>8. CASE ghost.kind = "finish" /\ row' = FinishedRow
    <2>1. row' \in Row /\ row'.run = NoRun /\ row'.mes = NoMessage /\ row'.rev = 0
      BY <1>1, <1>8, Rows
    <2>2. TypeOK'
      BY <1>1, <1>2, <2>1, ConstantsTyped DEF TypeOK
    <2>3. GoneIsEmpty' /\ EmptyBeforeOpening' /\ CurrentOfItsRun'
      BY <2>1 DEF GoneIsEmpty, EmptyBeforeOpening, CurrentOfItsRun
    <2>4. DrawsTheRun'
      BY <1>1, <1>2, <1>8 DEF IInv, DrawsTheRun, Drawing, At, NoGhost
    <2>5. NothingToClose'
      BY <1>1, <2>1 DEF NothingToClose, NoGhost
    <2>6. CloseIsMeant'
      BY <1>1, <1>2, <1>8, <2>1, <2>4, <2>5
         DEF IInv, CloseIsMeant, Closing, Withdrawn, DrawsTheRun, FinalDrawing, Drawing, At,
             Unnoted, NoGhost
    <2>7. QED
      BY <1>4, <2>2, <2>3, <2>4, <2>6 DEF IInv
  <1>9. CASE ghost.kind = "mutate" /\ row' = MutatedRow
    <2>1. row.run # NoRun /\ OpensAt[row.run] <= clock /\ row.rev < MaxRev
      BY <1>9 DEF IInv, LateWrites
    <2>2. row.rev + 1 \in Revisions /\ OpensAt[row.run] \in Nat
      <3>1. row.rev + 1 \in 0..MaxRev
        BY <1>3, <2>1
      <3>2. QED
        BY <1>1, <2>1, <3>1, Instants
    <2>3. row' \in Row /\ UNCHANGED <<row.exists, row.run, row.mes>>
      BY <1>3, <1>9, <2>2 DEF MutatedRow, Row
    <2>4. TypeOK'
      BY <1>1, <1>2, <2>3, ConstantsTyped DEF TypeOK
    <2>5. EmptyBeforeOpening'
      BY <1>2, <1>3, <2>1, <2>2, <2>3 DEF EmptyBeforeOpening
    <2>6. GoneIsEmpty' /\ CurrentOfItsRun'
      BY <1>2, <2>1, <2>3 DEF IInv, GoneIsEmpty, CurrentOfItsRun
    <2>7. DrawsTheRun'
      BY <1>1, <1>2, <2>3 DEF IInv, DrawsTheRun, Drawing, At, NoGhost
    <2>8. CloseIsMeant'
      BY <1>1, <1>2, <1>9, <2>1, <2>3
         DEF IInv, CloseIsMeant, Closing, NothingToClose, Withdrawn, FinalDrawing, Drawing, At,
             Unnoted, NoGhost
    <2>9. QED
      BY <1>4, <2>4, <2>5, <2>6, <2>7, <2>8 DEF IInv
  <1>10. CASE ghost.kind = "bounds" /\ row' = BoundRow(ghost.run)
    <2>1. row.exists /\ row.run = NoRun /\ MayBeLegacy
      BY <1>10 DEF IInv, LateWrites
    <2>2. row' = [row EXCEPT !.run = ghost.run]
      BY <1>10, <2>1 DEF BoundRow
    <2>3. row' \in Row /\ UNCHANGED <<row.exists, row.mes, row.rev>>
      BY <1>3, <2>2 DEF Row
    <2>4. TypeOK'
      BY <1>1, <1>2, <2>3, ConstantsTyped DEF TypeOK
    <2>5. GoneIsEmpty' /\ EmptyBeforeOpening' /\ CurrentOfItsRun'
      BY <1>2, <2>1, <2>3 DEF IInv, GoneIsEmpty, EmptyBeforeOpening, CurrentOfItsRun
    <2>6. DrawsTheRun'
      BY <1>1, <1>2, <2>1, <2>3 DEF IInv, DrawsTheRun, Drawing, At, NoGhost
    <2>7. CloseIsMeant'
      BY <1>1, <1>2, <1>10, <2>1, <2>3
         DEF IInv, CloseIsMeant, Closing, NothingToClose, Withdrawn, FinalDrawing, Drawing, At,
             Unnoted, NoGhost
    <2>8. QED
      BY <1>4, <2>4, <2>5, <2>6, <2>7 DEF IInv
  <1>11. CASE ghost.kind = "delete" /\ row' = GoneRow
    <2>1. row.mes = NoMessage /\ row.rev = 0
      BY <1>11 DEF IInv, LateWrites
    <2>2. /\ row' \in Row /\ ~row'.exists /\ row'.run = NoRun
          /\ row'.mes = NoMessage /\ row'.rev = 0
      BY <1>1, <1>11, Rows
    <2>3. TypeOK'
      BY <1>1, <1>2, <2>2, ConstantsTyped DEF TypeOK
    <2>4. GoneIsEmpty' /\ EmptyBeforeOpening' /\ CurrentOfItsRun'
      BY <2>2 DEF GoneIsEmpty, EmptyBeforeOpening, CurrentOfItsRun
    <2>5. DrawsTheRun'
      BY <1>1, <1>2, <2>1, <2>2 DEF IInv, DrawsTheRun, Drawing, At, NoGhost
    <2>6. NothingToClose'
      BY <1>1, <2>2 DEF NothingToClose, NoGhost
    <2>7. CloseIsMeant'
      BY <1>1, <1>2, <2>2, <2>6
         DEF IInv, CloseIsMeant, Closing, Withdrawn, FinalDrawing, Drawing, At, Unnoted, NoGhost
    <2>8. QED
      BY <1>4, <2>3, <2>4, <2>5, <2>7 DEF IInv
  <1>12. QED
    BY <1>1, <1>3, <1>5, <1>6, <1>7, <1>8, <1>9, <1>10, <1>11 DEF GhostRow

-----------------------------------------------------------------------------
(* The invariant.                                                          *)

LEMMA StutterStep == ASSUME IInv, UNCHANGED vars PROVE IInv'
  BY DEF IInv, vars, db, wake, TypeOK, LaneMarks, NoLostUpdate, DoubtIsRemembered, Unnoted, DrawsTheRun,
     LateWrites, RunConflict, GoneIsEmpty, EmptyBeforeOpening, CurrentOfItsRun, CloseIsMeant, Closing,
     NothingToClose, Withdrawn, FinalDrawing, Drawing, At

LEMMA AcquireStepAny ==
    ASSUME IInv,
           \/ \E r \in Runs : AcquirePrepare(r) \/ AcquireCancel(r)
           \/ AcquireNotify \/ AcquireLegacyDate \/ AcquireRefresh
           \/ \E m \in Message0 : AcquireRepost(m)
           \/ \E kind \in {"close", "delete"} : AcquireClose(kind)
    PROVE  IInv'
  <1>1. callers \in SUBSET {"close", "delete", "restore"}
    BY DEF IInv, TypeOK
  <1>2. CASE \E r \in Runs : AcquirePrepare(r)
    BY <1>2, AcquireStep DEF AcquirePrepare, Kinds
  <1>3. CASE \E r \in Runs : AcquireCancel(r)
    BY <1>3, AcquireStep DEF AcquireCancel, Kinds
  <1>4. CASE AcquireNotify
    BY <1>4, AcquireStep DEF AcquireNotify, Kinds
  <1>5. CASE AcquireLegacyDate
    BY <1>5, AcquireStep DEF AcquireLegacyDate, Kinds
  <1>6. CASE AcquireRefresh
    BY <1>6, AcquireStep DEF AcquireRefresh, Kinds, SchedulerKinds
  <1>7. CASE \E m \in Message0 : AcquireRepost(m)
    BY <1>7, AcquireStep DEF AcquireRepost, Kinds, SchedulerKinds
  <1>8. CASE \E kind \in {"close", "delete"} : AcquireClose(kind)
    <2>1. PICK kind \in {"close", "delete"} : AcquireClose(kind)
      BY <1>8
    <2>2. kind \in Kinds \ {"update"} /\ (kind \in SchedulerKinds => kind = "close")
      BY DEF Kinds, SchedulerKinds
    <2>3. /\ Acquire(kind, NoRun, NoMessage) /\ kind \in callers /\ callers' = callers \ {kind}
      BY <2>1 DEF AcquireClose
    <2>4. QED
      BY <2>2, <2>3, AcquireStep
  <1>9. QED
    BY <1>2, <1>3, <1>4, <1>5, <1>6, <1>7, <1>8

LEMMA OperationStepKeeps == ASSUME IInv, OperationStep PROVE IInv'
  BY StartedStep, FinishStep, ReadFailsStep, SnapshotFailsStep, PrepareRefusedStep, PrepareStep,
     NotifyStep, LegacyMessageDateStep, RefreshStep, RenderStep, EditStep, RecheckStep, SendStep,
     PersistPublicationStep, CleanupStep, CleanMessageStep, CloseStep, FinishRunStep,
     DeleteScheduleEntryStep, CancelPendingStep, RepostStep
     DEF OperationStep

LEMMA CallsKeep == ASSUME IInv, Calls PROVE IInv'
  BY AcquireStepAny, SetLegacyQueueRunBoundsStep, RestoreEndsStep, MutateStep, CloseIntentStep,
     DeleteIntentStep, GiveUpStep, ReadBackStep, ChangedStep
     DEF Calls

LEMMA NextKeeps == ASSUME IInv, [Next]_vars PROVE IInv'
  <1>1. CASE World
    BY <1>1, TickStep, GhostLandsStep, PersonDeletesStep DEF World
  <1>2. CASE \E kind \in {"close", "delete"} : AcquireClose(kind)
    BY <1>2, AcquireStepAny
  <1>3. CASE WorkerDrops \/ WorkerStarts
    BY <1>3, WorkerDropsStep, WorkerStartsStep
  <1>4. CASE UNCHANGED vars
    BY <1>4, StutterStep
  <1>5. QED
    BY <1>1, <1>2, <1>3, <1>4, OperationStepKeeps, CallsKeep DEF Next

LEMMA InitHolds == ASSUME Init PROVE IInv
  <1>1. PICK start \in Starts, r \in Runs :
           /\ row = StartRow(start, r)
           /\ msgs = [m \in Messages |->
                 [show |-> IF start = "legacy" /\ m = 1 THEN "live" ELSE "unsent",
                  run |-> NoRun, rev |-> 0]]
    BY DEF Init
  <1>2. /\ ghost = NoGhost /\ mem = FreshMemory /\ dirty = FALSE /\ pending = FALSE
        /\ inflight = FALSE /\ op = NoOp /\ callers = {} /\ clock = 0 /\ faults = MaxFaults
    BY DEF Init
  <1>3. start \in StartKinds
    OBVIOUS
  <1>4. /\ row \in Row /\ row.exists
        /\ row.run \in {r, NoRun} /\ row.rev = 0
        /\ row.mes # NoMessage => row.mes = 1 /\ MayBeLegacy
    BY <1>1, <1>3 DEF StartRow, StartKinds, Row, MayBeLegacy
  <1>5. msgs \in [Messages -> Message] /\ \A m \in Messages : msgs[m].run = NoRun
    BY <1>1 DEF Message
  <1>6. mem \in Memory
    BY <1>2, ConstantsTyped DEF FreshMemory, Memory
  <1>7. TypeOK
    BY <1>2, <1>4, <1>5, <1>6, ConstantsTyped DEF TypeOK
  <1>8. /\ LaneMarks /\ NoLostUpdate /\ DoubtIsRemembered /\ DrawsTheRun /\ LateWrites
        /\ CloseIsMeant
    BY <1>2 DEF LaneMarks, NoLostUpdate, DoubtIsRemembered, Unnoted, DrawsTheRun, LateWrites, CloseIsMeant,
       Closing, FinalDrawing, Drawing, At, NoOp, NoGhost, SchedulerKinds, FreshMemory
  <1>9. GoneIsEmpty /\ EmptyBeforeOpening /\ CurrentOfItsRun
    BY <1>4, <1>5 DEF GoneIsEmpty, EmptyBeforeOpening, CurrentOfItsRun
  <1>10. QED
    BY <1>7, <1>8, <1>9 DEF IInv

(* IInv is an invariant: whatever the runs, their times, the number of     *)
(* messages, changes and failures.                                         *)
THEOREM Invariance == Spec => []IInv
  <1>1. Init => IInv
    BY InitHolds
  <1>2. IInv /\ [Next]_vars => IInv'
    BY NextKeeps
  <1>3. QED
    BY <1>1, <1>2, PTL DEF Spec

-----------------------------------------------------------------------------
(* What follows from it.                                                   *)

(* Every variable of the service, the database and the chat keeps its      *)
(* type; in particular no settling of doubtful writes leaves a message     *)
(* marked for cleaning in an unknown way.                                  *)
THEOREM TypeCorrect == Spec => []TypeOK
  <1>1. IInv => TypeOK
    BY DEF IInv
  <1>2. QED
    BY <1>1, Invariance, PTL

(* An owed render always has a timer, a job or the lane holder to serve    *)
(* it: no order of scheduleUpdate, finishHTTP and worker drops it.         *)
THEOREM NoLostUpdateHolds == Spec => []NoLostUpdate
  <1>1. IInv => NoLostUpdate
    BY DEF IInv
  <1>2. QED
    BY <1>1, Invariance, PTL

(* While a COMMIT of BeginQueueRun, SetQueueMessageID, FinishQueueRun or   *)
(* of a change of the participants is in flight, the service knows that it *)
(* must not trust the row it would read.  The two writes after which the   *)
(* code notes no doubt, the bounds of a run of an older version and the    *)
(* DELETE of a schedule, are excepted.                                     *)
THEOREM DoubtIsRememberedHolds == Spec => []DoubtIsRemembered
  <1>1. IInv => DoubtIsRemembered
    BY DEF IInv
  <1>2. QED
    BY <1>1, Invariance, PTL

(* Refresh, Repost and Close settle a publication in doubt before they     *)
(* store the next one.                                                     *)
THEOREM OneDoubtAtATimeHolds == Spec => []OneDoubtAtATime
  <1>1. IInv => OneDoubtAtATime
    BY DEF IInv, OneDoubtAtATime, DrawsTheRun, Drawing, At
  <1>2. QED
    BY <1>1, Invariance, PTL

(* The live current message is one of the run in the database, however     *)
(* runs replace each other.                                                *)
THEOREM MessageOfItsRunHolds == Spec => []MessageOfItsRun
  <1>1. IInv => MessageOfItsRun
    BY DEF IInv, MessageOfItsRun, CurrentOfItsRun
  <1>2. QED
    BY <1>1, Invariance, PTL

(* The steps that may write the row.                                       *)
RowWriter == \/ Prepare \/ PersistPublication \/ FinishRun \/ DeleteScheduleEntry
             \/ CancelPending \/ GhostLands
             \/ \E r \in Runs : SetLegacyQueueRunBounds(r)
             \/ \E m \in Messages : Mutate(m)

LEMMA OthersKeepTheRow == ASSUME [Next]_vars, ~RowWriter PROVE row' = row
  <1>1. CASE OperationStep
    BY <1>1 DEF RowWriter, OperationStep, Started, Finish, ReadFails, SnapshotFails, PrepareRefused,
       Notify, LegacyMessageDate, Refresh, Render, Edit, Recheck, Send, Cleanup, CleanMessage,
       Close, Repost, db
  <1>2. CASE Calls
    BY <1>2 DEF RowWriter, Calls, AcquirePrepare, AcquireCancel, AcquireNotify, AcquireLegacyDate,
       AcquireRefresh, AcquireRepost, Acquire, CloseIntent, DeleteIntent, GiveUp, ReadBack,
       RestoreEnds, Changed, db
  <1>3. CASE \/ WorkerDrops \/ WorkerStarts
             \/ \E kind \in {"close", "delete"} : AcquireClose(kind)
    BY <1>3 DEF WorkerDrops, WorkerStarts, AcquireClose, Acquire, db
  <1>4. CASE World
    BY <1>4 DEF RowWriter, World, Tick, PersonDeletes, db
  <1>5. CASE UNCHANGED vars
    BY <1>5 DEF vars, db
  <1>6. QED
    BY <1>1, <1>2, <1>3, <1>4, <1>5 DEF Next

(* What a step does to the run of the row and to its existence.            *)
LEMMA EndOfRun ==
    ASSUME IInv, [Next]_vars
    PROVE  /\ row.run # NoRun /\ row'.run = NoRun =>
                 row.rev = 0 \/ (mem.closing /\ mem.cancellation = NoSnap)
           /\ row.exists /\ ~row'.exists /\ ~row.temp =>
                 row.mes = NoMessage /\ row.rev = 0 /\ (row.run = NoRun \/ MayBeLegacy)
  <1> DEFINE Ends == row.run # NoRun /\ row'.run = NoRun =>
                        row.rev = 0 \/ (mem.closing /\ mem.cancellation = NoSnap)
             Goes == row.exists /\ ~row'.exists /\ ~row.temp =>
                        row.mes = NoMessage /\ row.rev = 0 /\ (row.run = NoRun \/ MayBeLegacy)
  <1>1. TypeOK /\ row \in Row
    BY DEF IInv, TypeOK
  <1>2. CASE Prepare
    <2>1. row' \in {row, BegunRow(op.run)} /\ op.run \in Run0
      BY <1>1, <1>2 DEF Prepare, WriteApplies, WriteFails, db, TypeOK, Operation
    <2>2. row' = row \/ ~RunConflict(op.run)
      BY <1>2 DEF Prepare, WriteFails, db
    <2>3. row'.exists = row.exists
      BY <1>1, <2>1, Rows
    <2>4. Ends
      BY <1>1, <2>1, <2>2 DEF BegunRow, RunConflict, Row
    <2>5. QED
      BY <2>3, <2>4
  <1>3. CASE PersistPublication
    <2>1. row' \in {row, PublishedRow(op.sent)}
      BY <1>3 DEF PersistPublication, WriteApplies, DoubtfulWrite, db
    <2>2. row'.run = row.run /\ row'.exists = row.exists
      BY <1>1, <2>1 DEF PublishedRow, Row
    <2>3. QED
      BY <2>2
  <1>4. CASE FinishRun
    <2>1. /\ mem.closing \/ row.rev = 0
          /\ mem.cancellation = NoSnap
      BY <1>4 DEF IInv, CloseIsMeant, Closing, NothingToClose, Withdrawn, FinishRun, At
    <2>2. row' \in {row, FinishedRow}
      BY <1>4 DEF FinishRun, WriteApplies, WriteFails
    <2>3. QED
      BY <1>1, <2>1, <2>2, Rows
  <1>5. CASE DeleteScheduleEntry
    BY <1>5 DEF IInv, CloseIsMeant, DeleteScheduleEntry, At
  <1>6. CASE CancelPending
    <2>1. row' = row \/ (Cancellable /\ row' = FinishedRow)
      BY <1>6 DEF CancelPending, WriteApplies, DoubtfulWrite, db
    <2>2. Cancellable => row.rev = 0
      BY DEF Cancellable, IInv, EmptyBeforeOpening
    <2>3. QED
      BY <1>1, <2>1, <2>2, Rows
  <1>7. CASE GhostLands
    <2>1. /\ row' \in {row, GhostRow}
          /\ ghost.kind \in {"none", "begin", "bounds", "publish", "finish", "mutate", "delete"}
          /\ ghost.run \in Run0
      BY <1>1, <1>7 DEF GhostLands, TypeOK, Ghost
    <2>2. CASE ghost.kind = "begin"
      <3>1. row' \in {row, BegunRow(ghost.run)} /\ ~RunConflict(ghost.run)
        BY <2>1, <2>2 DEF GhostRow, IInv, LateWrites
      <3>2. row'.exists = row.exists
        BY <1>1, <2>1, <3>1, Rows
      <3>3. Ends
        BY <1>1, <3>1 DEF BegunRow, RunConflict, Row
      <3>4. QED
        BY <3>2, <3>3
    <2>3. CASE ghost.kind = "finish"
      <3>1. row' \in {row, FinishedRow}
        BY <2>1, <2>3 DEF GhostRow
      <3>2. row.rev = 0 \/ (mem.closing /\ mem.cancellation = NoSnap)
        BY <2>3 DEF IInv, LateWrites
      <3>3. QED
        BY <1>1, <3>1, <3>2, Rows
    <2>4. CASE ghost.kind \in {"none", "publish", "mutate"}
      <3>1. row' \in {row, PublishedRow(ghost.mes), MutatedRow}
        BY <2>1, <2>4 DEF GhostRow
      <3>2. row'.run = row.run /\ row'.exists = row.exists
        BY <1>1, <3>1 DEF PublishedRow, MutatedRow, Row
      <3>3. QED
        BY <3>2
    <2>5. CASE ghost.kind = "bounds"
      <3>1. row' \in {row, BoundRow(ghost.run)} /\ row.run = NoRun
        BY <2>1, <2>5 DEF GhostRow, IInv, LateWrites
      <3>2. row'.exists = row.exists
        BY <1>1, <3>1 DEF BoundRow, Row
      <3>3. QED
        BY <3>1, <3>2
    <2>6. CASE ghost.kind = "delete"
      BY <2>6 DEF IInv, LateWrites
    <2>7. QED
      BY <2>1, <2>2, <2>3, <2>4, <2>5, <2>6
  <1>8. CASE \E r \in Runs : SetLegacyQueueRunBounds(r)
    <2>1. PICK r \in Runs : row' \in {row, BoundRow(r)} /\ row.run = NoRun
      BY <1>8 DEF SetLegacyQueueRunBounds, WriteApplies, WriteFails
    <2>2. row'.exists = row.exists
      BY <1>1, <2>1 DEF BoundRow, Row
    <2>3. QED
      BY <2>1, <2>2
  <1>9. CASE \E m \in Messages : Mutate(m)
    <2>1. row' \in {row, MutatedRow}
      BY <1>9 DEF Mutate, WriteApplies, WriteFails, db
    <2>2. row'.run = row.run /\ row'.exists = row.exists
      BY <1>1, <2>1 DEF MutatedRow, Row
    <2>3. QED
      BY <2>2
  <1>10. QED
    BY <1>2, <1>3, <1>4, <1>5, <1>6, <1>7, <1>8, <1>9, OthersKeepTheRow DEF RowWriter

(* A run that CancelPending ends, at once or by its late COMMIT, had       *)
(* nobody in its queue who joined through this version: people join open   *)
(* runs only, and an open run is not cancelled.                            *)
THEOREM CancelLosesNobodyHolds == Spec => CancelLosesNobody
  <1>1. IInv /\ [Next]_vars =>
          [row.run # NoRun /\ row'.run = NoRun /\ (~mem.closing \/ mem.cancellation # NoSnap)
             => row.rev = 0]_vars
    BY EndOfRun
  <1>2. QED
    BY <1>1, Invariance, PTL DEF Spec, CancelLosesNobody

(* The row of a regular schedule that Delete takes away, at once or when   *)
(* its DELETE is committed late, shows no message and has nobody in it,    *)
(* and no run that the service began: no order of Delete, Close, presses   *)
(* and their failures loses a queue with it.                               *)
THEOREM DeleteSparesRunsHolds == Spec => DeleteSparesRuns
  <1>1. IInv /\ [Next]_vars =>
          [row.exists /\ ~row'.exists /\ ~row.temp =>
             row.mes = NoMessage /\ row.rev = 0 /\ (row.run = NoRun \/ MayBeLegacy)]_vars
    BY EndOfRun
  <1>2. QED
    BY <1>1, Invariance, PTL DEF Spec, DeleteSparesRuns

-----------------------------------------------------------------------------
(* What the messages in the chat show, and which of them are accounted     *)
(* for: a second invariant, which rests on IInv.                           *)

Live(m) == m # NoMessage /\ msgs[m].show = "live"
OnScreen(m) == m # NoMessage =>
                  msgs[m].show \in {"live", "missing"} \cup IF MayBeLegacy THEN {"closed"} ELSE {}
Complete(m) == \/ m = NoMessage
               \/ msgs[m].show = "missing"
               \/ msgs[m].show = "closed" /\ msgs[m].rev = row.rev

(* The local variables fit the place of the operation and its kind.        *)
Redrawing == op.at \in {"refresh", "render", "close", "repost"}
OperationFits ==
    /\ op.kind # "repost" => op.ref = NoMessage
    /\ op.at \in {"refresh", "render", "edit", "recheck", "close"} => op.kind # "repost"
    /\ Redrawing \/ Drawing => op.kind \in Retrying
    /\ ~At("persist") => op.sent = NoMessage

(* While the lane holder draws, the current message is the one of its      *)
(* snapshot, and it posts a new one only to replace a message it knows     *)
(* (Repost) or one that is gone; nothing is in doubt meanwhile.            *)
DrawsTheMessage ==
    /\ Drawing => row.mes = op.snap.mes
    /\ At("edit") => row.mes # NoMessage
    /\ op.at \in {"recheck", "send", "persist"} =>
          IF op.kind = "repost" THEN op.ref = row.mes
          ELSE row.mes = NoMessage \/ msgs[row.mes].show = "missing"
    /\ At("render") \/ Drawing \/ At("finishRun") =>
          mem.cancellation = NoSnap /\ mem.publication = NoPublication
    /\ At("finishRun") => ~Live(row.mes)
    /\ At("cleaning") =>
          row.mes \notin op.todo /\ ghost.kind \in {"none", "mutate", "begin", "bounds", "delete"}

(* A late COMMIT finds its doubt still remembered.                         *)
LateIsRemembered ==
    /\ ghost.kind = "finish" =>
          /\ mem.publication = NoPublication
          /\ ~Live(row.mes) \/ mem.cancellation.mes = row.mes
    /\ ghost.kind = "publish" =>
          /\ mem.cancellation = NoSnap /\ mem.publication.mes = ghost.mes
          /\ \/ row.mes \in {NoMessage, mem.publication.prev}
             \/ msgs[row.mes].show = "missing"

(* A publication in doubt has replaced the message before it, or has not.  *)
PublicationFits(n, r) ==
    n.publication # NoPublication =>
        /\ n.publication.mes # NoMessage
        /\ r.mes = n.publication.mes \/ n.publication.prev \in {NoMessage, r.mes}

(* A redrawing is owed: it is marked, or the lane holder has it before it, *)
(* or will retry.                                                          *)
Owed == \/ dirty
        \/ Redrawing
        \/ op.at \in {"cleanup", "cleaning", "done"} /\ op.kind \in Retrying /\ op.result = "error"
Covered == Owed \/ Drawing

(* The current live message shows the participants of the row, or somebody *)
(* is about to redraw it.                                                  *)
PictureIsFresh ==
    /\ Drawing /\ op.snap.live => dirty \/ (op.snap.rev = row.rev /\ ghost.kind # "mutate")
    /\ At("persist") /\ Live(op.sent) => msgs[op.sent].rev = op.snap.rev
    /\ ghost.kind = "publish" => Owed /\ (Live(ghost.mes) => row.run # NoRun)
    /\ row.run = NoRun /\ Live(row.mes) => msgs[row.mes].rev = row.rev
    /\ ~mem.closing /\ Active(row) /\ Live(row.mes) =>
          Covered \/ (msgs[row.mes].rev = row.rev /\ ghost.kind # "mutate")

(* Without an intent to close, the current message was not closed and not  *)
(* retired: people may have deleted it.  Only a row of an older version,   *)
(* bounded after its close was carried out, may have a closed one.         *)
CurrentOnScreen ==
    /\ ~mem.closing => OnScreen(row.mes)
    /\ Drawing /\ op.snap.live => OnScreen(row.mes) /\ OnScreen(op.sent)
    /\ ghost.kind = "publish" /\ ~mem.closing => OnScreen(ghost.mes)

(* The final drawing has everybody who was in the queue.                   *)
FinalIsComplete ==
    /\ FinalDrawing => ghost.kind \in {"none", "bounds"} /\ op.snap.rev = row.rev
    /\ At("persist") /\ FinalDrawing =>
          msgs[op.sent].show = "closed" /\ msgs[op.sent].rev = op.snap.rev
    /\ At("finishRun") => ghost.kind \in {"none", "bounds", "delete"} /\ Complete(row.mes)
    /\ ghost.kind = "finish" /\ mem.cancellation = NoSnap => Complete(row.mes)

Pictures ==
    /\ OperationFits
    /\ DrawsTheMessage
    /\ LateIsRemembered
    /\ PublicationFits(mem, row)
    /\ PictureIsFresh
    /\ CurrentOnScreen
    /\ FinalIsComplete

(* A run whose cancellation is in doubt is the run of the row with its     *)
(* message, or the row has no message; nobody begins it again meanwhile.   *)
CancellationFits(n, r) ==
    n.cancellation # NoSnap =>
        /\ n.cancellation.run # NoRun
        /\ r.mes = IF r.run = n.cancellation.run THEN n.cancellation.mes ELSE NoMessage
NotBegunAgain ==
    mem.cancellation # NoSnap =>
        /\ ghost.kind = "begin" => ghost.run # mem.cancellation.run
        /\ op.kind = "prepare" => op.run # mem.cancellation.run

(* A message that the memory n, the row r or the operation accounts for.   *)
Accounted(n, r, sent, m) ==
    \/ m \in {r.mes, sent, n.publication.mes, n.publication.prev, n.cancellation.mes}
    \/ n.cleanup[m] # "none"

Accounts ==
    /\ CancellationFits(mem, row)
    /\ NotBegunAgain
    /\ NoOrphan

(* No cancellation is in doubt while a row of an older version is about to *)
(* get its run: it might be the same run.                                  *)
Restoring == "restore" \in callers \/ op.kind = "legacyDate" \/ ghost.kind = "bounds"
RestoreFits == Restoring => mem.cancellation = NoSnap

-----------------------------------------------------------------------------
(* Steps that leave the row, the chat and the writes in flight alone.      *)

Elsewhere == Places \ {"render", "edit", "recheck", "send", "persist", "finishRun", "cleaning"}

(* Doubts stay as they are, or all of them are settled.                    *)
KeepsDoubts == UNCHANGED <<mem.publication, mem.cancellation>>
SettlesDoubts == Unnoted /\ mem'.publication = NoPublication /\ mem'.cancellation = NoSnap

LEMMA TypesOfParts ==
    ASSUME TypeOK
    PROVE  /\ row.mes \in Message0 /\ ghost.mes \in Message0 /\ op.sent \in Message0
           /\ op.ref \in Message0 /\ op.snap.mes \in Message0
           /\ row.run \in Run0 /\ row.rev \in Revisions
           /\ mem.closing \in BOOLEAN /\ dirty \in BOOLEAN /\ op.snap.live \in BOOLEAN
           /\ msgs \in [Messages -> Message] /\ op.todo \subseteq Messages
  BY DEF TypeOK, Row, Ghost, Operation, Snapshot, Memory

LEMMA PicturesLeft ==
    ASSUME IInv, Pictures, UNCHANGED <<row, ghost, msgs>>, KeepsDoubts \/ SettlesDoubts,
           mem.closing => mem'.closing, Active(row)' => Active(row),
           OperationFits', op'.at \in Elsewhere,
           Covered /\ ~mem'.closing => Owed',
           ghost.kind = "publish" /\ Owed => Owed'
    PROVE  Pictures'
  <1>1. DrawsTheMessage'
    BY DEF DrawsTheMessage, Drawing, At, Elsewhere
  <1>2. LateIsRemembered'
    BY DEF Pictures, LateIsRemembered, KeepsDoubts, SettlesDoubts, Unnoted, NoGhost, Live
  <1>3. PublicationFits(mem, row)'
    BY DEF Pictures, PublicationFits, KeepsDoubts, SettlesDoubts, Unnoted
  <1>4. PictureIsFresh'
    BY DEF Pictures, PictureIsFresh, Covered, Drawing, At, Elsewhere, Live
  <1>5. CurrentOnScreen'
    BY DEF Pictures, CurrentOnScreen, Drawing, Elsewhere, OnScreen
  <1>6. FinalIsComplete'
    BY DEF Pictures, FinalIsComplete, KeepsDoubts, SettlesDoubts, Unnoted, FinalDrawing, Drawing, At,
       Elsewhere, NoGhost, Complete
  <1>7. QED
    BY <1>1, <1>2, <1>3, <1>4, <1>5, <1>6 DEF Pictures

(* Steps that do not move the lane holder.                                 *)
LEMMA PicturesBeside ==
    ASSUME IInv, Pictures, UNCHANGED <<row, ghost, msgs, op>>, KeepsDoubts,
           mem.closing => mem'.closing, Active(row)' => Active(row), dirty => dirty'
    PROVE  Pictures'
  <1>1. OperationFits' /\ DrawsTheMessage'
    BY DEF Pictures, OperationFits, Redrawing, DrawsTheMessage, Drawing, At, KeepsDoubts, Live
  <1>2. LateIsRemembered' /\ PublicationFits(mem, row)'
    BY DEF Pictures, LateIsRemembered, PublicationFits, KeepsDoubts, Live
  <1>3. PictureIsFresh'
    BY DEF Pictures, PictureIsFresh, Covered, Owed, Redrawing, Drawing, At, Live
  <1>4. CurrentOnScreen' /\ FinalIsComplete'
    BY DEF Pictures, CurrentOnScreen, FinalIsComplete, FinalDrawing, Drawing, At, OnScreen,
       Complete, KeepsDoubts
  <1>5. QED
    BY <1>1, <1>2, <1>3, <1>4 DEF Pictures

(* The operation ends, or goes to the cleanup.                             *)
LEMMA PicturesEnd ==
    ASSUME IInv, Pictures, UNCHANGED <<row, ghost, msgs, clock>>, KeepsDoubts \/ SettlesDoubts,
           mem.closing => mem'.closing,
           NEW place \in {"cleanup", "done"}, NEW result \in {"ok", "error", "norows"},
           op' = Ended(place, result),
           Covered /\ ~mem'.closing => dirty' \/ (op.kind \in Retrying /\ result = "error"),
           ghost.kind = "publish" /\ Owed => dirty' \/ (op.kind \in Retrying /\ result = "error")
    PROVE  Pictures'
  <1>1. TypeOK
    BY DEF IInv
  <1>2. /\ op'.at = place /\ op'.kind = op.kind /\ op'.result = result
        /\ op'.ref = NoMessage /\ op'.sent = NoMessage
    BY <1>1, ConstantsTyped DEF Ended, NoOp, Operation, TypeOK
  <1>3. OperationFits'
    BY <1>2 DEF OperationFits, Redrawing, Drawing, At
  <1>4. op'.at \in Elsewhere
    BY <1>2 DEF Elsewhere, Places
  <1>5. Active(row)' => Active(row)
    BY DEF Active
  <1>6. /\ Covered /\ ~mem'.closing => Owed'
        /\ ghost.kind = "publish" /\ Owed => Owed'
    BY <1>2 DEF Owed
  <1>7. QED
    BY <1>3, <1>4, <1>5, <1>6, PicturesLeft

(* Memories after reads that succeed.                                      *)
LEMMA DoubtsRead ==
    ASSUME IInv
    PROVE  /\ mem' = mem \/ mem' = Synced => KeepsDoubts /\ mem'.closing = mem.closing
           /\ mem' = Doubtful => KeepsDoubts /\ mem'.closing = mem.closing
           /\ CanRead /\ mem' = Settled => SettlesDoubts /\ mem'.closing = mem.closing
  <1>1. TypeOK
    BY DEF IInv
  <1>2. QED
    BY <1>1, Remembering, ReadMeansSettled DEF TypeOK, Memory, KeepsDoubts, SettlesDoubts, Unnoted

LEMMA PrepareRefusedPictures == ASSUME IInv, Pictures, PrepareRefused PROVE Pictures'
  <1>1. UNCHANGED <<row, ghost, msgs, clock, dirty>> /\ At("prepare")
    BY DEF PrepareRefused, Aside, db, wake
  <1>2. PICK result \in {"error", "norows"} : op' = Ended("done", result)
    BY DEF PrepareRefused, Return
  <1>3. KeepsDoubts /\ mem'.closing = mem.closing
    BY DoubtsRead DEF PrepareRefused
  <1>4. Covered => dirty
    BY <1>1 DEF Covered, Owed, Redrawing, Drawing, At
  <1>5. QED
    BY <1>1, <1>2, <1>3, <1>4, PicturesEnd DEF Covered

LEMMA NotifyPictures == ASSUME IInv, Pictures, Notify PROVE Pictures'
  <1>1. UNCHANGED <<row, ghost, msgs, clock, dirty, mem>> /\ At("notify")
    BY DEF Notify, Aside, db, wake
  <1>2. PICK result \in {"ok", "error"} : op' = Ended("done", result)
    BY DEF Notify, Return
  <1>3. KeepsDoubts
    BY <1>1 DEF KeepsDoubts
  <1>4. Covered => dirty
    BY <1>1 DEF Covered, Owed, Redrawing, Drawing, At
  <1>5. QED
    BY <1>1, <1>2, <1>3, <1>4, PicturesEnd DEF Covered

LEMMA LegacyMessageDatePictures == ASSUME IInv, Pictures, LegacyMessageDate PROVE Pictures'
  <1>1. UNCHANGED <<row, ghost, msgs, clock, dirty>> /\ At("legacyDate")
    BY DEF LegacyMessageDate, Aside, db, wake
  <1>2. PICK result \in {"ok", "error"} : op' = Ended("done", result)
    BY DEF LegacyMessageDate, Return
  <1>3. KeepsDoubts /\ mem'.closing = mem.closing
    BY DoubtsRead DEF LegacyMessageDate
  <1>4. Covered => dirty
    BY <1>1 DEF Covered, Owed, Redrawing, Drawing, At
  <1>5. QED
    BY <1>1, <1>2, <1>3, <1>4, PicturesEnd DEF Covered

(* A read that fails ends the operation with an error, which a redrawing   *)
(* operation retries.                                                      *)
LEMMA ReadFailsPictures == ASSUME IInv, Pictures, ReadFails PROVE Pictures'
  <1>1. UNCHANGED <<row, ghost, msgs, clock, dirty, mem>>
    BY DEF ReadFails, Aside, db, wake
  <1>2. PICK place \in {"cleanup", "done"} : op' = Ended(place, "error")
    BY DEF ReadFails, Return, ToCleanup
  <1>3. Owed => dirty \/ op.kind \in Retrying
    BY DEF Owed, Pictures, OperationFits
  <1>4. ~Drawing
    BY DEF ReadFails, Drawing, At
  <1>5. KeepsDoubts
    BY <1>1 DEF KeepsDoubts
  <1>6. QED
    BY <1>1, <1>2, <1>3, <1>4, <1>5, PicturesEnd DEF Covered

LEMMA SnapshotFailsPictures == ASSUME IInv, Pictures, SnapshotFails PROVE Pictures'
  <1>1. UNCHANGED <<row, ghost, msgs, clock, dirty>> /\ CanRead
    BY DEF SnapshotFails, Aside, db, wake
  <1>2. PICK place \in {"cleanup", "done"} : op' = Ended(place, "error")
    BY DEF SnapshotFails, Return, ToCleanup
  <1>3. Owed => dirty \/ op.kind \in Retrying
    BY DEF Owed, Pictures, OperationFits
  <1>4. ~Drawing
    BY DEF SnapshotFails, Drawing, At
  <1>5. (KeepsDoubts \/ SettlesDoubts) /\ mem'.closing = mem.closing
    BY <1>1, DoubtsRead DEF SnapshotFails
  <1>6. QED
    BY <1>1, <1>2, <1>3, <1>4, <1>5, PicturesEnd DEF Covered

-----------------------------------------------------------------------------
(* The lane.                                                               *)

LEMMA AcquirePictures ==
    ASSUME IInv, Pictures, NEW kind \in Kinds, NEW r \in Run0, NEW m \in Message0,
           Acquire(kind, r, m), kind # "repost" => m = NoMessage
    PROVE  Pictures'
  <1>1. UNCHANGED <<row, ghost, msgs, clock, dirty, mem>> /\ op = NoOp
    BY DEF Acquire, db, wake
  <1>2. /\ op'.at = "acquired" /\ op'.kind = kind /\ op'.ref = m /\ op'.sent = NoMessage
    BY ConstantsTyped DEF Acquire, NoOp, Operation
  <1>3. OperationFits' /\ op'.at \in Elsewhere
    BY <1>2 DEF OperationFits, Redrawing, Drawing, At, Elsewhere, Places
  <1>4. Covered => dirty
    BY <1>1 DEF Covered, Owed, Redrawing, Drawing, NoOp
  <1>5. KeepsDoubts /\ (Active(row)' => Active(row))
    BY <1>1 DEF KeepsDoubts, Active
  <1>6. QED
    BY <1>1, <1>3, <1>4, <1>5, PicturesLeft DEF Owed, Covered

LEMMA StartedPictures == ASSUME IInv, Pictures, Started PROVE Pictures'
  <1>1. TypeOK /\ op.kind \in Kinds /\ op.kind # "update" /\ At("acquired")
    BY DEF IInv, LaneMarks, Started, At, TypeOK, Operation
  <1>2. UNCHANGED <<row, ghost, msgs, clock>> /\ dirty' = (dirty /\ op.kind \notin Capturing)
    BY DEF Started, db
  <1> DEFINE place == IF op.kind = "delete" THEN "close" ELSE op.kind
  <1>3. /\ place \in {"prepare", "refresh", "repost", "close", "notify", "legacyDate", "cancel"}
        /\ op.kind \in Capturing => place \in {"refresh", "close", "repost"}
        /\ place \in {"refresh", "close", "repost"} => op.kind \in Retrying
        /\ place \in {"refresh", "close"} => op.kind # "repost"
    BY <1>1 DEF Kinds, Capturing, Retrying
  <1> HIDE DEF place
  <1>4. op' = [op EXCEPT !.at = place]
    BY DEF Started, Goto, place
  <1>5. op'.at = place /\ UNCHANGED <<op.kind, op.ref, op.sent>>
    BY <1>1, <1>4 DEF TypeOK, Operation
  <1>6. OperationFits'
    BY <1>1, <1>3, <1>5 DEF Pictures, OperationFits, Redrawing, Drawing, At
  <1>7. op'.at \in Elsewhere
    BY <1>3, <1>5 DEF Elsewhere, Places
  <1>8. Covered => Owed'
    BY <1>1, <1>2, <1>3, <1>5 DEF Covered, Owed, Redrawing, Drawing, At
  <1>9. KeepsDoubts /\ mem'.closing = mem.closing /\ (Active(row)' => Active(row))
    BY <1>1, <1>2 DEF Started, KeepsDoubts, Active, TypeOK, Memory
  <1>10. QED
    BY <1>2, <1>6, <1>7, <1>8, <1>9, PicturesLeft DEF Covered

LEMMA FinishPictures == ASSUME IInv, Pictures, Finish PROVE Pictures'
  <1>1. TypeOK /\ At("done")
    BY DEF IInv, Finish
  <1>2. UNCHANGED <<row, ghost, msgs, clock>> /\ op' = NoOp /\ dirty' = (dirty \/ Failed)
    BY DEF Finish, RetryOrServe, db
  <1>3. OperationFits' /\ op'.at \in Elsewhere
    BY <1>2 DEF OperationFits, Redrawing, Drawing, At, Elsewhere, Places, NoOp
  <1>4. Covered => Owed'
    BY <1>1, <1>2 DEF Covered, Owed, Redrawing, Drawing, At, Failed
  <1>5. KeepsDoubts /\ mem'.closing = mem.closing /\ (Active(row)' => Active(row))
    BY <1>1, <1>2 DEF Finish, KeepsDoubts, Active, TypeOK, Memory
  <1>6. QED
    BY <1>2, <1>3, <1>4, <1>5, PicturesLeft DEF Covered

LEMMA WorkerStartsPictures == ASSUME IInv, Pictures, WorkerStarts PROVE Pictures'
  <1>1. UNCHANGED <<row, ghost, msgs, clock, mem>>
    BY DEF WorkerStarts, db
  <1>2. /\ op'.at = "refresh" /\ op'.kind = "update" /\ op'.ref = NoMessage
        /\ op'.sent = NoMessage
    BY ConstantsTyped DEF WorkerStarts, NoOp, Operation
  <1>3. OperationFits' /\ op'.at \in Elsewhere /\ Owed'
    BY <1>2 DEF OperationFits, Redrawing, Drawing, At, Elsewhere, Places, Retrying, Owed
  <1>4. KeepsDoubts /\ (Active(row)' => Active(row))
    BY <1>1 DEF KeepsDoubts, Active
  <1>5. QED
    BY <1>1, <1>3, <1>4, PicturesLeft

(* Jobs dropped, intents, calls given up, changes of the title, readings   *)
(* of the row and the clock do not move the lane holder.                   *)
Beside == \/ WorkerDrops \/ CloseIntent \/ DeleteIntent \/ ReadBack \/ Changed \/ Tick
          \/ RestoreEnds \/ \E kind \in {"close", "delete"} : GiveUp(kind)
          \/ UNCHANGED vars

LEMMA ClosingInstants == ASSUME TypeOK, row.run # NoRun PROVE ClosesAt[row.run] \in Nat
  <1>1. row.run \in Runs
    BY DEF TypeOK, Row
  <1>2. QED
    BY <1>1

LEMMA BesideKeeps ==
    ASSUME IInv, Beside
    PROVE  /\ UNCHANGED <<row, ghost, msgs, op>> /\ KeepsDoubts
           /\ mem.closing => mem'.closing
           /\ Active(row)' => Active(row)
           /\ dirty => dirty'
           /\ UNCHANGED mem.cleanup
  <1>1. TypeOK
    BY DEF IInv
  <1>2. UNCHANGED <<row, ghost, msgs, op>>
    BY DEF Beside, WorkerDrops, CloseIntent, DeleteIntent, ReadBack, RestoreEnds, Changed, Tick, GiveUp, vars, db
  <1>3. dirty => dirty'
    BY DEF Beside, WorkerDrops, CloseIntent, DeleteIntent, ReadBack, RestoreEnds, Changed, Tick, GiveUp, vars,
       wake, ScheduleUpdate
  <1>4. Active(row)' => Active(row)
    <2>1. clock' = clock \/ clock' = clock + 1
      BY DEF Beside, WorkerDrops, CloseIntent, DeleteIntent, ReadBack, RestoreEnds, Changed, Tick, GiveUp, vars
    <2>2. row.run # NoRun => ClosesAt[row.run] \in Nat
      BY <1>1, ClosingInstants
    <2>3. clock \in Nat
      BY <1>1 DEF TypeOK
    <2>4. QED
      BY <1>2, <2>1, <2>2, <2>3 DEF Active
  <1>5. KeepsDoubts /\ UNCHANGED mem.cleanup /\ (mem.closing => mem'.closing)
    <2>1. CASE UNCHANGED mem
      BY <2>1 DEF KeepsDoubts
    <2>2. CASE ReadBack
      BY <1>1, <2>2 DEF ReadBack, Synced, KeepsDoubts, TypeOK, Memory
    <2>3. CASE CloseIntent \/ DeleteIntent
      BY <1>1, <2>3 DEF CloseIntent, DeleteIntent, KeepsDoubts, TypeOK, Memory
    <2>4. CASE \E kind \in {"close", "delete"} : GiveUp(kind)
      BY <1>1, <2>4 DEF GiveUp, KeepsDoubts, TypeOK, Memory
    <2>5. QED
      BY <2>1, <2>2, <2>3, <2>4 DEF Beside, WorkerDrops, RestoreEnds, Changed, Tick, vars
  <1>6. QED
    BY <1>2, <1>3, <1>4, <1>5

LEMMA BesidePictures == ASSUME IInv, Pictures, Beside PROVE Pictures'
  BY BesideKeeps, PicturesBeside

-----------------------------------------------------------------------------
(* Refreshing, reposting and cleaning.                                     *)

LEMMA RefreshPictures == ASSUME IInv, Pictures, Refresh PROVE Pictures'
  <1>1. TypeOK /\ At("refresh") /\ UNCHANGED <<row, ghost, msgs, clock, dirty>>
    BY DEF IInv, Refresh, Aside, db, wake
  <1>2. op.kind \in Retrying /\ op.kind # "repost"
    BY <1>1 DEF Pictures, OperationFits, Redrawing, At
  <1>3. CASE mem.closing /\ Goto("close") /\ UNCHANGED mem
    <2>1. op'.at = "close" /\ UNCHANGED <<op.kind, op.ref, op.sent>>
      BY <1>1, <1>3 DEF Goto, TypeOK, Operation
    <2>2. OperationFits' /\ op'.at \in Elsewhere /\ Owed'
      BY <1>1, <1>2, <2>1 DEF Pictures, OperationFits, Redrawing, Drawing, At, Elsewhere, Places, Owed
    <2>3. KeepsDoubts /\ (Active(row)' => Active(row))
      BY <1>1, <1>3 DEF KeepsDoubts, Active
    <2>4. QED
      BY <1>1, <1>3, <2>2, <2>3, PicturesLeft
  <1>4. CASE CanRead /\ mem' = Settled /\ Goto("render")
    <2>1. op'.at = "render" /\ UNCHANGED <<op.kind, op.ref, op.sent>>
      BY <1>1, <1>4 DEF Goto, TypeOK, Operation
    <2>2. SettlesDoubts /\ mem'.closing = mem.closing
      BY <1>4, DoubtsRead
    <2>3. OperationFits' /\ Owed'
      BY <1>1, <1>2, <2>1 DEF Pictures, OperationFits, Redrawing, Drawing, At, Owed
    <2>4. DrawsTheMessage' /\ LateIsRemembered' /\ PublicationFits(mem, row)'
      BY <1>1, <2>1, <2>2 DEF DrawsTheMessage, LateIsRemembered, PublicationFits, Drawing, At,
         SettlesDoubts, Unnoted, NoGhost
    <2>5. PictureIsFresh'
      BY <1>1, <2>1, <2>2, <2>3 DEF Pictures, PictureIsFresh, Covered, Drawing, At, Live,
         SettlesDoubts, Unnoted, NoGhost
    <2>6. CurrentOnScreen' /\ FinalIsComplete'
      BY <1>1, <2>1, <2>2 DEF Pictures, CurrentOnScreen, FinalIsComplete, FinalDrawing, Drawing, At,
         SettlesDoubts, Unnoted, NoGhost, OnScreen
    <2>7. QED
      BY <2>3, <2>4, <2>5, <2>6 DEF Pictures
  <1>5. CASE CanRead /\ mem' = Settled /\ ToCleanup("norows") /\ ~row.exists
    <2>1. SettlesDoubts /\ mem'.closing = mem.closing /\ op' = Ended("cleanup", "norows")
      BY <1>5, DoubtsRead DEF ToCleanup
    <2>2. row.mes = NoMessage
      BY <1>5 DEF IInv, GoneIsEmpty
    <2>3. op'.at = "cleanup" /\ op'.sent = NoMessage /\ op'.ref = NoMessage
      BY <1>1, <2>1, ConstantsTyped DEF Ended, NoOp, Operation, TypeOK
    <2>4. OperationFits'
      BY <2>3 DEF OperationFits, Redrawing, Drawing, At
    <2>5. DrawsTheMessage' /\ LateIsRemembered' /\ PublicationFits(mem, row)'
      BY <1>1, <2>1, <2>3 DEF DrawsTheMessage, LateIsRemembered, PublicationFits, Drawing, At,
         SettlesDoubts, Unnoted, NoGhost
    <2>6. PictureIsFresh' /\ CurrentOnScreen' /\ FinalIsComplete'
      BY <1>1, <2>1, <2>2, <2>3 DEF PictureIsFresh, CurrentOnScreen, FinalIsComplete, FinalDrawing,
         Drawing, At, SettlesDoubts, Unnoted, NoGhost, OnScreen, Live
    <2>7. QED
      BY <2>4, <2>5, <2>6 DEF Pictures
  <1>6. QED
    BY <1>3, <1>4, <1>5 DEF Refresh

(* A drawing that accepts presses begins, from the row as it is.           *)
LEMMA DrawingBegins ==
    ASSUME IInv, Pictures, UNCHANGED <<row, ghost, msgs, clock>>, Unnoted, ~mem.closing,
           mem'.publication = NoPublication, mem'.cancellation = NoSnap,
           mem'.closing = mem.closing, op.kind \in Retrying, ~At("persist"),
           NEW place \in {"edit", "recheck", "send"},
           op' = [op EXCEPT !.at = place, !.snap = SnapshotOf(row, TRUE)],
           place \in {"edit", "recheck"} => op.kind # "repost",
           place = "edit" <=> row.mes # NoMessage /\ op.kind # "repost",
           op.kind = "repost" => op.ref = row.mes
    PROVE  Pictures'
  <1>1. TypeOK
    BY DEF IInv
  <1>2. /\ op'.at = place /\ op'.snap = SnapshotOf(row, TRUE)
        /\ UNCHANGED <<op.kind, op.ref, op.sent>>
    BY <1>1 DEF TypeOK, Operation
  <1>3. op'.snap.live /\ op'.snap.mes = row.mes /\ op'.snap.rev = row.rev /\ op'.sent = NoMessage
    BY <1>2 DEF SnapshotOf, Pictures, OperationFits
  <1>4. OperationFits'
    BY <1>2, <1>3 DEF Pictures, OperationFits, Redrawing, Drawing, At
  <1>5. DrawsTheMessage'
    BY <1>2, <1>3 DEF DrawsTheMessage, Drawing, At
  <1>6. LateIsRemembered' /\ PublicationFits(mem, row)'
    BY DEF LateIsRemembered, PublicationFits, Unnoted
  <1>7. PictureIsFresh'
    BY <1>2, <1>3 DEF Pictures, PictureIsFresh, Covered, Drawing, At, Unnoted, Live
  <1>8. CurrentOnScreen'
    BY <1>2, <1>3 DEF Pictures, CurrentOnScreen, Unnoted, OnScreen
  <1>9. FinalIsComplete'
    BY <1>2, <1>3 DEF FinalIsComplete, FinalDrawing, At, Unnoted
  <1>10. QED
    BY <1>4, <1>5, <1>6, <1>7, <1>8, <1>9 DEF Pictures

LEMMA RenderPictures == ASSUME IInv, Pictures, Render PROVE Pictures'
  <1>1. /\ TypeOK /\ At("render") /\ UNCHANGED <<row, ghost, msgs, clock>>
        /\ Unnoted
    BY ReadMeansSettled DEF IInv, Render, Aside, db
  <1>2. /\ op.kind \in Retrying /\ op.kind # "repost"
        /\ mem.cancellation = NoSnap /\ mem.publication = NoPublication
    BY <1>1 DEF Pictures, OperationFits, Redrawing, At, DrawsTheMessage
  <1>3. KeepsDoubts /\ mem'.closing = mem.closing
    BY DoubtsRead DEF Render
  <1>4. CASE NothingToDraw /\ (ToCleanup("ok") \/ ToCleanup("norows")) /\ UNCHANGED dirty
    <2>1. op'.at = "cleanup" /\ op'.sent = NoMessage /\ op'.ref = NoMessage
      BY <1>1, <1>4, ConstantsTyped DEF ToCleanup, Ended, NoOp, Operation, TypeOK
    <2>2. OperationFits' /\ DrawsTheMessage'
      BY <2>1 DEF OperationFits, Redrawing, Drawing, At, DrawsTheMessage
    <2>3. LateIsRemembered' /\ PublicationFits(mem, row)'
      BY <1>1, <1>2, <1>3 DEF LateIsRemembered, PublicationFits, Unnoted, KeepsDoubts
    <2>4. PictureIsFresh'
      BY <1>1, <1>3, <1>4, <2>1 DEF Pictures, PictureIsFresh, Drawing, At, Unnoted, Live,
         NothingToDraw, Active
    <2>5. CurrentOnScreen' /\ FinalIsComplete'
      BY <1>1, <1>3, <2>1 DEF Pictures, CurrentOnScreen, FinalIsComplete, FinalDrawing, Drawing, At,
         Unnoted, OnScreen
    <2>6. QED
      BY <2>2, <2>3, <2>4, <2>5 DEF Pictures
  <1>5. CASE ~NothingToDraw
    <2>1. PICK place \in {"edit", "recheck"} :
             /\ op' = [op EXCEPT !.at = place, !.snap = SnapshotOf(row, TRUE)]
             /\ place = "edit" <=> row.mes # NoMessage
      BY <1>5 DEF Render
    <2>2. ~mem.closing /\ ~At("persist")
      BY <1>1, <1>5 DEF NothingToDraw, At
    <2>3. QED
      BY <1>1, <1>2, <1>3, <2>1, <2>2, DrawingBegins DEF KeepsDoubts
  <1>6. QED
    BY <1>4, <1>5 DEF Render

LEMMA RepostPictures == ASSUME IInv, Pictures, Repost PROVE Pictures'
  <1>1. /\ TypeOK /\ At("repost") /\ UNCHANGED <<row, ghost, msgs, clock>>
    BY DEF IInv, Repost, Aside, db
  <1>2. op.kind \in Retrying /\ ~At("persist")
    BY <1>1 DEF Pictures, OperationFits, Redrawing, At
  <1>3. CASE Return("error") /\ (mem' = mem \/ mem' = Synced) /\ UNCHANGED dirty
    BY <1>1, <1>2, <1>3, DoubtsRead, PicturesEnd DEF Return
  <1>4. CASE /\ Receptive /\ CanRead /\ Accepts(op.ref) /\ mem' = Settled
             /\ op' = [op EXCEPT !.at = "send", !.snap = SnapshotOf(row, TRUE)]
    <2>1. SettlesDoubts /\ mem'.closing = mem.closing /\ ~mem.closing
      BY <1>4, DoubtsRead DEF Receptive
    <2>2. op.kind = "repost" /\ op.ref = row.mes
      BY <1>4 DEF Accepts, Pictures, OperationFits
    <2>3. QED
      BY <1>1, <1>2, <1>4, <2>1, <2>2, DrawingBegins DEF SettlesDoubts, Unnoted
  <1>5. QED
    BY <1>3, <1>4 DEF Repost

LEMMA RecheckPictures == ASSUME IInv, Pictures, Recheck PROVE Pictures'
  <1>1. /\ TypeOK /\ At("recheck") /\ Drawing
        /\ UNCHANGED <<row, ghost, msgs, clock, mem, dirty>>
    BY DEF IInv, Recheck, Aside, db, wake, At, Drawing
  <1>2. /\ op.kind \in Retrying /\ op.kind # "repost" /\ op.sent = NoMessage
        /\ ghost.kind \in {"none", "mutate", "bounds", "delete"} /\ op.snap.live
    BY <1>1 DEF Pictures, OperationFits, Redrawing, At, IInv, DrawsTheRun
  <1>3. CASE mem.closing /\ ToCleanup("ok")
    <2>1. KeepsDoubts
      BY <1>1 DEF KeepsDoubts
    <2>2. QED
      BY <1>1, <1>2, <1>3, <2>1, PicturesEnd DEF ToCleanup
  <1>4. CASE ~mem.closing /\ Goto("send")
    <2>1. op'.at = "send" /\ UNCHANGED <<op.kind, op.ref, op.sent, op.snap>>
      BY <1>1, <1>4 DEF Goto, TypeOK, Operation
    <2>2. OperationFits' /\ DrawsTheMessage'
      BY <1>1, <1>2, <2>1 DEF Pictures, OperationFits, DrawsTheMessage, Redrawing, Drawing, At
    <2>3. LateIsRemembered' /\ PublicationFits(mem, row)'
      BY <1>1, <1>2 DEF Pictures, LateIsRemembered, PublicationFits
    <2>4. PictureIsFresh'
      BY <1>1, <1>2, <2>1 DEF Pictures, PictureIsFresh, Covered, Owed, Redrawing, Drawing, At, Live,
         Active
    <2>5. CurrentOnScreen' /\ FinalIsComplete'
      BY <1>1, <1>2, <2>1 DEF Pictures, CurrentOnScreen, FinalIsComplete, FinalDrawing, Drawing, At,
         OnScreen, Complete
    <2>6. QED
      BY <2>2, <2>3, <2>4, <2>5 DEF Pictures
  <1>5. QED
    BY <1>3, <1>4 DEF Recheck

(* The cleaning does not touch the current message.                        *)
LEMMA CleanupPictures == ASSUME IInv, Pictures, Cleanup PROVE Pictures'
  <1>1. /\ TypeOK /\ At("cleanup") /\ UNCHANGED <<row, ghost, msgs, clock, dirty>>
    BY DEF IInv, Cleanup, Aside, db, wake
  <1>2. /\ KeepsDoubts /\ mem'.closing = mem.closing
        /\ op'.at \in {"done", "cleaning"} /\ UNCHANGED <<op.kind, op.ref, op.sent, op.result>>
        /\ op'.at = "cleaning" => Unnoted /\ op'.todo = Kept
    <2>1. CASE Goto("done") /\ UNCHANGED mem
      BY <1>1, <2>1 DEF Goto, KeepsDoubts, TypeOK, Operation
    <2>2. CASE /\ CanRead
               /\ mem' = [Synced EXCEPT !.cleanup =
                            [m \in Messages |-> IF m \in Kept THEN @[m] ELSE "none"]]
               /\ op' = [op EXCEPT !.at = IF Kept = {} THEN "done" ELSE "cleaning", !.todo = Kept]
      <3>1. KeepsDoubts /\ mem'.closing = mem.closing
        BY <1>1, <2>2 DEF Synced, KeepsDoubts, TypeOK, Memory
      <3>2. PICK place \in {"done", "cleaning"} : op' = [op EXCEPT !.at = place, !.todo = Kept]
        BY <2>2
      <3>3. op'.at = place /\ op'.todo = Kept /\ UNCHANGED <<op.kind, op.ref, op.sent, op.result>>
        BY <1>1, <3>2 DEF TypeOK, Operation
      <3>4. QED
        BY <2>2, <3>1, <3>3, ReadMeansSettled
    <2>3. QED
      BY <2>1, <2>2 DEF Cleanup
  <1>3. OperationFits'
    BY <1>1, <1>2 DEF Pictures, OperationFits, Redrawing, Drawing, At
  <1>4. Covered => Owed'
    BY <1>1, <1>2 DEF Covered, Owed, Redrawing, Drawing, At
  <1>5. Active(row)' => Active(row)
    BY <1>1 DEF Active
  <1>6. CASE op'.at = "done"
    BY <1>1, <1>2, <1>3, <1>4, <1>5, <1>6, PicturesLeft DEF Elsewhere, Places, Covered
  <1>7. CASE op'.at = "cleaning"
    <2>1. DrawsTheMessage'
      BY <1>1, <1>2, <1>7 DEF DrawsTheMessage, Drawing, At, Kept, Unnoted
    <2>2. LateIsRemembered' /\ PublicationFits(mem, row)'
      BY <1>1, <1>2, <1>7 DEF Pictures, LateIsRemembered, PublicationFits, KeepsDoubts, Unnoted
    <2>3. PictureIsFresh'
      BY <1>1, <1>2, <1>4, <1>5, <1>7 DEF Pictures, PictureIsFresh, Covered, Drawing, At, Live, Unnoted
    <2>4. CurrentOnScreen' /\ FinalIsComplete'
      BY <1>1, <1>2, <1>7 DEF Pictures, CurrentOnScreen, FinalIsComplete, FinalDrawing, Drawing, At,
         OnScreen, Unnoted
    <2>5. QED
      BY <1>3, <2>1, <2>2, <2>3, <2>4 DEF Pictures
  <1>8. QED
    BY <1>2, <1>6, <1>7

-----------------------------------------------------------------------------
(* Steps that change the chat.                                             *)

(* What a drawing makes of the messages.                                   *)
LEMMA DrawnMessages ==
    ASSUME TypeOK, NEW m \in Messages, NEW s \in Snapshot, msgs' = Drawn(m, s)
    PROVE  /\ s.live => msgs'[m].show = "live" /\ msgs'[m].rev = s.rev
           /\ ~s.live => msgs'[m].show = "closed" /\ msgs'[m].rev = s.rev
           /\ \A n \in Messages : n # m => msgs'[n] = msgs[n]
  BY DEF TypeOK, Drawn

(* What the lane holder knows while it draws.                              *)
LEMMA WhileDrawing ==
    ASSUME IInv, Pictures, Drawing
    PROVE  /\ TypeOK /\ op.snap \in Snapshot /\ op.kind \in Retrying /\ row.mes = op.snap.mes
           /\ mem.cancellation = NoSnap /\ mem.publication = NoPublication
           /\ ghost.kind \in {"none", "mutate", "bounds", "delete"}
           /\ op.snap.live => /\ OnScreen(row.mes)
                              /\ row.run # NoRun \/ row.mes = NoMessage
                              /\ dirty \/ (op.snap.rev = row.rev /\ ghost.kind # "mutate")
           /\ ~op.snap.live => /\ mem.closing \/ MayBeLegacy
                               /\ ghost.kind \in {"none", "bounds"} /\ op.snap.rev = row.rev
  <1>1. TypeOK /\ op.snap \in Snapshot
    BY DEF IInv, TypeOK, Operation
  <1>2. /\ ghost.kind \in {"none", "mutate", "bounds", "delete"}
        /\ op.snap.live => row.run # NoRun \/ row.mes = NoMessage
    BY DEF IInv, DrawsTheRun, GoneIsEmpty
  <1>3. /\ op.kind \in Retrying /\ row.mes = op.snap.mes
        /\ mem.cancellation = NoSnap /\ mem.publication = NoPublication
    BY DEF Pictures, OperationFits, DrawsTheMessage
  <1>4. op.snap.live => /\ OnScreen(row.mes)
                        /\ dirty \/ (op.snap.rev = row.rev /\ ghost.kind # "mutate")
    BY DEF Pictures, PictureIsFresh, CurrentOnScreen
  <1>5. ~op.snap.live => /\ mem.closing \/ MayBeLegacy
                         /\ ghost.kind \in {"none", "bounds"} /\ op.snap.rev = row.rev
    BY DEF Pictures, FinalIsComplete, IInv, CloseIsMeant, FinalDrawing, Withdrawn
  <1>6. QED
    BY <1>1, <1>2, <1>3, <1>4, <1>5

LEMMA EditPictures == ASSUME IInv, Pictures, Edit PROVE Pictures'
  <1>1. At("edit") /\ Drawing /\ row.mes \in Messages
    BY TypesOfParts DEF Edit, At, Drawing, Pictures, DrawsTheMessage, IInv
  <1>2. UNCHANGED <<row, ghost, clock, mem, dirty>>
    BY DEF Edit, Aside, db, wake
  <1>3. KeepsDoubts
    BY <1>2 DEF KeepsDoubts
  <1>4. op.sent = NoMessage /\ op.kind # "repost" /\ op.ref = NoMessage
    BY <1>1 DEF Pictures, OperationFits, At
  <1>5. /\ LateIsRemembered' /\ PublicationFits(mem, row)'
    BY <1>1, <1>2, WhileDrawing DEF LateIsRemembered, PublicationFits
  <1>6. CASE msgs' = msgs /\ \E place \in {"cleanup", "done"} : op' = Ended(place, "error")
    BY <1>1, <1>2, <1>3, <1>6, PicturesEnd, WhileDrawing
  <1>7. CASE /\ msgs' = Drawn(row.mes, op.snap)
             /\ \/ op.snap.live /\ op' = Ended("cleanup", "ok")
                \/ ~op.snap.live /\ op' = Ended("finishRun", "ok")
                \/ \E place \in {"cleanup", "done"} : op' = Ended(place, "error")
    <2>1. /\ op.snap.live => msgs'[row.mes].show = "live" /\ msgs'[row.mes].rev = op.snap.rev
          /\ ~op.snap.live => msgs'[row.mes].show = "closed" /\ msgs'[row.mes].rev = op.snap.rev
          /\ \A n \in Messages : n # row.mes => msgs'[n] = msgs[n]
      BY <1>1, <1>7, DrawnMessages, WhileDrawing
    <2>2. PICK place \in {"cleanup", "done", "finishRun"}, result \in {"ok", "error"} :
             /\ op' = Ended(place, result)
             /\ place = "finishRun" => ~op.snap.live
             /\ place = "done" => result = "error"
      BY <1>7
    <2>3. /\ op'.at = place /\ op'.kind = op.kind /\ op'.result = result
          /\ op'.ref = NoMessage /\ op'.sent = NoMessage
      BY <1>1, <2>2, WhileDrawing, ConstantsTyped DEF Ended, NoOp, Operation, TypeOK
    <2>4. OperationFits'
      BY <2>3 DEF OperationFits, Redrawing, Drawing, At
    <2>5. DrawsTheMessage'
      BY <1>1, <1>2, <2>1, <2>2, <2>3, WhileDrawing DEF DrawsTheMessage, Drawing, At, Live
    <2>6. row.mes # NoMessage
      BY <1>1
    <2>7. PictureIsFresh'
      <3>1. ~Drawing' /\ ghost'.kind # "publish" /\ ~At("persist")'
        BY <1>1, <1>2, <2>3, WhileDrawing DEF Drawing, At
      <3>2. row.run = NoRun /\ Live(row.mes)' => FALSE
        BY <1>1, <1>2, <2>1, WhileDrawing DEF Live
      <3>3. ~mem.closing => dirty' \/ (msgs'[row.mes].rev = row.rev /\ ghost'.kind # "mutate")
        BY <1>1, <1>2, <2>1, WhileDrawing
      <3>4. QED
        BY <1>2, <3>1, <3>2, <3>3 DEF PictureIsFresh, Covered, Owed
    <2>8. CurrentOnScreen'
      BY <1>1, <1>2, <2>1, <2>3, WhileDrawing DEF CurrentOnScreen, OnScreen, Drawing
    <2>9. FinalIsComplete'
      BY <1>1, <1>2, <2>1, <2>2, <2>3, WhileDrawing DEF FinalIsComplete, FinalDrawing, Drawing, At,
         Complete
    <2>10. QED
      BY <1>5, <2>4, <2>5, <2>7, <2>8, <2>9 DEF Pictures
  <1>8. CASE /\ msgs[row.mes].show = "missing" /\ UNCHANGED msgs
             /\ Goto(IF op.snap.live THEN "recheck" ELSE "send")
    <2>1. PICK place \in {"recheck", "send"} : op' = [op EXCEPT !.at = place]
      BY <1>8 DEF Goto
    <2>2. op'.at = place /\ UNCHANGED <<op.kind, op.ref, op.sent, op.snap>>
      BY <1>1, <2>1, WhileDrawing DEF TypeOK, Operation
    <2>3. OperationFits' /\ DrawsTheMessage'
      BY <1>1, <1>2, <1>4, <1>8, <2>2, WhileDrawing DEF Pictures, OperationFits, DrawsTheMessage,
         Redrawing, Drawing, At
    <2>4. PictureIsFresh'
      BY <1>1, <1>2, <1>8, <2>2, WhileDrawing DEF PictureIsFresh, Drawing, At, Live
    <2>5. CurrentOnScreen' /\ FinalIsComplete'
      BY <1>1, <1>2, <1>4, <1>8, <2>2, WhileDrawing DEF CurrentOnScreen, FinalIsComplete,
         FinalDrawing, Drawing, At, OnScreen
    <2>6. QED
      BY <1>5, <2>3, <2>4, <2>5 DEF Pictures
  <1>9. QED
    BY <1>1, <1>6, <1>7, <1>8, WhileDrawing DEF Edit, ToCleanup, ToFinishRun, Return

LEMMA SendPictures == ASSUME IInv, Pictures, Send PROVE Pictures'
  <1>1. At("send") /\ Drawing
    BY DEF Send, At, Drawing
  <1>2. UNCHANGED <<row, ghost, clock, mem, dirty>>
    BY DEF Send, Aside, db, wake
  <1>3. KeepsDoubts
    BY <1>2 DEF KeepsDoubts
  <1>4. CASE NotPublished /\ UNCHANGED msgs
    <2>1. \E place \in {"cleanup", "done"} : op' = Ended(place, "error")
      BY <1>4 DEF NotPublished, ToCleanup, Return
    <2>2. QED
      BY <1>1, <1>2, <1>3, <1>4, <2>1, PicturesEnd, WhileDrawing
  <1>5. ASSUME NEW m \in Messages, IsFresh(m), msgs' = Drawn(m, op.snap),
               op' = [op EXCEPT !.at = "persist", !.sent = m]
        PROVE  Pictures'
    <2>1. row.mes # m
      BY <1>5 DEF IsFresh, Fresh, Referenced
    <2>2. row.mes \in Message0 /\ row.mes # NoMessage => msgs'[row.mes] = msgs[row.mes]
      BY <1>1, <1>5, <2>1, DrawnMessages, WhileDrawing
    <2>3. /\ op.snap.live => msgs'[m].show = "live" /\ msgs'[m].rev = op.snap.rev
          /\ ~op.snap.live => msgs'[m].show = "closed" /\ msgs'[m].rev = op.snap.rev
      BY <1>1, <1>5, DrawnMessages, WhileDrawing
    <2>4. row.mes \in Message0
      BY <1>1, WhileDrawing, TypesOfParts
    <2>5. op'.at = "persist" /\ op'.sent = m /\ UNCHANGED <<op.kind, op.ref, op.snap>>
      BY <1>1, <1>5, WhileDrawing DEF TypeOK, Operation
    <2>6. OperationFits' /\ DrawsTheMessage'
      BY <1>1, <1>2, <2>2, <2>4, <2>5, WhileDrawing DEF Pictures, OperationFits, DrawsTheMessage,
         Redrawing, Drawing, At
    <2>7. LateIsRemembered' /\ PublicationFits(mem, row)'
      BY <1>1, <1>2, WhileDrawing DEF LateIsRemembered, PublicationFits
    <2>8. PictureIsFresh'
      <3>1. op.snap.live => dirty \/ (op.snap.rev = row.rev /\ ghost.kind # "mutate")
        BY <1>1, WhileDrawing
      <3>2. row.run = NoRun /\ Live(row.mes)' => msgs'[row.mes].rev = row.rev
        BY <1>2, <2>2, <2>4 DEF Pictures, PictureIsFresh, Live
      <3>3. /\ ~mem.closing /\ Active(row) /\ Live(row.mes)' =>
                  Covered' \/ (msgs'[row.mes].rev = row.rev /\ ghost.kind # "mutate")
        BY <1>1, <2>5, WhileDrawing DEF Covered, Drawing
      <3>4. At("persist")' /\ Live(op.sent)' => msgs'[m].rev = op.snap.rev
        BY <2>3
      <3>5. QED
        BY <1>1, <1>2, <2>5, <3>1, <3>2, <3>3, <3>4, WhileDrawing DEF PictureIsFresh, Active
    <2>9. CurrentOnScreen'
      BY <1>1, <1>2, <2>2, <2>3, <2>4, <2>5, WhileDrawing DEF Pictures, CurrentOnScreen, OnScreen,
         Drawing
    <2>10. FinalIsComplete'
      BY <1>1, <1>2, <2>3, <2>5, WhileDrawing DEF FinalIsComplete, FinalDrawing, Drawing, At
    <2>11. QED
      BY <2>6, <2>7, <2>8, <2>9, <2>10 DEF Pictures
  <1>6. QED
    BY <1>4, <1>5 DEF Send

(* A cleaning of a message that is not the current one.                    *)
LEMMA CleanMessagePictures ==
    ASSUME IInv, Pictures, NEW m \in Messages, CleanMessage(m)
    PROVE  Pictures'
  <1>1. TypeOK /\ At("cleaning") /\ UNCHANGED <<row, ghost, clock, dirty>>
    BY DEF IInv, CleanMessage, Aside, db, wake
  <1>2. /\ row.mes # m /\ row.mes \in Message0 /\ row.mes \notin op.todo
        /\ ghost.kind \in {"none", "mutate", "begin", "bounds", "delete"}
    BY <1>1, TypesOfParts DEF CleanMessage, Pictures, DrawsTheMessage
  <1>3. row.mes # NoMessage => msgs'[row.mes] = msgs[row.mes]
    BY <1>1, <1>2 DEF CleanMessage, Cleaned, TypeOK
  <1>4. KeepsDoubts /\ mem'.closing = mem.closing
    BY <1>1 DEF CleanMessage, KeepsDoubts, TypeOK, Memory
  <1> DEFINE left == op.todo \ {m}
             next == IF left = {} THEN "done" ELSE "cleaning"
             moved == [op EXCEPT !.at = next, !.todo = left]
             failed == [op EXCEPT !.at = next, !.todo = left, !.result = "error"]
  <1>5. op' = moved \/ op' = failed
    BY DEF CleanMessage
  <1>6. /\ op'.at \in {"done", "cleaning"} /\ op'.todo = left /\ UNCHANGED <<op.kind, op.ref, op.sent>>
        /\ op'.result \in {op.result, "error"}
    <2>1. next \in {"done", "cleaning"}
      OBVIOUS
    <2> HIDE DEF left, next
    <2>2. QED
      BY <1>1, <1>5, <2>1 DEF TypeOK, Operation
  <1>7. OperationFits'
    BY <1>1, <1>6 DEF Pictures, OperationFits, Redrawing, Drawing, At
  <1>8. DrawsTheMessage'
    BY <1>1, <1>2, <1>6 DEF DrawsTheMessage, Drawing, At
  <1>9. LateIsRemembered' /\ PublicationFits(mem, row)'
    BY <1>1, <1>2, <1>4 DEF Pictures, LateIsRemembered, PublicationFits, KeepsDoubts
  <1>10. PictureIsFresh'
    <2>1. Covered => Owed'
      BY <1>1, <1>6 DEF Covered, Owed, Redrawing, Drawing, At
    <2>2. Live(row.mes)' => Live(row.mes) /\ msgs'[row.mes] = msgs[row.mes]
      BY <1>1, <1>3 DEF Live
    <2>3. QED
      BY <1>1, <1>2, <1>4, <1>6, <2>1, <2>2 DEF Pictures, PictureIsFresh, Covered, Drawing, At,
         Active
  <1>11. CurrentOnScreen' /\ FinalIsComplete'
    BY <1>1, <1>2, <1>3, <1>4, <1>6 DEF Pictures, CurrentOnScreen, FinalIsComplete, FinalDrawing,
       Drawing, At, OnScreen
  <1>12. QED
    BY <1>7, <1>8, <1>9, <1>10, <1>11 DEF Pictures

LEMMA PersonDeletesPictures ==
    ASSUME IInv, Pictures, NEW m \in Messages, PersonDeletes(m)
    PROVE  Pictures'
  <1>1. TypeOK /\ UNCHANGED <<row, ghost, mem, dirty, op, clock>>
    BY DEF IInv, PersonDeletes, db, wake
  <1>2. /\ \A n \in Messages : msgs'[n] = msgs[n] \/ (msgs[n].show = "live" /\ msgs'[n].show = "missing")
    BY <1>1 DEF PersonDeletes, Dead, TypeOK
  <1>3. /\ row.mes \in Message0 /\ ghost.mes \in Message0 /\ op.sent \in Message0
    BY <1>1, TypesOfParts
  <1>4. \A n \in Message0 : /\ Live(n)' => Live(n) /\ msgs'[n] = msgs[n]
                            /\ n # NoMessage /\ msgs[n].show = "missing" => msgs'[n].show = "missing"
                            /\ OnScreen(n) => OnScreen(n)'
                            /\ Complete(n) => Complete(n)'
    BY <1>1, <1>2 DEF Live, OnScreen, Complete
  <1>5. OperationFits' /\ DrawsTheMessage'
    BY <1>1, <1>3, <1>4 DEF Pictures, OperationFits, Redrawing, DrawsTheMessage, Drawing, At
  <1>6. LateIsRemembered' /\ PublicationFits(mem, row)'
    BY <1>1, <1>3, <1>4 DEF Pictures, LateIsRemembered, PublicationFits
  <1>7. PictureIsFresh'
    BY <1>1, <1>3, <1>4 DEF Pictures, PictureIsFresh, Covered, Owed, Redrawing, Drawing, At, Active
  <1>8. CurrentOnScreen'
    BY <1>1, <1>3, <1>4 DEF Pictures, CurrentOnScreen, Drawing
  <1>9. FinalIsComplete'
    <2>1. At("persist") => op.sent \in Messages
      BY <1>3 DEF IInv, DrawsTheRun
    <2>2. At("persist") /\ FinalDrawing => msgs'[op.sent] = msgs[op.sent]
      BY <1>2, <2>1 DEF Pictures, FinalIsComplete
    <2>3. QED
      BY <1>1, <1>3, <1>4, <2>2 DEF Pictures, FinalIsComplete, FinalDrawing, Drawing, At
  <1>10. QED
    BY <1>5, <1>6, <1>7, <1>8, <1>9 DEF Pictures

-----------------------------------------------------------------------------
(* Closing.                                                                *)

LEMMA ClosePictures == ASSUME IInv, Pictures, Close PROVE Pictures'
  <1>1. /\ TypeOK /\ At("close") /\ Unnoted
        /\ UNCHANGED <<row, ghost, msgs, clock, dirty>>
    BY ReadMeansSettled DEF IInv, Close, Aside, db, wake
  <1>2. op.kind \in Retrying /\ op.kind # "repost" /\ op.ref = NoMessage /\ op.sent = NoMessage
    BY <1>1 DEF Pictures, OperationFits, Redrawing, At
  <1>3. CASE ~row.exists /\ mem' = [Synced EXCEPT !.closing = FALSE] /\ Closed
    <2>1. row.mes = NoMessage
      BY <1>3 DEF IInv, GoneIsEmpty
    <2>2. KeepsDoubts
      BY <1>1, <1>3 DEF Synced, KeepsDoubts, TypeOK, Memory
    <2>3. op'.at \in {"deleteRow", "done"} /\ op'.sent = NoMessage /\ op'.ref = NoMessage
      <3>1. CASE Goto("deleteRow")
        BY <1>1, <1>2, <3>1 DEF Goto, TypeOK, Operation
      <3>2. CASE Return("ok")
        BY <1>1, <3>2, ConstantsTyped DEF Return, Ended, NoOp, TypeOK, Operation
      <3>3. QED
        BY <1>3, <3>1, <3>2 DEF Closed
    <2>4. OperationFits' /\ DrawsTheMessage'
      BY <2>3 DEF OperationFits, Redrawing, DrawsTheMessage, Drawing, At
    <2>5. LateIsRemembered' /\ PublicationFits(mem, row)'
      BY <1>1, <2>2 DEF Pictures, LateIsRemembered, PublicationFits, KeepsDoubts, Unnoted
    <2>6. PictureIsFresh' /\ CurrentOnScreen' /\ FinalIsComplete'
      BY <1>1, <2>1, <2>3 DEF PictureIsFresh, CurrentOnScreen, FinalIsComplete, FinalDrawing,
         Drawing, At, Live, OnScreen, Unnoted
    <2>7. QED
      BY <2>4, <2>5, <2>6 DEF Pictures
  <1>4. CASE row.exists /\ mem' = Settled
    <2>1. SettlesDoubts /\ mem'.closing = mem.closing
      BY <1>4, DoubtsRead DEF Close
    <2>2. LateIsRemembered' /\ PublicationFits(mem, row)'
      BY <1>1, <2>1 DEF LateIsRemembered, PublicationFits, SettlesDoubts, Unnoted
    <2>3. CASE row.mes = NoMessage /\ ToFinishRun
      <3>1. op'.at = "finishRun" /\ op'.sent = NoMessage /\ op'.ref = NoMessage
        BY <1>1, <2>3, ConstantsTyped DEF ToFinishRun, Ended, NoOp, TypeOK, Operation
      <3>2. OperationFits' /\ DrawsTheMessage'
        BY <1>1, <2>1, <2>3, <3>1 DEF OperationFits, Redrawing, DrawsTheMessage, Drawing, At, Live,
           SettlesDoubts, Unnoted
      <3>3. PictureIsFresh' /\ CurrentOnScreen' /\ FinalIsComplete'
        BY <1>1, <2>3, <3>1 DEF PictureIsFresh, CurrentOnScreen, FinalIsComplete, FinalDrawing,
           Drawing, At, Live, OnScreen, Unnoted, Complete
      <3>4. QED
        BY <2>2, <3>2, <3>3 DEF Pictures
    <2>4. CASE /\ row.mes # NoMessage
               /\ op' = [op EXCEPT !.at = "edit", !.snap = SnapshotOf(row, FALSE)]
      <3>1. /\ op'.at = "edit" /\ op'.snap = SnapshotOf(row, FALSE)
            /\ UNCHANGED <<op.kind, op.ref, op.sent>>
        BY <1>1, <2>4 DEF TypeOK, Operation
      <3>2. op'.snap.mes = row.mes /\ op'.snap.rev = row.rev /\ ~op'.snap.live
        BY <3>1 DEF SnapshotOf
      <3>3. /\ mem.closing \/ MayBeLegacy
            /\ ghost.kind # "delete"
        BY <1>1, <2>4 DEF IInv, CloseIsMeant, Closing, NothingToClose, Withdrawn, LateWrites
      <3>4. OperationFits' /\ DrawsTheMessage'
        BY <1>1, <1>2, <2>1, <2>4, <3>1, <3>2 DEF OperationFits, Redrawing, DrawsTheMessage,
           Drawing, At, SettlesDoubts, Unnoted
      <3>5. PictureIsFresh'
        BY <1>1, <2>1, <3>1, <3>2, <3>3 DEF Pictures, PictureIsFresh, Covered, Drawing, At, Live, Unnoted
      <3>6. CurrentOnScreen' /\ FinalIsComplete'
        BY <1>1, <2>1, <3>1, <3>2, <3>3 DEF Pictures, CurrentOnScreen, FinalIsComplete, FinalDrawing, At,
           Unnoted, OnScreen
      <3>7. QED
        BY <2>2, <3>4, <3>5, <3>6 DEF Pictures
    <2>5. QED
      BY <1>4, <2>3, <2>4 DEF Close
  <1>5. QED
    BY <1>3, <1>4 DEF Close

LEMMA FinishRunPictures == ASSUME IInv, Pictures, FinishRun PROVE Pictures'
  <1>1. /\ TypeOK /\ At("finishRun") /\ UNCHANGED <<msgs, clock>>
        /\ Unnoted /\ Complete(row.mes) /\ ~Live(row.mes)
        /\ mem.cancellation = NoSnap /\ mem.publication = NoPublication
    BY DEF IInv, FinishRun, Aside, Pictures, FinalIsComplete, DrawsTheMessage, Unnoted
  <1>2. op.sent = NoMessage
    BY <1>1 DEF Pictures, OperationFits, At
  <1>3. CASE /\ WriteApplies(IF row.exists THEN FinishedRow ELSE row)
             /\ mem' = [mem EXCEPT !.closing = FALSE, !.publish = FALSE]
             /\ Closed
    <2>1. row'.mes = NoMessage /\ ghost' = NoGhost
      BY <1>1, <1>3, Rows DEF WriteApplies, IInv, GoneIsEmpty
    <2>2. mem'.publication = NoPublication
      BY <1>1, <1>3 DEF TypeOK, Memory
    <2>3. op'.at \in {"deleteRow", "done"} /\ op'.sent = NoMessage
          /\ (op'.kind # "repost" => op'.ref = NoMessage)
      <3>1. CASE Goto("deleteRow")
        BY <1>1, <1>2, <3>1 DEF Goto, TypeOK, Operation, Pictures, OperationFits
      <3>2. CASE Return("ok")
        BY <1>1, <3>2, ConstantsTyped DEF Return, Ended, NoOp, TypeOK, Operation
      <3>3. QED
        BY <1>3, <3>1, <3>2 DEF Closed
    <2>4. OperationFits' /\ DrawsTheMessage'
      BY <2>3 DEF OperationFits, Redrawing, DrawsTheMessage, Drawing, At
    <2>5. LateIsRemembered' /\ PublicationFits(mem, row)'
      BY <2>1, <2>2 DEF LateIsRemembered, PublicationFits, NoGhost
    <2>6. PictureIsFresh' /\ CurrentOnScreen' /\ FinalIsComplete'
      BY <2>1, <2>3 DEF PictureIsFresh, CurrentOnScreen, FinalIsComplete, FinalDrawing,
         Drawing, At, Live, OnScreen, NoGhost
    <2>7. QED
      BY <2>4, <2>5, <2>6 DEF Pictures
  <1>4. CASE /\ WriteFails([kind |-> "finish", run |-> NoRun, mes |-> NoMessage])
             /\ mem' = Doubtful /\ Return("error") /\ ScheduleUpdate
    <2>1. row' = row /\ dirty' /\ ghost'.kind \in {"none", "bounds", "delete", "finish"}
      BY <1>1, <1>4 DEF WriteFails, ScheduleUpdate, Unnoted
    <2>2. KeepsDoubts /\ mem'.closing = mem.closing
      BY <1>4, DoubtsRead
    <2>3. op'.at = "done" /\ op'.sent = NoMessage /\ op'.ref = NoMessage
      BY <1>1, <1>4, ConstantsTyped DEF Return, Ended, NoOp, TypeOK, Operation
    <2>4. OperationFits' /\ DrawsTheMessage'
      BY <2>3 DEF OperationFits, Redrawing, DrawsTheMessage, Drawing, At
    <2>5. LateIsRemembered' /\ PublicationFits(mem, row)'
      BY <1>1, <2>1, <2>2 DEF LateIsRemembered, PublicationFits, KeepsDoubts, Live
    <2>6. PictureIsFresh'
      BY <1>1, <2>1, <2>3 DEF PictureIsFresh, Covered, Owed, Drawing, At, Live
    <2>7. CurrentOnScreen' /\ FinalIsComplete'
      BY <1>1, <2>1, <2>2, <2>3 DEF Pictures, CurrentOnScreen, FinalIsComplete, FinalDrawing,
         Drawing, At, OnScreen, Complete
    <2>8. QED
      BY <2>4, <2>5, <2>6, <2>7 DEF Pictures
  <1>5. QED
    BY <1>3, <1>4 DEF FinishRun

LEMMA DeleteScheduleEntryPictures ==
    ASSUME IInv, Pictures, DeleteScheduleEntry
    PROVE  Pictures'
  <1>1. /\ TypeOK /\ At("deleteRow") /\ UNCHANGED <<mem, dirty, msgs, clock>>
        /\ row.mes = NoMessage /\ row.rev = 0 /\ Unnoted
    BY DEF IInv, DeleteScheduleEntry, Aside, wake, CloseIsMeant
  <1>2. row'.mes = NoMessage /\ ghost'.kind \in {"none", "bounds", "delete"}
    BY <1>1, Rows DEF DeleteScheduleEntry, WriteApplies, DoubtfulWrite, Unnoted
  <1>3. op'.at = "done" /\ op'.sent = NoMessage /\ op'.ref = NoMessage
    BY <1>1, ConstantsTyped DEF DeleteScheduleEntry, Return, Ended, NoOp, TypeOK, Operation
  <1>4. OperationFits' /\ DrawsTheMessage'
    BY <1>3 DEF OperationFits, Redrawing, DrawsTheMessage, Drawing, At
  <1>5. LateIsRemembered' /\ PublicationFits(mem, row)'
    BY <1>1, <1>2 DEF Pictures, LateIsRemembered, PublicationFits, Live
  <1>6. PictureIsFresh' /\ CurrentOnScreen' /\ FinalIsComplete'
    BY <1>1, <1>2, <1>3 DEF PictureIsFresh, CurrentOnScreen, FinalIsComplete, FinalDrawing,
       Drawing, At, Live, OnScreen, Complete
  <1>7. QED
    BY <1>4, <1>5, <1>6 DEF Pictures

-----------------------------------------------------------------------------
(* The transactions.                                                       *)

LEMMA PreparePictures == ASSUME IInv, Pictures, Prepare PROVE Pictures'
  <1>1. /\ TypeOK /\ At("prepare") /\ Unnoted /\ UNCHANGED <<msgs, clock, dirty>>
    BY ReadMeansSettled DEF IInv, Prepare, Aside, wake
  <1>2. KeepsDoubts /\ mem'.closing = mem.closing
    <2>1. CASE mem' = Doubtful
      BY <2>1, DoubtsRead
    <2>2. CASE mem' = [Synced EXCEPT !.publish = @ /\ row.run # NoRun]
      BY <1>1, <2>2 DEF Synced, KeepsDoubts, TypeOK, Memory
    <2>3. QED
      BY <2>1, <2>2 DEF Prepare
  <1>3. op'.at = "done" /\ op'.sent = NoMessage /\ op'.ref = NoMessage
    BY <1>1, ConstantsTyped DEF Prepare, Return, Ended, NoOp, TypeOK, Operation
  <1>4. /\ ghost'.kind \in {"none", "bounds", "delete", "begin"}
        /\ row' = row \/ (row.run = NoRun /\ row'.mes = NoMessage)
    <2>1. row' = row \/ (~RunConflict(op.run) /\ row' = BegunRow(op.run))
      BY DEF Prepare, WriteApplies, WriteFails, db
    <2>2. row' = row \/ (row.run = NoRun /\ row'.mes = NoMessage)
      BY <1>1, <2>1 DEF RunConflict, BegunRow, TypeOK, Row
    <2>3. ghost'.kind \in {"none", "bounds", "delete", "begin"}
      BY <1>1 DEF Prepare, WriteApplies, WriteFails, db, Unnoted
    <2>4. QED
      BY <2>2, <2>3
  <1>5. OperationFits' /\ DrawsTheMessage'
    BY <1>3 DEF OperationFits, Redrawing, DrawsTheMessage, Drawing, At
  <1>6. row'.mes \in {row.mes, NoMessage}
    BY <1>4
  <1>7. PublicationFits(mem, row)'
    <2>1. (row.run = NoRun /\ row.mes = NoMessage) \/ row' = row
      BY <1>1 DEF Prepare, WriteApplies, WriteFails, db, RunConflict, BegunRow
    <2>2. row'.mes = row.mes
      BY <1>4, <2>1
    <2>3. QED
      BY <1>2, <2>2 DEF Pictures, PublicationFits, KeepsDoubts
  <1>8. LateIsRemembered'
    BY <1>4 DEF LateIsRemembered
  <1>9. PictureIsFresh'
    <2>1. Covered => dirty
      BY <1>1 DEF Covered, Owed, Redrawing, Drawing, At
    <2>2. CASE row' = row
      BY <1>1, <1>2, <1>3, <1>4, <2>1, <2>2 DEF Pictures, PictureIsFresh, Covered, Owed, Drawing, At,
         Live, Active
    <2>3. CASE row'.mes = NoMessage
      BY <1>3, <1>4, <2>3 DEF PictureIsFresh, Drawing, At, Live
    <2>4. QED
      BY <1>4, <2>2, <2>3
  <1>10. CurrentOnScreen' /\ FinalIsComplete'
    BY <1>1, <1>2, <1>3, <1>4, <1>6 DEF Pictures, CurrentOnScreen, FinalIsComplete, FinalDrawing,
       Drawing, At, OnScreen
  <1>11. QED
    BY <1>5, <1>7, <1>8, <1>9, <1>10 DEF Pictures

LEMMA SetLegacyPictures ==
    ASSUME IInv, Pictures, NEW r \in Runs, SetLegacyQueueRunBounds(r)
    PROVE  Pictures'
  <1>1. /\ TypeOK /\ row.run = NoRun
        /\ UNCHANGED <<mem, dirty, op, msgs, clock>>
    BY DEF IInv, SetLegacyQueueRunBounds, wake
  <1>2. /\ UNCHANGED <<row.mes, row.rev, row.exists>>
        /\ row' = row \/ ghost = NoGhost
        /\ row' = row \/ ghost' = ghost
        /\ ghost' = ghost \/ (ghost.kind = "none" /\ ghost'.kind = "bounds")
    <2>1. CASE WriteApplies(BoundRow(r))
      <3>1. row' = [row EXCEPT !.run = r] \/ row' = row
        BY <2>1 DEF WriteApplies, BoundRow
      <3>2. UNCHANGED <<row.mes, row.rev, row.exists>>
        BY <1>1, <3>1 DEF TypeOK, Row
      <3>3. QED
        BY <2>1, <3>2 DEF WriteApplies
    <2>2. CASE WriteFails([kind |-> "bounds", run |-> r, mes |-> NoMessage])
      BY <2>2 DEF WriteFails, NoGhost
    <2>3. QED
      BY <2>1, <2>2 DEF SetLegacyQueueRunBounds
  <1>3. OperationFits' /\ DrawsTheMessage'
    BY <1>1, <1>2 DEF Pictures, OperationFits, Redrawing, DrawsTheMessage, Drawing, At, Live
  <1>4. LateIsRemembered' /\ PublicationFits(mem, row)'
    BY <1>1, <1>2 DEF Pictures, LateIsRemembered, PublicationFits, NoGhost, Live
  <1>5. PictureIsFresh'
    <2>1. CASE row' = row
      BY <1>1, <1>2, <2>1 DEF Pictures, PictureIsFresh, Covered, Owed, Redrawing, Drawing, At, Live,
         Active
    <2>2. CASE row' # row
      BY <1>1, <1>2, <2>2 DEF Pictures, PictureIsFresh, Drawing, At, Live, NoGhost
    <2>3. QED
      BY <2>1, <2>2
  <1>6. CurrentOnScreen' /\ FinalIsComplete'
    BY <1>1, <1>2 DEF Pictures, CurrentOnScreen, FinalIsComplete, FinalDrawing, Drawing, At, OnScreen,
       NoGhost, Complete
  <1>7. QED
    BY <1>3, <1>4, <1>5, <1>6 DEF Pictures

(* A change of the participants owes a redrawing, and none is made once    *)
(* the final drawing was taken.                                            *)
LEMMA MutatePictures == ASSUME IInv, Pictures, NEW m \in Messages, Mutate(m) PROVE Pictures'
  <1>1. /\ TypeOK /\ Unnoted /\ ~mem.closing /\ ~mem.deleting
        /\ row.run # NoRun /\ row.mes # NoMessage
        /\ UNCHANGED <<op, msgs, clock>> /\ dirty'
    BY ReadMeansSettled DEF IInv, Mutate, Receptive, Accepts, ScheduleUpdate
  <1>2. KeepsDoubts /\ mem'.closing = mem.closing
    BY DoubtsRead DEF Mutate
  <1>3. ghost'.kind \in {"none", "bounds", "delete", "mutate"}
    BY <1>1 DEF Mutate, WriteApplies, WriteFails, db, Unnoted
  <1>4. UNCHANGED <<row.mes, row.run, row.exists>>
    <2>1. row' \in {row, MutatedRow}
      BY DEF Mutate, WriteApplies, WriteFails, db
    <2>2. QED
      BY <1>1, <2>1 DEF MutatedRow, TypeOK, Row
  <1>5. ~FinalDrawing /\ ~At("finishRun")
    BY <1>1 DEF IInv, CloseIsMeant, Closing, NothingToClose, Withdrawn
  <1>6. OperationFits' /\ DrawsTheMessage'
    BY <1>1, <1>2, <1>3, <1>4 DEF Pictures, OperationFits, Redrawing, DrawsTheMessage, Drawing, At,
       Live, KeepsDoubts
  <1>7. LateIsRemembered' /\ PublicationFits(mem, row)'
    BY <1>1, <1>2, <1>3, <1>4 DEF Pictures, LateIsRemembered, PublicationFits, KeepsDoubts
  <1>8. PictureIsFresh'
    BY <1>1, <1>3, <1>4 DEF Pictures, PictureIsFresh, Covered, Owed, Drawing, At, Live
  <1>9. CurrentOnScreen' /\ FinalIsComplete'
    BY <1>1, <1>2, <1>3, <1>4, <1>5 DEF Pictures, CurrentOnScreen, FinalIsComplete, FinalDrawing,
       Drawing, At, OnScreen
  <1>10. QED
    BY <1>6, <1>7, <1>8, <1>9 DEF Pictures

LEMMA GhostLandsPictures == ASSUME IInv, Pictures, GhostLands PROVE Pictures'
  <1>1. /\ TypeOK /\ ghost' = NoGhost /\ row' \in {row, GhostRow} /\ ghost # NoGhost
        /\ UNCHANGED <<mem, dirty, op, msgs, clock>>
    BY DEF IInv, GhostLands, wake
  <1>2. /\ ghost.run \in Run0 /\ ghost.mes \in Message0 /\ row \in Row
        /\ ghost.kind \in {"none", "begin", "bounds", "delete", "publish", "finish", "mutate"}
        /\ op.todo \subseteq Messages
    BY <1>1, TypesOfParts DEF TypeOK, Ghost
  <1>3. OperationFits' /\ LateIsRemembered'
    BY <1>1 DEF Pictures, OperationFits, Redrawing, Drawing, At, LateIsRemembered, NoGhost
  <1>4. ghost.kind \in {"bounds", "delete"} => UNCHANGED <<row.mes, row.rev>>
    BY <1>1, <1>2 DEF GhostRow, BoundRow, GoneRow, IInv, LateWrites, Row
  <1>5. FinalIsComplete'
    BY <1>1, <1>2, <1>4 DEF Pictures, FinalIsComplete, FinalDrawing, Drawing, At, NoGhost, Complete,
       GhostRow
  <1>11. ghost.kind \notin {"none", "bounds", "delete"} => ~FinalDrawing /\ ~At("finishRun")
    BY DEF Pictures, FinalIsComplete
  <1>6. CASE row' = row
    <2>1. DrawsTheMessage' /\ PublicationFits(mem, row)'
      BY <1>1, <1>6 DEF Pictures, DrawsTheMessage, PublicationFits, Drawing, At, Live, NoGhost
    <2>2. PictureIsFresh' /\ CurrentOnScreen'
      BY <1>1, <1>6 DEF Pictures, PictureIsFresh, CurrentOnScreen, Covered, Owed, Redrawing, Drawing,
         At, Live, OnScreen, Active, NoGhost
    <2>3. QED
      BY <1>3, <1>5, <2>1, <2>2 DEF Pictures
  <1>7. CASE ghost.kind \in {"begin", "finish"} /\ row' = GhostRow /\ row' # row
    <2>1. row'.mes = NoMessage /\ (row.mes = NoMessage \/ mem.publication = NoPublication)
      <3>1. CASE ghost.kind = "begin"
        <4>1. row.run = NoRun /\ row.mes = NoMessage
          BY <1>7, <3>1 DEF IInv, LateWrites, RunConflict, GhostRow, BegunRow
        <4>2. row'.mes = NoMessage
          BY <1>2, <1>7, <3>1 DEF GhostRow, BegunRow, Row
        <4>3. QED
          BY <4>1, <4>2
      <3>2. CASE ghost.kind = "finish"
        BY <1>1, <1>7, <3>2, Rows DEF GhostRow, Pictures, LateIsRemembered
      <3>3. QED
        BY <1>7, <3>1, <3>2
    <2>2. ~Drawing
      BY <1>7 DEF IInv, DrawsTheRun
    <2>3. DrawsTheMessage' /\ PublicationFits(mem, row)'
      BY <1>1, <1>2, <1>7, <1>11, <2>1, <2>2 DEF Pictures, DrawsTheMessage, PublicationFits, Drawing,
         At, NoGhost
    <2>4. PictureIsFresh' /\ CurrentOnScreen'
      BY <1>1, <2>1, <2>2 DEF PictureIsFresh, CurrentOnScreen, Drawing, At, Live, OnScreen, NoGhost
    <2>5. QED
      BY <1>3, <1>5, <2>3, <2>4 DEF Pictures
  <1>8. CASE ghost.kind = "publish" /\ row' = PublishedRow(ghost.mes)
    <2>1. row' = row \/ (row'.mes = ghost.mes /\ row'.run = row.run)
      BY <1>2, <1>8 DEF PublishedRow, Row
    <2>2. /\ ghost.mes = mem.publication.mes /\ mem.publication # NoPublication
          /\ ~Drawing /\ ~At("render") /\ ~At("cleaning") /\ Owed
          /\ Live(ghost.mes) => row.run # NoRun
          /\ ~mem.closing => OnScreen(ghost.mes)
      <3>1. ghost.mes # NoMessage
        BY <1>8 DEF IInv, LateWrites
      <3>2. /\ ghost.mes = mem.publication.mes /\ ~At("cleaning") /\ Owed
            /\ Live(ghost.mes) => row.run # NoRun
            /\ ~mem.closing => OnScreen(ghost.mes)
        BY <1>8 DEF Pictures, LateIsRemembered, DrawsTheMessage, PictureIsFresh, CurrentOnScreen
      <3>3. mem.publication # NoPublication
        BY <3>1, <3>2 DEF NoPublication
      <3>4. QED
        BY <3>2, <3>3 DEF IInv, DrawsTheRun
    <2>3. CASE row'.mes = ghost.mes /\ row'.run = row.run
      <3>1. DrawsTheMessage' /\ PublicationFits(mem, row)'
        BY <1>1, <1>8, <1>11, <2>2, <2>3 DEF Pictures, DrawsTheMessage, PublicationFits, Drawing, At,
           NoGhost
      <3>2. PictureIsFresh'
        BY <1>1, <2>2, <2>3 DEF PictureIsFresh, Covered, Owed, Redrawing, Drawing, At, Live, NoGhost
      <3>3. CurrentOnScreen'
        BY <1>1, <2>2, <2>3 DEF CurrentOnScreen, Drawing, OnScreen, NoGhost
      <3>4. QED
        BY <1>3, <1>5, <3>1, <3>2, <3>3 DEF Pictures
    <2>4. QED
      BY <1>6, <2>1, <2>3
  <1>9. CASE ghost.kind = "mutate" /\ row' = MutatedRow
    <2>1. UNCHANGED <<row.mes, row.run, row.exists>> /\ row.run # NoRun
      BY <1>2, <1>9 DEF MutatedRow, Row, IInv, LateWrites
    <2>2. DrawsTheMessage' /\ PublicationFits(mem, row)'
      BY <1>1, <2>1 DEF Pictures, DrawsTheMessage, PublicationFits, Drawing, At, Live, NoGhost
    <2>3. PictureIsFresh'
      BY <1>1, <1>9, <2>1 DEF Pictures, PictureIsFresh, Covered, Owed, Redrawing, Drawing, At, Live,
         Active, NoGhost
    <2>4. CurrentOnScreen'
      BY <1>1, <2>1 DEF Pictures, CurrentOnScreen, Drawing, OnScreen, NoGhost
    <2>5. QED
      BY <1>3, <1>5, <2>2, <2>3, <2>4 DEF Pictures
  <1>12. CASE ghost.kind \in {"bounds", "delete"}
    <2>1. row.mes = NoMessage \/ row.run = NoRun
      BY <1>12 DEF IInv, LateWrites
    <2>2. DrawsTheMessage' /\ PublicationFits(mem, row)'
      BY <1>1, <1>4, <1>12 DEF Pictures, DrawsTheMessage, PublicationFits, Drawing, At, Live, NoGhost
    <2>3. PictureIsFresh'
      BY <1>1, <1>4, <1>12, <2>1 DEF Pictures, PictureIsFresh, Drawing, At, Live, NoGhost
    <2>4. CurrentOnScreen'
      BY <1>1, <1>4, <1>12 DEF Pictures, CurrentOnScreen, Drawing, OnScreen, NoGhost
    <2>5. QED
      BY <1>3, <1>5, <2>2, <2>3, <2>4 DEF Pictures
  <1>10. QED
    BY <1>1, <1>2, <1>6, <1>7, <1>8, <1>9, <1>12 DEF GhostRow

(* After a read back that succeeds nothing is in doubt.                    *)
LEMMA ReconcilingSettles ==
    ASSUME NEW m \in Memory, row' \in Row, NEW n \in ReconcileWrites(m)
    PROVE  \/ n = m
           \/ ghost' = NoGhost /\ n.publication = NoPublication /\ n.cancellation = NoSnap
  <1> DEFINE known == [m EXCEPT !.uncertain = FALSE]
  <1>1. known \in Memory
    BY DEF Memory
  <1>2. n = m \/ (ghost' = NoGhost /\ n = ResolveWrites(known, row'))
    BY DEF ReconcileWrites
  <1> HIDE DEF known
  <1>3. QED
    BY <1>1, <1>2, Resolving

LEMMA PublishedOKPictures ==
    ASSUME IInv, Pictures, At("persist"), row.exists, WriteApplies(PublishedRow(op.sent)),
           mem' = Persisted, AfterPersist("ok"), UNCHANGED wake, UNCHANGED msgs, Aside
    PROVE  Pictures'
  <1>1. Drawing /\ ghost = NoGhost /\ ghost' = NoGhost /\ row' = [row EXCEPT !.mes = op.sent]
        /\ UNCHANGED <<dirty, msgs, clock>>
    BY DEF WriteApplies, PublishedRow, Aside, wake, At, Drawing
  <1>2. /\ op.sent \in Messages
        /\ msgs[op.sent].show = "live" => op.snap.live
    BY Publishing DEF IInv, DrawsTheRun
  <1>3. PICK place \in {"cleanup", "finishRun"} :
           op' = Ended(place, "ok") /\ (place = "finishRun" <=> ~op.snap.live)
    BY <1>1, WhileDrawing DEF AfterPersist, ToCleanup, ToFinishRun, Snapshot
  <1>4. /\ op'.at = place /\ op'.ref = NoMessage /\ op'.sent = NoMessage
    BY <1>1, <1>3, WhileDrawing, ConstantsTyped DEF Ended, NoOp, Operation, TypeOK
  <1>5. row'.mes = op.sent /\ UNCHANGED <<row.exists, row.run, row.rev>>
    BY <1>1, WhileDrawing DEF TypeOK, Row
  <1>6. KeepsDoubts /\ mem'.closing = mem.closing
    BY <1>1, WhileDrawing DEF Persisted, KeepsDoubts, TypeOK, Memory
  <1>7. /\ ~op.snap.live => /\ msgs[op.sent].show = "closed" /\ msgs[op.sent].rev = row.rev
                            /\ mem.closing \/ MayBeLegacy
        /\ op.snap.live => OnScreen(op.sent) /\ (Live(op.sent) => msgs[op.sent].rev = op.snap.rev)
    BY <1>1, WhileDrawing DEF Pictures, FinalIsComplete, FinalDrawing, CurrentOnScreen, PictureIsFresh
  <1>8. OperationFits'
    BY <1>4 DEF OperationFits, Redrawing, Drawing, At
  <1>9. DrawsTheMessage'
    BY <1>1, <1>3, <1>4, <1>5, <1>6, <1>7, WhileDrawing DEF DrawsTheMessage, Drawing, At, Live,
       KeepsDoubts
  <1>10. LateIsRemembered' /\ PublicationFits(mem, row)'
    BY <1>1, <1>6, WhileDrawing DEF LateIsRemembered, PublicationFits, KeepsDoubts, NoGhost
  <1>11. PictureIsFresh'
    <2>1. row.run = NoRun => ~Live(op.sent)
      BY <1>1, <1>2, WhileDrawing DEF Live, IInv, DrawsTheRun
    <2>2. Live(op.sent) => dirty \/ msgs[op.sent].rev = row.rev
      BY <1>1, <1>2, <1>7, WhileDrawing DEF Live
    <2>3. QED
      BY <1>1, <1>4, <1>5, <2>1, <2>2 DEF PictureIsFresh, Covered, Owed, Drawing, At, Live, NoGhost
  <1>12. CurrentOnScreen' /\ FinalIsComplete'
    BY <1>1, <1>3, <1>4, <1>5, <1>6, <1>7 DEF CurrentOnScreen, FinalIsComplete, FinalDrawing, Drawing,
       At, OnScreen, Complete, NoGhost
  <1>13. QED
    BY <1>8, <1>9, <1>10, <1>11, <1>12 DEF Pictures

LEMMA PublishedInDoubtPictures ==
    ASSUME IInv, Pictures, At("persist"), row' \in Row,
           \/ ~row.exists /\ UNCHANGED db
           \/ row.exists /\ DoubtfulWrite([kind |-> "publish", run |-> NoRun, mes |-> op.sent],
                                          PublishedRow(op.sent)),
           mem' \in ReconcileWrites(Unpersisted), AfterPersist("error"), ScheduleUpdate,
           UNCHANGED msgs, Aside
    PROVE  Pictures'
  <1> DEFINE publish == [kind |-> "publish", run |-> NoRun, mes |-> op.sent]
  <1>1. Drawing /\ UNCHANGED <<msgs, clock>> /\ dirty'
    BY DEF Aside, ScheduleUpdate, At, Drawing
  <1>2. /\ op.sent \in Messages /\ op.ref \in Message0 /\ row.mes \in Message0
        /\ msgs[op.sent].show = "live" => op.snap.live
        /\ op.kind = "repost" => op.ref = row.mes
        /\ op.kind # "repost" => /\ op.ref = NoMessage
                                 /\ row.mes = NoMessage \/ msgs[row.mes].show = "missing"
    BY Publishing, TypesOfParts DEF IInv, DrawsTheRun, Pictures, DrawsTheMessage, OperationFits, At
  <1>3. PICK place \in {"cleanup", "done"} : op' = Ended(place, "error")
    BY DEF AfterPersist, NotPublished, ToCleanup, Return
  <1>4. /\ op'.at = place /\ op'.ref = NoMessage /\ op'.sent = NoMessage
    BY <1>1, <1>3, WhileDrawing, ConstantsTyped DEF Ended, NoOp, Operation, TypeOK
  <1>5. \/ ghost = NoGhost /\ ghost' = publish /\ row' = row /\ row.exists
        \/ ghost = NoGhost /\ ghost' = NoGhost /\ row' = PublishedRow(op.sent) /\ row.exists
        \/ ghost' = ghost /\ row' = row
    BY DEF DoubtfulWrite, db
  <1>6. /\ row' = row \/ (row'.mes = op.sent /\ ghost' = NoGhost /\ row.exists)
        /\ UNCHANGED <<row.run, row.rev, row.exists>>
    BY <1>1, <1>5, WhileDrawing DEF PublishedRow, TypeOK, Row
  <1>7. /\ Unpersisted \in Memory /\ Unpersisted.closing = mem.closing /\ Unpersisted.uncertain
        /\ Unpersisted.publication = [mes |-> op.sent, prev |-> op.ref]
        /\ Unpersisted.cancellation = NoSnap
    BY <1>1, <1>2, WhileDrawing DEF Unpersisted, Memory, Publication, TypeOK
  <1>8. /\ mem'.closing = mem.closing /\ mem'.cancellation = NoSnap
        /\ \/ mem'.publication = [mes |-> op.sent, prev |-> op.ref]
           \/ ghost' = NoGhost /\ mem'.publication = NoPublication
    BY <1>7, Reconciling, ReconcilingSettles
  <1>9. OperationFits' /\ DrawsTheMessage'
    BY <1>4 DEF OperationFits, Redrawing, DrawsTheMessage, Drawing, At
  <1>10. LateIsRemembered'
    <2>1. /\ ghost'.kind \in {"none", "mutate", "bounds", "delete", "publish"}
          /\ ghost'.kind = "publish" => ghost' = publish
      BY <1>1, <1>5, WhileDrawing DEF NoGhost
    <2>2. ghost'.kind = "publish" =>
             /\ mem'.publication.mes = op.sent /\ mem'.publication.prev = op.ref /\ row' = row
             /\ ghost'.mes = op.sent
      BY <1>2, <1>6, <1>8, <2>1 DEF NoGhost
    <2>3. QED
      BY <1>1, <1>2, <1>8, <2>1, <2>2 DEF LateIsRemembered
  <1>11. PublicationFits(mem, row)'
    BY <1>2, <1>6, <1>8 DEF PublicationFits
  <1>12. PictureIsFresh'
    <2>1. row.run = NoRun => /\ row.exists => ~Live(op.sent)
                             /\ Live(row.mes) => msgs[row.mes].rev = row.rev
      BY <1>1, <1>2, WhileDrawing DEF Live, Pictures, PictureIsFresh, IInv, DrawsTheRun
    <2>2. ghost'.kind = "publish" => ghost'.mes = op.sent /\ row.exists
      BY <1>1, <1>5, WhileDrawing DEF NoGhost
    <2>3. QED
      BY <1>1, <1>4, <1>6, <2>1, <2>2 DEF PictureIsFresh, Covered, Owed, Drawing, At, Live
  <1>13. CurrentOnScreen'
    <2>1. ~mem.closing => OnScreen(op.sent) /\ OnScreen(row.mes)
      BY <1>1, WhileDrawing DEF Pictures, CurrentOnScreen, Snapshot, FinalIsComplete, FinalDrawing,
         OnScreen
    <2>2. ghost'.kind = "publish" => ghost'.mes = op.sent
      BY <1>1, <1>5, WhileDrawing DEF NoGhost
    <2>3. QED
      BY <1>1, <1>4, <1>6, <1>8, <2>1, <2>2 DEF CurrentOnScreen, OnScreen, Drawing
  <1>14. FinalIsComplete'
    BY <1>1, <1>4, <1>5, WhileDrawing DEF FinalIsComplete, FinalDrawing, Drawing, At, NoGhost
  <1>15. QED
    BY <1>9, <1>10, <1>11, <1>12, <1>13, <1>14 DEF Pictures

LEMMA PersistPublicationPictures == ASSUME IInv, Pictures, PersistPublication PROVE Pictures'
  <1>1. row' \in Row
    BY PersistPublicationStep DEF IInv, TypeOK
  <1>2. QED
    BY <1>1, PublishedOKPictures, PublishedInDoubtPictures DEF PersistPublication

LEMMA CancelPendingPictures == ASSUME IInv, Pictures, CancelPending PROVE Pictures'
  <1>1. TypeOK /\ Unnoted /\ At("cancel") /\ UNCHANGED <<msgs, clock>>
    BY ReadMeansSettled DEF IInv, CancelPending, Aside
  <1> DEFINE read == IF row.exists THEN Settled ELSE Synced
             canceled == [read EXCEPT !.cancellation = SnapshotOf(row, FALSE)]
             finish == [kind |-> "finish", run |-> NoRun, mes |-> NoMessage]
  <1>2. Covered => dirty
    BY <1>1 DEF Covered, Owed, Redrawing, Drawing, At
  <1>3. CASE /\ mem' = read /\ UNCHANGED <<db, wake, faults>>
             /\ ToCleanup("ok") \/ Return("error")
    <2>1. \E place \in {"cleanup", "done"}, result \in {"ok", "error"} : op' = Ended(place, result)
      BY <1>3 DEF ToCleanup, Return
    <2>2. (KeepsDoubts \/ SettlesDoubts) /\ mem'.closing = mem.closing
      BY <1>3, DoubtsRead DEF CancelPending
    <2>3. UNCHANGED <<row, ghost, dirty>>
      BY <1>3 DEF db, wake
    <2>4. QED
      BY <1>1, <1>2, <2>1, <2>2, <2>3, PicturesEnd DEF Covered
  <1>4. CASE /\ Cancellable
             /\ \/ /\ WriteApplies(FinishedRow)
                   /\ mem' = ResolveWrites([canceled EXCEPT !.publish = FALSE], row')
                   /\ ToCleanup("ok") /\ UNCHANGED wake
                \/ /\ Fault /\ DoubtfulWrite(finish, FinishedRow)
                   /\ mem' \in ReconcileWrites([canceled EXCEPT !.uncertain = TRUE])
                   /\ Return("error") /\ ScheduleUpdate
    <2>1. /\ ~mem.closing /\ row.run # NoRun /\ row.exists
      BY <1>4 DEF Cancellable, IInv, GoneIsEmpty
    <2>2. \/ ghost' = ghost /\ row' \in {row, FinishedRow}
          \/ ghost' = finish /\ row' = row
      BY <1>1, <1>4 DEF WriteApplies, DoubtfulWrite
    <2>3. row' \in Row /\ (row' = row \/ row'.mes = NoMessage)
      BY <1>1, <2>2, Rows DEF TypeOK
    <2>4. PICK place \in {"cleanup", "done"}, result \in {"ok", "error"} : op' = Ended(place, result)
      BY <1>4 DEF ToCleanup, Return
    <2>5. /\ op'.at = place /\ op'.ref = NoMessage /\ op'.sent = NoMessage
      BY <1>1, <2>4, ConstantsTyped DEF Ended, NoOp, Operation, TypeOK
    <2>6. row' = row => dirty'
      <3>1. CASE ScheduleUpdate
        BY <3>1 DEF ScheduleUpdate
      <3>2. CASE WriteApplies(FinishedRow)
        BY <1>1, <2>1, <3>2, Rows DEF WriteApplies
      <3>3. QED
        BY <1>4, <3>1, <3>2
    <2>7. /\ mem'.publication = NoPublication
          /\ \/ ghost' = NoGhost /\ mem'.cancellation = NoSnap
             \/ mem'.cancellation = SnapshotOf(row, FALSE)
      <3> DEFINE applied == [canceled EXCEPT !.publish = FALSE]
                 doubtful == [canceled EXCEPT !.uncertain = TRUE]
      <3>1. SnapshotOf(row, FALSE) \in Snapshot
        BY <1>1 DEF TypeOK, Row, SnapshotOf, Snapshot
      <3>2. read \in Memory /\ read.publication = NoPublication
        BY <1>1, <2>1, Remembering
      <3>3. /\ applied \in Memory /\ doubtful \in Memory /\ doubtful.publication = NoPublication
            /\ doubtful.cancellation = SnapshotOf(row, FALSE)
        <4> HIDE DEF read
        <4>1. QED
          BY <3>1, <3>2 DEF Memory
      <3>4. \/ mem' = ResolveWrites(applied, row') /\ ghost' = NoGhost
            \/ mem' \in ReconcileWrites(doubtful)
        BY <1>1, <1>4 DEF WriteApplies
      <3> HIDE DEF applied, doubtful
      <3>5. CASE mem' = ResolveWrites(applied, row') /\ ghost' = NoGhost
        BY <2>3, <3>3, <3>5, Resolving
      <3>6. CASE mem' \in ReconcileWrites(doubtful)
        BY <2>3, <3>3, <3>6, ReconcilingSettles
      <3>7. QED
        BY <3>4, <3>5, <3>6
    <2>8. /\ SnapshotOf(row, FALSE).mes = row.mes
          /\ SnapshotOf(row, FALSE) # NoSnap
      BY <2>1 DEF SnapshotOf, NoSnap
    <2>9. /\ ghost'.kind \in {"none", "bounds", "delete", "finish"}
          /\ ghost'.kind = "finish" => /\ row' = row
                                       /\ mem'.cancellation.mes = row.mes
                                       /\ mem'.cancellation # NoSnap
      <3>1. CASE ghost' = ghost
        BY <1>1, <3>1 DEF Unnoted
      <3>2. CASE ghost' = finish /\ row' = row
        <4>1. ghost'.kind = "finish" /\ ghost' # NoGhost
          BY <3>2 DEF NoGhost
        <4>2. mem'.cancellation = SnapshotOf(row, FALSE)
          BY <2>7, <4>1
        <4>3. QED
          BY <2>8, <3>2, <4>1, <4>2
      <3>3. QED
        BY <2>2, <3>1, <3>2
    <2>10. OperationFits' /\ DrawsTheMessage'
      BY <2>5 DEF OperationFits, Redrawing, DrawsTheMessage, Drawing, At
    <2>11. LateIsRemembered' /\ PublicationFits(mem, row)'
      BY <2>7, <2>9 DEF LateIsRemembered, PublicationFits
    <2>12. PictureIsFresh'
      BY <1>1, <2>1, <2>3, <2>5, <2>6, <2>9 DEF PictureIsFresh, Covered, Owed, Drawing, At, Live
    <2>13. CurrentOnScreen' /\ FinalIsComplete'
      BY <1>1, <2>1, <2>3, <2>5, <2>9 DEF Pictures, CurrentOnScreen, FinalIsComplete, FinalDrawing,
         Drawing, At, OnScreen
    <2>14. QED
      BY <2>10, <2>11, <2>12, <2>13 DEF Pictures
  <1>5. QED
    BY <1>3, <1>4 DEF CancelPending

-----------------------------------------------------------------------------
(* The pictures.                                                           *)

LEMMA AcquirePicturesAny ==
    ASSUME IInv, Pictures,
           \/ \E r \in Runs : AcquirePrepare(r) \/ AcquireCancel(r)
           \/ AcquireNotify \/ AcquireLegacyDate \/ AcquireRefresh
           \/ \E m \in Message0 : AcquireRepost(m)
           \/ \E kind \in {"close", "delete"} : AcquireClose(kind)
    PROVE  Pictures'
  <1>1. PICK kind \in Kinds, r \in Run0, m \in Message0 :
           Acquire(kind, r, m) /\ (kind # "repost" => m = NoMessage)
    BY DEF AcquirePrepare, AcquireCancel, AcquireNotify, AcquireLegacyDate, AcquireRefresh,
       AcquireRepost, AcquireClose, Kinds
  <1>2. QED
    BY <1>1, AcquirePictures

LEMMA OperationStepPictures == ASSUME IInv, Pictures, OperationStep PROVE Pictures'
  BY StartedPictures, FinishPictures, ReadFailsPictures, SnapshotFailsPictures,
     PrepareRefusedPictures, PreparePictures, NotifyPictures, LegacyMessageDatePictures,
     RefreshPictures, RenderPictures, EditPictures, RecheckPictures, SendPictures,
     PersistPublicationPictures, CleanupPictures, CleanMessagePictures, ClosePictures,
     FinishRunPictures, DeleteScheduleEntryPictures, CancelPendingPictures, RepostPictures
     DEF OperationStep

LEMMA NextPictures == ASSUME IInv, Pictures, [Next]_vars PROVE Pictures'
  <1>1. CASE OperationStep
    BY <1>1, OperationStepPictures
  <1>2. CASE Calls
    BY <1>2, AcquirePicturesAny, SetLegacyPictures, MutatePictures, BesidePictures DEF Calls, Beside
  <1>3. CASE World
    BY <1>3, GhostLandsPictures, PersonDeletesPictures, BesidePictures DEF World, Beside
  <1>4. CASE \E kind \in {"close", "delete"} : AcquireClose(kind)
    BY <1>4, AcquirePicturesAny
  <1>5. CASE WorkerDrops \/ WorkerStarts
    BY <1>5, WorkerStartsPictures, BesidePictures DEF Beside
  <1>6. CASE UNCHANGED vars
    BY <1>6, BesidePictures DEF Beside
  <1>7. QED
    BY <1>1, <1>2, <1>3, <1>4, <1>5, <1>6 DEF Next

LEMMA InitPictures == ASSUME Init PROVE Pictures
  <1>1. PICK start \in Starts, r \in Runs :
           /\ row = StartRow(start, r)
           /\ msgs = [m \in Messages |->
                 [show |-> IF start = "legacy" /\ m = 1 THEN "live" ELSE "unsent",
                  run |-> NoRun, rev |-> 0]]
    BY DEF Init
  <1>2. /\ ghost = NoGhost /\ mem = FreshMemory /\ dirty = FALSE /\ op = NoOp
    BY DEF Init
  <1>3. start \in StartKinds
    OBVIOUS
  <1>4. /\ row.mes # NoMessage => row.mes = 1 /\ msgs[row.mes].show = "live"
                                  /\ msgs[row.mes].rev = row.rev /\ row.run = NoRun
    <2>1. 1 \in Messages
      OBVIOUS
    <2>2. CASE start = "legacy"
      BY <1>1, <2>1, <2>2 DEF StartRow
    <2>3. CASE start \in {"scheduled", "temporary"}
      BY <1>1, <2>3 DEF StartRow
    <2>4. QED
      BY <1>3, <2>2, <2>3 DEF StartKinds
  <1>5. OperationFits /\ DrawsTheMessage
    BY <1>2 DEF OperationFits, Redrawing, DrawsTheMessage, Drawing, At, NoOp
  <1>6. LateIsRemembered /\ PublicationFits(mem, row)
    BY <1>2 DEF LateIsRemembered, PublicationFits, NoGhost, FreshMemory
  <1>7. PictureIsFresh
    BY <1>2, <1>4 DEF PictureIsFresh, Drawing, At, Live, NoOp, NoGhost, Active
  <1>8. CurrentOnScreen /\ FinalIsComplete
    BY <1>2, <1>4 DEF CurrentOnScreen, FinalIsComplete, FinalDrawing, Drawing, At, OnScreen, NoOp, NoGhost
  <1>9. QED
    BY <1>5, <1>6, <1>7, <1>8 DEF Pictures

(* What the messages in the chat show always fits the row, the drawing in  *)
(* progress and the writes in doubt: a current message is as fresh as the  *)
(* row or somebody is about to redraw it, and the final one is complete.   *)
THEOREM PicturesInvariant == Spec => [](IInv /\ Pictures)
  <1>1. Init => IInv /\ Pictures
    BY InitHolds, InitPictures
  <1>2. IInv /\ Pictures /\ [Next]_vars => (IInv /\ Pictures)'
    BY NextKeeps, NextPictures
  <1>3. QED
    BY <1>1, <1>2, PTL DEF Spec

(* When the lane is free and no redrawing is owed, the live message of an  *)
(* active run shows the participants of the database.                      *)
THEOREM FreshWhenQuietHolds == Spec => []FreshWhenQuiet
  <1>1. IInv /\ Pictures => FreshWhenQuiet
    <2>1. ASSUME IInv, Pictures, op = NoOp, ~dirty, ~mem.closing, Active(row), Live(row.mes)
          PROVE  msgs[row.mes].rev = row.rev
      <3>1. ~Covered
        BY <2>1 DEF Covered, Owed, Redrawing, Drawing, NoOp
      <3>2. QED
        BY <2>1, <3>1 DEF Pictures, PictureIsFresh
    <2>2. QED
      BY <2>1 DEF FreshWhenQuiet, Live
  <1>2. QED
    BY <1>1, PicturesInvariant, PTL

(* The steps that may change what the chat shows.                          *)
ChatWriter == \/ Edit \/ Send
              \/ \E m \in Messages : CleanMessage(m) \/ PersonDeletes(m)

LEMMA OthersKeepTheChat == ASSUME [Next]_vars, ~ChatWriter PROVE msgs' = msgs
  <1>1. CASE OperationStep
    BY <1>1 DEF ChatWriter, OperationStep, Started, Finish, ReadFails, SnapshotFails, PrepareRefused,
       Prepare, Notify, LegacyMessageDate, Refresh, Render, Recheck, PersistPublication, Cleanup,
       Close, FinishRun, DeleteScheduleEntry, CancelPending, Repost
  <1>2. CASE Calls
    BY <1>2 DEF Calls, AcquirePrepare, AcquireCancel, AcquireNotify, AcquireLegacyDate,
       AcquireRefresh, AcquireRepost, Acquire, CloseIntent, DeleteIntent, GiveUp, ReadBack,
       Changed, Mutate, SetLegacyQueueRunBounds, RestoreEnds
  <1>3. CASE \/ WorkerDrops \/ WorkerStarts
             \/ \E kind \in {"close", "delete"} : AcquireClose(kind)
    BY <1>3 DEF WorkerDrops, WorkerStarts, AcquireClose, Acquire
  <1>4. CASE World
    BY <1>4 DEF ChatWriter, World, Tick, GhostLands
  <1>5. CASE UNCHANGED vars
    BY <1>5 DEF vars
  <1>6. QED
    BY <1>1, <1>2, <1>3, <1>4, <1>5 DEF Next

(* A closed or retired message never takes presses again: a redrawing      *)
(* edits the current message only, which is on the screen or gone; or it   *)
(* was closed before a row of an older version got its run.                *)
THEOREM NeverRevivedHolds == Spec => NeverRevived
  <1> DEFINE redrawn(m) == /\ MayBeLegacy /\ msgs[m].show = "closed"
                           /\ row.mes = m /\ row.run = op.snap.run /\ row.run # NoRun
  <1>1. ASSUME IInv, Pictures, [Next]_vars, NEW m \in Messages,
               msgs[m].show \in {"closed", "retired"}, msgs'[m].show = "live"
        PROVE  At("send") \/ redrawn(m)
    <2>1. TypeOK
      BY <1>1 DEF IInv
    <2>2. CASE Edit
      <3>1. Drawing
        BY <2>2 DEF Edit, Drawing, At
      <3>2. op.snap.mes = m /\ op.snap.live
        BY <1>1, <2>1, <2>2 DEF Edit, Drawn, TypeOK
      <3>3. row.mes = m /\ OnScreen(row.mes)
        BY <1>1, <3>1, <3>2, WhileDrawing
      <3>4. row.run = op.snap.run /\ row.run # NoRun
        BY <1>1, <3>1, <3>2, <3>3 DEF IInv, DrawsTheRun, GoneIsEmpty
      <3>5. QED
        BY <1>1, <3>3, <3>4 DEF OnScreen
    <2>3. CASE Send
      BY <2>3 DEF Send
    <2>4. CASE \E n \in Messages : CleanMessage(n)
      BY <1>1, <2>1, <2>4 DEF CleanMessage, Cleaned, Dead, TypeOK
    <2>5. CASE \E n \in Messages : PersonDeletes(n)
      BY <1>1, <2>1, <2>5 DEF PersonDeletes, Dead, TypeOK
    <2>6. CASE msgs' = msgs
      BY <1>1, <2>6
    <2>7. QED
      BY <1>1, <2>2, <2>3, <2>4, <2>5, <2>6, OthersKeepTheChat DEF ChatWriter
  <1>2. IInv /\ Pictures /\ [Next]_vars =>
          [\A m \in Messages :
             msgs[m].show \in {"closed", "retired"} /\ msgs'[m].show = "live" =>
                \/ At("send")
                \/ /\ MayBeLegacy /\ msgs[m].show = "closed"
                   /\ row.mes = m /\ row.run = op.snap.run /\ row.run # NoRun]_vars
    BY <1>1
  <1>3. QED
    BY <1>2, PicturesInvariant, PTL DEF Spec, NeverRevived

(* The steps that end a run.                                               *)
LEMMA EndingSteps ==
    ASSUME IInv, [Next]_vars, row.run # NoRun, row'.run = NoRun
    PROVE  \/ FinishRun
           \/ CancelPending /\ ~mem.closing
           \/ GhostLands /\ ghost.kind = "finish"
           \/ row.mes = NoMessage
  <1>1. TypeOK /\ row \in Row
    BY DEF IInv, TypeOK
  <1>2. ~Prepare
    <2>1. SUFFICES ASSUME Prepare PROVE FALSE
      OBVIOUS
    <2>2. row' = row \/ (~RunConflict(op.run) /\ row' = BegunRow(op.run))
      BY <2>1 DEF Prepare, WriteApplies, WriteFails, db
    <2>3. QED
      BY <2>2 DEF RunConflict, BegunRow
  <1>3. ~PersistPublication
    BY <1>1 DEF PersistPublication, WriteApplies, DoubtfulWrite, PublishedRow, Row, db
  <1>4. DeleteScheduleEntry => row.mes = NoMessage
    BY DEF IInv, CloseIsMeant, DeleteScheduleEntry
  <1>5. CancelPending => ~mem.closing
    BY DEF CancelPending, Cancellable, db
  <1>6. GhostLands => ghost.kind = "finish" \/ row.mes = NoMessage
    <2>1. SUFFICES ASSUME GhostLands, ghost.kind # "finish", row.mes # NoMessage PROVE FALSE
      OBVIOUS
    <2>2. /\ row' \in {row, GhostRow}
          /\ ghost.kind \in {"none", "begin", "bounds", "publish", "mutate"}
      BY <1>1, <2>1 DEF GhostLands, TypeOK, Ghost, IInv, LateWrites
    <2>3. ghost.kind # "begin" \/ ~RunConflict(ghost.run)
      BY DEF IInv, LateWrites
    <2>4. CASE ghost.kind = "begin"
      BY <2>2, <2>3, <2>4 DEF GhostRow, RunConflict, BegunRow
    <2>5. CASE ghost.kind \in {"none", "bounds", "publish", "mutate"}
      BY <1>1, <2>2, <2>5 DEF GhostRow, BoundRow, PublishedRow, MutatedRow, Row
    <2>6. QED
      BY <2>2, <2>4, <2>5
  <1>7. ~\E r \in Runs : SetLegacyQueueRunBounds(r)
    BY DEF SetLegacyQueueRunBounds
  <1>8. ~\E m \in Messages : Mutate(m)
    BY <1>1 DEF Mutate, WriteApplies, WriteFails, db, MutatedRow, Row
  <1>9. QED
    BY <1>2, <1>3, <1>4, <1>5, <1>6, <1>7, <1>8, OthersKeepTheRow DEF RowWriter

(* When a run ends by Close or Delete its message shows everybody who was  *)
(* in the queue and no longer takes presses, or people deleted it; also    *)
(* when the COMMIT that ends the run arrives late.                         *)
THEOREM FinalPictureCompleteHolds == Spec => FinalPictureComplete
  <1>1. ASSUME IInv, Pictures, [Next]_vars, row.run # NoRun, row'.run = NoRun, mem.closing,
               mem.cancellation = NoSnap
        PROVE  Complete(row.mes)
    <2>4. CASE row.mes = NoMessage
      BY <2>4 DEF Complete
    <2>1. CASE FinishRun
      BY <1>1, <2>1 DEF FinishRun, Pictures, FinalIsComplete
    <2>2. CASE ghost.kind = "finish"
      BY <1>1, <2>2 DEF Pictures, FinalIsComplete
    <2>3. QED
      BY <1>1, <2>1, <2>2, <2>4, EndingSteps
  <1>2. IInv /\ Pictures /\ [Next]_vars =>
          [row.run # NoRun /\ row'.run = NoRun /\ mem.closing /\ mem.cancellation = NoSnap
             /\ row.mes # NoMessage
           => \/ msgs[row.mes].show = "missing"
              \/ msgs[row.mes].show = "closed" /\ msgs[row.mes].rev = row.rev]_vars
    BY <1>1 DEF Complete
  <1>3. QED
    BY <1>2, PicturesInvariant, PTL DEF Spec, FinalPictureComplete

-----------------------------------------------------------------------------
(* Every message that takes presses is accounted for, if no run is         *)
(* prepared again while its cancellation is in doubt.                      *)

(* Settling the doubts of the memory n, with the row r at hand, loses no   *)
(* message: the current one stays, every other one is marked for cleaning. *)
LEMMA ResolvingAccounts ==
    ASSUME NEW n \in Memory, NEW r \in Row, PublicationFits(n, r), CancellationFits(n, r),
           ~r.exists => r.run = NoRun /\ r.mes = NoMessage,
           NEW sent \in Message0, NEW m \in Messages, Accounted(n, r, sent, m)
    PROVE  Accounted(ResolveWrites(n, r), r, sent, m)
  <1> DEFINE after == ResolveWrites(n, r)
             canceled == /\ n.cancellation # NoSnap
                         /\ ~(r.exists /\ r.run # NoRun /\ r.run = n.cancellation.run)
  <1>1. after.cleanup[m] = IF canceled /\ m = n.cancellation.mes THEN "close"
                           ELSE IF Landed(n, r) /\ m = n.publication.prev THEN "retire"
                           ELSE IF Lost(n, r) /\ m = n.publication.mes THEN "close"
                           ELSE n.cleanup[m]
    BY DEF ResolveWrites, Memory
  <1>2. m # NoMessage
    OBVIOUS
  <1> HIDE DEF after
  <1>3. CASE m \in {r.mes, sent}
    BY <1>3 DEF Accounted, after
  <1>4. CASE n.cleanup[m] # "none"
    BY <1>1, <1>4 DEF Accounted, after
  <1>5. CASE m = n.cancellation.mes
    <2>1. n.cancellation # NoSnap
      BY <1>2, <1>5 DEF NoSnap
    <2>2. CASE canceled
      BY <1>1, <1>5, <2>2 DEF Accounted, after
    <2>3. CASE ~canceled
      <3>1. r.mes = m
        BY <1>5, <2>1, <2>3 DEF CancellationFits
      <3>2. QED
        BY <1>3, <3>1
    <2>4. QED
      BY <2>2, <2>3
  <1>6. CASE m = n.publication.mes
    <2>1. n.publication # NoPublication
      BY <1>2, <1>6 DEF NoPublication
    <2>2. CASE Landed(n, r)
      BY <1>3, <1>6, <2>2 DEF Landed
    <2>3. CASE ~Landed(n, r)
      BY <1>1, <1>6, <2>1, <2>3 DEF Lost, Accounted, after
    <2>4. QED
      BY <2>2, <2>3
  <1>7. CASE m = n.publication.prev
    <2>1. n.publication # NoPublication
      BY <1>2, <1>7 DEF NoPublication
    <2>2. CASE r.mes = n.publication.mes
      <3>1. Landed(n, r)
        BY <2>1, <2>2 DEF Landed, PublicationFits
      <3>2. QED
        BY <1>1, <1>7, <3>1 DEF Accounted, after
    <2>3. CASE n.publication.prev \in {NoMessage, r.mes}
      BY <1>2, <1>3, <1>7, <2>3
    <2>4. QED
      BY <2>1, <2>2, <2>3 DEF PublicationFits
  <1>8. QED
    BY <1>3, <1>4, <1>5, <1>6, <1>7 DEF Accounted

LEMMA AllAccounted ==
    /\ NoOrphan <=> \A m \in Messages : msgs[m].show = "live" => Accounted(mem, row, op.sent, m)
    /\ NoOrphan' <=> \A m \in Messages : msgs'[m].show = "live" => Accounted(mem', row', op'.sent, m)
  BY DEF NoOrphan, Accounted

(* The caller in the lane does not change but by leaving it.               *)
SameCaller == \/ op'.kind # "prepare"
              \/ op'.run = NoRun
              \/ op.kind = "prepare" /\ op'.run = op.run

(* A step that keeps the current message, the doubts and the marks of all  *)
(* messages that take presses.                                             *)
LEMMA AccountsKept ==
    ASSUME IInv, Accounts, UNCHANGED <<row.mes, row.run>>, KeepsDoubts,
           op'.sent = op.sent \/ op.sent = NoMessage,
           \A m \in Messages : msgs'[m].show = "live" =>
              \/ m \in {row.mes, op'.sent}
              \/ msgs[m].show = "live" /\ mem'.cleanup[m] = mem.cleanup[m],
           ghost'.kind = "begin" => ghost' = ghost,
           SameCaller \/ op'.run # mem.cancellation.run
    PROVE  Accounts'
  <1>1. CancellationFits(mem, row)'
    BY DEF Accounts, CancellationFits, KeepsDoubts
  <1>2. NotBegunAgain'
    BY DEF Accounts, NotBegunAgain, CancellationFits, KeepsDoubts, SameCaller
  <1>3. NoOrphan'
    BY AllAccounted DEF Accounts, Accounted, KeepsDoubts
  <1>4. QED
    BY <1>1, <1>2, <1>3 DEF Accounts

(* A reading that settles the doubts.                                      *)
LEMMA AccountsSettled ==
    ASSUME IInv, Pictures, Accounts, UNCHANGED <<row, msgs>>,
           mem' = Settled, ~At("persist")
    PROVE  Accounts'
  <1>1. TypeOK
    BY DEF IInv
  <1>2. CancellationFits(mem, row)' /\ NotBegunAgain'
    BY <1>1, Remembering DEF CancellationFits, NotBegunAgain
  <1>3. /\ Synced \in Memory /\ row \in Row /\ op.sent = NoMessage
        /\ Synced.publication = mem.publication /\ Synced.cancellation = mem.cancellation
        /\ Synced.cleanup = mem.cleanup
    BY <1>1, Remembering DEF TypeOK, Memory, Synced, Pictures, OperationFits
  <1>4. ASSUME NEW m \in Messages, msgs'[m].show = "live"
        PROVE  Accounted(mem', row', op'.sent, m)
    <2>1. Accounted(Synced, row, NoMessage, m)
      BY <1>3, <1>4, AllAccounted DEF Accounts, Accounted
    <2>2. PublicationFits(Synced, row) /\ CancellationFits(Synced, row)
      BY <1>3 DEF Pictures, Accounts, PublicationFits, CancellationFits
    <2>3. Accounted(Settled, row, NoMessage, m)
      BY <1>3, <2>1, <2>2, ResolvingAccounts DEF Settled, IInv, GoneIsEmpty
    <2>4. QED
      BY <2>3 DEF Accounted
  <1>5. QED
    BY <1>2, <1>4, AllAccounted DEF Accounts

LEMMA MarksRead ==
    ASSUME TypeOK, mem' \in {mem, Synced, Doubtful}
    PROVE  KeepsDoubts /\ mem'.cleanup = mem.cleanup
  BY DEF TypeOK, Memory, KeepsDoubts, Synced, Doubtful

(* The places the operation goes to from a step keep its caller.           *)
LEMMA CallerStays ==
    ASSUME TypeOK,
           \/ \E place \in Places, result \in {"ok", "error", "norows"} : op' = Ended(place, result)
           \/ \E place \in Places : op' = [op EXCEPT !.at = place]
           \/ \E place \in Places, s \in Snapshot : op' = [op EXCEPT !.at = place, !.snap = s]
           \/ op' = NoOp
    PROVE  SameCaller
  BY ConstantsTyped DEF TypeOK, Operation, Ended, NoOp, SameCaller

(* The chat and the row stay, and no doubt is settled.                     *)
LEMMA AccountsRead ==
    ASSUME IInv, Pictures, Accounts, UNCHANGED <<row, ghost, msgs>>, ~At("persist"),
           mem' \in {mem, Synced, Doubtful}, SameCaller
    PROVE  Accounts'
  <1>1. KeepsDoubts /\ mem'.cleanup = mem.cleanup
    BY MarksRead DEF IInv
  <1>2. op.sent = NoMessage
    BY DEF Pictures, OperationFits
  <1>3. QED
    BY <1>1, <1>2, AccountsKept

LEMMA StartedAccounts == ASSUME IInv, Pictures, Accounts, Started PROVE Accounts'
  <1>1. TypeOK /\ ~At("persist") /\ UNCHANGED <<row, ghost, msgs>>
    BY DEF IInv, Started, At, db
  <1>2. op' = [op EXCEPT !.at = IF op.kind = "delete" THEN "close" ELSE op.kind]
    BY DEF Started, Goto
  <1>3. SameCaller
    BY <1>1, <1>2 DEF SameCaller, TypeOK, Operation
  <1>4. KeepsDoubts /\ mem'.cleanup = mem.cleanup
    BY <1>1 DEF Started, TypeOK, Memory, KeepsDoubts
  <1>5. op.sent = NoMessage
    BY <1>1 DEF Pictures, OperationFits
  <1>6. QED
    BY <1>1, <1>3, <1>4, <1>5, AccountsKept

LEMMA FinishAccounts == ASSUME IInv, Pictures, Accounts, Finish PROVE Accounts'
  <1>1. TypeOK /\ ~At("persist") /\ UNCHANGED <<row, ghost, msgs>> /\ op' = NoOp
    BY DEF IInv, Finish, At, db
  <1>2. SameCaller
    BY <1>1, CallerStays
  <1>3. KeepsDoubts /\ mem'.cleanup = mem.cleanup
    BY <1>1 DEF Finish, TypeOK, Memory, KeepsDoubts
  <1>4. op.sent = NoMessage
    BY <1>1 DEF Pictures, OperationFits
  <1>5. QED
    BY <1>1, <1>2, <1>3, <1>4, AccountsKept

(* The steps that read, fail, refuse or notify.                            *)
LEMMA PlainAccounts ==
    ASSUME IInv, Pictures, Accounts,
           \/ ReadFails \/ PrepareRefused \/ Notify \/ LegacyMessageDate \/ Recheck \/ Render
    PROVE  Accounts'
  <1>1. TypeOK
    BY DEF IInv
  <1>2. UNCHANGED <<row, ghost, msgs>> /\ mem' \in {mem, Synced, Doubtful}
    BY DEF ReadFails, PrepareRefused, Notify, LegacyMessageDate, Recheck, Render, db
  <1>3. ~At("persist")
    BY DEF ReadFails, PrepareRefused, Notify, LegacyMessageDate, Recheck, Render, At
  <1>4. \/ \E place \in {"cleanup", "done"}, result \in {"ok", "error", "norows"} :
              op' = Ended(place, result)
        \/ op' = [op EXCEPT !.at = "send"]
        \/ \E place \in {"edit", "recheck"} :
              op' = [op EXCEPT !.at = place, !.snap = SnapshotOf(row, TRUE)]
    BY DEF ReadFails, PrepareRefused, Notify, LegacyMessageDate, Recheck, Render, Return, ToCleanup,
       Goto
  <1>5. SnapshotOf(row, TRUE) \in Snapshot
    BY <1>1 DEF TypeOK, Row, SnapshotOf, Snapshot
  <1>6. {"cleanup", "done", "send", "edit", "recheck"} \subseteq Places
    BY DEF Places
  <1>7. SameCaller
    BY <1>1, <1>4, <1>5, <1>6, CallerStays
  <1>8. QED
    BY <1>2, <1>3, <1>7, AccountsRead

LEMMA SnapshotFailsAccounts == ASSUME IInv, Pictures, Accounts, SnapshotFails PROVE Accounts'
  <1>1. TypeOK /\ UNCHANGED <<row, ghost, msgs>> /\ ~At("persist")
    BY DEF IInv, SnapshotFails, At, db
  <1>2. CASE mem' = Settled
    BY <1>1, <1>2, AccountsSettled
  <1>3. CASE mem' = Synced
    <2>1. \E place \in {"cleanup", "done"} : op' = Ended(place, "error")
      BY DEF SnapshotFails, ToCleanup, Return
    <2>2. SameCaller
      BY <1>1, <2>1, CallerStays DEF Places
    <2>3. QED
      BY <1>1, <1>3, <2>2, AccountsRead
  <1>4. QED
    BY <1>2, <1>3 DEF SnapshotFails

LEMMA RefreshAccounts == ASSUME IInv, Pictures, Accounts, Refresh PROVE Accounts'
  <1>1. TypeOK /\ UNCHANGED <<row, ghost, msgs>> /\ ~At("persist")
    BY DEF IInv, Refresh, At, db
  <1>2. CASE CanRead /\ mem' = Settled
    BY <1>1, <1>2, AccountsSettled
  <1>3. CASE Goto("close") /\ UNCHANGED mem
    <2>1. SameCaller
      BY <1>1, <1>3, CallerStays DEF Goto, Places
    <2>2. QED
      BY <1>1, <1>3, <2>1, AccountsRead
  <1>4. QED
    BY <1>2, <1>3 DEF Refresh

LEMMA RepostAccounts == ASSUME IInv, Pictures, Accounts, Repost PROVE Accounts'
  <1>1. TypeOK /\ UNCHANGED <<row, ghost, msgs>> /\ ~At("persist")
    BY DEF IInv, Repost, At, db
  <1>2. CASE CanRead /\ mem' = Settled
    BY <1>1, <1>2, AccountsSettled
  <1>3. CASE Return("error") /\ mem' \in {mem, Synced}
    <2>1. SameCaller
      BY <1>1, <1>3, CallerStays DEF Return, Places
    <2>2. QED
      BY <1>1, <1>3, <2>1, AccountsRead
  <1>4. QED
    BY <1>2, <1>3 DEF Repost

LEMMA CloseAccounts == ASSUME IInv, Pictures, Accounts, Close PROVE Accounts'
  <1>1. TypeOK /\ UNCHANGED <<row, ghost, msgs>> /\ ~At("persist")
    BY DEF IInv, Close, At, db
  <1>2. CASE mem' = Settled
    BY <1>1, <1>2, AccountsSettled
  <1>3. CASE mem' = [Synced EXCEPT !.closing = FALSE] /\ Closed
    <2>1. SameCaller
      BY <1>1, <1>3, CallerStays DEF Closed, Goto, Return, Places
    <2>2. KeepsDoubts /\ mem'.cleanup = mem.cleanup
      BY <1>1, <1>3 DEF Synced, TypeOK, Memory, KeepsDoubts
    <2>3. op.sent = NoMessage
      BY <1>1 DEF Pictures, OperationFits
    <2>4. QED
      BY <1>1, <2>1, <2>2, <2>3, AccountsKept
  <1>4. QED
    BY <1>2, <1>3 DEF Close

(* Drawing and cleaning.                                                   *)

LEMMA EditAccounts == ASSUME IInv, Pictures, Accounts, Edit PROVE Accounts'
  <1>1. At("edit") /\ Drawing /\ ~At("persist")
    BY DEF Edit, At, Drawing
  <1>2. UNCHANGED <<row, ghost, mem>> /\ op.sent = NoMessage
    BY <1>1 DEF Edit, db, Pictures, OperationFits
  <1>3. \A m \in Messages : m # row.mes => msgs'[m] = msgs[m]
    BY <1>1, WhileDrawing DEF Edit, Drawn, TypeOK
  <1>4. \/ \E place \in {"cleanup", "done", "finishRun"}, result \in {"ok", "error"} :
              op' = Ended(place, result)
        \/ \E place \in {"recheck", "send"} : op' = [op EXCEPT !.at = place]
    BY DEF Edit, ToCleanup, ToFinishRun, Return, Goto
  <1>5. {"cleanup", "done", "finishRun", "recheck", "send"} \subseteq Places
    BY DEF Places
  <1>6. SameCaller
    BY <1>1, <1>4, <1>5, CallerStays, WhileDrawing
  <1>7. QED
    BY <1>2, <1>3, <1>6, AccountsKept DEF KeepsDoubts

LEMMA SendAccounts == ASSUME IInv, Pictures, Accounts, Send PROVE Accounts'
  <1>1. At("send") /\ Drawing /\ ~At("persist")
    BY DEF Send, At, Drawing
  <1>2. UNCHANGED <<row, ghost, mem>> /\ op.sent = NoMessage
    BY <1>1 DEF Send, db, Pictures, OperationFits
  <1>3. CASE NotPublished /\ UNCHANGED msgs
    <2>1. SameCaller
      BY <1>1, <1>3, CallerStays, WhileDrawing DEF NotPublished, ToCleanup, Return, Places
    <2>2. QED
      BY <1>1, <1>2, <1>3, <2>1, AccountsRead
  <1>4. ASSUME NEW m \in Messages, msgs' = Drawn(m, op.snap),
               op' = [op EXCEPT !.at = "persist", !.sent = m]
        PROVE  Accounts'
    <2>1. op'.sent = m /\ op'.kind = op.kind /\ op'.run = op.run
      BY <1>1, <1>4, WhileDrawing DEF TypeOK, Operation
    <2>2. \A n \in Messages : n # m => msgs'[n] = msgs[n]
      BY <1>1, <1>4, WhileDrawing DEF Drawn, TypeOK
    <2>3. QED
      BY <1>2, <2>1, <2>2, AccountsKept DEF KeepsDoubts, SameCaller
  <1>5. QED
    BY <1>3, <1>4 DEF Send

LEMMA CleanupAccounts == ASSUME IInv, Pictures, Accounts, Cleanup PROVE Accounts'
  <1>1. TypeOK /\ UNCHANGED <<row, ghost, msgs>> /\ ~At("persist") /\ op.sent = NoMessage
    BY DEF IInv, Cleanup, At, db, Pictures, OperationFits
  <1>2. CASE Goto("done") /\ UNCHANGED mem
    <2>1. SameCaller
      BY <1>1, <1>2, CallerStays DEF Goto, Places
    <2>2. QED
      BY <1>1, <1>2, <2>1, AccountsRead
  <1>3. CASE /\ mem' = [Synced EXCEPT !.cleanup =
                          [m \in Messages |-> IF m \in Kept THEN @[m] ELSE "none"]]
             /\ op' = [op EXCEPT !.at = IF Kept = {} THEN "done" ELSE "cleaning", !.todo = Kept]
    <2>1. SameCaller
      <3>1. PICK place \in {"done", "cleaning"} : op' = [op EXCEPT !.at = place, !.todo = Kept]
        BY <1>3
      <3>2. op'.kind = op.kind /\ op'.run = op.run
        BY <1>1, <3>1 DEF TypeOK, Operation
      <3>3. QED
        BY <3>2 DEF SameCaller
    <2>2. KeepsDoubts /\ \A m \in Messages : mem'.cleanup[m] = mem.cleanup[m] \/ m = row.mes
      BY <1>1, <1>3 DEF Synced, Kept, TypeOK, Memory, KeepsDoubts
    <2>3. QED
      BY <1>1, <2>1, <2>2, AccountsKept
  <1>4. QED
    BY <1>2, <1>3 DEF Cleanup

LEMMA CleanMessageAccounts ==
    ASSUME IInv, Pictures, Accounts, NEW m \in Messages, CleanMessage(m)
    PROVE  Accounts'
  <1>1. TypeOK /\ UNCHANGED <<row, ghost>> /\ ~At("persist") /\ op.sent = NoMessage
    BY DEF IInv, CleanMessage, At, db, Pictures, OperationFits
  <1>2. \/ msgs' = Cleaned(m) /\ mem' = [mem EXCEPT !.cleanup[m] = "none"]
        \/ msgs' \in {msgs, Cleaned(m)} /\ mem' = mem
    BY DEF CleanMessage
  <1>3. \A n \in Messages : msgs'[n].show = "live" =>
           msgs[n].show = "live" /\ mem'.cleanup[n] = mem.cleanup[n]
    BY <1>1, <1>2 DEF Cleaned, Dead, TypeOK, Memory
  <1>4. KeepsDoubts
    BY <1>1, <1>2 DEF TypeOK, Memory, KeepsDoubts
  <1> DEFINE left == op.todo \ {m}
             next == IF left = {} THEN "done" ELSE "cleaning"
             moved == [op EXCEPT !.at = next, !.todo = left]
             failed == [op EXCEPT !.at = next, !.todo = left, !.result = "error"]
  <1>5. op' = moved \/ op' = failed
    BY DEF CleanMessage
  <1>6. SameCaller
    <2> HIDE DEF left, next
    <2>1. QED
      BY <1>1, <1>5 DEF TypeOK, Operation, SameCaller
  <1>7. QED
    BY <1>1, <1>3, <1>4, <1>6, AccountsKept

(* The lane is taken: a run is not prepared while its cancellation is in   *)
(* doubt.                                                                  *)
LEMMA AcquireAccounts ==
    ASSUME IInv, Pictures, Accounts, NEW kind \in Kinds, NEW r \in Run0, NEW m \in Message0,
           Acquire(kind, r, m), kind = "prepare" => r # mem.cancellation.run
    PROVE  Accounts'
  <1>1. /\ TypeOK /\ UNCHANGED <<row, ghost, msgs, mem>> /\ op = NoOp
    BY DEF IInv, Acquire, db
  <1>2. op'.kind = kind /\ op'.run = r /\ op'.sent = NoMessage /\ op.sent = NoMessage
    BY <1>1, ConstantsTyped DEF Acquire, NoOp, Operation
  <1>3. QED
    BY <1>1, <1>2, AccountsKept DEF KeepsDoubts, SameCaller

LEMMA AcquireAccountsAny ==
    ASSUME IInv, Pictures, Accounts, ~SettingsReturn,
           \/ \E r \in Runs : AcquirePrepare(r) \/ AcquireCancel(r)
           \/ AcquireNotify \/ AcquireLegacyDate \/ AcquireRefresh
           \/ \E m \in Message0 : AcquireRepost(m)
           \/ \E kind \in {"close", "delete"} : AcquireClose(kind)
    PROVE  Accounts'
  <1>1. PICK kind \in Kinds, r \in Run0, m \in Message0 :
           Acquire(kind, r, m) /\ (kind = "prepare" => r # mem.cancellation.run)
    BY DEF AcquirePrepare, AcquireCancel, AcquireNotify, AcquireLegacyDate, AcquireRefresh,
       AcquireRepost, AcquireClose, Kinds
  <1>2. QED
    BY <1>1, AcquireAccounts

LEMMA WorkerStartsAccounts == ASSUME IInv, Pictures, Accounts, WorkerStarts PROVE Accounts'
  <1>1. UNCHANGED <<row, ghost, msgs, mem>> /\ op = NoOp
    BY DEF WorkerStarts, db
  <1>2. op'.kind = "update" /\ op.sent = NoMessage
    BY <1>1, ConstantsTyped DEF WorkerStarts, NoOp, Operation
  <1>3. QED
    BY <1>1, <1>2, AccountsKept DEF KeepsDoubts, SameCaller

LEMMA BesideAccounts == ASSUME IInv, Pictures, Accounts, Beside PROVE Accounts'
  <1>1. SameCaller
    BY BesideKeeps DEF SameCaller
  <1>2. QED
    BY <1>1, BesideKeeps, AccountsKept

LEMMA PersonDeletesAccounts ==
    ASSUME IInv, Pictures, Accounts, NEW m \in Messages, PersonDeletes(m)
    PROVE  Accounts'
  <1>1. TypeOK /\ UNCHANGED <<row, ghost, op, mem>>
    BY DEF IInv, PersonDeletes, db
  <1>2. \A n \in Messages : msgs'[n].show = "live" => msgs[n].show = "live"
    BY <1>1 DEF PersonDeletes, Dead, TypeOK
  <1>3. QED
    BY <1>1, <1>2, AccountsKept DEF KeepsDoubts, SameCaller

-----------------------------------------------------------------------------
(* The transactions.                                                       *)

LEMMA PrepareAccounts == ASSUME IInv, Pictures, Accounts, Prepare PROVE Accounts'
  <1>1. /\ TypeOK /\ At("prepare") /\ Unnoted /\ UNCHANGED msgs /\ op.kind = "prepare"
        /\ ~At("persist") /\ op.sent = NoMessage
    BY ReadMeansSettled DEF IInv, LaneMarks, Prepare, At, Pictures, OperationFits
  <1>2. KeepsDoubts /\ mem'.cleanup = mem.cleanup
    <2>1. CASE mem' = Doubtful
      BY <1>1, <2>1, MarksRead
    <2>2. CASE mem' = [Synced EXCEPT !.publish = @ /\ row.run # NoRun]
      BY <1>1, <2>2 DEF Synced, KeepsDoubts, TypeOK, Memory
    <2>3. QED
      BY <2>1, <2>2 DEF Prepare
  <1>3. PICK result \in {"ok", "error"} : op' = Ended("done", result)
    BY DEF Prepare, Return
  <1>4. op'.run = NoRun
    BY <1>1, <1>3, ConstantsTyped DEF Ended, NoOp, Operation, TypeOK
  <1>5. mem.cancellation # NoSnap => op.run # mem.cancellation.run
    BY <1>1 DEF Accounts, NotBegunAgain
  <1>6. /\ row'.mes = row.mes
        /\ row'.run = row.run \/ (row.run = NoRun /\ row.mes = NoMessage /\ row'.run = op.run)
    <2>1. row' = row \/ (~RunConflict(op.run) /\ row' = BegunRow(op.run))
      BY DEF Prepare, WriteApplies, WriteFails, db
    <2>2. QED
      BY <1>1, <2>1 DEF RunConflict, BegunRow, TypeOK, Row
  <1>7. CancellationFits(mem, row)'
    BY <1>2, <1>5, <1>6 DEF Accounts, CancellationFits, KeepsDoubts
  <1>8. NotBegunAgain'
    <2>1. ghost'.kind = "begin" => ghost'.run = op.run
      BY <1>1 DEF Prepare, WriteApplies, WriteFails, db, Unnoted
    <2>2. QED
      BY <1>2, <1>4, <1>5, <2>1 DEF Accounts, NotBegunAgain, CancellationFits, KeepsDoubts
  <1>9. NoOrphan'
    BY <1>1, <1>2, <1>6, AllAccounted DEF Accounts, Accounted, KeepsDoubts
  <1>10. QED
    BY <1>7, <1>8, <1>9 DEF Accounts

(* No cancellation is in doubt while a run of an older version is restored. *)
LEMMA SetLegacyAccounts ==
    ASSUME IInv, Pictures, Accounts, RestoreFits, NEW r \in Runs, SetLegacyQueueRunBounds(r)
    PROVE  Accounts'
  <1>1. TypeOK /\ UNCHANGED <<mem, op, msgs>> /\ mem.cancellation = NoSnap
    BY DEF IInv, SetLegacyQueueRunBounds, RestoreFits, Restoring
  <1>2. row'.mes = row.mes
    <2>1. row' \in {row, [row EXCEPT !.run = r]}
      BY DEF SetLegacyQueueRunBounds, WriteApplies, WriteFails, BoundRow
    <2>2. QED
      BY <1>1, <2>1 DEF TypeOK, Row
  <1>4. CancellationFits(mem, row)' /\ NotBegunAgain'
    BY <1>1 DEF CancellationFits, NotBegunAgain
  <1>5. NoOrphan'
    BY <1>1, <1>2 DEF Accounts, NoOrphan
  <1>6. QED
    BY <1>4, <1>5 DEF Accounts

LEMMA MutateAccounts ==
    ASSUME IInv, Pictures, Accounts, NEW m \in Messages, Mutate(m)
    PROVE  Accounts'
  <1>1. TypeOK /\ UNCHANGED <<op, msgs>> /\ Unnoted
    BY ReadMeansSettled DEF IInv, Mutate
  <1>2. KeepsDoubts /\ mem'.cleanup = mem.cleanup
    BY <1>1, MarksRead DEF Mutate
  <1>3. UNCHANGED <<row.mes, row.run>>
    <2>1. row' \in {row, MutatedRow}
      BY DEF Mutate, WriteApplies, WriteFails, db
    <2>2. QED
      BY <1>1, <2>1 DEF MutatedRow, TypeOK, Row
  <1>4. ghost'.kind # "begin"
    BY <1>1 DEF Mutate, WriteApplies, WriteFails, db, Unnoted
  <1>5. SameCaller
    BY <1>1 DEF SameCaller
  <1>6. QED
    BY <1>1, <1>2, <1>3, <1>4, <1>5, AccountsKept

LEMMA DeleteScheduleEntryAccounts ==
    ASSUME IInv, Pictures, Accounts, DeleteScheduleEntry
    PROVE  Accounts'
  <1>1. /\ TypeOK /\ UNCHANGED <<mem, msgs>> /\ row.mes = NoMessage /\ Unnoted
        /\ ~At("persist") /\ op.sent = NoMessage
    BY DEF IInv, CloseIsMeant, DeleteScheduleEntry, At, Pictures, OperationFits
  <1>2. /\ row' = row \/ (row'.mes = NoMessage /\ row'.run = NoRun)
        /\ ghost'.kind # "begin"
    BY <1>1, Rows DEF DeleteScheduleEntry, WriteApplies, DoubtfulWrite, Unnoted
  <1>3. op'.run = NoRun
    BY <1>1, ConstantsTyped DEF DeleteScheduleEntry, Return, Ended, NoOp, Operation, TypeOK
  <1>4. CancellationFits(mem, row)'
    BY <1>1, <1>2 DEF Accounts, CancellationFits
  <1>5. NotBegunAgain'
    BY <1>1, <1>2, <1>3 DEF Accounts, NotBegunAgain, CancellationFits
  <1>6. NoOrphan'
    BY <1>1, AllAccounted DEF Accounts, Accounted
  <1>7. QED
    BY <1>4, <1>5, <1>6 DEF Accounts

LEMMA FinishRunAccounts == ASSUME IInv, Pictures, Accounts, FinishRun PROVE Accounts'
  <1>1. /\ TypeOK /\ At("finishRun") /\ UNCHANGED msgs
        /\ mem.cancellation = NoSnap /\ ~Live(row.mes)
        /\ ~At("persist") /\ op.sent = NoMessage
    BY DEF IInv, FinishRun, At, Pictures, FinalIsComplete, DrawsTheMessage, OperationFits
  <1>2. mem'.cancellation = NoSnap /\ mem'.publication = mem.publication /\ mem'.cleanup = mem.cleanup
    <2>1. CASE mem' = [mem EXCEPT !.closing = FALSE, !.publish = FALSE]
      BY <1>1, <2>1 DEF TypeOK, Memory
    <2>2. CASE mem' = Doubtful
      BY <1>1, <2>2, MarksRead DEF KeepsDoubts
    <2>3. QED
      BY <2>1, <2>2 DEF FinishRun
  <1>3. CancellationFits(mem, row)' /\ NotBegunAgain'
    BY <1>2 DEF CancellationFits, NotBegunAgain
  <1>4. ASSUME NEW m \in Messages, msgs'[m].show = "live"
        PROVE  Accounted(mem', row', op'.sent, m)
    <2>1. Accounted(mem, row, NoMessage, m)
      BY <1>1, <1>4, AllAccounted DEF Accounts
    <2>2. m # row.mes
      BY <1>1, <1>4 DEF Live
    <2>3. QED
      BY <1>1, <1>2, <2>1, <2>2 DEF Accounted
  <1>5. QED
    BY <1>3, <1>4, AllAccounted DEF Accounts

(* A late COMMIT: the message it replaces or ends is remembered.           *)
LEMMA GhostLandsAccounts ==
    ASSUME IInv, Pictures, Accounts, RestoreFits, GhostLands
    PROVE  Accounts'
  <1>1. /\ TypeOK /\ ghost' = NoGhost /\ row' \in {row, GhostRow} /\ ghost # NoGhost
        /\ UNCHANGED <<mem, op, msgs>>
    BY DEF IInv, GhostLands
  <1>2. /\ ghost.run \in Run0 /\ ghost.mes \in Message0 /\ row \in Row
        /\ ghost.kind \in {"none", "begin", "bounds", "delete", "publish", "finish", "mutate"}
    BY <1>1 DEF TypeOK, Ghost
  <1>3. NotBegunAgain'
    BY <1>1 DEF Accounts, NotBegunAgain, NoGhost
  <1>4. CASE UNCHANGED <<row.mes, row.run>>
    BY <1>1, <1>4, AccountsKept DEF KeepsDoubts, SameCaller, NoGhost
  <1>5. CASE ghost.kind = "begin" /\ row' = BegunRow(ghost.run) /\ row' # row
    <2>1. row.run = NoRun /\ row.mes = NoMessage
      BY <1>5 DEF IInv, LateWrites, RunConflict, BegunRow
    <2>2. row'.mes = NoMessage /\ row'.run = ghost.run
      BY <1>2, <1>5 DEF BegunRow, Row
    <2>3. CancellationFits(mem, row)'
      BY <1>1, <1>5, <2>1, <2>2 DEF Accounts, NotBegunAgain, CancellationFits
    <2>4. NoOrphan'
      BY <1>1, <2>1, <2>2 DEF Accounts, NoOrphan
    <2>5. QED
      BY <1>3, <2>3, <2>4 DEF Accounts
  <1>6. CASE ghost.kind = "publish" /\ row' = PublishedRow(ghost.mes)
    <2>1. row' = row \/ (row'.mes = ghost.mes /\ row'.run = row.run)
      BY <1>2, <1>6 DEF PublishedRow, Row
    <2>2. /\ mem.cancellation = NoSnap /\ mem.publication.mes = ghost.mes
          /\ \/ row.mes \in {NoMessage, mem.publication.prev}
             \/ msgs[row.mes].show = "missing"
      BY <1>6 DEF Pictures, LateIsRemembered
    <2>3. CASE row'.mes = ghost.mes /\ row'.run = row.run
      <3>1. CancellationFits(mem, row)'
        BY <1>1, <2>2 DEF CancellationFits
      <3>2. NoOrphan'
        BY <1>1, <2>2, <2>3 DEF Accounts, NoOrphan
      <3>3. QED
        BY <1>3, <3>1, <3>2 DEF Accounts
    <2>4. QED
      BY <1>4, <2>1, <2>3
  <1>7. CASE ghost.kind = "finish" /\ row' = FinishedRow
    <2>1. row'.mes = NoMessage /\ row'.run = NoRun
      BY <1>1, <1>7, Rows
    <2>2. ~Live(row.mes) \/ mem.cancellation.mes = row.mes
      BY <1>7 DEF Pictures, LateIsRemembered
    <2>3. CancellationFits(mem, row)'
      BY <1>1, <2>1 DEF Accounts, CancellationFits
    <2>4. NoOrphan'
      BY <1>1, <2>1, <2>2 DEF Accounts, NoOrphan, Live
    <2>5. QED
      BY <1>3, <2>3, <2>4 DEF Accounts
  <1>8. CASE ghost.kind = "mutate" /\ row' = MutatedRow
    <2>1. UNCHANGED <<row.mes, row.run>>
      BY <1>2, <1>8 DEF MutatedRow, Row
    <2>2. QED
      BY <1>4, <2>1
  <1>9. CASE ghost.kind = "bounds" /\ row' = BoundRow(ghost.run)
    <2>1. row'.mes = row.mes
      BY <1>2, <1>9 DEF BoundRow, Row
    <2>2. CancellationFits(mem, row)'
      BY <1>1, <1>9 DEF RestoreFits, Restoring, CancellationFits
    <2>3. NoOrphan'
      BY <1>1, <2>1 DEF Accounts, NoOrphan
    <2>4. QED
      BY <1>3, <2>2, <2>3 DEF Accounts
  <1>10. CASE ghost.kind = "delete" /\ row' = GoneRow
    <2>1. row'.mes = NoMessage /\ row'.run = NoRun /\ row.mes = NoMessage
      BY <1>1, <1>10, Rows DEF IInv, LateWrites
    <2>2. CancellationFits(mem, row)'
      BY <1>1, <2>1 DEF Accounts, CancellationFits
    <2>3. NoOrphan'
      BY <1>1, <2>1 DEF Accounts, NoOrphan
    <2>4. QED
      BY <1>3, <2>2, <2>3 DEF Accounts
  <1>11. QED
    BY <1>1, <1>2, <1>4, <1>5, <1>6, <1>7, <1>8, <1>9, <1>10 DEF GhostRow

(* Reading back the fate of a write that left the memory n.                *)
LEMMA ReconcilingAccounts ==
    ASSUME NEW n \in Memory, row' \in Row, GoneIsEmpty', mem' \in ReconcileWrites(n),
           PublicationFits(n, row'), CancellationFits(n, row'),
           NEW sent \in Message0, NEW m \in Messages, Accounted(n, row', sent, m)
    PROVE  Accounted(mem', row', sent, m)
  <1> DEFINE known == [n EXCEPT !.uncertain = FALSE]
  <1>1. /\ known \in Memory /\ known.publication = n.publication
        /\ known.cancellation = n.cancellation /\ known.cleanup = n.cleanup
    BY DEF Memory
  <1>2. mem' = n \/ mem' = ResolveWrites(known, row')
    BY DEF ReconcileWrites
  <1> HIDE DEF known
  <1>3. /\ PublicationFits(known, row') /\ CancellationFits(known, row')
        /\ Accounted(known, row', sent, m)
    BY <1>1 DEF PublicationFits, CancellationFits, Accounted
  <1>4. Accounted(ResolveWrites(known, row'), row', sent, m)
    BY <1>1, <1>3, ResolvingAccounts DEF GoneIsEmpty
  <1>5. QED
    BY <1>2, <1>4

(* A message that is stored replaces one that is marked, or one that is    *)
(* gone.                                                                   *)
LEMMA PublishedOKAccounts ==
    ASSUME IInv, Pictures, Accounts, At("persist"), row.exists,
           WriteApplies(PublishedRow(op.sent)), mem' = Persisted, AfterPersist("ok"),
           UNCHANGED msgs
    PROVE  Accounts'
  <1>1. Drawing /\ ghost' = NoGhost /\ row' = [row EXCEPT !.mes = op.sent]
    BY DEF WriteApplies, PublishedRow, At, Drawing
  <1>2. TypeOK /\ mem.cancellation = NoSnap /\ mem.publication = NoPublication
    BY <1>1, WhileDrawing
  <1>3. row'.mes = op.sent
    BY <1>1, <1>2 DEF TypeOK, Row
  <1>4. /\ mem'.cancellation = NoSnap /\ mem'.publication = NoPublication
        /\ \A m \in Messages : mem'.cleanup[m] = IF m = op.ref THEN "retire" ELSE mem.cleanup[m]
    BY <1>2 DEF Persisted, TypeOK, Memory
  <1>5. IF op.kind = "repost" THEN op.ref = row.mes
        ELSE row.mes = NoMessage \/ msgs[row.mes].show = "missing"
    BY DEF Pictures, DrawsTheMessage, At
  <1>6. ASSUME NEW m \in Messages, msgs'[m].show = "live"
        PROVE  Accounted(mem', row', op'.sent, m)
    <2>1. Accounted(mem, row, op.sent, m)
      BY <1>6, AllAccounted DEF Accounts
    <2>2. m # NoMessage
      OBVIOUS
    <2>3. m = op.sent \/ m = row.mes \/ mem.cleanup[m] # "none"
      BY <1>2, <2>1, <2>2 DEF Accounted, NoSnap, NoPublication
    <2>4. m = row.mes => m = op.ref
      BY <1>5, <1>6, <2>2
    <2>5. QED
      BY <1>3, <1>4, <2>3, <2>4 DEF Accounted
  <1>7. CancellationFits(mem, row)' /\ NotBegunAgain'
    BY <1>4 DEF CancellationFits, NotBegunAgain
  <1>8. QED
    BY <1>6, <1>7, AllAccounted DEF Accounts

(* A publication in doubt is remembered with the message it replaces.      *)
LEMMA PublishedInDoubtAccounts ==
    ASSUME IInv, Pictures, Accounts, At("persist"), row' \in Row, GoneIsEmpty',
           \/ ~row.exists /\ UNCHANGED db
           \/ row.exists /\ DoubtfulWrite([kind |-> "publish", run |-> NoRun, mes |-> op.sent],
                                          PublishedRow(op.sent)),
           mem' \in ReconcileWrites(Unpersisted), AfterPersist("error"), UNCHANGED msgs
    PROVE  Accounts'
  <1>1. Drawing
    BY DEF At, Drawing
  <1>2. TypeOK /\ mem.cancellation = NoSnap /\ mem.publication = NoPublication
    BY <1>1, WhileDrawing
  <1>3. /\ op.sent \in Messages /\ op.ref \in Message0 /\ row.mes \in Message0
        /\ op.kind = "repost" => op.ref = row.mes
        /\ op.kind # "repost" => /\ op.ref = NoMessage
                                 /\ row.mes = NoMessage \/ msgs[row.mes].show = "missing"
    BY Publishing, TypesOfParts DEF IInv, Pictures, DrawsTheMessage, OperationFits, At
  <1>4. row' = row \/ row'.mes = op.sent
    BY <1>2 DEF DoubtfulWrite, PublishedRow, TypeOK, Row, db
  <1>5. /\ Unpersisted \in Memory
        /\ Unpersisted.publication = [mes |-> op.sent, prev |-> op.ref]
        /\ Unpersisted.cancellation = NoSnap /\ Unpersisted.cleanup = mem.cleanup
    BY <1>2, <1>3 DEF Unpersisted, Memory, Publication, TypeOK
  <1>6. PublicationFits(Unpersisted, row') /\ CancellationFits(Unpersisted, row')
    BY <1>3, <1>4, <1>5 DEF PublicationFits, CancellationFits
  <1>7. ASSUME NEW m \in Messages, msgs'[m].show = "live"
        PROVE  Accounted(mem', row', op'.sent, m)
    <2>1. Accounted(mem, row, op.sent, m) /\ m # NoMessage
      BY <1>7, AllAccounted DEF Accounts
    <2>2. m = op.sent \/ m = row.mes \/ mem.cleanup[m] # "none"
      BY <1>2, <2>1 DEF Accounted, NoSnap, NoPublication
    <2>3. m = row.mes => m = op.ref
      BY <1>3, <1>7, <2>1
    <2>4. Accounted(Unpersisted, row', NoMessage, m)
      BY <1>5, <2>2, <2>3 DEF Accounted
    <2>5. Accounted(mem', row', NoMessage, m)
      BY <1>5, <1>6, <2>4, ReconcilingAccounts
    <2>6. QED
      BY <2>1, <2>5 DEF Accounted
  <1>8. mem'.cancellation = NoSnap
    BY <1>5, ReconcilingSettles
  <1>9. CancellationFits(mem, row)' /\ NotBegunAgain'
    BY <1>8 DEF CancellationFits, NotBegunAgain
  <1>10. QED
    BY <1>7, <1>9, AllAccounted DEF Accounts

LEMMA PersistPublicationAccounts ==
    ASSUME IInv, Pictures, Accounts, PersistPublication
    PROVE  Accounts'
  <1>1. row' \in Row /\ GoneIsEmpty'
    BY PersistPublicationStep DEF IInv, TypeOK
  <1>2. QED
    BY <1>1, PublishedOKAccounts, PublishedInDoubtAccounts DEF PersistPublication

(* A cancellation: the message of the preview is remembered before the row *)
(* forgets it.                                                             *)
LEMMA CancelPendingAccounts ==
    ASSUME IInv, Pictures, Accounts, CancelPending
    PROVE  Accounts'
  <1>1. TypeOK /\ Unnoted /\ At("cancel") /\ UNCHANGED msgs /\ op.sent = NoMessage
    BY ReadMeansSettled DEF IInv, CancelPending, Pictures, OperationFits, At
  <1> DEFINE read == IF row.exists THEN Settled ELSE Synced
             canceled == [read EXCEPT !.cancellation = SnapshotOf(row, FALSE)]
             applied == [canceled EXCEPT !.publish = FALSE]
             doubtful == [canceled EXCEPT !.uncertain = TRUE]
             finish == [kind |-> "finish", run |-> NoRun, mes |-> NoMessage]
  <1>2. PICK place \in {"cleanup", "done"}, result \in {"ok", "error"} : op' = Ended(place, result)
    BY DEF CancelPending, ToCleanup, Return
  <1>3. SameCaller
    BY <1>1, <1>2, CallerStays DEF Places
  <1>4. CASE mem' = read /\ UNCHANGED db
    <2>1. UNCHANGED <<row, ghost>> /\ ~At("persist")
      BY <1>1, <1>4 DEF db, At
    <2>2. CASE mem' = Settled
      BY <1>1, <2>1, <2>2, AccountsSettled
    <2>3. CASE mem' = Synced
      BY <1>1, <1>3, <2>1, <2>3, AccountsRead
    <2>4. QED
      BY <1>4, <2>2, <2>3
  <1>5. CASE /\ Cancellable
             /\ \/ /\ WriteApplies(FinishedRow)
                   /\ mem' = ResolveWrites([canceled EXCEPT !.publish = FALSE], row')
                \/ /\ DoubtfulWrite(finish, FinishedRow)
                   /\ mem' \in ReconcileWrites([canceled EXCEPT !.uncertain = TRUE])
    <2>1. row.run # NoRun /\ row.exists
      BY <1>5 DEF Cancellable, IInv, GoneIsEmpty
    <2>2. \/ ghost' = ghost /\ row' \in {row, FinishedRow}
          \/ ghost' = finish /\ row' = row
      BY <1>1, <1>5 DEF WriteApplies, DoubtfulWrite
    <2>3. /\ row' \in Row /\ row \in Row
          /\ row' = row \/ (row'.mes = NoMessage /\ row'.run = NoRun)
      BY <1>1, <2>2, Rows DEF TypeOK
    <2>4. GoneIsEmpty'
      BY <2>1, <2>3, CancelPendingStep DEF IInv
    <2>5. op'.run = NoRun /\ op'.sent = NoMessage
      BY <1>1, <1>2, ConstantsTyped DEF Ended, NoOp, Operation, TypeOK
    <2>6. /\ SnapshotOf(row, FALSE) \in Snapshot
          /\ SnapshotOf(row, FALSE).run = row.run /\ SnapshotOf(row, FALSE).mes = row.mes
      BY <1>1 DEF TypeOK, Row, SnapshotOf, Snapshot
    <2>7. /\ read = Settled /\ read \in Memory
          /\ read.publication = NoPublication /\ read.cancellation = NoSnap
      BY <1>1, <2>1, Remembering
    <2>8. ASSUME NEW m \in Messages, msgs[m].show = "live"
          PROVE  m = row.mes \/ Settled.cleanup[m] # "none"
      <3>1. /\ Synced \in Memory /\ Synced.publication = mem.publication
            /\ Synced.cancellation = mem.cancellation /\ Synced.cleanup = mem.cleanup
        BY <1>1, Remembering DEF TypeOK, Memory, Synced
      <3>2. Accounted(Synced, row, NoMessage, m)
        BY <1>1, <2>8, <3>1, AllAccounted DEF Accounts, Accounted
      <3>3. PublicationFits(Synced, row) /\ CancellationFits(Synced, row)
        BY <3>1 DEF Pictures, Accounts, PublicationFits, CancellationFits
      <3>4. Accounted(Settled, row, NoMessage, m)
        BY <2>3, <3>1, <3>2, <3>3, ResolvingAccounts DEF Settled, IInv, GoneIsEmpty
      <3>5. m # NoMessage
        OBVIOUS
      <3>6. QED
        BY <1>1, <3>4, <3>5, Remembering DEF Accounted, NoSnap, NoPublication
    <2>9. \A n \in {applied, doubtful} :
             /\ n \in Memory /\ n.publication = NoPublication
             /\ n.cancellation = SnapshotOf(row, FALSE) /\ n.cleanup = Settled.cleanup
      <3>1. read.cleanup = Settled.cleanup
        BY <2>7
      <3> HIDE DEF read
      <3>2. QED
        BY <2>6, <2>7, <3>1 DEF Memory
    <2>10. \A n \in {applied, doubtful} : PublicationFits(n, row') /\ CancellationFits(n, row')
      BY <2>1, <2>3, <2>6, <2>9 DEF PublicationFits, CancellationFits
    <2>11. \/ mem' = ResolveWrites(applied, row')
           \/ mem' \in ReconcileWrites(doubtful)
      BY <1>5
    <2> HIDE DEF applied, doubtful
    <2>12. ASSUME NEW m \in Messages, msgs'[m].show = "live"
           PROVE  Accounted(mem', row', op'.sent, m)
      <3>1. m = row.mes \/ Settled.cleanup[m] # "none"
        BY <1>1, <2>8, <2>12
      <3>2. \A n \in {applied, doubtful} : Accounted(n, row', NoMessage, m)
        BY <2>6, <2>9, <3>1 DEF Accounted
      <3>3. CASE mem' = ResolveWrites(applied, row')
        BY <2>3, <2>4, <2>5, <2>9, <2>10, <3>2, <3>3, ResolvingAccounts DEF GoneIsEmpty
      <3>4. CASE mem' \in ReconcileWrites(doubtful)
        BY <2>3, <2>4, <2>5, <2>9, <2>10, <3>2, <3>4, ReconcilingAccounts
      <3>5. QED
        BY <2>11, <3>3, <3>4
    <2>13. mem'.cancellation = NoSnap \/ mem'.cancellation = SnapshotOf(row, FALSE)
      BY <2>3, <2>9, <2>11, Resolving, ReconcilingSettles
    <2>14. CancellationFits(mem, row)'
      BY <2>1, <2>3, <2>6, <2>13 DEF CancellationFits
    <2>15. NotBegunAgain'
      <3>1. ghost'.kind # "begin"
        BY <1>1, <2>2 DEF Unnoted
      <3>2. mem'.cancellation # NoSnap => mem'.cancellation.run # NoRun
        BY <2>1, <2>6, <2>13
      <3>3. QED
        BY <2>5, <3>1, <3>2 DEF NotBegunAgain
    <2>16. QED
      BY <2>12, <2>14, <2>15, AllAccounted DEF Accounts
  <1>6. QED
    BY <1>4, <1>5 DEF CancelPending

-----------------------------------------------------------------------------
(* The accounts.                                                           *)

LEMMA OperationStepAccounts ==
    ASSUME IInv, Pictures, Accounts, OperationStep
    PROVE  Accounts'
  BY StartedAccounts, FinishAccounts, PlainAccounts, SnapshotFailsAccounts, PrepareAccounts,
     RefreshAccounts, EditAccounts, SendAccounts, PersistPublicationAccounts, CleanupAccounts,
     CleanMessageAccounts, CloseAccounts, FinishRunAccounts, DeleteScheduleEntryAccounts,
     CancelPendingAccounts, RepostAccounts
     DEF OperationStep

LEMMA NextAccounts ==
    ASSUME IInv, Pictures, Accounts, RestoreFits, ~SettingsReturn, [Next]_vars
    PROVE  Accounts'
  <1>1. CASE OperationStep
    BY <1>1, OperationStepAccounts
  <1>2. CASE Calls
    BY <1>2, AcquireAccountsAny, SetLegacyAccounts, MutateAccounts, BesideAccounts DEF Calls, Beside
  <1>3. CASE World
    BY <1>3, GhostLandsAccounts, PersonDeletesAccounts, BesideAccounts DEF World, Beside
  <1>4. CASE \E kind \in {"close", "delete"} : AcquireClose(kind)
    BY <1>4, AcquireAccountsAny
  <1>5. CASE WorkerDrops \/ WorkerStarts
    BY <1>5, WorkerStartsAccounts, BesideAccounts DEF Beside
  <1>6. CASE UNCHANGED vars
    BY <1>6, BesideAccounts DEF Beside
  <1>7. QED
    BY <1>1, <1>2, <1>3, <1>4, <1>5, <1>6 DEF Next

(* Only CancelPending leaves a new cancellation in doubt.                  *)
LEMMA CancellationMoves ==
    ASSUME IInv, OperationStep
    PROVE  \/ mem'.cancellation \in {mem.cancellation, NoSnap}
           \/ At("cancel") /\ Cancellable
  <1>1. TypeOK /\ mem \in Memory
    BY DEF IInv, TypeOK
  <1>2. mem' \in {mem, Synced, Doubtful, Settled} => mem'.cancellation \in {mem.cancellation, NoSnap}
    BY <1>1, MarksRead, Remembering DEF KeepsDoubts
  <1>3. CASE Started \/ Finish \/ FinishRun \/ Prepare
    BY <1>1, <1>2, <1>3 DEF Started, Finish, FinishRun, Prepare, Synced, Memory
  <1>4. CASE Cleanup \/ Close \/ \E m \in Messages : CleanMessage(m)
    <2>1. \/ mem' \in {mem, Settled}
          \/ mem' = [Synced EXCEPT !.closing = FALSE]
          \/ \E c : mem' = [Synced EXCEPT !.cleanup = c]
          \/ \E c : mem' = [mem EXCEPT !.cleanup = c]
      BY <1>1, <1>4 DEF Cleanup, Close, CleanMessage, Memory
    <2>2. ASSUME NEW c, mem' = [Synced EXCEPT !.cleanup = c] \/ mem' = [mem EXCEPT !.cleanup = c]
          PROVE  mem'.cancellation = mem.cancellation
      BY <1>1, <2>2 DEF Synced, Memory
    <2>3. CASE mem' = [Synced EXCEPT !.closing = FALSE]
      BY <1>1, <2>3 DEF Synced, Memory
    <2>4. QED
      BY <1>2, <2>1, <2>2, <2>3
  <1>5. CASE PersistPublication
    <2>1. mem' = Persisted \/ mem' \in ReconcileWrites(Unpersisted)
      BY <1>5 DEF PersistPublication
    <2>2. /\ Unpersisted \in Memory /\ Unpersisted.cancellation = mem.cancellation
          /\ Persisted.cancellation = mem.cancellation
      <3>1. op.sent \in Message0 /\ op.ref \in Message0
        BY <1>1, TypesOfParts
      <3>2. QED
        BY <1>1, <3>1 DEF Unpersisted, Persisted, Memory, Publication
    <2>3. row' \in Row
      BY <1>5, PersistPublicationStep DEF IInv, TypeOK
    <2>4. QED
      BY <2>1, <2>2, <2>3, ReconcilingSettles
  <1>6. CASE CancelPending
    BY <1>2, <1>6 DEF CancelPending
  <1>7. CASE \/ ReadFails \/ SnapshotFails \/ PrepareRefused \/ Notify \/ LegacyMessageDate
             \/ Refresh \/ Render \/ Edit \/ Recheck \/ Send \/ DeleteScheduleEntry \/ Repost
    BY <1>2, <1>7 DEF ReadFails, SnapshotFails, PrepareRefused, Notify, LegacyMessageDate, Refresh,
       Render, Edit, Recheck, Send, DeleteScheduleEntry, Repost
  <1>8. QED
    BY <1>3, <1>4, <1>5, <1>6, <1>7 DEF OperationStep

(* The lane holder begins no restoration of its own.                       *)
LEMMA RestoringMoves == ASSUME IInv, OperationStep, Restoring' PROVE Restoring
  <1>1. TypeOK /\ op \in Operation
    BY DEF IInv, TypeOK
  <1>2. op'.kind \in {op.kind, "none"}
    <2>1. \A place \in Places, result \in {"ok", "error", "norows"} :
             Ended(place, result).kind = op.kind
      BY <1>1, ConstantsTyped DEF Ended, NoOp, Operation
    <2>7. CASE Started \/ Cleanup
      <3>1. PICK place, left :
               op' = [op EXCEPT !.at = place] \/ op' = [op EXCEPT !.at = place, !.todo = left]
        BY <2>7 DEF Started, Cleanup, Goto
      <3>2. QED
        BY <1>1, <3>1 DEF Operation
    <2>8. CASE Finish
      BY <2>8, ConstantsTyped DEF Finish, NoOp
    <2>2. CASE Edit \/ Recheck \/ Send
      <3>1. \/ \E place \in Places, result \in {"ok", "error", "norows"} : op' = Ended(place, result)
            \/ \E place : op' = [op EXCEPT !.at = place]
            \/ \E m \in Messages : op' = [op EXCEPT !.at = "persist", !.sent = m]
        BY <2>2 DEF Edit, Recheck, Send, Goto, ToCleanup, ToFinishRun, NotPublished, Return, Places
      <3>2. QED
        BY <1>1, <2>1, <3>1 DEF Operation
    <2>3. CASE \E m \in Messages : CleanMessage(m)
      <3>1. PICK place \in Places, left \in SUBSET Messages :
               \/ op' = [op EXCEPT !.at = place, !.todo = left]
               \/ op' = [op EXCEPT !.at = place, !.todo = left, !.result = "error"]
        BY <1>1, <2>3 DEF CleanMessage, Places, Operation
      <3>2. QED
        BY <1>1, <3>1 DEF Operation
    <2>4. CASE \/ ReadFails \/ SnapshotFails \/ PrepareRefused \/ Notify \/ LegacyMessageDate
               \/ Prepare \/ FinishRun \/ DeleteScheduleEntry \/ CancelPending
               \/ PersistPublication
      BY <1>1, <2>1, <2>4 DEF ReadFails, SnapshotFails, PrepareRefused, Notify, LegacyMessageDate,
         Prepare, FinishRun, DeleteScheduleEntry, CancelPending, PersistPublication, AfterPersist,
         NotPublished, Closed, Goto, ToCleanup, ToFinishRun, Return, Operation, Places
    <2>5. CASE Refresh \/ Render \/ Close \/ Repost
      <3>1. \/ \E place \in Places, result \in {"ok", "error", "norows"} : op' = Ended(place, result)
            \/ \E place : op' = [op EXCEPT !.at = place]
            \/ \E place, s : op' = [op EXCEPT !.at = place, !.snap = s]
        BY <2>5 DEF Refresh, Render, Close, Repost, Closed, Goto, ToCleanup, ToFinishRun, Return, Places
      <3>2. QED
        BY <1>1, <2>1, <3>1 DEF Operation
    <2>6. QED
      BY <2>2, <2>3, <2>4, <2>5, <2>7, <2>8 DEF OperationStep
  <1>3. ghost'.kind = "bounds" => ghost.kind = "bounds"
    <2>1. CASE \/ Prepare \/ FinishRun \/ DeleteScheduleEntry \/ CancelPending \/ PersistPublication
      BY <2>1 DEF Prepare, FinishRun, DeleteScheduleEntry, CancelPending, PersistPublication,
         WriteApplies, WriteFails, DoubtfulWrite, db
    <2>2. CASE ghost' = ghost
      BY <2>2
    <2>3. QED
      BY <2>1, <2>2 DEF OperationStep, Started, Finish, ReadFails, SnapshotFails, PrepareRefused,
         Notify, LegacyMessageDate, Refresh, Render, Edit, Recheck, Send, Cleanup, CleanMessage,
         Close, Repost, db
  <1>4. callers' = callers \/ op.kind = "legacyDate"
    BY DEF OperationStep, Started, Finish, ReadFails, SnapshotFails, PrepareRefused, Prepare, Notify,
       LegacyMessageDate, Refresh, Render, Edit, Recheck, Send, PersistPublication, Cleanup,
       CleanMessage, Close, FinishRun, DeleteScheduleEntry, CancelPending, Repost, Aside,
       IInv, LaneMarks
  <1>5. QED
    BY <1>2, <1>3, <1>4 DEF Restoring

LEMMA NextRestoring == ASSUME IInv, Accounts, RestoreFits, [Next]_vars PROVE RestoreFits'
  <1>1. TypeOK
    BY DEF IInv
  <1>2. CASE OperationStep
    <2>1. SUFFICES ASSUME Restoring' PROVE mem'.cancellation = NoSnap
      BY DEF RestoreFits
    <2>2. Restoring /\ mem.cancellation = NoSnap
      BY <1>2, <2>1, RestoringMoves DEF RestoreFits
    <2>3. ~(At("cancel") /\ Cancellable)
      BY <2>2 DEF Restoring, IInv, LaneMarks, CloseIsMeant, LateWrites, SchedulerKinds, Cancellable
    <2>4. QED
      BY <1>2, <2>2, <2>3, CancellationMoves
  <1>3. CASE Beside
    <2>1. UNCHANGED <<ghost, op, mem.cancellation>>
      BY <1>3, BesideKeeps DEF KeepsDoubts
    <2>2. "restore" \in callers' => "restore" \in callers
      BY <1>3 DEF Beside, WorkerDrops, CloseIntent, DeleteIntent, ReadBack, Changed, Tick,
         RestoreEnds, GiveUp, vars
    <2>3. QED
      BY <2>1, <2>2 DEF RestoreFits, Restoring
  <1>4. ASSUME NEW kind \in Kinds, NEW r \in Run0, NEW m \in Message0, Acquire(kind, r, m),
               callers' \subseteq callers, kind = "legacyDate" => row.run = NoRun /\ row.mes # NoMessage
        PROVE  RestoreFits'
    <2>1. UNCHANGED <<ghost, mem>> /\ op'.kind = kind
      BY <1>4, ConstantsTyped DEF Acquire, NoOp, Operation, db
    <2>2. row.run = NoRun /\ row.mes # NoMessage => mem.cancellation = NoSnap
      BY DEF Accounts, CancellationFits
    <2>3. QED
      BY <1>4, <2>1, <2>2 DEF RestoreFits, Restoring
  <1>5. CASE \/ \E r \in Runs : AcquirePrepare(r) \/ AcquireCancel(r)
             \/ AcquireNotify \/ AcquireLegacyDate \/ AcquireRefresh
             \/ \E m \in Message0 : AcquireRepost(m)
             \/ \E kind \in {"close", "delete"} : AcquireClose(kind)
    <2>1. PICK kind \in Kinds, r \in Run0, m \in Message0 :
             /\ Acquire(kind, r, m) /\ callers' \subseteq callers
             /\ kind = "legacyDate" => row.run = NoRun /\ row.mes # NoMessage
      BY <1>5 DEF AcquirePrepare, AcquireCancel, AcquireNotify, AcquireLegacyDate, AcquireRefresh,
         AcquireRepost, AcquireClose, Kinds
    <2>2. QED
      BY <1>4, <2>1
  <1>6. CASE WorkerStarts
    <2>1. UNCHANGED <<ghost, mem, callers>> /\ op'.kind = "update"
      BY <1>6, ConstantsTyped DEF WorkerStarts, NoOp, Operation, db
    <2>2. QED
      BY <2>1 DEF RestoreFits, Restoring
  <1>7. CASE \E m \in Messages : Mutate(m)
    <2>1. UNCHANGED <<op, callers>> /\ (ghost'.kind = "bounds" => ghost.kind = "bounds")
      BY <1>7 DEF Mutate, WriteApplies, WriteFails, db
    <2>2. mem'.cancellation = mem.cancellation
      BY <1>1, <1>7, MarksRead DEF Mutate, KeepsDoubts
    <2>3. QED
      BY <2>1, <2>2 DEF RestoreFits, Restoring
  <1>8. CASE \E r \in Runs : SetLegacyQueueRunBounds(r)
    BY <1>8 DEF SetLegacyQueueRunBounds, RestoreFits, Restoring
  <1>9. CASE GhostLands \/ \E m \in Messages : PersonDeletes(m)
    BY <1>9 DEF GhostLands, PersonDeletes, RestoreFits, Restoring, NoGhost, db
  <1>10. QED
    BY <1>2, <1>3, <1>5, <1>6, <1>7, <1>8, <1>9 DEF Next, Calls, World, Beside

LEMMA InitRestoring == ASSUME Init PROVE RestoreFits
  BY DEF Init, RestoreFits, FreshMemory

LEMMA InitAccounts == ASSUME Init PROVE Accounts
  <1>1. PICK start \in Starts, r \in Runs :
           /\ row = StartRow(start, r)
           /\ msgs = [m \in Messages |->
                 [show |-> IF start = "legacy" /\ m = 1 THEN "live" ELSE "unsent",
                  run |-> NoRun, rev |-> 0]]
    BY DEF Init
  <1>2. mem = FreshMemory
    BY DEF Init
  <1>3. \A m \in Messages : msgs[m].show = "live" => m = row.mes
    BY <1>1 DEF StartRow
  <1>4. CancellationFits(mem, row) /\ NotBegunAgain
    BY <1>2 DEF FreshMemory, CancellationFits, NotBegunAgain
  <1>5. NoOrphan
    BY <1>3 DEF NoOrphan
  <1>6. QED
    BY <1>4, <1>5 DEF Accounts

(* Every message that takes button presses is the current one, or the one  *)
(* about to be stored, or is remembered to be cleaned or settled.  The     *)
(* hypothesis is needed: the run QueueServiceSettingsReturn shows a        *)
(* message that is lost when a run is prepared again while its             *)
(* cancellation is in doubt.                                               *)
THEOREM NoOrphanHolds == ASSUME ~SettingsReturn PROVE Spec => []NoOrphan
  <1>1. Init => Accounts /\ RestoreFits
    BY InitAccounts, InitRestoring
  <1>2. IInv /\ Pictures /\ Accounts /\ RestoreFits /\ [Next]_vars => (Accounts /\ RestoreFits)'
    BY NextAccounts, NextRestoring
  <1>3. Accounts => NoOrphan
    BY DEF Accounts
  <1>4. QED
    BY <1>1, <1>2, <1>3, PicturesInvariant, PTL DEF Spec

=============================================================================
