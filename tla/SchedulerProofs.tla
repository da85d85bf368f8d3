--------------------------- MODULE SchedulerProofs ---------------------------
(***************************************************************************)
(* Proofs about Scheduler: for any runs, calendars, calls of handlers and  *)
(* failures, at most one worker of a schedule is alive, so the calls of    *)
(* the queue service never overlap, and a run is not cancelled under the   *)
(* hands of its worker; a run in the database has somebody to look after   *)
(* it; its notices are sent once; and no run of an old calendar is left    *)
(* when new settings are said to be applied.                               *)
(***************************************************************************)
EXTENDS Scheduler, WellFoundedInduction, TLAPS

-----------------------------------------------------------------------------
(* The types, in the parts that steps disturb.                             *)
Rows == Row \cup {NoRow}
TypeOfDb == row \in Rows /\ ghost \in SUBSET Rows
TypeOfWorkers == worker \in [Workers -> Thread] /\ \A w \in Workers : KeyIsSeen(w)
TypeOfCalls == /\ call \in [Callers -> Call]
               /\ mapped \in Workers \cup {NoWorker} /\ holder \in Callers \cup {NoCaller}
TypeOfNotices == sent \in [Notices -> Nat] /\ forgot \in [Notices -> Nat]
TypeOfWorld ==
    /\ existed \in BOOLEAN /\ closing \in BOOLEAN /\ week \in Weeks
    /\ phase \in {"down", "up", "stopping"}
    /\ clock \in 0..Horizon /\ troubles \in 0..MaxTroubles
    /\ applied \in BOOLEAN /\ stranded \in BOOLEAN /\ TypeOfNotices
Types == TypeOfDb /\ TypeOfWorkers /\ TypeOfCalls /\ TypeOfWorld

(* The calls that hold lifecycleMu; those that have stopped the worker and *)
(* not started another.                                                    *)
Holding == {"replace", "stop", "await", "check", "sync", "cancel", "refetch"}
Without == {"await", "sync", "cancel", "refetch"}
Locked == \A c \in Callers : call[c].pc \in Holding <=> holder = c

(* A goroutine that is not gone is the worker of the schedule or the one   *)
(* that stopWorker waits for.                                              *)
Alone ==
    /\ \A w \in Workers : worker[w].pc # "gone" =>
          w = mapped \/ \E c \in Callers : call[c].pc = "await" /\ call[c].awaited = w
    /\ \A c \in Callers : call[c].pc \in Without => mapped = NoWorker
    /\ phase = "down" => /\ \A w \in Workers : worker[w].pc = "gone"
                         /\ mapped = NoWorker /\ holder = NoCaller

AloneInv == Types /\ Locked /\ Alone

LEMMA TypesAre == TypeOK <=> Types
  BY DEF TypeOK, Types, TypeOfDb, TypeOfWorkers, TypeOfCalls, TypeOfWorld, TypeOfNotices, Rows

-----------------------------------------------------------------------------
(* Rows.                                                                   *)

LEMMA RowIs ==
    /\ \A r : r \in Rows <=>
          \/ r = NoRow
          \/ /\ r \in Row /\ r # NoRow /\ r.plan \in Plans
    /\ NoRow \in [plan : {NoPlan}, temp : BOOLEAN, run : Runs \cup {NoRun}, posted : BOOLEAN,
                  notified : SUBSET Marks]
  BY SchedulerAssumption DEF Rows, Row, NoRow

LEMMA RowsAre == ASSUME Types
                 PROVE  /\ Ended \in Rows /\ Posted \in Rows /\ Restored \in Rows
                        /\ \A m \in Marks : Marked(m) \in Rows
                        /\ \A r \in Runs \cup {NoRun} : Exists(row) => Begun(r) \in Rows /\ Prepared(r) \in Rows
  <1>1. row \in Rows /\ (row = NoRow \/ (row \in Row /\ row # NoRow))
    BY RowIs DEF Types, TypeOfDb
  <1>2. NoRow.run = NoRun /\ NoRow.temp = FALSE /\ NoRow.posted = FALSE /\ NoRow.notified = {}
    BY DEF NoRow
  <1>3. CASE row \in Row
    <2>1. LegacyRun \in Runs
      BY SchedulerAssumption
    <2>2. [row EXCEPT !.run = NoRun, !.posted = FALSE, !.notified = {}] \in Row
      BY <1>3 DEF Row
    <2>3. [row EXCEPT !.posted = TRUE] \in Row /\ [row EXCEPT !.run = LegacyRun] \in Row
      BY <1>3, <2>1 DEF Row
    <2>4. \A m \in Marks : [row EXCEPT !.notified = @ \cup {m}] \in Row
      BY <1>3 DEF Row
    <2>5. \A r \in Runs \cup {NoRun} : Begun(r) \in Row
      BY <1>3 DEF Row, Begun
    <2> QED BY <1>1, <1>3, <2>2, <2>3, <2>4, <2>5
            DEF Ended, Posted, Restored, Marked, Prepared, Rows
  <1>4. CASE row = NoRow
    <2>1. [row EXCEPT !.run = NoRun, !.posted = FALSE, !.notified = {}] = NoRow
      <3> DEFINE one == [plan : {NoPlan}, temp : {FALSE}, run : {NoRun}, posted : {FALSE},
                         notified : {{}}]
      <3>1. [row EXCEPT !.run = NoRun, !.posted = FALSE, !.notified = {}] \in one
        BY <1>4 DEF NoRow
      <3>2. NoRow \in one
        BY DEF NoRow
      <3> QED BY <3>1, <3>2
    <2>2. Ended = NoRow /\ Posted = NoRow /\ Restored = NoRow /\ \A m \in Marks : Marked(m) = NoRow
      BY <1>2, <1>4, <2>1 DEF Ended, Posted, Restored, Marked, Exists
    <2> QED BY <1>4, <2>2 DEF Rows, Exists
  <1> QED BY <1>1, <1>3, <1>4

(* What is written, and what is lost, are rows.                            *)
LEMMA DbIs == ASSUME Types, NEW s \in Rows, Stored(s) \/ Write(s) \/ Lose(s)
              PROVE  TypeOfDb'
  BY DEF Types, TypeOfDb, Stored, Write, Lose

LEMMA TroublesAre == ASSUME Types, Trouble \/ UNCHANGED troubles PROVE troubles' \in 0..MaxTroubles
  BY SchedulerAssumption DEF Types, TypeOfWorld, Trouble

LEMMA FaultsAre == ASSUME Types, NEW free, Fault(free) PROVE troubles' \in 0..MaxTroubles
  BY TroublesAre DEF Fault

(* The first of some runs is one of them.                                  *)
LEMMA NextRunIs == ASSUME Types, NEW p \in Plans, NEW now PROVE NextRun(p, now) \in Runs \cup {NoRun}
  <1> DEFINE coming == {r \in Calendar[p][week] : now < ClosesAt[r]}
  <1>1. coming \subseteq Runs
    BY SchedulerAssumption DEF Types, TypeOfWorld
  <1>2. CASE coming # {}
    <2> DEFINE times == {OpensAt[r] : r \in coming}
           less == {ss \in Nat \X Nat : ss[1] < ss[2]}
    <2>1. times \subseteq Nat /\ times # {}
      BY <1>1, <1>2, SchedulerAssumption
    <2>2. IsWellFoundedOn(less, Nat)
      BY NatLessThanWellFounded DEF OpToRel
    <2>3. \E n \in times : \A m \in times : ~(<<m, n>> \in less)
      <3> HIDE DEF times, less
      <3> QED BY <2>1, <2>2, WFMin
    <2>4. \E n \in times : \A m \in times : n <= m
      <3> HIDE DEF times
      <3>1. \A m, n \in Nat : ~(<<m, n>> \in less) => n <= m
        OBVIOUS
      <3> HIDE DEF less
      <3> QED BY <2>1, <2>3, <3>1
    <2>6. \E first \in coming : \A q \in coming : OpensAt[first] <= OpensAt[q]
      BY <2>4
    <2>7. NextRun(p, now) \in coming
      BY <1>2, <2>6 DEF NextRun
    <2> QED BY <1>1, <2>7
  <1>3. CASE coming = {}
    BY <1>3 DEF NextRun
  <1> QED BY <1>2, <1>3

-----------------------------------------------------------------------------
(* What a worker makes of its variables.                                   *)

Duties == {"noticing", "marking", "refreshing"}
ThreadOK(t) == /\ t \in Thread
               /\ t.pc \in Duties => t.seen.run # NoRun /\ t.key = t.seen.run
(* Only the worker w changes.                                              *)
Moves(w) == TypeOfWorkers' /\ \A v \in Workers : v # w => worker'[v] = worker[v]

LEMMA ThreadIs == ASSUME Types, NEW w \in Workers
                  PROVE  /\ ThreadOK(worker[w]) /\ worker[w] \in Thread
                         /\ worker[w].seen \in Rows /\ worker[w].pc \in Threads
                         /\ worker[w].now \in Nat /\ worker[w].target \in Runs \cup {NoRun}
                         /\ worker[w].mark \in Marks /\ worker[w].key \in Runs \cup {NoRun}
                         /\ worker[w].delivered \in SUBSET Marks /\ worker[w].active \in BOOLEAN
  BY SchedulerAssumption DEF Types, TypeOfWorkers, KeyIsSeen, ThreadOK, Thread, Duties, Rows

LEMMA MovesIs == ASSUME Types, NEW w \in Workers, NEW t, ThreadOK(t), worker' = [worker EXCEPT ![w] = t]
                 PROVE  Moves(w) /\ worker'[w] = t
  BY DEF Types, TypeOfWorkers, Moves, ThreadOK, KeyIsSeen, Duties

LEMMA RoundIs == /\ NoRow \in Rows /\ 0 \in 0..Horizon /\ "five" \in Marks /\ FALSE \in BOOLEAN
                 /\ NoRun \in Runs \cup {NoRun}
  BY SchedulerAssumption DEF Rows, Marks

(* A new round, at the top of the loop or out of it.                       *)
LEMMA FreshIs ==
    ASSUME Types, NEW w \in Workers, NEW pc \in {"waiting", "leaving"}
    PROVE  /\ ThreadOK(([pc |-> pc] ++ Round) ++ worker[w])
           /\ \A until \in Nat :
                 /\ ThreadOK(([pc |-> pc, until |-> until] ++ Round) ++ worker[w])
                 /\ \A b \in BOOLEAN :
                       ThreadOK(([pc |-> pc, until |-> until, sync |-> b] ++ Round) ++ worker[w])
                 /\ \A b, a \in BOOLEAN :
                       ThreadOK(([pc |-> pc, until |-> until, sync |-> b, active |-> a] ++ Round) ++ worker[w])
  <1>1. worker[w] \in Thread /\ pc \in Threads /\ pc \notin Duties
    BY DEF Types, TypeOfWorkers, Threads, Duties
  <1>2. ThreadOK(([pc |-> pc] ++ Round) ++ worker[w])
    BY <1>1, RoundIs DEF ThreadOK, ++, Round, Thread, Rows
  <1>3. ASSUME NEW until \in Nat
        PROVE  ThreadOK(([pc |-> pc, until |-> until] ++ Round) ++ worker[w])
    BY <1>1, RoundIs DEF ThreadOK, ++, Round, Thread, Rows
  <1>4. ASSUME NEW until \in Nat, NEW b \in BOOLEAN
        PROVE  ThreadOK(([pc |-> pc, until |-> until, sync |-> b] ++ Round) ++ worker[w])
    BY <1>1, RoundIs DEF ThreadOK, ++, Round, Thread, Rows
  <1>5. ASSUME NEW until \in Nat, NEW b \in BOOLEAN, NEW a \in BOOLEAN
        PROVE  ThreadOK(([pc |-> pc, until |-> until, sync |-> b, active |-> a] ++ Round) ++ worker[w])
    BY <1>1, RoundIs DEF ThreadOK, ++, Round, Thread, Rows
  <1> QED BY <1>2, <1>3, <1>4, <1>5

LEMMA RestsIs == ASSUME Types, NEW w \in Workers, NEW until \in Nat, Rests(w, until) PROVE Moves(w)
  BY FreshIs, MovesIs DEF Rests, Set

LEMMA LeavesIs == ASSUME Types, NEW w \in Workers, Leaves(w) PROVE Moves(w)
  BY FreshIs, MovesIs DEF Leaves, Set

LEMMA RetriesIs == ASSUME Types, NEW w \in Workers, Retries(w) PROVE Moves(w)
  BY FreshIs, MovesIs DEF Retries, Set

LEMMA UnpreparedIs == ASSUME Types, NEW w \in Workers, Unprepared(w) PROVE Moves(w)
  <1>1. IfMapped(w, FALSE) \in BOOLEAN
    BY ThreadIs DEF IfMapped
  <1> QED BY <1>1, FreshIs, MovesIs DEF Unprepared, Set

LEMMA PlannedIs == ASSUME Types, NEW w \in Workers, NEW s \in Rows, Exists(s), Planned(w, s)
                   PROVE  Moves(w)
  <1> DEFINE next == NextRun(s.plan, clock)
             free == [active |-> IfMapped(w, FALSE), sync |-> FALSE, seen |-> s, now |-> clock]
  <1>1. /\ worker[w] \in Thread /\ IfMapped(w, FALSE) \in BOOLEAN /\ clock \in 0..Horizon
        /\ Horizon \in Nat
    BY ThreadIs, SchedulerAssumption DEF IfMapped, Types, TypeOfWorld
  <1>2. next \in Runs \cup {NoRun}
    <2>1. s.plan \in Plans
      BY RowIs DEF Exists
    <2> QED BY <2>1, NextRunIs
  <1> HIDE DEF next
  <1>3. ASSUME NEW until \in Nat,
               Set(w, [pc |-> "waiting", until |-> until] ++ Round ++ free)
        PROVE  Moves(w)
    <2> DEFINE t == (([pc |-> "waiting", until |-> until] ++ Round) ++ free) ++ worker[w]
    <2>1. ThreadOK(t)
      BY <1>1, RoundIs DEF ThreadOK, ++, Round, Thread, Rows, Threads, Duties
    <2> QED BY <1>3, <2>1, MovesIs DEF Set
  <1>4. ASSUME next # NoRun, Set(w, [pc |-> "claiming", target |-> next] ++ free)
        PROVE  Moves(w)
    <2> DEFINE t == ([pc |-> "claiming", target |-> next] ++ free) ++ worker[w]
    <2>1. ThreadOK(t)
      BY <1>1, <1>2, RoundIs DEF ThreadOK, ++, Thread, Rows, Threads, Duties
    <2> QED BY <1>4, <2>1, MovesIs DEF Set
  <1>5. Horizon + 1 \in Nat
    BY <1>1
  <1>6. next # NoRun /\ clock < FiveMinutesBefore(next) => FiveMinutesBefore(next) \in Nat
    BY <1>1, <1>2, SchedulerAssumption DEF FiveMinutesBefore
  <1> QED BY <1>3, <1>4, <1>5, <1>6, LeavesIs DEF Planned, next

(* processActive, for the variables me of a worker.                        *)
LEMMA DutyIs ==
    ASSUME Types, NEW w \in Workers, NEW me, me \in Thread, me.seen.run # NoRun, me.key = me.seen.run,
           NEW done
    PROVE  ThreadOK(DutyAfter(me, done) ++ me)
  <1>1. ASSUME NEW m \in Marks, NEW pc \in Duties
        PROVE  ThreadOK([pc |-> pc, mark |-> m] ++ me)
    BY DEF ThreadOK, ++, Thread, Threads, Duties
  <1>2. ThreadOK([pc |-> "refreshing"] ++ me)
    BY DEF ThreadOK, ++, Thread, Threads, Duties
  <1>3. ThreadOK(([pc |-> "waiting", until |-> 0, sync |-> me.failed] ++ Round) ++ me)
    BY RoundIs DEF ThreadOK, ++, Thread, Threads, Duties, Round, Rows
  <1>4. {"five", "one", "open"} \subseteq Marks /\ {"noticing", "marking"} \subseteq Duties
    BY DEF Marks, Duties
  <1> QED BY <1>1, <1>2, <1>3, <1>4 DEF DutyAfter

LEMMA ProceedsIs ==
    ASSUME Types, NEW w \in Workers, NEW fields, NEW done, Proceeds(w, fields, done),
           LET me == fields ++ worker[w]
           IN  me \in Thread /\ me.seen.run # NoRun /\ me.key = me.seen.run
    PROVE  Moves(w)
  <1> DEFINE me == fields ++ worker[w]
  <1>1. worker' = [worker EXCEPT ![w] = DutyAfter(me, done) ++ me]
    BY DEF Proceeds
  <1>2. ThreadOK(DutyAfter(me, done) ++ me)
    BY DutyIs
  <1> HIDE DEF me
  <1> QED BY <1>1, <1>2, MovesIs

-----------------------------------------------------------------------------
(* The steps of a worker.                                                  *)

LEMMA CallIs == ASSUME Types, NEW c \in Callers
                PROVE  /\ call[c] \in Call /\ call[c].pc \in Steps /\ call[c].ok \in BOOLEAN
                       /\ call[c].sch \in Rows /\ call[c].sure \in BOOLEAN
                       /\ call[c].run \in Runs \cup {NoRun}
  BY DEF Types, TypeOfCalls, Call, Rows

LEMMA UnsureIs == ASSUME Types
                  PROVE  /\ Unsure \in [Callers -> Call]
                         /\ \A d \in Callers : /\ Unsure[d].pc = call[d].pc
                                               /\ Unsure[d].awaited = call[d].awaited
  <1>1. ASSUME NEW d \in Callers
        PROVE  /\ [call[d] EXCEPT !.sure = call[d] = Idle] \in Call
               /\ [call[d] EXCEPT !.sure = call[d] = Idle].pc = call[d].pc
               /\ [call[d] EXCEPT !.sure = call[d] = Idle].awaited = call[d].awaited
    <2>1. call[d] \in Call /\ (call[d] = Idle) \in BOOLEAN
      BY CallIs
    <2> QED BY <2>1 DEF Call
  <1> QED BY <1>1 DEF Unsure

LEMMA UnsureSame == ASSUME Types, NEW d \in Callers
                    PROVE  /\ Unsure[d].pc = call[d].pc /\ Unsure[d].of = call[d].of
                           /\ Unsure[d].then = call[d].then /\ Unsure[d].sch = call[d].sch
  <1>1. call[d] \in Call /\ (call[d] = Idle) \in BOOLEAN
    BY CallIs
  <1>2. LET k == [call[d] EXCEPT !.sure = call[d] = Idle]
        IN  k.pc = call[d].pc /\ k.of = call[d].of /\ k.then = call[d].then /\ k.sch = call[d].sch
    BY <1>1 DEF Call
  <1> QED BY <1>2 DEF Unsure

(* A step of worker w: the map and what the calls wait for stay.           *)
LEMMA ShakenWorkerInv ==
    ASSUME AloneInv, NEW w \in Workers, worker[w].pc # "gone", phase # "down", Moves(w),
           UNCHANGED <<holder, mapped, week, phase, clock, existed, stranded>>,
           call' \in [Callers -> Call],
           \A d \in Callers : call'[d].pc = call[d].pc /\ call'[d].awaited = call[d].awaited,
           TypeOfDb', closing' \in BOOLEAN, troubles' \in 0..MaxTroubles, applied' \in BOOLEAN, TypeOfNotices'
    PROVE  AloneInv'
  <1>1. Types'
    BY DEF AloneInv, Types, TypeOfCalls, TypeOfWorld, Moves
  <1>2. Locked'
    BY DEF AloneInv, Locked
  <1>3. Alone'
    BY DEF AloneInv, Alone, Moves
  <1> QED BY <1>1, <1>2, <1>3 DEF AloneInv

(* The calls stay.                                                         *)
LEMMA WorkerInv ==
    ASSUME AloneInv, NEW w \in Workers, worker[w].pc # "gone", phase # "down", Moves(w),
           UNCHANGED <<lifecycle, week, phase, clock, existed, stranded>>,
           TypeOfDb', closing' \in BOOLEAN, troubles' \in 0..MaxTroubles, applied' \in BOOLEAN, TypeOfNotices'
    PROVE  AloneInv'
  <1>1. call' \in [Callers -> Call] /\ UNCHANGED <<call, holder, mapped>>
    BY DEF AloneInv, Types, TypeOfCalls, lifecycle
  <1> QED BY <1>1, ShakenWorkerInv

LEMMA SameDb == ASSUME Types, UNCHANGED <<row, ghost>> PROVE TypeOfDb'
  BY DEF Types, TypeOfDb

LEMMA SameWorld == ASSUME Types
                   PROVE  /\ UNCHANGED closing => closing' \in BOOLEAN
                          /\ UNCHANGED troubles => troubles' \in 0..MaxTroubles
                          /\ UNCHANGED applied => applied' \in BOOLEAN
                          /\ UNCHANGED notices => TypeOfNotices'
                          /\ Recount => TypeOfNotices'
                          /\ \A ws : Forgets(ws) /\ UNCHANGED sent => TypeOfNotices'
  BY DEF Types, TypeOfWorld, TypeOfNotices, notices, Recount, Never, Forgets

LEMMA RowCases == ASSUME Types PROVE row \in Rows /\ (Exists(row) => row.plan \in Plans /\ row \in Row)
  BY RowIs DEF Types, TypeOfDb, Exists

LEMMA ReadInv == ASSUME AloneInv, NEW w \in Workers, Read(w) PROVE AloneInv'
  <1>1. Types /\ worker[w].pc # "gone" /\ phase # "down"
    BY DEF AloneInv, Read, At
  <1>2. troubles' \in 0..MaxTroubles
    BY <1>1, TroublesAre DEF Read
  <1>3. ASSUME Set(w, [pc |-> "claiming", seen |-> row, now |-> clock, sync |-> FALSE])
        PROVE  Moves(w)
    <2>1. worker[w] \in Thread /\ row \in Rows /\ clock \in 0..Horizon
      BY <1>1, ThreadIs, RowCases DEF Types, TypeOfWorld
    <2>2. ThreadOK([pc |-> "claiming", seen |-> row, now |-> clock, sync |-> FALSE] ++ worker[w])
      BY <2>1 DEF ThreadOK, ++, Thread, Rows, Threads, Duties
    <2> QED BY <1>1, <1>3, <2>2, MovesIs DEF Set
  <1>4. ASSUME Set(w, [pc |-> "restoring", sync |-> FALSE]) PROVE Moves(w)
    <2>1. worker[w] \in Thread
      BY <1>1, ThreadIs
    <2>2. ThreadOK([pc |-> "restoring", sync |-> FALSE] ++ worker[w])
      BY <2>1 DEF ThreadOK, ++, Thread, Threads, Duties
    <2> QED BY <1>1, <1>4, <2>2, MovesIs DEF Set
  <1>5. Moves(w)
    BY <1>1, <1>3, <1>4, RetriesIs, LeavesIs, PlannedIs, RowCases DEF Read
  <1> QED BY <1>1, <1>2, <1>5, WorkerInv, SameDb, SameWorld DEF Read, Quiet, world

LEMMA CanceledInWaitInv == ASSUME AloneInv, NEW w \in Workers, CanceledInWait(w) PROVE AloneInv'
  <1>1. Types /\ worker[w].pc # "gone" /\ phase # "down"
    BY DEF AloneInv, CanceledInWait, At
  <1> QED BY <1>1, LeavesIs, WorkerInv, SameDb, SameWorld DEF CanceledInWait, Quiet, world

LEMMA RestoreLegacyInv == ASSUME AloneInv, NEW w \in Workers, RestoreLegacy(w) PROVE AloneInv'
  <1>1. Types /\ worker[w].pc # "gone" /\ phase # "down"
    BY DEF AloneInv, RestoreLegacy, At
  <1>2. Restored \in Rows /\ Ended \in Rows
    BY <1>1, RowsAre
  <1>3. ASSUME Set(w, [pc |-> "claiming", seen |-> Restored, now |-> clock]) PROVE Moves(w)
    <2>1. worker[w] \in Thread /\ clock \in 0..Horizon
      BY <1>1, ThreadIs DEF Types, TypeOfWorld
    <2>2. ThreadOK([pc |-> "claiming", seen |-> Restored, now |-> clock] ++ worker[w])
      BY <1>2, <2>1 DEF ThreadOK, ++, Thread, Rows, Threads, Duties
    <2> QED BY <1>1, <1>3, <2>2, MovesIs DEF Set
  <1>4. ASSUME Exists(row), ~row.temp PROVE Exists(Ended)
    <2>1. [row EXCEPT !.run = NoRun, !.posted = FALSE, !.notified = {}].plan \in Plans
      BY <1>1, <1>4, RowCases DEF Row
    <2> QED BY <1>4, <2>1, SchedulerAssumption DEF Ended, Exists, NoRow
  <1>5. Moves(w) /\ TypeOfDb' /\ closing' \in BOOLEAN /\ troubles' \in 0..MaxTroubles
    <2>1. CASE Leaves(w) /\ UNCHANGED <<row, ghost, closing, troubles, applied>>
      BY <1>1, <2>1, LeavesIs, SameDb, SameWorld
    <2>6. CASE Retries(w) /\ UNCHANGED <<row, ghost, closing, troubles, applied>>
      BY <1>1, <2>6, RetriesIs, SameDb, SameWorld
    <2>2. CASE /\ UNCHANGED closing /\ Write(Restored)
               /\ Set(w, [pc |-> "claiming", seen |-> Restored, now |-> clock])
      BY <1>1, <1>2, <1>3, <2>2, DbIs, SameWorld DEF Write
    <2>3. CASE UNCHANGED closing /\ Fails(w) /\ Lose(Restored) /\ Retries(w)
      BY <1>1, <1>2, <2>3, DbIs, RetriesIs, FaultsAre, SameWorld DEF Fails
    <2>4. CASE /\ Exists(row) /\ Write(Ended) /\ closing' = FALSE
               /\ IF row.temp THEN Leaves(w) ELSE Planned(w, Ended)
      BY <1>1, <1>2, <1>4, <2>4, DbIs, LeavesIs, PlannedIs, SameWorld DEF Write
    <2>5. CASE Fails(w) /\ Lose(Ended) /\ closing' = TRUE /\ Retries(w)
      BY <1>1, <1>2, <2>5, DbIs, RetriesIs, FaultsAre, SameWorld DEF Fails
    <2> QED BY <2>1, <2>2, <2>3, <2>4, <2>5, <2>6 DEF RestoreLegacy
  <1>6. applied' \in BOOLEAN
    BY <1>1, SameWorld DEF RestoreLegacy
  <1>7. call' = call \/ call' = Unsure
    BY DEF RestoreLegacy
  <1>8. /\ call' \in [Callers -> Call]
        /\ \A d \in Callers : call'[d].pc = call[d].pc /\ call'[d].awaited = call[d].awaited
    BY <1>1, <1>7, UnsureIs DEF Types, TypeOfCalls
  <1> QED BY <1>1, <1>5, <1>6, <1>8, ShakenWorkerInv, SameWorld DEF RestoreLegacy, world

LEMMA ClaimActiveInv == ASSUME AloneInv, NEW w \in Workers, ClaimActive(w) PROVE AloneInv'
  <1> DEFINE run == worker[w].seen.run
  <1>1. /\ Types /\ worker[w].pc # "gone" /\ phase # "down" /\ worker[w] \in Thread
        /\ worker[w].seen.run \in Runs \cup {NoRun}
    BY ThreadIs, RowIs DEF AloneInv, ClaimActive, At, Row
  <1>2. ASSUME NEW pc \in {"preparing", "closing"}, Set(w, [pc |-> pc, active |-> TRUE]) PROVE Moves(w)
    <2>1. ThreadOK([pc |-> pc, active |-> TRUE] ++ worker[w])
      BY <1>1 DEF ThreadOK, ++, Thread, Threads, Duties
    <2> QED BY <1>1, <1>2, <2>1, MovesIs DEF Set
  <1>3. ASSUME run # NoRun, Proceeds(w, [active |-> TRUE] ++ NewKey(w), "nothing") PROVE Moves(w)
    <2> DEFINE f == [active |-> TRUE] ++ NewKey(w)
               me == f ++ worker[w]
    <2>1. me \in Thread /\ me.seen.run # NoRun /\ me.key = me.seen.run
      <3>1. CASE worker[w].key = run
        <4>1. NewKey(w) = <<>>
          BY <3>1 DEF NewKey
        <4>2. DOMAIN f = {"active"} /\ f["active"] = TRUE
          BY <4>1 DEF ++
        <4> HIDE DEF f
        <4>4. me \in Thread
          BY <1>1, <4>2 DEF ++, Thread
        <4>5. me.seen = worker[w].seen /\ me.key = worker[w].key
          BY <1>1, <4>2 DEF ++, Thread
        <4> QED BY <1>3, <3>1, <4>4, <4>5
      <3>2. CASE worker[w].key # run
        <4>1. NewKey(w) = [key |-> run, delivered |-> {}, reconciled |-> FALSE]
          BY <3>2 DEF NewKey
        <4>2. /\ DOMAIN f = {"active", "key", "delivered", "reconciled"} /\ f["active"] = TRUE
              /\ f["key"] = run /\ f["delivered"] = {} /\ f["reconciled"] = FALSE
          BY <4>1 DEF ++
        <4> HIDE DEF f
        <4>4. me \in Thread
          BY <1>1, <4>2 DEF ++, Thread
        <4>5. me.seen = worker[w].seen /\ me.key = run
          BY <1>1, <4>2 DEF ++, Thread
        <4> QED BY <1>3, <4>4, <4>5
      <3> QED BY <3>1, <3>2
    <2> QED BY <1>1, <1>3, <2>1, ProceedsIs
  <1>4. Moves(w)
    BY <1>1, <1>2, <1>3, LeavesIs DEF ClaimActive
  <1> QED BY <1>1, <1>4, WorkerInv, SameDb, SameWorld DEF ClaimActive, Quiet, world

LEMMA PrepareInv == ASSUME AloneInv, NEW w \in Workers, Prepare(w) PROVE AloneInv'
  <1> DEFINE r == worker[w].target
  <1>1. Types /\ worker[w].pc # "gone" /\ phase # "down" /\ r \in Runs \cup {NoRun}
    BY ThreadIs DEF AloneInv, Prepare, At
  <1>2. /\ Moves(w) /\ troubles' \in 0..MaxTroubles /\ TypeOfDb'
    <2>1. CASE CanBegin(r) /\ Write(Prepared(r)) /\ Rests(w, 0)
      BY <1>1, <2>1, RestsIs, DbIs, RowsAre, SameWorld DEF Write, CanBegin
    <2>2. CASE CanBegin(r) /\ Fails(w) /\ Lose(Prepared(r)) /\ Unprepared(w)
      BY <1>1, <2>2, UnpreparedIs, DbIs, RowsAre, FaultsAre DEF Fails, CanBegin
    <2>3. CASE Unprepared(w) /\ UNCHANGED <<row, ghost, troubles>>
      BY <1>1, <2>3, UnpreparedIs, SameDb, SameWorld
    <2> QED BY <2>1, <2>2, <2>3 DEF Prepare
  <1> QED BY <1>1, <1>2, WorkerInv, SameWorld DEF Prepare, world

LEMMA CloseInv == ASSUME AloneInv, NEW w \in Workers, Close(w) PROVE AloneInv'
  <1>1. Types /\ worker[w].pc # "gone" /\ phase # "down"
    BY DEF AloneInv, Close, At
  <1>2. Moves(w) /\ TypeOfDb' /\ closing' \in BOOLEAN /\ troubles' \in 0..MaxTroubles
    <2>1. CASE /\ Write(Ended) /\ closing' = FALSE
               /\ IF worker[w].seen.temp THEN Leaves(w) ELSE Rests(w, 0)
      BY <1>1, <2>1, RowsAre, DbIs, LeavesIs, RestsIs, SameWorld DEF Write
    <2>2. CASE Fails(w) /\ Lose(Ended) /\ closing' = TRUE /\ Retries(w)
      BY <1>1, <2>2, RowsAre, DbIs, RetriesIs, FaultsAre DEF Fails
    <2> QED BY <2>1, <2>2 DEF Close
  <1> QED BY <1>1, <1>2, WorkerInv, SameWorld DEF Close, world

(* A worker with a run goes on, with a failure or without.                 *)
LEMMA GoesOn ==
    ASSUME Types, NEW w \in Workers, worker[w].pc \in Duties, NEW done,
           \/ Proceeds(w, Failed, done)
           \/ Proceeds(w, <<>>, done)
           \/ Proceeds(w, [reconciled |-> TRUE], done)
    PROVE  Moves(w)
  <1>1. worker[w] \in Thread /\ worker[w].seen.run # NoRun /\ worker[w].key = worker[w].seen.run
    BY ThreadIs DEF ThreadOK
  <1>2. ASSUME Proceeds(w, Failed, done) PROVE Moves(w)
    <2>1. LET me == Failed ++ worker[w]
          IN  me \in Thread /\ me.seen.run # NoRun /\ me.key = me.seen.run
      BY <1>1 DEF Failed, ++, Thread
    <2> QED BY <1>2, <2>1, ProceedsIs
  <1>3. ASSUME Proceeds(w, <<>>, done) PROVE Moves(w)
    <2>1. LET me == <<>> ++ worker[w]
          IN  me \in Thread /\ me.seen.run # NoRun /\ me.key = me.seen.run
      BY <1>1 DEF ++, Thread
    <2> QED BY <1>3, <2>1, ProceedsIs
  <1>4. ASSUME Proceeds(w, [reconciled |-> TRUE], done) PROVE Moves(w)
    <2>1. LET me == [reconciled |-> TRUE] ++ worker[w]
          IN  me \in Thread /\ me.seen.run # NoRun /\ me.key = me.seen.run
      BY <1>1 DEF ++, Thread
    <2> QED BY <1>4, <2>1, ProceedsIs
  <1> QED BY <1>2, <1>3, <1>4

LEMMA ToMarkIs == ASSUME Types, NEW w \in Workers, worker[w].pc = "noticing", NEW k \in Marks, ToMark(w, k)
                  PROVE  Moves(w)
  <1>1. ThreadOK(worker[w]) /\ worker[w].pc \in Duties
    BY ThreadIs DEF Duties
  <1>2. ThreadOK([pc |-> "marking", delivered |-> worker[w].delivered \cup {k}] ++ worker[w])
    BY <1>1 DEF ThreadOK, ++, Thread, Threads, Duties
  <1> QED BY <1>2, MovesIs DEF ToMark, Set

LEMMA NotifyInv == ASSUME AloneInv, NEW w \in Workers, Notify(w) PROVE AloneInv'
  <1>1. /\ Types /\ worker[w].pc = "noticing" /\ worker[w].pc \in Duties /\ phase # "down"
        /\ worker[w].mark \in Marks
    BY ThreadIs DEF AloneInv, Notify, At, Duties
  <1>2. Moves(w) /\ troubles' \in 0..MaxTroubles
    BY <1>1, ToMarkIs, GoesOn, FaultsAre, SameWorld DEF Notify, Fails
  <1>3. TypeOfNotices'
    <2>1. sent \in [Notices -> Nat] /\ forgot \in [Notices -> Nat]
      BY <1>1 DEF Types, TypeOfWorld, TypeOfNotices
    <2> QED BY <2>1 DEF Notify, TypeOfNotices
  <1> QED BY <1>1, <1>2, <1>3, WorkerInv, SameDb, SameWorld DEF Notify, world

LEMMA TooLateInv == ASSUME AloneInv, NEW w \in Workers, TooLate(w) PROVE AloneInv'
  <1>1. Types /\ worker[w].pc = "noticing" /\ phase # "down" /\ worker[w].mark \in Marks
    BY ThreadIs DEF AloneInv, TooLate, At
  <1> QED BY <1>1, ToMarkIs, WorkerInv, SameDb, SameWorld DEF TooLate, Quiet, world

LEMMA MarkInv == ASSUME AloneInv, NEW w \in Workers, Mark(w) PROVE AloneInv'
  <1>1. /\ Types /\ worker[w].pc = "marking" /\ worker[w].pc \in Duties /\ phase # "down"
        /\ Marked(worker[w].mark) \in Rows
    BY ThreadIs, RowsAre DEF AloneInv, Mark, At, Duties
  <1>2. Moves(w) /\ troubles' \in 0..MaxTroubles /\ TypeOfDb'
    BY <1>1, GoesOn, DbIs, FaultsAre, SameWorld DEF Mark, Fails, Write
  <1> QED BY <1>1, <1>2, WorkerInv, SameWorld DEF Mark, Quiet, world

LEMMA RefreshInv == ASSUME AloneInv, NEW w \in Workers, Refresh(w) PROVE AloneInv'
  <1>1. /\ Types /\ worker[w].pc = "refreshing" /\ worker[w].pc \in Duties /\ phase # "down"
        /\ Posted \in Rows
    BY RowsAre DEF AloneInv, Refresh, At, Duties
  <1>2. Moves(w) /\ troubles' \in 0..MaxTroubles /\ TypeOfDb'
    BY <1>1, GoesOn, DbIs, FaultsAre, SameWorld DEF Refresh, Fails, Write
  <1> QED BY <1>1, <1>2, WorkerInv, SameWorld DEF Refresh, Quiet, world

(* A new goroutine, and none.                                              *)
LEMMA SpawnedIs == /\ \A b \in BOOLEAN : ThreadOK(Spawned(b))
                   /\ ThreadOK(Gone) /\ Gone.pc = "gone"
  <1>1. ASSUME NEW b \in BOOLEAN PROVE ThreadOK(Spawned(b)) /\ Spawned(b) \in Thread
    BY RoundIs DEF ThreadOK, Spawned, Round, ++, Thread, Threads, Rows, Duties
  <1>2. ThreadOK(Gone) /\ Gone.pc = "gone"
    <2>1. Spawned(FALSE) \in Thread
      BY <1>1
    <2>2. [Spawned(FALSE) EXCEPT !.pc = "gone"] \in Thread
      BY <2>1 DEF Thread, Threads
    <2>3. Gone.pc = "gone"
      BY <2>1 DEF Gone, Thread
    <2> QED BY <2>2, <2>3 DEF Gone, ThreadOK, Duties
  <1> QED BY <1>1, <1>2

(* The end of run takes the worker out of the map.                         *)
LEMMA LeaveInv == ASSUME AloneInv, NEW w \in Workers, Leave(w) PROVE AloneInv'
  <1>1. Types /\ phase # "down"
    BY DEF AloneInv, Leave, At
  <1>2. Moves(w) /\ worker'[w].pc = "gone"
    BY <1>1, SpawnedIs, MovesIs DEF Leave
  <1>3. Types'
    <2>1. TypeOfNotices'
      BY <1>1, SameWorld DEF Leave
    <2> QED BY <1>1, <1>2, <2>1, SameDb DEF Leave, Moves, Types, TypeOfCalls, TypeOfWorld, world
  <1>4. Locked'
    BY DEF AloneInv, Locked, Leave
  <1>5. Alone'
    BY <1>1, <1>2 DEF AloneInv, Alone, Leave, Moves, world
  <1> QED BY <1>3, <1>4, <1>5 DEF AloneInv

LEMMA WorkerStepInv == ASSUME AloneInv, NEW w \in Workers, WorkerStep(w) PROVE AloneInv'
  BY ReadInv, CanceledInWaitInv, RestoreLegacyInv, ClaimActiveInv, PrepareInv, CloseInv, NotifyInv,
     TooLateInv, MarkInv, RefreshInv, LeaveInv
  DEF WorkerStep

-----------------------------------------------------------------------------
(* What a step of call c makes of the lock and of the worker.              *)

OnlyCall(c) == call' \in [Callers -> Call] /\ \A d \in Callers : d # c => call'[d] = call[d]

LEMMA LockedIs ==
    ASSUME AloneInv, NEW c \in Callers, OnlyCall(c),
           \/ holder' = holder /\ (call'[c].pc \in Holding <=> call[c].pc \in Holding)
           \/ holder \in {c, NoCaller} /\ holder' = c /\ call'[c].pc \in Holding
           \/ holder \in {c, NoCaller} /\ holder' = NoCaller /\ call'[c].pc \notin Holding
    PROVE  Locked' /\ holder' \in Callers \cup {NoCaller}
  BY SchedulerAssumption DEF AloneInv, Types, TypeOfCalls, Locked, OnlyCall

(* The worker stays; whoever waited for one that has gone goes on.         *)
LEMMA AloneIs ==
    ASSUME AloneInv, NEW c \in Callers, OnlyCall(c), phase # "down", UNCHANGED <<worker, mapped, phase>>,
           call'[c].pc \in Without => call[c].pc \in Without,
           call[c].pc = "await" => IsDone(call[c].awaited)
    PROVE  Alone'
  <1>1. \A w \in Workers : worker[w].pc # "gone" =>
          w = mapped \/ \E d \in Callers : call'[d].pc = "await" /\ call'[d].awaited = w
    <2> SUFFICES ASSUME NEW w \in Workers, worker[w].pc # "gone", w # mapped
                 PROVE  \E d \in Callers : call'[d].pc = "await" /\ call'[d].awaited = w
      OBVIOUS
    <2>1. PICK d \in Callers : call[d].pc = "await" /\ call[d].awaited = w
      BY DEF AloneInv, Alone
    <2>2. d # c
      BY <2>1, SchedulerAssumption DEF IsDone
    <2> QED BY <2>1, <2>2 DEF OnlyCall
  <1>2. \A d \in Callers : call'[d].pc \in Without => mapped = NoWorker
    BY DEF AloneInv, Alone, OnlyCall
  <1> QED BY <1>1, <1>2 DEF Alone

(* stopWorker leaves the worker where it is.                               *)
LEMMA StopsKeeps ==
    ASSUME Types, NEW c \in Callers, NEW fields, Stops(c, fields)
    PROVE  /\ worker' \in [Workers -> Thread]
           /\ \A w \in Workers : /\ worker'[w].pc = worker[w].pc /\ worker'[w].seen = worker[w].seen
                                 /\ worker'[w].key = worker[w].key
  <1>1. mapped \in Workers \cup {NoWorker} /\ worker \in [Workers -> Thread]
    BY DEF Types, TypeOfCalls, TypeOfWorkers
  <1>2. CASE mapped = NoWorker
    BY <1>1, <1>2 DEF Stops
  <1>3. CASE mapped \in Workers
    <2>1. [worker[mapped] EXCEPT !.canceled = TRUE] \in Thread
      BY <1>1, <1>3 DEF Thread
    <2>2. worker' = [worker EXCEPT ![mapped] = [worker[mapped] EXCEPT !.canceled = TRUE]]
      BY <1>1, <1>3, SchedulerAssumption DEF Stops
    <2>3. /\ [worker[mapped] EXCEPT !.canceled = TRUE].pc = worker[mapped].pc
          /\ [worker[mapped] EXCEPT !.canceled = TRUE].seen = worker[mapped].seen
          /\ [worker[mapped] EXCEPT !.canceled = TRUE].key = worker[mapped].key
      BY <1>1, <1>3 DEF Thread
    <2> QED BY <1>1, <1>3, <2>1, <2>2, <2>3
  <1> QED BY <1>1, <1>2, <1>3

(* stopWorker.                                                             *)
LEMMA StopsIs ==
    ASSUME AloneInv, NEW c \in Callers, phase # "down", UNCHANGED phase, holder \in {c, NoCaller}, holder' = c,
           call[c].pc \in {"remove", "replace", "stop"}, NEW fields, Stops(c, fields),
           [pc |-> "await", awaited |-> mapped] ++ fields ++ call[c] \in Call,
           ([pc |-> "await", awaited |-> mapped] ++ fields ++ call[c]).pc = "await",
           ([pc |-> "await", awaited |-> mapped] ++ fields ++ call[c]).awaited = mapped
    PROVE  Locked' /\ Alone' /\ TypeOfWorkers' /\ TypeOfCalls'
  <1> DEFINE new == [pc |-> "await", awaited |-> mapped] ++ fields ++ call[c]
  <1>1. /\ call \in [Callers -> Call] /\ mapped \in Workers \cup {NoWorker}
        /\ worker \in [Workers -> Thread]
    BY DEF AloneInv, Types, TypeOfCalls, TypeOfWorkers
  <1>2. call' = [call EXCEPT ![c] = new] /\ mapped' = NoWorker
    BY DEF Stops, Goes
  <1>3. new \in Call /\ new.pc = "await" /\ new.awaited = mapped
    OBVIOUS
  <1> HIDE DEF new
  <1>4. OnlyCall(c) /\ call'[c].pc = "await" /\ call'[c].awaited = mapped
    BY <1>1, <1>2, <1>3 DEF OnlyCall
  <1>5. Locked' /\ TypeOfCalls'
    BY <1>2, <1>4, LockedIs DEF Holding, TypeOfCalls, OnlyCall
  <1>6. /\ worker' \in [Workers -> Thread]
        /\ \A w \in Workers : /\ worker'[w].pc = worker[w].pc /\ worker'[w].seen = worker[w].seen
                              /\ worker'[w].key = worker[w].key
    BY StopsKeeps DEF AloneInv
  <1>7. TypeOfWorkers'
    BY <1>6 DEF AloneInv, Types, TypeOfWorkers, KeyIsSeen
  <1>8. Alone'
    <2>1. ASSUME NEW w \in Workers, worker'[w].pc # "gone" PROVE w = mapped
      <3>1. \A d \in Callers : call[d].pc # "await"
        BY SchedulerAssumption DEF AloneInv, Locked, Holding
      <3> QED BY <1>6, <2>1, <3>1 DEF AloneInv, Alone
    <2>2. \A w \in Workers : worker'[w].pc # "gone" =>
            call'[c].pc = "await" /\ call'[c].awaited = w
      BY <1>4, <2>1
    <2> QED BY <1>2, <2>2 DEF Alone
  <1> QED BY <1>5, <1>7, <1>8

-----------------------------------------------------------------------------
(* The steps of the calls.                                                 *)

LEMMA IdleIs == Idle \in Call /\ Idle.pc = "idle" /\ Idle.sch = NoRow
  BY RoundIs DEF Idle, Call, Rows, Steps

LEMMA OnlyCallIs == ASSUME Types, NEW c \in Callers, NEW new, new \in Call, call' = [call EXCEPT ![c] = new]
                    PROVE  OnlyCall(c) /\ call'[c] = new
  BY DEF Types, TypeOfCalls, OnlyCall

(* Idle ++ call is Idle.                                                   *)
LEMMA IdleOver == ASSUME NEW r, r \in Call PROVE Idle ++ r \in Call /\ (Idle ++ r).pc = "idle"
  BY RoundIs DEF Idle, Call, Rows, Steps, ++

(* A step outside lifecycleMu.                                             *)
LEMMA OutsideInv ==
    ASSUME AloneInv, NEW c \in Callers, OnlyCall(c), phase # "down",
           call[c].pc \notin Holding, call'[c].pc \notin Holding,
           UNCHANGED <<worker, mapped, holder, phase>>, TypeOfDb', TypeOfWorld'
    PROVE  AloneInv'
  <1>1. Locked'
    BY LockedIs
  <1>2. Alone'
    BY AloneIs DEF Without, Holding
  <1>3. TypeOfCalls' /\ TypeOfWorkers'
    BY DEF AloneInv, Types, TypeOfCalls, TypeOfWorkers, OnlyCall, KeyIsSeen
  <1> QED BY <1>1, <1>2, <1>3 DEF AloneInv, Types

LEMMA RereadInv == ASSUME AloneInv, NEW c \in Callers, Reread(c) PROVE AloneInv'
  <1>1. Types /\ phase # "down" /\ call[c].pc = "reread" /\ call[c] \in Call /\ row \in Rows
    BY CallIs, RowCases DEF AloneInv, Reread, CallAt
  <1>2. OnlyCall(c) /\ call'[c].pc \in {"remove", "idle"}
    <2>1. ASSUME Goes(c, [pc |-> "remove", sch |-> row]) PROVE OnlyCall(c) /\ call'[c].pc = "remove"
      <3>1. /\ [pc |-> "remove", sch |-> row] ++ call[c] \in Call
            /\ ([pc |-> "remove", sch |-> row] ++ call[c]).pc = "remove"
        BY <1>1 DEF ++, Call, Steps, Rows
      <3> QED BY <1>1, <2>1, <3>1, OnlyCallIs DEF Goes
    <2>2. ASSUME Goes(c, Idle) PROVE OnlyCall(c) /\ call'[c].pc = "idle"
      BY <1>1, <2>2, IdleOver, OnlyCallIs DEF Goes
    <2> QED BY <2>1, <2>2 DEF Reread
  <1>3. TypeOfDb' /\ TypeOfWorld'
    <2>1. troubles' \in 0..MaxTroubles
      BY <1>1, FaultsAre, SameWorld DEF Reread, CallFails
    <2> QED BY <1>1, <2>1, SameDb DEF Reread, world, Types, TypeOfWorld, TypeOfNotices, notices
  <1> QED BY <1>1, <1>2, <1>3, OutsideInv DEF Reread, Holding, world

(* A step under lifecycleMu: it is taken, held or released, and the worker *)
(* is left alone.                                                          *)
LEMMA InsideInv ==
    ASSUME AloneInv, NEW c \in Callers, OnlyCall(c), phase # "down",
           UNCHANGED <<worker, mapped, phase>>, TypeOfDb', TypeOfWorld',
           holder \in {c, NoCaller},
           \/ holder' = c /\ call'[c].pc \in Holding
           \/ holder' = NoCaller /\ call'[c].pc \notin Holding,
           call'[c].pc \in Without => call[c].pc \in Without,
           call[c].pc = "await" => IsDone(call[c].awaited)
    PROVE  AloneInv'
  <1>1. Locked' /\ holder' \in Callers \cup {NoCaller}
    BY LockedIs
  <1>2. Alone'
    BY AloneIs
  <1>3. TypeOfCalls' /\ TypeOfWorkers'
    BY <1>1 DEF AloneInv, Types, TypeOfCalls, TypeOfWorkers, OnlyCall, KeyIsSeen
  <1> QED BY <1>1, <1>2, <1>3 DEF AloneInv, Types

LEMMA HeldBy == ASSUME AloneInv, NEW c \in Callers, call[c].pc \in Holding PROVE holder = c
  BY DEF AloneInv, Locked

(* The end of a call.                                                      *)
LEMMA EndsIs == ASSUME Types, NEW c \in Callers, NEW ok \in BOOLEAN, Ends(c, ok)
                PROVE  /\ OnlyCall(c) /\ call'[c].pc = "idle" /\ holder' = NoCaller
                       /\ applied' \in BOOLEAN
  BY IdleIs, OnlyCallIs, CallIs DEF Ends, Types, TypeOfWorld

(* What a step of a call leaves of the world.                              *)
LEMMA WorldIs == ASSUME Types, UNCHANGED <<world, notices>>, closing' \in BOOLEAN, applied' \in BOOLEAN,
                        troubles' \in 0..MaxTroubles
                 PROVE  TypeOfWorld'
  BY DEF Types, TypeOfWorld, TypeOfNotices, notices, world

LEMMA SameApplied == ASSUME Types, UNCHANGED applied PROVE applied' \in BOOLEAN
  BY DEF Types, TypeOfWorld

LEMMA DeleteInv == ASSUME AloneInv, NEW c \in Callers, Delete(c) PROVE AloneInv'
  <1>1. /\ Types /\ phase # "down" /\ call[c].pc = "delete" /\ call[c] \in Call
        /\ Ended \in Rows /\ NoRow \in Rows
    BY CallIs, RowsAre, RoundIs DEF AloneInv, Delete, CallAt
  <1>2. OnlyCall(c) /\ call'[c].pc \in {"remove", "idle"}
    <2>1. ASSUME Goes(c, [pc |-> "remove"]) PROVE OnlyCall(c) /\ call'[c].pc = "remove"
      <3>1. [pc |-> "remove"] ++ call[c] \in Call /\ ([pc |-> "remove"] ++ call[c]).pc = "remove"
        BY <1>1 DEF ++, Call, Steps
      <3> QED BY <1>1, <2>1, <3>1, OnlyCallIs DEF Goes
    <2>2. ASSUME Goes(c, Idle) PROVE OnlyCall(c) /\ call'[c].pc = "idle"
      BY <1>1, <2>2, IdleOver, OnlyCallIs DEF Goes
    <2> QED BY <2>1, <2>2 DEF Delete
  <1>3. TypeOfDb' /\ closing' \in BOOLEAN /\ troubles' \in 0..MaxTroubles
    <2>1. CASE Write(NoRow) /\ closing' = FALSE
      BY <1>1, <2>1, DbIs, SameWorld DEF Write
    <2>2. CASE CallFails /\ Lose(Ended) /\ UNCHANGED closing
      BY <1>1, <2>2, DbIs, SameWorld, FaultsAre DEF CallFails
    <2>3. CASE CallFails /\ row' = Ended /\ ghost' \in {{}, {NoRow}} /\ closing' = FALSE
      BY <1>1, <2>3, FaultsAre DEF CallFails, TypeOfDb
    <2> QED BY <2>1, <2>2, <2>3 DEF Delete
  <1> QED BY <1>1, <1>2, <1>3, OutsideInv, WorldIs, SameApplied DEF Delete, Holding, world

(* stopWorker, by whoever calls it.                                        *)
LEMMA StopInv ==
    ASSUME AloneInv, NEW c \in Callers, phase # "down", holder \in {c, NoCaller}, holder' = c,
           call[c].pc \in {"remove", "replace", "stop"},
           NEW then \in {"end", "start"}, Stops(c, [then |-> then]) \/ Stops(c, <<>>),
           UNCHANGED <<world, row, ghost, closing, troubles, applied, notices>>
    PROVE  AloneInv'
  <1>1. Types /\ call[c] \in Call /\ mapped \in Workers \cup {NoWorker}
    BY CallIs DEF AloneInv, Types, TypeOfCalls
  <1>2. ASSUME Stops(c, [then |-> then])
        PROVE  Locked' /\ Alone' /\ TypeOfWorkers' /\ TypeOfCalls'
    <2> DEFINE new == [pc |-> "await", awaited |-> mapped] ++ [then |-> then] ++ call[c]
    <2>1. new \in Call /\ new.pc = "await" /\ new.awaited = mapped
      BY <1>1 DEF ++, Call, Steps
    <2> QED BY <1>2, <2>1, StopsIs DEF world
  <1>3. ASSUME Stops(c, <<>>)
        PROVE  Locked' /\ Alone' /\ TypeOfWorkers' /\ TypeOfCalls'
    <2> DEFINE new == [pc |-> "await", awaited |-> mapped] ++ <<>> ++ call[c]
    <2>1. new \in Call /\ new.pc = "await" /\ new.awaited = mapped
      BY <1>1 DEF ++, Call, Steps
    <2> QED BY <1>3, <2>1, StopsIs DEF world
  <1>4. TypeOfDb' /\ TypeOfWorld'
    BY <1>1, SameDb, SameWorld, SameApplied, WorldIs
  <1> QED BY <1>2, <1>3, <1>4 DEF AloneInv, Types

LEMMA RemoveScheduleInv == ASSUME AloneInv, NEW c \in Callers, RemoveSchedule(c) PROVE AloneInv'
  BY StopInv DEF RemoveSchedule, CallAt

LEMMA ReplaceWorkerInv == ASSUME AloneInv, NEW c \in Callers, ReplaceWorker(c) PROVE AloneInv'
  BY StopInv, HeldBy DEF ReplaceWorker, CallAt, Holding

LEMMA StopListedInv == ASSUME AloneInv, NEW c \in Callers, StopListed(c) PROVE AloneInv'
  BY StopInv, HeldBy DEF StopListed, CallAt, Holding

(* A call goes on to its next step, and brings what it has read.           *)
LEMMA GoesIs ==
    ASSUME Types, NEW c \in Callers, NEW pc \in Steps, NEW s \in Rows, NEW ok \in BOOLEAN,
           NEW r \in Runs \cup {NoRun}, NEW then \in {"end", "sync"},
           \/ Goes(c, [pc |-> pc])
           \/ Goes(c, [pc |-> pc, sch |-> s])
           \/ Goes(c, [pc |-> pc, ok |-> ok])
           \/ Goes(c, [pc |-> pc, run |-> r])
           \/ Goes(c, [pc |-> pc, awaited |-> NoWorker])
           \/ Goes(c, [pc |-> pc, sch |-> s, then |-> then])
           \/ Goes(c, [of |-> "start", pc |-> pc, sch |-> s])
    PROVE  OnlyCall(c) /\ call'[c].pc = pc
  <1>1. call[c] \in Call
    BY CallIs
  <1>2. ASSUME Goes(c, [pc |-> pc]) PROVE OnlyCall(c) /\ call'[c].pc = pc
    <2>1. [pc |-> pc] ++ call[c] \in Call /\ ([pc |-> pc] ++ call[c]).pc = pc
      BY <1>1 DEF ++, Call
    <2> QED BY <1>2, <2>1, OnlyCallIs DEF Goes
  <1>3. ASSUME Goes(c, [pc |-> pc, sch |-> s]) PROVE OnlyCall(c) /\ call'[c].pc = pc
    <2>1. [pc |-> pc, sch |-> s] ++ call[c] \in Call /\ ([pc |-> pc, sch |-> s] ++ call[c]).pc = pc
      BY <1>1 DEF ++, Call, Rows
    <2> QED BY <1>3, <2>1, OnlyCallIs DEF Goes
  <1>4. ASSUME Goes(c, [pc |-> pc, ok |-> ok]) PROVE OnlyCall(c) /\ call'[c].pc = pc
    <2>1. [pc |-> pc, ok |-> ok] ++ call[c] \in Call /\ ([pc |-> pc, ok |-> ok] ++ call[c]).pc = pc
      BY <1>1 DEF ++, Call
    <2> QED BY <1>4, <2>1, OnlyCallIs DEF Goes
  <1>5. ASSUME Goes(c, [pc |-> pc, run |-> r]) PROVE OnlyCall(c) /\ call'[c].pc = pc
    <2>1. [pc |-> pc, run |-> r] ++ call[c] \in Call /\ ([pc |-> pc, run |-> r] ++ call[c]).pc = pc
      BY <1>1 DEF ++, Call
    <2> QED BY <1>5, <2>1, OnlyCallIs DEF Goes
  <1>6. ASSUME Goes(c, [pc |-> pc, awaited |-> NoWorker]) PROVE OnlyCall(c) /\ call'[c].pc = pc
    <2>1. /\ [pc |-> pc, awaited |-> NoWorker] ++ call[c] \in Call
          /\ ([pc |-> pc, awaited |-> NoWorker] ++ call[c]).pc = pc
      BY <1>1 DEF ++, Call
    <2> QED BY <1>6, <2>1, OnlyCallIs DEF Goes
  <1>7. ASSUME Goes(c, [pc |-> pc, sch |-> s, then |-> then]) PROVE OnlyCall(c) /\ call'[c].pc = pc
    <2>1. /\ [pc |-> pc, sch |-> s, then |-> then] ++ call[c] \in Call
          /\ ([pc |-> pc, sch |-> s, then |-> then] ++ call[c]).pc = pc
      BY <1>1 DEF ++, Call, Rows
    <2> QED BY <1>7, <2>1, OnlyCallIs DEF Goes
  <1>8. ASSUME Goes(c, [of |-> "start", pc |-> pc, sch |-> s]) PROVE OnlyCall(c) /\ call'[c].pc = pc
    <2>1. /\ [of |-> "start", pc |-> pc, sch |-> s] ++ call[c] \in Call
          /\ ([of |-> "start", pc |-> pc, sch |-> s] ++ call[c]).pc = pc
      BY <1>1 DEF ++, Call, Rows
    <2> QED BY <1>8, <2>1, OnlyCallIs DEF Goes
  <1> QED BY <1>2, <1>3, <1>4, <1>5, <1>6, <1>7, <1>8

LEMMA ScheduleNextInv == ASSUME AloneInv, NEW c \in Callers, ScheduleNext(c) PROVE AloneInv'
  <1>1. /\ Types /\ phase # "down" /\ call[c].pc \in {"schedule", "check"}
        /\ holder \in {c, NoCaller} /\ call[c].ok \in BOOLEAN /\ row \in Rows
    BY CallIs, HeldBy, RowCases DEF AloneInv, ScheduleNext, CallAt, Holding
  <1>2. /\ OnlyCall(c) /\ applied' \in BOOLEAN
        /\ \/ call'[c].pc = "idle" /\ holder' = NoCaller
           \/ call'[c].pc = "replace" /\ holder' = c
    <2>1. CASE Ends(c, call[c].ok)
      BY <1>1, <2>1, EndsIs
    <2>2. CASE Goes(c, [pc |-> "replace"]) /\ holder' = c /\ UNCHANGED applied
      BY <1>1, <2>2, GoesIs, SameApplied DEF Steps
    <2> QED BY <2>1, <2>2 DEF ScheduleNext
  <1> QED BY <1>1, <1>2, InsideInv, SameDb, SameWorld, WorldIs DEF ScheduleNext, Holding, Without, world

LEMMA WorkerStoppedInv == ASSUME AloneInv, NEW c \in Callers, WorkerStopped(c) PROVE AloneInv'
  <1>1. /\ Types /\ phase # "down" /\ call[c].pc = "await" /\ holder = c
        /\ call[c].ok \in BOOLEAN /\ row \in Rows
    BY CallIs, HeldBy, RowCases DEF AloneInv, WorkerStopped, CallAt, Holding
  <1>2. /\ OnlyCall(c) /\ applied' \in BOOLEAN
        /\ \/ call'[c].pc \in {"idle", "schedule"} /\ holder' = NoCaller
           \/ call'[c].pc = "sync" /\ holder' = c
    <2>1. CASE Goes(c, [pc |-> "sync", awaited |-> NoWorker]) /\ UNCHANGED <<holder, applied>>
      BY <1>1, <2>1, GoesIs, SameApplied DEF Steps
    <2>2. CASE Goes(c, [pc |-> "schedule", awaited |-> NoWorker]) /\ holder' = NoCaller /\ UNCHANGED applied
      BY <1>1, <2>2, GoesIs, SameApplied DEF Steps
    <2>3. CASE Ends(c, call[c].ok)
      BY <1>1, <2>3, EndsIs
    <2> QED BY <2>1, <2>2, <2>3 DEF WorkerStopped
  <1> QED BY <1>1, <1>2, InsideInv, SameDb, SameWorld, WorldIs DEF WorkerStopped, Holding, Without, world

(* When the worker that was waited for is gone, all are.                   *)
LEMMA AllGone ==
    ASSUME AloneInv, NEW c \in Callers, call[c].pc = "await", IsDone(call[c].awaited)
    PROVE  (\A w \in Workers : worker[w].pc = "gone") /\ \A d \in Callers : d # c => call[d].pc \notin Holding
  <1>1. mapped = NoWorker
    BY DEF AloneInv, Alone, Without
  <1>2. \A d \in Callers : d # c => call[d].pc \notin Holding
    BY DEF AloneInv, Locked, Holding
  <1>3. ASSUME NEW w \in Workers, worker[w].pc # "gone" PROVE FALSE
    <2>1. w # mapped
      BY <1>1, SchedulerAssumption
    <2>2. PICK d \in Callers : call[d].pc = "await" /\ call[d].awaited = w
      BY <1>3, <2>1 DEF AloneInv, Alone
    <2>3. d = c
      BY <1>2, <2>2 DEF Holding
    <2> QED BY <1>3, <2>2, <2>3, SchedulerAssumption DEF IsDone
  <1> QED BY <1>2, <1>3

(* Everybody is gone when the worker that was waited for is, so a new one  *)
(* can be started, and is the only one.                                    *)
LEMMA StartWorkerInv == ASSUME AloneInv, NEW c \in Callers, StartWorker(c) PROVE AloneInv'
  <1>1. /\ Types /\ phase # "down" /\ call[c] \in Call /\ call[c].pc = "await" /\ holder = c
        /\ call[c].ok \in BOOLEAN /\ call[c].sch \in Rows /\ Ends(c, call[c].ok)
        /\ IsDone(call[c].awaited) /\ mapped = NoWorker
    BY CallIs, HeldBy DEF AloneInv, Alone, StartWorker, CallAt, Holding, Without
  <1>2. OnlyCall(c) /\ call'[c].pc = "idle" /\ holder' = NoCaller /\ applied' \in BOOLEAN
    BY <1>1, EndsIs
  <1>3. \A d \in Callers : d # c => call[d].pc \notin Holding
    BY <1>1, AllGone
  <1>4. \A w \in Workers : worker[w].pc = "gone"
    BY <1>1, AllGone
  <1>5. TypeOfWorkers' /\ mapped' \in Workers \cup {NoWorker}
        /\ (\A w \in Workers : worker'[w].pc # "gone" => w = mapped')
    <2>1. CASE phase = "stopping"
      BY <1>1, <1>4, <2>1 DEF StartWorker, Types, TypeOfWorkers, TypeOfCalls, KeyIsSeen
    <2>2. CASE phase # "stopping"
      <3> DEFINE w == CHOOSE v \in Workers : worker[v].pc = "gone"
                 b == call[c].sch.run # NoRun \/ call[c].sch.posted
      <3>1. w \in Workers
        BY <1>4, SchedulerAssumption
      <3>2. ThreadOK(Spawned(b))
        <4>1. call[c].sch.posted \in BOOLEAN
          BY <1>1, RowIs DEF Rows, Row
        <4> QED BY <4>1, SpawnedIs
      <3>3. worker' = [worker EXCEPT ![w] = Spawned(b)] /\ mapped' = w
        BY <2>2 DEF StartWorker
      <3> HIDE DEF w, b
      <3>4. Moves(w)
        BY <1>1, <3>1, <3>2, <3>3, MovesIs
      <3> QED BY <1>4, <3>1, <3>3, <3>4 DEF Moves
    <2> QED BY <2>1, <2>2
  <1>6. Locked'
    BY <1>1, <1>2, LockedIs DEF Holding
  <1>7. Alone'
    <2>1. \A d \in Callers : call'[d].pc \notin Without
      BY <1>2, <1>3 DEF OnlyCall, Holding, Without
    <2>2. phase' # "down"
      BY <1>1 DEF StartWorker, world
    <2> QED BY <1>5, <2>1, <2>2 DEF Alone
  <1>8. Types'
    <2>1. TypeOfDb'
      BY <1>1, SameDb DEF StartWorker
    <2>2. TypeOfWorld'
      BY <1>1, <1>2 DEF StartWorker, Types, TypeOfWorld, TypeOfNotices, notices, world
    <2> QED BY <1>2, <1>5, <2>1, <2>2 DEF Types, TypeOfCalls, OnlyCall
  <1> QED BY <1>6, <1>7, <1>8 DEF AloneInv

LEMMA ReconfigureInv == ASSUME AloneInv, NEW c \in Callers, Reconfigure(c) PROVE AloneInv'
  <1>1. /\ Types /\ phase # "down" /\ call[c].pc = "list" /\ holder = NoCaller /\ row \in Rows
    BY RowCases DEF AloneInv, Reconfigure, CallAt
  <1>2. /\ OnlyCall(c) /\ applied' \in BOOLEAN /\ troubles' \in 0..MaxTroubles
        /\ \/ call'[c].pc = "idle" /\ holder' = NoCaller
           \/ call'[c].pc \in {"check", "stop"} /\ holder' = c
    <2>1. CASE CallFails /\ Ends(c, FALSE)
      BY <1>1, <2>1, EndsIs, FaultsAre DEF CallFails
    <2>2. CASE Goes(c, [pc |-> "check", sch |-> row]) /\ holder' = c /\ UNCHANGED <<troubles, applied>>
      BY <1>1, <2>2, GoesIs, SameApplied, SameWorld DEF Steps
    <2>3. CASE /\ Goes(c, [pc |-> "stop", sch |-> row, then |-> IF Exists(row) THEN "sync" ELSE "end"])
               /\ holder' = c /\ UNCHANGED <<troubles, applied>>
      BY <1>1, <2>3, GoesIs, SameApplied, SameWorld DEF Steps
    <2> QED BY <2>1, <2>2, <2>3 DEF Reconfigure
  <1>3. UNCHANGED <<worker, mapped, phase>>
    BY DEF Reconfigure, world
  <1> QED BY <1>1, <1>2, <1>3, InsideInv, SameDb, SameWorld, WorldIs
          DEF Reconfigure, Holding, Without, world

LEMMA SyncPendingInv == ASSUME AloneInv, NEW c \in Callers, SyncPending(c) PROVE AloneInv'
  <1>1. /\ Types /\ phase # "down" /\ call[c].pc = "sync" /\ holder = c /\ row \in Rows
        /\ row.run \in Runs \cup {NoRun}
    BY RowCases, HeldBy, RowIs DEF AloneInv, SyncPending, CallAt, Holding, Rows, Row
  <1>2. /\ OnlyCall(c) /\ applied' \in BOOLEAN /\ troubles' \in 0..MaxTroubles
        /\ \/ call'[c].pc = "idle" /\ holder' = NoCaller
           \/ call'[c].pc \in {"check", "cancel"} /\ holder' = c
    <2>1. CASE CallFails /\ Goes(c, [pc |-> "check", ok |-> FALSE]) /\ UNCHANGED <<holder, applied>>
      BY <1>1, <2>1, GoesIs, SameApplied, FaultsAre DEF CallFails, Steps
    <2>2. CASE Ends(c, FALSE) /\ UNCHANGED troubles
      BY <1>1, <2>2, EndsIs, SameWorld
    <2>3. CASE Goes(c, [pc |-> "check", sch |-> row]) /\ UNCHANGED <<holder, applied, troubles>>
      BY <1>1, <2>3, GoesIs, SameApplied, SameWorld DEF Steps
    <2>4. CASE Goes(c, [pc |-> "cancel", run |-> row.run]) /\ UNCHANGED <<holder, applied, troubles>>
      BY <1>1, <2>4, GoesIs, SameApplied, SameWorld DEF Steps
    <2> QED BY <2>1, <2>2, <2>3, <2>4 DEF SyncPending
  <1> QED BY <1>1, <1>2, InsideInv, SameDb, SameWorld, WorldIs DEF SyncPending, Holding, Without, world

LEMMA CancelPendingInv == ASSUME AloneInv, NEW c \in Callers, CancelPending(c) PROVE AloneInv'
  <1>1. /\ Types /\ phase # "down" /\ call[c].pc = "cancel" /\ holder = c /\ Ended \in Rows
        /\ call[c].ok \in BOOLEAN
    BY RowsAre, CallIs, HeldBy DEF AloneInv, CancelPending, CallAt, Holding
  <1>2. OnlyCall(c) /\ call'[c].pc = "refetch" /\ TypeOfDb' /\ troubles' \in 0..MaxTroubles
    <2>1. CASE Write(Ended) /\ Goes(c, [pc |-> "refetch"])
      BY <1>1, <2>1, GoesIs, DbIs, SameWorld DEF Write, Steps
    <2>2. CASE CallFails /\ Lose(Ended) /\ Goes(c, [pc |-> "refetch", ok |-> FALSE])
      BY <1>1, <2>2, GoesIs, DbIs, FaultsAre DEF CallFails, Steps
    <2>3. CASE /\ Goes(c, [pc |-> "refetch", ok |-> call[c].ok /\ ~Cancellable])
               /\ UNCHANGED <<row, ghost, troubles>>
      <3>1. (call[c].ok /\ ~Cancellable) \in BOOLEAN
        OBVIOUS
      <3> QED BY <1>1, <2>3, <3>1, GoesIs, SameDb, SameWorld DEF Steps
    <2> QED BY <2>1, <2>2, <2>3 DEF CancelPending
  <1> QED BY <1>1, <1>2, InsideInv, SameApplied, SameWorld, WorldIs
          DEF CancelPending, Holding, Without, world

LEMMA RefetchInv == ASSUME AloneInv, NEW c \in Callers, Refetch(c) PROVE AloneInv'
  <1>1. /\ Types /\ phase # "down" /\ call[c].pc = "refetch" /\ holder = c /\ row \in Rows
    BY RowCases, HeldBy DEF AloneInv, Refetch, CallAt, Holding
  <1>2. /\ OnlyCall(c) /\ applied' \in BOOLEAN /\ troubles' \in 0..MaxTroubles
        /\ \/ call'[c].pc = "idle" /\ holder' = NoCaller
           \/ call'[c].pc = "check" /\ holder' = c
    <2>1. CASE CallFails /\ Goes(c, [pc |-> "check", ok |-> FALSE]) /\ UNCHANGED <<holder, applied>>
      BY <1>1, <2>1, GoesIs, SameApplied, FaultsAre DEF CallFails, Steps
    <2>2. CASE Goes(c, [pc |-> "check", sch |-> row]) /\ UNCHANGED <<holder, applied, troubles>>
      BY <1>1, <2>2, GoesIs, SameApplied, SameWorld DEF Steps
    <2>3. CASE Ends(c, FALSE) /\ UNCHANGED troubles
      BY <1>1, <2>3, EndsIs, SameWorld
    <2> QED BY <2>1, <2>2, <2>3 DEF Refetch
  <1> QED BY <1>1, <1>2, InsideInv, SameDb, SameWorld, WorldIs DEF Refetch, Holding, Without, world

LEMMA CallStepInv == ASSUME AloneInv, NEW c \in Callers, CallStep(c) PROVE AloneInv'
  BY RereadInv, DeleteInv, RemoveScheduleInv, ScheduleNextInv, ReplaceWorkerInv, WorkerStoppedInv,
     StartWorkerInv, ReconfigureInv, StopListedInv, SyncPendingInv, CancelPendingInv, RefetchInv
  DEF CallStep

-----------------------------------------------------------------------------
(* The changes by handlers, main, and the environment.                     *)

(* Calls keep their steps and what they wait for, apart from c, which is   *)
(* idle and begins outside lifecycleMu.                                    *)
LEMMA ShakenInv ==
    ASSUME AloneInv, phase # "down", UNCHANGED <<worker, mapped, holder, phase>>, TypeOfDb', TypeOfWorld',
           call' \in [Callers -> Call],
           \A d \in Callers :
              \/ call'[d].pc = call[d].pc /\ call'[d].awaited = call[d].awaited
              \/ call[d].pc \notin Holding /\ call'[d].pc \notin Holding
    PROVE  AloneInv'
  <1>1. Locked'
    BY DEF AloneInv, Locked
  <1>2. Alone'
    BY DEF AloneInv, Alone, Holding, Without
  <1>3. TypeOfCalls' /\ TypeOfWorkers'
    BY DEF AloneInv, Types, TypeOfCalls, TypeOfWorkers, KeyIsSeen
  <1> QED BY <1>1, <1>2, <1>3 DEF AloneInv, Types

(* A caller that is free is idle; a new call is of a handler.              *)
LEMMA BeginsIs == ASSUME AloneInv, NEW c \in Callers, Begins(c)
                  PROVE  /\ Types /\ phase # "down" /\ call[c].pc = "idle" /\ call[c].pc \notin Holding
                         /\ troubles' \in 0..MaxTroubles
  BY TroublesAre, IdleIs DEF AloneInv, Begins, IsFree, Holding

LEMMA ChangeSettingsInv == ASSUME AloneInv, NEW c \in Callers, ChangeSettings(c) PROVE AloneInv'
  <1>1. /\ Types /\ phase # "down" /\ call[c].pc = "idle" /\ call[c].pc \notin Holding
        /\ troubles' \in 0..MaxTroubles
    BY BeginsIs DEF ChangeSettings
  <1> DEFINE new == [Idle EXCEPT !.of = "reconfigure", !.pc = "list"]
  <1>2. new \in Call /\ new.pc = "list"
    BY IdleIs DEF Call, Steps
  <1> HIDE DEF new
  <1>3. call' = [Unsure EXCEPT ![c] = new]
    BY DEF ChangeSettings, new
  <1>4. /\ call' \in [Callers -> Call]
        /\ \A d \in Callers :
              \/ call'[d].pc = call[d].pc /\ call'[d].awaited = call[d].awaited
              \/ call[d].pc \notin Holding /\ call'[d].pc \notin Holding
    BY <1>1, <1>2, <1>3, UnsureIs DEF Holding
  <1>5. TypeOfDb' /\ TypeOfWorld'
    BY <1>1, SameDb DEF ChangeSettings, Types, TypeOfWorld, TypeOfNotices, notices, db
  <1> QED BY <1>1, <1>4, <1>5, ShakenInv DEF ChangeSettings

LEMMA EditScheduleInv == ASSUME AloneInv, NEW c \in Callers, EditSchedule(c) PROVE AloneInv'
  <1>1. /\ Types /\ phase # "down" /\ call[c].pc = "idle" /\ call[c].pc \notin Holding
        /\ troubles' \in 0..MaxTroubles /\ row \in Row
    BY BeginsIs, RowCases DEF EditSchedule
  <1> DEFINE new == [Idle EXCEPT !.of = "edit", !.pc = "reread"]
  <1>2. new \in Call /\ new.pc = "reread"
    BY IdleIs DEF Call, Steps
  <1> HIDE DEF new
  <1>3. PICK p \in Plans :
          \/ Stored([row EXCEPT !.plan = p]) /\ applied' = FALSE /\ call' = [Unsure EXCEPT ![c] = new]
          \/ Lose([row EXCEPT !.plan = p]) /\ UNCHANGED <<call, applied>>
    BY DEF EditSchedule, new
  <1>4. TypeOfDb' /\ applied' \in BOOLEAN
    <2>1. [row EXCEPT !.plan = p] \in Rows
      BY <1>1 DEF Rows, Row
    <2> QED BY <1>1, <1>3, <2>1, DbIs, SameApplied
  <1>5. /\ call' \in [Callers -> Call]
        /\ \A d \in Callers :
              \/ call'[d].pc = call[d].pc /\ call'[d].awaited = call[d].awaited
              \/ call[d].pc \notin Holding /\ call'[d].pc \notin Holding
    <2>1. call \in [Callers -> Call]
      BY <1>1 DEF Types, TypeOfCalls
    <2> QED BY <1>1, <1>2, <1>3, <2>1, UnsureIs DEF Holding
  <1>6. TypeOfWorld'
    BY <1>1, <1>4 DEF EditSchedule, Types, TypeOfWorld, TypeOfNotices, notices
  <1> QED BY <1>1, <1>4, <1>5, <1>6, ShakenInv DEF EditSchedule

(* A row that is not there yet.                                            *)
LEMMA NewRowIs == ASSUME NEW p \in Plans, NEW r \in Runs
                  PROVE  Regular(p) \in Rows /\ [Regular(p) EXCEPT !.temp = TRUE, !.run = r] \in Rows
  <1>1. Regular(p) \in Row
    BY DEF Regular, NoRow, Row
  <1>2. [Regular(p) EXCEPT !.temp = TRUE, !.run = r] \in Row
    BY <1>1 DEF Row
  <1> QED BY <1>1, <1>2 DEF Rows

LEMMA AddScheduleInv == ASSUME AloneInv, NEW c \in Callers, AddSchedule(c) PROVE AloneInv'
  <1>1. /\ Types /\ phase # "down" /\ call[c].pc = "idle" /\ call[c].pc \notin Holding
        /\ troubles' \in 0..MaxTroubles
    BY BeginsIs DEF AddSchedule
  <1>2. PICK p \in Plans :
          \/ Stored(Regular(p)) /\ Goes(c, [pc |-> "schedule", sch |-> Regular(p)])
          \/ Lose(Regular(p)) /\ UNCHANGED call
    BY DEF AddSchedule
  <1>3. Regular(p) \in Rows
    BY NewRowIs, SchedulerAssumption
  <1>4. TypeOfDb' /\ TypeOfWorld'
    BY <1>1, <1>2, <1>3, DbIs DEF AddSchedule, Types, TypeOfWorld, TypeOfNotices, notices
  <1>5. OnlyCall(c) /\ call'[c].pc \notin Holding
    <2>1. CASE Goes(c, [pc |-> "schedule", sch |-> Regular(p)])
      BY <1>1, <1>3, <2>1, GoesIs DEF Steps, Holding
    <2>2. CASE UNCHANGED call
      BY <1>1, <2>2 DEF OnlyCall, Types, TypeOfCalls
    <2> QED BY <1>2, <2>1, <2>2
  <1> QED BY <1>1, <1>4, <1>5, OutsideInv DEF AddSchedule

LEMMA DeleteScheduleInv == ASSUME AloneInv, NEW c \in Callers, DeleteSchedule(c) PROVE AloneInv'
  <1>1. /\ Types /\ phase # "down" /\ call[c].pc = "idle" /\ call[c].pc \notin Holding
        /\ troubles' \in 0..MaxTroubles
    BY BeginsIs DEF DeleteSchedule
  <1>2. OnlyCall(c) /\ call'[c].pc \notin Holding
    <2>1. Goes(c, [pc |-> "delete"]) /\ "delete" \in Steps /\ "delete" \notin Holding
      BY DEF DeleteSchedule, Steps, Holding
    <2> QED BY <1>1, <2>1, GoesIs, RoundIs
  <1>3. TypeOfDb' /\ TypeOfWorld'
    BY <1>1, SameDb DEF DeleteSchedule, Types, TypeOfWorld, TypeOfNotices, notices, db
  <1> QED BY <1>1, <1>2, <1>3, OutsideInv DEF DeleteSchedule

LEMMA RunInstantInv == ASSUME AloneInv, NEW c \in Callers, RunInstant(c) PROVE AloneInv'
  <1>1. /\ Types /\ phase # "down" /\ call[c].pc = "idle" /\ call[c].pc \notin Holding
        /\ troubles' \in 0..MaxTroubles /\ holder = NoCaller
    BY BeginsIs DEF RunInstant
  <1>2. PICK r \in Runs :
          LET s == [Regular(FirstPlan) EXCEPT !.temp = TRUE, !.run = r] IN
          \/ /\ Stored(s) /\ holder' = c /\ Goes(c, [pc |-> "check", sch |-> s])
             /\ UNCHANGED stranded
          \/ Lose(s) /\ stranded' = (ghost' # {}) /\ UNCHANGED <<holder, call>>
    BY DEF RunInstant
  <1> DEFINE s == [Regular(FirstPlan) EXCEPT !.temp = TRUE, !.run = r]
  <1>3. s \in Rows
    BY NewRowIs, SchedulerAssumption
  <1> HIDE DEF s
  <1>4. TypeOfDb' /\ TypeOfWorld'
    <2>1. TypeOfDb'
      BY <1>1, <1>2, <1>3, DbIs DEF s
    <2>2. stranded' \in BOOLEAN
      BY <1>1, <1>2 DEF Types, TypeOfWorld
    <2>3. TypeOfNotices'
      BY <1>1, SameWorld DEF RunInstant
    <2> QED BY <1>1, <2>1, <2>2, <2>3 DEF RunInstant, Types, TypeOfWorld
  <1>5. /\ OnlyCall(c)
        /\ \/ call'[c].pc = "check" /\ holder' = c
           \/ call'[c].pc = "idle" /\ holder' = NoCaller
    <2>1. CASE Goes(c, [pc |-> "check", sch |-> s]) /\ holder' = c
      BY <1>1, <1>3, <2>1, GoesIs DEF Steps
    <2>2. CASE UNCHANGED <<holder, call>>
      BY <1>1, <2>2 DEF OnlyCall, Types, TypeOfCalls
    <2> QED BY <1>2, <2>1, <2>2 DEF s
  <1> QED BY <1>1, <1>4, <1>5, InsideInv DEF RunInstant, Holding, Without

LEMMA ChangeInv == ASSUME AloneInv, NEW c \in Callers, Change(c) PROVE AloneInv'
  BY ChangeSettingsInv, EditScheduleInv, AddScheduleInv, DeleteScheduleInv, RunInstantInv DEF Change

(* The process starts with nobody at work.                                 *)
LEMMA StartInv == ASSUME AloneInv, NEW c \in Callers, Start(c) PROVE AloneInv'
  <1>1. /\ Types /\ phase' # "down" /\ call[c].pc = "idle" /\ row \in Rows /\ holder = NoCaller
        /\ mapped = NoWorker /\ \A w \in Workers : worker[w].pc = "gone"
    BY IdleIs, RowCases DEF AloneInv, Alone, Start, IsFree
  <1>2. /\ OnlyCall(c)
        /\ \/ call'[c].pc = "check" /\ holder' = c
           \/ call'[c].pc = "idle" /\ holder' = NoCaller
    <2>1. CASE Goes(c, [of |-> "start", pc |-> "check", sch |-> row]) /\ holder' = c
      BY <1>1, <2>1, GoesIs DEF Steps
    <2>2. CASE UNCHANGED <<call, holder>>
      BY <1>1, <2>2 DEF OnlyCall, Types, TypeOfCalls
    <2> QED BY <2>1, <2>2 DEF Start
  <1>3. Locked' /\ holder' \in Callers \cup {NoCaller}
    BY <1>1, <1>2, LockedIs DEF Holding
  <1>4. Alone'
    BY <1>1, <1>2 DEF Alone, Start
  <1>5. Types'
    <2>1. TypeOfDb' /\ TypeOfWorld'
      BY <1>1, SameDb DEF Start, Types, TypeOfWorld, TypeOfNotices, notices, db
    <2> QED BY <1>1, <1>2, <1>3, <2>1 DEF Start, Types, TypeOfCalls, TypeOfWorkers, KeyIsSeen, OnlyCall
  <1> QED BY <1>3, <1>4, <1>5 DEF AloneInv

LEMMA ShutdownInv == ASSUME AloneInv, Shutdown PROVE AloneInv'
  <1>1. Types /\ troubles' \in 0..MaxTroubles
    BY TroublesAre DEF AloneInv, Shutdown
  <1>2. Types'
    BY <1>1, SameDb
    DEF Shutdown, Types, TypeOfCalls, TypeOfWorkers, TypeOfWorld, TypeOfNotices, notices, KeyIsSeen, db, lifecycle
  <1>3. Locked' /\ Alone'
    BY DEF AloneInv, Locked, Alone, Shutdown, lifecycle
  <1> QED BY <1>2, <1>3 DEF AloneInv

(* Everybody goes with the process.                                        *)
LEMMA ExitInv == ASSUME AloneInv, Exit PROVE AloneInv'
  <1>1. Types
    BY DEF AloneInv
  <1>2. /\ \A w \in Workers : worker'[w] = Gone
        /\ \A c \in Callers : call'[c] = Idle
        /\ worker' \in [Workers -> Thread] /\ call' \in [Callers -> Call]
    BY SpawnedIs, IdleIs DEF Exit, ThreadOK
  <1>3. Locked'
    BY <1>2, IdleIs, SchedulerAssumption DEF Exit, Locked, Holding
  <1>4. Alone'
    BY <1>2, SpawnedIs, IdleIs DEF Exit, Alone, Without
  <1>5. Types'
    <2>1. TypeOfDb' /\ TypeOfWorld'
      <3>1. TypeOfNotices'
        BY <1>1, SameWorld DEF Exit
      <3> QED BY <1>1, <3>1, SameDb DEF Exit, Types, TypeOfWorld, db
    <2> QED BY <1>2, <2>1, SpawnedIs DEF Exit, Types, TypeOfCalls, TypeOfWorkers, KeyIsSeen
  <1> QED BY <1>3, <1>4, <1>5 DEF AloneInv

LEMMA GhostLandsInv == ASSUME AloneInv, GhostLands PROVE AloneInv'
  <1>1. Types
    BY DEF AloneInv
  <1>2. TypeOfDb'
    BY <1>1 DEF GhostLands, Types, TypeOfDb
  <1>3. TypeOfWorld'
    <2>1. TypeOfNotices'
      BY <1>1, SameWorld DEF GhostLands
    <2> QED BY <1>1, <2>1 DEF GhostLands, Types, TypeOfWorld, world
  <1>4. /\ call' \in [Callers -> Call]
        /\ \A d \in Callers : call'[d].pc = call[d].pc /\ call'[d].awaited = call[d].awaited
    <2>1. call \in [Callers -> Call]
      BY <1>1 DEF Types, TypeOfCalls
    <2> QED BY <1>1, <2>1, UnsureIs DEF GhostLands
  <1>5. Locked'
    BY <1>4 DEF AloneInv, Locked, GhostLands
  <1>6. Alone'
    BY <1>4 DEF AloneInv, Alone, GhostLands, world
  <1>7. TypeOfCalls' /\ TypeOfWorkers'
    BY <1>1, <1>4 DEF GhostLands, Types, TypeOfCalls, TypeOfWorkers, KeyIsSeen
  <1> QED BY <1>2, <1>3, <1>5, <1>6, <1>7 DEF AloneInv, Types

LEMMA ServiceClosesInv == ASSUME AloneInv, ServiceCloses PROVE AloneInv'
  <1>1. Types /\ Ended \in Rows
    BY RowsAre DEF AloneInv
  <1>2. TypeOfDb' /\ TypeOfWorld'
    BY <1>1, DbIs DEF ServiceCloses, Write, Types, TypeOfWorld, TypeOfNotices, notices, world
  <1>3. TypeOfCalls' /\ TypeOfWorkers' /\ Locked' /\ Alone'
    BY DEF ServiceCloses, AloneInv, Types, TypeOfCalls, TypeOfWorkers, KeyIsSeen, Locked, Alone,
           lifecycle, world
  <1> QED BY <1>2, <1>3 DEF AloneInv, Types

LEMMA TickInv == ASSUME AloneInv, Tick PROVE AloneInv'
  <1>1. Types
    BY DEF AloneInv
  <1>2. TypeOfDb' /\ TypeOfWorld'
    <2>1. clock' \in 0..Horizon
      BY <1>1, SchedulerAssumption DEF Tick, Types, TypeOfWorld
    <2> QED BY <1>1, <2>1, SameDb DEF Tick, Types, TypeOfWorld, TypeOfNotices, notices, db
  <1>3. TypeOfCalls' /\ TypeOfWorkers' /\ Locked' /\ Alone'
    BY DEF Tick, AloneInv, Types, TypeOfCalls, TypeOfWorkers, KeyIsSeen, Locked, Alone, lifecycle
  <1> QED BY <1>2, <1>3 DEF AloneInv, Types

LEMMA StutterInv == ASSUME AloneInv, UNCHANGED vars PROVE AloneInv'
  <1>1. Types /\ TypeOfDb'
    BY SameDb DEF AloneInv, vars, db
  <1>2. TypeOfWorld'
    <2>1. UNCHANGED <<existed, closing, week, phase, clock, troubles, applied, notices, stranded>>
      BY DEF vars, db
    <2> QED BY <1>1, <2>1 DEF Types, TypeOfWorld, TypeOfNotices, notices
  <1>3. TypeOfCalls' /\ TypeOfWorkers' /\ Locked' /\ Alone'
    BY DEF vars, lifecycle, AloneInv, Types, TypeOfCalls, TypeOfWorkers, KeyIsSeen, Locked, Alone
  <1> QED BY <1>1, <1>2, <1>3 DEF AloneInv, Types

LEMMA InitInv == Init => AloneInv
  <1> SUFFICES ASSUME Init PROVE AloneInv
    OBVIOUS
  <1>1. /\ worker \in [Workers -> Thread] /\ \A w \in Workers : worker[w] = Gone
        /\ call \in [Callers -> Call] /\ \A c \in Callers : call[c] = Idle
    BY SpawnedIs, IdleIs DEF Init, ThreadOK
  <1>2. TypeOfDb
    <2>1. ASSUME NEW b \in BOOLEAN, NEW t \in BOOLEAN
          PROVE  [Regular(FirstPlan) EXCEPT !.posted = b, !.temp = t] \in Rows
      <3>1. Regular(FirstPlan) \in Row
        BY SchedulerAssumption DEF Regular, NoRow, Row
      <3> QED BY <3>1 DEF Rows, Row
    <2>2. NoRow \in Rows
      BY RoundIs
    <2>3. row \in Rows
      <3>1. row = NoRow \/ \E b, t \in BOOLEAN : row = [Regular(FirstPlan) EXCEPT !.posted = b, !.temp = t]
        BY Zenon DEF Init
      <3> QED BY <2>1, <2>2, <3>1, Zenon
    <2>4. ghost = {}
      BY DEF Init
    <2> QED BY <2>3, <2>4 DEF TypeOfDb
  <1>3. TypeOfWorld
    <2>1. /\ existed \in BOOLEAN /\ closing \in BOOLEAN /\ week \in Weeks
          /\ phase \in {"down", "up", "stopping"} /\ applied \in BOOLEAN /\ stranded \in BOOLEAN
      BY SchedulerAssumption DEF Init, Exists
    <2>2. clock \in 0..Horizon /\ troubles \in 0..MaxTroubles
      <3>1. clock = 0 /\ troubles = MaxTroubles /\ Horizon \in Nat /\ MaxTroubles \in Nat
        BY SchedulerAssumption DEF Init
      <3> QED BY <3>1
    <2>3. TypeOfNotices
      BY DEF Init, TypeOfNotices, Never
    <2> QED BY <2>1, <2>2, <2>3 DEF TypeOfWorld
  <1>4. TypeOfCalls /\ TypeOfWorkers
    BY <1>1, SpawnedIs DEF Init, TypeOfCalls, TypeOfWorkers, KeyIsSeen
  <1>5. Locked
    BY <1>1, IdleIs, SchedulerAssumption DEF Init, Locked, Holding
  <1>6. Alone
    BY <1>1, SpawnedIs, IdleIs DEF Init, Alone, Without
  <1> QED BY <1>2, <1>3, <1>4, <1>5, <1>6 DEF AloneInv, Types

LEMMA AloneStep == AloneInv /\ [Next]_vars => AloneInv'
  <1> SUFFICES ASSUME AloneInv, [Next]_vars PROVE AloneInv'
    OBVIOUS
  <1>1. CASE \E w \in Workers : WorkerStep(w)
    BY <1>1, WorkerStepInv
  <1>2. CASE \E c \in Callers : CallStep(c) \/ Change(c) \/ Start(c)
    BY <1>2, CallStepInv, ChangeInv, StartInv
  <1>3. CASE ServiceCloses \/ Shutdown \/ Exit \/ GhostLands \/ Tick
    BY <1>3, ServiceClosesInv, ShutdownInv, ExitInv, GhostLandsInv, TickInv
  <1>4. CASE UNCHANGED vars
    BY <1>4, StutterInv
  <1> QED BY <1>1, <1>2, <1>3, <1>4 DEF Next

-----------------------------------------------------------------------------
(* Every state has the types of TypeOK; the calls that hold lifecycleMu are*)
(* one at most; and every goroutine that is not gone is the one in         *)
(* Scheduler.workers or the one that stopWorker waits for.                 *)
THEOREM AloneInvariant == Spec => []AloneInv
  BY InitInv, AloneStep, PTL DEF Spec

(* No two workers of a schedule call the queue service at the same time,   *)
(* and CancelPending is called when none does (claimActive, stopWorker,    *)
(* reconfigurePending).                                                    *)
THEOREM CallsAreAloneAlways == Spec => []CallsAreAlone
  <1>1. AloneInv => CallsAreAlone
    <2> SUFFICES ASSUME AloneInv PROVE CallsAreAlone
      OBVIOUS
    <2> DEFINE calling == {w \in Workers : worker[w].pc \in ServiceCalls}
    <2>1. TypeOK
      BY TypesAre DEF AloneInv
    <2>2. \A w \in calling : w = mapped \/ \E c \in Callers : call[c].pc = "await" /\ call[c].awaited = w
      BY DEF AloneInv, Alone, ServiceCalls
    <2>3. \A c, d \in Callers : call[c].pc \in Holding /\ call[d].pc \in Holding => c = d
      BY DEF AloneInv, Locked
    <2>4. \A c \in Callers : call[c].pc \in {"await", "cancel"} => mapped \notin Workers
      BY SchedulerAssumption DEF AloneInv, Alone, Without
    <2>5. \A v, w \in calling : v = w
      BY <2>2, <2>3, <2>4 DEF Holding
    <2>6. (\E c \in Callers : call[c].pc = "cancel") => calling = {}
      BY <2>2, <2>3, <2>4 DEF Holding
    <2> QED BY <2>1, <2>5, <2>6 DEF CallsAreAlone
  <1> QED BY <1>1, AloneInvariant, PTL

-----------------------------------------------------------------------------
(* RunsHaveWorkers.  What can be in the row and in a COMMIT in doubt.      *)

(* A one-shot queue that is over: no worker will find a run in it.         *)
Spent(s) == s.temp /\ s.run = NoRun /\ ~s.posted
NoRuns == row.run = NoRun /\ \A s \in ghost : s.run = NoRun
RowsFollow ==
    /\ ~existed => row = NoRow /\ \A s \in ghost : s = NoRow
    /\ row = NoRow => \A s \in ghost : s.run = NoRun /\ ~s.temp
    /\ \A s \in ghost : row # NoRow /\ s # NoRow => s.temp = row.temp
    /\ Spent(row) => NoRuns
    /\ \A s \in ghost : Spent(s) => Spent(row)

(* A row that is gone for good, and one that is not there yet.             *)
Deleted == existed /\ row = NoRow /\ \A s \in ghost : s = NoRow
Unborn == row = NoRow /\ ~Deleted
Nobody == \A w \in Workers : worker[w].pc = "gone"

(* A call that has stopped a worker of a row brings that row and will have *)
(* another worker started; one that does not has nothing to look after.    *)
CallForm(k) ==
    /\ k.pc \in {"schedule", "check", "replace", "sync", "cancel", "refetch"} => Exists(k.sch)
    /\ k.pc = "stop" => k.of # "edit" /\ k.then # "start" /\ (Exists(k.sch) <=> k.then = "sync")
    /\ k.pc = "await" => IF k.then = "end" THEN Exists(k.sch) <=> k.of = "edit" ELSE Exists(k.sch)
    /\ k.pc = "remove" => (Exists(k.sch) <=> k.of = "edit")
    /\ k.pc = "delete" => existed /\ k.of # "edit" /\ k.sch = NoRow
    /\ k.pc = "reread" => k.of = "edit"
    /\ k.pc = "list" => k.of # "edit"
    /\ k.pc = "remove" /\ k.sch = NoRow => Deleted
    /\ k.pc \in {"stop", "await"} /\ k.sch = NoRow => Deleted \/ Nobody
    /\ Unborn => k.sch = NoRow
CallForms == \A c \in Callers : CallForm(call[c])

(* A worker that is about to bring a run back or begin one has read a row  *)
(* that can have it.                                                       *)
WorkerForm(t) ==
    /\ t.pc = "preparing" \/ (t.pc = "claiming" /\ t.seen.run = NoRun) => ~row.temp
    /\ t.pc = "restoring" => ~Spent(row)
MappedWorks ==
    mapped # NoWorker =>
        /\ worker[mapped].pc # "gone" /\ ~worker[mapped].canceled
        /\ phase = "up" /\ worker[mapped].pc = "leaving" => NoRuns
WorkerForms == /\ Unborn => Nobody
               /\ MappedWorks
               /\ \A w \in Workers : WorkerForm(worker[w])

(* A run that is stored, or may turn out to be, is looked after.           *)
Tended == phase = "up" /\ ~NoRuns =>
              (mapped # NoWorker /\ LooksAfter(mapped)) \/ \E c \in Callers : Brings(c)

Follows == RowsFollow /\ CallForms /\ WorkerForms /\ Tended
TendedInv == AloneInv /\ (stranded => existed) /\ (stranded \/ Follows)

-----------------------------------------------------------------------------
(* What a write does to the row.                                           *)

(* What is written is made of the row.                                     *)
Derived(s) ==
    /\ row = NoRow => s = NoRow
    /\ s # NoRow => s.temp = row.temp
    /\ Spent(s) => Spent(row)
    /\ Spent(row) => s.run = NoRun
(* What the others rely on when the row changes.                           *)
RowStep == /\ RowsFollow'
           /\ Deleted => Deleted'
           /\ Unborn' => Unborn
           /\ row'.temp => row.temp
           /\ Spent(row)' => Spent(row)
           /\ existed => existed'

LEMMA EmptyIs == NoRow.run = NoRun /\ NoRow.temp = FALSE /\ NoRow.posted = FALSE /\ ~Spent(NoRow)
  BY DEF NoRow, Spent

LEMMA RowStepIs == ASSUME RowsFollow, UNCHANGED existed, NEW s, Derived(s), Stored(s) \/ Write(s) \/ Lose(s)
                   PROVE  RowStep
  <1>1. CASE Stored(s) \/ Write(s)
    <2>1. row' = s /\ ghost = {} /\ ghost' = {}
      BY <1>1 DEF Stored, Write
    <2>2. row'.temp => row.temp
      BY <2>1, EmptyIs DEF Derived
    <2>3. Spent(row)' => Spent(row)
      BY <2>1 DEF Derived, Spent
    <2>4. RowsFollow'
      BY <2>1, <2>3 DEF RowsFollow, Derived, NoRuns, Spent
    <2> QED BY <2>1, <2>2, <2>3, <2>4 DEF RowStep, RowsFollow, Derived, Deleted, Unborn
  <1>2. CASE Lose(s)
    <2>1. row' = row /\ ghost = {} /\ ghost' \subseteq {s}
      BY <1>2 DEF Lose
    <2>2. RowsFollow'
      BY <2>1, EmptyIs DEF RowsFollow, Derived, NoRuns, Spent
    <2> QED BY <2>1, <2>2 DEF RowStep, Derived, Deleted, Unborn, Spent
  <1> QED BY <1>1, <1>2

LEMMA RowStays == ASSUME RowsFollow, UNCHANGED <<row, ghost, existed>> PROVE RowStep /\ (NoRuns => NoRuns')
  BY DEF RowsFollow, RowStep, NoRuns, Deleted, Unborn, Spent

(* A write that begins no run.                                             *)
LEMMA NoRunsIs == ASSUME NEW s, s.run = NoRun \/ s.run = row.run, Stored(s) \/ Write(s) \/ Lose(s), NoRuns
                  PROVE  NoRuns'
  BY DEF NoRuns, Stored, Write, Lose

LEMMA EndedIs == ASSUME Types
                 PROVE  /\ Derived(Ended) /\ Ended.run = NoRun
                        /\ Derived(NoRow) /\ NoRow.run = NoRun
                        /\ Exists(row) /\ ~row.temp => Exists(Ended) /\ ~Ended.temp
  <1> DEFINE cleared == [row EXCEPT !.run = NoRun, !.posted = FALSE, !.notified = {}]
  <1>1. row \in Rows /\ (Exists(row) => row.plan \in Plans /\ row \in Row)
    BY RowCases
  <1>2. CASE row = NoRow
    <2>1. Ended = NoRow
      <3> DEFINE one == [plan : {NoPlan}, temp : {FALSE}, run : {NoRun}, posted : {FALSE},
                         notified : {{}}]
      <3>1. cleared \in one
        BY <1>2 DEF NoRow
      <3>2. NoRow \in one
        BY DEF NoRow
      <3> QED BY <3>1, <3>2 DEF Ended
    <2> QED BY <1>2, <2>1, EmptyIs DEF Derived, Exists
  <1>3. CASE Exists(row)
    <2>1. cleared \in Row /\ cleared.plan \in Plans /\ cleared.temp = row.temp /\ cleared.run = NoRun
      BY <1>1, <1>3 DEF Row
    <2>2. cleared # NoRow
      BY <2>1, SchedulerAssumption DEF NoRow
    <2>3. Ended = NoRow \/ (~row.temp /\ Ended = cleared)
      BY DEF Ended
    <2>4. Exists(row) /\ ~row.temp => Ended = cleared
      BY DEF Ended
    <2> HIDE DEF cleared
    <2> QED BY <1>3, <2>1, <2>2, <2>3, <2>4, EmptyIs DEF Derived, Exists, Spent
  <1> QED BY <1>2, <1>3 DEF Exists

LEMMA SameRunIs == ASSUME Types
                   PROVE  /\ Derived(Posted) /\ Posted.run = row.run
                          /\ \A m \in Marks : Derived(Marked(m)) /\ Marked(m).run = row.run
  <1>1. row \in Rows /\ (Exists(row) => row.plan \in Plans /\ row \in Row)
    BY RowCases
  <1>2. CASE row = NoRow
    <2>1. Posted = NoRow /\ \A m \in Marks : Marked(m) = NoRow
      BY <1>2, EmptyIs DEF Posted, Marked, Exists
    <2> QED BY <1>2, <2>1, EmptyIs DEF Derived
  <1>3. CASE Exists(row)
    <2>1. /\ [row EXCEPT !.posted = TRUE].temp = row.temp /\ [row EXCEPT !.posted = TRUE].run = row.run
          /\ [row EXCEPT !.posted = TRUE].posted = TRUE
      BY <1>1, <1>3 DEF Row
    <2>2. ASSUME NEW m \in Marks
          PROVE  /\ [row EXCEPT !.notified = @ \cup {m}].temp = row.temp
                 /\ [row EXCEPT !.notified = @ \cup {m}].run = row.run
                 /\ [row EXCEPT !.notified = @ \cup {m}].posted = row.posted
      BY <1>1, <1>3 DEF Row
    <2>3. Derived(Posted) /\ Posted.run = row.run
      BY <1>3, <2>1 DEF Posted, Derived, Exists, Spent
    <2>4. ASSUME NEW m \in Marks PROVE Derived(Marked(m)) /\ Marked(m).run = row.run
      BY <1>3, <2>2 DEF Marked, Derived, Exists, Spent
    <2> QED BY <2>3, <2>4
  <1> QED BY <1>2, <1>3 DEF Exists

(* A run begins in a row that can have one.                                *)
LEMMA BeginsRunIs ==
    ASSUME Types
    PROVE  /\ ~Spent(row) => Derived(Restored)
           /\ Restored.temp = row.temp /\ (Exists(row) => Restored.run # NoRun)
           /\ \A r \in Runs \cup {NoRun} : Exists(row) /\ ~row.temp => Derived(Prepared(r))
  <1>1. row \in Rows /\ (Exists(row) => row.plan \in Plans /\ row \in Row)
    BY RowCases
  <1>2. LegacyRun # NoRun
    BY SchedulerAssumption
  <1>3. CASE row = NoRow
    BY <1>3 DEF Restored, Exists, Derived
  <1>4. CASE Exists(row)
    <2>1. [row EXCEPT !.run = LegacyRun].temp = row.temp /\ [row EXCEPT !.run = LegacyRun].run = LegacyRun
      BY <1>1, <1>4 DEF Row
    <2>2. ASSUME NEW r \in Runs \cup {NoRun} PROVE Begun(r).temp = row.temp
      BY <1>1, <1>4 DEF Row, Begun
    <2>3. Restored.temp = row.temp /\ Restored.run # NoRun
      BY <1>2, <1>4, <2>1 DEF Restored
    <2>4. ~Spent(row) => Derived(Restored)
      BY <1>4, <2>3 DEF Derived, Exists, Spent
    <2>5. ASSUME NEW r \in Runs \cup {NoRun}, ~row.temp PROVE Derived(Prepared(r))
      <3>1. Prepared(r).temp = row.temp
        BY <2>2 DEF Prepared
      <3> QED BY <1>4, <2>5, <3>1 DEF Derived, Exists, Spent
    <2> QED BY <2>3, <2>4, <2>5
  <1> QED BY <1>3, <1>4 DEF Exists

-----------------------------------------------------------------------------
(* The worker goes where it is sent, and stays canceled or not.            *)
To(w, pc) == /\ worker'[w].pc = pc /\ worker'[w].canceled = worker[w].canceled
             /\ \A v \in Workers : v # w => worker'[v] = worker[v]

LEMMA SetTo == ASSUME Types, NEW w \in Workers, NEW t, worker' = [worker EXCEPT ![w] = t],
                      NEW pc, t.pc = pc, t.canceled = worker[w].canceled
               PROVE  To(w, pc) /\ worker'[w] = t
  BY DEF To, Types, TypeOfWorkers

LEMMA FreshTo ==
    ASSUME Types, NEW w \in Workers
    PROVE  /\ Leaves(w) => To(w, "leaving")
           /\ Retries(w) => To(w, "waiting")
           /\ Unprepared(w) => To(w, "waiting")
           /\ \A until : Rests(w, until) => To(w, "waiting")
  <1>1. worker[w] \in Thread
    BY ThreadIs
  <1>2. ASSUME Leaves(w) PROVE To(w, "leaving")
    <2> DEFINE t == ([pc |-> "leaving"] ++ Round) ++ worker[w]
    <2>1. t.pc = "leaving" /\ t.canceled = worker[w].canceled
      BY <1>1 DEF ++, Round, Thread
    <2>2. worker' = [worker EXCEPT ![w] = t]
      BY <1>2 DEF Leaves, Set
    <2> HIDE DEF t
    <2> QED BY <2>1, <2>2, SetTo
  <1>3. ASSUME Retries(w) PROVE To(w, "waiting")
    <2> DEFINE t == ([pc |-> "waiting", until |-> 0, sync |-> TRUE] ++ Round) ++ worker[w]
    <2>1. t.pc = "waiting" /\ t.canceled = worker[w].canceled
      BY <1>1 DEF ++, Round, Thread
    <2>2. worker' = [worker EXCEPT ![w] = t]
      BY <1>3 DEF Retries, Set
    <2> HIDE DEF t
    <2> QED BY <2>1, <2>2, SetTo
  <1>4. ASSUME Unprepared(w) PROVE To(w, "waiting")
    <2> DEFINE t == ([pc |-> "waiting", until |-> 0, sync |-> TRUE, active |-> IfMapped(w, FALSE)] ++ Round)
                       ++ worker[w]
    <2>1. t.pc = "waiting" /\ t.canceled = worker[w].canceled
      BY <1>1 DEF ++, Round, Thread
    <2>2. worker' = [worker EXCEPT ![w] = t]
      BY <1>4 DEF Unprepared, Set
    <2> HIDE DEF t
    <2> QED BY <2>1, <2>2, SetTo
  <1>5. ASSUME NEW until, Rests(w, until) PROVE To(w, "waiting")
    <2> DEFINE t == ([pc |-> "waiting", until |-> until] ++ Round) ++ worker[w]
    <2>1. t.pc = "waiting" /\ t.canceled = worker[w].canceled
      BY <1>1 DEF ++, Round, Thread
    <2>2. worker' = [worker EXCEPT ![w] = t]
      BY <1>5 DEF Rests, Set
    <2> HIDE DEF t
    <2> QED BY <2>1, <2>2, SetTo
  <1> QED BY <1>2, <1>3, <1>4, <1>5

(* A one-shot queue without a run has no next one: its worker leaves.      *)
LEMMA PlannedTo ==
    ASSUME Types, NEW w \in Workers, NEW s \in Rows, Planned(w, s)
    PROVE  \/ To(w, "leaving") /\ s.temp
           \/ To(w, "waiting")
           \/ To(w, "claiming") /\ ~s.temp
  <1> DEFINE next == NextRun(s.plan, clock)
             free == [active |-> IfMapped(w, FALSE), sync |-> FALSE, seen |-> s, now |-> clock]
  <1>1. worker[w] \in Thread
    BY ThreadIs
  <1>2. ASSUME NEW until, Set(w, [pc |-> "waiting", until |-> until] ++ Round ++ free)
        PROVE  To(w, "waiting")
    <2> DEFINE t == (([pc |-> "waiting", until |-> until] ++ Round) ++ free) ++ worker[w]
    <2>1. t.pc = "waiting" /\ t.canceled = worker[w].canceled
      BY <1>1 DEF ++, Round, Thread
    <2>2. worker' = [worker EXCEPT ![w] = t]
      BY <1>2 DEF Set
    <2> HIDE DEF t
    <2> QED BY <2>1, <2>2, SetTo
  <1>3. ASSUME NEW r, Set(w, [pc |-> "claiming", target |-> r] ++ free)
        PROVE  To(w, "claiming")
    <2> DEFINE t == ([pc |-> "claiming", target |-> r] ++ free) ++ worker[w]
    <2>1. t.pc = "claiming" /\ t.canceled = worker[w].canceled
      BY <1>1 DEF ++, Thread
    <2>2. worker' = [worker EXCEPT ![w] = t]
      BY <1>3 DEF Set
    <2> HIDE DEF t
    <2> QED BY <2>1, <2>2, SetTo
  <1> HIDE DEF next
  <1> QED BY <1>2, <1>3, FreshTo DEF Planned, next

LEMMA DutyTo ==
    ASSUME NEW me, me \in Thread, NEW done
    PROVE  /\ (DutyAfter(me, done) ++ me).pc \in Duties \cup {"waiting"}
           /\ (DutyAfter(me, done) ++ me).canceled = me.canceled
  <1>1. ASSUME NEW m, NEW pc PROVE ([pc |-> pc, mark |-> m] ++ me).pc = pc
                                   /\ ([pc |-> pc, mark |-> m] ++ me).canceled = me.canceled
    BY DEF ++, Thread
  <1>2. ([pc |-> "refreshing"] ++ me).pc = "refreshing" /\ ([pc |-> "refreshing"] ++ me).canceled = me.canceled
    BY DEF ++, Thread
  <1>3. /\ (([pc |-> "waiting", until |-> 0, sync |-> me.failed] ++ Round) ++ me).pc = "waiting"
        /\ (([pc |-> "waiting", until |-> 0, sync |-> me.failed] ++ Round) ++ me).canceled = me.canceled
    BY DEF ++, Thread, Round
  <1> QED BY <1>1, <1>2, <1>3 DEF DutyAfter, Duties

LEMMA ProceedsTo ==
    ASSUME Types, NEW w \in Workers, NEW fields, NEW done, Proceeds(w, fields, done),
           fields ++ worker[w] \in Thread, (fields ++ worker[w]).canceled = worker[w].canceled
    PROVE  \E pc \in Duties \cup {"waiting"} : To(w, pc)
  <1> DEFINE me == fields ++ worker[w]
             t == DutyAfter(me, done) ++ me
  <1>1. worker' = [worker EXCEPT ![w] = t]
    BY DEF Proceeds
  <1>2. t.pc \in Duties \cup {"waiting"} /\ t.canceled = worker[w].canceled
    BY DutyTo
  <1> HIDE DEF t
  <1> QED BY <1>1, <1>2, SetTo

LEMMA GoesOnTo ==
    ASSUME Types, NEW w \in Workers, NEW done,
           \/ Proceeds(w, Failed, done)
           \/ Proceeds(w, <<>>, done)
           \/ Proceeds(w, [reconciled |-> TRUE], done)
    PROVE  \E pc \in Duties \cup {"waiting"} : To(w, pc)
  <1>1. worker[w] \in Thread
    BY ThreadIs
  <1>2. Failed ++ worker[w] \in Thread /\ (Failed ++ worker[w]).canceled = worker[w].canceled
    BY <1>1 DEF Failed, ++, Thread
  <1>3. <<>> ++ worker[w] \in Thread /\ (<<>> ++ worker[w]).canceled = worker[w].canceled
    BY <1>1 DEF ++, Thread
  <1>4. /\ [reconciled |-> TRUE] ++ worker[w] \in Thread
        /\ ([reconciled |-> TRUE] ++ worker[w]).canceled = worker[w].canceled
    BY <1>1 DEF ++, Thread
  <1> QED BY <1>2, <1>3, <1>4, ProceedsTo

LEMMA ClaimActiveTo ==
    ASSUME AloneInv, NEW w \in Workers, ClaimActive(w)
    PROVE  \/ ~MayClaim(w) /\ To(w, "leaving")
           \/ worker[w].seen.run = NoRun /\ To(w, "preparing") /\ worker'[w].target = worker[w].target
           \/ \E pc \in Duties \cup {"waiting", "closing"} : To(w, pc)
  <1> DEFINE run == worker[w].seen.run
  <1>1. Types /\ worker[w] \in Thread
    BY ThreadIs DEF AloneInv
  <1>2. CASE ~MayClaim(w) /\ Leaves(w)
    BY <1>1, <1>2, FreshTo
  <1>3. CASE run = NoRun /\ Set(w, [pc |-> "preparing", active |-> TRUE])
    <2> DEFINE t == [pc |-> "preparing", active |-> TRUE] ++ worker[w]
    <2>1. t.pc = "preparing" /\ t.canceled = worker[w].canceled /\ t.target = worker[w].target
      BY <1>1 DEF ++, Thread
    <2>2. worker' = [worker EXCEPT ![w] = t]
      BY <1>3 DEF Set
    <2> HIDE DEF t
    <2> QED BY <1>1, <1>3, <2>1, <2>2, SetTo
  <1>4. CASE Set(w, [pc |-> "closing", active |-> TRUE])
    <2> DEFINE t == [pc |-> "closing", active |-> TRUE] ++ worker[w]
    <2>1. t.pc = "closing" /\ t.canceled = worker[w].canceled
      BY <1>1 DEF ++, Thread
    <2>2. worker' = [worker EXCEPT ![w] = t]
      BY <1>4 DEF Set
    <2> HIDE DEF t
    <2> QED BY <1>1, <2>1, <2>2, SetTo
  <1>5. CASE Proceeds(w, [active |-> TRUE] ++ NewKey(w), "nothing")
    <2> DEFINE f == [active |-> TRUE] ++ NewKey(w)
               me == f ++ worker[w]
    <2>1. run \in Runs \cup {NoRun}
      BY <1>1, ThreadIs, RowIs DEF Row
    <2>2. CASE worker[w].key = run
      <3>1. NewKey(w) = <<>>
        BY <2>2 DEF NewKey
      <3>2. DOMAIN f = {"active"} /\ f["active"] = TRUE
        BY <3>1 DEF ++
      <3> HIDE DEF f
      <3>3. me \in Thread /\ me.canceled = worker[w].canceled
        BY <1>1, <3>2 DEF ++, Thread
      <3> QED BY <1>1, <1>5, <3>3, ProceedsTo DEF f
    <2>3. CASE worker[w].key # run
      <3>1. NewKey(w) = [key |-> run, delivered |-> {}, reconciled |-> FALSE]
        BY <2>3 DEF NewKey
      <3>2. /\ DOMAIN f = {"active", "key", "delivered", "reconciled"} /\ f["active"] = TRUE
            /\ f["key"] = run /\ f["delivered"] = {} /\ f["reconciled"] = FALSE
        BY <3>1 DEF ++
      <3> HIDE DEF f
      <3>3. me \in Thread /\ me.canceled = worker[w].canceled
        BY <1>1, <2>1, <3>2 DEF ++, Thread
      <3> QED BY <1>1, <1>5, <3>3, ProceedsTo DEF f
    <2> QED BY <2>2, <2>3
  <1> QED BY <1>2, <1>3, <1>4, <1>5 DEF ClaimActive

LEMMA ToMarkTo == ASSUME Types, NEW w \in Workers, NEW k, ToMark(w, k) PROVE To(w, "marking")
  <1> DEFINE t == [pc |-> "marking", delivered |-> worker[w].delivered \cup {k}] ++ worker[w]
  <1>1. t.pc = "marking" /\ t.canceled = worker[w].canceled
    <2>1. worker[w] \in Thread
      BY ThreadIs
    <2> QED BY <2>1 DEF ++, Thread
  <1>2. worker' = [worker EXCEPT ![w] = t]
    BY DEF ToMark, Set
  <1> HIDE DEF t
  <1> QED BY <1>1, <1>2, SetTo

-----------------------------------------------------------------------------
(* A worker's step, and those who rely on it.                              *)

LEMMA OnlyOne == ASSUME AloneInv, NEW w \in Workers, worker[w].pc # "gone"
                 PROVE  /\ \A v \in Workers : worker[v].pc # "gone" => v = w
                        /\ w = mapped \/ \E c \in Callers : call[c].pc = "await" /\ call[c].awaited = w
                        /\ \A c \in Callers : call[c].pc = "await" => mapped \notin Workers
  <1>1. \A v \in Workers : worker[v].pc # "gone" =>
          v = mapped \/ \E c \in Callers : call[c].pc = "await" /\ call[c].awaited = v
    BY DEF AloneInv, Alone
  <1>2. \A c, d \in Callers : call[c].pc = "await" /\ call[d].pc = "await" => c = d
    BY DEF AloneInv, Locked, Holding
  <1>3. \A c \in Callers : call[c].pc = "await" => mapped \notin Workers
    BY SchedulerAssumption DEF AloneInv, Alone, Without
  <1> QED BY <1>1, <1>2, <1>3

Same(d) == /\ call'[d].pc = call[d].pc /\ call'[d].of = call[d].of
           /\ call'[d].then = call[d].then /\ call'[d].sch = call[d].sch

(* Whoever waits for a worker brings a row, or the row is gone for good.   *)
LEMMA ShakenWorkerFollows ==
    ASSUME AloneInv, Follows, NEW w \in Workers, worker[w].pc # "gone", NEW pc, pc # "gone",
           To(w, pc), UNCHANGED <<mapped, phase>>, \A d \in Callers : Same(d),
           RowStep, WorkerForm(worker[w])',
           phase = "up" /\ mapped = w /\ pc = "leaving" => NoRuns'
    PROVE  Follows'
  <1>1. /\ \A v \in Workers : worker[v].pc # "gone" => v = w
        /\ w = mapped \/ \E c \in Callers : call[c].pc = "await" /\ call[c].awaited = w
    BY OnlyOne
  <1>2. ~Nobody /\ ~Unborn /\ ~Unborn'
    BY DEF Nobody, Follows, WorkerForms, RowStep
  <1>3. mapped' = mapped /\ phase' = phase /\ mapped \in Workers \cup {NoWorker}
    BY DEF AloneInv, Types, TypeOfCalls
  <1>4. CallForms'
    <2> SUFFICES ASSUME NEW c \in Callers PROVE CallForm(call[c])'
      BY DEF CallForms
    <2>1. CallForm(call[c])
      BY DEF Follows, CallForms
    <2>2. Same(c)
      OBVIOUS
    <2> QED BY <1>2, <1>3, <2>1, <2>2 DEF CallForm, Exists, RowStep, Same
  <1>5. MappedWorks'
    BY <1>1, <1>3, SchedulerAssumption DEF MappedWorks, Follows, WorkerForms, To
  <1>6. ASSUME NEW v \in Workers PROVE WorkerForm(worker[v])'
    <2>1. CASE v = w
      BY <2>1
    <2>2. CASE v # w
      <3>1. worker'[v].pc = "gone"
        BY <1>1, <2>2 DEF To
      <3> QED BY <3>1 DEF WorkerForm
    <2> QED BY <2>1, <2>2
  <1>7. Tended'
    <2> SUFFICES ASSUME phase = "up", ~NoRuns'
                 PROVE  (mapped # NoWorker /\ LooksAfter(mapped)') \/ \E c \in Callers : Brings(c)'
      BY <1>3 DEF Tended, LooksAfter
    <2>1. CASE w = mapped
      BY <1>3, <2>1, SchedulerAssumption DEF To, LooksAfter, Follows, WorkerForms, MappedWorks
    <2>2. CASE w # mapped
      <3>1. PICK c \in Callers : call[c].pc = "await" /\ call[c].awaited = w
        BY <1>1, <2>2
      <3>2. ~Deleted
        BY EmptyIs DEF RowStep, Deleted, NoRuns
      <3>3. Exists(call[c].sch)
        BY <1>2, <3>1, <3>2 DEF Follows, CallForms, CallForm, Exists
      <3>4. Same(c)
        OBVIOUS
      <3> QED BY <1>3, <3>1, <3>3, <3>4 DEF Brings, Same
    <2> QED BY <2>1, <2>2
  <1>8. WorkerForms'
    BY <1>2, <1>5, <1>6 DEF WorkerForms
  <1> QED BY <1>4, <1>7, <1>8 DEF Follows, RowStep

LEMMA WorkerFollows ==
    ASSUME AloneInv, Follows, NEW w \in Workers, worker[w].pc # "gone", NEW pc, pc # "gone",
           To(w, pc), UNCHANGED <<lifecycle, phase>>, RowStep, WorkerForm(worker[w])',
           phase = "up" /\ mapped = w /\ pc = "leaving" => NoRuns'
    PROVE  Follows'
  <1>1. UNCHANGED <<call, mapped>> /\ \A d \in Callers : Same(d)
    BY DEF lifecycle, Same
  <1> QED BY <1>1, ShakenWorkerFollows

LEMMA PlainForm == ASSUME NEW w \in Workers, NEW pc, To(w, pc), pc \notin {"preparing", "claiming", "restoring"}
                   PROVE  WorkerForm(worker[w])'
  BY DEF To, WorkerForm

(* A worker leaves by itself only when there is nothing left to run.       *)
LEMMA ReadFollows == ASSUME AloneInv, Follows, NEW w \in Workers, Read(w) PROVE Follows'
  <1>1. /\ Types /\ worker[w] \in Thread /\ row \in Rows /\ RowsFollow
        /\ worker[w].pc # "gone" /\ UNCHANGED <<lifecycle, phase, row, ghost>>
    BY ThreadIs, RowCases DEF AloneInv, Follows, Read, At, Quiet, world
  <1>2. RowStep /\ (NoRuns => NoRuns')
    BY <1>1, RowStays DEF Read, Quiet, world
  <1>3. PICK pc : /\ pc # "gone" /\ To(w, pc) /\ WorkerForm(worker[w])'
                  /\ pc = "leaving" => NoRuns
    <2>1. CASE Retries(w)
      BY <1>1, <2>1, FreshTo, PlainForm
    <2>2. CASE ~Exists(row) /\ Leaves(w)
      <3>1. NoRuns
        BY <1>1, <2>2, EmptyIs DEF Exists, RowsFollow, NoRuns
      <3> QED BY <1>1, <2>2, <3>1, FreshTo, PlainForm
    <2>3. CASE row.run # NoRun /\ Set(w, [pc |-> "claiming", seen |-> row, now |-> clock, sync |-> FALSE])
      <3> DEFINE t == [pc |-> "claiming", seen |-> row, now |-> clock, sync |-> FALSE] ++ worker[w]
      <3>1. t.pc = "claiming" /\ t.canceled = worker[w].canceled /\ t.seen = row
        BY <1>1 DEF ++, Thread
      <3>2. worker' = [worker EXCEPT ![w] = t]
        BY <2>3 DEF Set
      <3> HIDE DEF t
      <3>3. To(w, "claiming") /\ worker'[w] = t
        BY <1>1, <3>1, <3>2, SetTo
      <3>4. WorkerForm(worker[w])'
        BY <2>3, <3>1, <3>3 DEF WorkerForm
      <3> QED BY <3>3, <3>4
    <2>4. CASE row.run = NoRun /\ row.posted /\ Set(w, [pc |-> "restoring", sync |-> FALSE])
      <3> DEFINE t == [pc |-> "restoring", sync |-> FALSE] ++ worker[w]
      <3>1. t.pc = "restoring" /\ t.canceled = worker[w].canceled
        BY <1>1 DEF ++, Thread
      <3>2. worker' = [worker EXCEPT ![w] = t]
        BY <2>4 DEF Set
      <3> HIDE DEF t
      <3>3. To(w, "restoring") /\ worker'[w] = t
        BY <1>1, <3>1, <3>2, SetTo
      <3>4. WorkerForm(worker[w])'
        BY <1>1, <2>4, <3>1, <3>3 DEF WorkerForm, Spent
      <3> QED BY <3>3, <3>4
    <2>5. CASE row.run = NoRun /\ ~row.posted /\ Planned(w, row)
      <3>1. CASE To(w, "leaving") /\ row.temp
        BY <1>1, <2>5, <3>1, PlainForm DEF RowsFollow, Spent
      <3>2. CASE To(w, "waiting")
        BY <3>2, PlainForm
      <3>3. CASE To(w, "claiming") /\ ~row.temp
        <4>1. WorkerForm(worker[w])'
          BY <1>1, <3>3 DEF WorkerForm, To
        <4> QED BY <3>3, <4>1
      <3> QED BY <1>1, <2>5, <3>1, <3>2, <3>3, PlannedTo
    <2> QED BY <2>1, <2>2, <2>3, <2>4, <2>5 DEF Read
  <1> QED BY <1>1, <1>2, <1>3, WorkerFollows

(* The worker of the map is not canceled.                                  *)
LEMMA CanceledInWaitFollows ==
    ASSUME AloneInv, Follows, NEW w \in Workers, CanceledInWait(w) PROVE Follows'
  <1>1. /\ Types /\ RowsFollow /\ worker[w].pc # "gone" /\ UNCHANGED <<lifecycle, phase, row, ghost>>
    BY DEF AloneInv, Follows, CanceledInWait, At, Quiet, world
  <1>2. RowStep
    BY <1>1, RowStays DEF CanceledInWait, Quiet, world
  <1>3. To(w, "leaving") /\ WorkerForm(worker[w])'
    BY <1>1, FreshTo, PlainForm DEF CanceledInWait
  <1>4. ~(phase = "up" /\ mapped = w)
    BY SchedulerAssumption DEF CanceledInWait, Halted, Follows, WorkerForms, MappedWorks
  <1> QED BY <1>1, <1>2, <1>3, <1>4, WorkerFollows

LEMMA RestoreLegacyFollows ==
    ASSUME AloneInv, Follows, NEW w \in Workers, RestoreLegacy(w) PROVE Follows'
  <1>1. /\ Types /\ RowsFollow /\ worker[w] \in Thread /\ worker[w].pc = "restoring"
        /\ UNCHANGED <<mapped, phase, existed>> /\ \A d \in Callers : Same(d)
    BY ThreadIs, UnsureSame DEF AloneInv, Follows, RestoreLegacy, At, world, Same
  <1>2. ~Spent(row) /\ Derived(Restored) /\ Derived(Ended) /\ Ended.run = NoRun
    BY <1>1, BeginsRunIs, EndedIs DEF Follows, WorkerForms, WorkerForm
  <1>3. PICK pc : /\ RowStep
                  /\ pc # "gone" /\ To(w, pc) /\ WorkerForm(worker[w])'
                  /\ pc = "leaving" => NoRuns'
    <2>1. CASE ~Exists(row) /\ Leaves(w) /\ UNCHANGED <<row, ghost>>
      <3>1. RowStep /\ NoRuns'
        BY <1>1, <2>1, RowStays, EmptyIs DEF Exists, RowsFollow, NoRuns
      <3> QED BY <1>1, <2>1, <3>1, FreshTo, PlainForm
    <2>6. CASE Retries(w) /\ UNCHANGED <<row, ghost>>
      BY <1>1, <2>6, RowStays, FreshTo, PlainForm
    <2>2. CASE /\ Exists(row) /\ Write(Restored)
               /\ Set(w, [pc |-> "claiming", seen |-> Restored, now |-> clock])
      <3> DEFINE t == [pc |-> "claiming", seen |-> Restored, now |-> clock] ++ worker[w]
      <3>1. t.pc = "claiming" /\ t.canceled = worker[w].canceled /\ t.seen = Restored
        BY <1>1 DEF ++, Thread
      <3>2. worker' = [worker EXCEPT ![w] = t]
        BY <2>2 DEF Set
      <3> HIDE DEF t
      <3>3. To(w, "claiming") /\ worker'[w] = t
        BY <1>1, <3>1, <3>2, SetTo
      <3>4. WorkerForm(worker[w])'
        BY <1>1, <2>2, <3>1, <3>3, BeginsRunIs DEF WorkerForm
      <3> QED BY <1>1, <1>2, <2>2, <3>3, <3>4, RowStepIs
    <2>3. CASE Lose(Restored) /\ Retries(w)
      BY <1>1, <1>2, <2>3, RowStepIs, FreshTo, PlainForm
    <2>4. CASE /\ Exists(row) /\ Write(Ended)
               /\ IF row.temp THEN Leaves(w) ELSE Planned(w, Ended)
      <3>1. RowStep /\ NoRuns'
        BY <1>1, <1>2, <2>4, RowStepIs DEF NoRuns, Write, Stored
      <3>2. CASE Leaves(w)
        BY <1>1, <3>1, <3>2, FreshTo, PlainForm
      <3>3. CASE ~row.temp /\ Planned(w, Ended)
        <4>1. Ended \in Rows /\ ~Ended.temp /\ row' = Ended
          BY <1>1, <2>4, <3>3, RowsAre, EndedIs DEF Write, Stored
        <4>2. To(w, "waiting") \/ To(w, "claiming")
          BY <1>1, <3>3, <4>1, PlannedTo
        <4>3. WorkerForm(worker[w])'
          BY <4>1, <4>2 DEF WorkerForm, To
        <4> QED BY <3>1, <4>2, <4>3
      <3> QED BY <2>4, <3>2, <3>3
    <2>5. CASE Lose(Ended) /\ Retries(w)
      BY <1>1, <1>2, <2>5, RowStepIs, FreshTo, PlainForm
    <2> QED BY <2>1, <2>2, <2>3, <2>4, <2>5, <2>6 DEF RestoreLegacy
  <1>4. worker[w].pc # "gone"
    BY <1>1
  <1> QED BY <1>1, <1>3, <1>4, ShakenWorkerFollows

LEMMA ClaimActiveFollows == ASSUME AloneInv, Follows, NEW w \in Workers, ClaimActive(w) PROVE Follows'
  <1>1. /\ Types /\ RowsFollow /\ worker[w] \in Thread /\ worker[w].pc = "claiming" /\ worker[w].pc # "gone"
        /\ UNCHANGED <<lifecycle, phase, row, ghost>>
    BY ThreadIs DEF AloneInv, Follows, ClaimActive, At, Quiet, world
  <1>2. RowStep
    BY <1>1, RowStays DEF ClaimActive, Quiet, world
  <1>3. PICK pc : /\ pc # "gone" /\ To(w, pc) /\ WorkerForm(worker[w])'
                  /\ pc = "leaving" => ~(phase = "up" /\ mapped = w)
    <2>1. CASE ~MayClaim(w) /\ To(w, "leaving")
      <3>1. ~(phase = "up" /\ mapped = w)
        BY <2>1, SchedulerAssumption DEF MayClaim, Halted, Follows, WorkerForms, MappedWorks
      <3> QED BY <2>1, <3>1, PlainForm
    <2>2. CASE worker[w].seen.run = NoRun /\ To(w, "preparing")
      <3>1. ~row.temp
        BY <1>1, <2>2 DEF Follows, WorkerForms, WorkerForm
      <3>2. WorkerForm(worker[w])'
        BY <1>1, <2>2, <3>1 DEF WorkerForm, To
      <3> QED BY <2>2, <3>2
    <2>3. CASE \E pc \in Duties \cup {"waiting", "closing"} : To(w, pc)
      BY <2>3, PlainForm DEF Duties
    <2> QED BY <2>1, <2>2, <2>3, ClaimActiveTo
  <1> QED BY <1>1, <1>2, <1>3, WorkerFollows

(* A worker prepares a run in a regular row only.                          *)
LEMMA PrepareFollows == ASSUME AloneInv, Follows, NEW w \in Workers, Prepare(w) PROVE Follows'
  <1> DEFINE r == worker[w].target
  <1>1. /\ Types /\ RowsFollow /\ worker[w].pc = "preparing" /\ worker[w].pc # "gone"
        /\ r \in Runs \cup {NoRun} /\ UNCHANGED <<lifecycle, phase, existed>>
    BY ThreadIs DEF AloneInv, Follows, Prepare, At, world
  <1>2. ~row.temp
    BY <1>1 DEF Follows, WorkerForms, WorkerForm
  <1>3. RowStep
    <2>1. CASE CanBegin(r) /\ (Write(Prepared(r)) \/ Lose(Prepared(r)))
      <3>1. Derived(Prepared(r))
        BY <1>1, <1>2, <2>1, BeginsRunIs DEF CanBegin
      <3> QED BY <1>1, <2>1, <3>1, RowStepIs
    <2>2. CASE UNCHANGED <<row, ghost>>
      BY <1>1, <2>2, RowStays
    <2> QED BY <2>1, <2>2 DEF Prepare
  <1>4. To(w, "waiting")
    BY <1>1, FreshTo DEF Prepare
  <1>5. WorkerForm(worker[w])'
    BY <1>4, PlainForm
  <1> QED BY <1>1, <1>3, <1>4, <1>5, WorkerFollows

LEMMA CloseFollows == ASSUME AloneInv, Follows, NEW w \in Workers, Close(w) PROVE Follows'
  <1>1. /\ Types /\ RowsFollow /\ worker[w].pc # "gone" /\ UNCHANGED <<lifecycle, phase, existed>>
        /\ Derived(Ended) /\ Ended.run = NoRun
    BY EndedIs DEF AloneInv, Follows, Close, At, world
  <1>2. RowStep
    BY <1>1, RowStepIs DEF Close
  <1>3. PICK pc : pc \in {"waiting", "leaving"} /\ To(w, pc) /\ (pc = "leaving" => NoRuns')
    <2>1. CASE Write(Ended) /\ Leaves(w)
      <3>1. NoRuns'
        BY <1>1, <2>1 DEF NoRuns, Write, Stored
      <3> QED BY <1>1, <2>1, <3>1, FreshTo
    <2>2. CASE Rests(w, 0) \/ Retries(w)
      BY <1>1, <2>2, FreshTo
    <2> QED BY <2>1, <2>2 DEF Close
  <1>4. WorkerForm(worker[w])'
    BY <1>3, PlainForm
  <1> QED BY <1>1, <1>2, <1>3, <1>4, WorkerFollows

(* The duties of a run that goes on.                                       *)
LEMMA DutyFollows ==
    ASSUME AloneInv, Follows, NEW w \in Workers, worker[w].pc # "gone", UNCHANGED <<lifecycle, phase>>,
           RowStep, NEW pc \in Duties \cup {"waiting"}, To(w, pc)
    PROVE  Follows'
  BY PlainForm, WorkerFollows DEF Duties

LEMMA NotifyFollows == ASSUME AloneInv, Follows, NEW w \in Workers, Notify(w) PROVE Follows'
  <1>1. Types /\ RowsFollow /\ worker[w].pc # "gone" /\ UNCHANGED <<lifecycle, phase>>
    BY DEF AloneInv, Follows, Notify, At, world
  <1>2. RowStep
    BY <1>1, RowStays DEF Notify, world
  <1>3. \E pc \in Duties \cup {"waiting"} : To(w, pc)
    BY <1>1, ToMarkTo, GoesOnTo DEF Notify, Duties
  <1> QED BY <1>1, <1>2, <1>3, DutyFollows

LEMMA TooLateFollows == ASSUME AloneInv, Follows, NEW w \in Workers, TooLate(w) PROVE Follows'
  <1>1. Types /\ RowsFollow /\ worker[w].pc # "gone" /\ UNCHANGED <<lifecycle, phase>>
    BY DEF AloneInv, Follows, TooLate, At, Quiet, world
  <1>2. RowStep
    BY <1>1, RowStays DEF TooLate, Quiet, world
  <1>3. \E pc \in Duties \cup {"waiting"} : To(w, pc)
    BY <1>1, ToMarkTo DEF TooLate, Duties
  <1> QED BY <1>1, <1>2, <1>3, DutyFollows

LEMMA MarkFollows == ASSUME AloneInv, Follows, NEW w \in Workers, Mark(w) PROVE Follows'
  <1>1. /\ Types /\ RowsFollow /\ worker[w].pc # "gone" /\ UNCHANGED <<lifecycle, phase, existed>>
        /\ Derived(Marked(worker[w].mark))
    BY ThreadIs, SameRunIs DEF AloneInv, Follows, Mark, At, Quiet, world
  <1>2. RowStep
    BY <1>1, RowStepIs DEF Mark
  <1>3. \E pc \in Duties \cup {"waiting"} : To(w, pc)
    BY <1>1, GoesOnTo DEF Mark
  <1> QED BY <1>1, <1>2, <1>3, DutyFollows

LEMMA RefreshFollows == ASSUME AloneInv, Follows, NEW w \in Workers, Refresh(w) PROVE Follows'
  <1>1. /\ Types /\ RowsFollow /\ worker[w].pc # "gone" /\ UNCHANGED <<lifecycle, phase, existed>>
        /\ Derived(Posted)
    BY SameRunIs DEF AloneInv, Follows, Refresh, At, Quiet, world
  <1>2. RowStep
    BY <1>1, RowStepIs DEF Refresh
  <1>3. \E pc \in Duties \cup {"waiting"} : To(w, pc)
    BY <1>1, GoesOnTo DEF Refresh
  <1> QED BY <1>1, <1>2, <1>3, DutyFollows

(* A worker that was stopped leaves its run to the call that stopped it.   *)
LEMMA LeaveFollows == ASSUME AloneInv, Follows, NEW w \in Workers, Leave(w) PROVE Follows'
  <1>1. /\ Types /\ RowsFollow /\ worker[w].pc = "leaving" /\ UNCHANGED <<call, phase, row, ghost, existed>>
        /\ worker \in [Workers -> Thread] /\ mapped \in Workers \cup {NoWorker}
    BY DEF AloneInv, Types, TypeOfWorkers, TypeOfCalls, Follows, Leave, At, world
  <1>2. RowStep /\ (NoRuns <=> NoRuns')
    BY <1>1, RowStays DEF NoRuns
  <1>3. \A v \in Workers : worker'[v].pc = "gone"
    BY <1>1, OnlyOne, SpawnedIs DEF Leave
  <1>4. ~Unborn /\ ~Unborn'
    BY <1>1, <1>2 DEF Follows, WorkerForms, Nobody, RowStep
  <1>5. CallForms'
    <2> SUFFICES ASSUME NEW c \in Callers PROVE CallForm(call[c])'
      BY DEF CallForms
    <2>1. CallForm(call[c])
      BY DEF Follows, CallForms
    <2> QED BY <1>1, <1>2, <1>3, <1>4, <2>1 DEF CallForm, Exists, Nobody, RowStep
  <1>6. mapped' = NoWorker
    <2>1. mapped # w => mapped = NoWorker
      BY <1>1, OnlyOne DEF Follows, WorkerForms, MappedWorks
    <2> QED BY <2>1 DEF Leave
  <1>7. WorkerForms'
    BY <1>3, <1>4, <1>6 DEF WorkerForms, MappedWorks, WorkerForm
  <1>8. Tended'
    <2>1. CASE w = mapped
      BY <1>1, <1>2, <2>1, SchedulerAssumption DEF Tended, Follows, WorkerForms, MappedWorks
    <2>2. CASE w # mapped
      <3>1. PICK c \in Callers : call[c].pc = "await" /\ call[c].awaited = w
        BY <1>1, <2>2, OnlyOne
      <3>2. Deleted => NoRuns
        BY EmptyIs DEF Deleted, NoRuns
      <3>3. ~Deleted => Exists(call[c].sch)
        BY <1>1, <3>1 DEF Follows, CallForms, CallForm, Exists, Nobody
      <3> QED BY <1>1, <1>2, <3>1, <3>2, <3>3 DEF Tended, Brings
    <2> QED BY <2>1, <2>2
  <1> QED BY <1>2, <1>5, <1>7, <1>8 DEF Follows, RowStep

LEMMA WorkerStepFollows == ASSUME AloneInv, Follows, NEW w \in Workers, WorkerStep(w) PROVE Follows'
  BY ReadFollows, CanceledInWaitFollows, RestoreLegacyFollows, ClaimActiveFollows, PrepareFollows,
     CloseFollows, NotifyFollows, TooLateFollows, MarkFollows, RefreshFollows, LeaveFollows
  DEF WorkerStep

-----------------------------------------------------------------------------
(* The steps of calls, and those who rely on them.                         *)

Looks == mapped # NoWorker /\ LooksAfter(mapped)

(* The worker stays.  A call that no longer brings a row has found that    *)
(* its run is looked after, or that there is none.                         *)
LEMMA CallsFollow ==
    ASSUME AloneInv, Follows, UNCHANGED <<worker, mapped, phase>>, RowStep, NoRuns => NoRuns',
           \A d \in Callers :
              \/ Same(d)
              \/ /\ CallForm(call[d])'
                 /\ phase = "up" /\ Brings(d) => Brings(d)' \/ NoRuns' \/ Looks
    PROVE  Follows'
  <1>1. CallForms'
    <2> SUFFICES ASSUME NEW d \in Callers, Same(d) PROVE CallForm(call[d])'
      BY DEF CallForms
    <2>1. CallForm(call[d])
      BY DEF Follows, CallForms
    <2> QED BY <2>1 DEF CallForm, Exists, Same, RowStep, Nobody
  <1>2. WorkerForms'
    <2>1. Unborn' => Nobody'
      BY DEF Follows, WorkerForms, RowStep, Nobody
    <2>2. MappedWorks'
      BY DEF Follows, WorkerForms, MappedWorks
    <2>3. \A w \in Workers : WorkerForm(worker[w])'
      BY DEF Follows, WorkerForms, WorkerForm, RowStep
    <2> QED BY <2>1, <2>2, <2>3 DEF WorkerForms
  <1>3. Tended'
    <2> SUFFICES ASSUME phase = "up", ~NoRuns' PROVE Looks \/ \E d \in Callers : Brings(d)'
      BY DEF Tended, Looks, LooksAfter
    <2>1. Looks \/ \E d \in Callers : Brings(d)
      BY DEF Follows, Tended, Looks
    <2> QED BY <2>1 DEF Same, Brings, Exists
  <1> QED BY <1>1, <1>2, <1>3 DEF Follows, RowStep

(* What becomes of the fields of a call.                                   *)
Now(c, pc, s, then) == /\ call'[c].pc = pc /\ call'[c].sch = s /\ call'[c].then = then
                       /\ call'[c].of = call[c].of
                       /\ \A d \in Callers : d # c => call'[d] = call[d]

LEMMA NowIs == ASSUME Types, NEW c \in Callers, NEW new, call' = [call EXCEPT ![c] = new],
                      NEW pc, NEW s, NEW then,
                      new.pc = pc, new.sch = s, new.then = then, new.of = call[c].of
               PROVE  Now(c, pc, s, then)
  BY DEF Now, Types, TypeOfCalls

LEMMA GoesTo ==
    ASSUME Types, NEW c \in Callers, NEW pc, NEW x
    PROVE  /\ Goes(c, [pc |-> pc]) \/ Goes(c, [pc |-> pc, ok |-> x]) \/ Goes(c, [pc |-> pc, run |-> x])
                 \/ Goes(c, [pc |-> pc, awaited |-> x])
              => Now(c, pc, call[c].sch, call[c].then)
           /\ Goes(c, [pc |-> pc, sch |-> x]) => Now(c, pc, x, call[c].then)
  <1>1. call[c] \in Call
    BY CallIs
  <1>2. ASSUME Goes(c, [pc |-> pc]) PROVE Now(c, pc, call[c].sch, call[c].then)
    <2> DEFINE new == [pc |-> pc] ++ call[c]
    <2>1. new.pc = pc /\ new.sch = call[c].sch /\ new.then = call[c].then /\ new.of = call[c].of
      BY <1>1 DEF ++, Call
    <2>2. call' = [call EXCEPT ![c] = new]
      BY <1>2 DEF Goes
    <2> HIDE DEF new
    <2> QED BY <2>1, <2>2, NowIs
  <1>3. ASSUME Goes(c, [pc |-> pc, ok |-> x]) PROVE Now(c, pc, call[c].sch, call[c].then)
    <2> DEFINE new == [pc |-> pc, ok |-> x] ++ call[c]
    <2>1. new.pc = pc /\ new.sch = call[c].sch /\ new.then = call[c].then /\ new.of = call[c].of
      BY <1>1 DEF ++, Call
    <2>2. call' = [call EXCEPT ![c] = new]
      BY <1>3 DEF Goes
    <2> HIDE DEF new
    <2> QED BY <2>1, <2>2, NowIs
  <1>4. ASSUME Goes(c, [pc |-> pc, run |-> x]) PROVE Now(c, pc, call[c].sch, call[c].then)
    <2> DEFINE new == [pc |-> pc, run |-> x] ++ call[c]
    <2>1. new.pc = pc /\ new.sch = call[c].sch /\ new.then = call[c].then /\ new.of = call[c].of
      BY <1>1 DEF ++, Call
    <2>2. call' = [call EXCEPT ![c] = new]
      BY <1>4 DEF Goes
    <2> HIDE DEF new
    <2> QED BY <2>1, <2>2, NowIs
  <1>5. ASSUME Goes(c, [pc |-> pc, awaited |-> x]) PROVE Now(c, pc, call[c].sch, call[c].then)
    <2> DEFINE new == [pc |-> pc, awaited |-> x] ++ call[c]
    <2>1. new.pc = pc /\ new.sch = call[c].sch /\ new.then = call[c].then /\ new.of = call[c].of
      BY <1>1 DEF ++, Call
    <2>2. call' = [call EXCEPT ![c] = new]
      BY <1>5 DEF Goes
    <2> HIDE DEF new
    <2> QED BY <2>1, <2>2, NowIs
  <1>6. ASSUME Goes(c, [pc |-> pc, sch |-> x]) PROVE Now(c, pc, x, call[c].then)
    <2> DEFINE new == [pc |-> pc, sch |-> x] ++ call[c]
    <2>1. new.pc = pc /\ new.sch = x /\ new.then = call[c].then /\ new.of = call[c].of
      BY <1>1 DEF ++, Call
    <2>2. call' = [call EXCEPT ![c] = new]
      BY <1>6 DEF Goes
    <2> HIDE DEF new
    <2> QED BY <2>1, <2>2, NowIs
  <1> QED BY <1>2, <1>3, <1>4, <1>5, <1>6

(* The call is over.                                                       *)
Over(c) == /\ call'[c].pc = "idle" /\ call'[c].sch = NoRow
           /\ \A d \in Callers : d # c => call'[d] = call[d]

LEMMA OverIs == ASSUME Types, NEW c \in Callers
                PROVE  Goes(c, Idle) \/ (\E ok : Ends(c, ok)) => Over(c)
  <1>1. call[c] \in Call /\ call \in [Callers -> Call]
    BY CallIs DEF Types, TypeOfCalls
  <1>2. (Idle ++ call[c]).pc = "idle" /\ (Idle ++ call[c]).sch = NoRow
    BY <1>1 DEF Idle, ++
  <1>3. ASSUME NEW new, new.pc = "idle", new.sch = NoRow, call' = [call EXCEPT ![c] = new] PROVE Over(c)
    BY <1>1, <1>3 DEF Over
  <1> QED BY <1>2, <1>3, IdleIs DEF Goes, Ends

LEMMA OneCallFollows ==
    ASSUME AloneInv, Follows, NEW c \in Callers, UNCHANGED <<worker, mapped, phase>>,
           RowStep, NoRuns => NoRuns',
           \A d \in Callers : d # c => call'[d] = call[d],
           CallForm(call[c])',
           phase = "up" /\ Brings(c) => Brings(c)' \/ NoRuns' \/ Looks
    PROVE  Follows'
  <1>1. \A d \in Callers : d # c => Same(d)
    BY DEF Same
  <1> QED BY <1>1, CallsFollow

LEMMA OverFollows ==
    ASSUME AloneInv, Follows, NEW c \in Callers, UNCHANGED <<worker, mapped, phase>>,
           RowStep, NoRuns => NoRuns', Over(c), phase = "up" /\ Brings(c) => NoRuns' \/ Looks
    PROVE  Follows'
  <1>1. CallForm(call[c])'
    BY DEF Over, CallForm
  <1> QED BY <1>1, OneCallFollows DEF Over

LEMMA RereadFollows == ASSUME AloneInv, Follows, NEW c \in Callers, Reread(c) PROVE Follows'
  <1>1. /\ Types /\ RowsFollow /\ CallForm(call[c]) /\ call[c].pc = "reread" /\ ~Brings(c)
        /\ UNCHANGED <<worker, mapped, phase, row, ghost, existed>>
    BY DEF AloneInv, Follows, CallForms, Reread, CallAt, world, Brings
  <1>2. RowStep /\ (NoRuns => NoRuns')
    BY <1>1, RowStays
  <1>3. CASE Goes(c, Idle)
    BY <1>1, <1>2, <1>3, OverIs, OverFollows
  <1>4. CASE Exists(row) /\ Goes(c, [pc |-> "remove", sch |-> row])
    <2>1. Now(c, "remove", row, call[c].then)
      BY <1>1, <1>4, GoesTo
    <2>2. CallForm(call[c])'
      BY <1>1, <1>4, <2>1 DEF CallForm, Now, Exists, Unborn
    <2> QED BY <1>1, <1>2, <2>1, <2>2, OneCallFollows DEF Now
  <1> QED BY <1>3, <1>4 DEF Reread

LEMMA DeleteFollows == ASSUME AloneInv, Follows, NEW c \in Callers, Delete(c) PROVE Follows'
  <1>1. /\ Types /\ RowsFollow /\ CallForm(call[c]) /\ call[c].pc = "delete" /\ ~Brings(c)
        /\ existed /\ call[c].of # "edit" /\ call[c].sch = NoRow
        /\ UNCHANGED <<worker, mapped, phase, existed>>
    BY DEF AloneInv, Follows, CallForms, CallForm, Delete, CallAt, world, Brings, Exists
  <1>2. Derived(NoRow) /\ Derived(Ended) /\ Ended.run = NoRun /\ NoRow.run = NoRun
    BY <1>1, EndedIs
  <1>3. CASE Write(NoRow) /\ Goes(c, [pc |-> "remove"])
    <2>1. RowStep /\ (NoRuns => NoRuns')
      BY <1>1, <1>2, <1>3, RowStepIs, NoRunsIs
    <2>2. Now(c, "remove", NoRow, call[c].then)
      BY <1>1, <1>3, GoesTo
    <2>3. Deleted'
      BY <1>1, <1>3 DEF Deleted, Write, Stored
    <2>4. CallForm(call[c])'
      BY <1>1, <2>2, <2>3 DEF CallForm, Now, Exists
    <2> QED BY <1>1, <2>1, <2>2, <2>4, OneCallFollows DEF Now
  <1>4. CASE Lose(Ended) /\ Goes(c, Idle)
    <2>1. RowStep /\ (NoRuns => NoRuns')
      BY <1>1, <1>2, <1>4, RowStepIs, NoRunsIs
    <2> QED BY <1>1, <1>4, <2>1, OverIs, OverFollows
  <1>5. CASE ghost = {} /\ row' = Ended /\ ghost' \in {{}, {NoRow}} /\ Goes(c, Idle)
    <2>1. NoRuns'
      BY <1>2, <1>5 DEF NoRuns
    <2>2. RowStep
      <3>1. row'.temp => row.temp
        BY <1>2, <1>5, EmptyIs DEF Derived
      <3>2. Spent(row)' => Spent(row)
        BY <1>2, <1>5 DEF Derived, Spent
      <3>3. RowsFollow'
        BY <1>1, <1>2, <1>5, <2>1, EmptyIs DEF RowsFollow
      <3> QED BY <1>1, <1>2, <1>5, <3>1, <3>2, <3>3 DEF RowStep, Deleted, Unborn, Derived
    <2> QED BY <1>1, <1>5, <2>1, <2>2, OverIs, OverFollows
  <1> QED BY <1>3, <1>4, <1>5 DEF Delete

(* A call that finds the worker busy leaves the run to it: the worker of   *)
(* the map leaves only when there is no run.                               *)
LEMMA ScheduleNextFollows == ASSUME AloneInv, Follows, NEW c \in Callers, ScheduleNext(c) PROVE Follows'
  <1>1. /\ Types /\ RowsFollow /\ CallForm(call[c]) /\ call[c].pc \in {"schedule", "check"}
        /\ UNCHANGED <<worker, mapped, phase, row, ghost, existed>>
    BY DEF AloneInv, Follows, CallForms, ScheduleNext, CallAt, world
  <1>2. RowStep /\ (NoRuns => NoRuns')
    BY <1>1, RowStays
  <1>3. CASE Busy(c) /\ Ends(c, call[c].ok)
    <2>1. phase = "up" => Looks \/ NoRuns'
      BY <1>2, <1>3 DEF Busy, Looks, LooksAfter, Follows, WorkerForms, MappedWorks
    <2> QED BY <1>1, <1>2, <1>3, <2>1, OverIs, OverFollows
  <1>4. CASE Goes(c, [pc |-> "replace"])
    <2>1. Now(c, "replace", call[c].sch, call[c].then)
      BY <1>1, <1>4, GoesTo
    <2>2. CallForm(call[c])' /\ (Brings(c) => Brings(c)')
      BY <1>1, <1>2, <2>1 DEF CallForm, Now, Exists, Brings, RowStep
    <2> QED BY <1>1, <1>2, <2>1, <2>2, OneCallFollows DEF Now
  <1> QED BY <1>3, <1>4 DEF ScheduleNext

LEMMA WorkerStoppedFollows == ASSUME AloneInv, Follows, NEW c \in Callers, WorkerStopped(c) PROVE Follows'
  <1>1. /\ Types /\ RowsFollow /\ CallForm(call[c]) /\ call[c].pc = "await"
        /\ UNCHANGED <<worker, mapped, phase, row, ghost, existed>>
    BY DEF AloneInv, Follows, CallForms, WorkerStopped, CallAt, world
  <1>2. RowStep /\ (NoRuns => NoRuns')
    BY <1>1, RowStays
  <1>3. ASSUME NEW pc \in {"sync", "schedule"}, Exists(call[c].sch),
               Goes(c, [pc |-> pc, awaited |-> NoWorker])
        PROVE  Follows'
    <2>1. Now(c, pc, call[c].sch, call[c].then)
      BY <1>1, <1>3, GoesTo
    <2>2. CallForm(call[c])' /\ (Brings(c) => Brings(c)')
      BY <1>1, <1>2, <1>3, <2>1 DEF CallForm, Now, Exists, Brings, RowStep
    <2> QED BY <1>1, <1>2, <2>1, <2>2, OneCallFollows DEF Now
  <1>4. CASE call[c].then = "sync" /\ Goes(c, [pc |-> "sync", awaited |-> NoWorker])
    BY <1>1, <1>3, <1>4 DEF CallForm
  <1>5. CASE /\ call[c].then = "end" /\ call[c].of = "edit"
             /\ Goes(c, [pc |-> "schedule", awaited |-> NoWorker])
    BY <1>1, <1>3, <1>5 DEF CallForm
  <1>6. CASE call[c].then = "end" /\ call[c].of # "edit" /\ Ends(c, call[c].ok)
    <2>1. ~Brings(c)
      BY <1>1, <1>6 DEF CallForm, Brings
    <2> QED BY <1>1, <1>2, <1>6, <2>1, OverIs, OverFollows
  <1> QED BY <1>4, <1>5, <1>6 DEF WorkerStopped

(* A row that is kept is there; one that is not there has nobody, or will  *)
(* never be there again.                                                   *)
LEMMA ReconfigureFollows == ASSUME AloneInv, Follows, NEW c \in Callers, Reconfigure(c) PROVE Follows'
  <1>1. /\ Types /\ RowsFollow /\ CallForm(call[c]) /\ call[c].pc = "list" /\ ~Brings(c)
        /\ call[c].of # "edit" /\ call[c] \in Call
        /\ UNCHANGED <<worker, mapped, phase, row, ghost, existed>>
    BY CallIs DEF AloneInv, Follows, CallForms, CallForm, Reconfigure, CallAt, world, Brings
  <1>2. RowStep /\ (NoRuns => NoRuns')
    BY <1>1, RowStays
  <1>3. CASE Ends(c, FALSE)
    BY <1>1, <1>2, <1>3, OverIs, OverFollows
  <1>4. CASE Keeps(row) /\ Goes(c, [pc |-> "check", sch |-> row])
    <2>1. Now(c, "check", row, call[c].then)
      BY <1>1, <1>4, GoesTo
    <2>2. Exists(row)
      BY <1>4, EmptyIs DEF Keeps, Exists
    <2>3. CallForm(call[c])'
      BY <1>1, <2>1, <2>2 DEF CallForm, Now, Exists, Unborn
    <2> QED BY <1>1, <1>2, <2>1, <2>3, OneCallFollows DEF Now
  <1>5. CASE Goes(c, [pc |-> "stop", sch |-> row, then |-> IF Exists(row) THEN "sync" ELSE "end"])
    <2> DEFINE then == IF Exists(row) THEN "sync" ELSE "end"
               new == [pc |-> "stop", sch |-> row, then |-> then] ++ call[c]
    <2>1. new.pc = "stop" /\ new.sch = row /\ new.then = then /\ new.of = call[c].of
      BY <1>1 DEF ++, Call
    <2>2. call' = [call EXCEPT ![c] = new]
      BY <1>5 DEF Goes
    <2> HIDE DEF new
    <2>3. Now(c, "stop", row, then)
      BY <1>1, <2>1, <2>2, NowIs
    <2>4. (Exists(row) <=> then = "sync") /\ then # "start"
      OBVIOUS
    <2> HIDE DEF then
    <2>5. row = NoRow => (Deleted \/ Nobody)'
      BY <1>1, <1>2 DEF Unborn, Follows, WorkerForms, Nobody, RowStep
    <2>6. Unborn' => row = NoRow
      BY <1>1 DEF Unborn
    <2>7. CallForm(call[c])'
      BY <1>1, <2>3, <2>4, <2>5, <2>6 DEF CallForm, Now, Exists
    <2> QED BY <1>1, <1>2, <2>3, <2>7, OneCallFollows DEF Now
  <1> QED BY <1>3, <1>4, <1>5 DEF Reconfigure

LEMMA SyncPendingFollows == ASSUME AloneInv, Follows, NEW c \in Callers, SyncPending(c) PROVE Follows'
  <1>1. /\ Types /\ RowsFollow /\ CallForm(call[c]) /\ call[c].pc = "sync" /\ Exists(call[c].sch)
        /\ UNCHANGED <<worker, mapped, phase, row, ghost, existed>>
    BY DEF AloneInv, Follows, CallForms, CallForm, SyncPending, CallAt, world
  <1>2. RowStep /\ (NoRuns => NoRuns')
    BY <1>1, RowStays
  <1>3. CASE Goes(c, [pc |-> "check", ok |-> FALSE])
    <2>1. Now(c, "check", call[c].sch, call[c].then)
      BY <1>1, <1>3, GoesTo
    <2>2. CallForm(call[c])' /\ Brings(c)'
      BY <1>1, <1>2, <2>1 DEF CallForm, Now, Exists, Brings, RowStep
    <2> QED BY <1>1, <1>2, <2>1, <2>2, OneCallFollows DEF Now
  <1>4. CASE SyncWaits /\ ~Exists(row) /\ Ends(c, FALSE)
    <2>1. NoRuns'
      BY <1>1, <1>4, EmptyIs DEF NoRuns, SyncWaits, Exists
    <2> QED BY <1>1, <1>2, <1>4, <2>1, OverIs, OverFollows
  <1>5. CASE Exists(row) /\ Goes(c, [pc |-> "check", sch |-> row])
    <2>1. Now(c, "check", row, call[c].then)
      BY <1>1, <1>5, GoesTo
    <2>2. CallForm(call[c])' /\ Brings(c)'
      BY <1>1, <1>5, <2>1 DEF CallForm, Now, Exists, Brings, Unborn
    <2> QED BY <1>1, <1>2, <2>1, <2>2, OneCallFollows DEF Now
  <1>6. CASE Exists(row) /\ Goes(c, [pc |-> "cancel", run |-> row.run])
    <2>1. Now(c, "cancel", call[c].sch, call[c].then)
      BY <1>1, <1>6, GoesTo
    <2>2. CallForm(call[c])' /\ Brings(c)'
      BY <1>1, <1>2, <2>1 DEF CallForm, Now, Exists, Brings, RowStep
    <2> QED BY <1>1, <1>2, <2>1, <2>2, OneCallFollows DEF Now
  <1> QED BY <1>3, <1>4, <1>5, <1>6 DEF SyncPending

LEMMA CancelPendingFollows == ASSUME AloneInv, Follows, NEW c \in Callers, CancelPending(c) PROVE Follows'
  <1>1. /\ Types /\ RowsFollow /\ CallForm(call[c]) /\ call[c].pc = "cancel" /\ Exists(call[c].sch)
        /\ UNCHANGED <<worker, mapped, phase, existed>>
        /\ Derived(Ended) /\ Ended.run = NoRun
    BY EndedIs DEF AloneInv, Follows, CallForms, CallForm, CancelPending, CallAt, world
  <1>2. RowStep /\ (NoRuns => NoRuns')
    <2>1. CASE Write(Ended) \/ Lose(Ended)
      BY <1>1, <2>1, RowStepIs, NoRunsIs
    <2>2. CASE UNCHANGED <<row, ghost>>
      BY <1>1, <2>2, RowStays
    <2> QED BY <2>1, <2>2 DEF CancelPending
  <1>3. Now(c, "refetch", call[c].sch, call[c].then)
    BY <1>1, GoesTo DEF CancelPending
  <1>4. CallForm(call[c])' /\ Brings(c)'
    BY <1>1, <1>2, <1>3 DEF CallForm, Now, Exists, Brings, RowStep
  <1> QED BY <1>1, <1>2, <1>3, <1>4, OneCallFollows DEF Now

LEMMA RefetchFollows == ASSUME AloneInv, Follows, NEW c \in Callers, Refetch(c) PROVE Follows'
  <1>1. /\ Types /\ RowsFollow /\ CallForm(call[c]) /\ call[c].pc = "refetch" /\ Exists(call[c].sch)
        /\ UNCHANGED <<worker, mapped, phase, row, ghost, existed>>
    BY DEF AloneInv, Follows, CallForms, CallForm, Refetch, CallAt, world
  <1>2. RowStep /\ (NoRuns => NoRuns')
    BY <1>1, RowStays
  <1>3. CASE Goes(c, [pc |-> "check", ok |-> FALSE])
    <2>1. Now(c, "check", call[c].sch, call[c].then)
      BY <1>1, <1>3, GoesTo
    <2>2. CallForm(call[c])' /\ Brings(c)'
      BY <1>1, <1>2, <2>1 DEF CallForm, Now, Exists, Brings, RowStep
    <2> QED BY <1>1, <1>2, <2>1, <2>2, OneCallFollows DEF Now
  <1>4. CASE Exists(row) /\ Goes(c, [pc |-> "check", sch |-> row])
    <2>1. Now(c, "check", row, call[c].then)
      BY <1>1, <1>4, GoesTo
    <2>2. CallForm(call[c])' /\ Brings(c)'
      BY <1>1, <1>4, <2>1 DEF CallForm, Now, Exists, Brings, Unborn
    <2> QED BY <1>1, <1>2, <2>1, <2>2, OneCallFollows DEF Now
  <1>5. CASE ~Exists(row) /\ Ends(c, FALSE)
    <2>1. NoRuns'
      BY <1>1, <1>2, <1>5, EmptyIs DEF CallForm, Exists, RowsFollow, NoRuns
    <2> QED BY <1>1, <1>2, <1>5, <2>1, OverIs, OverFollows
  <1> QED BY <1>3, <1>4, <1>5 DEF Refetch

(* A call that stops the worker brings its row, or there is nothing to run. *)
LEMMA StopFollows ==
    ASSUME AloneInv, Follows, NEW c \in Callers, call[c].pc \in {"remove", "replace", "stop"},
           NEW fields, Stops(c, fields), UNCHANGED <<world, row, ghost>>,
           NEW then, Now(c, "await", call[c].sch, then),
           IF then = "end" THEN Exists(call[c].sch) <=> call[c].of = "edit" ELSE Exists(call[c].sch)
    PROVE  Follows'
  <1>1. Types /\ RowsFollow /\ CallForm(call[c]) /\ UNCHANGED <<phase, row, ghost, existed>> /\ mapped' = NoWorker
    BY DEF AloneInv, Follows, CallForms, world, Stops
  <1>2. RowStep /\ (NoRuns <=> NoRuns')
    BY <1>1, RowStays DEF NoRuns
  <1>3. \A w \in Workers : worker'[w].pc = worker[w].pc /\ worker'[w].seen = worker[w].seen
    BY <1>1, StopsKeeps
  <1>4. (Nobody <=> Nobody') /\ (Unborn <=> Unborn') /\ (Deleted <=> Deleted')
    BY <1>1, <1>3 DEF Nobody, Unborn, Deleted
  <1>5. call[c].sch = NoRow => Deleted \/ Nobody
    BY <1>1 DEF CallForm, Exists
  <1>6. CallForms'
    <2>1. CallForm(call[c])'
      BY <1>1, <1>4, <1>5 DEF CallForm, Now, Exists
    <2>2. ASSUME NEW d \in Callers, d # c PROVE CallForm(call[d])'
      <3>1. CallForm(call[d]) /\ call'[d] = call[d]
        BY <2>2 DEF Follows, CallForms, Now
      <3> QED BY <1>1, <1>4, <3>1 DEF CallForm, Exists
    <2> QED BY <2>1, <2>2 DEF CallForms
  <1>7. WorkerForms'
    <2>1. Unborn' => Nobody'
      BY <1>4 DEF Follows, WorkerForms
    <2>2. \A w \in Workers : WorkerForm(worker[w])'
      BY <1>1, <1>3 DEF Follows, WorkerForms, WorkerForm, Spent
    <2> QED BY <1>1, <2>1, <2>2 DEF WorkerForms, MappedWorks
  <1>8. Tended'
    <2> SUFFICES ASSUME phase = "up", ~NoRuns PROVE \E d \in Callers : Brings(d)'
      BY <1>1, <1>2 DEF Tended
    <2>1. CASE Exists(call[c].sch)
      BY <2>1 DEF Now, Brings
    <2>2. CASE call[c].sch = NoRow
      <3>1. Nobody
        BY <1>5, <2>2, EmptyIs DEF Deleted, NoRuns
      <3>2. ~(mapped # NoWorker /\ LooksAfter(mapped))
        BY <1>1, <3>1 DEF Types, TypeOfCalls, Nobody, LooksAfter
      <3>3. PICK d \in Callers : Brings(d)
        BY <3>2 DEF Follows, Tended
      <3>4. call'[d] = call[d]
        BY <2>2, <3>3 DEF Brings, Exists, Now
      <3> QED BY <3>3, <3>4 DEF Brings, Exists
    <2> QED BY <2>1, <2>2 DEF Exists
  <1> QED BY <1>2, <1>6, <1>7, <1>8 DEF Follows, RowStep

LEMMA StopsTo ==
    ASSUME Types, NEW c \in Callers
    PROVE  /\ \A then \in {"end", "start"} :
                Stops(c, [then |-> then]) => Now(c, "await", call[c].sch, then)
           /\ Stops(c, <<>>) => Now(c, "await", call[c].sch, call[c].then)
  <1>1. call[c] \in Call
    BY CallIs
  <1>2. ASSUME NEW then \in {"end", "start"}, Stops(c, [then |-> then])
        PROVE  Now(c, "await", call[c].sch, then)
    <2> DEFINE new == [pc |-> "await", awaited |-> mapped] ++ [then |-> then] ++ call[c]
    <2>1. new.pc = "await" /\ new.sch = call[c].sch /\ new.then = then /\ new.of = call[c].of
      BY <1>1 DEF ++, Call
    <2>2. call' = [call EXCEPT ![c] = new]
      BY <1>2 DEF Stops, Goes
    <2> HIDE DEF new
    <2> QED BY <2>1, <2>2, NowIs
  <1>3. ASSUME Stops(c, <<>>) PROVE Now(c, "await", call[c].sch, call[c].then)
    <2> DEFINE new == [pc |-> "await", awaited |-> mapped] ++ <<>> ++ call[c]
    <2>1. new.pc = "await" /\ new.sch = call[c].sch /\ new.then = call[c].then /\ new.of = call[c].of
      BY <1>1 DEF ++, Call
    <2>2. call' = [call EXCEPT ![c] = new]
      BY <1>3 DEF Stops, Goes
    <2> HIDE DEF new
    <2> QED BY <2>1, <2>2, NowIs
  <1> QED BY <1>2, <1>3

LEMMA RemoveScheduleFollows == ASSUME AloneInv, Follows, NEW c \in Callers, RemoveSchedule(c) PROVE Follows'
  <1>1. Types /\ CallForm(call[c]) /\ call[c].pc = "remove" /\ Stops(c, [then |-> "end"])
    BY DEF AloneInv, Follows, CallForms, RemoveSchedule, CallAt
  <1>2. Now(c, "await", call[c].sch, "end")
    BY <1>1, StopsTo
  <1>3. Exists(call[c].sch) <=> call[c].of = "edit"
    BY <1>1 DEF CallForm
  <1> QED BY <1>1, <1>2, <1>3, StopFollows DEF RemoveSchedule

LEMMA ReplaceWorkerFollows == ASSUME AloneInv, Follows, NEW c \in Callers, ReplaceWorker(c) PROVE Follows'
  <1>1. Types /\ CallForm(call[c]) /\ call[c].pc = "replace" /\ Stops(c, [then |-> "start"])
    BY DEF AloneInv, Follows, CallForms, ReplaceWorker, CallAt
  <1>2. Now(c, "await", call[c].sch, "start")
    BY <1>1, StopsTo
  <1>3. Exists(call[c].sch)
    BY <1>1 DEF CallForm
  <1> QED BY <1>1, <1>2, <1>3, StopFollows DEF ReplaceWorker

LEMMA StopListedFollows == ASSUME AloneInv, Follows, NEW c \in Callers, StopListed(c) PROVE Follows'
  <1>1. Types /\ CallForm(call[c]) /\ call[c].pc = "stop" /\ Stops(c, <<>>) /\ call[c] \in Call
    BY CallIs DEF AloneInv, Follows, CallForms, StopListed, CallAt
  <1>2. Now(c, "await", call[c].sch, call[c].then)
    BY <1>1, StopsTo
  <1>3. IF call[c].then = "end" THEN Exists(call[c].sch) <=> call[c].of = "edit" ELSE Exists(call[c].sch)
    BY <1>1 DEF CallForm, Call
  <1> QED BY <1>1, <1>2, <1>3, StopFollows DEF StopListed

LEMMA StartWorkerFollows == ASSUME AloneInv, Follows, NEW c \in Callers, StartWorker(c) PROVE Follows'
  <1>1. /\ Types /\ RowsFollow /\ CallForm(call[c]) /\ call[c].pc = "await" /\ call[c].then = "start"
        /\ IsDone(call[c].awaited) /\ Ends(c, call[c].ok) /\ phase # "down"
        /\ UNCHANGED <<phase, row, ghost, existed>>
    BY DEF AloneInv, Follows, CallForms, StartWorker, CallAt, world
  <1>2. RowStep /\ (NoRuns => NoRuns')
    BY <1>1, RowStays
  <1>3. Nobody /\ \A d \in Callers : d # c => call[d].pc \notin Holding
    BY <1>1, AllGone DEF Nobody
  <1>4. Over(c) /\ ~Unborn
    BY <1>1, OverIs DEF CallForm, Exists
  <1>5. CASE phase = "stopping"
    BY <1>1, <1>2, <1>4, <1>5, OverFollows DEF StartWorker
  <1>6. CASE phase # "stopping"
    <2> DEFINE w == CHOOSE v \in Workers : worker[v].pc = "gone"
               b == call[c].sch.run # NoRun \/ call[c].sch.posted
    <2>1. w \in Workers
      BY <1>3, SchedulerAssumption DEF Nobody
    <2>2. worker' = [worker EXCEPT ![w] = Spawned(b)] /\ mapped' = w
      BY <1>6 DEF StartWorker
    <2>3. Spawned(b).pc = "waiting" /\ Spawned(b).canceled = FALSE
      BY DEF Spawned, ++, Round
    <2> HIDE DEF w, b
    <2>4. /\ worker'[w].pc = "waiting" /\ ~worker'[w].canceled
          /\ \A v \in Workers : v # w => worker'[v].pc = "gone"
      BY <1>1, <1>3, <2>1, <2>2, <2>3 DEF Types, TypeOfWorkers, Nobody
    <2>5. CallForms'
      <3>1. CallForm(call[c])'
        BY <1>4 DEF Over, CallForm
      <3>2. ASSUME NEW d \in Callers, d # c PROVE CallForm(call[d])'
        <4>1. CallForm(call[d]) /\ call'[d] = call[d] /\ call[d].pc \notin Holding
          BY <1>3, <1>4, <3>2 DEF Follows, CallForms, Over
        <4> QED BY <1>1, <1>2, <4>1 DEF CallForm, Exists, Holding, RowStep
      <3> QED BY <3>1, <3>2 DEF CallForms
    <2>6. WorkerForms'
      <3>1. ~Unborn'
        BY <1>2, <1>4 DEF RowStep
      <3>2. \A v \in Workers : WorkerForm(worker[v])'
        BY <2>4 DEF WorkerForm
      <3> QED BY <2>2, <2>4, <3>1, <3>2 DEF WorkerForms, MappedWorks
    <2>7. Tended'
      BY <2>1, <2>2, <2>4, SchedulerAssumption DEF Tended, LooksAfter
    <2> QED BY <1>2, <2>5, <2>6, <2>7 DEF Follows, RowStep
  <1> QED BY <1>5, <1>6

LEMMA CallStepFollows == ASSUME AloneInv, Follows, NEW c \in Callers, CallStep(c) PROVE Follows'
  BY RereadFollows, DeleteFollows, RemoveScheduleFollows, ScheduleNextFollows, ReplaceWorkerFollows,
     WorkerStoppedFollows, StartWorkerFollows, ReconfigureFollows, StopListedFollows, SyncPendingFollows,
     CancelPendingFollows, RefetchFollows
  DEF CallStep

-----------------------------------------------------------------------------
(* The changes by handlers, main, and the environment.                     *)

LEMMA FreeIs == ASSUME AloneInv, NEW c \in Callers, Begins(c) \/ IsFree(c)
                PROVE  /\ Types /\ call[c] = Idle /\ call[c].pc = "idle" /\ call[c].of = "nobody"
                       /\ call[c].sch = NoRow /\ ~Brings(c)
  BY DEF AloneInv, Begins, IsFree, Idle, Brings

(* A new call takes the place of an idle one; the others go on, unsure or  *)
(* not.                                                                    *)
LEMMA NewCallFollows ==
    ASSUME AloneInv, Follows, NEW c \in Callers, Begins(c), UNCHANGED <<worker, mapped, phase>>,
           RowStep, NoRuns => NoRuns', NEW new, CallForm(new)', call' = [Unsure EXCEPT ![c] = new]
    PROVE  Follows'
  <1>1. Types /\ ~Brings(c)
    BY FreeIs
  <1>2. \A d \in Callers : d # c => Same(d)
    BY <1>1, UnsureSame DEF Same, Unsure
  <1>3. call'[c] = new
    BY DEF Unsure
  <1>4. CallForm(call[c])'
    BY <1>3 DEF CallForm
  <1> QED BY <1>1, <1>2, <1>4, CallsFollow

LEMMA ChangeSettingsFollows ==
    ASSUME AloneInv, Follows, NEW c \in Callers, ChangeSettings(c) PROVE Follows'
  <1>1. RowsFollow /\ Begins(c) /\ UNCHANGED <<worker, mapped, phase, row, ghost, existed>>
    BY DEF Follows, ChangeSettings, db
  <1>2. RowStep /\ (NoRuns => NoRuns')
    BY <1>1, RowStays
  <1> DEFINE new == [Idle EXCEPT !.of = "reconfigure", !.pc = "list"]
  <1>3. new.of = "reconfigure" /\ new.pc = "list" /\ new.sch = NoRow
    BY DEF Idle
  <1>4. call' = [Unsure EXCEPT ![c] = new]
    BY DEF ChangeSettings
  <1> HIDE DEF new
  <1>5. CallForm(new)'
    BY <1>3 DEF CallForm
  <1> QED BY <1>1, <1>2, <1>4, <1>5, NewCallFollows

LEMMA EditScheduleFollows ==
    ASSUME AloneInv, Follows, NEW c \in Callers, EditSchedule(c) PROVE Follows'
  <1>1. /\ Types /\ RowsFollow /\ Begins(c) /\ Exists(row) /\ ~row.temp /\ row \in Row
        /\ UNCHANGED <<worker, mapped, phase, existed>>
    BY RowCases DEF AloneInv, Follows, EditSchedule
  <1> DEFINE new == [Idle EXCEPT !.of = "edit", !.pc = "reread"]
  <1>2. PICK p \in Plans :
          \/ Stored([row EXCEPT !.plan = p]) /\ call' = [Unsure EXCEPT ![c] = new]
          \/ Lose([row EXCEPT !.plan = p]) /\ UNCHANGED call
    BY DEF EditSchedule
  <1>3. new.of = "edit" /\ new.pc = "reread" /\ new.sch = NoRow
    BY DEF Idle
  <1> HIDE DEF new
  <1> DEFINE s == [row EXCEPT !.plan = p]
  <1>4. s.run = row.run /\ s.temp = row.temp
    BY <1>1 DEF Row
  <1>5. Stored(s) \/ Lose(s)
    BY <1>2
  <1> HIDE DEF s
  <1>6. RowStep /\ (NoRuns => NoRuns')
    BY <1>1, <1>4, <1>5, RowStepIs, NoRunsIs DEF Derived, Exists, Spent
  <1>7. CallForm(new)'
    BY <1>3 DEF CallForm
  <1>8. CASE call' = [Unsure EXCEPT ![c] = new]
    BY <1>1, <1>6, <1>7, <1>8, NewCallFollows
  <1>9. CASE UNCHANGED call
    BY <1>1, <1>6, <1>9, CallsFollow DEF Same
  <1> QED BY <1>2, <1>8, <1>9

(* A row that is not there yet has nobody.                                 *)
LEMMA UnbornIs == ASSUME AloneInv, Follows, ~existed
                  PROVE  /\ row = NoRow /\ (\A s \in ghost : s = NoRow) /\ ~Deleted /\ Unborn /\ Nobody
                         /\ mapped = NoWorker /\ \A d \in Callers : call[d].sch = NoRow
  <1>1. row = NoRow /\ (\A s \in ghost : s = NoRow) /\ ~Deleted /\ Unborn /\ Nobody
    BY DEF Follows, RowsFollow, WorkerForms, Deleted, Unborn
  <1>2. mapped = NoWorker
    BY <1>1 DEF AloneInv, Types, TypeOfCalls, Follows, WorkerForms, MappedWorks, Nobody
  <1> QED BY <1>1, <1>2 DEF Follows, CallForms, CallForm

LEMMA AddScheduleFollows == ASSUME AloneInv, Follows, NEW c \in Callers, AddSchedule(c) PROVE Follows'
  <1>1. Begins(c) /\ ~existed /\ existed' = TRUE /\ UNCHANGED <<worker, mapped, phase>>
    BY DEF AddSchedule
  <1>2. PICK p \in Plans :
          \/ Stored(Regular(p)) /\ Goes(c, [pc |-> "schedule", sch |-> Regular(p)])
          \/ Lose(Regular(p)) /\ UNCHANGED call
    BY DEF AddSchedule
  <1> DEFINE s == Regular(p)
  <1>3. Exists(s) /\ s.run = NoRun /\ ~s.temp
    BY SchedulerAssumption DEF Regular, NoRow, Exists
  <1>4. Stored(s) \/ Lose(s)
    BY <1>2
  <1> HIDE DEF s
  <1>5. RowStep /\ (NoRuns => NoRuns')
    <2>1. NoRuns' /\ ~row'.temp /\ ~Spent(row)' /\ RowsFollow'
      BY <1>1, <1>3, <1>4, UnbornIs, EmptyIs DEF Stored, Lose, NoRuns, Spent, RowsFollow, Exists
    <2> QED BY <1>1, <2>1, UnbornIs DEF RowStep
  <1>6. CASE Stored(s) /\ Goes(c, [pc |-> "schedule", sch |-> s])
    <2>1. Now(c, "schedule", s, call[c].then) /\ ~Brings(c)
      BY <1>1, <1>6, GoesTo, FreeIs
    <2>2. CallForm(call[c])'
      BY <1>3, <1>6, <2>1 DEF CallForm, Now, Stored, Unborn, Exists
    <2> QED BY <1>1, <1>5, <2>1, <2>2, OneCallFollows DEF Now
  <1>7. CASE UNCHANGED call
    BY <1>1, <1>5, <1>7, CallsFollow DEF Same
  <1> QED BY <1>2, <1>6, <1>7 DEF s

LEMMA DeleteScheduleFollows ==
    ASSUME AloneInv, Follows, NEW c \in Callers, DeleteSchedule(c) PROVE Follows'
  <1>1. /\ RowsFollow /\ Begins(c) /\ Exists(row) /\ Goes(c, [pc |-> "delete"])
        /\ UNCHANGED <<worker, mapped, phase, row, ghost, existed>>
    BY DEF Follows, DeleteSchedule, db
  <1>2. RowStep /\ (NoRuns => NoRuns')
    BY <1>1, RowStays
  <1>3. existed
    BY <1>1 DEF RowsFollow, Exists
  <1>4. Now(c, "delete", NoRow, call[c].then) /\ ~Brings(c) /\ call[c].of = "nobody"
    BY <1>1, GoesTo, FreeIs
  <1>5. CallForm(call[c])'
    BY <1>1, <1>3, <1>4 DEF CallForm, Now
  <1> QED BY <1>1, <1>2, <1>4, <1>5, OneCallFollows DEF Now

LEMMA ChangeButRunInstantFollows ==
    ASSUME AloneInv, Follows, NEW c \in Callers, Change(c), ~RunInstant(c) PROVE Follows'
  BY ChangeSettingsFollows, EditScheduleFollows, AddScheduleFollows, DeleteScheduleFollows DEF Change

(* A one-shot queue brings its row, unless its COMMIT is in doubt.         *)
LEMMA RunInstantFollows ==
    ASSUME AloneInv, Follows, NEW c \in Callers, RunInstant(c) PROVE stranded' \/ Follows'
  <1>1. /\ Types /\ Begins(c) /\ ~existed /\ existed' = TRUE /\ UNCHANGED <<worker, mapped, phase>>
    BY DEF AloneInv, RunInstant
  <1>2. PICK r \in Runs :
          LET s == [Regular(FirstPlan) EXCEPT !.temp = TRUE, !.run = r] IN
          \/ Stored(s) /\ Goes(c, [pc |-> "check", sch |-> s])
          \/ Lose(s) /\ stranded' = (ghost' # {}) /\ UNCHANGED call
    BY DEF RunInstant
  <1> DEFINE s == [Regular(FirstPlan) EXCEPT !.temp = TRUE, !.run = r]
  <1>3. s.temp /\ s.run # NoRun
    BY SchedulerAssumption DEF Regular, NoRow
  <1>4. Exists(s)
    BY <1>3, EmptyIs DEF Exists
  <1>5. CASE Stored(s) /\ Goes(c, [pc |-> "check", sch |-> s])
    <2> HIDE DEF s
    <2>1. row' = s /\ ghost' = {}
      BY <1>5 DEF Stored
    <2>2. RowsFollow' /\ ~Unborn'
      BY <1>1, <1>3, <1>4, <2>1 DEF RowsFollow, Spent, Exists, Unborn
    <2>3. Now(c, "check", s, call[c].then)
      BY <1>1, <1>5, GoesTo
    <2>4. CallForms'
      <3>1. CallForm(call[c])'
        BY <1>4, <2>2, <2>3 DEF CallForm, Now, Exists
      <3>2. ASSUME NEW d \in Callers, d # c PROVE CallForm(call[d])'
        <4>1. CallForm(call[d]) /\ call'[d] = call[d] /\ call[d].sch = NoRow
          BY <1>1, <2>3, <3>2, UnbornIs DEF Follows, CallForms, Now
        <4>2. ~Deleted /\ Nobody'
          BY <1>1, UnbornIs DEF Nobody
        <4> QED BY <1>1, <2>2, <4>1, <4>2 DEF CallForm, Exists
      <3> QED BY <3>1, <3>2 DEF CallForms
    <2>5. WorkerForms'
      BY <1>1, <2>2, UnbornIs DEF WorkerForms, MappedWorks, WorkerForm, Nobody
    <2>6. Tended'
      BY <1>4, <2>3 DEF Tended, Brings, Now
    <2> QED BY <2>2, <2>4, <2>5, <2>6 DEF Follows
  <1>6. CASE Lose(s) /\ stranded' = (ghost' # {}) /\ UNCHANGED call
    <2> SUFFICES ASSUME ~stranded' PROVE Follows'
      OBVIOUS
    <2>1. row' = NoRow /\ ghost' = {}
      BY <1>1, <1>6, UnbornIs DEF Lose
    <2>2. RowStep /\ NoRuns'
      <3>1. RowsFollow' /\ NoRuns' /\ Deleted' /\ ~Spent(row)' /\ ~row'.temp
        BY <1>1, <2>1, EmptyIs DEF RowsFollow, NoRuns, Deleted, Spent
      <3> QED BY <1>1, <3>1, UnbornIs DEF RowStep, Unborn
    <2> QED BY <1>1, <1>6, <2>2, CallsFollow DEF Same
  <1> QED BY <1>2, <1>5, <1>6

(* Start brings the row that it finds.                                     *)
LEMMA StartFollows == ASSUME AloneInv, Follows, NEW c \in Callers, Start(c) PROVE Follows'
  <1>1. /\ Types /\ RowsFollow /\ phase = "down" /\ IsFree(c)
        /\ Nobody /\ mapped = NoWorker /\ UNCHANGED <<worker, mapped, row, ghost, existed>>
    BY DEF AloneInv, Alone, Follows, Start, Nobody, db
  <1>2. RowStep /\ (NoRuns <=> NoRuns')
    BY <1>1, RowStays DEF NoRuns
  <1>3. /\ CallForms'
        /\ Exists(row) => Brings(c)'
    <2>1. ASSUME NEW d \in Callers, call'[d] = call[d] PROVE CallForm(call[d])'
      <3>1. CallForm(call[d])
        BY DEF Follows, CallForms
      <3> QED BY <1>1, <1>2, <2>1, <3>1 DEF CallForm, Exists, RowStep, Nobody
    <2>2. CASE Exists(row) /\ Goes(c, [of |-> "start", pc |-> "check", sch |-> row])
      <3> DEFINE new == [of |-> "start", pc |-> "check", sch |-> row] ++ call[c]
      <3>1. call[c] \in Call
        BY <1>1, CallIs
      <3>2. new.pc = "check" /\ new.sch = row
        BY <3>1 DEF ++, Call
      <3>3. call' = [call EXCEPT ![c] = new]
        BY <2>2 DEF Goes
      <3> HIDE DEF new
      <3>4. call'[c].pc = "check" /\ call'[c].sch = row /\ \A d \in Callers : d # c => call'[d] = call[d]
        BY <1>1, <3>2, <3>3 DEF Types, TypeOfCalls
      <3>5. CallForm(call[c])'
        BY <1>1, <2>2, <3>4 DEF CallForm, Exists, Unborn
      <3> QED BY <2>1, <2>2, <3>4, <3>5 DEF CallForms, Brings, Exists
    <2>3. CASE ~Exists(row) /\ UNCHANGED call
      BY <2>1, <2>3 DEF CallForms
    <2> QED BY <2>2, <2>3 DEF Start
  <1>4. WorkerForms'
    BY <1>1 DEF WorkerForms, MappedWorks, WorkerForm, Nobody
  <1>5. Tended'
    <2>1. ~Exists(row) => NoRuns
      BY <1>1, EmptyIs DEF Exists, RowsFollow, NoRuns
    <2> QED BY <1>2, <1>3, <2>1 DEF Tended
  <1> QED BY <1>2, <1>3, <1>4, <1>5 DEF Follows, RowStep

LEMMA ShutdownFollows == ASSUME AloneInv, Follows, Shutdown PROVE Follows'
  <1>1. RowsFollow /\ UNCHANGED <<row, ghost, existed, call, mapped, worker>> /\ phase' = "stopping"
    BY DEF Follows, Shutdown, db, lifecycle
  <1>2. RowStep
    BY <1>1, RowStays
  <1>3. CallForms'
    <2> SUFFICES ASSUME NEW d \in Callers PROVE CallForm(call[d])'
      BY DEF CallForms
    <2>1. CallForm(call[d])
      BY DEF Follows, CallForms
    <2> QED BY <1>1, <1>2, <2>1 DEF CallForm, Exists, RowStep, Nobody
  <1>4. WorkerForms'
    BY <1>1 DEF Follows, WorkerForms, MappedWorks, WorkerForm, Unborn, Deleted, Nobody, Spent
  <1> QED BY <1>1, <1>2, <1>3, <1>4 DEF Follows, RowStep, Tended

LEMMA ExitFollows == ASSUME AloneInv, Follows, Exit PROVE Follows'
  <1>1. /\ RowsFollow /\ UNCHANGED <<row, ghost, existed>> /\ phase' = "down" /\ mapped' = NoWorker
        /\ \A w \in Workers : worker'[w] = Gone
        /\ \A c \in Callers : call'[c] = Idle
    BY DEF Follows, Exit, db
  <1>2. RowStep
    BY <1>1, RowStays
  <1>3. CallForms'
    BY <1>1, IdleIs DEF CallForms, CallForm
  <1>4. WorkerForms'
    BY <1>1, SpawnedIs DEF WorkerForms, MappedWorks, WorkerForm, Nobody
  <1> QED BY <1>1, <1>2, <1>3, <1>4 DEF Follows, RowStep, Tended

(* What lands is a row made of the one it replaces, or the first.          *)
LEMMA GhostLandsFollows == ASSUME AloneInv, Follows, GhostLands PROVE Follows'
  <1>1. /\ Types /\ RowsFollow /\ ghost' = {} /\ UNCHANGED <<existed, worker, mapped, phase>>
        /\ row' = row \/ row' \in ghost
        /\ UNCHANGED call \/ call' = Unsure
    BY DEF AloneInv, Follows, GhostLands, world
  <1>2. NoRuns => NoRuns'
    BY <1>1 DEF NoRuns
  <1>3. RowStep
    <2>1. row'.temp => row.temp
      BY <1>1, EmptyIs DEF RowsFollow
    <2>2. Spent(row)' => Spent(row)
      BY <1>1 DEF RowsFollow, Spent
    <2>3. RowsFollow'
      BY <1>1, EmptyIs DEF RowsFollow, NoRuns, Spent
    <2> QED BY <1>1, <2>1, <2>2, <2>3 DEF RowStep, RowsFollow, Deleted, Unborn
  <1>4. \A d \in Callers : Same(d)
    BY <1>1, UnsureSame DEF Same
  <1> QED BY <1>1, <1>2, <1>3, <1>4, CallsFollow

LEMMA ServiceClosesFollows == ASSUME AloneInv, Follows, ServiceCloses PROVE Follows'
  <1>1. /\ Types /\ RowsFollow /\ Write(Ended) /\ UNCHANGED <<existed, worker, mapped, phase, call>>
    BY DEF AloneInv, Follows, ServiceCloses, world, lifecycle
  <1>2. RowStep /\ (NoRuns => NoRuns')
    BY <1>1, EndedIs, RowStepIs, NoRunsIs
  <1> QED BY <1>1, <1>2, CallsFollow DEF Same

LEMMA TickFollows == ASSUME AloneInv, Follows, Tick \/ UNCHANGED vars PROVE Follows'
  <1>1. RowsFollow /\ UNCHANGED <<row, ghost, existed, worker, mapped, phase, call>>
    BY DEF Follows, Tick, db, lifecycle, vars
  <1>2. RowStep /\ (NoRuns => NoRuns')
    BY <1>1, RowStays
  <1> QED BY <1>1, <1>2, CallsFollow DEF Same

(* Only the first row to be stored can be stranded, and it stays so.       *)
LEMMA StrandedIs ==
    ASSUME [Next]_vars
    PROVE  \/ UNCHANGED <<existed, stranded>>
           \/ ~existed /\ existed' = TRUE /\ (UNCHANGED stranded \/ \E c \in Callers : RunInstant(c))
  <1>1. ASSUME NEW w \in Workers, WorkerStep(w) PROVE UNCHANGED world
    BY <1>1 DEF WorkerStep, Read, CanceledInWait, RestoreLegacy, ClaimActive, Prepare, Close, Notify, TooLate,
                Mark, Refresh, Leave, Quiet
  <1>2. ASSUME NEW c \in Callers, CallStep(c) PROVE UNCHANGED world
    BY <1>2 DEF CallStep, Reread, Delete, RemoveSchedule, ScheduleNext, ReplaceWorker, WorkerStopped,
                StartWorker, Reconfigure, StopListed, SyncPending, CancelPending, Refetch
  <1>3. ASSUME NEW c \in Callers, Change(c) \/ Start(c)
        PROVE  \/ UNCHANGED <<existed, stranded>>
               \/ ~existed /\ existed' = TRUE /\ (UNCHANGED stranded \/ RunInstant(c))
    BY <1>3 DEF Change, ChangeSettings, EditSchedule, AddSchedule, DeleteSchedule, RunInstant, Start, db
  <1>4. ASSUME ServiceCloses \/ Shutdown \/ Exit \/ GhostLands \/ Tick \/ UNCHANGED vars
        PROVE  UNCHANGED <<existed, stranded>>
    BY <1>4 DEF ServiceCloses, Shutdown, Exit, GhostLands, Tick, vars, db, world
  <1> QED BY <1>1, <1>2, <1>3, <1>4 DEF Next, world

LEMMA NextFollows == ASSUME AloneInv, Follows, [Next]_vars PROVE stranded' \/ Follows'
  <1>1. CASE \E w \in Workers : WorkerStep(w)
    BY <1>1, WorkerStepFollows
  <1>2. CASE \E c \in Callers : CallStep(c) \/ Change(c) \/ Start(c)
    BY <1>2, CallStepFollows, ChangeButRunInstantFollows, RunInstantFollows, StartFollows
  <1>3. CASE ServiceCloses \/ Shutdown \/ Exit \/ GhostLands \/ Tick \/ UNCHANGED vars
    BY <1>3, ServiceClosesFollows, ShutdownFollows, ExitFollows, GhostLandsFollows, TickFollows
  <1> QED BY <1>1, <1>2, <1>3 DEF Next

LEMMA InitFollows == Init => TendedInv
  <1> SUFFICES ASSUME Init PROVE TendedInv
    OBVIOUS
  <1>1. AloneInv
    BY InitInv
  <1>2. /\ ghost = {} /\ existed = Exists(row) /\ phase = "down" /\ mapped = NoWorker /\ stranded = FALSE
        /\ \A w \in Workers : worker[w] = Gone
        /\ \A c \in Callers : call[c] = Idle
    BY DEF Init
  <1>3. row.run = NoRun
    <2>1. ASSUME NEW b \in BOOLEAN, NEW t \in BOOLEAN
          PROVE  [Regular(FirstPlan) EXCEPT !.posted = b, !.temp = t].run = NoRun
      BY DEF Regular, NoRow
    <2>2. row = NoRow \/ \E b, t \in BOOLEAN : row = [Regular(FirstPlan) EXCEPT !.posted = b, !.temp = t]
      BY Zenon DEF Init
    <2> QED BY <2>1, <2>2, EmptyIs, Zenon
  <1>4. RowsFollow
    BY <1>2, <1>3 DEF RowsFollow, NoRuns, Exists
  <1>5. CallForms
    BY <1>2, IdleIs DEF CallForms, CallForm
  <1>6. WorkerForms
    BY <1>2, SpawnedIs DEF WorkerForms, MappedWorks, WorkerForm, Nobody
  <1> QED BY <1>1, <1>2, <1>4, <1>5, <1>6 DEF TendedInv, Follows, Tended

-----------------------------------------------------------------------------
(* Unless a one-shot queue was stranded: a row that has not been stored    *)
(* has nobody; the worker of the map is not canceled and, in a process     *)
(* that is up, leaves only when there is no run; every call that has       *)
(* stopped a worker brings a row or has none to look after; and a run that *)
(* is stored, or that a COMMIT in doubt may store, is looked after.        *)
THEOREM TendedInvariant == Spec => []TendedInv
  <1>1. TendedInv /\ [Next]_vars => TendedInv'
    <2> SUFFICES ASSUME TendedInv, [Next]_vars PROVE TendedInv'
      OBVIOUS
    <2>1. AloneInv'
      BY AloneStep DEF TendedInv
    <2>2. (stranded => existed)' /\ (stranded => stranded')
      <3>1. (stranded => existed) /\ existed \in BOOLEAN /\ stranded \in BOOLEAN
        BY DEF TendedInv, AloneInv, Types, TypeOfWorld
      <3>2. \/ existed' = existed /\ stranded' = stranded
            \/ ~existed /\ existed' = TRUE
        BY StrandedIs
      <3> QED BY <3>1, <3>2
    <2>3. stranded' \/ Follows'
      BY <2>2, NextFollows DEF TendedInv
    <2> QED BY <2>1, <2>2, <2>3 DEF TendedInv
  <1> QED BY InitFollows, <1>1, PTL DEF Spec

(* A run is never left without somebody who will open and close it         *)
(* (scheduleNext, Reconfigure, reconfigurePending, RemoveSchedule): its    *)
(* worker is at work, or a call on its way will start one.                 *)
THEOREM RunsHaveWorkersAlways == Spec => []RunsHaveWorkers
  <1>1. TendedInv => RunsHaveWorkers
    BY DEF TendedInv, Follows, Tended, NoRuns, RunsHaveWorkers
  <1> QED BY <1>1, TendedInvariant, PTL

-----------------------------------------------------------------------------
(* What is known of the notices that were sent and not forgotten with a    *)
(* worker.  A row of an older version has had none; a row in doubt has the *)
(* marks of the row that it replaces, or begins or ends the run; and while *)
(* there is no worker all of them are marked.                              *)
Told == {k \in Notices : forgot[k] < sent[k]}
Legacy(s) == s.run = NoRun /\ s.posted
Milder(r, s) == /\ s.run \in {r.run, NoRun}
                /\ s.run # NoRun => r.notified \subseteq s.notified
                /\ Legacy(s) => Legacy(r)
Sequel(r, s) == (r.run # NoRun => Milder(r, s)) /\ (Legacy(s) => Legacy(r))
Doubtful(r, g) == \E s \in g : s.run # NoRun /\ s.run # r.run

(* What a worker t knows of them while it works on the run that it saw: a  *)
(* notice that was sent is marked there, or was delivered by itself.       *)
Remembers(t, s, k) == k \in s.notified \/ (t.key = s.run /\ k \in t.delivered)
AtRun(t) == t.pc \in Duties \/ (t.pc = "claiming" /\ t.seen.run # NoRun)
Knows(t, r, g, n) ==
    /\ Doubtful(r, g) => t.pc = "leaving" \/ (t.pc = "waiting" /\ t.sync)
    /\ AtRun(t) => r.run \in {t.seen.run, NoRun} /\ ~Legacy(r)
    /\ t.pc = "restoring" => r.run = NoRun /\ n = {}
    /\ \A k \in n : /\ r.run # NoRun => Remembers(t, r, k)
                    /\ AtRun(t) => Remembers(t, t.seen, k)
    /\ t.pc = "noticing" => t.mark \in Notices \ t.seen.notified

RowNotices(r, g, n) == (\A s \in g : Sequel(r, s)) /\ (Legacy(r) => n = {})
AllMarked(r, n) == r.run # NoRun => n \subseteq r.notified
NoticeInv == /\ RowNotices(row, ghost, Told)
             /\ \A w \in Workers : worker[w].pc # "gone" => Knows(worker[w], row, ghost, Told)
             /\ (\A w \in Workers : worker[w].pc = "gone") => AllMarked(row, Told)
             /\ NoticedOnce

(* A write that ends the run or goes on with it.                           *)
GoesWith == /\ RowNotices(row, ghost, Told)' /\ Milder(row, row') /\ UNCHANGED notices
            /\ Doubtful(row, ghost)' => Doubtful(row, ghost)

LEMMA SameTold == UNCHANGED notices => Told' = Told
  BY DEF notices, Told

(* With another run nothing has been told yet; what is forgotten was told  *)
(* once.                                                                   *)
LEMMA RecountIs == ASSUME NoticedOnce, Recount
                   PROVE  /\ row'.run = row.run => UNCHANGED notices
                          /\ row'.run # row.run => Told' = {}
                          /\ NoticedOnce'
  BY DEF Recount, notices, Told, Never, NoticedOnce

LEMMA ForgetsIs == ASSUME Types, NoticedOnce, NEW ws, Forgets(ws), UNCHANGED sent
                   PROVE  /\ Told' = {k \in Told : \A w \in ws : k \notin Unmarked(w)}
                          /\ NoticedOnce'
  <1>1. sent \in [Notices -> Nat] /\ forgot \in [Notices -> Nat]
    BY DEF Types, TypeOfWorld, TypeOfNotices
  <1>2. ASSUME NEW k \in Notices
        PROVE  /\ forgot'[k] = IF \E w \in ws : k \in Unmarked(w) THEN forgot[k] + 1 ELSE forgot[k]
               /\ sent'[k] = sent[k] /\ sent[k] <= 1 + forgot[k]
    BY <1>2 DEF Forgets, NoticedOnce
  <1>3. ASSUME NEW k \in Notices
        PROVE  /\ k \in Told' <=> k \in Told /\ \A w \in ws : k \notin Unmarked(w)
               /\ sent'[k] <= 1 + forgot'[k]
    <2>1. sent[k] \in Nat /\ forgot[k] \in Nat
      BY <1>1
    <2>2. k \in Told' <=> forgot'[k] < sent'[k]
      BY DEF Told
    <2>3. k \in Told <=> forgot[k] < sent[k]
      BY DEF Told
    <2> QED BY <1>2, <2>1, <2>2, <2>3
  <1>4. Told' \subseteq Notices /\ Told \subseteq Notices
    BY DEF Told
  <1>5. NoticedOnce'
    BY <1>3 DEF NoticedOnce
  <1> QED BY <1>3, <1>4, <1>5

LEMMA MilderIs ==
    ASSUME Types
    PROVE  /\ Milder(row, row) /\ Milder(row, NoRow) /\ Milder(row, Ended) /\ Milder(row, Posted)
           /\ Milder(Ended, NoRow)
           /\ \A m \in Marks : Milder(row, Marked(m))
           /\ \A p \in Plans : Exists(row) => Milder(row, [row EXCEPT !.plan = p])
  <1>1. row \in Rows /\ (Exists(row) => row \in Row) /\ (~Exists(row) => row = NoRow)
    BY RowCases DEF Exists
  <1>2. NoRow.run = NoRun /\ NoRow.posted = FALSE
    BY EmptyIs
  <1>3. Ended.run = NoRun
    BY EndedIs
  <1>4. ~Legacy(NoRow) /\ Milder(row, row) /\ Milder(row, NoRow) /\ Milder(Ended, NoRow)
    BY <1>2 DEF Legacy, Milder
  <1>5. ~Legacy(Ended)
    <2>1. CASE Exists(row)
      <3>1. [row EXCEPT !.run = NoRun, !.posted = FALSE, !.notified = {}].posted = FALSE
        BY <1>1, <2>1 DEF Row
      <3> QED BY <1>4, <3>1 DEF Ended, Legacy
    <2>2. CASE ~Exists(row)
      <3> DEFINE cleared == [row EXCEPT !.run = NoRun, !.posted = FALSE, !.notified = {}]
                 one == [plan : {NoPlan}, temp : {FALSE}, run : {NoRun}, posted : {FALSE}, notified : {{}}]
      <3> row = NoRow
        BY <1>1, <2>2
      <3>1. cleared \in one
        BY DEF NoRow
      <3>2. cleared.posted = FALSE
        BY <3>1
      <3> QED BY <1>4, <3>2 DEF Ended, Legacy
    <2> QED BY <2>1, <2>2
  <1>6. Milder(row, Ended)
    BY <1>3, <1>5 DEF Milder
  <1>7. Milder(row, Posted)
    <2>1. CASE row.run # NoRun /\ clock < ClosesAt[row.run]
      <3>1. Exists(row)
        BY <1>2, <2>1 DEF Exists
      <3>2. [row EXCEPT !.posted = TRUE].run = row.run /\ [row EXCEPT !.posted = TRUE].notified = row.notified
        BY <1>1, <3>1 DEF Row
      <3> QED BY <2>1, <3>2 DEF Posted, Milder, Legacy
    <2> QED BY <1>4, <2>1 DEF Posted
  <1>8. ASSUME NEW m \in Marks PROVE Milder(row, Marked(m))
    <2>1. CASE Exists(row)
      <3>1. /\ [row EXCEPT !.notified = @ \cup {m}].run = row.run
            /\ [row EXCEPT !.notified = @ \cup {m}].posted = row.posted
            /\ [row EXCEPT !.notified = @ \cup {m}].notified = row.notified \cup {m}
        BY <1>1, <2>1 DEF Row
      <3> QED BY <2>1, <3>1 DEF Marked, Milder, Legacy
    <2> QED BY <1>4, <2>1 DEF Marked
  <1>9. ASSUME NEW p \in Plans, Exists(row) PROVE Milder(row, [row EXCEPT !.plan = p])
    <2>1. /\ [row EXCEPT !.plan = p].run = row.run /\ [row EXCEPT !.plan = p].posted = row.posted
          /\ [row EXCEPT !.plan = p].notified = row.notified
      BY <1>1, <1>9 DEF Row
    <2> QED BY <2>1 DEF Milder, Legacy
  <1> QED BY <1>4, <1>6, <1>7, <1>8, <1>9

LEMMA GoesWithIs ==
    ASSUME NoticeInv, UNCHANGED notices, NEW s, Milder(row, s),
           Stored(s) \/ Write(s) \/ Lose(s)
    PROVE  GoesWith
  <1>1. RowNotices(row, ghost, Told) /\ Milder(row, row)
    BY DEF NoticeInv, Milder
  <1>2. CASE Stored(s) \/ Write(s)
    <2>1. row' = s /\ ghost' = {}
      BY <1>2 DEF Stored, Write
    <2> QED BY <1>1, <2>1, SameTold DEF GoesWith, RowNotices, Milder, Doubtful
  <1>3. CASE Lose(s)
    <2>1. row' = row /\ ghost' \subseteq {s}
      BY <1>3 DEF Lose
    <2> QED BY <1>1, <2>1, SameTold DEF GoesWith, RowNotices, Milder, Doubtful, Sequel
  <1> QED BY <1>2, <1>3

LEMMA StaysWith == ASSUME NoticeInv, UNCHANGED <<row, ghost, notices>> PROVE GoesWith
  BY SameTold DEF NoticeInv, GoesWith, RowNotices, Milder, Doubtful, Sequel

(* The others go on with what they know.                                   *)
LEMMA OthersKnow ==
    ASSUME NoticeInv, GoesWith,
           \A w \in Workers : /\ worker'[w].pc = worker[w].pc /\ worker'[w].seen = worker[w].seen
                              /\ worker'[w].key = worker[w].key /\ worker'[w].mark = worker[w].mark
                              /\ worker'[w].delivered = worker[w].delivered
                              /\ worker'[w].sync = worker[w].sync
    PROVE  NoticeInv'
  <1>1. ASSUME NEW w \in Workers, worker'[w].pc # "gone" PROVE Knows(worker'[w], row', ghost', Told')
    <2>1. Knows(worker[w], row, ghost, Told)
      BY <1>1 DEF NoticeInv
    <2>2. Milder(row, row') /\ Told' = Told /\ (Doubtful(row', ghost') => Doubtful(row, ghost))
      BY SameTold DEF GoesWith
    <2> QED BY <2>1, <2>2 DEF Knows, AtRun, Remembers, Milder
  <1>2. NoticedOnce'
    BY DEF NoticeInv, NoticedOnce, GoesWith, notices
  <1>3. (\A w \in Workers : worker[w].pc = "gone") => AllMarked(row', Told')
    BY SameTold DEF NoticeInv, GoesWith, AllMarked, Milder
  <1> QED BY <1>1, <1>2, <1>3 DEF NoticeInv, GoesWith

(* While one worker is there it is the only one.                           *)
LEMMA OneKnows ==
    ASSUME AloneInv, NEW w \in Workers, worker[w].pc # "gone", \A v \in Workers : v # w => worker'[v] = worker[v],
           worker'[w].pc # "gone",
           RowNotices(row, ghost, Told)', Knows(worker'[w], row', ghost', Told'), NoticedOnce'
    PROVE  NoticeInv'
  BY OnlyOne DEF NoticeInv

(* A worker goes back to the top of the loop, or out.                      *)
Rested(w) == /\ \A v \in Workers : v # w => worker'[v] = worker[v]
             /\ worker'[w].key = worker[w].key /\ worker'[w].delivered = worker[w].delivered
             /\ worker'[w].pc \in {"waiting", "leaving"}
(* It goes on with the run that it saw.                                    *)
Continues(w) == /\ \A v \in Workers : v # w => worker'[v] = worker[v]
                /\ worker'[w].pc \in Duties \cup {"waiting"}
                /\ worker'[w].pc \in Duties => worker'[w].seen = worker[w].seen
                /\ worker'[w].pc = "noticing" => worker'[w].mark \in Notices \ worker[w].seen.notified
                /\ worker'[w].key = worker[w].seen.run
                /\ worker[w].key = worker[w].seen.run => worker[w].delivered \subseteq worker'[w].delivered

LEMMA RestKnows ==
    ASSUME AloneInv, NoticeInv, NEW w \in Workers, worker[w].pc # "gone", Rested(w),
           \/ GoesWith /\ (Doubtful(row, ghost)' => worker'[w].pc = "leaving" \/ worker'[w].sync)
           \/ RowNotices(row, ghost, Told)' /\ Told' = {} /\ ~Doubtful(row, ghost)' /\ NoticedOnce'
    PROVE  NoticeInv'
  <1>1. Knows(worker[w], row, ghost, Told) /\ NoticedOnce
    BY DEF NoticeInv
  <1>2. CASE GoesWith /\ (Doubtful(row, ghost)' => worker'[w].pc = "leaving" \/ worker'[w].sync)
    <2>1. Knows(worker'[w], row', ghost', Told')
      BY <1>1, <1>2, SameTold DEF GoesWith, Knows, AtRun, Remembers, Milder, Rested, Duties
    <2>2. NoticedOnce'
      BY <1>1, <1>2 DEF GoesWith, NoticedOnce, notices
    <2> QED BY <1>2, <2>1, <2>2, OneKnows DEF GoesWith, Rested
  <1>3. CASE RowNotices(row, ghost, Told)' /\ Told' = {} /\ ~Doubtful(row, ghost)' /\ NoticedOnce'
    <2>1. Knows(worker'[w], row', ghost', Told')
      BY <1>3 DEF Knows, AtRun, Rested, Duties
    <2> QED BY <1>3, <2>1, OneKnows DEF Rested
  <1> QED BY <1>2, <1>3

LEMMA ContinueKnows ==
    ASSUME AloneInv, NoticeInv, NEW w \in Workers, AtRun(worker[w]), Continues(w), GoesWith
    PROVE  NoticeInv'
  <1>1. Knows(worker[w], row, ghost, Told) /\ NoticedOnce /\ worker[w].pc # "gone"
    BY DEF NoticeInv, AtRun, Duties
  <1>2. ~Doubtful(row', ghost') /\ Milder(row, row') /\ Told' = Told
    BY <1>1, SameTold DEF GoesWith, Knows, AtRun, Duties
  <1>3. worker'[w].pc \in Duties \cup {"waiting"} /\ worker'[w].key = worker[w].seen.run
    BY DEF Continues
  <1>4. ASSUME NEW k \in Told'
        PROVE  /\ row'.run # NoRun => Remembers(worker'[w], row', k)
               /\ AtRun(worker'[w]) => Remembers(worker'[w], worker'[w].seen, k)
    <2>1. (row.run # NoRun => Remembers(worker[w], row, k)) /\ Remembers(worker[w], worker[w].seen, k)
      BY <1>1, <1>2, <1>4 DEF Knows
    <2>2. row.run \in {worker[w].seen.run, NoRun}
      BY <1>1 DEF Knows
    <2>3. AtRun(worker'[w]) => worker'[w].seen = worker[w].seen
      BY <1>3 DEF AtRun, Duties, Continues
    <2> QED BY <1>2, <2>1, <2>2, <2>3 DEF Remembers, Milder, Continues
  <1>5. Knows(worker'[w], row', ghost', Told')
    <2>1. AtRun(worker'[w]) => row'.run \in {worker'[w].seen.run, NoRun} /\ ~Legacy(row')
      BY <1>1, <1>2, <1>3 DEF AtRun, Duties, Continues, Knows, Milder
    <2> QED BY <1>2, <1>3, <1>4, <2>1 DEF Knows, Duties, Continues
  <1>6. NoticedOnce'
    BY <1>1 DEF NoticedOnce, GoesWith, notices
  <1> QED BY <1>1, <1>3, <1>5, <1>6, OneKnows DEF GoesWith, Continues, Duties

-----------------------------------------------------------------------------
(* The steps of a worker, by what it remembers after them.                 *)
LEMMA FreshRests ==
    ASSUME Types, NEW w \in Workers
    PROVE  /\ Leaves(w) => Rested(w) /\ worker'[w].pc = "leaving"
           /\ Retries(w) \/ Unprepared(w) => Rested(w) /\ worker'[w].sync
           /\ \A until : Rests(w, until) => Rested(w)
  <1>1. worker[w] \in Thread
    BY ThreadIs
  <1>2. ASSUME NEW t, worker' = [worker EXCEPT ![w] = t], t.pc \in {"waiting", "leaving"},
               t.key = worker[w].key, t.delivered = worker[w].delivered
        PROVE  Rested(w) /\ worker'[w] = t
    BY <1>2 DEF Rested, Types, TypeOfWorkers
  <1>3. ASSUME Leaves(w) PROVE Rested(w) /\ worker'[w].pc = "leaving"
    <2> DEFINE t == ([pc |-> "leaving"] ++ Round) ++ worker[w]
    <2>1. t.pc = "leaving" /\ t.key = worker[w].key /\ t.delivered = worker[w].delivered
      BY <1>1 DEF ++, Round, Thread
    <2>2. worker' = [worker EXCEPT ![w] = t]
      BY <1>3 DEF Leaves, Set
    <2> HIDE DEF t
    <2> QED BY <1>2, <2>1, <2>2
  <1>4. ASSUME Retries(w) PROVE Rested(w) /\ worker'[w].sync
    <2> DEFINE t == ([pc |-> "waiting", until |-> 0, sync |-> TRUE] ++ Round) ++ worker[w]
    <2>1. t.pc = "waiting" /\ t.key = worker[w].key /\ t.delivered = worker[w].delivered /\ t.sync
      BY <1>1 DEF ++, Round, Thread
    <2>2. worker' = [worker EXCEPT ![w] = t]
      BY <1>4 DEF Retries, Set
    <2> HIDE DEF t
    <2> QED BY <1>2, <2>1, <2>2
  <1>5. ASSUME Unprepared(w) PROVE Rested(w) /\ worker'[w].sync
    <2> DEFINE t == ([pc |-> "waiting", until |-> 0, sync |-> TRUE, active |-> IfMapped(w, FALSE)] ++ Round)
                       ++ worker[w]
    <2>1. t.pc = "waiting" /\ t.key = worker[w].key /\ t.delivered = worker[w].delivered /\ t.sync
      BY <1>1 DEF ++, Round, Thread
    <2>2. worker' = [worker EXCEPT ![w] = t]
      BY <1>5 DEF Unprepared, Set
    <2> HIDE DEF t
    <2> QED BY <1>2, <2>1, <2>2
  <1>6. ASSUME NEW until, Rests(w, until) PROVE Rested(w)
    <2> DEFINE t == ([pc |-> "waiting", until |-> until] ++ Round) ++ worker[w]
    <2>1. t.pc = "waiting" /\ t.key = worker[w].key /\ t.delivered = worker[w].delivered
      BY <1>1 DEF ++, Round, Thread
    <2>2. worker' = [worker EXCEPT ![w] = t]
      BY <1>6 DEF Rests, Set
    <2> HIDE DEF t
    <2> QED BY <1>2, <2>1, <2>2
  <1> QED BY <1>3, <1>4, <1>5, <1>6

(* Nothing is done for a run yet.                                          *)
Between(w) == /\ \A v \in Workers : v # w => worker'[v] = worker[v]
              /\ worker'[w].key = worker[w].key /\ worker'[w].delivered = worker[w].delivered
              /\ worker'[w].pc \in {"waiting", "leaving", "claiming", "preparing", "closing"}
              /\ worker'[w].pc = "claiming" => worker'[w].seen.run = NoRun

LEMMA BetweenKnows ==
    ASSUME AloneInv, NoticeInv, NEW w \in Workers, worker[w].pc # "gone", Between(w), GoesWith,
           ~Doubtful(row, ghost)'
    PROVE  NoticeInv'
  <1>1. Knows(worker[w], row, ghost, Told) /\ NoticedOnce
    BY DEF NoticeInv
  <1>2. Knows(worker'[w], row', ghost', Told')
    BY <1>1, SameTold DEF GoesWith, Knows, AtRun, Remembers, Milder, Between, Duties
  <1>3. NoticedOnce'
    BY <1>1 DEF GoesWith, NoticedOnce, notices
  <1> QED BY <1>2, <1>3, OneKnows DEF GoesWith, Between

LEMMA PlannedRests ==
    ASSUME Types, NEW w \in Workers, NEW s, s.run = NoRun, Planned(w, s)
    PROVE  Between(w)
  <1> DEFINE next == NextRun(s.plan, clock)
             free == [active |-> IfMapped(w, FALSE), sync |-> FALSE, seen |-> s, now |-> clock]
  <1>1. worker[w] \in Thread
    BY ThreadIs
  <1>2. ASSUME NEW until, Set(w, [pc |-> "waiting", until |-> until] ++ Round ++ free)
        PROVE  Between(w)
    <2> DEFINE t == (([pc |-> "waiting", until |-> until] ++ Round) ++ free) ++ worker[w]
    <2>1. t.pc = "waiting" /\ t.key = worker[w].key /\ t.delivered = worker[w].delivered
      BY <1>1 DEF ++, Round, Thread
    <2>2. worker' = [worker EXCEPT ![w] = t]
      BY <1>2 DEF Set
    <2> HIDE DEF t
    <2> QED BY <2>1, <2>2 DEF Between, Types, TypeOfWorkers
  <1>3. ASSUME NEW r, Set(w, [pc |-> "claiming", target |-> r] ++ free)
        PROVE  Between(w)
    <2> DEFINE t == ([pc |-> "claiming", target |-> r] ++ free) ++ worker[w]
    <2>1. t.pc = "claiming" /\ t.key = worker[w].key /\ t.delivered = worker[w].delivered /\ t.seen = s
      BY <1>1 DEF ++, Thread
    <2>2. worker' = [worker EXCEPT ![w] = t]
      BY <1>3 DEF Set
    <2> HIDE DEF t
    <2> QED BY <2>1, <2>2 DEF Between, Types, TypeOfWorkers
  <1>4. Leaves(w) => Between(w)
    BY FreshRests DEF Rested, Between
  <1> HIDE DEF next
  <1> QED BY <1>2, <1>3, <1>4 DEF Planned, next

LEMMA ReadKnows == ASSUME AloneInv, NoticeInv, NEW w \in Workers, Read(w) PROVE NoticeInv'
  <1>1. /\ Types /\ worker[w] \in Thread /\ worker[w].pc = "waiting" /\ worker[w].pc # "gone"
        /\ UNCHANGED <<row, ghost, notices>>
        /\ Knows(worker[w], row, ghost, Told) /\ NoticedOnce /\ RowNotices(row, ghost, Told)
    BY ThreadIs DEF AloneInv, NoticeInv, Read, At, Quiet
  <1>2. /\ GoesWith /\ RowNotices(row, ghost, Told)' /\ Told' = Told
        /\ NoticedOnce'
    BY <1>1, StaysWith, SameTold DEF GoesWith, NoticedOnce, notices
  <1>3. CASE Retries(w)
    BY <1>1, <1>2, <1>3, FreshRests, RestKnows
  <1>4. CASE worker[w].sync => ghost = {}
    <2>1. ~Doubtful(row, ghost) /\ ~Doubtful(row, ghost)'
      BY <1>1, <1>4 DEF Knows, Doubtful
    <2>2. CASE Leaves(w)
      BY <1>1, <1>2, <2>2, FreshRests, RestKnows
    <2>3. CASE row.run # NoRun /\ Set(w, [pc |-> "claiming", seen |-> row, now |-> clock, sync |-> FALSE])
      <3> DEFINE t == [pc |-> "claiming", seen |-> row, now |-> clock, sync |-> FALSE] ++ worker[w]
      <3>1. t.pc = "claiming" /\ t.seen = row /\ t.key = worker[w].key /\ t.delivered = worker[w].delivered
        BY <1>1 DEF ++, Thread
      <3>2. worker' = [worker EXCEPT ![w] = t]
        BY <2>3 DEF Set
      <3> HIDE DEF t
      <3>3. worker'[w] = t /\ \A v \in Workers : v # w => worker'[v] = worker[v]
        BY <1>1, <3>2 DEF Types, TypeOfWorkers
      <3>4. Knows(worker'[w], row', ghost', Told')
        BY <1>1, <1>2, <2>1, <2>3, <3>1, <3>3 DEF Knows, AtRun, Remembers, Duties, Legacy
      <3> QED BY <1>1, <1>2, <3>1, <3>3, <3>4, OneKnows
    <2>4. CASE row.run = NoRun /\ row.posted /\ Set(w, [pc |-> "restoring", sync |-> FALSE])
      <3> DEFINE t == [pc |-> "restoring", sync |-> FALSE] ++ worker[w]
      <3>1. t.pc = "restoring"
        BY <1>1 DEF ++, Thread
      <3>2. worker' = [worker EXCEPT ![w] = t]
        BY <2>4 DEF Set
      <3> HIDE DEF t
      <3>3. worker'[w] = t /\ \A v \in Workers : v # w => worker'[v] = worker[v]
        BY <1>1, <3>2 DEF Types, TypeOfWorkers
      <3>4. Told = {}
        BY <1>1, <2>4 DEF RowNotices, Legacy
      <3>5. Knows(worker'[w], row', ghost', Told')
        BY <1>1, <1>2, <2>1, <2>4, <3>1, <3>3, <3>4 DEF Knows, AtRun, Duties
      <3> QED BY <1>1, <1>2, <3>1, <3>3, <3>5, OneKnows
    <2>5. CASE row.run = NoRun /\ Planned(w, row)
      BY <1>1, <1>2, <2>1, <2>5, PlannedRests, BetweenKnows
    <2> QED BY <1>4, <1>3, <2>2, <2>3, <2>4, <2>5 DEF Read
  <1> QED BY <1>3, <1>4 DEF Read

LEMMA CanceledInWaitKnows ==
    ASSUME AloneInv, NoticeInv, NEW w \in Workers, CanceledInWait(w) PROVE NoticeInv'
  <1>1. Types /\ worker[w].pc # "gone" /\ UNCHANGED <<row, ghost, notices>> /\ Leaves(w)
    BY DEF AloneInv, CanceledInWait, At, Quiet
  <1> QED BY <1>1, StaysWith, FreshRests, RestKnows

(* No notice was sent of a run that is restored.                           *)
LEMMA RestoreLegacyKnows ==
    ASSUME AloneInv, NoticeInv, NEW w \in Workers, RestoreLegacy(w) PROVE NoticeInv'
  <1>1. /\ Types /\ worker[w] \in Thread /\ worker[w].pc = "restoring" /\ worker[w].pc # "gone"
        /\ Recount /\ Knows(worker[w], row, ghost, Told) /\ NoticedOnce
    BY ThreadIs DEF AloneInv, NoticeInv, RestoreLegacy, At
  <1>2. row.run = NoRun /\ Told = {} /\ Told' = {} /\ NoticedOnce'
    BY <1>1, RecountIs, SameTold DEF Knows
  <1>3. Exists(row) => Restored.run = LegacyRun /\ Restored.run # NoRun
    BY <1>1, RowCases, SchedulerAssumption DEF Restored, Row
  <1>4. ~Exists(row) => Restored = row
    BY DEF Restored
  <1>5. Milder(row, Ended) /\ Ended.run = NoRun
    BY <1>1, MilderIs, EndedIs
  <1>6. CASE (Leaves(w) \/ Retries(w)) /\ UNCHANGED <<row, ghost>>
    BY <1>1, <1>6, RecountIs, StaysWith, FreshRests, RestKnows
  <1>7. CASE /\ Exists(row) /\ Write(Restored)
             /\ Set(w, [pc |-> "claiming", seen |-> Restored, now |-> clock])
    <2> DEFINE t == [pc |-> "claiming", seen |-> Restored, now |-> clock] ++ worker[w]
    <2>1. t.pc = "claiming" /\ t.seen = Restored
      BY <1>1 DEF ++, Thread
    <2>2. worker' = [worker EXCEPT ![w] = t]
      BY <1>7 DEF Set
    <2> HIDE DEF t
    <2>3. worker'[w] = t /\ \A v \in Workers : v # w => worker'[v] = worker[v]
      BY <1>1, <2>2 DEF Types, TypeOfWorkers
    <2>4. row' = Restored /\ ghost' = {}
      BY <1>7 DEF Write, Stored
    <2>5. RowNotices(row, ghost, Told)'
      BY <1>2, <1>3, <1>7, <2>4 DEF RowNotices
    <2>6. Knows(worker'[w], row', ghost', Told')
      BY <1>2, <1>3, <1>7, <2>1, <2>3, <2>4 DEF Knows, AtRun, Duties, Legacy, Doubtful
    <2> QED BY <1>1, <1>2, <2>1, <2>3, <2>5, <2>6, OneKnows
  <1>8. CASE Lose(Restored) /\ Retries(w)
    <2>1. row' = row /\ ghost' \subseteq {Restored}
      BY <1>8 DEF Lose
    <2>2. RowNotices(row, ghost, Told)'
      BY <1>2, <1>3, <1>4, <2>1 DEF RowNotices, Sequel, Legacy
    <2>3. Rested(w) /\ worker'[w].sync
      BY <1>1, <1>8, FreshRests
    <2>4. Knows(worker'[w], row', ghost', Told')
      BY <1>2, <2>1, <2>3, FreshRests DEF Knows, AtRun, Duties, Rested
    <2> QED BY <1>1, <1>2, <2>2, <2>3, <2>4, OneKnows DEF Rested
  <1>9. CASE Write(Ended) /\ (Leaves(w) \/ Planned(w, Ended))
    <2>1. row' = Ended /\ ghost' = {}
      BY <1>9 DEF Write, Stored
    <2>3. UNCHANGED notices
      BY <1>1, <1>2, <1>5, <2>1, RecountIs
    <2>4. GoesWith /\ ~Doubtful(row, ghost)'
      BY <1>5, <1>9, <2>1, <2>3, GoesWithIs DEF Doubtful
    <2>2. Between(w)
      BY <1>1, <1>5, <1>9, PlannedRests, FreshRests DEF Rested, Between
    <2> QED BY <1>1, <2>2, <2>4, BetweenKnows
  <1>10. CASE Lose(Ended) /\ Retries(w)
    <2>1. UNCHANGED notices
      BY <1>1, <1>10, RecountIs DEF Lose
    <2> QED BY <1>1, <1>5, <1>10, <2>1, GoesWithIs, FreshRests, RestKnows
  <1> QED BY <1>6, <1>7, <1>8, <1>9, <1>10 DEF RestoreLegacy

LEMMA DutyGives ==
    ASSUME NEW me, me \in Thread, NEW done
    PROVE  LET t == DutyAfter(me, done) ++ me
           IN  /\ t.pc \in Duties \cup {"waiting"} /\ t.key = me.key /\ t.delivered = me.delivered
               /\ t.pc \in Duties => t.seen = me.seen
               /\ t.pc = "noticing" => t.mark \in Notices \ me.seen.notified
  <1>1. ASSUME NEW m, NEW pc
        PROVE  LET t == [pc |-> pc, mark |-> m] ++ me
               IN  t.pc = pc /\ t.mark = m /\ t.key = me.key /\ t.delivered = me.delivered /\ t.seen = me.seen
    BY DEF ++, Thread
  <1>2. LET t == [pc |-> "refreshing"] ++ me
        IN  t.pc = "refreshing" /\ t.key = me.key /\ t.delivered = me.delivered /\ t.seen = me.seen
    BY DEF ++, Thread
  <1>3. LET t == ([pc |-> "waiting", until |-> 0, sync |-> me.failed] ++ Round) ++ me
        IN  t.pc = "waiting" /\ t.key = me.key /\ t.delivered = me.delivered
    BY DEF ++, Thread, Round
  <1> QED BY <1>1, <1>2, <1>3 DEF DutyAfter, Duties, Due, Notices

LEMMA ProceedsGives ==
    ASSUME Types, NEW w \in Workers, NEW fields, NEW done, Proceeds(w, fields, done),
           LET me == fields ++ worker[w]
           IN  /\ me \in Thread /\ me.seen = worker[w].seen /\ me.key = worker[w].seen.run
               /\ worker[w].key = worker[w].seen.run => me.delivered = worker[w].delivered
    PROVE  Continues(w)
  <1> DEFINE me == fields ++ worker[w]
             t == DutyAfter(me, done) ++ me
  <1>1. worker' = [worker EXCEPT ![w] = t]
    BY DEF Proceeds
  <1>2. /\ t.pc \in Duties \cup {"waiting"} /\ t.key = me.key /\ t.delivered = me.delivered
        /\ t.pc \in Duties => t.seen = me.seen
        /\ t.pc = "noticing" => t.mark \in Notices \ me.seen.notified
    BY DutyGives
  <1>3. /\ me.seen = worker[w].seen /\ me.key = worker[w].seen.run
        /\ worker[w].key = worker[w].seen.run => me.delivered = worker[w].delivered
    OBVIOUS
  <1> HIDE DEF t, me
  <1>4. worker'[w] = t /\ \A v \in Workers : v # w => worker'[v] = worker[v]
    BY <1>1 DEF Types, TypeOfWorkers
  <1> QED BY <1>2, <1>3, <1>4 DEF Continues

LEMMA GoesOnGives ==
    ASSUME Types, NEW w \in Workers, worker[w].pc \in Duties, NEW done,
           \/ Proceeds(w, Failed, done)
           \/ Proceeds(w, <<>>, done)
           \/ Proceeds(w, [reconciled |-> TRUE], done)
    PROVE  Continues(w)
  <1>1. worker[w] \in Thread /\ worker[w].key = worker[w].seen.run
    BY ThreadIs DEF ThreadOK
  <1>2. LET me == Failed ++ worker[w]
        IN  me \in Thread /\ me.seen = worker[w].seen /\ me.key = worker[w].key /\ me.delivered = worker[w].delivered
    BY <1>1 DEF Failed, ++, Thread
  <1>3. LET me == <<>> ++ worker[w]
        IN  me \in Thread /\ me.seen = worker[w].seen /\ me.key = worker[w].key /\ me.delivered = worker[w].delivered
    BY <1>1 DEF ++, Thread
  <1>4. LET me == [reconciled |-> TRUE] ++ worker[w]
        IN  me \in Thread /\ me.seen = worker[w].seen /\ me.key = worker[w].key /\ me.delivered = worker[w].delivered
    BY <1>1 DEF ++, Thread
  <1> QED BY <1>1, <1>2, <1>3, <1>4, ProceedsGives

LEMMA ClaimActiveKnows == ASSUME AloneInv, NoticeInv, NEW w \in Workers, ClaimActive(w) PROVE NoticeInv'
  <1> DEFINE run == worker[w].seen.run
  <1>1. /\ Types /\ worker[w] \in Thread /\ worker[w].pc = "claiming" /\ worker[w].pc # "gone"
        /\ UNCHANGED <<row, ghost, notices>> /\ Knows(worker[w], row, ghost, Told)
    BY ThreadIs DEF AloneInv, NoticeInv, ClaimActive, At, Quiet
  <1>2. GoesWith /\ ~Doubtful(row, ghost)'
    BY <1>1, StaysWith DEF Knows, GoesWith
  <1>3. CASE Leaves(w)
    BY <1>1, <1>2, <1>3, FreshRests, RestKnows
  <1>4. ASSUME NEW pc \in {"preparing", "closing"}, Set(w, [pc |-> pc, active |-> TRUE])
        PROVE  NoticeInv'
    <2> DEFINE t == [pc |-> pc, active |-> TRUE] ++ worker[w]
    <2>1. t.pc = pc /\ t.key = worker[w].key /\ t.delivered = worker[w].delivered
      BY <1>1 DEF ++, Thread
    <2>2. worker' = [worker EXCEPT ![w] = t]
      BY <1>4 DEF Set
    <2> HIDE DEF t
    <2>3. Between(w)
      BY <1>1, <2>1, <2>2 DEF Between, Types, TypeOfWorkers
    <2> QED BY <1>1, <1>2, <2>3, BetweenKnows
  <1>5. CASE run # NoRun /\ Proceeds(w, [active |-> TRUE] ++ NewKey(w), "nothing")
    <2> DEFINE f == [active |-> TRUE] ++ NewKey(w)
               me == f ++ worker[w]
    <2>1. run \in Runs \cup {NoRun}
      BY <1>1, ThreadIs, RowIs DEF Row
    <2>2. /\ me \in Thread /\ me.seen = worker[w].seen /\ me.key = run
          /\ worker[w].key = run => me.delivered = worker[w].delivered
      <3>1. CASE worker[w].key = run
        <4>1. NewKey(w) = <<>>
          BY <3>1 DEF NewKey
        <4>2. DOMAIN f = {"active"} /\ f["active"] = TRUE
          BY <4>1 DEF ++
        <4> HIDE DEF f
        <4> QED BY <1>1, <3>1, <4>2 DEF ++, Thread
      <3>2. CASE worker[w].key # run
        <4>1. NewKey(w) = [key |-> run, delivered |-> {}, reconciled |-> FALSE]
          BY <3>2 DEF NewKey
        <4>2. /\ DOMAIN f = {"active", "key", "delivered", "reconciled"} /\ f["active"] = TRUE
              /\ f["key"] = run /\ f["delivered"] = {} /\ f["reconciled"] = FALSE
          BY <4>1 DEF ++
        <4> HIDE DEF f
        <4> QED BY <1>1, <2>1, <3>2, <4>2 DEF ++, Thread
      <3> QED BY <3>1, <3>2
    <2> HIDE DEF me
    <2>3. Continues(w)
      BY <1>1, <1>5, <2>2, ProceedsGives DEF me
    <2>4. AtRun(worker[w])
      BY <1>1, <1>5 DEF AtRun
    <2> QED BY <1>2, <2>3, <2>4, ContinueKnows
  <1> QED BY <1>3, <1>4, <1>5 DEF ClaimActive

(* A run that begins has had no notice.                                    *)
LEMMA PrepareKnows == ASSUME AloneInv, NoticeInv, NEW w \in Workers, Prepare(w) PROVE NoticeInv'
  <1> DEFINE r == worker[w].target
  <1>1. /\ Types /\ worker[w] \in Thread /\ worker[w].pc = "preparing" /\ worker[w].pc # "gone"
        /\ Knows(worker[w], row, ghost, Told) /\ RowNotices(row, ghost, Told)
        /\ Recount
        /\ NoticedOnce
    BY ThreadIs DEF AloneInv, NoticeInv, Prepare, At
  <1>2. ~Doubtful(row, ghost) /\ Milder(row, row)
    BY <1>1 DEF Knows, Milder
  <1>3. CASE Unprepared(w) /\ UNCHANGED <<row, ghost>>
    <2>1. UNCHANGED notices
      BY <1>1, <1>3, RecountIs
    <2> QED BY <1>1, <1>3, <2>1, StaysWith, FreshRests, RestKnows
  <1>4. CASE CanBegin(r) /\ row.run = r /\ ((Write(Prepared(r)) /\ Rests(w, 0)) \/ (Lose(Prepared(r)) /\ Unprepared(w)))
    <2>1. Prepared(r) = row
      BY <1>4 DEF Prepared
    <2>4. UNCHANGED notices
      BY <1>1, <1>4, <2>1, RecountIs DEF Write, Stored, Lose
    <2>2. UNCHANGED notices /\ GoesWith
      BY <1>1, <1>2, <1>4, <2>1, <2>4, GoesWithIs
    <2>3. Rested(w) /\ ~Doubtful(row, ghost)'
      BY <1>1, <1>2, <1>4, <2>2, FreshRests DEF GoesWith
    <2> QED BY <1>1, <2>2, <2>3, RestKnows
  <1>5. CASE CanBegin(r) /\ row.run # r
    <2>1. row.run = NoRun /\ ~row.posted /\ Prepared(r) = Begun(r) /\ row \in Row
      BY <1>1, <1>5, RowCases DEF CanBegin, Prepared
    <2>2. Begun(r).run = r /\ Begun(r).posted = FALSE
      BY <2>1 DEF Begun, Row
    <2>3. CASE Write(Begun(r)) /\ Rests(w, 0)
      <3>1. row' = Begun(r) /\ ghost' = {}
        BY <2>3 DEF Write, Stored
      <3>2. Told' = {} /\ NoticedOnce'
        BY <1>1, <1>5, <2>2, <3>1, RecountIs
      <3>3. RowNotices(row, ghost, Told)' /\ ~Doubtful(row, ghost)'
        BY <3>1, <3>2 DEF RowNotices, Doubtful
      <3> QED BY <1>1, <2>3, <3>2, <3>3, FreshRests, RestKnows
    <2>4. CASE Lose(Begun(r)) /\ Unprepared(w)
      <3>1. row' = row /\ ghost' \subseteq {Begun(r)} /\ Told' = Told /\ NoticedOnce'
        BY <1>1, <2>4, RecountIs, SameTold DEF Lose
      <3>2. RowNotices(row, ghost, Told)'
        BY <1>1, <2>1, <2>2, <3>1 DEF RowNotices, Sequel, Legacy
      <3>3. Rested(w) /\ worker'[w].sync
        BY <1>1, <2>4, FreshRests
      <3>4. Knows(worker'[w], row', ghost', Told')
        BY <1>1, <3>1, <3>3 DEF Knows, AtRun, Remembers, Rested, Duties
      <3> QED BY <1>1, <3>1, <3>2, <3>3, <3>4, OneKnows DEF Rested
    <2> QED BY <1>5, <2>1, <2>3, <2>4, <1>3 DEF Prepare
  <1> QED BY <1>3, <1>4, <1>5 DEF Prepare

LEMMA CloseKnows == ASSUME AloneInv, NoticeInv, NEW w \in Workers, Close(w) PROVE NoticeInv'
  <1>1. /\ Types /\ worker[w].pc = "closing" /\ worker[w].pc # "gone" /\ UNCHANGED notices
        /\ Knows(worker[w], row, ghost, Told) /\ Milder(row, Ended)
    BY MilderIs DEF AloneInv, NoticeInv, Close, At
  <1>2. GoesWith /\ ~Doubtful(row, ghost)'
    BY <1>1, GoesWithIs DEF Close, GoesWith, Knows
  <1>3. Rested(w)
    BY <1>1, FreshRests DEF Close
  <1> QED BY <1>1, <1>2, <1>3, RestKnows

LEMMA ToMarkGives ==
    ASSUME Types, NEW w \in Workers, worker[w].pc = "noticing", NEW k, ToMark(w, k)
    PROVE  /\ Continues(w) /\ worker'[w].pc = "marking" /\ worker'[w].seen = worker[w].seen
           /\ worker'[w].delivered = worker[w].delivered \cup {k}
  <1> DEFINE t == [pc |-> "marking", delivered |-> worker[w].delivered \cup {k}] ++ worker[w]
  <1>1. worker[w] \in Thread /\ worker[w].key = worker[w].seen.run
    BY ThreadIs DEF ThreadOK, Duties
  <1>2. /\ t.pc = "marking" /\ t.seen = worker[w].seen /\ t.key = worker[w].key
        /\ t.delivered = worker[w].delivered \cup {k}
    BY <1>1 DEF ++, Thread
  <1>3. worker' = [worker EXCEPT ![w] = t]
    BY DEF ToMark, Set
  <1> HIDE DEF t
  <1> QED BY <1>1, <1>2, <1>3 DEF Continues, Duties, Types, TypeOfWorkers

(* A notice that this worker may send has not been sent.                   *)
LEMMA NotifyKnows == ASSUME AloneInv, NoticeInv, NEW w \in Workers, Notify(w) PROVE NoticeInv'
  <1> DEFINE k == worker[w].mark
  <1>1. /\ Types /\ worker[w].pc = "noticing" /\ AtRun(worker[w]) /\ worker[w].pc # "gone"
        /\ UNCHANGED <<row, ghost>> /\ k \notin worker[w].delivered /\ worker[w].key = worker[w].seen.run
        /\ Knows(worker[w], row, ghost, Told) /\ RowNotices(row, ghost, Told) /\ NoticedOnce
        /\ sent \in [Notices -> Nat] /\ forgot \in [Notices -> Nat] /\ forgot' = forgot
    BY ThreadIs DEF AloneInv, NoticeInv, Notify, At, InTime, AtRun, Duties, ThreadOK, Types, TypeOfWorld, TypeOfNotices
  <1>2. CASE sent' = sent /\ Proceeds(w, Failed, k)
    <2>1. UNCHANGED notices
      BY <1>1, <1>2 DEF notices
    <2> QED BY <1>1, <1>2, <2>1, StaysWith, GoesOnGives, ContinueKnows DEF Duties
  <1>3. CASE ToMark(w, k) /\ sent' = [sent EXCEPT ![k] = @ + 1]
    <2>1. k \in Notices \ worker[w].seen.notified /\ row.run \in {worker[w].seen.run, NoRun} /\ ~Legacy(row)
      BY <1>1 DEF Knows
    <2>2. ~Remembers(worker[w], worker[w].seen, k)
      BY <1>1, <2>1 DEF Remembers
    <2>3. k \notin Told /\ sent[k] <= forgot[k]
      BY <1>1, <2>1, <2>2 DEF Knows, Told
    <2>4. sent'[k] = sent[k] + 1 /\ \A j \in Notices : j # k => sent'[j] = sent[j]
      BY <1>1, <1>3, <2>1
    <2>10. Told' \subseteq Told \cup {k}
      BY <1>1, <2>4 DEF Told
    <2>5. /\ Continues(w) /\ worker'[w].pc = "marking" /\ worker'[w].seen = worker[w].seen
          /\ worker'[w].delivered = worker[w].delivered \cup {k}
      BY <1>1, <1>3, ToMarkGives
    <2>6. RowNotices(row, ghost, Told)'
      BY <1>1, <2>1 DEF RowNotices
    <2>7. NoticedOnce'
      BY <1>1, <2>1, <2>3, <2>4 DEF NoticedOnce
    <2>8. ASSUME NEW j \in Told'
          PROVE  /\ row.run # NoRun => Remembers(worker'[w], row, j)
                 /\ Remembers(worker'[w], worker'[w].seen, j)
      <3>1. CASE j = k
        BY <1>1, <2>1, <2>5, <3>1 DEF Remembers, Continues
      <3>2. CASE j # k
        <4>1. (row.run # NoRun => Remembers(worker[w], row, j)) /\ Remembers(worker[w], worker[w].seen, j)
          BY <1>1, <2>10, <3>2 DEF Knows
        <4> QED BY <1>1, <2>5, <4>1 DEF Remembers, Continues
      <3> QED BY <3>1, <3>2
    <2>9. Knows(worker'[w], row', ghost', Told')
      <3>1. ~Doubtful(row, ghost)
        BY <1>1 DEF Knows
      <3> QED BY <1>1, <2>1, <2>5, <2>8, <3>1 DEF Knows, AtRun, Duties
    <2> QED BY <1>1, <2>5, <2>6, <2>7, <2>9, OneKnows DEF Continues
  <1> QED BY <1>1, <1>2, <1>3 DEF Notify

LEMMA TooLateKnows == ASSUME AloneInv, NoticeInv, NEW w \in Workers, TooLate(w) PROVE NoticeInv'
  <1>1. Types /\ worker[w].pc = "noticing" /\ AtRun(worker[w]) /\ UNCHANGED <<row, ghost, notices>>
    BY DEF AloneInv, TooLate, At, Quiet, AtRun, Duties
  <1> QED BY <1>1, StaysWith, ToMarkGives, ContinueKnows DEF TooLate

LEMMA MarkKnows == ASSUME AloneInv, NoticeInv, NEW w \in Workers, Mark(w) PROVE NoticeInv'
  <1>1. /\ Types /\ worker[w].pc \in Duties /\ AtRun(worker[w]) /\ UNCHANGED notices
        /\ Milder(row, Marked(worker[w].mark))
    BY ThreadIs, MilderIs DEF AloneInv, Mark, At, Quiet, AtRun, Duties
  <1> QED BY <1>1, GoesWithIs, GoesOnGives, ContinueKnows DEF Mark

LEMMA RefreshKnows == ASSUME AloneInv, NoticeInv, NEW w \in Workers, Refresh(w) PROVE NoticeInv'
  <1>1. /\ Types /\ worker[w].pc \in Duties /\ AtRun(worker[w]) /\ UNCHANGED notices
        /\ Milder(row, Posted)
    BY MilderIs DEF AloneInv, Refresh, At, Quiet, AtRun, Duties
  <1> QED BY <1>1, GoesWithIs, GoesOnGives, ContinueKnows DEF Refresh

(* A worker that ends forgets with it what is not marked.                  *)
LEMMA AllForgotten ==
    ASSUME Types, NoticeInv, NEW ws, Forgets(ws), UNCHANGED <<row, ghost, sent>>,
           \/ \E w \in ws : Knows(worker[w], row, ghost, Told)
           \/ \A w \in Workers : worker[w].pc = "gone",
           \A w \in Workers : worker'[w].pc = "gone"
    PROVE  NoticeInv'
  <1>1. /\ Told' = {k \in Told : \A w \in ws : k \notin Unmarked(w)} /\ NoticedOnce'
        /\ RowNotices(row, ghost, Told)
    BY ForgetsIs DEF NoticeInv
  <1>2. ASSUME NEW k \in Told', row.run # NoRun PROVE k \in row.notified
    <2>1. k \in Told /\ k \in Notices /\ forgot[k] < sent[k] /\ \A w \in ws : k \notin Unmarked(w)
      BY <1>1 DEF Told
    <2>2. CASE \A w \in Workers : worker[w].pc = "gone"
      BY <1>2, <2>1, <2>2 DEF NoticeInv, AllMarked
    <2>3. CASE \E w \in ws : Knows(worker[w], row, ghost, Told)
      <3>1. PICK w \in ws : Knows(worker[w], row, ghost, Told)
        BY <2>3
      <3>2. Remembers(worker[w], row, k) /\ k \notin Unmarked(w)
        BY <1>2, <2>1, <3>1 DEF Knows
      <3> QED BY <1>2, <2>1, <3>2 DEF Remembers, Unmarked
    <2> QED BY <2>2, <2>3
  <1>3. RowNotices(row, ghost, Told)'
    BY <1>1 DEF RowNotices
  <1>4. AllMarked(row', Told')
    BY <1>2 DEF AllMarked
  <1> QED BY <1>1, <1>3, <1>4 DEF NoticeInv

LEMMA LeaveKnows == ASSUME AloneInv, NoticeInv, NEW w \in Workers, Leave(w) PROVE NoticeInv'
  <1>1. /\ worker[w].pc # "gone" /\ UNCHANGED <<row, ghost, sent>> /\ Types /\ Forgets({w})
        /\ worker \in [Workers -> Thread] /\ worker' = [worker EXCEPT ![w] = Gone]
        /\ Knows(worker[w], row, ghost, Told)
    BY DEF AloneInv, Types, TypeOfWorkers, Leave, At, NoticeInv
  <1>2. \A v \in Workers : worker'[v].pc = "gone"
    BY <1>1, OnlyOne, SpawnedIs
  <1> QED BY <1>1, <1>2, AllForgotten

LEMMA WorkerStepKnows == ASSUME AloneInv, NoticeInv, NEW w \in Workers, WorkerStep(w) PROVE NoticeInv'
  BY ReadKnows, CanceledInWaitKnows, RestoreLegacyKnows, ClaimActiveKnows, PrepareKnows, CloseKnows,
     NotifyKnows, TooLateKnows, MarkKnows, RefreshKnows, LeaveKnows
  DEF WorkerStep

-----------------------------------------------------------------------------
(* The steps of others.                                                    *)
LEMMA WorkersStay == ASSUME NoticeInv, GoesWith, UNCHANGED worker PROVE NoticeInv'
  BY OthersKnow

LEMMA StopsRemember ==
    ASSUME Types, NEW c \in Callers, NEW fields, Stops(c, fields)
    PROVE  \A w \in Workers : /\ worker'[w].pc = worker[w].pc /\ worker'[w].seen = worker[w].seen
                              /\ worker'[w].key = worker[w].key /\ worker'[w].mark = worker[w].mark
                              /\ worker'[w].delivered = worker[w].delivered
                              /\ worker'[w].sync = worker[w].sync
                              /\ worker'[w].target = worker[w].target
  <1>1. mapped \in Workers \cup {NoWorker} /\ worker \in [Workers -> Thread]
    BY DEF Types, TypeOfCalls, TypeOfWorkers
  <1>2. CASE mapped = NoWorker
    BY <1>1, <1>2 DEF Stops
  <1>3. CASE mapped \in Workers
    <2> DEFINE t == [worker[mapped] EXCEPT !.canceled = TRUE]
    <2>1. worker' = [worker EXCEPT ![mapped] = t]
      BY <1>1, <1>3, SchedulerAssumption DEF Stops
    <2>2. /\ t.pc = worker[mapped].pc /\ t.seen = worker[mapped].seen /\ t.key = worker[mapped].key
          /\ t.mark = worker[mapped].mark /\ t.delivered = worker[mapped].delivered
          /\ t.sync = worker[mapped].sync /\ t.target = worker[mapped].target
      BY <1>1, <1>3 DEF Thread
    <2> HIDE DEF t
    <2> QED BY <1>1, <1>3, <2>1, <2>2
  <1> QED BY <1>1, <1>2, <1>3

LEMMA StopKnows ==
    ASSUME AloneInv, NoticeInv, NEW c \in Callers, RemoveSchedule(c) \/ ReplaceWorker(c) \/ StopListed(c)
    PROVE  NoticeInv'
  <1>1. Types /\ UNCHANGED <<row, ghost, notices>> /\ \E fields : Stops(c, fields)
    BY DEF AloneInv, RemoveSchedule, ReplaceWorker, StopListed
  <1> QED BY <1>1, StopsRemember, StaysWith, OthersKnow

LEMMA DeleteKnows == ASSUME AloneInv, NoticeInv, NEW c \in Callers, Delete(c) PROVE NoticeInv'
  <1>1. /\ Types /\ UNCHANGED <<worker, notices>> /\ RowNotices(row, ghost, Told)
        /\ Milder(row, NoRow) /\ Milder(row, Ended) /\ Milder(Ended, NoRow)
        /\ NoRow.run = NoRun /\ Ended.run = NoRun
    BY MilderIs, EmptyIs, EndedIs DEF AloneInv, NoticeInv, Delete
  <1>2. CASE Write(NoRow) \/ Lose(Ended)
    BY <1>1, <1>2, GoesWithIs, WorkersStay
  <1>3. CASE row' = Ended /\ ghost' \in {{}, {NoRow}}
    <2>1. GoesWith
      BY <1>1, <1>3, SameTold DEF GoesWith, RowNotices, Milder, Sequel, Doubtful
    <2> QED BY <1>1, <2>1, WorkersStay
  <1> QED BY <1>2, <1>3 DEF Delete

LEMMA CancelPendingKnows == ASSUME AloneInv, NoticeInv, NEW c \in Callers, CancelPending(c) PROVE NoticeInv'
  <1>1. Types /\ UNCHANGED <<worker, notices>> /\ Milder(row, Ended)
    BY MilderIs DEF AloneInv, CancelPending
  <1>2. GoesWith
    BY <1>1, GoesWithIs, StaysWith DEF CancelPending
  <1> QED BY <1>1, <1>2, WorkersStay

(* A new worker finds in the row what was told and is not forgotten.       *)
LEMMA StartWorkerKnows == ASSUME AloneInv, NoticeInv, NEW c \in Callers, StartWorker(c) PROVE NoticeInv'
  <1>1. /\ Types /\ call[c].pc = "await" /\ IsDone(call[c].awaited) /\ UNCHANGED <<row, ghost, notices>>
        /\ worker \in [Workers -> Thread] /\ RowNotices(row, ghost, Told) /\ NoticedOnce
    BY DEF AloneInv, Types, TypeOfWorkers, NoticeInv, StartWorker, CallAt
  <1>2. (\A w \in Workers : worker[w].pc = "gone") /\ AllMarked(row, Told)
    BY <1>1, AllGone DEF NoticeInv
  <1>5. GoesWith /\ Told' = Told
    BY <1>1, StaysWith, SameTold
  <1>3. CASE phase = "stopping"
    <2>1. UNCHANGED worker
      BY <1>3 DEF StartWorker
    <2> QED BY <1>5, <2>1, WorkersStay
  <1>4. CASE phase # "stopping"
    <2> DEFINE w == CHOOSE v \in Workers : worker[v].pc = "gone"
               b == call[c].sch.run # NoRun \/ call[c].sch.posted
    <2>1. w \in Workers
      BY <1>2, SchedulerAssumption
    <2>2. worker' = [worker EXCEPT ![w] = Spawned(b)]
      BY <1>4 DEF StartWorker
    <2>3. Spawned(b).pc = "waiting" /\ Spawned(b).sync = TRUE
      BY DEF Spawned, ++, Round
    <2> HIDE DEF w, b
    <2>4. worker'[w] = Spawned(b) /\ \A v \in Workers : v # w => worker'[v].pc = "gone"
      BY <1>1, <1>2, <2>1, <2>2
    <2>5. RowNotices(row, ghost, Told)' /\ NoticedOnce'
      BY <1>1, <1>5 DEF GoesWith, NoticedOnce, notices
    <2>6. Knows(worker'[w], row', ghost', Told')
      BY <1>1, <1>2, <1>5, <2>3, <2>4 DEF Knows, AtRun, Duties, Remembers, AllMarked
    <2>7. worker'[w].pc # "gone"
      BY <2>3, <2>4
    <2> QED BY <2>1, <2>4, <2>5, <2>6, <2>7 DEF NoticeInv
  <1> QED BY <1>3, <1>4

LEMMA CallStepKnows == ASSUME AloneInv, NoticeInv, NEW c \in Callers, CallStep(c) PROVE NoticeInv'
  <1>1. ASSUME UNCHANGED <<row, ghost, worker, notices>> PROVE NoticeInv'
    BY <1>1, StaysWith, WorkersStay
  <1> QED BY <1>1, DeleteKnows, StopKnows, CancelPendingKnows, StartWorkerKnows
          DEF CallStep, Reread, ScheduleNext, WorkerStopped, Reconfigure, SyncPending, Refetch

LEMMA EditScheduleKnows == ASSUME AloneInv, NoticeInv, NEW c \in Callers, EditSchedule(c) PROVE NoticeInv'
  <1>1. Types /\ UNCHANGED <<worker, notices>> /\ Exists(row)
    BY DEF AloneInv, EditSchedule
  <1>2. PICK p \in Plans : Stored([row EXCEPT !.plan = p]) \/ Lose([row EXCEPT !.plan = p])
    BY DEF EditSchedule
  <1>3. Milder(row, [row EXCEPT !.plan = p])
    BY <1>1, MilderIs
  <1> DEFINE s == [row EXCEPT !.plan = p]
  <1>4. Milder(row, s) /\ (Stored(s) \/ Lose(s))
    BY <1>2, <1>3
  <1> HIDE DEF s
  <1> QED BY <1>1, <1>4, GoesWithIs, WorkersStay

(* The first row that is stored finds nobody, and its run is a new one.    *)
LEMMA FirstRowKnows ==
    ASSUME NoticeInv, Nobody, row.run = NoRun, NEW s, ~Legacy(s), Stored(s) \/ Lose(s), UNCHANGED worker, Recount
    PROVE  NoticeInv'
  <1>1. RowNotices(row, ghost, Told) /\ NoticedOnce
    BY DEF NoticeInv
  <1>2. Told' = {} \/ (Told' = Told /\ row'.run = NoRun)
    BY <1>1, RecountIs, SameTold
  <1>3. RowNotices(row, ghost, Told)'
    BY <1>1, <1>2 DEF RowNotices, Sequel, Stored, Lose
  <1>4. AllMarked(row', Told')
    BY <1>2 DEF AllMarked
  <1> QED BY <1>1, <1>3, <1>4, RecountIs DEF NoticeInv, Nobody

LEMMA ChangeKnows ==
    ASSUME TendedInv, NoticeInv, NEW c \in Callers, Change(c) PROVE NoticeInv'
  <1>1. AloneInv /\ (~existed => row = NoRow /\ Nobody)
    BY UnbornIs DEF TendedInv
  <1>2. CASE ChangeSettings(c) \/ DeleteSchedule(c)
    <2>1. UNCHANGED <<row, ghost, worker, notices>>
      BY <1>2 DEF ChangeSettings, DeleteSchedule, db
    <2> QED BY <2>1, StaysWith, WorkersStay
  <1>3. CASE EditSchedule(c)
    BY <1>1, <1>3, EditScheduleKnows
  <1>4. CASE AddSchedule(c)
    <2>1. PICK p \in Plans : Stored(Regular(p)) \/ Lose(Regular(p))
      BY <1>4 DEF AddSchedule
    <2>2. ~existed /\ UNCHANGED <<worker, notices>>
      BY <1>4 DEF AddSchedule
    <2>3. ~Legacy(Regular(p)) /\ Regular(p).run = NoRun
      BY DEF Legacy, Regular, NoRow
    <2>4. Recount
      BY <1>1, <2>1, <2>2, <2>3, EmptyIs DEF Recount, notices, Stored, Lose
    <2> QED BY <1>1, <2>1, <2>2, <2>3, <2>4, EmptyIs, FirstRowKnows
  <1>5. CASE RunInstant(c)
    <2>1. PICK r \in Runs : LET s == [Regular(FirstPlan) EXCEPT !.temp = TRUE, !.run = r]
                            IN  Stored(s) \/ Lose(s)
      BY <1>5 DEF RunInstant
    <2> DEFINE s == [Regular(FirstPlan) EXCEPT !.temp = TRUE, !.run = r]
    <2>2. ~existed /\ UNCHANGED worker /\ Recount
      BY <1>5 DEF RunInstant
    <2>3. ~Legacy(s)
      BY DEF Legacy, Regular, NoRow
    <2>4. Stored(s) \/ Lose(s)
      BY <2>1
    <2> HIDE DEF s
    <2> QED BY <1>1, <2>2, <2>3, <2>4, EmptyIs, FirstRowKnows
  <1> QED BY <1>2, <1>3, <1>4, <1>5 DEF Change

LEMMA ExitKnows == ASSUME AloneInv, NoticeInv, Exit PROVE NoticeInv'
  <1>1. /\ UNCHANGED <<row, ghost, sent>> /\ \A w \in Workers : worker'[w].pc = "gone"
        /\ Types /\ Forgets(Workers)
    BY SpawnedIs DEF AloneInv, Exit, db
  <1>2. \/ \E w \in Workers : Knows(worker[w], row, ghost, Told)
        \/ \A w \in Workers : worker[w].pc = "gone"
    BY DEF NoticeInv
  <1> QED BY <1>1, <1>2, AllForgotten

(* While a run in doubt can begin, the worker waits for it to be decided.  *)
LEMMA GhostLandsKnows == ASSUME AloneInv, NoticeInv, GhostLands PROVE NoticeInv'
  <1>1. /\ ghost' = {} /\ worker' = worker /\ RowNotices(row, ghost, Told) /\ NoticedOnce
        /\ Recount
    BY DEF NoticeInv, GhostLands
  <1>2. CASE row' = row
    <2>1. UNCHANGED notices
      BY <1>1, <1>2, RecountIs
    <2>2. GoesWith
      BY <1>1, <1>2, <2>1, SameTold DEF GoesWith, RowNotices, Milder, Doubtful
    <2> QED BY <1>1, <2>2, WorkersStay
  <1>3. CASE \E s \in ghost : row' = s
    <2>1. PICK s \in ghost : row' = s
      BY <1>3
    <2>2. Sequel(row, s)
      BY <1>1 DEF RowNotices
    <2>3. CASE s.run = row.run
      <3>1. UNCHANGED notices
        BY <1>1, <2>1, <2>3, RecountIs
      <3>2. Milder(row, s)
        BY <2>2, <2>3 DEF Sequel, Milder
      <3>3. GoesWith
        BY <1>1, <2>1, <3>1, <3>2, SameTold DEF GoesWith, RowNotices, Milder, Doubtful
      <3> QED BY <1>1, <3>3, WorkersStay
    <2>4. CASE s.run # row.run
      <3>1. Told' = {} /\ NoticedOnce'
        BY <1>1, <2>1, <2>4, RecountIs
      <3>2. RowNotices(row, ghost, Told)'
        BY <1>1, <3>1 DEF RowNotices
      <3>3. AllMarked(row', Told')
        BY <3>1 DEF AllMarked
      <3>4. ASSUME NEW w \in Workers, worker[w].pc # "gone" PROVE Knows(worker[w], row', ghost', Told')
        <4>1. Knows(worker[w], row, ghost, Told)
          BY <3>4 DEF NoticeInv
        <4>2. CASE s.run = NoRun
          BY <1>1, <2>1, <2>2, <2>4, <3>1, <4>1, <4>2 DEF Knows, Doubtful, Sequel, AtRun, Legacy
        <4>3. CASE s.run # NoRun
          <5>1. Doubtful(row, ghost)
            BY <2>4, <4>3 DEF Doubtful
          <5> QED BY <1>1, <3>1, <4>1, <5>1 DEF Knows, Doubtful, AtRun, Duties
        <4> QED BY <4>2, <4>3
      <3> QED BY <1>1, <3>1, <3>2, <3>3, <3>4 DEF NoticeInv
    <2> QED BY <2>3, <2>4
  <1> QED BY <1>2, <1>3 DEF GhostLands

LEMMA NextKnows == ASSUME TendedInv, NoticeInv, [Next]_vars PROVE NoticeInv'
  <1>1. AloneInv /\ Types
    BY DEF TendedInv, AloneInv
  <1>2. CASE \E w \in Workers : WorkerStep(w)
    BY <1>1, <1>2, WorkerStepKnows
  <1>3. CASE \E c \in Callers : CallStep(c) \/ Change(c)
    BY <1>1, <1>3, CallStepKnows, ChangeKnows
  <1>4. CASE (\E c \in Callers : Start(c)) \/ Shutdown \/ Tick \/ UNCHANGED vars
    <2>1. UNCHANGED <<row, ghost, worker, notices>>
      BY <1>4 DEF Start, Shutdown, Tick, vars, db
    <2> QED BY <2>1, StaysWith, WorkersStay
  <1>5. CASE ServiceCloses
    <2>1. Write(Ended) /\ UNCHANGED <<worker, notices>> /\ Milder(row, Ended)
      BY <1>1, <1>5, MilderIs DEF ServiceCloses
    <2> QED BY <2>1, GoesWithIs, WorkersStay
  <1>6. CASE Exit \/ GhostLands
    BY <1>1, <1>6, ExitKnows, GhostLandsKnows
  <1> QED BY <1>2, <1>3, <1>4, <1>5, <1>6 DEF Next

-----------------------------------------------------------------------------
(* What was sent of the run in the database, and not forgotten with a      *)
(* worker that ended, is marked in the row or known to the worker that     *)
(* looks after it, so without a worker it is marked; and while a run in    *)
(* doubt may begin nobody works on another.                                *)
THEOREM NoticeInvariant == Spec => []NoticeInv
  <1>1. Init => NoticeInv
    <2> SUFFICES ASSUME Init PROVE NoticeInv
      OBVIOUS
    <2>1. /\ ghost = {} /\ sent = Never /\ forgot = Never
          /\ \A w \in Workers : worker[w].pc = "gone"
      BY SpawnedIs DEF Init
    <2>2. Told = {} /\ NoticedOnce
      BY <2>1 DEF Told, Never, NoticedOnce
    <2> QED BY <2>1, <2>2 DEF NoticeInv, RowNotices, AllMarked
  <1>2. TendedInv /\ NoticeInv /\ [Next]_vars => NoticeInv'
    BY NextKnows
  <1> QED BY <1>1, <1>2, TendedInvariant, PTL DEF Spec

(* Nobody is told twice that a queue will open (processActive, delivered,  *)
(* notified_5min, notified_1min), however calls fail and whatever a COMMIT *)
(* in doubt leaves, but by the successor of a worker that ended, with a    *)
(* stop or the process, before its mark was in the row: as many times at   *)
(* most as there were such workers.                                        *)
THEOREM NoticedOnceAlways == Spec => []NoticedOnce
  <1>1. NoticeInv => NoticedOnce
    BY DEF NoticeInv
  <1> QED BY <1>1, NoticeInvariant, PTL

-----------------------------------------------------------------------------
(* SettingsApplied.  A row fits the settings when its run is one of the    *)
(* calendar, unless it is not theirs to decide; and a worker that is about *)
(* to begin a run has it from the calendar.                                *)
Fits(s) == s.temp \/ s.run = NoRun \/ OpensAt[s.run] <= clock \/ s.run \in Calendar[s.plan][week]
Aims(t) == t.pc = "preparing" \/ (t.pc = "claiming" /\ t.seen.run = NoRun)
RowsFit == /\ closing \/ Fits(row)
           /\ \A s \in ghost : s.plan = row.plan => closing \/ Fits(s)
AimsFit == \A w \in Workers : Aims(worker[w]) /\ Exists(row) => worker[w].target \in Calendar[row.plan][week]
Settled == RowsFit /\ AimsFit

(* A call of Reconfigure that will report success if nothing fails and     *)
(* nothing changes, and has seen to it that it may.                        *)
ReconfigureSteps == {"list", "stop", "await", "sync", "cancel", "refetch", "check", "replace"}
Late(k) == \/ k.pc \in {"check", "replace", "refetch"}
           \/ k.pc \in {"stop", "await"} /\ k.then = "end"
           \/ k.pc = "await" /\ k.then = "start"
Promises(k) == k.of = "reconfigure" /\ k.ok /\ k.sure /\ Late(k)
Promised == applied \/ \E c \in Callers : Promises(call[c])

(* A COMMIT in doubt does not make a one-shot queue of a regular one.      *)
Kinds(r, g) == \A s \in g : /\ Exists(r) /\ Exists(s) => s.temp = r.temp
                            /\ ~Exists(r) /\ s.temp => s.run # NoRun
AimsAre == \A w \in Workers : Aims(worker[w]) => row.run = NoRun /\ ~row.temp
CallsAre == \A c \in Callers : call[c].of = "reconfigure" =>
                call[c].pc \in ReconfigureSteps /\ (call[c].pc = "stop" => call[c].then # "start")
CancelIsSure == (\E c \in Callers : call[c].pc = "cancel") => ~Doubtful(row, ghost)

SettingsInv == Kinds(row, ghost) /\ AimsAre /\ CallsAre /\ CancelIsSure /\ (Promised => Settled)

-----------------------------------------------------------------------------
(* A row made of another one, with its plan.                               *)
Kin(r, s) == s = NoRow \/ (Exists(r) /\ s.plan = r.plan /\ s.temp = r.temp /\ s.run \in {r.run, NoRun})
KinStep == /\ Kin(row, row')
           /\ UNCHANGED <<row, ghost>> \/ (ghost = {} /\ \A s \in ghost' : Kin(row', s))
           /\ closing /\ ~closing' => row'.run = NoRun /\ \A s \in ghost' : s.run = NoRun

LEMMA KinIs ==
    ASSUME Types
    PROVE  /\ Kin(row, row) /\ Kin(row, NoRow) /\ Kin(row, Ended) /\ Kin(Ended, NoRow) /\ Kin(row, Posted)
           /\ \A m \in Marks : Kin(row, Marked(m))
  <1>1. row \in Rows /\ (Exists(row) => row \in Row) /\ (~Exists(row) => row = NoRow)
    BY RowCases DEF Exists
  <1>2. Kin(row, row) /\ Kin(row, NoRow) /\ Kin(Ended, NoRow)
    BY <1>1 DEF Kin
  <1>3. CASE ~Exists(row)
    <2>1. row = NoRow
      BY <1>1, <1>3
    <2>2. Posted = NoRow /\ \A m \in Marks : Marked(m) = NoRow
      BY <1>3, <2>1, EmptyIs DEF Posted, Marked
    <2>3. Ended = NoRow
      BY <2>1, EndedIs DEF Derived
    <2> QED BY <1>2, <2>2, <2>3 DEF Kin
  <1>4. CASE Exists(row)
    <2>1. /\ [row EXCEPT !.posted = TRUE].run = row.run /\ [row EXCEPT !.posted = TRUE].plan = row.plan
          /\ [row EXCEPT !.posted = TRUE].temp = row.temp
      BY <1>1, <1>4 DEF Row
    <2>2. \A m \in Marks : /\ [row EXCEPT !.notified = @ \cup {m}].run = row.run
                           /\ [row EXCEPT !.notified = @ \cup {m}].plan = row.plan
                           /\ [row EXCEPT !.notified = @ \cup {m}].temp = row.temp
      BY <1>1, <1>4 DEF Row
    <2>3. LET cleared == [row EXCEPT !.run = NoRun, !.posted = FALSE, !.notified = {}]
          IN  cleared.run = NoRun /\ cleared.plan = row.plan /\ cleared.temp = row.temp
      BY <1>1, <1>4 DEF Row
    <2>4. Kin(row, Posted)
      BY <1>2, <1>4, <2>1 DEF Kin, Posted
    <2>5. \A m \in Marks : Kin(row, Marked(m))
      BY <1>4, <2>2 DEF Kin, Marked
    <2>6. Kin(row, Ended)
      BY <1>4, <2>3 DEF Kin, Ended
    <2> QED BY <1>2, <2>4, <2>5, <2>6
  <1> QED BY <1>3, <1>4

LEMMA KinFits == ASSUME NEW r, NEW s, Kin(r, s), Fits(r) PROVE Fits(s)
  BY EmptyIs DEF Kin, Fits

(* What a step that writes kin leaves as it was.                           *)
LEMMA KinSettles ==
    ASSUME Types, SettingsInv, KinStep, UNCHANGED <<week, clock>>
    PROVE  /\ Kinds(row', ghost') /\ (Doubtful(row', ghost') => Doubtful(row, ghost))
           /\ RowsFit => RowsFit'
           /\ (row.run = NoRun => row'.run = NoRun) /\ (~row.temp => ~row'.temp)
           /\ Exists(row') => Exists(row) /\ row'.plan = row.plan
  <1>1. NoRow.run = NoRun /\ NoRow.temp = FALSE /\ ~Exists(NoRow)
    BY EmptyIs DEF Exists
  <1>2. /\ row.run = NoRun => row'.run = NoRun
        /\ ~row.temp => ~row'.temp
        /\ Exists(row') => Exists(row) /\ row'.plan = row.plan
    BY <1>1 DEF KinStep, Kin
  <1>3. Kinds(row', ghost')
    BY <1>1 DEF KinStep, Kin, Kinds, SettingsInv
  <1>4. Doubtful(row', ghost') => Doubtful(row, ghost)
    BY <1>1 DEF KinStep, Kin, Doubtful
  <1>5. ASSUME RowsFit PROVE RowsFit'
    <2>1. ASSUME ~closing', closing PROVE RowsFit'
      BY <2>1 DEF KinStep, RowsFit, Fits
    <2>2. ASSUME ~closing', ~closing PROVE RowsFit'
      <3>1. Fits(row)
        BY <1>5, <2>2 DEF RowsFit
      <3>2. Fits(row')
        BY <3>1, KinFits DEF KinStep
      <3>3. Fits(row)' <=> Fits(row')
        BY DEF Fits
      <3>4. ASSUME NEW s \in ghost', s.plan = row'.plan
            PROVE  s.temp \/ s.run = NoRun \/ OpensAt[s.run] <= clock' \/ s.run \in Calendar[s.plan][week']
        <4>1. CASE UNCHANGED <<row, ghost>>
          BY <1>5, <2>2, <3>4, <4>1 DEF RowsFit, Fits
        <4>2. CASE Kin(row', s)
          <5>1. Fits(s)
            BY <3>2, <4>2, KinFits
          <5> QED BY <5>1 DEF Fits
        <4> QED BY <3>4, <4>1, <4>2 DEF KinStep
      <3> QED BY <3>2, <3>3, <3>4 DEF RowsFit, Fits
    <2>3. CASE closing'
      BY <2>3 DEF RowsFit
    <2> QED BY <2>1, <2>2, <2>3
  <1> QED BY <1>2, <1>3, <1>4, <1>5

LEMMA WriteIsKin ==
    ASSUME Types, NEW s, Kin(row, s), Stored(s) \/ Write(s) \/ Lose(s),
           closing /\ ~closing' => (Write(s) \/ Stored(s)) /\ s.run = NoRun
    PROVE  KinStep
  <1>1. Kin(row, row)
    BY KinIs
  <1>2. CASE Stored(s) \/ Write(s)
    <2>1. row' = s /\ ghost' = {} /\ ghost = {}
      BY <1>2 DEF Stored, Write
    <2> QED BY <2>1 DEF KinStep
  <1>3. CASE Lose(s) /\ ~(Stored(s) \/ Write(s))
    <2>1. row' = row /\ ghost' \subseteq {s} /\ ghost = {}
      BY <1>3 DEF Lose
    <2> QED BY <1>1, <1>3, <2>1 DEF KinStep
  <1> QED BY <1>2, <1>3

LEMMA SameIsKin == ASSUME Types, UNCHANGED <<row, ghost>>, ~(closing /\ ~closing') PROVE KinStep
  BY KinIs DEF KinStep

-----------------------------------------------------------------------------
(* The steps of workers.                                                   *)
LEMMA NextRunFits == ASSUME Types, NEW p \in Plans, NEW now, NextRun(p, now) # NoRun
                     PROVE  NextRun(p, now) \in Calendar[p][week]
  <1> DEFINE coming == {r \in Calendar[p][week] : now < ClosesAt[r]}
  <1>1. coming \subseteq Runs
    BY SchedulerAssumption DEF Types, TypeOfWorld
  <1>2. coming # {}
    BY DEF NextRun
  <1> DEFINE times == {OpensAt[r] : r \in coming}
             less == {ss \in Nat \X Nat : ss[1] < ss[2]}
  <1>3. times \subseteq Nat /\ times # {}
    BY <1>1, <1>2, SchedulerAssumption
  <1>4. IsWellFoundedOn(less, Nat)
    BY NatLessThanWellFounded DEF OpToRel
  <1>5. \E n \in times : \A m \in times : ~(<<m, n>> \in less)
    <2> HIDE DEF times, less
    <2> QED BY <1>3, <1>4, WFMin
  <1>6. \E n \in times : \A m \in times : n <= m
    <2> HIDE DEF times
    <2>1. \A m, n \in Nat : ~(<<m, n>> \in less) => n <= m
      OBVIOUS
    <2> HIDE DEF less
    <2> QED BY <1>3, <1>5, <2>1
  <1>7. \E first \in coming : \A q \in coming : OpensAt[first] <= OpensAt[q]
    BY <1>6
  <1>8. NextRun(p, now) \in coming
    BY <1>2, <1>7 DEF NextRun
  <1> QED BY <1>8

(* CancelPending is called when there is no worker.                        *)
LEMMA WorkerForbidsCancel ==
    ASSUME AloneInv, NEW w \in Workers, worker[w].pc # "gone" PROVE \A c \in Callers : call[c].pc # "cancel"
  <1> SUFFICES ASSUME NEW c \in Callers, call[c].pc = "cancel" PROVE FALSE
    OBVIOUS
  <1>1. mapped = NoWorker /\ holder = c
    BY DEF AloneInv, Alone, Locked, Holding, Without
  <1>2. PICK d \in Callers : call[d].pc = "await" /\ call[d].awaited = w
    BY <1>1, OnlyOne, SchedulerAssumption
  <1> QED BY <1>1, <1>2 DEF AloneInv, Locked, Holding

(* A worker that is there moves: no call has passed stopWorker.            *)
LEMMA WorkerSettles ==
    ASSUME AloneInv, SettingsInv, NEW w \in Workers, worker[w].pc # "gone",
           \A v \in Workers : v # w => worker'[v] = worker[v],
           UNCHANGED <<call, week, applied>>, Kinds(row', ghost'),
           RowsFit /\ AimsFit => RowsFit',
           Aims(worker'[w]) => /\ row'.run = NoRun /\ ~row'.temp
                               /\ Settled /\ Exists(row') => worker'[w].target \in Calendar[row'.plan][week]
    PROVE  SettingsInv'
  <1>1. \A v \in Workers : worker[v].pc # "gone" => v = w
    BY OnlyOne
  <1>2. \A v \in Workers : v # w => ~Aims(worker'[v])
    BY <1>1 DEF Aims
  <1>3. call' = call /\ applied' = applied
    OBVIOUS
  <1>4. \A c \in Callers : call[c].pc # "cancel"
    BY WorkerForbidsCancel
  <1>5. AimsAre'
    BY <1>2 DEF AimsAre
  <1>6. CallsAre' /\ CancelIsSure'
    BY <1>3, <1>4 DEF SettingsInv, CallsAre, CancelIsSure
  <1>7. Settled => Settled'
    <2>1. ASSUME Settled PROVE AimsFit'
      BY <1>2, <2>1 DEF AimsFit
    <2> QED BY <2>1 DEF Settled
  <1>8. Promised' => Promised
    BY <1>3 DEF Promised, Promises, Late
  <1> QED BY <1>5, <1>6, <1>7, <1>8 DEF SettingsInv

(* It writes what is kin and does not aim at a run.                        *)
LEMMA KinWorker ==
    ASSUME AloneInv, SettingsInv, NEW w \in Workers, worker[w].pc # "gone", ~Aims(worker'[w]),
           \A v \in Workers : v # w => worker'[v] = worker[v],
           UNCHANGED <<call, world, applied>>, KinStep
    PROVE  SettingsInv'
  <1>1. Types /\ UNCHANGED <<week, clock>>
    BY DEF AloneInv, world
  <1> QED BY <1>1, KinSettles, WorkerSettles

LEMMA PlannedAims ==
    ASSUME Types, NEW w \in Workers, NEW s \in Rows, Exists(s), Planned(w, s)
    PROVE  \E pc : /\ pc \in {"waiting", "leaving", "claiming"} /\ To(w, pc)
                   /\ pc = "claiming" => ~s.temp /\ worker'[w].target \in Calendar[s.plan][week]
  <1> DEFINE next == NextRun(s.plan, clock)
             free == [active |-> IfMapped(w, FALSE), sync |-> FALSE, seen |-> s, now |-> clock]
  <1>1. worker[w] \in Thread /\ s.plan \in Plans
    BY ThreadIs, RowIs DEF Exists
  <1>2. next # NoRun => next \in Calendar[s.plan][week]
    BY <1>1, NextRunFits
  <1> HIDE DEF next
  <1>3. ASSUME next # NoRun, Set(w, [pc |-> "claiming", target |-> next] ++ free)
        PROVE  To(w, "claiming") /\ worker'[w].target = next
    <2> DEFINE t == ([pc |-> "claiming", target |-> next] ++ free) ++ worker[w]
    <2>1. t.pc = "claiming" /\ t.canceled = worker[w].canceled /\ t.target = next
      BY <1>1 DEF ++, Thread
    <2>2. worker' = [worker EXCEPT ![w] = t]
      BY <1>3 DEF Set
    <2> HIDE DEF t
    <2> QED BY <2>1, <2>2, SetTo
  <1>4. CASE ~To(w, "claiming")
    BY <1>4, PlannedTo
  <1>5. CASE To(w, "claiming")
    <2>1. ~s.temp
      BY <1>5, PlannedTo DEF To
    <2>2. ASSUME NEW until, Set(w, [pc |-> "waiting", until |-> until] ++ Round ++ free)
          PROVE  To(w, "waiting")
      <3> DEFINE t == (([pc |-> "waiting", until |-> until] ++ Round) ++ free) ++ worker[w]
      <3>1. t.pc = "waiting" /\ t.canceled = worker[w].canceled
        BY <1>1 DEF ++, Round, Thread
      <3>2. worker' = [worker EXCEPT ![w] = t]
        BY <2>2 DEF Set
      <3> HIDE DEF t
      <3> QED BY <3>1, <3>2, SetTo
    <2> QED BY <1>2, <1>3, <1>5, <2>1, <2>2, FreshTo DEF Planned, next, To
  <1> QED BY <1>4, <1>5

LEMMA ReadSettles == ASSUME AloneInv, SettingsInv, NEW w \in Workers, Read(w) PROVE SettingsInv'
  <1>1. /\ Types /\ worker[w] \in Thread /\ worker[w].pc = "waiting" /\ worker[w].pc # "gone" /\ row \in Rows
        /\ UNCHANGED <<call, world, applied, row, ghost, closing>> /\ UNCHANGED <<week, clock>>
    BY ThreadIs, RowCases DEF AloneInv, Read, At, Quiet, world, lifecycle
  <1>2. KinStep
    BY <1>1, SameIsKin
  <1>3. CASE Retries(w) \/ Leaves(w)
    <2>1. To(w, "waiting") \/ To(w, "leaving")
      BY <1>1, <1>3, FreshTo
    <2> QED BY <1>1, <1>2, <2>1, KinWorker DEF To, Aims
  <1>4. CASE row.run # NoRun /\ Set(w, [pc |-> "claiming", seen |-> row, now |-> clock, sync |-> FALSE])
    <2> DEFINE t == [pc |-> "claiming", seen |-> row, now |-> clock, sync |-> FALSE] ++ worker[w]
    <2>1. t.pc = "claiming" /\ t.canceled = worker[w].canceled /\ t.seen = row
      BY <1>1 DEF ++, Thread
    <2>2. worker' = [worker EXCEPT ![w] = t]
      BY <1>4 DEF Set
    <2> HIDE DEF t
    <2>3. To(w, "claiming") /\ worker'[w] = t
      BY <1>1, <2>1, <2>2, SetTo
    <2> QED BY <1>1, <1>2, <1>4, <2>1, <2>3, KinWorker DEF Aims, To
  <1>5. CASE Set(w, [pc |-> "restoring", sync |-> FALSE])
    <2> DEFINE t == [pc |-> "restoring", sync |-> FALSE] ++ worker[w]
    <2>1. t.pc = "restoring" /\ t.canceled = worker[w].canceled
      BY <1>1 DEF ++, Thread
    <2>2. worker' = [worker EXCEPT ![w] = t]
      BY <1>5 DEF Set
    <2> HIDE DEF t
    <2>3. To(w, "restoring") /\ worker'[w] = t
      BY <1>1, <2>1, <2>2, SetTo
    <2> QED BY <1>1, <1>2, <2>1, <2>3, KinWorker DEF Aims, To
  <1>6. CASE Exists(row) /\ row.run = NoRun /\ Planned(w, row)
    <2>1. PICK pc : /\ pc \in {"waiting", "leaving", "claiming"} /\ To(w, pc)
                    /\ pc = "claiming" => ~row.temp /\ worker'[w].target \in Calendar[row.plan][week]
      BY <1>1, <1>6, PlannedAims
    <2>2. worker'[w].pc = pc
      BY <2>1 DEF To
    <2>3. Kinds(row', ghost') /\ (RowsFit => RowsFit')
      BY <1>1, <1>2, KinSettles
    <2> QED BY <1>1, <1>6, <2>1, <2>2, <2>3, WorkerSettles DEF Aims, To
  <1> QED BY <1>3, <1>4, <1>5, <1>6 DEF Read

LEMMA UnsureAre ==
    ASSUME Types
    PROVE  \A d \in Callers : /\ Unsure[d].pc = call[d].pc /\ Unsure[d].of = call[d].of
                              /\ Unsure[d].then = call[d].then /\ ~Promises(Unsure[d])
  <1> SUFFICES ASSUME NEW d \in Callers PROVE ~Promises(Unsure[d])
    BY UnsureSame
  <1>1. Unsure[d].of = call[d].of
    BY UnsureSame
  <1>2. CASE call[d] = Idle
    BY <1>1, <1>2 DEF Promises, Idle
  <1>3. CASE call[d] # Idle
    <2>1. call[d] \in Call
      BY CallIs
    <2>2. [call[d] EXCEPT !.sure = call[d] = Idle].sure = FALSE
      BY <1>3, <2>1 DEF Call
    <2> QED BY <2>2 DEF Unsure, Promises
  <1> QED BY <1>2, <1>3

(* The run of an old message is of no calendar: whoever promised that the  *)
(* settings are carried out has to begin anew.                             *)
LEMMA RestoredSettles ==
    ASSUME AloneInv, SettingsInv, NEW w \in Workers, worker[w].pc # "gone", ~Aims(worker'[w]),
           \A v \in Workers : v # w => worker'[v] = worker[v],
           ~applied', call' = Unsure, Kinds(row', ghost')
    PROVE  SettingsInv'
  <1>1. \A v \in Workers : ~Aims(worker'[v])
    BY OnlyOne DEF Aims
  <1>2. \A c \in Callers : call[c].pc # "cancel"
    BY WorkerForbidsCancel
  <1>3. \A d \in Callers : /\ call'[d].pc = call[d].pc /\ call'[d].of = call[d].of
                           /\ call'[d].then = call[d].then /\ ~Promises(call'[d])
    BY UnsureAre DEF AloneInv
  <1>4. AimsAre'
    BY <1>1 DEF AimsAre
  <1>5. CallsAre' /\ CancelIsSure'
    BY <1>2, <1>3 DEF SettingsInv, CallsAre, CancelIsSure
  <1>6. ~Promised'
    BY <1>3 DEF Promised
  <1> QED BY <1>4, <1>5, <1>6 DEF SettingsInv

LEMMA RestoreLegacySettles ==
    ASSUME AloneInv, SettingsInv, NEW w \in Workers, RestoreLegacy(w) PROVE SettingsInv'
  <1>1. /\ Types /\ worker[w] \in Thread /\ worker[w].pc = "restoring" /\ worker[w].pc # "gone" /\ row \in Rows
        /\ UNCHANGED world /\ UNCHANGED <<week, clock>>
    BY ThreadIs, RowCases DEF AloneInv, RestoreLegacy, At, world
  <1>2. Restored.temp = row.temp
    BY <1>1, BeginsRunIs
  <1>3. Kin(row, Ended) /\ Ended.run = NoRun
    BY <1>1, KinIs, EndedIs
  <1>4. ~Exists(row) => Restored = row
    BY DEF Restored
  <1>5. CASE UNCHANGED <<row, ghost, closing, applied, call>> /\ (Leaves(w) \/ Retries(w))
    <2>1. KinStep /\ (To(w, "leaving") \/ To(w, "waiting"))
      BY <1>1, <1>5, SameIsKin, FreshTo
    <2> QED BY <1>1, <1>5, <2>1, KinWorker DEF To, Aims
  <1>6. CASE /\ ~applied' /\ call' = Unsure /\ Exists(row) /\ Write(Restored)
             /\ Set(w, [pc |-> "claiming", seen |-> Restored, now |-> clock])
    <2> DEFINE t == [pc |-> "claiming", seen |-> Restored, now |-> clock] ++ worker[w]
    <2>1. t.pc = "claiming" /\ t.canceled = worker[w].canceled /\ t.seen = Restored
      BY <1>1 DEF ++, Thread
    <2>2. worker' = [worker EXCEPT ![w] = t]
      BY <1>6 DEF Set
    <2> HIDE DEF t
    <2>3. To(w, "claiming") /\ worker'[w] = t
      BY <1>1, <2>1, <2>2, SetTo
    <2>4. Kinds(row', ghost')
      BY <1>6 DEF Kinds, Write, Stored
    <2>5. Restored.run # NoRun
      BY <1>1, <1>6, BeginsRunIs
    <2>6. ~Aims(worker'[w])
      BY <2>1, <2>3, <2>5 DEF Aims
    <2> QED BY <1>1, <1>6, <2>3, <2>4, <2>6, RestoredSettles DEF To
  <1>7. CASE ~applied' /\ call' = Unsure /\ Lose(Restored) /\ Retries(w)
    <2>1. row' = row /\ ghost' \subseteq {Restored}
      BY <1>7 DEF Lose
    <2>2. To(w, "waiting") /\ ~Aims(worker'[w])
      BY <1>1, <1>7, FreshTo DEF To, Aims
    <2>3. Kinds(row', ghost')
      BY <1>2, <1>4, <2>1, EmptyIs DEF Kinds, Exists
    <2> QED BY <1>1, <1>7, <2>2, <2>3, RestoredSettles DEF To
  <1>8. CASE /\ UNCHANGED <<applied, call>> /\ Write(Ended) /\ closing' = FALSE
             /\ Leaves(w) \/ (Exists(row) /\ ~row.temp /\ Planned(w, Ended))
    <2>1. KinStep /\ row' = Ended
      BY <1>1, <1>3, <1>8, WriteIsKin DEF Write, Stored
    <2>2. CASE Leaves(w)
      <3>1. To(w, "leaving")
        BY <1>1, <2>2, FreshTo
      <3> QED BY <1>1, <1>8, <2>1, <3>1, KinWorker DEF To, Aims
    <2>3. CASE Exists(row) /\ ~row.temp /\ Planned(w, Ended)
      <3>1. Ended \in Rows /\ Exists(Ended) /\ ~Ended.temp
        BY <1>1, <2>3, RowsAre, EndedIs
      <3>2. PICK pc : /\ pc \in {"waiting", "leaving", "claiming"} /\ To(w, pc)
                      /\ pc = "claiming" => ~Ended.temp /\ worker'[w].target \in Calendar[Ended.plan][week]
        BY <1>1, <2>3, <3>1, PlannedAims
      <3>3. worker'[w].pc = pc
        BY <3>2 DEF To
      <3>4. Kinds(row', ghost') /\ (RowsFit => RowsFit')
        BY <1>1, <2>1, KinSettles
      <3> QED BY <1>1, <1>3, <1>8, <2>1, <3>2, <3>3, <3>4, WorkerSettles DEF Aims, To
    <2> QED BY <1>8, <2>2, <2>3
  <1>9. CASE UNCHANGED <<applied, call>> /\ Lose(Ended) /\ closing' = TRUE /\ Retries(w)
    <2>1. KinStep /\ To(w, "waiting")
      BY <1>1, <1>3, <1>9, WriteIsKin, FreshTo
    <2> QED BY <1>1, <1>9, <2>1, KinWorker DEF To, Aims
  <1> QED BY <1>5, <1>6, <1>7, <1>8, <1>9 DEF RestoreLegacy

LEMMA ClaimActiveSettles == ASSUME AloneInv, SettingsInv, NEW w \in Workers, ClaimActive(w) PROVE SettingsInv'
  <1>1. /\ Types /\ worker[w].pc = "claiming" /\ worker[w].pc # "gone"
        /\ UNCHANGED <<call, world, applied, row, ghost, closing>> /\ UNCHANGED <<week, clock>>
    BY DEF AloneInv, ClaimActive, At, Quiet, world, lifecycle
  <1>2. KinStep
    BY <1>1, SameIsKin
  <1>3. CASE worker[w].seen.run = NoRun /\ To(w, "preparing") /\ worker'[w].target = worker[w].target
    <2>1. Aims(worker[w])
      BY <1>1, <1>3 DEF Aims
    <2>2. Kinds(row', ghost') /\ (RowsFit => RowsFit')
      BY <1>1, <1>2, KinSettles
    <2>3. row.run = NoRun /\ ~row.temp
      BY <2>1 DEF SettingsInv, AimsAre
    <2>4. Settled /\ Exists(row') => worker'[w].target \in Calendar[row'.plan][week]
      BY <1>1, <1>3, <2>1 DEF Settled, AimsFit
    <2> QED BY <1>1, <1>3, <2>2, <2>3, <2>4, WorkerSettles DEF To
  <1>4. ASSUME NEW pc \in Duties \cup {"waiting", "closing", "leaving"}, To(w, pc) PROVE SettingsInv'
    BY <1>1, <1>2, <1>4, KinWorker DEF To, Aims, Duties
  <1> QED BY <1>3, <1>4, ClaimActiveTo

(* What a worker prepares is of the calendar it read, and it is stopped    *)
(* before a call relies on another one.                                    *)
LEMMA PrepareSettles == ASSUME AloneInv, SettingsInv, NEW w \in Workers, Prepare(w) PROVE SettingsInv'
  <1> DEFINE r == worker[w].target
  <1>1. /\ Types /\ worker[w].pc = "preparing" /\ worker[w].pc # "gone" /\ r \in Runs \cup {NoRun}
        /\ UNCHANGED <<call, world, applied, closing>> /\ UNCHANGED <<week, clock>>
    BY ThreadIs DEF AloneInv, Prepare, At, world, lifecycle
  <1>2. To(w, "waiting")
    BY <1>1, FreshTo DEF Prepare
  <1>3. ~Aims(worker'[w])
    BY <1>2 DEF To, Aims
  <1>4. Aims(worker[w]) /\ row.run = NoRun /\ ~row.temp
    BY <1>1 DEF Aims, SettingsInv, AimsAre
  <1>5. CASE UNCHANGED <<row, ghost>>
    <2>1. KinStep
      BY <1>1, <1>5, SameIsKin
    <2> QED BY <1>1, <1>2, <1>3, <2>1, KinWorker DEF To
  <1>6. CASE CanBegin(r) /\ (Write(Prepared(r)) \/ Lose(Prepared(r)))
    <2>1. Exists(row) /\ ~closing
      BY <1>6 DEF CanBegin
    <2>2. Prepared(r).plan = row.plan /\ Prepared(r).temp = row.temp /\ Prepared(r).run = r
      <3>1. row \in Row
        BY <1>1, <2>1, RowCases
      <3> QED BY <3>1 DEF Prepared, Begun, Row
    <2> DEFINE s == Prepared(r)
    <2> HIDE DEF s
    <2>3. (row' = s /\ ghost' = {}) \/ (row' = row /\ ghost' \subseteq {s})
      BY <1>6 DEF Write, Stored, Lose, s
    <2>4. Kinds(row', ghost')
      BY <2>1, <2>2, <2>3 DEF Kinds, s
    <2>5. RowsFit /\ AimsFit => RowsFit'
      <3>1. ASSUME RowsFit, AimsFit PROVE Fits(s) /\ Fits(row)
        BY <1>4, <2>1, <2>2, <3>1 DEF AimsFit, RowsFit, Fits, s
      <3> QED BY <1>1, <2>3, <3>1 DEF RowsFit, Fits
    <2> QED BY <1>1, <1>2, <1>3, <2>4, <2>5, WorkerSettles DEF To
  <1> QED BY <1>5, <1>6 DEF Prepare

LEMMA CloseSettles == ASSUME AloneInv, SettingsInv, NEW w \in Workers, Close(w) PROVE SettingsInv'
  <1>1. /\ Types /\ worker[w].pc # "gone" /\ UNCHANGED <<call, world, applied>>
        /\ Kin(row, Ended) /\ Ended.run = NoRun
    BY KinIs, EndedIs DEF AloneInv, Close, At, lifecycle
  <1>2. KinStep
    BY <1>1, WriteIsKin DEF Close
  <1>3. \E pc \in {"waiting", "leaving"} : To(w, pc)
    BY <1>1, FreshTo DEF Close
  <1> QED BY <1>1, <1>2, <1>3, KinWorker DEF To, Aims

LEMMA DutySettles ==
    ASSUME AloneInv, SettingsInv, NEW w \in Workers,
           CanceledInWait(w) \/ Notify(w) \/ TooLate(w) \/ Mark(w) \/ Refresh(w)
    PROVE  SettingsInv'
  <1>1. /\ Types /\ worker[w].pc # "gone" /\ UNCHANGED <<call, world, applied, closing>>
        /\ worker[w].mark \in Marks
    BY ThreadIs DEF AloneInv, CanceledInWait, Notify, TooLate, Mark, Refresh, At, Quiet, lifecycle
  <1>2. Kin(row, Posted) /\ Kin(row, Marked(worker[w].mark))
    BY <1>1, KinIs
  <1>3. KinStep
    <2>1. CASE UNCHANGED <<row, ghost>>
      BY <1>1, <2>1, SameIsKin
    <2>2. CASE Mark(w) \/ Refresh(w)
      BY <1>1, <1>2, <2>2, WriteIsKin DEF Mark, Refresh
    <2> QED BY <2>1, <2>2 DEF CanceledInWait, Notify, TooLate
  <1>4. \E pc \in Duties \cup {"waiting", "leaving"} : To(w, pc)
    <2>1. CASE CanceledInWait(w) \/ TooLate(w)
      BY <1>1, <2>1, FreshTo, ToMarkTo DEF CanceledInWait, TooLate, Duties
    <2>2. CASE Notify(w) \/ Mark(w) \/ Refresh(w)
      BY <1>1, <2>2, ToMarkTo, GoesOnTo DEF Notify, Mark, Refresh, Duties
    <2> QED BY <2>1, <2>2
  <1> QED BY <1>1, <1>3, <1>4, KinWorker DEF To, Aims, Duties

LEMMA LeaveSettles == ASSUME AloneInv, SettingsInv, NEW w \in Workers, Leave(w) PROVE SettingsInv'
  <1>1. /\ Types /\ worker[w].pc # "gone" /\ UNCHANGED <<call, world, applied, row, ghost, closing>>
        /\ worker' = [worker EXCEPT ![w] = Gone] /\ worker \in [Workers -> Thread]
    BY DEF AloneInv, Types, TypeOfWorkers, Leave, At
  <1>2. worker'[w].pc = "gone"
    BY <1>1, SpawnedIs
  <1>3. KinStep
    BY <1>1, SameIsKin
  <1> QED BY <1>1, <1>2, <1>3, KinWorker DEF Aims

LEMMA WorkerStepSettles == ASSUME AloneInv, SettingsInv, NEW w \in Workers, WorkerStep(w) PROVE SettingsInv'
  BY ReadSettles, RestoreLegacySettles, ClaimActiveSettles, PrepareSettles, CloseSettles, DutySettles, LeaveSettles
  DEF WorkerStep

-----------------------------------------------------------------------------
(* The steps of calls.                                                     *)
Stays(w) == Aims(worker'[w]) => Aims(worker[w]) /\ worker'[w].target = worker[w].target

LEMMA CallSettles ==
    ASSUME Types, SettingsInv, KinStep, UNCHANGED <<week, clock>>, \A w \in Workers : Stays(w),
           NEW c \in Callers, \A d \in Callers : d # c => call'[d] = call[d],
           call'[c].of = "reconfigure" =>
               call'[c].pc \in ReconfigureSteps /\ (call'[c].pc = "stop" => call'[c].then # "start"),
           call'[c].pc = "cancel" => ~Doubtful(row, ghost),
           applied' => Promised \/ Settled',
           Promises(call'[c]) => Promised \/ Settled'
    PROVE  SettingsInv'
  <1>1. /\ Kinds(row', ghost') /\ (Doubtful(row', ghost') => Doubtful(row, ghost))
        /\ RowsFit => RowsFit'
        /\ (row.run = NoRun => row'.run = NoRun) /\ (~row.temp => ~row'.temp)
        /\ Exists(row') => Exists(row) /\ row'.plan = row.plan
    BY KinSettles
  <1>2. AimsAre'
    BY <1>1 DEF SettingsInv, AimsAre, Stays
  <1>3. CallsAre'
    BY DEF SettingsInv, CallsAre
  <1>4. CancelIsSure'
    BY <1>1 DEF SettingsInv, CancelIsSure
  <1>5. Settled => Settled'
    BY <1>1 DEF Settled, AimsFit, Stays
  <1>6. Promised' => Promised \/ Settled'
    BY DEF Promised, Promises, Late
  <1> QED BY <1>1, <1>2, <1>3, <1>4, <1>5, <1>6 DEF SettingsInv

(* What becomes of the fields of a call.                                   *)
LEMMA Gives ==
    ASSUME Types, NEW c \in Callers, NEW f, Goes(c, f)
    PROVE  /\ \A d \in Callers : d # c => call'[d] = call[d]
           /\ call'[c].of = IF "of" \in DOMAIN f THEN f["of"] ELSE call[c].of
           /\ call'[c].pc = IF "pc" \in DOMAIN f THEN f["pc"] ELSE call[c].pc
           /\ call'[c].then = IF "then" \in DOMAIN f THEN f["then"] ELSE call[c].then
           /\ call'[c].ok = IF "ok" \in DOMAIN f THEN f["ok"] ELSE call[c].ok
           /\ call'[c].sure = IF "sure" \in DOMAIN f THEN f["sure"] ELSE call[c].sure
  <1> DEFINE t == f ++ call[c]
  <1>1. call[c] \in Call /\ call \in [Callers -> Call]
    BY CallIs DEF Types, TypeOfCalls
  <1>2. /\ t.of = IF "of" \in DOMAIN f THEN f["of"] ELSE call[c].of
        /\ t.pc = IF "pc" \in DOMAIN f THEN f["pc"] ELSE call[c].pc
        /\ t.then = IF "then" \in DOMAIN f THEN f["then"] ELSE call[c].then
        /\ t.ok = IF "ok" \in DOMAIN f THEN f["ok"] ELSE call[c].ok
        /\ t.sure = IF "sure" \in DOMAIN f THEN f["sure"] ELSE call[c].sure
    BY <1>1 DEF ++, Call
  <1>3. call' = [call EXCEPT ![c] = t]
    BY DEF Goes
  <1> HIDE DEF t
  <1> QED BY <1>1, <1>2, <1>3

(* It moves on, with what it has.                                          *)
Turns(c, pc, then, ok) ==
    /\ \A d \in Callers : d # c => call'[d] = call[d]
    /\ call'[c].of = call[c].of /\ call'[c].sure = call[c].sure
    /\ call'[c].pc = pc /\ call'[c].then = then /\ call'[c].ok = ok

LEMMA TurnsAre ==
    ASSUME Types, NEW c \in Callers, NEW pc, NEW x, NEW y
    PROVE  /\ \/ Goes(c, [pc |-> pc]) \/ Goes(c, [pc |-> pc, run |-> x]) \/ Goes(c, [pc |-> pc, awaited |-> x])
              \/ Goes(c, [pc |-> pc, sch |-> x]) \/ Goes(c, [pc |-> pc, awaited |-> x] ++ <<>>)
              => Turns(c, pc, call[c].then, call[c].ok)
           /\ Goes(c, [pc |-> pc, ok |-> x]) => Turns(c, pc, call[c].then, x)
           /\ \/ Goes(c, [pc |-> pc, sch |-> y, then |-> x])
              \/ Goes(c, [pc |-> pc, awaited |-> y] ++ [then |-> x])
              => Turns(c, pc, x, call[c].ok)
  <1>1. ASSUME NEW f, Goes(c, f), "pc" \in DOMAIN f, f["pc"] = pc, "of" \notin DOMAIN f, "sure" \notin DOMAIN f
        PROVE  Turns(c, pc, IF "then" \in DOMAIN f THEN f["then"] ELSE call[c].then,
                            IF "ok" \in DOMAIN f THEN f["ok"] ELSE call[c].ok)
    BY <1>1, Gives DEF Turns
  <1>2. Goes(c, [pc |-> pc]) => Turns(c, pc, call[c].then, call[c].ok)
    BY <1>1
  <1>3. Goes(c, [pc |-> pc, run |-> x]) => Turns(c, pc, call[c].then, call[c].ok)
    BY <1>1
  <1>4. Goes(c, [pc |-> pc, awaited |-> x]) => Turns(c, pc, call[c].then, call[c].ok)
    BY <1>1
  <1>5. Goes(c, [pc |-> pc, sch |-> x]) => Turns(c, pc, call[c].then, call[c].ok)
    BY <1>1
  <1>6. Goes(c, [pc |-> pc, ok |-> x]) => Turns(c, pc, call[c].then, x)
    BY <1>1
  <1>7. Goes(c, [pc |-> pc, sch |-> y, then |-> x]) => Turns(c, pc, x, call[c].ok)
    BY <1>1
  <1>8. Goes(c, [pc |-> pc, awaited |-> x] ++ <<>>) => Turns(c, pc, call[c].then, call[c].ok)
    <2> DEFINE f == [pc |-> pc, awaited |-> x] ++ <<>>
    <2>1. DOMAIN f = {"pc", "awaited"} /\ f["pc"] = pc
      BY DEF ++
    <2> HIDE DEF f
    <2>2. Goes(c, f) => Turns(c, pc, call[c].then, call[c].ok)
      BY <1>1, <2>1
    <2> QED BY <2>2 DEF f
  <1>9. Goes(c, [pc |-> pc, awaited |-> y] ++ [then |-> x]) => Turns(c, pc, x, call[c].ok)
    <2> DEFINE f == [pc |-> pc, awaited |-> y] ++ [then |-> x]
    <2>1. DOMAIN f = {"pc", "awaited", "then"} /\ f["pc"] = pc /\ f["then"] = x
      BY DEF ++
    <2> HIDE DEF f
    <2>2. Goes(c, f) => Turns(c, pc, x, call[c].ok)
      BY <1>1, <2>1
    <2> QED BY <2>2 DEF f
  <1> QED BY <1>2, <1>3, <1>4, <1>5, <1>6, <1>7, <1>8, <1>9

(* It is over; one that reports success had promised to.                   *)
LEMMA EndsQuietly ==
    ASSUME Types, NEW c \in Callers, Goes(c, Idle) \/ \E ok : Ends(c, ok)
    PROVE  /\ \A d \in Callers : d # c => call'[d] = call[d]
           /\ call'[c].of = "nobody" /\ call'[c].pc = "idle"
  <1>1. CASE Goes(c, Idle)
    BY <1>1, Gives DEF Idle
  <1>2. CASE \E ok : Ends(c, ok)
    BY <1>2 DEF Ends, Types, TypeOfCalls, Idle
  <1> QED BY <1>1, <1>2

(* The row, the workers and applied stay as they are, or the call ends     *)
(* that promised it.                                                       *)
LEMMA TurnSettles ==
    ASSUME Types, SettingsInv, KinStep, UNCHANGED <<week, clock, applied>>, \A w \in Workers : Stays(w),
           NEW c \in Callers, NEW pc, NEW then, NEW ok, Turns(c, pc, then, ok),
           call[c].of = "reconfigure" => pc \in ReconfigureSteps /\ (pc = "stop" => then # "start"),
           pc = "cancel" => ~Doubtful(row, ghost),
           Promises(call'[c]) => Promised \/ Settled'
    PROVE  SettingsInv'
  <1>1. applied' => Promised
    BY DEF Promised
  <1> QED BY <1>1, CallSettles DEF Turns

LEMMA EndSettles ==
    ASSUME Types, SettingsInv, KinStep, UNCHANGED <<week, clock>>, \A w \in Workers : Stays(w),
           NEW c \in Callers,
           \/ Goes(c, Idle) /\ UNCHANGED applied
           \/ Ends(c, FALSE)
           \/ Ends(c, call[c].ok) /\ Late(call[c])
           \/ (\E ok : Ends(c, ok)) /\ call[c].of # "reconfigure"
    PROVE  SettingsInv'
  <1>1. /\ \A d \in Callers : d # c => call'[d] = call[d]
        /\ call'[c].of = "nobody" /\ call'[c].pc = "idle"
    BY EndsQuietly
  <1>2. applied' => Promised
    BY DEF Ends, Promised, Promises
  <1> QED BY <1>1, <1>2, CallSettles DEF Promises

(* A run that Reconfigure keeps fits, and no other can take its place.     *)
LEMMA KeepsSettles ==
    ASSUME Types, SettingsInv, RowNotices(row, ghost, Told), Keeps(row)
    PROVE  Settled
  <1>1. Exists(row) /\ row \in Row /\ row.plan \in Plans
    BY EmptyIs, RowCases DEF Keeps, Exists
  <1>2. Fits(row)
    <2>1. CASE row.run # NoRun /\ NextRun(row.plan, clock) = row.run
      BY <1>1, <2>1, NextRunFits DEF Fits
    <2> QED BY <2>1 DEF Keeps, Fits
  <1>3. ASSUME NEW s \in ghost, s.plan = row.plan PROVE Fits(s)
    <2>1. CASE ~Exists(s)
      BY <2>1, EmptyIs DEF Exists, Fits
    <2>2. CASE Exists(s) /\ row.temp
      BY <1>1, <2>2 DEF SettingsInv, Kinds, Fits
    <2>3. CASE ~row.temp
      <3>1. row.run # NoRun
        BY <2>3 DEF Keeps
      <3>2. s.run \in {row.run, NoRun}
        BY <3>1 DEF RowNotices, Sequel, Milder
      <3> QED BY <1>2, <1>3, <2>3, <3>2 DEF Fits
    <2> QED BY <2>1, <2>2, <2>3
  <1>4. AimsFit
    BY DEF AimsFit, SettingsInv, AimsAre, Keeps
  <1> QED BY <1>2, <1>3, <1>4 DEF Settled, RowsFit

LEMMA NoRowSettles == ASSUME Types, ~Exists(row) PROVE Settled
  <1>1. row = NoRow
    BY DEF Exists
  <1>2. \A s \in ghost : s.plan = row.plan => s = NoRow
    BY <1>1, RowIs, SchedulerAssumption DEF Types, TypeOfDb, Rows, Row, NoRow
  <1> QED BY <1>1, <1>2, EmptyIs DEF Settled, RowsFit, AimsFit, Fits, Exists

(* The row, the settings and the workers stay as they are.                 *)
LEMMA StillSettles == ASSUME UNCHANGED <<row, ghost, closing, week, clock, worker>>
                      PROVE  /\ Settled => Settled'
                             /\ \A w \in Workers : Stays(w)
                             /\ (Types => KinStep)
  BY SameIsKin DEF Settled, RowsFit, AimsFit, Fits, Aims, Stays

LEMMA ReconfigureSettles ==
    ASSUME AloneInv, NoticeInv, SettingsInv, NEW c \in Callers, Reconfigure(c) PROVE SettingsInv'
  <1>1. /\ Types /\ UNCHANGED <<row, ghost, closing, week, clock>> /\ call[c].pc = "list"
        /\ RowNotices(row, ghost, Told) /\ UNCHANGED worker
    BY DEF AloneInv, NoticeInv, Reconfigure, CallAt, world
  <1>2. (Settled => Settled') /\ KinStep /\ \A w \in Workers : Stays(w)
    BY <1>1, StillSettles
  <1>3. CASE Ends(c, FALSE)
    BY <1>1, <1>2, <1>3, EndSettles
  <1>4. CASE Keeps(row) /\ Goes(c, [pc |-> "check", sch |-> row]) /\ UNCHANGED applied
    <2>1. Settled'
      BY <1>1, <1>2, <1>4, KeepsSettles
    <2>2. Turns(c, "check", call[c].then, call[c].ok)
      BY <1>1, <1>4, TurnsAre
    <2> QED BY <1>1, <1>2, <1>4, <2>1, <2>2, TurnSettles DEF ReconfigureSteps
  <1>5. CASE /\ UNCHANGED applied
             /\ Goes(c, [pc |-> "stop", sch |-> row, then |-> IF Exists(row) THEN "sync" ELSE "end"])
    <2> DEFINE then == IF Exists(row) THEN "sync" ELSE "end"
    <2>1. Turns(c, "stop", then, call[c].ok)
      BY <1>1, <1>5, TurnsAre
    <2>2. Promises(call'[c]) => Settled'
      <3>1. ASSUME Promises(call'[c]) PROVE ~Exists(row)
        BY <2>1, <3>1 DEF Promises, Late, Turns
      <3> QED BY <1>1, <1>2, <3>1, NoRowSettles
    <2> QED BY <1>1, <1>2, <1>5, <2>1, <2>2, TurnSettles DEF ReconfigureSteps
  <1> QED BY <1>3, <1>4, <1>5 DEF Reconfigure

(* While a call has stopped the worker there is none.                      *)
LEMMA NoneAims ==
    ASSUME AloneInv, NEW c \in Callers, call[c].pc \in {"sync", "cancel", "refetch"}
    PROVE  \A w \in Workers : worker[w].pc = "gone" /\ ~Aims(worker[w])
  <1>1. mapped = NoWorker /\ \A d \in Callers : call[d].pc # "await"
    BY DEF AloneInv, Alone, Locked, Holding, Without
  <1> QED BY <1>1, SchedulerAssumption DEF AloneInv, Alone, Aims

LEMMA SyncPendingSettles ==
    ASSUME AloneInv, SettingsInv, NEW c \in Callers, SyncPending(c) PROVE SettingsInv'
  <1>1. /\ Types /\ UNCHANGED <<row, ghost, closing, week, clock, worker>> /\ call[c].pc = "sync"
    BY DEF AloneInv, SyncPending, CallAt, world
  <1>2. (Settled => Settled') /\ KinStep /\ \A w \in Workers : Stays(w)
    BY <1>1, StillSettles
  <1>3. CASE Ends(c, FALSE)
    BY <1>1, <1>2, <1>3, EndSettles
  <1>4. CASE Goes(c, [pc |-> "check", ok |-> FALSE]) /\ UNCHANGED applied
    <2>1. Turns(c, "check", call[c].then, FALSE)
      BY <1>1, <1>4, TurnsAre
    <2>2. ~Promises(call'[c])
      BY <2>1 DEF Turns, Promises
    <2> QED BY <1>1, <1>2, <1>4, <2>1, <2>2, TurnSettles DEF ReconfigureSteps
  <1>5. CASE /\ ghost = {} /\ (Keeps(row) \/ row.run = NoRun) /\ UNCHANGED applied
             /\ Goes(c, [pc |-> "check", sch |-> row])
    <2>1. Fits(row)
      <3>1. CASE row.run # NoRun /\ NextRun(row.plan, clock) = row.run
        <4>1. row.plan \in Plans
          BY <1>1, <3>1, RowCases, EmptyIs DEF Exists
        <4> QED BY <1>1, <3>1, <4>1, NextRunFits DEF Fits
      <3> QED BY <1>5, <3>1 DEF Keeps, Fits
    <2>2. Settled
      BY <1>1, <1>5, <2>1, NoneAims DEF Settled, RowsFit, AimsFit
    <2>3. Turns(c, "check", call[c].then, call[c].ok)
      BY <1>1, <1>5, TurnsAre
    <2> QED BY <1>1, <1>2, <1>5, <2>2, <2>3, TurnSettles DEF ReconfigureSteps
  <1>6. CASE ghost = {} /\ UNCHANGED applied /\ Goes(c, [pc |-> "cancel", run |-> row.run])
    <2>1. Turns(c, "cancel", call[c].then, call[c].ok)
      BY <1>1, <1>6, TurnsAre
    <2>2. ~Promises(call'[c]) /\ ~Doubtful(row, ghost)
      BY <1>6, <2>1 DEF Turns, Promises, Late, Doubtful
    <2> QED BY <1>1, <1>2, <1>6, <2>1, <2>2, TurnSettles DEF ReconfigureSteps
  <1> QED BY <1>3, <1>4, <1>5, <1>6 DEF SyncPending, SyncWaits

(* CancelPending has ended the run, or there was none to cancel.           *)
LEMMA CancelPendingSettles ==
    ASSUME AloneInv, SettingsInv, NEW c \in Callers, CancelPending(c) PROVE SettingsInv'
  <1>1. /\ Types /\ UNCHANGED <<closing, week, clock, worker, applied>> /\ call[c].pc = "cancel"
        /\ Kin(row, Ended) /\ Ended.run = NoRun
    BY KinIs, EndedIs DEF AloneInv, CancelPending, CallAt, world
  <1>2. /\ \A w \in Workers : worker[w].pc = "gone" /\ ~Aims(worker[w])
        /\ \A w \in Workers : ~Aims(worker'[w])
    BY <1>1, NoneAims
  <1>3. \A w \in Workers : Stays(w)
    BY <1>2 DEF Stays
  <1>4. CASE Write(Ended) /\ Goes(c, [pc |-> "refetch"])
    <2>1. KinStep /\ row' = Ended /\ ghost' = {}
      BY <1>1, <1>4, WriteIsKin DEF Write, Stored
    <2>2. Settled'
      BY <1>1, <1>2, <2>1 DEF Settled, RowsFit, AimsFit, Fits
    <2>3. Turns(c, "refetch", call[c].then, call[c].ok)
      BY <1>1, <1>4, TurnsAre
    <2> QED BY <1>1, <1>3, <2>1, <2>2, <2>3, TurnSettles DEF ReconfigureSteps
  <1>5. CASE Lose(Ended) /\ Goes(c, [pc |-> "refetch", ok |-> FALSE])
    <2>1. KinStep
      BY <1>1, <1>5, WriteIsKin
    <2>2. Turns(c, "refetch", call[c].then, FALSE)
      BY <1>1, <1>5, TurnsAre
    <2>3. ~Promises(call'[c])
      BY <2>2 DEF Turns, Promises
    <2> QED BY <1>1, <1>3, <2>1, <2>2, <2>3, TurnSettles DEF ReconfigureSteps
  <1>6. CASE /\ Goes(c, [pc |-> "refetch", ok |-> call[c].ok /\ ~Cancellable]) /\ UNCHANGED <<row, ghost>>
    <2>1. Turns(c, "refetch", call[c].then, call[c].ok /\ ~Cancellable)
      BY <1>1, <1>6, TurnsAre
    <2>2. ~Cancellable => Settled
      <3>1. SUFFICES ASSUME ~Cancellable, ~closing PROVE RowsFit
        BY <1>2 DEF Settled, RowsFit, AimsFit
      <3>2. row.temp \/ row.run = NoRun \/ OpensAt[row.run] <= clock
        <4>1. ASSUME row.run # NoRun PROVE Exists(row) /\ row.run \in Runs
          BY <1>1, <4>1, RowCases, EmptyIs DEF Exists, Row
        <4>2. clock \in Nat
          BY <1>1, SchedulerAssumption DEF Types, TypeOfWorld
        <4>3. ASSUME row.run # NoRun PROVE OpensAt[row.run] \in Nat
          BY <4>1, <4>3, SchedulerAssumption
        <4> QED BY <3>1, <4>1, <4>2, <4>3 DEF Cancellable
      <3>3. ASSUME NEW s \in ghost PROVE s.temp \/ s.run = NoRun \/ OpensAt[s.run] <= clock
        <4>1. s.run = NoRun \/ s.run = row.run
          BY <1>1 DEF SettingsInv, CancelIsSure, Doubtful
        <4>2. s.run # NoRun /\ row.run # NoRun => Exists(s) /\ Exists(row)
          BY EmptyIs DEF Exists
        <4> QED BY <3>2, <4>1, <4>2 DEF SettingsInv, Kinds
      <3> QED BY <3>2, <3>3 DEF RowsFit, Fits
    <2>3. KinStep /\ (Settled => Settled')
      BY <1>1, <1>6, StillSettles
    <2>4. Promises(call'[c]) => Settled'
      BY <2>1, <2>2, <2>3 DEF Promises, Turns
    <2> QED BY <1>1, <1>3, <2>1, <2>3, <2>4, TurnSettles DEF ReconfigureSteps
  <1> QED BY <1>4, <1>5, <1>6 DEF CancelPending

LEMMA RefetchSettles == ASSUME AloneInv, SettingsInv, NEW c \in Callers, Refetch(c) PROVE SettingsInv'
  <1>1. /\ Types /\ UNCHANGED <<row, ghost, closing, week, clock, worker>> /\ call[c].pc = "refetch"
    BY DEF AloneInv, Refetch, CallAt, world
  <1>2. KinStep /\ \A w \in Workers : Stays(w)
    BY <1>1, StillSettles
  <1>3. CASE Ends(c, FALSE)
    BY <1>1, <1>2, <1>3, EndSettles
  <1>4. CASE Goes(c, [pc |-> "check", ok |-> FALSE]) /\ UNCHANGED applied
    <2>1. Turns(c, "check", call[c].then, FALSE)
      BY <1>1, <1>4, TurnsAre
    <2>2. ~Promises(call'[c])
      BY <2>1 DEF Turns, Promises
    <2> QED BY <1>1, <1>2, <1>4, <2>1, <2>2, TurnSettles DEF ReconfigureSteps
  <1>5. CASE Goes(c, [pc |-> "check", sch |-> row]) /\ UNCHANGED applied
    <2>1. Turns(c, "check", call[c].then, call[c].ok)
      BY <1>1, <1>5, TurnsAre
    <2>2. Promises(call'[c]) => Promised
      BY <1>1, <2>1 DEF Turns, Promises, Promised, Late
    <2> QED BY <1>1, <1>2, <1>5, <2>1, <2>2, TurnSettles DEF ReconfigureSteps
  <1> QED BY <1>3, <1>4, <1>5 DEF Refetch

LEMMA StopSettles ==
    ASSUME AloneInv, SettingsInv, NEW c \in Callers, RemoveSchedule(c) \/ ReplaceWorker(c) \/ StopListed(c)
    PROVE  SettingsInv'
  <1>1. /\ Types /\ UNCHANGED <<row, ghost, closing, week, clock, applied>>
        /\ \E fields : Stops(c, fields)
    BY DEF AloneInv, RemoveSchedule, ReplaceWorker, StopListed, world
  <1>2. \A w \in Workers : Stays(w)
    BY <1>1, StopsRemember DEF Stays, Aims
  <1>3. KinStep
    BY <1>1, SameIsKin
  <1>4. CASE RemoveSchedule(c)
    <2>1. call[c].pc = "remove" /\ call[c].of # "reconfigure"
      BY <1>4 DEF RemoveSchedule, CallAt, SettingsInv, CallsAre, ReconfigureSteps
    <2>2. Turns(c, "await", "end", call[c].ok)
      BY <1>1, <1>4, TurnsAre DEF RemoveSchedule, Stops
    <2>3. ~Promises(call'[c])
      BY <2>1, <2>2 DEF Turns, Promises
    <2> QED BY <1>1, <1>2, <1>3, <2>1, <2>2, <2>3, TurnSettles
  <1>5. CASE ReplaceWorker(c)
    <2>1. call[c].pc = "replace"
      BY <1>5 DEF ReplaceWorker, CallAt
    <2>2. Turns(c, "await", "start", call[c].ok)
      BY <1>1, <1>5, TurnsAre DEF ReplaceWorker, Stops
    <2>3. Promises(call'[c]) => Promised
      BY <2>1, <2>2 DEF Turns, Promises, Promised, Late
    <2> QED BY <1>1, <1>2, <1>3, <2>2, <2>3, TurnSettles DEF ReconfigureSteps
  <1>6. CASE StopListed(c)
    <2>1. call[c].pc = "stop"
      BY <1>6 DEF StopListed, CallAt
    <2>2. Turns(c, "await", call[c].then, call[c].ok)
      BY <1>1, <1>6, TurnsAre DEF StopListed, Stops
    <2>3. Promises(call'[c]) => Promised
      BY <2>1, <2>2 DEF Turns, Promises, Promised, Late, SettingsInv, CallsAre
    <2> QED BY <1>1, <1>2, <1>3, <2>2, <2>3, TurnSettles DEF ReconfigureSteps
  <1> QED BY <1>4, <1>5, <1>6

LEMMA WorkerStoppedSettles ==
    ASSUME AloneInv, SettingsInv, NEW c \in Callers, WorkerStopped(c) PROVE SettingsInv'
  <1>1. Types /\ UNCHANGED <<row, ghost, closing, week, clock, worker>> /\ call[c].pc = "await"
    BY DEF AloneInv, WorkerStopped, CallAt, world
  <1>2. KinStep /\ \A w \in Workers : Stays(w)
    BY <1>1, StillSettles
  <1>3. CASE call[c].then = "sync" /\ Goes(c, [pc |-> "sync", awaited |-> NoWorker]) /\ UNCHANGED applied
    <2>1. Turns(c, "sync", call[c].then, call[c].ok)
      BY <1>1, <1>3, TurnsAre
    <2>2. ~Promises(call'[c])
      BY <2>1 DEF Turns, Promises, Late
    <2> QED BY <1>1, <1>2, <1>3, <2>1, <2>2, TurnSettles DEF ReconfigureSteps
  <1>4. CASE call[c].of = "edit" /\ Goes(c, [pc |-> "schedule", awaited |-> NoWorker]) /\ UNCHANGED applied
    <2>1. Turns(c, "schedule", call[c].then, call[c].ok)
      BY <1>1, <1>4, TurnsAre
    <2>2. ~Promises(call'[c])
      BY <1>4, <2>1 DEF Turns, Promises
    <2> QED BY <1>1, <1>2, <1>4, <2>1, <2>2, TurnSettles
  <1>5. CASE call[c].then = "end" /\ Ends(c, call[c].ok)
    BY <1>1, <1>2, <1>5, EndSettles DEF Late
  <1> QED BY <1>3, <1>4, <1>5 DEF WorkerStopped

LEMMA StartWorkerSettles ==
    ASSUME AloneInv, SettingsInv, NEW c \in Callers, StartWorker(c) PROVE SettingsInv'
  <1>1. /\ Types /\ UNCHANGED <<row, ghost, closing, week, clock>> /\ Late(call[c])
        /\ worker \in [Workers -> Thread] /\ Ends(c, call[c].ok)
    BY DEF AloneInv, Types, TypeOfWorkers, StartWorker, CallAt, world, Late
  <1>2. KinStep
    BY <1>1, SameIsKin
  <1>3. \A w \in Workers : Stays(w)
    <2>1. CASE UNCHANGED worker
      BY <2>1 DEF Stays, Aims
    <2>2. CASE \E w, b : worker' = [worker EXCEPT ![w] = Spawned(b)]
      <3>1. PICK v, b : worker' = [worker EXCEPT ![v] = Spawned(b)]
        BY <2>2
      <3>2. Spawned(b).pc = "waiting"
        BY DEF Spawned, ++, Round
      <3>3. \A w \in Workers : worker'[w] = worker[w] \/ worker'[w] = Spawned(b)
        BY <1>1, <3>1
      <3> QED BY <3>2, <3>3 DEF Stays, Aims
    <2> QED BY <2>1, <2>2 DEF StartWorker
  <1> QED BY <1>1, <1>2, <1>3, EndSettles

LEMMA ScheduleNextSettles ==
    ASSUME AloneInv, SettingsInv, NEW c \in Callers, ScheduleNext(c) PROVE SettingsInv'
  <1>1. /\ Types /\ UNCHANGED <<row, ghost, closing, week, clock, worker>>
        /\ call[c].pc \in {"schedule", "check"}
    BY DEF AloneInv, ScheduleNext, CallAt, world
  <1>2. KinStep /\ \A w \in Workers : Stays(w)
    BY <1>1, StillSettles
  <1>3. call[c].of = "reconfigure" => call[c].pc = "check"
    BY <1>1 DEF SettingsInv, CallsAre, ReconfigureSteps
  <1>4. CASE Ends(c, call[c].ok)
    BY <1>1, <1>2, <1>3, <1>4, EndSettles DEF Late
  <1>5. CASE Goes(c, [pc |-> "replace"]) /\ UNCHANGED applied
    <2>1. Turns(c, "replace", call[c].then, call[c].ok)
      BY <1>1, <1>5, TurnsAre
    <2>2. Promises(call'[c]) => Promised
      BY <1>3, <2>1 DEF Turns, Promises, Promised, Late
    <2> QED BY <1>1, <1>2, <1>5, <2>1, <2>2, TurnSettles DEF ReconfigureSteps
  <1> QED BY <1>4, <1>5 DEF ScheduleNext

LEMMA RereadSettles == ASSUME AloneInv, SettingsInv, NEW c \in Callers, Reread(c) PROVE SettingsInv'
  <1>1. /\ Types /\ UNCHANGED <<row, ghost, closing, week, clock, worker, applied>> /\ call[c].pc = "reread"
    BY DEF AloneInv, Reread, CallAt, world
  <1>2. KinStep /\ \A w \in Workers : Stays(w)
    BY <1>1, StillSettles
  <1>3. call[c].of # "reconfigure"
    BY <1>1 DEF SettingsInv, CallsAre, ReconfigureSteps
  <1>4. CASE Goes(c, Idle)
    BY <1>1, <1>2, <1>4, EndSettles
  <1>5. CASE Goes(c, [pc |-> "remove", sch |-> row])
    <2>1. Turns(c, "remove", call[c].then, call[c].ok)
      BY <1>1, <1>5, TurnsAre
    <2>2. ~Promises(call'[c])
      BY <1>3, <2>1 DEF Turns, Promises
    <2> QED BY <1>1, <1>2, <1>3, <2>1, <2>2, TurnSettles
  <1> QED BY <1>4, <1>5 DEF Reread

LEMMA DeleteSettles == ASSUME AloneInv, SettingsInv, NEW c \in Callers, Delete(c) PROVE SettingsInv'
  <1>1. /\ Types /\ UNCHANGED <<week, clock, worker, applied>> /\ call[c].pc = "delete"
        /\ Kin(row, Ended) /\ Kin(row, NoRow) /\ Kin(Ended, NoRow) /\ Ended.run = NoRun /\ NoRow.run = NoRun
    BY KinIs, EndedIs DEF AloneInv, Delete, CallAt, world
  <1>2. \A w \in Workers : Stays(w)
    BY <1>1 DEF Stays, Aims
  <1>3. call[c].of # "reconfigure"
    BY <1>1 DEF SettingsInv, CallsAre, ReconfigureSteps
  <1>4. CASE Write(NoRow) /\ Goes(c, [pc |-> "remove"])
    <2>1. KinStep
      BY <1>1, <1>4, WriteIsKin
    <2>2. Turns(c, "remove", call[c].then, call[c].ok)
      BY <1>1, <1>4, TurnsAre
    <2>3. ~Promises(call'[c])
      BY <1>3, <2>2 DEF Turns, Promises
    <2> QED BY <1>1, <1>2, <1>3, <2>1, <2>2, <2>3, TurnSettles
  <1>5. CASE Lose(Ended) /\ Goes(c, Idle) /\ UNCHANGED closing
    <2>1. KinStep
      BY <1>1, <1>5, WriteIsKin
    <2> QED BY <1>1, <1>2, <1>5, <2>1, EndSettles
  <1>6. CASE ghost = {} /\ row' = Ended /\ ghost' \in {{}, {NoRow}} /\ Goes(c, Idle)
    <2>1. KinStep
      BY <1>1, <1>6 DEF KinStep
    <2> QED BY <1>1, <1>2, <1>6, <2>1, EndSettles
  <1> QED BY <1>4, <1>5, <1>6 DEF Delete

LEMMA CallStepSettles ==
    ASSUME AloneInv, NoticeInv, SettingsInv, NEW c \in Callers, CallStep(c) PROVE SettingsInv'
  BY RereadSettles, DeleteSettles, StopSettles, ScheduleNextSettles, WorkerStoppedSettles, StartWorkerSettles,
     ReconfigureSettles, SyncPendingSettles, CancelPendingSettles, RefetchSettles
  DEF CallStep

-----------------------------------------------------------------------------
(* The changes by handlers, main, and the environment.                     *)

LEMMA ChangeSettingsSettles ==
    ASSUME AloneInv, SettingsInv, NEW c \in Callers, ChangeSettings(c) PROVE SettingsInv'
  <1> DEFINE new == [Idle EXCEPT !.of = "reconfigure", !.pc = "list"]
  <1>1. Types /\ UNCHANGED <<row, ghost, worker>> /\ applied' = FALSE /\ call' = [Unsure EXCEPT ![c] = new]
    BY DEF AloneInv, ChangeSettings, db
  <1>2. new.of = "reconfigure" /\ new.pc = "list"
    BY DEF Idle
  <1> HIDE DEF new
  <1>3. call'[c] = new /\ \A d \in Callers : d # c => call'[d] = Unsure[d]
    BY <1>1 DEF Unsure
  <1>4. \A d \in Callers : ~Promises(call'[d])
    BY <1>1, <1>2, <1>3, UnsureAre DEF Promises, Late
  <1>5. CallsAre' /\ CancelIsSure'
    BY <1>1, <1>2, <1>3, UnsureAre DEF SettingsInv, CallsAre, CancelIsSure, ReconfigureSteps
  <1>6. Kinds(row', ghost') /\ AimsAre' /\ ~Promised'
    BY <1>1, <1>4 DEF SettingsInv, AimsAre, Aims, Promised
  <1> QED BY <1>5, <1>6 DEF SettingsInv

(* A plan in doubt is not the one the row has.                             *)
LEMMA EditScheduleSettles ==
    ASSUME AloneInv, SettingsInv, NEW c \in Callers, EditSchedule(c) PROVE SettingsInv'
  <1> DEFINE edited(p) == [row EXCEPT !.plan = p]
             new == [Idle EXCEPT !.of = "edit", !.pc = "reread"]
  <1>1. /\ Types /\ UNCHANGED <<closing, week, clock, worker>> /\ Exists(row) /\ ~row.temp /\ row \in Row
    BY RowCases DEF AloneInv, EditSchedule
  <1>2. PICK p \in Plans \ {row.plan} :
           \/ Stored(edited(p)) /\ applied' = FALSE /\ call' = [Unsure EXCEPT ![c] = new]
           \/ Lose(edited(p)) /\ UNCHANGED <<call, applied>>
    BY DEF EditSchedule
  <1>3. edited(p).plan = p /\ edited(p).temp = row.temp /\ edited(p).run = row.run
    BY <1>1 DEF Row
  <1>4. new.of = "edit" /\ new.pc = "reread"
    BY DEF Idle
  <1> DEFINE s == edited(p)
  <1> HIDE DEF edited, new, s
  <1>5. CASE Stored(s) /\ applied' = FALSE /\ call' = [Unsure EXCEPT ![c] = new]
    <2>1. call'[c] = new /\ \A d \in Callers : d # c => call'[d] = Unsure[d]
      BY <1>5 DEF Unsure
    <2>2. row' = s /\ ghost' = {}
      BY <1>5 DEF Stored
    <2>3. \A d \in Callers : ~Promises(call'[d])
      BY <1>1, <1>4, <2>1, UnsureAre DEF Promises
    <2>4. CallsAre' /\ CancelIsSure'
      BY <1>1, <1>4, <2>1, <2>2, UnsureAre DEF SettingsInv, CallsAre, CancelIsSure, Doubtful
    <2>5. Kinds(row', ghost') /\ AimsAre' /\ ~Promised'
      BY <1>1, <1>3, <1>5, <2>2, <2>3 DEF SettingsInv, Kinds, AimsAre, Aims, Promised, s
    <2> QED BY <2>4, <2>5 DEF SettingsInv
  <1>6. CASE Lose(s) /\ UNCHANGED <<call, applied>>
    <2>1. row' = row /\ ghost' \subseteq {s}
      BY <1>6 DEF Lose
    <2>2. Kinds(row', ghost') /\ ~Doubtful(row', ghost')
      BY <1>1, <1>3, <2>1 DEF Kinds, Doubtful, s
    <2>3. AimsAre' /\ CallsAre' /\ CancelIsSure'
      BY <1>1, <1>6, <2>1, <2>2 DEF SettingsInv, AimsAre, Aims, CallsAre, CancelIsSure
    <2>4. Settled => Settled'
      BY <1>1, <1>3, <2>1 DEF Settled, RowsFit, AimsFit, Fits, Aims, s
    <2>5. Promised' => Promised
      BY <1>6 DEF Promised, Promises, Late
    <2> QED BY <2>2, <2>3, <2>4, <2>5 DEF SettingsInv
  <1> QED BY <1>2, <1>5, <1>6 DEF s

(* A first row: nobody knows it.                                           *)
LEMMA FirstRowSettles ==
    ASSUME AloneInv, SettingsInv, NEW c \in Callers, IsFree(c), Nobody, row = NoRow,
           UNCHANGED <<worker, clock>>, NEW s, s.temp => s.run # NoRun, s.run = NoRun \/ s.temp,
           \/ Stored(s) /\ \E sch, pc : pc # "cancel" /\ Goes(c, [pc |-> pc, sch |-> sch])
           \/ Lose(s) /\ UNCHANGED call,
           s.run # NoRun => \A d \in Callers : call[d].pc # "cancel"
    PROVE  SettingsInv'
  <1>1. Types /\ call[c].of = "nobody"
    BY DEF AloneInv, IsFree, Idle
  <1>2. \A w \in Workers : ~Aims(worker'[w])
    BY DEF Nobody, Aims
  <1>3. (row' = s /\ ghost' = {}) \/ (row' = NoRow /\ ghost' \subseteq {s} /\ call' = call)
    BY DEF Stored, Lose
  <1>4. Settled'
    BY <1>2, <1>3, EmptyIs DEF Settled, RowsFit, AimsFit, Fits
  <1>5. Kinds(row', ghost')
    BY <1>3, EmptyIs DEF Kinds, Exists
  <1>6. AimsAre'
    BY <1>2 DEF AimsAre
  <1>7. \/ call' = call
        \/ /\ call'[c].of = "nobody" /\ call'[c].pc # "cancel"
           /\ \A d \in Callers : d # c => call'[d] = call[d]
    <2>1. ASSUME NEW sch, NEW pc, pc # "cancel", Goes(c, [pc |-> pc, sch |-> sch])
          PROVE  /\ call'[c].of = "nobody" /\ call'[c].pc # "cancel"
                 /\ \A d \in Callers : d # c => call'[d] = call[d]
      BY <1>1, <2>1, TurnsAre DEF Turns
    <2> QED BY <2>1
  <1>8. CallsAre'
    BY <1>7 DEF SettingsInv, CallsAre
  <1>9. CancelIsSure'
    <2>1. CASE s.run = NoRun \/ ghost' = {}
      BY <1>3, <2>1 DEF CancelIsSure, Doubtful
    <2>2. CASE s.run # NoRun
      BY <1>7, <2>2 DEF CancelIsSure
    <2> QED BY <2>1, <2>2
  <1> QED BY <1>4, <1>5, <1>6, <1>8, <1>9 DEF SettingsInv

LEMMA AddScheduleSettles ==
    ASSUME TendedInv, SettingsInv, NEW c \in Callers, AddSchedule(c) PROVE SettingsInv'
  <1>1. AloneInv /\ row = NoRow /\ Nobody /\ IsFree(c) /\ UNCHANGED <<worker, clock>>
    BY UnbornIs DEF TendedInv, AddSchedule, Begins
  <1>2. PICK p \in Plans :
          \/ Stored(Regular(p)) /\ Goes(c, [pc |-> "schedule", sch |-> Regular(p)])
          \/ Lose(Regular(p)) /\ UNCHANGED call
    BY DEF AddSchedule
  <1>3. Regular(p).temp = FALSE /\ Regular(p).run = NoRun
    BY DEF Regular, NoRow
  <1>4. \/ Stored(Regular(p)) /\ \E sch, pc : pc # "cancel" /\ Goes(c, [pc |-> pc, sch |-> sch])
        \/ Lose(Regular(p)) /\ UNCHANGED call
    <2>1. "schedule" # "cancel"
      OBVIOUS
    <2> QED BY <1>2, <2>1
  <1> QED BY <1>1, <1>3, <1>4, FirstRowSettles

LEMMA RunInstantSettles ==
    ASSUME TendedInv, SettingsInv, NEW c \in Callers, RunInstant(c) PROVE SettingsInv'
  <1>1. AloneInv /\ row = NoRow /\ Nobody /\ IsFree(c) /\ UNCHANGED <<worker, clock>> /\ holder = NoCaller
    BY UnbornIs DEF TendedInv, RunInstant, Begins
  <1>2. PICK r \in Runs :
          LET s == [Regular(FirstPlan) EXCEPT !.temp = TRUE, !.run = r] IN
          \/ Stored(s) /\ Goes(c, [pc |-> "check", sch |-> s])
          \/ Lose(s) /\ UNCHANGED call
    BY DEF RunInstant
  <1> DEFINE s == [Regular(FirstPlan) EXCEPT !.temp = TRUE, !.run = r]
  <1>3. s.temp /\ s.run # NoRun
    BY SchedulerAssumption DEF Regular, NoRow
  <1> HIDE DEF s
  <1>4. \/ Stored(s) /\ \E sch, pc : pc # "cancel" /\ Goes(c, [pc |-> pc, sch |-> sch])
        \/ Lose(s) /\ UNCHANGED call
    <2>1. "check" # "cancel"
      OBVIOUS
    <2> QED BY <1>2, <2>1 DEF s
  <1>5. \A d \in Callers : call[d].pc # "cancel"
    BY <1>1, SchedulerAssumption DEF AloneInv, Locked, Holding
  <1> QED BY <1>1, <1>3, <1>4, <1>5, FirstRowSettles

(* Nothing but the phase, the time or a call without promises changes.     *)
LEMMA StillInv ==
    ASSUME Types, SettingsInv, UNCHANGED <<row, ghost, week, worker, applied>>,
           clock' = clock \/ (clock < Horizon /\ clock' = clock + 1), closing => closing',
           \/ UNCHANGED call
           \/ \E c \in Callers : /\ \A d \in Callers : d # c => call'[d] = call[d]
                                 /\ call'[c].of # "reconfigure" /\ call'[c].pc # "cancel"
    PROVE  SettingsInv'
  <1>1. \A n \in Nat : n <= clock => n <= clock'
    BY SchedulerAssumption DEF Types, TypeOfWorld
  <1>2. \A s \in Rows : Fits(s) => Fits(s)'
    <2> SUFFICES ASSUME NEW s \in Rows, s.run # NoRun, OpensAt[s.run] <= clock PROVE OpensAt[s.run] <= clock'
      BY DEF Fits
    <2>1. s.run \in Runs
      BY RowIs, EmptyIs DEF Row
    <2>2. OpensAt[s.run] \in Nat
      BY <2>1, SchedulerAssumption
    <2> QED BY <1>1, <2>2
  <1>3. row \in Rows /\ ghost \subseteq Rows
    BY DEF Types, TypeOfDb
  <1>4. Settled => Settled'
    BY <1>2, <1>3 DEF Settled, RowsFit, AimsFit, Aims, Fits
  <1>5. Promised' => Promised
    BY DEF Promised, Promises, Late
  <1> QED BY <1>4, <1>5 DEF SettingsInv, AimsAre, Aims, CallsAre, CancelIsSure

LEMMA StartOrDeleteSettles ==
    ASSUME AloneInv, SettingsInv, NEW c \in Callers, Start(c) \/ DeleteSchedule(c) PROVE SettingsInv'
  <1>1. /\ Types /\ call[c].of = "nobody" /\ UNCHANGED <<row, ghost, week, worker, applied, clock>>
        /\ closing => closing'
    BY DEF AloneInv, Start, DeleteSchedule, Begins, IsFree, Idle, db
  <1>2. CASE UNCHANGED call
    BY <1>1, <1>2, StillInv
  <1>3. CASE Goes(c, [of |-> "start", pc |-> "check", sch |-> row])
    <2>1. /\ \A d \in Callers : d # c => call'[d] = call[d]
          /\ call'[c].of = "start" /\ call'[c].pc = "check"
      BY <1>1, <1>3, Gives
    <2> QED BY <1>1, <2>1, StillInv
  <1>4. CASE Goes(c, [pc |-> "delete"])
    <2>1. Turns(c, "delete", call[c].then, call[c].ok)
      BY <1>1, <1>4, TurnsAre
    <2> QED BY <1>1, <2>1, StillInv DEF Turns
  <1> QED BY <1>2, <1>3, <1>4 DEF Start, DeleteSchedule

LEMMA ExitSettles == ASSUME SettingsInv, Exit PROVE SettingsInv'
  <1>1. /\ UNCHANGED <<row, ghost>> /\ applied' = FALSE
        /\ \A w \in Workers : worker'[w].pc = "gone"
        /\ \A c \in Callers : call'[c] = Idle
    BY SpawnedIs DEF Exit, db
  <1>2. \A w \in Workers : ~Aims(worker'[w])
    BY <1>1 DEF Aims
  <1>3. \A c \in Callers : call'[c].of = "nobody" /\ call'[c].pc = "idle"
    BY <1>1 DEF Idle
  <1> QED BY <1>1, <1>2, <1>3 DEF SettingsInv, AimsAre, CallsAre, CancelIsSure, Promised, Promises

(* While a run in doubt may begin nobody aims at another.                  *)
LEMMA GhostLandsSettles == ASSUME AloneInv, NoticeInv, SettingsInv, GhostLands PROVE SettingsInv'
  <1>1. PICK s \in ghost : row' \in {row, s}
    BY DEF GhostLands
  <1>2. Types /\ row \in Rows /\ s \in Rows /\ ghost' = {} /\ UNCHANGED <<closing, week, clock, worker>>
    BY DEF AloneInv, Types, TypeOfDb, GhostLands, world
  <1>3. \A w \in Workers : Aims(worker[w]) => s.run = NoRun \/ s.run = row.run
    BY <1>2 DEF NoticeInv, Knows, Aims, Doubtful
  <1>4. AimsAre'
    <2> SUFFICES ASSUME NEW w \in Workers, Aims(worker[w]) PROVE row'.run = NoRun /\ ~row'.temp
      BY <1>2 DEF AimsAre, Aims
    <2>1. row.run = NoRun /\ ~row.temp
      BY DEF SettingsInv, AimsAre
    <2>2. s.run = NoRun
      BY <1>3, <2>1
    <2>3. ~s.temp
      BY <2>1, <2>2, EmptyIs DEF SettingsInv, Kinds, Exists
    <2> QED BY <1>1, <2>1, <2>2, <2>3
  <1>5. Kinds(row', ghost') /\ CancelIsSure'
    BY <1>2 DEF Kinds, CancelIsSure, Doubtful
  <1>6. CallsAre'
    BY <1>2, UnsureAre DEF GhostLands, SettingsInv, CallsAre
  <1>7. CASE row'.plan = row.plan
    <2>1. call' = call /\ (applied' => applied)
      BY <1>7 DEF GhostLands
    <2>2. Promised' => Promised
      BY <2>1 DEF Promised, Promises, Late
    <2>3. Exists(row') => Exists(row)
      BY <1>1, <1>2, <1>7, RowIs, SchedulerAssumption DEF Exists, Rows, Row, NoRow
    <2>4. ASSUME Settled PROVE Settled'
      <3>1. closing \/ Fits(row')
        BY <1>1, <1>7, <2>4 DEF Settled, RowsFit
      <3>2. RowsFit'
        BY <1>2, <3>1 DEF RowsFit, Fits
      <3>3. AimsFit'
        BY <1>2, <1>7, <2>3, <2>4 DEF Settled, AimsFit, Aims
      <3> QED BY <3>2, <3>3 DEF Settled
    <2> QED BY <1>4, <1>5, <1>6, <2>2, <2>4 DEF SettingsInv
  <1>8. CASE row'.plan # row.plan
    <2>1. ~applied' /\ call' = Unsure
      BY <1>8 DEF GhostLands
    <2>2. ~Promised'
      BY <1>2, <2>1, UnsureAre DEF Promised
    <2> QED BY <1>4, <1>5, <1>6, <2>2 DEF SettingsInv
  <1> QED BY <1>7, <1>8

LEMMA ServiceClosesSettles == ASSUME AloneInv, SettingsInv, ServiceCloses PROVE SettingsInv'
  <1>1. /\ Types /\ UNCHANGED <<week, clock, worker, call, applied>> /\ Write(Ended)
        /\ Kin(row, Ended) /\ Ended.run = NoRun
    BY KinIs, EndedIs DEF AloneInv, ServiceCloses, world, lifecycle
  <1>2. KinStep
    BY <1>1, WriteIsKin
  <1>3. /\ Kinds(row', ghost') /\ (Doubtful(row', ghost') => Doubtful(row, ghost))
        /\ RowsFit => RowsFit'
        /\ (row.run = NoRun => row'.run = NoRun) /\ (~row.temp => ~row'.temp)
        /\ Exists(row') => Exists(row) /\ row'.plan = row.plan
    BY <1>1, <1>2, KinSettles
  <1>4. AimsAre' /\ CallsAre' /\ CancelIsSure'
    BY <1>1, <1>3 DEF SettingsInv, AimsAre, Aims, CallsAre, CancelIsSure
  <1>5. Settled => Settled'
    BY <1>1, <1>3 DEF Settled, AimsFit, Aims
  <1>6. Promised' => Promised
    BY <1>1 DEF Promised, Promises, Late
  <1> QED BY <1>3, <1>4, <1>5, <1>6 DEF SettingsInv

LEMMA NextSettles == ASSUME TendedInv, NoticeInv, SettingsInv, [Next]_vars PROVE SettingsInv'
  <1>1. AloneInv /\ Types
    BY DEF TendedInv, AloneInv
  <1>2. CASE \E w \in Workers : WorkerStep(w)
    BY <1>1, <1>2, WorkerStepSettles
  <1>3. CASE \E c \in Callers : CallStep(c) \/ Change(c) \/ Start(c)
    BY <1>1, <1>3, CallStepSettles, ChangeSettingsSettles, EditScheduleSettles, AddScheduleSettles,
       RunInstantSettles, StartOrDeleteSettles DEF Change
  <1>4. CASE Shutdown \/ Tick \/ UNCHANGED vars
    BY <1>1, <1>4, StillInv DEF Shutdown, Tick, vars, db, lifecycle
  <1>5. CASE ServiceCloses \/ Exit \/ GhostLands
    BY <1>1, <1>5, ServiceClosesSettles, ExitSettles, GhostLandsSettles
  <1> QED BY <1>2, <1>3, <1>4, <1>5 DEF Next

-----------------------------------------------------------------------------
(* A call of Reconfigure that will report success has left no run of an    *)
(* old calendar that has yet to open, and nobody who will begin one; nor   *)
(* does a COMMIT in doubt, unless it brings another plan.  A worker that   *)
(* restores the run of an old message takes that promise back.             *)
THEOREM SettingsInvariant == Spec => []SettingsInv
  <1>1. Init => SettingsInv
    <2> SUFFICES ASSUME Init PROVE SettingsInv
      OBVIOUS
    <2>1. /\ ghost = {} /\ applied = FALSE
          /\ \A w \in Workers : worker[w].pc = "gone"
          /\ \A c \in Callers : call[c] = Idle
      BY SpawnedIs DEF Init
    <2>2. \A w \in Workers : ~Aims(worker[w])
      BY <2>1 DEF Aims
    <2>3. \A c \in Callers : call[c].of = "nobody" /\ call[c].pc = "idle"
      BY <2>1 DEF Idle
    <2> QED BY <2>1, <2>2, <2>3
            DEF SettingsInv, Kinds, AimsAre, CallsAre, CancelIsSure, Promised, Promises
  <1>2. TendedInv /\ NoticeInv /\ SettingsInv /\ [Next]_vars => SettingsInv'
    BY NextSettles
  <1> QED BY <1>1, <1>2, TendedInvariant, NoticeInvariant, PTL DEF Spec

(* Settings are applied when Reconfigure says so (reconfigure, CancelPending,
   keepRun): a run that has yet to open is one of the new calendar, whatever
   was under way, until the next change; the run of an old message, restored
   whatever the calendar says (restoreLegacy), counts as one.              *)
THEOREM SettingsAppliedAlways == Spec => []SettingsApplied
  <1>1. AloneInv /\ SettingsInv => SettingsApplied
    <2> SUFFICES ASSUME AloneInv, SettingsInv, applied, ~closing, row.run # NoRun, ~row.temp,
                        clock < OpensAt[row.run]
                 PROVE  row.run \in Calendar[row.plan][week]
      BY DEF SettingsApplied
    <2>1. Fits(row)
      BY DEF SettingsInv, Promised, Settled, RowsFit
    <2>2. row \in Rows /\ clock \in Nat
      BY SchedulerAssumption DEF AloneInv, Types, TypeOfDb, TypeOfWorld
    <2>3. row.run \in Runs
      BY <2>2, RowIs, EmptyIs DEF Row
    <2>4. OpensAt[row.run] \in Nat
      BY <2>3, SchedulerAssumption
    <2> QED BY <2>1, <2>2, <2>4 DEF Fits
  <1> QED BY <1>1, AloneInvariant, SettingsInvariant, PTL
=============================================================================
