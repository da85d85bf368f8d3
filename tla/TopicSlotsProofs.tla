-------------------------- MODULE TopicSlotsProofs --------------------------
(***************************************************************************)
(* Proofs about TopicSlots: for every set of schedules and of topics, what *)
(* a transaction has found free stays free, and two runs never share a     *)
(* topic.                                                                  *)
(***************************************************************************)
EXTENDS TopicSlots, TLAPS

(* What the steps write has its type.                                      *)
LEMMA IdleType == ASSUME NEW t \in Topics, NEW m \in Messages
                  PROVE  Idle(t, m) \in Row
  BY TopicAssumption DEF Idle, Row

LEMMA NoTxType == NoTx \in Tx
  BY DEF NoTx, Tx, Steps

LEMMA AbsentType == ASSUME TopicTypeOK, NEW s \in Schedules
                    PROVE  /\ Absent(s) \in Row
                           /\ Absent(s).run = NotRunning /\ Absent(s).topic = NoTopic
                           /\ Absent(s).exists = FALSE
  BY TopicAssumption DEF TopicTypeOK, Absent, Row

(* The invariant says of each schedule, and of each pair, what a step may  *)
(* disturb only where it writes.  A step that writes the row of s without  *)
(* a lock leaves it idle or absent, or keeps its run and topic.            *)
Leaves(s, row) ==
    \/ row.run = NotRunning /\ row.topic = NoTopic
    \/ row.run = rows[s].run /\ row.topic = rows[s].topic /\ row.exists = rows[s].exists

LEMMA RowWritten ==
    ASSUME TopicInv, NEW s \in Schedules, NEW row \in Row,
           tx[s].step \in {"topic", "check", "commit"} =>
               (row.thread = rows[s].thread /\ row.exists = rows[s].exists),
           Leaves(s, row),
           rows' = [rows EXCEPT ![s] = row], tx' = tx
    PROVE  TopicInv'
  <1> USE DEF TopicInv
  <1>1. /\ rows \in [Schedules -> Row] /\ tx \in [Schedules -> Tx]
        /\ rows'[s] = row /\ \A o \in Schedules \ {s} : rows'[o] = rows[o]
        /\ rows' \in [Schedules -> Row]
    BY DEF TopicTypeOK
  <1>2. TopicTypeOK'
    BY <1>1 DEF TopicTypeOK
  <1>3. RunsHaveTopics'
    BY <1>1, TopicAssumption DEF RunsHaveTopics, Running, Leaves, Row
  <1>4. RowsAreKept'
    BY <1>1 DEF RowsAreKept, Running, Leaves, Row
  <1>5. LocksAreExclusive'
    BY DEF LocksAreExclusive, HoldsTopic
  <1>6. \A o \in Schedules : Running(o)' => Running(o) /\ TopicOf(o)' = TopicOf(o)
    BY <1>1 DEF RunsHaveTopics, Running, TopicOf, Leaves
  <1>7. CheckedStaysFree' /\ TopicExclusive'
    BY <1>6 DEF CheckedStaysFree, TopicExclusive
  <1> QED BY <1>2, <1>3, <1>4, <1>5, <1>7

(* A step of a transaction that does not check and does not end.           *)
LEMMA TxWritten ==
    ASSUME TopicInv, NEW s \in Schedules, NEW t \in Tx,
           t.step # "commit", t.step # "none" => t.run \in Runs,
           t.step \in {"topic", "check"} =>
               /\ ~Running(s) /\ t.thread \in Topics
               /\ rows[s].exists => rows[s].thread = t.thread,
           t.step = "check" => \A o \in Schedules \ {s} : HoldsTopic(o) => tx[o].thread # t.thread,
           tx' = [tx EXCEPT ![s] = t], rows' = rows
    PROVE  TopicInv'
  <1> USE DEF TopicInv
  <1>1. /\ tx \in [Schedules -> Tx] /\ rows \in [Schedules -> Row]
        /\ tx'[s] = t /\ \A o \in Schedules \ {s} : tx'[o] = tx[o]
        /\ tx' \in [Schedules -> Tx]
    BY DEF TopicTypeOK
  <1>2. TopicTypeOK'
    BY <1>1 DEF TopicTypeOK
  <1>3. RunsHaveTopics' /\ TopicExclusive'
    BY DEF RunsHaveTopics, TopicExclusive, Running, TopicOf
  <1>4. RowsAreKept'
    BY <1>1 DEF RowsAreKept, Running
  <1>5. LocksAreExclusive'
    BY <1>1 DEF LocksAreExclusive, HoldsTopic
  <1>6. CheckedStaysFree'
    BY <1>1 DEF CheckedStaysFree, Running, TopicOf
  <1> QED BY <1>2, <1>3, <1>4, <1>5, <1>6

-----------------------------------------------------------------------------
(* The steps of transactions.                                              *)

LEMMA BeginRunInv == ASSUME TopicInv, NEW s \in Schedules, NEW r \in Runs, NEW legacy \in BOOLEAN,
                            BeginRun(s, r, legacy)
                     PROVE  TopicInv'
  <1> DEFINE t == [NoTx EXCEPT !.step = "queue", !.run = r, !.legacy = legacy]
  <1>1. t \in Tx /\ t.step = "queue" /\ t.run = r
    BY DEF Tx, NoTx, Steps
  <1>2. tx' = [tx EXCEPT ![s] = t] /\ rows' = rows
    BY DEF BeginRun
  <1> HIDE DEF t
  <1> QED BY <1>1, <1>2, TxWritten

LEMMA BeginOneShotInv == ASSUME TopicInv, NEW s \in Schedules, NEW thread \in Topics, NEW r \in Runs,
                                BeginOneShot(s, thread, r)
                         PROVE  TopicInv'
  <1> DEFINE t == [step |-> "topic", run |-> r, thread |-> thread, legacy |-> FALSE]
  <1>1. t \in Tx /\ t.step = "topic" /\ t.thread = thread /\ t.run = r
    BY DEF Tx, Steps
  <1>2. tx' = [tx EXCEPT ![s] = t] /\ rows' = rows /\ ~rows[s].exists
    BY DEF BeginOneShot
  <1>3. ~Running(s)
    BY <1>2 DEF TopicInv, RunsHaveTopics
  <1> HIDE DEF t
  <1> QED BY <1>1, <1>2, <1>3, TxWritten

(* Whatever ends without a commit gives back its locks.                    *)
LEMMA EndedInv == ASSUME TopicInv, NEW s \in Schedules, tx' = [tx EXCEPT ![s] = NoTx], rows' = rows
                  PROVE  TopicInv'
  <1>1. NoTx \in Tx /\ NoTx.step = "none"
    BY NoTxType DEF NoTx
  <1> QED BY <1>1, TxWritten

LEMMA ReadRowInv == ASSUME TopicInv, NEW s \in Schedules, ReadRow(s)
                    PROVE  TopicInv'
  <1> DEFINE t == [tx[s] EXCEPT !.step = "topic", !.thread = rows[s].thread]
  <1>0. tx[s] \in Tx /\ rows[s] \in Row /\ tx[s].step = "queue" /\ tx[s].run \in Runs /\ rows' = rows
    BY DEF TopicInv, TopicTypeOK, RowsAreKept, ReadRow
  <1>1. CASE rows[s].exists /\ ~Running(s) /\ tx' = [tx EXCEPT ![s].step = "topic", ![s].thread = rows[s].thread]
    <2>1. t \in Tx /\ t.step = "topic" /\ t.thread = rows[s].thread /\ t.run = tx[s].run
      BY <1>0 DEF Tx, Row, Steps
    <2>2. tx' = [tx EXCEPT ![s] = t] /\ t.thread \in Topics
      BY <1>0, <1>1, <2>1 DEF TopicInv, TopicTypeOK, Row
    <2> HIDE DEF t
    <2> QED BY <1>0, <1>1, <2>1, <2>2, TxWritten
  <1>2. CASE tx' = [tx EXCEPT ![s] = NoTx]
    BY <1>0, <1>2, EndedInv
  <1> QED BY <1>0, <1>1, <1>2 DEF ReadRow

LEMMA LockTopicInv == ASSUME TopicInv, NEW s \in Schedules, LockTopic(s)
                      PROVE  TopicInv'
  <1> DEFINE t == [tx[s] EXCEPT !.step = "check"]
  <1>1. /\ tx[s] \in Tx /\ tx[s].step = "topic" /\ rows' = rows
        /\ tx' = [tx EXCEPT ![s] = t]
        /\ \A o \in Schedules \ {s} : HoldsTopic(o) => tx[o].thread # tx[s].thread
    BY DEF TopicInv, TopicTypeOK, LockTopic
  <1>2. t \in Tx /\ t.step = "check" /\ t.thread = tx[s].thread /\ t.run = tx[s].run
    BY <1>1 DEF Tx, Steps
  <1>3. /\ ~Running(s) /\ t.thread \in Topics /\ t.run \in Runs
        /\ rows[s].exists => rows[s].thread = t.thread
    BY <1>1, <1>2 DEF TopicInv, RowsAreKept
  <1> HIDE DEF t
  <1> QED BY <1>1, <1>2, <1>3, TxWritten

(* What was found free is free: no other run can take the topic's lock.    *)
LEMMA TopicAvailableInv == ASSUME TopicInv, NEW s \in Schedules, TopicAvailable(s)
                           PROVE  TopicInv'
  <1> USE DEF TopicInv
  <1>1. tx[s].step = "check" /\ rows' = rows
    BY DEF TopicAvailable
  <1>2. CASE tx' = [tx EXCEPT ![s] = NoTx]
    BY <1>1, <1>2, EndedInv
  <1>3. CASE /\ ~ \E o \in Schedules \ {s} : Occupies(o, tx[s].thread)
             /\ tx' = [tx EXCEPT ![s].step = "commit"]
    <2>1. /\ tx \in [Schedules -> Tx] /\ tx' \in [Schedules -> Tx]
          /\ tx'[s].step = "commit" /\ tx'[s].thread = tx[s].thread /\ tx'[s].run = tx[s].run
          /\ \A o \in Schedules \ {s} : tx'[o] = tx[o]
      BY <1>3 DEF TopicTypeOK, Tx, Steps
    <2>2. TopicTypeOK' /\ RunsHaveTopics' /\ TopicExclusive'
      BY <1>1, <2>1 DEF TopicTypeOK, RunsHaveTopics, TopicExclusive, Running, TopicOf
    <2>3. RowsAreKept' /\ LocksAreExclusive'
      BY <1>1, <2>1 DEF RowsAreKept, LocksAreExclusive, HoldsTopic, Running
    <2>4. \A o \in Schedules \ {s} : Running(o) => TopicOf(o) # tx[s].thread
      BY <1>3 DEF RunsHaveTopics, Occupies
    <2>5. CheckedStaysFree'
      BY <1>1, <2>1, <2>4 DEF CheckedStaysFree, Running, TopicOf
    <2> QED BY <2>2, <2>3, <2>5
  <1> QED BY <1>2, <1>3 DEF TopicAvailable

LEMMA CommitInv == ASSUME TopicInv, NEW s \in Schedules, Commit(s)
                   PROVE  TopicInv'
  <1> USE DEF TopicInv
  <1>1. /\ tx[s].step = "commit" /\ tx[s] \in Tx /\ rows[s] \in Row
        /\ ~Running(s) /\ tx[s].thread \in Topics /\ tx[s].run \in Runs
        /\ rows[s].exists => rows[s].thread = tx[s].thread
    BY DEF Commit, RowsAreKept, TopicTypeOK
  <1>0. ~Collides(s)
    BY <1>1 DEF Collides, TopicTaken, CheckedStaysFree
  <1>2. /\ Begun(s) \in Row /\ Begun(s).exists /\ Begun(s).run = tx[s].run
        /\ Begun(s).topic = tx[s].thread
    BY <1>1, TopicAssumption DEF Begun, Row
  <1>3. /\ rows \in [Schedules -> Row] /\ tx \in [Schedules -> Tx]
        /\ rows' \in [Schedules -> Row] /\ tx' \in [Schedules -> Tx]
        /\ rows'[s] = Begun(s) /\ \A o \in Schedules \ {s} : rows'[o] = rows[o]
        /\ tx'[s].step = "none" /\ \A o \in Schedules \ {s} : tx'[o] = tx[o]
    BY <1>0, <1>2, NoTxType DEF Commit, TopicTypeOK, NoTx
  <1> HIDE DEF Begun
  <1>4. TopicTypeOK' /\ RunsHaveTopics'
    BY <1>1, <1>2, <1>3, TopicAssumption DEF TopicTypeOK, RunsHaveTopics, Running
  <1>5. RowsAreKept' /\ LocksAreExclusive'
    BY <1>3 DEF RowsAreKept, LocksAreExclusive, HoldsTopic, Running
  <1>6. Running(s)' /\ TopicOf(s)' = tx[s].thread
    BY <1>1, <1>2, <1>3, TopicAssumption DEF Running, TopicOf
  <1>7. \A o \in Schedules \ {s} : Running(o)' = Running(o) /\ TopicOf(o)' = TopicOf(o)
    BY <1>3 DEF Running, TopicOf
  <1>8. TopicExclusive'
    BY <1>1, <1>6, <1>7 DEF TopicExclusive, CheckedStaysFree
  <1>9. CheckedStaysFree'
    BY <1>1, <1>3, <1>6, <1>7 DEF CheckedStaysFree, LocksAreExclusive, HoldsTopic
  <1> QED BY <1>4, <1>5, <1>8, <1>9

-----------------------------------------------------------------------------
(* The other statements.                                                   *)

LEMMA FinishQueueRunInv == ASSUME TopicInv, NEW s \in Schedules, FinishQueueRun(s)
                           PROVE  TopicInv'
  <1> DEFINE row == IF s \in OneShots THEN Absent(s) ELSE Idle(rows[s].thread, NoMessage)
  <1>1. rows[s] \in Row /\ rows[s].thread \in Topics
    BY DEF TopicInv, TopicTypeOK, Row
  <1>2. row \in Row /\ row.run = NotRunning /\ row.topic = NoTopic
    <2>1. CASE s \in OneShots
      BY <2>1, AbsentType DEF TopicInv
    <2>2. CASE s \notin OneShots
      BY <1>1, <2>2, IdleType, TopicAssumption DEF Idle
    <2> QED BY <2>1, <2>2
  <1>3. /\ rows' = [rows EXCEPT ![s] = row] /\ tx' = tx
        /\ tx[s].step \notin {"topic", "check", "commit"}
    BY DEF FinishQueueRun, Unlocked
  <1>4. Leaves(s, row)
    BY <1>2 DEF Leaves
  <1> HIDE DEF row
  <1> QED BY <1>2, <1>3, <1>4, RowWritten

LEMMA SetQueueMessageIDInv == ASSUME TopicInv, NEW s \in Schedules, NEW m \in Messages,
                                     SetQueueMessageID(s, m)
                              PROVE  TopicInv'
  <1> DEFINE row == [rows[s] EXCEPT !.message = m]
  <1>1. rows' = [rows EXCEPT ![s] = row] /\ tx' = tx
    BY DEF SetQueueMessageID, TopicInv, TopicTypeOK
  <1>2. /\ row \in Row /\ row.run = rows[s].run /\ row.topic = rows[s].topic
        /\ row.thread = rows[s].thread /\ row.exists = rows[s].exists
    BY DEF TopicInv, TopicTypeOK, Row
  <1> HIDE DEF row
  <1> QED BY <1>1, <1>2, RowWritten DEF Leaves

LEMMA ChangeThreadIDInv == ASSUME TopicInv, NEW s \in Schedules, NEW t \in Topics, ChangeThreadID(s, t)
                           PROVE  TopicInv'
  <1> DEFINE row == [rows[s] EXCEPT !.thread = t]
  <1>1. /\ rows' = [rows EXCEPT ![s] = row] /\ tx' = tx
        /\ tx[s].step \notin {"topic", "check", "commit"}
    BY DEF ChangeThreadID, RowIsFree, Unlocked, TopicInv, TopicTypeOK
  <1>2. /\ row \in Row /\ row.run = rows[s].run /\ row.topic = rows[s].topic
        /\ row.exists = rows[s].exists
    BY DEF TopicInv, TopicTypeOK, Row
  <1> HIDE DEF row
  <1> QED BY <1>1, <1>2, RowWritten DEF Leaves

LEMMA DeleteScheduleEntryInv == ASSUME TopicInv, NEW s \in Schedules, DeleteScheduleEntry(s)
                                PROVE  TopicInv'
  <1>1. /\ rows' = [rows EXCEPT ![s] = Absent(s)] /\ tx' = tx
        /\ tx[s].step \notin {"topic", "check", "commit"}
    BY DEF DeleteScheduleEntry, RowIsFree, Unlocked
  <1>2. Absent(s) \in Row /\ Leaves(s, Absent(s))
    BY AbsentType DEF Leaves, TopicInv
  <1> QED BY <1>1, <1>2, RowWritten

LEMMA AddNewScheduleEntryInv == ASSUME TopicInv, NEW s \in Schedules, NEW t \in Topics,
                                       AddNewScheduleEntry(s, t)
                                PROVE  TopicInv'
  <1>1. /\ rows' = [rows EXCEPT ![s] = Idle(t, NoMessage)] /\ tx' = tx
        /\ tx[s].step \notin {"topic", "check", "commit"}
    BY DEF AddNewScheduleEntry, NoTx
  <1>2. Idle(t, NoMessage) \in Row /\ Idle(t, NoMessage).run = NotRunning /\ Idle(t, NoMessage).topic = NoTopic
    BY IdleType, TopicAssumption DEF Idle
  <1>3. Leaves(s, Idle(t, NoMessage))
    BY <1>2 DEF Leaves
  <1> QED BY <1>1, <1>2, <1>3, RowWritten

-----------------------------------------------------------------------------
LEMMA InitInv == ASSUME TopicInit
                 PROVE  TopicInv
  <1>1. \A t \in Topics, m \in Messages : Idle(t, m) \in Row
    BY IdleType
  <1>2. \A t \in Topics : [Idle(t, NoMessage) EXCEPT !.exists = FALSE] \in Row
    BY TopicAssumption DEF Idle, Row
  <1>3. /\ \A t \in Topics, m \in Messages : Idle(t, m).run = NotRunning /\ Idle(t, m).topic = NoTopic
        /\ \A t \in Topics : LET row == [Idle(t, NoMessage) EXCEPT !.exists = FALSE]
                             IN  row.run = NotRunning /\ row.topic = NoTopic
    BY DEF Idle
  <1> DEFINE Quiet == {row \in Row : row.run = NotRunning /\ row.topic = NoTopic}
  <1>4. \A t \in Topics, m \in Messages : Idle(t, m) \in Quiet
    BY <1>1, <1>3
  <1>5. \A t \in Topics : [Idle(t, NoMessage) EXCEPT !.exists = FALSE] \in Quiet
    BY <1>2, <1>3
  <1> HIDE DEF Quiet
  <1>6. rows \in [Schedules -> Quiet]
    BY <1>4, <1>5 DEF TopicInit
  <1>7. tx \in [Schedules -> Tx] /\ \A s \in Schedules : tx[s].step = "none"
    BY NoTxType DEF TopicInit, NoTx
  <1> QED BY <1>7, <1>6 DEF Quiet, TopicInv, TopicTypeOK, RunsHaveTopics, RowsAreKept, LocksAreExclusive,
                            CheckedStaysFree, TopicExclusive, Running, HoldsTopic

LEMMA NextInv == ASSUME TopicInv, [TopicNext]_topicVars
                 PROVE  TopicInv'
  <1>1. CASE UNCHANGED topicVars
    BY <1>1 DEF topicVars, TopicInv, TopicTypeOK, RunsHaveTopics, RowsAreKept, LocksAreExclusive,
                CheckedStaysFree, TopicExclusive, Running, HoldsTopic, TopicOf
  <1>2. CASE TopicNext
    <2> PICK s \in Schedules :
           \/ \E r \in Runs, legacy \in BOOLEAN : BeginRun(s, r, legacy)
           \/ \E t \in Topics, r \in Runs : BeginOneShot(s, t, r)
           \/ Transaction(s)
           \/ FinishQueueRun(s)
           \/ \E m \in Messages : SetQueueMessageID(s, m)
           \/ \E t \in Topics : ChangeThreadID(s, t) \/ AddNewScheduleEntry(s, t)
           \/ DeleteScheduleEntry(s)
      BY <1>2 DEF TopicNext
    <2>1. CASE \E r \in Runs, legacy \in BOOLEAN : BeginRun(s, r, legacy)
      BY <2>1, BeginRunInv
    <2>2. CASE \E t \in Topics, r \in Runs : BeginOneShot(s, t, r)
      BY <2>2, BeginOneShotInv
    <2>3. CASE Transaction(s)
      <3>1. CASE Rollback(s)
        BY <3>1, EndedInv DEF Rollback
      <3> QED BY <2>3, <3>1, ReadRowInv, LockTopicInv, TopicAvailableInv, CommitInv DEF Transaction
    <2>4. CASE FinishQueueRun(s)
      BY <2>4, FinishQueueRunInv
    <2>5. CASE \E m \in Messages : SetQueueMessageID(s, m)
      BY <2>5, SetQueueMessageIDInv
    <2>6. CASE \E t \in Topics : ChangeThreadID(s, t) \/ AddNewScheduleEntry(s, t)
      BY <2>6, ChangeThreadIDInv, AddNewScheduleEntryInv
    <2>7. CASE DeleteScheduleEntry(s)
      BY <2>7, DeleteScheduleEntryInv
    <2> QED BY <2>1, <2>2, <2>3, <2>4, <2>5, <2>6, <2>7
  <1> QED BY <1>1, <1>2

(* The invariant of the transactions: what they have locked, and what they *)
(* have found free, stays so (db/schedule_repo.go:108-245).                *)
THEOREM TopicInvariant == TopicSpec => []TopicInv
  BY InitInv, NextInv, PTL DEF TopicSpec

(* The topic that was found free stays free until the run is stored in it: *)
(* the locks suffice without the unique index (schedule_repo.go:108-219).  *)
THEOREM ChecksHoldAlways == TopicSpec => []ChecksHold
  <1>1. TopicInv => ChecksHold
    BY DEF TopicInv, ChecksHold, Collides, TopicTaken, CheckedStaysFree, RowsAreKept
  <1> QED BY <1>1, TopicInvariant, PTL

(* Two runs never share a topic of a chat (schedule_repo.go:67, 145-158).  *)
THEOREM TopicsAreExclusive == TopicSpec => []TopicExclusive
  <1>1. TopicInv => TopicExclusive
    BY DEF TopicInv
  <1> QED BY <1>1, TopicInvariant, PTL
=============================================================================
