----------------------------- MODULE TopicSlots -----------------------------
(***************************************************************************)
(* Who occupies which topic of a chat: the rows of schedules and the       *)
(* transactions of db/schedule_repo.go that begin and end their runs.      *)
(*                                                                         *)
(* A run is begun under three locks: the advisory lock of the schedule's   *)
(* queue, the row (FOR UPDATE), and the advisory lock of the topic.  The   *)
(* other transactions are single statements or take effect at once.  A     *)
(* transaction whose answer is lost holds its locks until PostgreSQL ends  *)
(* it, so it is the same as one that is slow to commit.                    *)
(***************************************************************************)
CONSTANTS
    Schedules,  \* the identifiers of rows
    OneShots,   \* those of one-shot queues (is_temporary)
    Topics,     \* the topics of the chat
    Runs,       \* runs: the times of opening and closing
    Messages,   \* what queue_message_id may be
    NotRunning, \* no run
    NoTopic,    \* active_thread_id is NULL
    NoMessage   \* queue_message_id is NULL

ASSUME TopicAssumption ==
    /\ OneShots \subseteq Schedules
    /\ NotRunning \notin Runs /\ NoTopic \notin Topics /\ NoMessage \in Messages

VARIABLES
    rows, \* schedules
    tx    \* the transaction that begins a run of a schedule

topicVars == <<rows, tx>>

-----------------------------------------------------------------------------
Row == [exists : BOOLEAN, thread : Topics, run : Runs \cup {NotRunning},
        topic : Topics \cup {NoTopic}, message : Messages]

(* What the transaction does next; "queue": it has no lock yet.            *)
Steps == {"none", "queue", "topic", "check", "commit"}
Tx == [step : Steps, run : Runs \cup {NotRunning}, thread : Topics \cup {NoTopic}, legacy : BOOLEAN]
NoTx == [step |-> "none", run |-> NotRunning, thread |-> NoTopic, legacy |-> FALSE]

TopicTypeOK == rows \in [Schedules -> Row] /\ tx \in [Schedules -> Tx]

Idle(thread, message) == [exists |-> TRUE, thread |-> thread, run |-> NotRunning,
                          topic |-> NoTopic, message |-> message]
Absent(s) == [rows[s] EXCEPT !.exists = FALSE, !.run = NotRunning, !.topic = NoTopic, !.message = NoMessage]

Running(s) == rows[s].run # NotRunning
TopicOf(s) == IF rows[s].topic = NoTopic THEN rows[s].thread ELSE rows[s].topic
Occupies(s, t) == /\ rows[s].exists /\ TopicOf(s) = t
                  /\ Running(s) \/ rows[s].message # NoMessage

(* The row and the queue of s are not locked.                              *)
Unlocked(s) == tx[s].step \in {"none", "queue"}
HoldsTopic(s) == tx[s].step \in {"check", "commit"}

-----------------------------------------------------------------------------
(* BeginQueueRun, or SetLegacyQueueRunBounds for a row with a message.     *)

BeginRun(s, r, legacy) ==
    /\ rows[s].exists /\ tx[s] = NoTx
    /\ tx' = [tx EXCEPT ![s] = [NoTx EXCEPT !.step = "queue", !.run = r, !.legacy = legacy]]
    /\ UNCHANGED rows

(* The row is read and locked; it must still have no run.                  *)
ReadRow(s) ==
    /\ tx[s].step = "queue"
    /\ IF /\ rows[s].exists /\ ~Running(s)
          /\ tx[s].legacy \/ rows[s].message = NoMessage
       THEN tx' = [tx EXCEPT ![s].step = "topic", ![s].thread = rows[s].thread]
       ELSE tx' = [tx EXCEPT ![s] = NoTx]
    /\ UNCHANGED rows

(* AddTemporarySchedule: its row appears with the COMMIT.                  *)
BeginOneShot(s, t, r) ==
    /\ s \in OneShots /\ ~rows[s].exists /\ tx[s] = NoTx
    /\ tx' = [tx EXCEPT ![s] = [step |-> "topic", run |-> r, thread |-> t, legacy |-> FALSE]]
    /\ UNCHANGED rows

LockTopic(s) ==
    /\ tx[s].step = "topic"
    /\ \A o \in Schedules \ {s} : HoldsTopic(o) => tx[o].thread # tx[s].thread
    /\ tx' = [tx EXCEPT ![s].step = "check"]
    /\ UNCHANGED rows

(* topicAvailable sees what is committed; ErrTopicBusy otherwise.          *)
TopicAvailable(s) ==
    /\ tx[s].step = "check"
    /\ IF \E o \in Schedules \ {s} : Occupies(o, tx[s].thread)
       THEN tx' = [tx EXCEPT ![s] = NoTx]
       ELSE tx' = [tx EXCEPT ![s].step = "commit"]
    /\ UNCHANGED rows

(* The UPDATE takes the thread of the row as it is now.                    *)
Begun(s) ==
    IF rows[s].exists
    THEN [rows[s] EXCEPT !.run = tx[s].run, !.topic = rows[s].thread,
                         !.message = IF tx[s].legacy THEN @ ELSE NoMessage]
    ELSE [exists |-> TRUE, thread |-> tx[s].thread, run |-> tx[s].run,
          topic |-> tx[s].thread, message |-> NoMessage]

(* Two runs in one topic violate the index schedules_active_topic_unique.  *)
TopicTaken(s) == IF rows[s].exists THEN rows[s].thread ELSE tx[s].thread
Collides(s) == \E o \in Schedules \ {s} : Running(o) /\ TopicOf(o) = TopicTaken(s)

Commit(s) ==
    /\ tx[s].step = "commit"
    /\ rows' = IF Collides(s) THEN rows ELSE [rows EXCEPT ![s] = Begun(s)]
    /\ tx' = [tx EXCEPT ![s] = NoTx]

(* A statement, the connection or the COMMIT fails.                        *)
Rollback(s) ==
    /\ tx[s].step # "none"
    /\ tx' = [tx EXCEPT ![s] = NoTx]
    /\ UNCHANGED rows

-----------------------------------------------------------------------------
(* The other transactions and statements on a row.                         *)

FinishQueueRun(s) ==
    /\ rows[s].exists /\ Unlocked(s)
    /\ rows' = [rows EXCEPT ![s] = IF s \in OneShots THEN Absent(s) ELSE Idle(rows[s].thread, NoMessage)]
    /\ UNCHANGED tx

SetQueueMessageID(s, m) ==
    /\ rows[s].exists /\ Running(s) /\ Unlocked(s)
    /\ rows' = [rows EXCEPT ![s].message = m]
    /\ UNCHANGED tx

(* Mutant: the row was read without FOR UPDATE.                            *)
NeverWaits(s) == rows[s].exists

(* An UPDATE or DELETE waits for the lock of the row.                      *)
RowIsFree(s) == rows[s].exists /\ Unlocked(s)

(* The topic of a run that has begun stays.                                *)
ChangeThreadID(s, t) ==
    /\ RowIsFree(s)
    /\ rows' = [rows EXCEPT ![s].thread = t]
    /\ UNCHANGED tx

DeleteScheduleEntry(s) ==
    /\ RowIsFree(s)
    /\ rows' = [rows EXCEPT ![s] = Absent(s)]
    /\ UNCHANGED tx

AddNewScheduleEntry(s, t) ==
    /\ s \notin OneShots /\ ~rows[s].exists /\ tx[s] = NoTx
    /\ rows' = [rows EXCEPT ![s] = Idle(t, NoMessage)]
    /\ UNCHANGED tx

-----------------------------------------------------------------------------
(* Rows of an older version may have a message and no run.                 *)
TopicInit == /\ rows \in [Schedules -> {Idle(t, m) : t \in Topics, m \in Messages}
                                          \cup {[Idle(t, NoMessage) EXCEPT !.exists = FALSE] : t \in Topics}]
             /\ tx = [s \in Schedules |-> NoTx]

Transaction(s) == ReadRow(s) \/ LockTopic(s) \/ TopicAvailable(s) \/ Commit(s) \/ Rollback(s)

TopicNext == \E s \in Schedules :
    \/ \E r \in Runs, legacy \in BOOLEAN : BeginRun(s, r, legacy)
    \/ \E t \in Topics, r \in Runs : BeginOneShot(s, t, r)
    \/ Transaction(s)
    \/ FinishQueueRun(s)
    \/ \E m \in Messages : SetQueueMessageID(s, m)
    \/ \E t \in Topics : ChangeThreadID(s, t) \/ AddNewScheduleEntry(s, t)
    \/ DeleteScheduleEntry(s)

TopicSpec == TopicInit /\ [][TopicNext]_topicVars

-----------------------------------------------------------------------------
(* The topic that was found free is free when the run is stored in it,     *)
(* however the transactions interleave, whichever COMMIT is slow or lost,  *)
(* and wherever the schedules are moved meanwhile: a busy topic is always  *)
(* told as ErrTopicBusy, and the unique index, whose error nobody expects, *)
(* is never met (schedule_repo.go:108-219, 325).                           *)
ChecksHold == \A s \in Schedules : tx[s].step = "commit" => ~Collides(s)

(* Two runs never share a topic: /swap and /queue find the queue of a      *)
(* topic by it (schedule_repo.go:67).                                      *)
TopicExclusive == \A a, b \in Schedules :
    a # b /\ Running(a) /\ Running(b) => TopicOf(a) # TopicOf(b)

(* Why: a run has a topic; a transaction that has read its row keeps it    *)
(* without a run and in its topic; the holder of a topic's lock is alone;  *)
(* and a transaction that found its topic free finds it so when it ends.   *)
RunsHaveTopics == \A s \in Schedules :
    /\ Running(s) => rows[s].exists
    /\ Running(s) <=> rows[s].topic # NoTopic
RowsAreKept == \A s \in Schedules :
    /\ tx[s].step # "none" => tx[s].run \in Runs
    /\ tx[s].step \in {"topic", "check", "commit"} =>
           /\ ~Running(s) /\ tx[s].thread \in Topics
           /\ rows[s].exists => rows[s].thread = tx[s].thread
LocksAreExclusive == \A a, b \in Schedules :
    a # b /\ HoldsTopic(a) /\ HoldsTopic(b) => tx[a].thread # tx[b].thread
CheckedStaysFree == \A s, o \in Schedules :
    s # o /\ tx[s].step = "commit" /\ Running(o) => TopicOf(o) # tx[s].thread

TopicInv ==
    /\ TopicTypeOK
    /\ RunsHaveTopics /\ RowsAreKept /\ LocksAreExclusive /\ CheckedStaysFree
    /\ TopicExclusive
=============================================================================
