---------------------------- MODULE QueueEntries ----------------------------
(***************************************************************************)
(* The seats of ONE schedule: db/queue_repo.go, db/moderation_repo.go, the *)
(* presses handled by queue/service.go and the moderators' operations of   *)
(* queue/moderation.go, over several runs of the queue.                    *)
(*                                                                         *)
(* queueState.mu is held from the first read of a call to its answer, so a *)
(* call is one step.  Its first reads take no lock of the database; its    *)
(* transaction takes the advisory lock of the queue.  A transaction whose  *)
(* COMMIT was sent and whose answer was lost (ghost) keeps that lock until *)
(* it ends.  What a press names was drawn earlier, and the queue may have  *)
(* changed since.                                                          *)
(***************************************************************************)
EXTENDS Naturals

CONSTANTS
    People,      \* Telegram users
    NoOne,       \* not a user
    Markers,     \* people with the permission MarkOthers
    Capacity,    \* active_capacity
    MaxFaults,   \* bound: transactions that fail or lose their answer
    Limits       \* bounds: combinations that are explored, of the people who press, the
                 \* runs, the kinds of completion presses that are delivered twice, and
                 \* the entries, blocks and messages ever made

ASSUME EntriesAssumption ==
    /\ NoOne \notin People /\ Markers \subseteq People
    /\ {Capacity, MaxFaults} \subseteq Nat
    /\ \A l \in Limits :
          /\ l.people \subseteq People /\ l.repeated \subseteq {"self", "slot"}
          /\ {l.runs, l.entries, l.blocks, l.messages} \subseteq Nat

VARIABLES
    tables,     \* queue_entries, queue_rejoin_blocks and the row of the schedule
    ghost,      \* the transaction in doubt: the tables it would leave, and its call
    uncertain,  \* queueState.uncertain
    closing,    \* queueState.closing
    clock,
    noted,      \* state.seen: the completion press that may be delivered again
    last,       \* the sequences of identifiers: entry, block, message
    cause,      \* history: the call that this step carried out
    answer,     \* history: the answer given by this step
    faults,     \* failures left to the database
    limits      \* the chosen combination of bounds, never changed

vars == <<limits, tables, ghost, uncertain, closing, clock, noted, last, cause, answer, faults>>

-----------------------------------------------------------------------------
Positions == 1..Capacity
(* Run r opens at the instant 2r - 1 and closes at 2r.                     *)
Runs == 1..limits.runs
OpensAt(r) == 2 * r - 1
ClosesAt(r) == 2 * r

Entry == [id : 1..limits.entries, user : People, position : Positions, completed : BOOLEAN]
(* A block whose blocked_until has not passed.                             *)
Block == [id : 1..limits.blocks, user : People, run : Runs]
Tables == [entries : SUBSET Entry, blocks : SUBSET Block, run : {0} \cup Runs, message : 0..limits.messages]
Empty(r) == [entries |-> {}, blocks |-> {}, run |-> r, message |-> 0]

SeatsOf(p) == {e \in tables.entries : e.user = p}
SeatsAt(n) == {e \in tables.entries : e.position = n}
Free == {n \in Positions : SeatsAt(n) = {}}

(* A call and what it carries.  The button of a taken seat carries the     *)
(* entry, its position and the mark to set; a swap names two entries and   *)
(* positions; a moderator names a run and an entry (target: with a block)  *)
(* or a block.                                                             *)
Kinds == {"none", "join", "joinFirst", "leave", "self", "slot", "swap", "remove", "unblock"}
Call == [kind : Kinds, who : People \cup {NoOne}, run : {0} \cup Runs, id : Nat, position : 0..Capacity,
         target : BOOLEAN, other : Nat, otherPosition : 0..Capacity]
NoCall == [kind |-> "none", who |-> NoOne, run |-> 0, id |-> 0, position |-> 0,
           target |-> FALSE, other |-> 0, otherPosition |-> 0]
By(kind, p) == [NoCall EXCEPT !.kind = kind, !.who = p]

Ghost == [tables : Tables, by : Call]
(* The answers that say something about who stands in the queue, with the  *)
(* person they are given to and the kind of call.                          *)
Claims == {"seated", "left", "marked", "unmarked", "joined", "notJoined", "full"}
NoAnswer == [to |-> NoOne, asked |-> "none", says |-> "nothing"]
Answer == [to : People \cup {NoOne}, asked : Kinds, says : Claims \cup {"nothing"}]

TypeOK ==
    /\ tables \in Tables
    /\ ghost \in SUBSET Ghost /\ \A g, h \in ghost : g = h
    /\ uncertain \in BOOLEAN /\ closing \in BOOLEAN
    /\ clock \in 0..2 * limits.runs
    /\ noted \in Call /\ cause \in Call /\ answer \in Answer
    /\ last \in [entry : 0..limits.entries, block : 0..limits.blocks, message : 0..limits.messages]
    /\ faults \in 0..MaxFaults /\ limits \in Limits

Init ==
    /\ tables = Empty(0) /\ ghost = {}
    /\ uncertain = FALSE /\ closing = FALSE
    /\ clock = 0
    /\ noted = NoCall /\ cause = NoCall /\ answer = NoAnswer
    /\ last = [entry |-> 0, block |-> 0, message |-> 0]
    /\ faults = MaxFaults /\ limits \in Limits

-----------------------------------------------------------------------------
(* Transactions.                                                           *)

(* pg_advisory_xact_lock waits for a transaction in doubt.                 *)
Locked == ghost = {}

(* Mutant: the row is read without waiting for a transaction in doubt.     *)
SafeToReadAtOnce == TRUE
(* readSchedule: in doubt it takes the lock of the queue, and so waits for *)
(* the transaction to end.                                                 *)
SafeToRead == uncertain => Locked

(* A transaction that would leave tables t: it commits; or it is rolled    *)
(* back, or its answer is lost and its fate unknown, and then the service  *)
(* remembers its doubt.  doubt: what readSchedule has left of an earlier   *)
(* one.                                                                    *)
Transact(t, by, doubt) ==
    /\ Locked
    /\ \/ tables' = t /\ cause' = by /\ uncertain' = doubt /\ UNCHANGED <<ghost, faults>>
       \/ /\ faults > 0 /\ faults' = faults - 1
          /\ ghost' \in {{}, {[tables |-> t, by |-> by]}}
          /\ uncertain' = TRUE
          /\ cause' = NoCall /\ UNCHANGED tables
Failed == faults' # faults

GhostLands ==
    /\ \E g \in ghost : \/ tables' = g.tables /\ cause' = g.by
                        \/ cause' = NoCall /\ UNCHANGED tables
    /\ ghost' = {}
    /\ answer' = NoAnswer
    /\ UNCHANGED <<uncertain, closing, clock, noted, last, faults, limits>>

(* The ends of a call: refused by what was read; refused by the write, as  *)
(* an error that leaves the service in doubt; written.                     *)
Reply(c, says) == answer' = IF says \in Claims
                            THEN [to |-> c.who, asked |-> c.kind, says |-> says]
                            ELSE NoAnswer
Refused(c, says) ==
    /\ Reply(c, says)
    /\ uncertain' = FALSE /\ cause' = NoCall
    /\ UNCHANGED <<tables, ghost, noted, last, faults>>
Rejected(c, says) ==
    /\ Locked
    /\ Reply(c, says)
    /\ uncertain' = TRUE /\ cause' = NoCall
    /\ UNCHANGED <<tables, ghost, last, faults>>
Written(c, t, says) ==
    /\ Transact(t, c, FALSE)
    /\ Reply(c, IF Failed THEN "error" ELSE says)

-----------------------------------------------------------------------------
(* The presses of service.go with the transactions of queue_repo.go that   *)
(* they make.                                                              *)

(* Mutant: joining looks for blocks of the wrong run.                      *)
BlockedElsewhere(p) == \E b \in tables.blocks : b.user = p /\ b.run # tables.run
(* checkQueueRejoin.                                                       *)
Blocked(p) == \E b \in tables.blocks : b.user = p /\ b.run = tables.run

Seated(p, n) ==
    [tables EXCEPT !.entries =
        @ \cup {[id |-> last.entry + 1, user |-> p, position |-> n, completed |-> FALSE]}]

(* JoinQueue and JoinFirstFreeSlot, which takes the first of the places.   *)
(* The error of a blocked rejoin puts nothing in doubt.                    *)
Insert(c, places) ==
    \/ Locked /\ Blocked(c.who) /\ Refused(c, "blocked")
    \/ /\ ~Blocked(c.who)
       /\ \/ /\ places = {}
             /\ Rejected(c, IF c.kind = "join" THEN "occupied" ELSE "full")
             /\ UNCHANGED noted
          \/ \E n \in places :
                /\ \A k \in places : n <= k
                /\ Written(c, Seated(c.who, n), "seated")
                /\ last' = [last EXCEPT !.entry = @ + 1]
                /\ UNCHANGED noted

Join(c) ==
    \/ SeatsOf(c.who) # {} /\ Refused(c, "joined")
    \/ /\ SeatsOf(c.who) = {} /\ last.entry < limits.entries
       /\ Insert(c, IF c.kind = "join" THEN Free \cap {c.position} ELSE Free)

(* Mutant: the DELETE forgets the user.                                    *)
LeaveTogether(c) ==
    \/ SeatsOf(c.who) = {} /\ Refused(c, "notJoined")
    \/ /\ SeatsOf(c.who) # {}
       /\ Written(c, [tables EXCEPT !.entries = {}], "left")
       /\ UNCHANGED <<noted, last>>
Leave(c) ==
    \/ SeatsOf(c.who) = {} /\ Refused(c, "notJoined")
    \/ /\ SeatsOf(c.who) # {}
       /\ Written(c, [tables EXCEPT !.entries = @ \ SeatsOf(c.who)], "left")
       /\ UNCHANGED <<noted, last>>

(* SetCompleted: the mark of an entry that is still where it was read.     *)
Marked(e, v) == [tables EXCEPT !.entries = (@ \ {e}) \cup {[e EXCEPT !.completed = v]}]
SetCompleted(c, e, v) ==
    /\ Written(c, Marked(e, v), IF v THEN "marked" ELSE "unmarked")
    /\ UNCHANGED last

(* Complete: the entry of the button's place, which must still be the one  *)
(* drawn there, or the presser's own.  A press that was seen before is     *)
(* answered without writing; a new one is noted before its write.          *)
EntriesFor(c) == IF c.kind = "self" THEN SeatsOf(c.who) ELSE SeatsAt(c.position)
(* Mutant: the entry that the button was drawn for is not compared.        *)
IsMeantByPlace(c, e) == c.kind = "self" \/ e.position = c.position
IsMeant(c, e) == c.kind = "self" \/ e.id = c.id
MayMark(c, e) == e.user = c.who \/ c.who \in Markers

Complete(c, again) ==
    \/ EntriesFor(c) = {} /\ Refused(c, "notJoined")
    \/ \E e \in EntriesFor(c) :
        \/ ~IsMeant(c, e) /\ Refused(c, "changed")
        \/ IsMeant(c, e) /\ ~MayMark(c, e) /\ Refused(c, "forbidden")
        \/ /\ IsMeant(c, e) /\ MayMark(c, e) /\ again
           /\ Refused(c, IF e.completed THEN "marked" ELSE "unmarked")
        \/ /\ IsMeant(c, e) /\ MayMark(c, e) /\ ~again
           /\ SetCompleted(c, e, IF c.kind = "self" THEN ~e.completed ELSE c.target)
           /\ noted' = IF c.kind \in limits.repeated THEN c ELSE noted

(* Mutants: the expected places are not compared; the second UPDATE is     *)
(* missing.                                                                *)
StandingAnywhere(id, n) == {e \in tables.entries : e.id = id /\ n \in Positions}
ExchangedHalf(a, b) ==
    [tables EXCEPT !.entries = (@ \ {a}) \cup {[a EXCEPT !.position = b.position]}]
(* SwapQueueEntries: both entries still stand where the request said, and  *)
(* change places.                                                          *)
Standing(id, n) == {e \in tables.entries : e.id = id /\ e.position = n}
Exchanged(a, b) ==
    [tables EXCEPT !.entries =
        (@ \ {a, b}) \cup {[a EXCEPT !.position = b.position], [b EXCEPT !.position = a.position]}]

Swap(c) ==
    \/ /\ c.id = c.other \/ Standing(c.id, c.position) = {} \/ Standing(c.other, c.otherPosition) = {}
       /\ Rejected(c, "changed")
       /\ UNCHANGED noted
    \/ /\ c.id # c.other
       /\ \E a \in Standing(c.id, c.position), b \in Standing(c.other, c.otherPosition) :
             Written(c, Exchanged(a, b), "swapped")
       /\ UNCHANGED <<noted, last>>

-----------------------------------------------------------------------------
(* The calls of moderation.go with the transactions of moderation_repo.go. *)

RunIsOpen == /\ tables.run # 0
             /\ OpensAt(tables.run) <= clock /\ clock < ClosesAt(tables.run)
Admitted(stale) == ~closing /\ SafeToRead /\ ~stale /\ RunIsOpen

(* The upsert gives a block imposed again a new identifier.                *)
BlocksWith(p, r) == {b \in tables.blocks : b.user # p \/ b.run # r}
                      \cup {[id |-> last.block + 1, user |-> p, run |-> r]}
(* Mutant: the entry is blocked and not deleted.                           *)
RemovedInName(e, c) == [tables EXCEPT !.blocks = IF c.target THEN BlocksWith(e.user, c.run) ELSE @]
Removed(e, c) == [tables EXCEPT !.entries = @ \ {e},
                                !.blocks = IF c.target THEN BlocksWith(e.user, c.run) ELSE @]

Remove(c) ==
    \/ /\ \A e \in tables.entries : e.id # c.id
       /\ Rejected(c, "changed")
       /\ UNCHANGED noted
    \/ /\ \E e \in tables.entries : e.id = c.id /\ Written(c, Removed(e, c), "removed")
       /\ last' = [last EXCEPT !.block = IF c.target THEN @ + 1 ELSE @]
       /\ UNCHANGED noted

(* Mutant: the DELETE forgets the identifier of the block.                 *)
UnblockAll(c) ==
    LET named == {b \in tables.blocks : b.run = c.run}
    IN  \/ named = {} /\ Rejected(c, "changed") /\ UNCHANGED noted
        \/ /\ named # {}
           /\ Written(c, [tables EXCEPT !.blocks = @ \ named], "unblocked")
           /\ UNCHANGED <<noted, last>>
Unblock(c) ==
    LET named == {b \in tables.blocks : b.id = c.id /\ b.run = c.run}
    IN  \/ named = {} /\ Rejected(c, "changed") /\ UNCHANGED noted
        \/ /\ named # {}
           /\ Written(c, [tables EXCEPT !.blocks = @ \ named], "unblocked")
           /\ UNCHANGED <<noted, last>>

-----------------------------------------------------------------------------
(* What comes before: active for a press, activeRun and authorize for a    *)
(* moderator.  A closing queue refuses before the row is read.  A refusal  *)
(* here does not look at what the call carries and claims nothing, and so  *)
(* does the failure of one of the reads that follow; a moderator may also  *)
(* have lost the permission since the menu was drawn.                      *)

TurnedAway(stale) ==
    /\ answer' = NoAnswer /\ cause' = NoCall
    /\ \/ closing /\ UNCHANGED uncertain
       \/ ~closing /\ SafeToRead /\ (stale \/ ~RunIsOpen) /\ uncertain' = FALSE
       \/ Admitted(stale) /\ uncertain' = FALSE
    /\ UNCHANGED <<tables, ghost, closing, clock, noted, last, faults, limits>>

Current(m) == tables.message # 0 /\ tables.message = m

Press(c, again) ==
    /\ Admitted(~Current(tables.message))
    /\ \/ c.kind \in {"join", "joinFirst"} /\ Join(c)
       \/ c.kind = "leave" /\ Leave(c)
       \/ c.kind \in {"self", "slot"} /\ Complete(c, again)
       \/ c.kind = "swap" /\ Swap(c)
    /\ UNCHANGED <<closing, clock, limits>>

Moderate(c) ==
    /\ Admitted(tables.run # c.run)
    /\ \/ c.kind = "remove" /\ Remove(c)
       \/ c.kind = "unblock" /\ Unblock(c)
    /\ UNCHANGED <<closing, clock, limits>>

(* The calls there can be.  Telegram delivers presses of any age: on any   *)
(* message posted so far (0: one whose identifier never arrived), and for  *)
(* a taken seat naming any entry made so far and any place and mark it may *)
(* have been drawn with.                                                   *)
Made == 1..last.entry

PressTurnedAway == \E m \in 0..last.message : TurnedAway(~Current(m))
PressOfMenu == \E p \in limits.people, kind \in {"joinFirst", "leave", "self"} :
    Press(By(kind, p), FALSE)
PressOfFreeSeat == \E p \in limits.people, n \in Positions :
    Press([By("join", p) EXCEPT !.position = n], FALSE)
PressOfTakenSeat == \E p \in limits.people, id \in Made, n \in Positions, v \in BOOLEAN :
    Press([By("slot", p) EXCEPT !.id = id, !.position = n, !.target = v], FALSE)
PressAgain == noted # NoCall /\ Press(noted, TRUE)
(* Its two entries play the same part.                                     *)
ConfirmedSwap == \E a, b \in Made, i, k \in Positions :
    a <= b /\ Press([By("swap", NoOne) EXCEPT !.id = a, !.position = i, !.other = b, !.otherPosition = k],
                    FALSE)
ModerationTurnedAway == \E r \in Runs : TurnedAway(tables.run # r)
RemovalByModerator == \E id \in Made, r \in Runs, block \in BOOLEAN :
    /\ block => last.block < limits.blocks
    /\ Moderate([By("remove", NoOne) EXCEPT !.run = r, !.id = id, !.target = block])
UnblockByModerator == \E id \in 1..last.block, r \in Runs :
    Moderate([By("unblock", NoOne) EXCEPT !.run = r, !.id = id])

-----------------------------------------------------------------------------
(* The runs of the queue and time.                                         *)

(* In the critical section that reads the row, or in a later one.          *)
AfterReading(t) == SafeToRead /\ Transact(t, NoCall, FALSE) /\ answer' = NoAnswer
Afterwards(t) == Transact(t, NoCall, uncertain) /\ answer' = NoAnswer

(* Prepare and BeginQueueRun: a new run starts from nothing.               *)
BeginQueueRun(r) ==
    /\ ~closing
    /\ tables.run = 0 /\ tables.message = 0 /\ clock < ClosesAt(r)
    /\ AfterReading(Empty(r))
    /\ UNCHANGED <<closing, clock, noted, last, limits>>

(* Refresh and Repost post a message and store its identifier.             *)
SetQueueMessageID ==
    /\ tables.run # 0 /\ last.message < limits.messages
    /\ Afterwards([tables EXCEPT !.message = last.message + 1])
    /\ last' = [last EXCEPT !.message = @ + 1]
    /\ UNCHANGED <<closing, clock, noted, limits>>

(* Close and Delete announce themselves before they wait for the lane.     *)
RequestClose ==
    /\ tables.run # 0 /\ ~closing
    /\ closing' = TRUE /\ cause' = NoCall /\ answer' = NoAnswer
    /\ UNCHANGED <<tables, ghost, uncertain, clock, noted, last, faults, limits>>

(* close ends with FinishQueueRun, which is also how CancelPending takes   *)
(* back a run that has not opened.                                         *)
FinishQueueRun ==
    /\ \/ closing /\ Afterwards(Empty(0))
       \/ /\ ~closing /\ tables.run # 0 /\ clock < OpensAt(tables.run)
          /\ AfterReading(Empty(0))
    /\ closing' = (closing /\ Failed)
    /\ noted' = IF Failed THEN noted ELSE NoCall
    /\ UNCHANGED <<clock, last, limits>>

Tick == /\ clock < 2 * limits.runs /\ clock' = clock + 1
        /\ cause' = NoCall /\ answer' = NoAnswer
        /\ UNCHANGED <<tables, ghost, uncertain, closing, noted, last, faults, limits>>

(* blocked_until passes.                                                   *)
BlockExpires(b) ==
    /\ tables' = [tables EXCEPT !.blocks = @ \ {b}]
    /\ ghost' = {[g EXCEPT !.tables.blocks = @ \ {b}] : g \in ghost}
    /\ cause' = NoCall /\ answer' = NoAnswer
    /\ UNCHANGED <<uncertain, closing, clock, noted, last, faults, limits>>

-----------------------------------------------------------------------------
Calls == \/ PressTurnedAway \/ PressOfMenu \/ PressOfFreeSeat \/ PressOfTakenSeat \/ PressAgain
         \/ ConfirmedSwap
         \/ ModerationTurnedAway \/ RemovalByModerator \/ UnblockByModerator
Lifecycle == \/ \E r \in Runs : BeginQueueRun(r)
             \/ SetQueueMessageID \/ RequestClose \/ FinishQueueRun
World == GhostLands \/ Tick \/ \E b \in tables.blocks : BlockExpires(b)

Next == Calls \/ Lifecycle \/ World

Spec == Init /\ [][Next]_vars

-----------------------------------------------------------------------------
(* Safety.                                                                 *)

(* The tables as they are, and as the transaction in doubt would leave     *)
(* them.                                                                   *)
Outcomes == {tables} \cup {g.tables : g \in ghost}

(* Nobody stands in the queue twice and no place has two people, also when *)
(* the answer of a transaction was lost and the person pressed again.      *)
OneSeatEach ==
    /\ TypeOK
    /\ \A t \in Outcomes : \A e, f \in t.entries :
          e = f \/ (e.id # f.id /\ e.user # f.user /\ e.position # f.position)

(* Somebody removed with a block does not stand in that run again until    *)
(* the block has expired or was lifted: neither the first free place nor a *)
(* transaction that was in doubt lets him in.                              *)
BlockedStayOut == \A t \in Outcomes : \A b \in t.blocks :
    b.run = t.run /\ \A e \in t.entries : e.user # b.user

(* What people are told is true, and stays true whatever becomes of a      *)
(* transaction in doubt: a queue said to be full is full, one who is said  *)
(* to stand in it does, one who is told otherwise does not, a mark said to *)
(* be set is set.                                                          *)
Mine(t) == {e \in t.entries : e.user = answer.to}
AnswersAreTrue == \A t \in Outcomes :
    /\ answer.says = "full" => \A n \in Positions : \E e \in t.entries : e.position = n
    /\ answer.says \in {"joined", "seated"} => Mine(t) # {}
    /\ (answer.says = "left") \/ (answer.says = "notJoined" /\ answer.asked # "slot") => Mine(t) = {}
    /\ answer.asked = "self" /\ answer.says \in {"marked", "unmarked"} =>
          \E e \in Mine(t) : e.completed = (answer.says = "marked")

(* The people who stand in the queue in t and in u.                        *)
Kept(t, u) == {k \in t.entries \X u.entries : k[1].user = k[2].user}

(* People change places only in pairs, by an exchange that named both of   *)
(* them and the places they had when it was asked for.                     *)
AgreedSwaps(t, u, c) == \A k \in Kept(t, u) : k[1].position # k[2].position =>
    \E o \in Kept(t, u) :
        /\ c.kind = "swap"
        /\ o[1].position = k[2].position /\ o[2].position = k[1].position
        /\ {<<c.id, c.position>>, <<c.other, c.otherPosition>>}
              = {<<k[1].id, k[1].position>>, <<o[1].id, o[1].position>>}
SwapsAreAgreed == [][AgreedSwaps(tables, tables', cause')]_tables

(* What a completion press asked for: to turn the presser's own mark, or   *)
(* to give entry e the mark v with the button that was drawn for e in the  *)
(* place where it still stands.                                            *)
AskedFor(c, e, v) ==
    \/ c.kind = "self" /\ c.who = e.user
    \/ /\ c.kind = "slot" /\ c.id = e.id /\ c.position = e.position /\ c.target = v
       /\ c.who = e.user \/ c.who \in Markers

(* A mark changes only by a press of its owner, or of somebody allowed to, *)
(* on a button that was drawn for that very entry in that place and names  *)
(* the new mark, whoever took the place since; and it stays with the       *)
(* person when places are exchanged.                                       *)
OwnMarks(t, u, c) == \A k \in Kept(t, u) : k[1].completed # k[2].completed =>
    /\ k[1].id = k[2].id /\ k[1].position = k[2].position
    /\ AskedFor(c, k[1], k[2].completed)
MarksFollowPeople == [][OwnMarks(tables, tables', cause')]_tables

(* Somebody loses his place only by leaving, by the removal of that very   *)
(* entry (not of a place taken again since the menu was drawn), or by the  *)
(* end of the run.                                                         *)
KeptPlaces(t, u, c) == \A e \in t.entries :
    (\A f \in u.entries : f.user # e.user) =>
        \/ u.run # t.run
        \/ c.kind = "leave" /\ c.who = e.user
        \/ c.kind = "remove" /\ c.id = e.id /\ c.run = t.run
PlacesAreKept == [][KeptPlaces(tables, tables', cause')]_tables

(* A block is lifted only by the button drawn for that very block; one     *)
(* imposed later on the same person stays.                                 *)
KeptBlocks(t, u, c) == \A b \in t.blocks \ u.blocks :
    \/ u.run # t.run
    \/ \E d \in u.blocks : d.user = b.user /\ d.id > b.id
    \/ c.kind = "unblock" /\ c.id = b.id
BlocksAreKept == [][\/ KeptBlocks(tables, tables', cause')
                    \/ \E b \in tables.blocks : BlockExpires(b)]_tables

(* Refinement: what the people see of it.                                  *)
PlaceOf(p) == IF SeatsOf(p) = {} THEN 0 ELSE (CHOOSE e \in SeatsOf(p) : TRUE).position
SeatingOf == INSTANCE Seating WITH
    place <- [p \in People |-> PlaceOf(p)],
    marked <- {e.user : e \in {e \in tables.entries : e.completed}},
    barred <- {b.user : b \in tables.blocks}
ImplementsSeating == SeatingOf!Spec
=============================================================================
