---------------------------- MODULE SwapRequests ----------------------------
(***************************************************************************)
(* Requests to change places in one queue: handlers/swap_handlers.go.      *)
(*                                                                         *)
(* /swap reads who asks and who stands at the wanted place, posts a        *)
(* question with two buttons and remembers it for two minutes.  The        *)
(* handlers of a topic run one at a time (its key in the dispatcher); the  *)
(* timers of the requests, the moderators and the runs of the queue do     *)
(* not wait for them.  The exchange itself is Service.Swap, one step as in *)
(* QueueEntries.                                                           *)
(***************************************************************************)
EXTENDS Naturals

CONSTANTS
    People,      \* Telegram users
    NoOne,       \* not a user
    Capacity,    \* active_capacity
    MaxRequests, \* bound: questions ever posted
    MaxEntries,  \* bound: entries ever made
    MaxMessages, \* bound: messages of the queue ever posted
    MaxFaults    \* bound: calls of Telegram and PostgreSQL that fail, and restarts

ASSUME SwapAssumption ==
    /\ NoOne \notin People
    /\ {Capacity, MaxRequests, MaxEntries, MaxMessages, MaxFaults} \subseteq Nat

VARIABLES
    entries,   \* queue_entries
    message,   \* queue_message_id, 0 while the queue is closed
    made,      \* the entries and messages made so far
    handler,   \* the handler that runs in the topic: its next step and its request
    pending,   \* pendingSwaps
    expired,   \* the requests whose ExpiresAt has passed
    timers,    \* the requests whose expireSwapRequest sleeps
    expiring,  \* the requests that a timer has taken and not yet finished
    chat,      \* what the message of each request shows
    leaving,   \* the messages with a result that are to be deleted
    agreed,    \* history: who pressed "yes" on which question
    exchanges, \* history: how often each request was carried out
    restarted, \* history: the process was restarted
    faults     \* failures left

queue == <<entries, message, made>>
requests == <<pending, expired, timers, expiring>>
history == <<agreed, exchanges, restarted>>
vars == <<queue, handler, requests, chat, leaving, history, faults>>

-----------------------------------------------------------------------------
Ids == 1..MaxRequests
Positions == 1..Capacity
Entry == [id : 1..MaxEntries, user : People, position : Positions]

(* swapRequest; zeros stand for what is not known yet.                     *)
Request == [id : 0..MaxRequests, requester : People \cup {NoOne}, target : People \cup {NoOne},
            from : 0..Capacity, to : 0..Capacity,
            requesterEntry : 0..MaxEntries, targetEntry : 0..MaxEntries, message : 0..MaxMessages]
NoRequest == [id |-> 0, requester |-> NoOne, target |-> NoOne, from |-> 0, to |-> 0,
              requesterEntry |-> 0, targetEntry |-> 0, message |-> 0]

(* The steps of SwapRequest; those of SwapConfirm and SwapReject; and the  *)
(* results that finishSwapRequest is to show.                              *)
Asking == {"checkOpen", "readRequester", "readTarget", "readMessage", "send", "store"}
Results == {"exchanged", "notExchanged", "error"}
Steps == {"idle", "confirm", "confirmOpen", "swap"} \cup Asking \cup Results
Idle == [step |-> "idle", req |-> NoRequest]

(* The text of a request's message and the people it names.                *)
Shown == [says : {"nothing", "asks"} \cup Results, of : Request]

TypeOK ==
    /\ entries \in SUBSET Entry /\ message \in 0..MaxMessages
    /\ made \in [entries : 0..MaxEntries, messages : 0..MaxMessages, requests : 0..MaxRequests]
    /\ handler \in [step : Steps, req : Request]
    /\ pending \in SUBSET Request
    /\ expired \in SUBSET Ids /\ timers \in SUBSET Ids /\ leaving \in SUBSET Ids
    /\ expiring \in SUBSET Request
    /\ chat \in [Ids -> Shown]
    /\ agreed \in SUBSET (Ids \X People)
    /\ exchanges \in [Ids -> 0..1]
    /\ restarted \in BOOLEAN
    /\ faults \in 0..MaxFaults

Init ==
    /\ entries = {} /\ message = 0
    /\ made = [entries |-> 0, messages |-> 0, requests |-> 0]
    /\ handler = Idle
    /\ pending = {} /\ expired = {} /\ timers = {} /\ expiring = {}
    /\ chat = [r \in Ids |-> [says |-> "nothing", of |-> NoRequest]]
    /\ leaving = {} /\ agreed = {} /\ exchanges = [r \in Ids |-> 0]
    /\ restarted = FALSE
    /\ faults = MaxFaults

Open == message # 0
SeatsOf(p) == {e \in entries : e.user = p}
SeatsAt(n) == {e \in entries : e.position = n}
Fault == faults > 0 /\ faults' = faults - 1

-----------------------------------------------------------------------------
(* /swap.                                                                  *)

Goes(step, req) == handler' = [step |-> step, req |-> req]
OnlyHandler == UNCHANGED <<queue, requests, chat, leaving, history, faults>>

(* resolveSwapCommand finds the queue of the topic.                        *)
Ask(p, n) ==
    /\ handler = Idle /\ Open
    /\ made.requests < MaxRequests
    /\ Goes("checkOpen", [NoRequest EXCEPT !.requester = p, !.to = n])
    /\ OnlyHandler

CheckOpen == /\ handler.step = "checkOpen" /\ Open
             /\ Goes("readRequester", handler.req)
             /\ OnlyHandler

ReadRequester ==
    /\ handler.step = "readRequester"
    /\ \E e \in SeatsOf(handler.req.requester) :
          Goes("readTarget", [handler.req EXCEPT !.from = e.position, !.requesterEntry = e.id])
    /\ OnlyHandler

(* Nobody exchanges with himself.                                          *)
ReadTarget ==
    /\ handler.step = "readTarget"
    /\ \E e \in SeatsAt(handler.req.to) :
          /\ e.user # handler.req.requester
          /\ Goes("readMessage", [handler.req EXCEPT !.target = e.user, !.targetEntry = e.id])
    /\ OnlyHandler

ReadMessage ==
    /\ handler.step = "readMessage" /\ Open
    /\ Goes("send", [handler.req EXCEPT !.message = message, !.id = made.requests + 1])
    /\ OnlyHandler

(* A read that fails or finds something else ends the handler with a note. *)
AskingEnds == /\ handler.step \in {"checkOpen", "readRequester", "readTarget", "readMessage"}
              /\ handler' = Idle
              /\ OnlyHandler

(* The question is posted; its answer may be lost, and then nobody knows   *)
(* its request.                                                            *)
Send ==
    /\ handler.step = "send"
    /\ made' = [made EXCEPT !.requests = @ + 1]
    /\ \/ /\ chat' = [chat EXCEPT ![handler.req.id] = [says |-> "asks", of |-> handler.req]]
          /\ \/ Goes("store", handler.req) /\ UNCHANGED faults
             \/ Fault /\ handler' = Idle
       \/ Fault /\ handler' = Idle /\ UNCHANGED chat
    /\ UNCHANGED <<entries, message, requests, leaving, history>>

Store ==
    /\ handler.step = "store"
    /\ pending' = pending \cup {handler.req}
    /\ timers' = timers \cup {handler.req.id}
    /\ handler' = Idle
    /\ UNCHANGED <<queue, expired, expiring, chat, leaving, history, faults>>

-----------------------------------------------------------------------------
(* The buttons.                                                            *)

(* What claimSwapRequest finds for a press.                                *)
Claimable(r, p) == {q \in pending : q.id = r /\ q.target = p}

(* Mutant: the request stays in the map.                                   *)
RemainingAll(q) == pending \cup {q}
Remaining(q) == pending \ {q}

(* "Yes" and "no".  Somebody else, and whoever presses too late, only gets *)
(* a note.                                                                 *)
Press(p, r, step) ==
    /\ handler = Idle
    /\ chat[r].says = "asks"
    /\ \E q \in Claimable(r, p) :
          /\ pending' = Remaining(q)
          /\ Goes(step, q)
    /\ agreed' = IF step = "confirm" THEN agreed \cup {<<r, p>>} ELSE agreed
    /\ UNCHANGED <<queue, expired, timers, expiring, chat, leaving, exchanges, restarted, faults>>
Confirm(p, r) == Press(p, r, "confirm")
Reject(p, r) == Press(p, r, "notExchanged")

(* SwapConfirm looks at the clock, at the queue, and asks the service.     *)
CheckExpiry ==
    /\ handler.step = "confirm"
    /\ Goes(IF handler.req.id \in expired THEN "notExchanged" ELSE "confirmOpen", handler.req)
    /\ OnlyHandler
CheckStillOpen ==
    /\ handler.step = "confirmOpen"
    /\ \E still \in {Open, FALSE} : Goes(IF still THEN "swap" ELSE "notExchanged", handler.req)
    /\ OnlyHandler

(* Mutant: the exchange is made between whoever has the places now.        *)
ExchangeByPlace(q) ==
    {pair \in entries \X entries : pair[1].position = q.from /\ pair[2].position = q.to}
(* The entries that Service.Swap exchanges, if it does: both must still    *)
(* stand where the question said.                                          *)
Exchange(q) ==
    {pair \in entries \X entries :
        /\ pair[1].id = q.requesterEntry /\ pair[1].position = q.from
        /\ pair[2].id = q.targetEntry /\ pair[2].position = q.to}
CanSwap(q) == Open /\ message = q.message /\ Exchange(q) # {}

(* Mutant: an error of the database is told as a refusal.                  *)
ToldAfterSure == "notExchanged"
(* What is told after an error that leaves the outcome unknown.            *)
ToldAfterError == "error"

Exchanged(q) ==
    \E pair \in Exchange(q) :
        LET a == pair[1]  b == pair[2]
        IN  /\ entries' = (entries \ {a, b}) \cup {[a EXCEPT !.position = b.position],
                                                   [b EXCEPT !.position = a.position]}
            /\ exchanges' = [exchanges EXCEPT ![q.id] = @ + 1]

Swap ==
    LET q == handler.req
    IN  /\ handler.step = "swap"
        /\ \/ ~CanSwap(q) /\ Goes("notExchanged", q) /\ UNCHANGED <<entries, exchanges, faults>>
           \/ CanSwap(q) /\ Exchanged(q) /\ Goes("exchanged", q) /\ UNCHANGED faults
           \/ Fault /\ Goes(ToldAfterError, q)
              /\ \/ UNCHANGED <<entries, exchanges>>
                 \/ CanSwap(q) /\ Exchanged(q)
        /\ UNCHANGED <<message, made, requests, chat, leaving, agreed, restarted>>

(* Mutant: the message is left to the edit.                                *)
FinishByEdit(q, says) ==
    /\ UNCHANGED leaving
    /\ \/ chat' = [chat EXCEPT ![q.id].says = says] /\ UNCHANGED faults
       \/ Fault /\ UNCHANGED chat
(* finishSwapRequest: the question becomes the result, if Telegram edits   *)
(* it, and is deleted five seconds later.                                  *)
Finish(q, says) ==
    /\ leaving' = leaving \cup {q.id}
    /\ \/ chat' = [chat EXCEPT ![q.id].says = says] /\ UNCHANGED faults
       \/ Fault /\ UNCHANGED chat

FinishPress == /\ handler.step \in Results
               /\ Finish(handler.req, handler.step)
               /\ handler' = Idle
               /\ UNCHANGED <<queue, requests, history>>

DeleteResult(r) ==
    /\ r \in leaving /\ leaving' = leaving \ {r}
    /\ \/ chat' = [chat EXCEPT ![r].says = "nothing"] /\ UNCHANGED faults
       \/ Fault /\ UNCHANGED chat
    /\ UNCHANGED <<queue, handler, requests, history>>

-----------------------------------------------------------------------------
(* expireSwapRequest.  Its timer is set after ExpiresAt is computed, so it *)
(* fires after it.                                                         *)

TwoMinutesPass(r) ==
    /\ r \in timers \ expired
    /\ expired' = expired \cup {r}
    /\ UNCHANGED <<queue, handler, pending, timers, expiring, chat, leaving, history, faults>>

TimedOut(r) == {q \in pending : q.id = r}

Expire(r) ==
    /\ r \in timers \cap expired
    /\ timers' = timers \ {r}
    /\ pending' = pending \ TimedOut(r)
    /\ expiring' = expiring \cup TimedOut(r)
    /\ UNCHANGED <<queue, handler, expired, chat, leaving, history, faults>>

FinishExpired(q) ==
    /\ q \in expiring /\ expiring' = expiring \ {q}
    /\ Finish(q, "notExchanged")
    /\ UNCHANGED <<queue, handler, pending, expired, timers, history>>

-----------------------------------------------------------------------------
(* The queue and the process.                                              *)

Elsewhere == UNCHANGED <<handler, requests, chat, leaving, history, faults>>

(* Presses of the same topic wait for the handler, a moderator does not.   *)
Join(p, n) ==
    /\ handler = Idle /\ Open
    /\ SeatsOf(p) = {} /\ SeatsAt(n) = {} /\ made.entries < MaxEntries
    /\ entries' = entries \cup {[id |-> made.entries + 1, user |-> p, position |-> n]}
    /\ made' = [made EXCEPT !.entries = @ + 1]
    /\ UNCHANGED message /\ Elsewhere
Remove(e) == /\ entries' = entries \ {e}
             /\ UNCHANGED <<message, made>> /\ Elsewhere

(* A new message for the run, or the first one of a run.                   *)
SetQueueMessageID ==
    /\ made.messages < MaxMessages
    /\ message' = made.messages + 1
    /\ made' = [made EXCEPT !.messages = @ + 1]
    /\ UNCHANGED entries /\ Elsewhere

(* The run ends; the next one begins with its message.                     *)
Close == /\ Open
         /\ entries' = {} /\ message' = 0
         /\ UNCHANGED made /\ Elsewhere

(* The requests are in memory only; Telegram keeps the buttons.            *)
Crash ==
    /\ Fault /\ restarted' = TRUE
    /\ handler' = Idle
    /\ pending' = {} /\ timers' = {} /\ expiring' = {} /\ leaving' = {}
    /\ UNCHANGED <<queue, expired, chat, agreed, exchanges>>

-----------------------------------------------------------------------------
AskingStep == \/ CheckOpen \/ ReadRequester \/ ReadTarget \/ ReadMessage \/ AskingEnds
              \/ Send \/ Store
HandlerStep == \/ AskingStep \/ CheckExpiry \/ CheckStillOpen \/ Swap \/ FinishPress
TimerStep == \/ \E r \in Ids : Expire(r) \/ DeleteResult(r)
             \/ \E q \in expiring : FinishExpired(q)
Users == \/ \E p \in People, n \in Positions : Ask(p, n) \/ Join(p, n)
         \/ \E p \in People, r \in Ids : Confirm(p, r) \/ Reject(p, r)
World == \/ \E r \in Ids : TwoMinutesPass(r)
         \/ \E e \in entries : Remove(e)
         \/ SetQueueMessageID \/ Close \/ Crash

Next == HandlerStep \/ TimerStep \/ Users \/ World

Spec == Init /\ [][Next]_vars

(* The handlers' calls have time-outs, timers fire and time passes; nobody *)
(* has to answer.                                                          *)
FairSpec == /\ Spec /\ WF_vars(HandlerStep)
            /\ \A r \in Ids : /\ WF_vars(TwoMinutesPass(r)) /\ WF_vars(Expire(r))
                              /\ WF_vars(DeleteResult(r))
            /\ WF_vars(\E q \in expiring : FinishExpired(q))

-----------------------------------------------------------------------------
(* A request is at one place: with a handler, in the map, with its timer,  *)
(* or finished.  The press of its target and the end of its two minutes    *)
(* cannot both act on it.                                                  *)
OneHand ==
    /\ TypeOK
    /\ \A q, s \in pending \cup expiring : q.id = s.id => q = s
    /\ pending \cap expiring = {}
    /\ \A q \in pending \cup expiring : q.id # handler.req.id /\ q.id \notin leaving
    /\ handler.req.id \notin leaving

(* The result that is shown is what happened: a request said to be carried *)
(* out was, exactly once, and one said not to be never was, and will not   *)
(* be.                                                                     *)
WillNotBe(r) == \A q \in pending \cup {handler.req} : q.id # r
ResultsAreTrue == \A r \in Ids :
    /\ chat[r].says = "exchanged" => exchanges[r] = 1
    /\ chat[r].says = "notExchanged" => exchanges[r] = 0 /\ WillNotBe(r)

(* Two people change places only as the question said that one of them was *)
(* asked and agreed to: the same people, the same places, the same entries *)
(* and run of the queue; not once more with the same question.             *)
AsAgreed(a, b) ==
    \E r \in Ids :
        LET asked == chat[r].of
        IN  /\ exchanges[r] = 0 /\ exchanges'[r] = 1
            /\ <<r, asked.target>> \in agreed
            /\ message = asked.message
            /\ <<a.user, a.id, a.position, b.position>> \in
                  {<<asked.requester, asked.requesterEntry, asked.from, asked.to>>,
                   <<asked.target, asked.targetEntry, asked.to, asked.from>>}
OnlyAsAgreed == \A a \in entries, b \in entries' :
    (a.user = b.user /\ a.position # b.position) => AsAgreed(a, b)
ExchangesAreAgreed == [][OnlyAsAgreed]_vars

(* A question that was remembered does not stay: somebody answers it or    *)
(* its time ends, and its buttons disappear or show the result, even if    *)
(* one call of Telegram fails; but a restart forgets it.                   *)
QuestionsEnd == \A r \in Ids :
    (r \in {q.id : q \in pending}) ~> (chat[r].says # "asks" \/ restarted)
=============================================================================
