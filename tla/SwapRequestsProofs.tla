------------------------- MODULE SwapRequestsProofs -------------------------
(***************************************************************************)
(* Proofs about SwapRequests: for any people, places, questions and        *)
(* failures, a request is in one hand at a time, the result that is shown  *)
(* is what happened, and people change places only as they agreed.         *)
(*                                                                         *)
(* The argument: the message of a request, which no step takes back,       *)
(* holds the request as it was asked (chat[r].of), so two requests with    *)
(* one identifier are one request; and while a request is in a hand, its   *)
(* message still asks and nothing was exchanged for it.                    *)
(***************************************************************************)
EXTENDS SwapRequests, TLAPS

-----------------------------------------------------------------------------
(* The invariant, in the parts that steps disturb.                         *)

(* The steps at which the handler's request has been posted, and those at  *)
(* which it has not and was not given its identifier.                      *)
Posted == {"store", "confirm", "confirmOpen", "swap"} \cup Results
Early == {"checkOpen", "readRequester", "readTarget", "readMessage"}

TypesOfQueue ==
    /\ entries \in SUBSET Entry /\ message \in 0..MaxMessages
    /\ made \in [entries : 0..MaxEntries, messages : 0..MaxMessages, requests : 0..MaxRequests]
TypesOfRequests ==
    /\ handler \in [step : Steps, req : Request]
    /\ pending \in SUBSET Request
    /\ expired \in SUBSET Ids /\ timers \in SUBSET Ids /\ leaving \in SUBSET Ids
    /\ expiring \in SUBSET Request
TypesOfHistory ==
    /\ chat \in [Ids -> Shown]
    /\ agreed \in SUBSET (Ids \X People)
    /\ exchanges \in [Ids -> 0..1]
    /\ restarted \in BOOLEAN
    /\ faults \in 0..MaxFaults

(* Nobody has two places and no place two people.                          *)
Seats == \A e, f \in entries :
    e = f \/ (e.id # f.id /\ e.user # f.user /\ e.position # f.position)

(* The entries of a request still have the people of its question, if      *)
(* they are there at all: identifiers are not used again.                  *)
Names(q) == /\ q.requesterEntry <= made.entries /\ q.targetEntry <= made.entries
            /\ \A e \in entries : /\ e.id = q.requesterEntry => e.user = q.requester
                                  /\ e.id = q.targetEntry => e.user = q.target
Entries == /\ Seats
           /\ \A e \in entries : e.id <= made.entries
           /\ Names(handler.req)
           /\ \A r \in Ids : Names(chat[r].of)

(* Request q was posted, its message still asks and nothing was done.      *)
Asked(q) == /\ q.id \in Ids /\ q.id <= made.requests
            /\ chat[q.id].of = q /\ chat[q.id].says = "asks"
            /\ q.id \notin leaving
Untouched(q) == Asked(q) /\ exchanges[q.id] = 0

Hand ==
    /\ handler.step = "idle" => handler.req = NoRequest
    /\ handler.step \in Early => handler.req.id = 0 /\ made.requests < MaxRequests
    /\ handler.step = "send" => handler.req.id = made.requests + 1 /\ made.requests < MaxRequests
    /\ handler.step \in Posted => /\ Asked(handler.req)
                                  /\ handler.req \notin pending \cup expiring
    /\ handler.step \in Posted \ {"exchanged", "error"} => exchanges[handler.req.id] = 0
    /\ handler.step = "exchanged" => exchanges[handler.req.id] = 1
    /\ handler.step \in {"confirm", "confirmOpen", "swap"} =>
          <<handler.req.id, handler.req.target>> \in agreed

Waiting == /\ \A q \in pending \cup expiring : Untouched(q)
           /\ pending \cap expiring = {}

(* What is not posted shows nothing; what is shown is true.                *)
Told == /\ \A r \in Ids : r > made.requests => /\ exchanges[r] = 0 /\ chat[r].says = "nothing"
                                               /\ r \notin leaving
        /\ \A r \in Ids : /\ chat[r].says = "exchanged" => exchanges[r] = 1
                          /\ chat[r].says = "notExchanged" => exchanges[r] = 0

SwapInv == /\ TypesOfQueue /\ TypesOfRequests /\ TypesOfHistory
           /\ Entries /\ Hand /\ Waiting /\ Told

LEMMA TypesAre == TypeOK <=> TypesOfQueue /\ TypesOfRequests /\ TypesOfHistory
  BY DEF TypeOK, TypesOfQueue, TypesOfRequests, TypesOfHistory

LEMMA NoRequestIs == NoRequest \in Request /\ NoRequest.id = 0 /\ (TypesOfQueue => Names(NoRequest))
  <1>1. NoRequest \in Request /\ NoRequest.id = 0
    BY SwapAssumption DEF NoRequest, Request
  <1>2. ASSUME TypesOfQueue PROVE Names(NoRequest)
    <2>1. \A e \in entries : e.id \in 1..MaxEntries
      BY <1>2 DEF TypesOfQueue, Entry
    <2>2. made.entries \in Nat
      BY <1>2, SwapAssumption DEF TypesOfQueue
    <2> QED BY <2>1, <2>2, SwapAssumption DEF NoRequest, Names
  <1> QED BY <1>1, <1>2

LEMMA IdsAre == ASSUME TypesOfQueue
                PROVE  /\ made.requests \in 0..MaxRequests /\ made.entries \in 0..MaxEntries
                       /\ made.messages \in 0..MaxMessages
                       /\ MaxRequests \in Nat /\ MaxEntries \in Nat /\ MaxMessages \in Nat
                       /\ Capacity \in Nat /\ MaxFaults \in Nat
  BY SwapAssumption DEF TypesOfQueue

-----------------------------------------------------------------------------
(* The steps of the handler that change nothing else.                      *)

LEMMA OnlyHandlerInv ==
    ASSUME SwapInv, OnlyHandler, handler' \in [step : Steps, req : Request],
           Names(handler'.req), Hand'
    PROVE  SwapInv'
  <1>0. UNCHANGED <<entries, message, made, pending, expired, timers, expiring, chat, leaving,
                    agreed, exchanges, restarted, faults>>
    BY DEF OnlyHandler, queue, requests, history
  <1>1. TypesOfQueue' /\ TypesOfRequests' /\ TypesOfHistory'
    BY <1>0 DEF SwapInv, TypesOfQueue, TypesOfRequests, TypesOfHistory
  <1>2. Entries'
    BY <1>0 DEF SwapInv, Entries, Names, Seats
  <1>3. Waiting' /\ Told'
    BY <1>0 DEF SwapInv, Waiting, Untouched, Asked, Told
  <1> QED BY <1>1, <1>2, <1>3 DEF SwapInv

(* A handler that has not given its request an identifier.                 *)
LEMMA EarlyInv ==
    ASSUME SwapInv, OnlyHandler, NEW step \in Early, NEW req \in Request, Goes(step, req),
           req.id = 0, made.requests < MaxRequests, Names(req)
    PROVE  SwapInv'
  <1>1. handler' = [step |-> step, req |-> req] /\ handler' \in [step : Steps, req : Request]
    BY DEF Goes, Early, Steps, Asking
  <1>2. Hand'
    BY <1>1 DEF Hand, Early, Posted, Results, OnlyHandler, queue
  <1> QED BY <1>1, <1>2, OnlyHandlerInv

LEMMA IdleInv == ASSUME SwapInv, OnlyHandler, handler' = Idle PROVE SwapInv'
  <1>1. /\ handler' = [step |-> "idle", req |-> NoRequest]
        /\ handler' \in [step : Steps, req : Request] /\ Names(handler'.req)
    BY NoRequestIs DEF Idle, Steps, SwapInv
  <1>2. Hand'
    BY <1>1 DEF Hand, Early, Posted, Results
  <1> QED BY <1>1, <1>2, OnlyHandlerInv

LEMMA EarlyIs == ASSUME SwapInv, handler.step \in Early
                 PROVE  /\ handler.req \in Request /\ handler.req.id = 0 /\ Names(handler.req)
                        /\ made.requests < MaxRequests
  BY DEF SwapInv, TypesOfRequests, Hand, Entries

LEMMA EntryIs == ASSUME SwapInv, NEW e \in entries
                 PROVE  /\ e.id \in 0..MaxEntries /\ e.user \in People
                        /\ e.position \in 0..Capacity /\ e.id <= made.entries
                        /\ \A f \in entries : f.id = e.id => f = e
  <1>1. e \in Entry /\ Seats /\ e.id <= made.entries
    BY DEF SwapInv, TypesOfQueue, Entries
  <1> QED BY <1>1, SwapAssumption DEF Entry, Positions, Seats

LEMMA AskInv == ASSUME SwapInv, NEW p \in People, NEW n \in Positions, Ask(p, n) PROVE SwapInv'
  <1> DEFINE req == [NoRequest EXCEPT !.requester = p, !.to = n]
  <1>0. n \in 0..Capacity
    BY SwapAssumption DEF Positions
  <1>1. /\ req \in Request /\ req.id = 0 /\ req.requesterEntry = 0 /\ req.targetEntry = 0
    BY <1>0, NoRequestIs DEF NoRequest, Request
  <1>2. Names(req)
    BY <1>1, NoRequestIs DEF Names, NoRequest, SwapInv, TypesOfQueue, Entry
  <1> QED BY <1>1, <1>2, EarlyInv DEF Ask, Early

LEMMA CheckOpenInv == ASSUME SwapInv, CheckOpen PROVE SwapInv'
  BY EarlyIs, EarlyInv DEF CheckOpen, Early

LEMMA ReadRequesterInv == ASSUME SwapInv, ReadRequester PROVE SwapInv'
  <1>1. PICK e \in SeatsOf(handler.req.requester) :
          Goes("readTarget", [handler.req EXCEPT !.from = e.position, !.requesterEntry = e.id])
    BY DEF ReadRequester
  <1> DEFINE req == [handler.req EXCEPT !.from = e.position, !.requesterEntry = e.id]
  <1>2. e \in entries /\ e.user = handler.req.requester
    BY DEF SeatsOf
  <1>3. /\ handler.req \in Request /\ handler.req.id = 0 /\ Names(handler.req)
        /\ made.requests < MaxRequests
    BY EarlyIs DEF ReadRequester, Early
  <1>4. /\ req \in Request /\ req.id = 0 /\ req.requester = handler.req.requester
        /\ req.target = handler.req.target
        /\ req.requesterEntry = e.id /\ req.targetEntry = handler.req.targetEntry
    BY <1>2, <1>3, EntryIs DEF Request
  <1>5. Names(req)
    BY <1>2, <1>3, <1>4, EntryIs DEF Names
  <1> QED BY <1>1, <1>3, <1>4, <1>5, EarlyInv DEF ReadRequester, Early

LEMMA ReadTargetInv == ASSUME SwapInv, ReadTarget PROVE SwapInv'
  <1>1. PICK e \in SeatsAt(handler.req.to) :
          Goes("readMessage", [handler.req EXCEPT !.target = e.user, !.targetEntry = e.id])
    BY DEF ReadTarget
  <1> DEFINE req == [handler.req EXCEPT !.target = e.user, !.targetEntry = e.id]
  <1>2. e \in entries
    BY DEF SeatsAt
  <1>3. /\ handler.req \in Request /\ handler.req.id = 0 /\ Names(handler.req)
        /\ made.requests < MaxRequests
    BY EarlyIs DEF ReadTarget, Early
  <1>4. /\ req \in Request /\ req.id = 0 /\ req.requester = handler.req.requester
        /\ req.target = e.user
        /\ req.requesterEntry = handler.req.requesterEntry /\ req.targetEntry = e.id
    BY <1>2, <1>3, EntryIs DEF Request
  <1>5. Names(req)
    BY <1>2, <1>3, <1>4, EntryIs DEF Names
  <1> QED BY <1>1, <1>3, <1>4, <1>5, EarlyInv DEF ReadTarget, Early

LEMMA ReadMessageInv == ASSUME SwapInv, ReadMessage PROVE SwapInv'
  <1> DEFINE req == [handler.req EXCEPT !.message = message, !.id = made.requests + 1]
  <1>1. /\ handler.req \in Request /\ Names(handler.req) /\ made.requests < MaxRequests
    BY EarlyIs DEF ReadMessage, Early
  <1>0. made.requests + 1 \in 0..MaxRequests /\ message \in 0..MaxMessages
    BY <1>1, IdsAre DEF SwapInv, TypesOfQueue
  <1>2. /\ req \in Request /\ req.id = made.requests + 1
        /\ req.requester = handler.req.requester /\ req.target = handler.req.target
        /\ req.requesterEntry = handler.req.requesterEntry
        /\ req.targetEntry = handler.req.targetEntry
    BY <1>0, <1>1 DEF Request
  <1>3. Names(req)
    BY <1>1, <1>2 DEF Names
  <1>4. /\ handler' = [step |-> "send", req |-> req] /\ OnlyHandler
        /\ handler' \in [step : Steps, req : Request]
    BY <1>2 DEF ReadMessage, Goes, Steps, Asking
  <1>5. Hand'
    BY <1>1, <1>2, <1>4 DEF Hand, Early, Posted, Results, OnlyHandler, queue
  <1> QED BY <1>2, <1>3, <1>4, <1>5, OnlyHandlerInv

LEMMA AskingEndsInv == ASSUME SwapInv, AskingEnds PROVE SwapInv'
  BY IdleInv DEF AskingEnds

(* SwapConfirm before its exchange.                                        *)
LEMMA CheckedInv ==
    ASSUME SwapInv, OnlyHandler, handler.step \in {"confirm", "confirmOpen"},
           NEW step \in {"confirmOpen", "swap", "notExchanged"}, Goes(step, handler.req)
    PROVE  SwapInv'
  <1>1. /\ handler' = [step |-> step, req |-> handler.req]
        /\ handler' \in [step : Steps, req : Request] /\ Names(handler'.req)
    BY DEF Goes, Steps, Results, SwapInv, TypesOfRequests, Entries
  <1>2. Hand'
    BY <1>1 DEF SwapInv, Hand, Early, Posted, Results, Asked, OnlyHandler, queue, requests, history
  <1> QED BY <1>1, <1>2, OnlyHandlerInv

LEMMA CheckExpiryInv == ASSUME SwapInv, CheckExpiry PROVE SwapInv'
  BY CheckedInv DEF CheckExpiry

LEMMA CheckStillOpenInv == ASSUME SwapInv, CheckStillOpen PROVE SwapInv'
  BY CheckedInv DEF CheckStillOpen

-----------------------------------------------------------------------------
(* The question, its message and its place in the map.                     *)

LEMMA FaultIs == ASSUME SwapInv, Fault \/ UNCHANGED faults PROVE faults' \in 0..MaxFaults
  BY SwapAssumption DEF SwapInv, TypesOfHistory, Fault

LEMMA SendInv == ASSUME SwapInv, Send PROVE SwapInv'
  <1> DEFINE req == handler.req
             r == made.requests + 1
  <1>1. /\ req \in Request /\ req.id = r /\ made.requests < MaxRequests /\ Names(req)
        /\ made.requests \in Nat /\ MaxRequests \in Nat /\ r \in Ids
    BY IdsAre DEF Send, SwapInv, TypesOfRequests, Hand, Entries, Ids
  <1>2. /\ made' = [made EXCEPT !.requests = r]
        /\ UNCHANGED <<entries, message, pending, expired, timers, expiring, leaving,
                       agreed, exchanges, restarted>>
        /\ faults' \in 0..MaxFaults
    BY FaultIs DEF Send, requests, history
  <1>3. \/ /\ chat' = [chat EXCEPT ![r] = [says |-> "asks", of |-> req]]
           /\ handler' = [step |-> "store", req |-> req] \/ handler' = Idle
        \/ chat' = chat /\ handler' = Idle
    BY <1>1 DEF Send, Goes
  <1>4. /\ made' \in [entries : 0..MaxEntries, messages : 0..MaxMessages, requests : 0..MaxRequests]
        /\ made'.requests = r /\ made'.entries = made.entries
    BY <1>1, <1>2 DEF SwapInv, TypesOfQueue
  <1>5. /\ exchanges[r] = 0 /\ chat[r].says = "nothing" /\ r \notin leaving
        /\ chat \in [Ids -> Shown]
    BY <1>1 DEF SwapInv, Told, TypesOfHistory
  <1>6. /\ chat' \in [Ids -> Shown] /\ \A s \in Ids : s # r => chat'[s] = chat[s]
        /\ chat'[r] = chat[r] \/ chat'[r] = [says |-> "asks", of |-> req]
        /\ handler' = [step |-> "store", req |-> req] =>
              chat'[r] = [says |-> "asks", of |-> req]
    BY <1>1, <1>3, <1>5 DEF Shown, Idle
  <1>7. /\ handler' = [step |-> "store", req |-> req]
           \/ handler' = [step |-> "idle", req |-> NoRequest]
        /\ handler' \in [step : Steps, req : Request]
        /\ handler'.req \in {req, NoRequest}
    BY <1>1, <1>3, NoRequestIs DEF Idle, Steps, Asking
  <1> HIDE DEF req, r
  <1>8. TypesOfQueue' /\ TypesOfRequests' /\ TypesOfHistory'
    BY <1>2, <1>4, <1>6, <1>7 DEF SwapInv, TypesOfQueue, TypesOfRequests, TypesOfHistory
  <1>9. \A q : Names(q) => Names(q)'
    BY <1>2, <1>4 DEF Names
  <1>10. Entries'
    <2>1. Seats' /\ (\A e \in entries' : e.id <= made'.entries)
      BY <1>2, <1>4 DEF SwapInv, Entries, Seats
    <2>2. Names(handler.req)'
      <3>1. Names(req) /\ Names(NoRequest)
        BY <1>1, NoRequestIs DEF SwapInv
      <3> QED BY <3>1, <1>7, <1>9
    <2>3. \A s \in Ids : Names(chat[s].of)'
      <3>1. \A s \in Ids : Names(chat'[s].of)
        BY <1>1, <1>6 DEF SwapInv, Entries
      <3> QED BY <3>1, <1>9
    <2> QED BY <2>1, <2>2, <2>3 DEF Entries
  <1>11. \A q \in pending \cup expiring :
            /\ q.id \in Ids /\ q.id # r /\ q.id <= made'.requests /\ Untouched(q)
    BY <1>1, <1>4 DEF SwapInv, Waiting, Untouched, Asked, r, Ids
  <1>12. Waiting'
    BY <1>2, <1>6, <1>11 DEF SwapInv, Waiting, Untouched, Asked
  <1>13. Hand'
    <2>1. CASE handler' = [step |-> "store", req |-> req]
      <3>1. Asked(handler.req)'
        <4>1. handler'.req = req /\ r \in Nat /\ r \in Ids
          BY <1>1, <2>1 DEF Ids
        <4>2. chat'[r].of = req /\ chat'[r].says = "asks"
          BY <1>6, <2>1
        <4> QED BY <4>1, <4>2, <1>1, <1>2, <1>4, <1>5 DEF Asked
      <3>2. req \notin pending \cup expiring
        BY <1>1, <1>11
      <3> QED BY <2>1, <3>1, <3>2, <1>1, <1>2, <1>5 DEF Hand, Early, Posted, Results
    <2>2. CASE handler' = [step |-> "idle", req |-> NoRequest]
      BY <2>2 DEF Hand, Early, Posted, Results
    <2> QED BY <1>7, <2>1, <2>2
  <1>14. Told'
    <2>1. \A s \in Ids : s > r => s > made.requests /\ s # r
      BY <1>1 DEF r, Ids
    <2> QED BY <2>1, <1>1, <1>2, <1>4, <1>5, <1>6 DEF SwapInv, Told
  <1> QED BY <1>8, <1>10, <1>12, <1>13, <1>14 DEF SwapInv

(* The request changes hands; the messages and the queue stay.             *)
LEMMA HandsInv ==
    ASSUME SwapInv, UNCHANGED <<queue, chat, leaving, exchanges, restarted, faults>>,
           agreed \subseteq agreed', TypesOfRequests', agreed' \in SUBSET (Ids \X People),
           pending' \cup expiring' \subseteq pending \cup expiring \cup {handler.req},
           handler.step \in Posted \/ pending' \cup expiring' \subseteq pending \cup expiring,
           handler.step \in Posted \ {"exchanged", "error"}
              \/ handler.req \notin pending' \cup expiring',
           pending' \cap expiring' = {}, Names(handler'.req), Hand'
    PROVE  SwapInv'
  <1>0. UNCHANGED <<entries, message, made, chat, leaving, exchanges, restarted, faults>>
    BY DEF queue
  <1>1. TypesOfQueue' /\ TypesOfHistory'
    BY <1>0 DEF SwapInv, TypesOfQueue, TypesOfHistory
  <1>2. Entries'
    BY <1>0 DEF SwapInv, Entries, Names, Seats
  <1>3. \A q \in pending' \cup expiring' : Untouched(q)
    <2>1. handler.step \in Posted \ {"exchanged", "error"} => Untouched(handler.req)
      BY DEF SwapInv, Hand, Untouched
    <2> QED BY <2>1 DEF SwapInv, Waiting
  <1>4. Waiting' /\ Told'
    BY <1>0, <1>3 DEF SwapInv, Waiting, Untouched, Asked, Told
  <1> QED BY <1>1, <1>2, <1>4 DEF SwapInv

LEMMA IdleHand == ASSUME handler' = Idle PROVE Hand'
  <1>1. handler' = [step |-> "idle", req |-> NoRequest]
    BY DEF Idle
  <1> QED BY <1>1 DEF Hand, Early, Posted, Results

LEMMA IdleTypes == ASSUME SwapInv, handler' = Idle
                   PROVE  handler' \in [step : Steps, req : Request] /\ Names(handler'.req)
  <1>1. handler' = [step |-> "idle", req |-> NoRequest]
    BY DEF Idle
  <1> QED BY <1>1, NoRequestIs DEF Steps, SwapInv

LEMMA StoreInv == ASSUME SwapInv, Store PROVE SwapInv'
  <1>1. /\ handler.step = "store" /\ handler.step \in Posted /\ handler.req \in Request
        /\ handler.req.id \in Ids /\ handler.req \notin pending \cup expiring
    BY DEF Store, SwapInv, Hand, Posted, Asked, TypesOfRequests
  <1>2. TypesOfRequests'
    BY <1>1, IdleTypes DEF Store, SwapInv, TypesOfRequests
  <1>3. pending' \cap expiring' = {}
    BY <1>1 DEF Store, SwapInv, Waiting
  <1>4. agreed' \in SUBSET (Ids \X People) /\ agreed \subseteq agreed'
    BY DEF Store, history, SwapInv, TypesOfHistory
  <1> QED BY <1>1, <1>2, <1>3, <1>4, HandsInv, IdleHand, IdleTypes DEF Store, history

LEMMA PressInv ==
    ASSUME SwapInv, NEW p \in People, NEW r \in Ids, NEW step \in {"confirm", "notExchanged"},
           Press(p, r, step)
    PROVE  SwapInv'
  <1>1. PICK q \in Claimable(r, p) : pending' = Remaining(q) /\ Goes(step, q)
    BY DEF Press
  <1>2. q \in pending /\ q.id = r /\ q.target = p /\ q \in Request /\ q \notin expiring /\ Untouched(q)
    BY DEF Claimable, SwapInv, TypesOfRequests, Waiting
  <1>3. handler' = [step |-> step, req |-> q] /\ pending' = pending \ {q} /\ expiring' = expiring
    BY <1>1 DEF Goes, Remaining, Press
  <1>4. TypesOfRequests'
    BY <1>2, <1>3 DEF Press, SwapInv, TypesOfRequests, Steps, Results
  <1>5. /\ agreed' \in SUBSET (Ids \X People) /\ agreed \subseteq agreed'
        /\ step = "confirm" => <<q.id, q.target>> \in agreed'
    BY <1>2 DEF Press, SwapInv, TypesOfHistory
  <1>6. Names(q)
    BY <1>2 DEF SwapInv, Entries, Untouched, Asked
  <1>7. handler.req = NoRequest /\ handler.req \notin pending \cup expiring
    <2>1. handler.req = NoRequest
      BY DEF Press, Idle
    <2>2. \A s \in pending \cup expiring : s.id # 0
      BY DEF SwapInv, Waiting, Untouched, Asked, Ids
    <2> QED BY <2>1, <2>2, NoRequestIs
  <1>8. Hand'
    <2>1. Asked(q)' /\ exchanges'[q.id] = 0 /\ q \notin pending' \cup expiring'
      BY <1>2, <1>3 DEF Press, Untouched, Asked, queue
    <2> QED BY <1>3, <1>5, <2>1 DEF Hand, Early, Posted, Results
  <1> QED BY <1>3, <1>4, <1>5, <1>6, <1>7, <1>8, HandsInv DEF Press, SwapInv, Waiting

-----------------------------------------------------------------------------
(* The exchange.                                                           *)

ExchangedSet(a, b) == (entries \ {a, b}) \cup {[a EXCEPT !.position = b.position],
                                                [b EXCEPT !.position = a.position]}

LEMMA ExchangedIs ==
    ASSUME SwapInv, NEW q, q.id \in Ids, exchanges[q.id] = 0, Exchanged(q)
    PROVE  /\ \E a, b \in entries :
                 /\ a.id = q.requesterEntry /\ a.position = q.from
                 /\ b.id = q.targetEntry /\ b.position = q.to
                 /\ entries' = ExchangedSet(a, b)
           /\ exchanges' \in [Ids -> 0..1] /\ exchanges'[q.id] = 1
           /\ \A r \in Ids : r # q.id => exchanges'[r] = exchanges[r]
  <1>1. PICK pair \in Exchange(q) :
          /\ entries' = ExchangedSet(pair[1], pair[2])
          /\ exchanges' = [exchanges EXCEPT ![q.id] = @ + 1]
    BY DEF Exchanged, ExchangedSet
  <1>2. /\ pair[1] \in entries /\ pair[2] \in entries
        /\ pair[1].id = q.requesterEntry /\ pair[1].position = q.from
        /\ pair[2].id = q.targetEntry /\ pair[2].position = q.to
    BY DEF Exchange
  <1>3. exchanges \in [Ids -> 0..1]
    BY DEF SwapInv, TypesOfHistory
  <1>4. exchanges' = [exchanges EXCEPT ![q.id] = 1]
    BY <1>1, <1>3
  <1>5. /\ exchanges' \in [Ids -> 0..1] /\ exchanges'[q.id] = 1
        /\ \A r \in Ids : r # q.id => exchanges'[r] = exchanges[r]
    BY <1>3, <1>4
  <1> QED BY <1>1, <1>2, <1>5

(* An exchange changes nothing but two places.                             *)
LEMMA ExchangedEntries ==
    ASSUME SwapInv, NEW a \in entries, NEW b \in entries, entries' = ExchangedSet(a, b)
    PROVE  /\ entries' \subseteq Entry /\ Seats'
           /\ \A e \in entries' : \E f \in entries : f.id = e.id /\ f.user = e.user
           /\ \A e \in entries, f \in entries' : e.user = f.user /\ e.position # f.position =>
                 \/ e = a /\ f.position = b.position
                 \/ e = b /\ f.position = a.position
  <1> DEFINE a2 == [a EXCEPT !.position = b.position]
             b2 == [b EXCEPT !.position = a.position]
  <1>1. entries \subseteq Entry /\ Seats
    BY DEF SwapInv, TypesOfQueue, Entries
  <1>2. /\ a2 \in Entry /\ a2.id = a.id /\ a2.user = a.user /\ a2.position = b.position
        /\ b2 \in Entry /\ b2.id = b.id /\ b2.user = b.user /\ b2.position = a.position
        /\ a = b => a2 = a /\ b2 = b
    BY <1>1 DEF Entry
  <1>3. entries' = (entries \ {a, b}) \cup {a2, b2}
    BY DEF ExchangedSet
  <1> HIDE DEF a2, b2
  <1>4. entries' \subseteq Entry
    BY <1>1, <1>2, <1>3
  <1>5. Seats'
    BY <1>1, <1>2, <1>3 DEF Seats
  <1>6. \A e \in entries' : \E f \in entries : f.id = e.id /\ f.user = e.user
    BY <1>2, <1>3
  <1>7. ASSUME NEW e \in entries, NEW f \in entries', e.user = f.user, e.position # f.position
        PROVE  (e = a /\ f.position = b.position) \/ (e = b /\ f.position = a.position)
    <2>1. CASE f \in entries
      BY <1>1, <1>7, <2>1 DEF Seats
    <2>2. CASE f = a2
      BY <1>1, <1>2, <1>7, <2>2 DEF Seats
    <2>3. CASE f = b2
      BY <1>1, <1>2, <1>7, <2>3 DEF Seats
    <2> QED BY <1>3, <2>1, <2>2, <2>3
  <1> QED BY <1>4, <1>5, <1>6, <1>7

(* Who has an identifier now had it before.                                *)
LEMMA EntriesKept ==
    ASSUME SwapInv, made'.entries = made.entries, Seats', Names(handler'.req),
           \A r \in Ids : chat'[r].of = chat[r].of,
           \A e \in entries' : \E f \in entries : f.id = e.id /\ f.user = e.user
    PROVE  Entries'
  <1>1. ASSUME NEW q, Names(q) PROVE Names(q)'
    BY <1>1 DEF Names
  <1>2. Names(handler.req)'
    BY DEF Names
  <1>3. \A r \in Ids : Names(chat[r].of)'
    <2>1. \A r \in Ids : Names(chat'[r].of)
      BY DEF SwapInv, Entries
    <2> QED BY <1>1, <2>1
  <1>4. \A e \in entries' : e.id <= made'.entries
    BY DEF SwapInv, Entries
  <1> QED BY <1>2, <1>3, <1>4 DEF Entries

(* What the three outcomes of Service.Swap leave.                          *)
LEMMA SwapIs ==
    ASSUME SwapInv, Swap
    PROVE  /\ handler.step = "swap" /\ Untouched(handler.req)
           /\ <<handler.req.id, handler.req.target>> \in agreed
           /\ \/ UNCHANGED <<entries, exchanges>> /\ handler' \in
                     {[step |-> s, req |-> handler.req] : s \in {"notExchanged", "error"}}
              \/ /\ CanSwap(handler.req) /\ Exchanged(handler.req)
                 /\ handler' \in {[step |-> s, req |-> handler.req] : s \in {"exchanged", "error"}}
           /\ faults' \in 0..MaxFaults
  <1>1. handler.step = "swap" /\ Untouched(handler.req)
    BY DEF Swap, SwapInv, Hand, Posted, Untouched
  <1> QED BY <1>1, FaultIs DEF Swap, Goes, ToldAfterError, SwapInv, Hand

LEMMA SwapKeeps == ASSUME SwapInv, Swap PROVE SwapInv'
  <1> DEFINE q == handler.req
  <1>1. /\ UNCHANGED <<message, made, pending, expired, timers, expiring, chat, leaving, agreed,
                       restarted>>
        /\ handler' \in {[step |-> s, req |-> q] : s \in Results} /\ handler'.req = q
        /\ handler' \in [step : Steps, req : Request] /\ q \in Request
    BY SwapIs DEF Swap, requests, Results, Steps, SwapInv, TypesOfRequests
  <1>2. Untouched(q) /\ q.id \in Ids /\ exchanges[q.id] = 0 /\ q \notin pending \cup expiring
    BY SwapIs DEF Untouched, Asked, SwapInv, Hand, Posted
  <1>3. /\ entries' \subseteq Entry /\ Seats'
        /\ \A e \in entries' : \E f \in entries : f.id = e.id /\ f.user = e.user
    <2>1. CASE UNCHANGED entries
      BY <2>1 DEF SwapInv, TypesOfQueue, Entries, Seats
    <2>2. CASE Exchanged(q)
      BY <1>2, <2>2, ExchangedIs, ExchangedEntries
    <2> QED BY <2>1, <2>2, SwapIs
  <1>4. /\ exchanges' \in [Ids -> 0..1]
        /\ \A r \in Ids : r # q.id => exchanges'[r] = exchanges[r]
        /\ handler'.step = "notExchanged" => exchanges'[q.id] = 0
        /\ handler'.step = "exchanged" => exchanges'[q.id] = 1
    <2>1. CASE UNCHANGED exchanges /\ handler' \in
                 {[step |-> s, req |-> q] : s \in {"notExchanged", "error"}}
      BY <1>2, <2>1 DEF SwapInv, TypesOfHistory
    <2>2. CASE Exchanged(q) /\ handler' \in
                 {[step |-> s, req |-> q] : s \in {"exchanged", "error"}}
      BY <1>2, <2>2, ExchangedIs
    <2> QED BY <2>1, <2>2, SwapIs
  <1>5. TypesOfQueue' /\ TypesOfRequests' /\ TypesOfHistory'
    BY <1>1, <1>3, <1>4, SwapIs DEF SwapInv, TypesOfQueue, TypesOfRequests, TypesOfHistory
  <1>6. Entries'
    <2>1. Names(handler'.req)
      BY <1>1 DEF SwapInv, Entries
    <2> QED BY <1>1, <1>3, <2>1, EntriesKept
  <1>7. \A s \in pending \cup expiring : s.id # q.id /\ s.id \in Ids /\ Untouched(s)
    BY <1>2 DEF SwapInv, Waiting, Untouched, Asked
  <1>8. Waiting'
    <2>1. \A s \in pending' \cup expiring' : Untouched(s)'
      BY <1>1, <1>4, <1>7 DEF Untouched, Asked
    <2> QED BY <1>1, <2>1 DEF SwapInv, Waiting
  <1>9. Hand'
    <2>1. Asked(handler.req)'
      BY <1>1, <1>2 DEF Untouched, Asked
    <2>2. handler'.step \in Results
      BY <1>1
    <2>3. handler'.req \notin pending' \cup expiring'
      BY <1>1, <1>2
    <2> QED BY <1>1, <1>4, <2>1, <2>2, <2>3 DEF Hand, Results, Early, Posted
  <1>10. Told'
    <2>1. ASSUME NEW r \in Ids, r = q.id
          PROVE  chat[r].says = "asks" /\ ~(r > made.requests)
      BY <1>2, <2>1, IdsAre DEF Untouched, Asked, Ids, SwapInv
    <2> QED BY <1>1, <1>4, <2>1 DEF SwapInv, Told
  <1> QED BY <1>5, <1>6, <1>8, <1>9, <1>10 DEF SwapInv

-----------------------------------------------------------------------------
(* The result, the timers.                                                 *)

(* The hands that are left hold other requests.                            *)
LEMMA FinishInv ==
    ASSUME SwapInv, NEW q, NEW says \in Results, Asked(q), Finish(q, says),
           says = "exchanged" => exchanges[q.id] = 1, says = "notExchanged" => exchanges[q.id] = 0,
           UNCHANGED <<queue, history, pending>>, expiring' \subseteq expiring,
           q \notin pending' \cup expiring', TypesOfRequests',
           handler' = Idle \/ (handler' = handler /\ handler.req.id # q.id)
    PROVE  SwapInv'
  <1>0. /\ UNCHANGED <<entries, message, made, agreed, exchanges, restarted, pending>>
        /\ leaving' = leaving \cup {q.id} /\ faults' \in 0..MaxFaults
        /\ chat' = [chat EXCEPT ![q.id].says = says] \/ chat' = chat
    BY FaultIs DEF queue, history, Finish
  <1>1. /\ chat \in [Ids -> Shown] /\ q.id \in Ids /\ ~(q.id > made.requests)
        /\ chat[q.id].of = q /\ q.id <= made.requests /\ made.requests \in Nat
    BY IdsAre DEF SwapInv, TypesOfHistory, Asked, Ids
  <1>2. /\ chat' \in [Ids -> Shown]
        /\ \A r \in Ids : chat'[r].of = chat[r].of /\ (r # q.id => chat'[r] = chat[r])
        /\ chat'[q.id].says \in {chat[q.id].says, says}
    <2>1. CASE chat' = chat
      BY <1>1, <2>1
    <2>2. CASE chat' = [chat EXCEPT ![q.id].says = says]
      BY <1>1, <2>2 DEF Shown, Results
    <2> QED BY <1>0, <2>1, <2>2
  <1>3. TypesOfQueue' /\ TypesOfHistory'
    BY <1>0, <1>2 DEF SwapInv, TypesOfQueue, TypesOfHistory
  <1>4. Entries'
    <2>1. Seats' /\ Names(handler'.req)
      BY <1>0, NoRequestIs DEF SwapInv, Entries, Seats, Idle
    <2> QED BY <1>0, <1>2, <2>1, EntriesKept
  <1>5. Waiting'
    <2>1. ASSUME NEW s \in pending' \cup expiring' PROVE Untouched(s)'
      <3>1. Untouched(s) /\ s # q
        BY <1>0 DEF SwapInv, Waiting
      <3>2. s.id # q.id
        BY <1>1, <3>1 DEF Untouched, Asked
      <3> QED BY <1>0, <1>2, <3>1, <3>2 DEF Untouched, Asked
    <2> QED BY <1>0, <2>1 DEF SwapInv, Waiting
  <1>6. Hand'
    <2>1. CASE handler' = Idle
      BY <2>1, IdleHand
    <2>2. CASE handler' = handler /\ handler.req.id # q.id
      BY <1>0, <1>2, <2>2 DEF SwapInv, Hand, Asked
    <2> QED BY <2>1, <2>2
  <1>7. Told'
    <2>1. \A r \in Ids : r # q.id => chat'[r] = chat[r]
      BY <1>2
    <2>2. chat'[q.id].says = "exchanged" => exchanges[q.id] = 1
      BY <1>1, <1>2 DEF SwapInv, Told
    <2>3. chat'[q.id].says = "notExchanged" => exchanges[q.id] = 0
      BY <1>1, <1>2 DEF SwapInv, Told
    <2> QED BY <1>0, <1>1, <2>1, <2>2, <2>3 DEF SwapInv, Told
  <1> QED BY <1>3, <1>4, <1>5, <1>6, <1>7 DEF SwapInv

LEMMA FinishPressInv == ASSUME SwapInv, FinishPress PROVE SwapInv'
  <1>1. /\ handler.step \in Results /\ Asked(handler.req) /\ handler' = Idle
        /\ Finish(handler.req, handler.step) /\ handler.req \notin pending \cup expiring
        /\ handler.step = "exchanged" => exchanges[handler.req.id] = 1
        /\ handler.step = "notExchanged" => exchanges[handler.req.id] = 0
        /\ UNCHANGED <<queue, history, pending, expired, timers, expiring>>
    BY DEF FinishPress, SwapInv, Hand, Posted, Results, requests
  <1>2. TypesOfRequests'
    BY <1>1, IdleTypes DEF SwapInv, TypesOfRequests, Finish, Asked
  <1> QED BY <1>1, <1>2, FinishInv

(* Whoever waits in the map or with its timer is not with the handler.     *)
LEMMA WaitsElsewhere == ASSUME SwapInv, NEW q \in pending \cup expiring
                        PROVE  handler.req.id # q.id
  <1>1. Asked(q) /\ q.id \in Nat /\ q.id # 0 /\ made.requests \in Nat
    BY IdsAre DEF SwapInv, Waiting, Untouched, Asked, Ids
  <1>2. CASE handler.step \in Posted
    BY <1>1, <1>2 DEF SwapInv, Hand, Asked
  <1>3. CASE handler.step = "send"
    <2>1. q.id <= made.requests
      BY <1>1 DEF Asked
    <2> QED BY <1>1, <1>3, <2>1 DEF SwapInv, Hand
  <1>4. CASE handler.step \in Early
    BY <1>1, <1>4 DEF SwapInv, Hand
  <1>5. CASE handler.step = "idle"
    BY <1>1, <1>5, NoRequestIs DEF SwapInv, Hand
  <1>6. handler.step \in Posted \cup Early \cup {"send", "idle"}
    BY DEF SwapInv, TypesOfRequests, Steps, Asking, Posted, Early
  <1> QED BY <1>2, <1>3, <1>4, <1>5, <1>6

LEMMA FinishExpiredInv == ASSUME SwapInv, NEW q \in expiring, FinishExpired(q) PROVE SwapInv'
  <1>1. /\ Untouched(q) /\ q \notin pending /\ handler.req.id # q.id /\ q.id \in Ids
        /\ expiring' = expiring \ {q} /\ Finish(q, "notExchanged")
        /\ UNCHANGED <<queue, handler, pending, expired, timers, history>>
    BY WaitsElsewhere DEF FinishExpired, SwapInv, Waiting, Untouched, Asked
  <1>2. TypesOfRequests'
    BY <1>1 DEF SwapInv, TypesOfRequests, Finish
  <1> QED BY <1>1, <1>2, FinishInv DEF Untouched, Results

LEMMA DeleteResultInv == ASSUME SwapInv, NEW r \in Ids, DeleteResult(r) PROVE SwapInv'
  <1>0. /\ UNCHANGED <<entries, message, made, handler, pending, expired, timers, expiring,
                       agreed, exchanges, restarted>>
        /\ r \in leaving /\ leaving' = leaving \ {r} /\ faults' \in 0..MaxFaults
        /\ chat' = [chat EXCEPT ![r].says = "nothing"] \/ chat' = chat
    BY FaultIs DEF DeleteResult, queue, requests, history
  <1>1. /\ chat' \in [Ids -> Shown]
        /\ \A s \in Ids : chat'[s].of = chat[s].of /\ (s # r => chat'[s] = chat[s])
        /\ chat'[r].says \in {chat[r].says, "nothing"}
    <2>1. chat \in [Ids -> Shown]
      BY DEF SwapInv, TypesOfHistory
    <2>2. CASE chat' = chat
      BY <2>1, <2>2
    <2>3. CASE chat' = [chat EXCEPT ![r].says = "nothing"]
      BY <2>1, <2>3 DEF Shown
    <2> QED BY <1>0, <2>2, <2>3
  <1>2. TypesOfQueue' /\ TypesOfRequests' /\ TypesOfHistory'
    BY <1>0, <1>1 DEF SwapInv, TypesOfQueue, TypesOfRequests, TypesOfHistory
  <1>3. Entries'
    <2>1. Seats' /\ Names(handler'.req)
      BY <1>0 DEF SwapInv, Entries, Seats
    <2> QED BY <1>0, <1>1, <2>1, EntriesKept
  <1>4. \A q : Asked(q) => Asked(q)'
    BY <1>0, <1>1 DEF Asked
  <1>5. Waiting'
    BY <1>0, <1>4 DEF SwapInv, Waiting, Untouched
  <1>6. Hand'
    <2>1. handler.step \in Posted => Asked(handler.req)'
      BY <1>0, <1>1 DEF SwapInv, Hand, Asked
    <2> QED BY <1>0, <2>1 DEF SwapInv, Hand
  <1>7. Told'
    BY <1>0, <1>1 DEF SwapInv, Told
  <1> QED BY <1>2, <1>3, <1>5, <1>6, <1>7 DEF SwapInv

(* The hand is not moved by what happens to others.                        *)
LEMMA HandStays ==
    ASSUME SwapInv, UNCHANGED <<queue, chat, leaving, exchanges, agreed, handler>>,
           pending' \cup expiring' \subseteq pending \cup expiring
    PROVE  Hand' /\ Names(handler'.req)
  BY DEF SwapInv, Hand, Asked, queue, Entries

LEMMA TwoMinutesPassInv == ASSUME SwapInv, NEW r \in Ids, TwoMinutesPass(r) PROVE SwapInv'
  <1>1. TypesOfRequests' /\ agreed' \in SUBSET (Ids \X People)
    BY DEF TwoMinutesPass, SwapInv, TypesOfRequests, TypesOfHistory, history
  <1>2. /\ UNCHANGED <<queue, chat, leaving, exchanges, restarted, faults, agreed, handler,
                       pending, expiring>>
    BY DEF TwoMinutesPass, history
  <1>3. pending' \cap expiring' = {} /\ \A q \in pending' \cup expiring' : q # handler.req
    BY <1>2, WaitsElsewhere DEF SwapInv, Waiting
  <1>4. Hand' /\ Names(handler'.req)
    BY <1>2, HandStays
  <1> QED BY <1>1, <1>2, <1>3, <1>4, HandsInv

LEMMA ExpireInv == ASSUME SwapInv, NEW r \in Ids, Expire(r) PROVE SwapInv'
  <1>1. TypesOfRequests' /\ agreed' \in SUBSET (Ids \X People)
    BY DEF Expire, TimedOut, SwapInv, TypesOfRequests, TypesOfHistory, history
  <1>2. /\ pending' \cup expiring' \subseteq pending \cup expiring
        /\ pending' \cap expiring' = {}
    BY DEF Expire, TimedOut, SwapInv, Waiting
  <1>3. handler.step \in Posted => handler.req \notin pending' \cup expiring'
    BY <1>2 DEF SwapInv, Hand
  <1>4. /\ UNCHANGED <<queue, chat, leaving, exchanges, restarted, faults, agreed, handler>>
        /\ agreed \subseteq agreed'
    BY DEF Expire, history
  <1>5. Hand' /\ Names(handler'.req)
    BY <1>2, <1>4, HandStays
  <1>6. \A q \in pending' \cup expiring' : q # handler.req
    BY <1>2, WaitsElsewhere
  <1> QED BY <1>1, <1>2, <1>3, <1>4, <1>5, <1>6, HandsInv

-----------------------------------------------------------------------------
(* The queue and the process.                                              *)

LEMMA QueueInv == ASSUME SwapInv, Elsewhere, TypesOfQueue', Entries', made'.requests = made.requests
                  PROVE  SwapInv'
  <1>1. UNCHANGED <<handler, pending, expired, timers, expiring, chat, leaving, agreed, exchanges,
                    restarted, faults>>
    BY DEF Elsewhere, requests, history
  <1>2. TypesOfRequests' /\ TypesOfHistory'
    BY <1>1 DEF SwapInv, TypesOfRequests, TypesOfHistory
  <1>3. Waiting' /\ Told' /\ Hand'
    BY <1>1 DEF SwapInv, Waiting, Untouched, Asked, Told, Hand
  <1> QED BY <1>2, <1>3 DEF SwapInv

(* Nobody is added.                                                        *)
LEMMA FewerInv ==
    ASSUME SwapInv, Elsewhere, TypesOfQueue', entries' \subseteq entries,
           made'.entries = made.entries, made'.requests = made.requests
    PROVE  SwapInv'
  <1>1. Seats' /\ Names(handler'.req)
    BY DEF SwapInv, Entries, Seats, Elsewhere
  <1>2. Entries'
    BY <1>1, EntriesKept DEF Elsewhere
  <1> QED BY <1>2, QueueInv

LEMMA RemoveInv == ASSUME SwapInv, NEW e \in entries, Remove(e) PROVE SwapInv'
  <1>1. TypesOfQueue'
    BY DEF Remove, SwapInv, TypesOfQueue
  <1> QED BY <1>1, FewerInv DEF Remove

LEMMA CloseInv == ASSUME SwapInv, Close PROVE SwapInv'
  <1>1. TypesOfQueue'
    BY IdsAre DEF Close, SwapInv, TypesOfQueue
  <1> QED BY <1>1, FewerInv DEF Close

LEMMA SetQueueMessageIDInv == ASSUME SwapInv, SetQueueMessageID PROVE SwapInv'
  <1>1. /\ made.messages + 1 \in 0..MaxMessages
        /\ made \in [entries : 0..MaxEntries, messages : 0..MaxMessages, requests : 0..MaxRequests]
    BY IdsAre DEF SetQueueMessageID, SwapInv, TypesOfQueue
  <1>2. /\ TypesOfQueue'
        /\ made'.entries = made.entries /\ made'.requests = made.requests
    BY <1>1 DEF SetQueueMessageID, SwapInv, TypesOfQueue
  <1> QED BY <1>2, FewerInv DEF SetQueueMessageID

LEMMA JoinInv == ASSUME SwapInv, NEW p \in People, NEW n \in Positions, Join(p, n) PROVE SwapInv'
  <1> DEFINE new == [id |-> made.entries + 1, user |-> p, position |-> n]
  <1>1. /\ made.entries \in Nat /\ made.entries + 1 \in 1..MaxEntries
        /\ made \in [entries : 0..MaxEntries, messages : 0..MaxMessages, requests : 0..MaxRequests]
    BY IdsAre DEF Join, SwapInv, TypesOfQueue
  <1>2. new \in Entry /\ new.id = made.entries + 1 /\ new.user = p /\ new.position = n
    BY <1>1 DEF Entry
  <1>3. entries' = entries \cup {new} /\ UNCHANGED <<message, handler, chat>> /\ Elsewhere
    BY DEF Join, Elsewhere
  <1> HIDE DEF new
  <1>4. made' = [made EXCEPT !.entries = @ + 1]
    BY DEF Join
  <1>5. /\ made' \in [entries : 0..MaxEntries, messages : 0..MaxMessages, requests : 0..MaxRequests]
        /\ made'.entries = made.entries + 1 /\ made'.requests = made.requests
    BY <1>1, <1>4
  <1>6. TypesOfQueue'
    BY <1>2, <1>3, <1>5 DEF SwapInv, TypesOfQueue
  <1>7. \A e \in entries : /\ e.id \in Nat /\ e.id <= made.entries /\ e.id # new.id
                           /\ e.user # p /\ e.position # n
    BY <1>1, <1>2, EntryIs, IdsAre DEF Join, SeatsOf, SeatsAt, SwapInv
  <1>8. Seats'
    BY <1>2, <1>3, <1>7 DEF SwapInv, Entries, Seats
  <1>9. \A e \in entries' : e.id <= made'.entries
    BY <1>1, <1>2, <1>3, <1>5, <1>7
  <1>10. ASSUME NEW q \in Request, Names(q) PROVE Names(q)'
    <2>1. q.requesterEntry \in Nat /\ q.targetEntry \in Nat
      BY IdsAre DEF Request, SwapInv
    <2>2. q.requesterEntry # new.id /\ q.targetEntry # new.id
      BY <1>1, <1>2, <1>10, <2>1 DEF Names
    <2> QED BY <1>1, <1>3, <1>5, <1>10, <2>1, <2>2 DEF Names
  <1>11. Names(handler.req)'
    <2>1. handler.req \in Request /\ Names(handler.req)
      BY DEF SwapInv, TypesOfRequests, Entries
    <2> QED BY <1>3, <1>10, <2>1
  <1>12. \A r \in Ids : Names(chat[r].of)'
    <2>1. \A r \in Ids : chat[r].of \in Request /\ Names(chat[r].of)
      BY DEF SwapInv, TypesOfHistory, Shown, Entries
    <2> QED BY <1>3, <1>10, <2>1
  <1> QED BY <1>3, <1>5, <1>6, <1>8, <1>9, <1>11, <1>12, QueueInv DEF Entries

LEMMA CrashInv == ASSUME SwapInv, Crash PROVE SwapInv'
  <1>1. /\ UNCHANGED <<entries, message, made, expired, chat, agreed, exchanges>>
        /\ handler' = Idle /\ pending' = {} /\ timers' = {} /\ expiring' = {} /\ leaving' = {}
        /\ restarted' = TRUE /\ faults' \in 0..MaxFaults
    BY FaultIs DEF Crash, queue
  <1>2. handler' \in [step : Steps, req : Request] /\ Names(handler'.req) /\ Hand'
    BY <1>1, IdleTypes, IdleHand
  <1>3. TypesOfQueue' /\ TypesOfRequests' /\ TypesOfHistory'
    BY <1>1, <1>2 DEF SwapInv, TypesOfQueue, TypesOfRequests, TypesOfHistory
  <1>4. Entries'
    <2>1. Seats'
      BY <1>1 DEF SwapInv, Entries, Seats
    <2> QED BY <1>1, <1>2, <2>1, EntriesKept
  <1>5. Waiting' /\ Told'
    BY <1>1 DEF SwapInv, Waiting, Told
  <1> QED BY <1>2, <1>3, <1>4, <1>5 DEF SwapInv

-----------------------------------------------------------------------------
(* The theorems.                                                           *)

LEMMA SwapInitially == Init => SwapInv
  <1> SUFFICES ASSUME Init PROVE SwapInv
    OBVIOUS
  <1>1. handler = [step |-> "idle", req |-> NoRequest] /\ NoRequest \in Request
    BY NoRequestIs DEF Init, Idle
  <1>2. TypesOfQueue
    BY SwapAssumption DEF Init, TypesOfQueue
  <1>3. TypesOfRequests
    BY <1>1 DEF Init, TypesOfRequests, Steps
  <1>4. TypesOfHistory
    <2>1. [says |-> "nothing", of |-> NoRequest] \in Shown
      BY <1>1 DEF Shown
    <2>2. chat \in [Ids -> Shown] /\ exchanges \in [Ids -> 0..1]
      BY <2>1 DEF Init
    <2>3. MaxFaults \in 0..MaxFaults
      BY SwapAssumption
    <2> QED BY <2>2, <2>3 DEF Init, TypesOfHistory
  <1>5. Entries
    <2>1. Names(NoRequest)
      BY <1>2, NoRequestIs
    <2> QED BY <1>1, <2>1 DEF Init, Entries, Seats
  <1>6. Hand
    BY <1>1 DEF Hand, Early, Posted, Results
  <1>7. Waiting /\ Told
    BY DEF Init, Waiting, Told
  <1> QED BY <1>2, <1>3, <1>4, <1>5, <1>6, <1>7 DEF SwapInv

LEMMA SwapInvStep == SwapInv /\ [Next]_vars => SwapInv'
  <1> SUFFICES ASSUME SwapInv, [Next]_vars PROVE SwapInv'
    OBVIOUS
  <1>1. CASE HandlerStep
    BY <1>1, CheckOpenInv, ReadRequesterInv, ReadTargetInv, ReadMessageInv, AskingEndsInv, SendInv,
       StoreInv, CheckExpiryInv, CheckStillOpenInv, SwapKeeps, FinishPressInv
    DEF HandlerStep, AskingStep
  <1>2. CASE TimerStep
    BY <1>2, ExpireInv, DeleteResultInv, FinishExpiredInv DEF TimerStep
  <1>3. CASE Users
    BY <1>3, AskInv, JoinInv, PressInv DEF Users, Confirm, Reject
  <1>4. CASE World
    BY <1>4, TwoMinutesPassInv, RemoveInv, SetQueueMessageIDInv, CloseInv, CrashInv DEF World
  <1>5. CASE UNCHANGED vars
    <2>1. OnlyHandler /\ handler' = handler
      BY <1>5 DEF vars, OnlyHandler
    <2>2. handler' \in [step : Steps, req : Request] /\ Names(handler'.req)
      BY <2>1 DEF SwapInv, TypesOfRequests, Entries
    <2>3. Hand'
      BY <1>5, HandStays DEF vars, requests, history
    <2> QED BY <2>1, <2>2, <2>3, OnlyHandlerInv
  <1> QED BY <1>1, <1>2, <1>3, <1>4, <1>5 DEF Next

(* The invariant holds of every behaviour of swap_handlers.go.             *)
THEOREM SwapInvariant == Spec => []SwapInv
  BY SwapInitially, SwapInvStep, PTL DEF Spec

(* The press of the target and the end of the two minutes cannot both act  *)
(* on a request (claimSwapRequest and expireSwapRequest in                 *)
(* handlers/swap_handlers.go).                                             *)
THEOREM OneHandAlways == Spec => []OneHand
  <1>1. SwapInv => OneHand
    <2> SUFFICES ASSUME SwapInv PROVE OneHand
      OBVIOUS
    <2>1. TypeOK
      BY TypesAre DEF SwapInv
    <2>2. \A q, s \in pending \cup expiring : q.id = s.id => q = s
      BY DEF SwapInv, Waiting, Untouched, Asked
    <2>3. \A q \in pending \cup expiring : q.id \notin leaving /\ q.id # handler.req.id
      BY WaitsElsewhere DEF SwapInv, Waiting, Untouched, Asked
    <2>4. handler.req.id \notin leaving
      <3>1. leaving \subseteq Ids /\ made.requests \in Nat /\ MaxRequests \in Nat
        BY IdsAre DEF SwapInv, TypesOfRequests
      <3>2. CASE handler.step \in Posted
        BY <3>2 DEF SwapInv, Hand, Asked
      <3>3. CASE handler.step = "send"
        <4>1. /\ handler.req.id = made.requests + 1 /\ handler.req.id \in Ids
              /\ handler.req.id > made.requests
          BY <3>1, <3>3 DEF SwapInv, Hand, Ids
        <4> QED BY <4>1 DEF SwapInv, Told
      <3>4. CASE handler.step \in Early \cup {"idle"}
        <4>1. handler.req.id = 0
          BY <3>4, NoRequestIs DEF SwapInv, Hand
        <4> QED BY <3>1, <4>1 DEF Ids
      <3>5. handler.step \in Posted \cup Early \cup {"send", "idle"}
        BY DEF SwapInv, TypesOfRequests, Steps, Asking, Posted, Early
      <3> QED BY <3>2, <3>3, <3>4, <3>5
    <2> QED BY <2>1, <2>2, <2>3, <2>4 DEF OneHand, SwapInv, Waiting
  <1> QED BY <1>1, SwapInvariant, PTL

(* What the message of a request says of it is what happened               *)
(* (SwapConfirm and finishSwapRequest in handlers/swap_handlers.go).       *)
THEOREM ResultsAreTrueAlways == Spec => []ResultsAreTrue
  <1>1. SwapInv => ResultsAreTrue
    <2> SUFFICES ASSUME SwapInv, NEW r \in Ids
                 PROVE  /\ chat[r].says = "exchanged" => exchanges[r] = 1
                        /\ chat[r].says = "notExchanged" => exchanges[r] = 0 /\ WillNotBe(r)
      BY DEF ResultsAreTrue
    <2>1. ASSUME chat[r].says = "notExchanged" PROVE WillNotBe(r)
      <3>1. \A q \in pending : q.id # r
        BY <2>1 DEF SwapInv, Waiting, Untouched, Asked
      <3>2. handler.req.id # r
        <4>1. made.requests \in Nat /\ r \in Nat /\ r # 0 /\ ~(r > made.requests)
          BY <2>1, IdsAre DEF SwapInv, Told, Ids
        <4>2. handler.step \in Posted \cup Early \cup {"send", "idle"}
          BY DEF SwapInv, TypesOfRequests, Steps, Asking, Posted, Early
        <4> QED BY <2>1, <4>1, <4>2, NoRequestIs DEF SwapInv, Hand, Asked
      <3> QED BY <3>1, <3>2 DEF WillNotBe
    <2> QED BY <2>1 DEF SwapInv, Told
  <1> QED BY <1>1, SwapInvariant, PTL

(* Only Service.Swap gives anybody another place.                          *)
LEMMA OthersKeepPlaces ==
    ASSUME SwapInv, [Next]_vars, ~Swap
    PROVE  \A a \in entries, b \in entries' : a.user = b.user => a.position = b.position
  <1>1. Seats
    BY DEF SwapInv, Entries
  <1>2. entries' \subseteq entries \/ \E p \in People, n \in Positions : Join(p, n)
    BY DEF Next, HandlerStep, AskingStep, TimerStep, Users, World, vars, OnlyHandler, CheckOpen,
           ReadRequester, ReadTarget, ReadMessage, AskingEnds, Send, Store, CheckExpiry,
           CheckStillOpen, FinishPress, Expire, DeleteResult, FinishExpired, Ask, Confirm, Reject,
           Press, TwoMinutesPass, Remove, SetQueueMessageID, Close, Crash, queue
  <1>3. ASSUME NEW p \in People, NEW n \in Positions, Join(p, n)
        PROVE  \A a \in entries, b \in entries' : a.user = b.user => a.position = b.position
    BY <1>1, <1>3 DEF Join, SeatsOf, Seats
  <1> QED BY <1>1, <1>2, <1>3 DEF Seats

LEMMA SwapAsAgreed == ASSUME SwapInv, Swap PROVE OnlyAsAgreed
  <1> DEFINE q == handler.req
  <1> SUFFICES ASSUME NEW a \in entries, NEW b \in entries', a.user = b.user, a.position # b.position
               PROVE  AsAgreed(a, b)
    BY DEF OnlyAsAgreed
  <1>1. Untouched(q) /\ <<q.id, q.target>> \in agreed /\ CanSwap(q) /\ Exchanged(q)
    <2>1. entries' # entries
      BY DEF SwapInv, Entries, Seats
    <2> QED BY <2>1, SwapIs
  <1>2. q.id \in Ids /\ exchanges[q.id] = 0 /\ chat[q.id].of = q /\ message = q.message
    BY <1>1 DEF Untouched, Asked, CanSwap
  <1>3. PICK x \in entries, y \in entries :
          /\ x.id = q.requesterEntry /\ x.position = q.from
          /\ y.id = q.targetEntry /\ y.position = q.to
          /\ entries' = ExchangedSet(x, y)
    BY <1>1, <1>2, ExchangedIs
  <1>4. exchanges'[q.id] = 1
    BY <1>1, <1>2, ExchangedIs
  <1>5. x.user = q.requester /\ y.user = q.target
    BY <1>3 DEF SwapInv, Entries, Names
  <1>6. \/ a = x /\ b.position = y.position
        \/ a = y /\ b.position = x.position
    BY <1>3, ExchangedEntries
  <1>7. <<a.user, a.id, a.position, b.position>> \in
          {<<q.requester, q.requesterEntry, q.from, q.to>>,
           <<q.target, q.targetEntry, q.to, q.from>>}
    BY <1>3, <1>5, <1>6
  <1> QED BY <1>1, <1>2, <1>4, <1>7 DEF AsAgreed

(* People change places only as the question said, with the consent of who *)
(* was asked, and once (SwapConfirm in handlers/swap_handlers.go, Swap in  *)
(* queue/service.go).                                                      *)
THEOREM ExchangesAreAgreedAlways == Spec => ExchangesAreAgreed
  <1>1. SwapInv /\ [Next]_vars => [OnlyAsAgreed]_vars
    BY OthersKeepPlaces, SwapAsAgreed DEF OnlyAsAgreed
  <1> QED BY <1>1, SwapInvariant, PTL DEF Spec, ExchangesAreAgreed
=============================================================================
