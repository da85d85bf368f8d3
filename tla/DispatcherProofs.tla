-------------------------- MODULE DispatcherProofs --------------------------
(***************************************************************************)
(* Proofs about the dispatcher, for any actions, keys, workers and         *)
(* capacity: its inductive invariant and what follows from it, and that it *)
(* implements SerialLanes.                                                 *)
(***************************************************************************)
EXTENDS Dispatcher, TLAPS, FiniteSetTheorems, SequenceTheorems

(* The parts of Accept, Take and Finish with names of their own.           *)
USE DEF Room, ReadyAfterAccept, ActionsAfterAccept, ActionsAfterTake, LanesAfterFinish, ReadyAfterFinish

-----------------------------------------------------------------------------
(* Queues: what Append and Tail do to membership and to uniqueness.        *)

(* Joining a queue (Submit to a lane, a key to the list of ready keys).    *)
LEMMA AppendLemma ==
    ASSUME NEW S, NEW s \in Seq(S), NEW e \in S
    PROVE  /\ Append(s, e) \in Seq(S)
           /\ Append(s, e) # <<>>
           /\ \A x : Contains(Append(s, e), x) <=> (Contains(s, x) \/ x = e)
           /\ IsInjective(s) /\ ~Contains(s, e) => IsInjective(Append(s, e))
<1> DEFINE t == Append(s, e)
<1>1. /\ t \in Seq(S) /\ Len(t) = Len(s) + 1 /\ Len(s) \in Nat
      /\ DOMAIN s = 1..Len(s) /\ DOMAIN t = 1..Len(t)
      /\ \A i \in 1..Len(s) : t[i] = s[i]
      /\ t[Len(s) + 1] = e
  BY AppendProperties, LenProperties
<1>2. \A x : Contains(t, x) <=> (Contains(s, x) \/ x = e)
  BY <1>1 DEF Contains
<1>3. IsInjective(s) /\ ~Contains(s, e) => IsInjective(t)
  BY <1>1 DEF Contains, IsInjective
<1>4. t # <<>>
  BY <1>1
<1> QED BY <1>1, <1>2, <1>3, <1>4

(* Leaving a queue at its head.                                            *)
LEMMA TailLemma ==
    ASSUME NEW S, NEW s \in Seq(S), s # <<>>
    PROVE  /\ Head(s) \in S
           /\ Tail(s) \in Seq(S)
           /\ \A x : Contains(s, x) <=> (x = Head(s) \/ Contains(Tail(s), x))
           /\ IsInjective(s) => IsInjective(Tail(s)) /\ ~Contains(Tail(s), Head(s))
<1> DEFINE t == Tail(s)
<1>1. /\ t \in Seq(S) /\ Len(t) = Len(s) - 1 /\ Len(s) \in Nat \ {0}
      /\ DOMAIN s = 1..Len(s) /\ DOMAIN t = 1..Len(t)
      /\ Head(s) = s[1] /\ Head(s) \in S
      /\ \A i \in 1..Len(t) : t[i] = s[i + 1]
  BY HeadTailProperties, LenProperties, EmptySeq
<1>2. \A x : Contains(s, x) => (x = Head(s) \/ Contains(t, x))
  <2> SUFFICES ASSUME NEW i \in 1..Len(s), i # 1
               PROVE  \E j \in 1..Len(t) : t[j] = s[i]
    BY <1>1 DEF Contains
  <2> i - 1 \in 1..Len(t) /\ t[i - 1] = s[i]
    BY <1>1
  <2> QED OBVIOUS
<1>3. \A x : (x = Head(s) \/ Contains(t, x)) => Contains(s, x)
  BY <1>1 DEF Contains
<1>4. IsInjective(s) => IsInjective(t) /\ ~Contains(t, Head(s))
  BY <1>1 DEF Contains, IsInjective
<1> QED BY <1>1, <1>2, <1>3, <1>4

LEMMA EmptyLemma ==
    /\ \A x : ~Contains(<<>>, x)
    /\ IsInjective(<<>>)
    /\ \A S : <<>> \in Seq(S)
BY EmptySeq DEF Contains, IsInjective

-----------------------------------------------------------------------------
(* notify wakes those who wait and moves nobody else.                      *)
LEMMA WokenLemma ==
    ASSUME TypeOK
    PROVE  /\ WokenCallers \in [Actions -> {"idle", "trying", "accepted", "refused"}]
           /\ \A a \in Actions : WokenCallers[a] = "accepted" <=> caller[a] = "accepted"
           /\ WokenWorkers \in [Workers -> {"looking", "executing", "exited"}]
           /\ \A w \in Workers : WokenWorkers[w] = "executing" <=> place[w] = "executing"
           /\ \A w \in Workers : WokenWorkers[w] = "exited" <=> place[w] = "exited"
BY DEF TypeOK, WokenCallers, WokenWorkers

(* The initial state satisfies the inductive invariant.                    *)
LEMMA InitIInv == Init => IInv
<1> SUFFICES ASSUME Init PROVE IInv
  OBVIOUS
<1>1. TypeOK
  BY DispatcherAssumption, EmptyLemma DEF Init, TypeOK
<1>2. Waiting = {} /\ Executing = {}
  BY DispatcherAssumption, EmptyLemma DEF Init, Waiting, Executing
<1>3. SerialExecution /\ LanesHaveWork /\ NoLostWakeup /\ EndsInOrder
  BY <1>2, DispatcherAssumption DEF Init, SerialExecution, LanesHaveWork, NoLostWakeup, EndsInOrder
<1>4. ReadyOnce /\ PlacedOnce
  BY <1>2, EmptyLemma DEF Init, ReadyOnce, PlacedOnce
<1>5. QueuedCounts /\ IsFiniteSet(Waiting)
  BY <1>2, FS_EmptySet, DispatcherAssumption DEF Init, QueuedCounts
<1> QED BY <1>1, <1>3, <1>4, <1>5 DEF IInv

-----------------------------------------------------------------------------
(* Submit appends to a lane.                                               *)
LEMMA AcceptIInv ==
    ASSUME IInv, NEW a \in Actions, Accept(a)
    PROVE  IInv'
<1> DEFINE k == KeyOf[a]
<1> USE DispatcherAssumption
<1>1. TypeOK /\ k \in Keys /\ actions[k] \in Seq(Actions) /\ ready \in Seq(Keys)
  BY DEF IInv, TypeOK
<1>2. a \notin Waiting /\ a \notin Executing /\ a \notin finished
  BY DEF IInv, PlacedOnce, Accept, Looking
<1>3. ~Contains(actions[k], a)
  BY <1>2 DEF Waiting
<1>4. /\ actions' = [actions EXCEPT ![k] = Append(@, a)]
      /\ actions'[k] = Append(actions[k], a)
      /\ \A j \in Keys \ {k} : actions'[j] = actions[j]
  BY <1>1 DEF Accept, TypeOK
<1>5. /\ actions'[k] \in Seq(Actions) /\ actions'[k] # <<>> /\ IsInjective(actions'[k])
      /\ \A x : Contains(actions'[k], x) <=> (Contains(actions[k], x) \/ x = a)
  BY <1>1, <1>3, <1>4, AppendLemma DEF IInv, PlacedOnce
<1>6. Waiting' = Waiting \cup {a}
  BY <1>4, <1>5 DEF Waiting
<1>7. /\ place' = WokenWorkers /\ caller' = [WokenCallers EXCEPT ![a] = "accepted"]
      /\ UNCHANGED <<running, current, finished, closed, shutdown, canceled, done>>
  BY DEF Accept, ending
<1>8. Executing' = Executing
  BY <1>1, <1>7, WokenLemma DEF Executing
<1>9. /\ ready' \in Seq(Keys) /\ IsInjective(ready')
      /\ \A j \in Keys : Contains(ready', j) <=> (actions'[j] # <<>> /\ j \notin running)
  <2>1. CASE k \notin running /\ actions[k] = <<>>
    BY <2>1, <1>1, <1>4, <1>5, AppendLemma DEF Accept, IInv, ReadyOnce
  <2>2. CASE ~(k \notin running /\ actions[k] = <<>>)
    BY <2>2, <1>1, <1>4, <1>5 DEF Accept, IInv, ReadyOnce
  <2> QED BY <2>1, <2>2
<1>10. TypeOK'
  BY <1>1, <1>4, <1>5, <1>7, <1>9, WokenLemma DEF TypeOK, Accept
<1>11. SerialExecution'
  BY <1>1, <1>7, <1>8, WokenLemma DEF IInv, SerialExecution
<1>12. ReadyOnce'
  BY <1>7, <1>9 DEF ReadyOnce
<1>13. LanesHaveWork'
  BY <1>4, <1>5, <1>7 DEF Accept, IInv, LanesHaveWork
<1>14. PlacedOnce'
  <2>1. \A b \in Actions : caller'[b] = "accepted" <=> (caller[b] = "accepted" \/ b = a)
    BY <1>1, <1>7, WokenLemma
  <2>2. \A b \in Actions : caller'[b] = "accepted" <=> b \in (Waiting \cup Executing \cup finished)'
    BY <2>1, <1>6, <1>7, <1>8 DEF IInv, PlacedOnce
  <2>3. \A j \in Keys : /\ IsInjective(actions'[j])
                        /\ \A b \in Actions : Contains(actions'[j], b) => KeyOf[b] = j
    BY <1>4, <1>5 DEF IInv, PlacedOnce
  <2> QED BY <2>2, <2>3, <1>2, <1>6, <1>7, <1>8 DEF IInv, PlacedOnce
<1>15. QueuedCounts' /\ IsFiniteSet(Waiting)'
  <2>1. queued = Cardinality(Waiting) /\ queued < Capacity /\ queued' = queued + 1 /\ IsFiniteSet(Waiting)
    BY DEF IInv, QueuedCounts, Accept
  <2>2. IsFiniteSet(Waiting \cup {a}) /\ Cardinality(Waiting \cup {a}) = Cardinality(Waiting) + 1
    BY <2>1, <1>2, FS_AddElement
  <2> QED BY <2>1, <2>2, <1>1, <1>6 DEF QueuedCounts, TypeOK
<1>16. NoLostWakeup'
  BY <1>1, <1>7, WokenLemma DEF NoLostWakeup
<1>17. EndsInOrder'
  <2>1. ~closed
    BY DEF Accept
  <2> QED BY <2>1, <1>1, <1>7, WokenLemma DEF IInv, EndsInOrder
<1> QED BY <1>10, <1>11, <1>12, <1>13, <1>14, <1>15, <1>16, <1>17 DEF IInv

-----------------------------------------------------------------------------
(* A worker takes the head of the first ready lane.                        *)
LEMMA TakeIInv ==
    ASSUME IInv, NEW w \in Workers, Take(w)
    PROVE  IInv'
<1> DEFINE k == Head(ready)
<1> DEFINE a == Head(actions[k])
<1> USE DispatcherAssumption
<1>1. TypeOK /\ ready \in Seq(Keys) /\ ready # <<>>
  BY DEF IInv, TypeOK, Take
<1>2. /\ k \in Keys /\ ready' = Tail(ready) /\ ready' \in Seq(Keys)
      /\ IsInjective(ready') /\ ~Contains(ready', k)
      /\ \A j : Contains(ready, j) <=> (j = k \/ Contains(ready', j))
  BY <1>1, TailLemma DEF Take, IInv, ReadyOnce
<1>3. k \notin running /\ actions[k] # <<>> /\ actions[k] \in Seq(Actions)
  BY <1>1, <1>2 DEF IInv, ReadyOnce, TypeOK
<1>4. /\ actions' = [actions EXCEPT ![k] = Tail(@)]
      /\ actions'[k] = Tail(actions[k])
      /\ \A j \in Keys \ {k} : actions'[j] = actions[j]
  BY <1>1, <1>2 DEF Take, TypeOK
<1>5. /\ a \in Actions /\ actions'[k] \in Seq(Actions)
      /\ IsInjective(actions'[k]) /\ ~Contains(actions'[k], a)
      /\ \A x : Contains(actions[k], x) <=> (x = a \/ Contains(actions'[k], x))
  BY <1>2, <1>3, <1>4, TailLemma DEF IInv, PlacedOnce
<1>6. KeyOf[a] = k /\ a \in Waiting
  BY <1>2, <1>5 DEF IInv, PlacedOnce, Waiting
<1>7. Waiting' = Waiting \ {a}
  BY <1>4, <1>5, <1>6 DEF Waiting
<1>8. /\ place' = [WokenWorkers EXCEPT ![w] = "executing"]
      /\ current' = [current EXCEPT ![w] = a]
      /\ running' = running \cup {k}
      /\ caller' = WokenCallers
      /\ UNCHANGED <<lanes, finished, closed, shutdown, canceled, done>>
      /\ place[w] = "looking"
  BY DEF Take, ending
<1>9. /\ place'[w] = "executing" /\ current'[w] = a
      /\ \A v \in Workers : v # w => /\ place'[v] = "executing" <=> place[v] = "executing"
                                     /\ place'[v] = "exited" <=> place[v] = "exited"
                                     /\ place'[v] # "waiting"
                                     /\ current'[v] = current[v]
  BY <1>1, <1>8, WokenLemma DEF TypeOK
<1>10. Executing' = Executing \cup {a}
  BY <1>8, <1>9 DEF Executing
<1>11. TypeOK'
  <2>1. queued \in Nat /\ queued - 1 \in Nat
    <3>1. queued = Cardinality(Waiting) /\ IsFiniteSet(Waiting) /\ Waiting # {}
      BY <1>6 DEF IInv, QueuedCounts
    <3> QED BY <3>1, <1>1, FS_EmptySet DEF TypeOK
  <2>2. actions' \in [Keys -> Seq(Actions)]
    BY <1>1, <1>4, <1>5 DEF TypeOK
  <2>3. /\ place' \in [Workers -> {"looking", "waiting", "executing", "exited"}]
        /\ current' \in [Workers -> Actions \cup {NoAction}]
    BY <1>1, <1>5, <1>8, WokenLemma DEF TypeOK
  <2>4. \A v \in Workers : place'[v] = "executing" <=> current'[v] # NoAction
    BY <1>1, <1>5, <1>9 DEF TypeOK
  <2>5. caller' \in [Actions -> {"idle", "trying", "waiting", "accepted", "refused"}]
    BY <1>1, <1>8, WokenLemma
  <2> QED BY <2>1, <2>2, <2>3, <2>4, <2>5, <1>1, <1>2, <1>8 DEF TypeOK, Take
<1>12. SerialExecution'
  <2>1. \A b \in Executing : KeyOf[b] # k
    BY <1>3 DEF IInv, SerialExecution
  <2>2. \A v \in Workers : v # w /\ place'[v] = "executing" => KeyOf[current'[v]] # k
    BY <2>1, <1>9 DEF Executing
  <2>3. running' = {KeyOf[b] : b \in Executing'}
    BY <1>6, <1>8, <1>10 DEF IInv, SerialExecution
  <2> QED BY <2>2, <2>3, <1>6, <1>9 DEF IInv, SerialExecution
<1>13. ReadyOnce'
  BY <1>2, <1>4, <1>8 DEF IInv, ReadyOnce
<1>14. LanesHaveWork'
  BY <1>3, <1>4, <1>8 DEF IInv, LanesHaveWork
<1>15. PlacedOnce'
  <2>1. \A b \in Actions : caller'[b] = "accepted" <=> b \in (Waiting \cup Executing \cup finished)'
    BY <1>1, <1>6, <1>7, <1>8, <1>10, WokenLemma DEF IInv, PlacedOnce
  <2>2. \A j \in Keys : /\ IsInjective(actions'[j])
                        /\ \A b \in Actions : Contains(actions'[j], b) => KeyOf[b] = j
    BY <1>4, <1>5 DEF IInv, PlacedOnce
  <2> QED BY <2>1, <2>2, <1>6, <1>7, <1>8, <1>10 DEF IInv, PlacedOnce
<1>16. QueuedCounts' /\ IsFiniteSet(Waiting)'
  <2>1. queued = Cardinality(Waiting) /\ queued <= Capacity /\ queued' = queued - 1 /\ IsFiniteSet(Waiting)
    BY DEF IInv, QueuedCounts, Take
  <2>2. IsFiniteSet(Waiting \ {a}) /\ Cardinality(Waiting \ {a}) = Cardinality(Waiting) - 1
    BY <2>1, <1>6, FS_RemoveElement
  <2> QED BY <2>1, <2>2, <1>1, <1>7 DEF QueuedCounts, TypeOK
<1>17. NoLostWakeup'
  BY <1>1, <1>8, <1>9, WokenLemma DEF NoLostWakeup
<1>18. EndsInOrder'
  BY <1>8, <1>9 DEF IInv, EndsInOrder
<1> QED BY <1>11, <1>12, <1>13, <1>14, <1>15, <1>16, <1>17, <1>18 DEF IInv

-----------------------------------------------------------------------------
(* A worker's action returns, and its lane is ready again or forgotten.    *)
LEMMA FinishIInv ==
    ASSUME IInv, NEW w \in Workers, Finish(w)
    PROVE  IInv'
<1> DEFINE a == current[w]
<1> DEFINE k == KeyOf[a]
<1> USE DispatcherAssumption
<1>1. TypeOK /\ a \in Actions /\ k \in Keys /\ ready \in Seq(Keys) /\ place[w] = "executing"
  BY DEF IInv, TypeOK, Finish
<1>2. /\ place' = [WokenWorkers EXCEPT ![w] = "looking"]
      /\ current' = [current EXCEPT ![w] = NoAction]
      /\ running' = running \ {k} /\ finished' = finished \cup {a}
      /\ lanes' = IF actions[k] = <<>> THEN lanes \ {k} ELSE lanes
      /\ ready' = IF actions[k] = <<>> THEN ready ELSE Append(ready, k)
      /\ caller' = WokenCallers
      /\ UNCHANGED <<actions, queued, closed, shutdown, canceled, done>>
  BY DEF Finish, ending
<1>3. /\ place'[w] = "looking" /\ current'[w] = NoAction
      /\ place'[w] # "executing" /\ place'[w] # "exited" /\ place[w] # "exited"
      /\ \A v \in Workers : v # w => /\ place'[v] = "executing" <=> place[v] = "executing"
                                     /\ place'[v] = "exited" <=> place[v] = "exited"
                                     /\ place'[v] # "waiting"
                                     /\ current'[v] = current[v]
  BY <1>1, <1>2, WokenLemma DEF TypeOK
<1>4. a \in Executing /\ k \in running
  BY <1>1 DEF IInv, SerialExecution, Executing
<1>5. \A v \in Workers : v # w /\ place[v] = "executing" => KeyOf[current[v]] # k
  BY <1>1 DEF IInv, SerialExecution
<1>6. Executing' = Executing \ {a} /\ \A b \in Executing' : KeyOf[b] # k
  BY <1>1, <1>3, <1>5 DEF Executing
<1>7. Waiting' = Waiting
  BY <1>2 DEF Waiting
<1>8. /\ ready' \in Seq(Keys) /\ IsInjective(ready')
      /\ \A j \in Keys : Contains(ready', j) <=> (actions[j] # <<>> /\ j \notin running')
  <2>1. ~Contains(ready, k)
    BY <1>1, <1>4 DEF IInv, ReadyOnce
  <2>2. CASE actions[k] = <<>>
    BY <2>2, <1>1, <1>2 DEF IInv, ReadyOnce
  <2>3. CASE actions[k] # <<>>
    BY <2>1, <2>3, <1>1, <1>2, AppendLemma DEF IInv, ReadyOnce
  <2> QED BY <2>2, <2>3
<1>9. TypeOK'
  <2>1. /\ place' \in [Workers -> {"looking", "waiting", "executing", "exited"}]
        /\ current' \in [Workers -> Actions \cup {NoAction}]
    BY <1>1, <1>2, WokenLemma DEF TypeOK
  <2>2. \A v \in Workers : place'[v] = "executing" <=> current'[v] # NoAction
    <3> SUFFICES ASSUME NEW v \in Workers, v # w
                 PROVE  place'[v] = "executing" <=> current'[v] # NoAction
      BY <1>3
    <3> QED BY <1>1, <1>3 DEF TypeOK
  <2>3. caller' \in [Actions -> {"idle", "trying", "waiting", "accepted", "refused"}]
    BY <1>1, <1>2, WokenLemma
  <2> QED BY <2>1, <2>2, <2>3, <1>1, <1>2, <1>8 DEF TypeOK
<1>10. SerialExecution'
  <2>1. running' = {KeyOf[b] : b \in Executing'}
    BY <1>2, <1>6 DEF IInv, SerialExecution
  <2>2. \A u, v \in Workers :
           place'[u] = "executing" /\ place'[v] = "executing" /\ KeyOf[current'[u]] = KeyOf[current'[v]]
             => u = v
    <3> SUFFICES ASSUME NEW u \in Workers, NEW v \in Workers,
                        place'[u] = "executing", place'[v] = "executing",
                        KeyOf[current'[u]] = KeyOf[current'[v]]
                 PROVE  u = v
      OBVIOUS
    <3>1. u # w /\ v # w
      BY <1>3
    <3> QED BY <3>1, <1>3 DEF IInv, SerialExecution
  <2> QED BY <2>1, <2>2 DEF SerialExecution
<1>11. ReadyOnce'
  BY <1>2, <1>8 DEF ReadyOnce
<1>12. LanesHaveWork'
  BY <1>2, <1>4 DEF IInv, LanesHaveWork
<1>13. PlacedOnce'
  <2>1. \A b \in Actions : caller'[b] = "accepted" <=> b \in (Waiting \cup Executing \cup finished)'
    BY <1>1, <1>2, <1>4, <1>6, <1>7, WokenLemma DEF IInv, PlacedOnce
  <2> QED BY <2>1, <1>2, <1>4, <1>6, <1>7 DEF IInv, PlacedOnce
<1>14. QueuedCounts' /\ IsFiniteSet(Waiting)'
  BY <1>2, <1>7 DEF IInv, QueuedCounts
<1>15. NoLostWakeup'
  BY <1>1, <1>2, <1>3, WokenLemma DEF NoLostWakeup
<1>16. EndsInOrder'
  <2>1. \E v \in Workers : place[v] # "exited" /\ place'[v] # "exited"
    BY <1>3
  <2>2. \A v \in Workers : place'[v] = "exited" => place[v] = "exited"
    BY <1>3
  <2> QED BY <2>1, <2>2, <1>2 DEF IInv, EndsInOrder
<1> QED BY <1>9, <1>10, <1>11, <1>12, <1>13, <1>14, <1>15, <1>16 DEF IInv

-----------------------------------------------------------------------------
(* The steps that move no action: a caller or a worker waits, leaves or is *)
(* refused, and the ending.                                                *)
Quiet == \/ \E a \in Actions : CallerWaits(a) \/ Refuse(a)
         \/ \E w \in Workers : WorkerWaits(w) \/ Exit(w)
         \/ Shutdown \/ ShutdownReturns \/ ShutdownExpires \/ WorkersDone
         \/ UNCHANGED vars

LEMMA QuietIInv == IInv /\ Quiet => IInv'
<1> SUFFICES ASSUME IInv, Quiet PROVE IInv'
  OBVIOUS
<1> USE DispatcherAssumption
<1>1. TypeOK
  BY DEF IInv
<1>2. UNCHANGED <<lanes, actions, running, ready, queued, current, finished>>
  BY DEF Quiet, CallerWaits, Refuse, WorkerWaits, Exit, Shutdown, ShutdownReturns, ShutdownExpires,
         WorkersDone, vars, state
<1>3. /\ caller' \in [Actions -> {"idle", "trying", "waiting", "accepted", "refused"}]
      /\ \A a \in Actions : caller'[a] = "accepted" <=> caller[a] = "accepted"
  <2>1. CASE \E a \in Actions : CallerWaits(a) \/ Refuse(a)
    <3>1. PICK a \in Actions : CallerWaits(a) \/ Refuse(a)
      BY <2>1
    <3>2. /\ caller[a] # "accepted"
          /\ \/ caller' = [caller EXCEPT ![a] = "waiting"]
             \/ caller' = [caller EXCEPT ![a] = "refused"]
      BY <3>1 DEF CallerWaits, Refuse, Looking
    <3> QED BY <3>2, <1>1 DEF TypeOK
  <2>2. CASE ~ \E a \in Actions : CallerWaits(a) \/ Refuse(a)
    <3>1. caller' = caller \/ caller' = WokenCallers
      BY <2>2 DEF Quiet, WorkerWaits, Exit, Shutdown, ShutdownReturns, ShutdownExpires, WorkersDone, vars
    <3> QED BY <3>1, <1>1, WokenLemma DEF TypeOK
  <2> QED BY <2>1, <2>2
<1>4. /\ place' \in [Workers -> {"looking", "waiting", "executing", "exited"}]
      /\ \A w \in Workers : place'[w] = "executing" <=> place[w] = "executing"
  BY <1>1, WokenLemma
     DEF TypeOK, Quiet, CallerWaits, Refuse, WorkerWaits, Exit, Shutdown, ShutdownReturns,
         ShutdownExpires, WorkersDone, vars
<1>5. Waiting' = Waiting /\ Executing' = Executing
  BY <1>2, <1>4 DEF Waiting, Executing
<1>6. TypeOK'
  BY <1>1, <1>2, <1>3, <1>4
     DEF TypeOK, Quiet, CallerWaits, Refuse, WorkerWaits, Exit, Shutdown, ShutdownReturns,
         ShutdownExpires, WorkersDone, vars, ending
<1>7. SerialExecution'
  BY <1>2, <1>4, <1>5 DEF IInv, SerialExecution
<1>8. ReadyOnce' /\ LanesHaveWork'
  BY <1>2 DEF IInv, ReadyOnce, LanesHaveWork
<1>9. PlacedOnce'
  BY <1>2, <1>3, <1>5 DEF IInv, PlacedOnce
<1>10. QueuedCounts' /\ IsFiniteSet(Waiting)'
  BY <1>2, <1>5 DEF IInv, QueuedCounts
<1>11. NoLostWakeup' /\ EndsInOrder'
  <2>1. ASSUME NEW a \in Actions, CallerWaits(a)
        PROVE  NoLostWakeup' /\ EndsInOrder'
    BY <2>1, <1>1 DEF CallerWaits, state, ending, IInv, TypeOK, QueuedCounts, NoLostWakeup, EndsInOrder
  <2>2. ASSUME NEW a \in Actions, Refuse(a)
        PROVE  NoLostWakeup' /\ EndsInOrder'
    BY <2>2, <1>1 DEF Refuse, state, ending, IInv, TypeOK, NoLostWakeup, EndsInOrder
  <2>3. ASSUME NEW w \in Workers, WorkerWaits(w) \/ Exit(w)
        PROVE  NoLostWakeup' /\ EndsInOrder'
    BY <2>3, <1>1 DEF WorkerWaits, Exit, state, ending, IInv, TypeOK, NoLostWakeup, EndsInOrder
  <2>4. CASE Shutdown
    BY <2>4, <1>1, WokenLemma DEF Shutdown, state, IInv, TypeOK, NoLostWakeup, EndsInOrder
  <2>5. CASE ShutdownReturns \/ ShutdownExpires \/ WorkersDone \/ UNCHANGED vars
    BY <2>5 DEF ShutdownReturns, ShutdownExpires, WorkersDone, vars, state, IInv, NoLostWakeup, EndsInOrder
  <2> QED BY <2>1, <2>2, <2>3, <2>4, <2>5 DEF Quiet
<1> QED BY <1>6, <1>7, <1>8, <1>9, <1>10, <1>11 DEF IInv

-----------------------------------------------------------------------------
(* The inductive invariant holds in every reachable state.                 *)
THEOREM Invariance == Spec => []IInv
<1>1. IInv /\ [Next]_vars => IInv'
  BY AcceptIInv, TakeIInv, FinishIInv, QuietIInv DEF Next, Work, Quiet
<1> QED BY InitIInv, <1>1, PTL DEF Spec

(* Types, for any number of workers, keys and submissions.                 *)
THEOREM TypeCorrect == Spec => []TypeOK
BY Invariance, PTL DEF IInv

(* Actions of one key never overlap.                                       *)
THEOREM SerialExecutionHolds == Spec => []SerialExecution
BY Invariance, PTL DEF IInv

(* No lane is forgotten or listed twice, and no empty lane is kept.        *)
THEOREM ReadyOnceHolds == Spec => [](ReadyOnce /\ LanesHaveWork)
BY Invariance, PTL DEF IInv

(* No accepted action is lost or run twice, and at most Capacity wait.     *)
THEOREM PlacedOnceHolds == Spec => [](PlacedOnce /\ QueuedCounts)
BY Invariance, PTL DEF IInv

(* Nobody sleeps through a change of the queue that concerns him.          *)
THEOREM NoLostWakeupHolds == Spec => []NoLostWakeup
BY Invariance, PTL DEF IInv

(* When the workers have gone there is no work left, so a Shutdown that    *)
(* returns without an error has drained what was accepted.                 *)
THEOREM ShutdownDrainsHolds == Spec => []ShutdownDrains
<1>1. IInv => ShutdownDrains
  <2> SUFFICES ASSUME IInv, done \/ (canceled /\ shutdown # "expired"),
                      NEW a \in Actions, caller[a] = "accepted"
               PROVE  a \in finished
    BY DEF ShutdownDrains
  <2>1. (\A w \in Workers : place[w] = "exited") /\ ready = <<>>
    BY DEF IInv, EndsInOrder
  <2>2. Executing = {} /\ running = {}
    BY <2>1 DEF Executing, IInv, SerialExecution
  <2>3. KeyOf[a] \in Keys /\ actions[KeyOf[a]] = <<>>
    BY <2>1, <2>2, EmptyLemma, DispatcherAssumption DEF IInv, ReadyOnce
  <2>4. a \notin Waiting
    BY <2>3, EmptyLemma DEF Waiting
  <2> QED BY <2>2, <2>4 DEF IInv, PlacedOnce
<1> QED BY <1>1, Invariance, PTL

-----------------------------------------------------------------------------
(* Refinement: every step of the dispatcher is a step of SerialLanes, or   *)
(* changes nothing that SerialLanes shows.                                 *)

LEMMA InitRefines == Init => Lanes!Init
BY DEF Init, Lanes!Init, Executing

LEMMA AcceptRefines ==
    ASSUME IInv, NEW a \in Actions, Accept(a)
    PROVE  Lanes!Accept(a)
<1>1. TypeOK /\ Lanes!Waiting = Waiting
  BY DEF IInv, Lanes!Waiting, Waiting, Lanes!Contains, Contains
<1>2. a \notin Lanes!Accepted
  BY <1>1 DEF IInv, PlacedOnce, Accept, Looking, Lanes!Accepted
<1>3. Lanes!Cardinality(Lanes!Waiting) < Capacity
  <2>1. Lanes!Cardinality(Waiting) = Cardinality(Waiting)
    BY DEF Lanes!Cardinality, Cardinality
  <2> QED BY <2>1, <1>1 DEF IInv, QueuedCounts, Accept
<1>4. Executing' = Executing
  BY <1>1, WokenLemma DEF Accept, Executing
<1>5. /\ actions' = [actions EXCEPT ![KeyOf[a]] = Append(@, a)]
      /\ ~closed /\ UNCHANGED <<finished, closed>>
  BY DEF Accept, ending
<1> QED BY <1>2, <1>3, <1>4, <1>5 DEF Lanes!Accept

LEMMA TakeRefines ==
    ASSUME IInv, NEW w \in Workers, Take(w)
    PROVE  Lanes!Start(Head(ready))
<1> DEFINE k == Head(ready)
<1> USE DispatcherAssumption
<1>1. TypeOK /\ k \in Keys /\ Contains(ready, k)
  BY TailLemma DEF IInv, TypeOK, Take
<1>2. actions[k] # <<>> /\ k \notin running
  BY <1>1 DEF IInv, ReadyOnce
<1>3. \A a \in Executing : KeyOf[a] # k
  BY <1>2 DEF IInv, SerialExecution
<1>4. Executing' = Executing \cup {Head(actions[k])}
  <2>1. /\ place' = [WokenWorkers EXCEPT ![w] = "executing"]
        /\ current' = [current EXCEPT ![w] = Head(actions[k])]
        /\ place[w] = "looking"
    BY DEF Take
  <2>2. /\ place'[w] = "executing" /\ current'[w] = Head(actions[k])
        /\ \A v \in Workers : v # w => /\ place'[v] = "executing" <=> place[v] = "executing"
                                       /\ current'[v] = current[v]
    BY <2>1, <1>1, WokenLemma DEF TypeOK
  <2> QED BY <2>1, <2>2 DEF Executing
<1> QED BY <1>2, <1>3, <1>4 DEF Lanes!Start, Take, ending

LEMMA FinishRefines ==
    ASSUME IInv, NEW w \in Workers, Finish(w)
    PROVE  Lanes!End(current[w])
<1> DEFINE a == current[w]
<1>1. TypeOK /\ place[w] = "executing"
  BY DEF IInv, Finish
<1>2. a \in Executing
  BY <1>1 DEF Executing
<1>3. /\ place'[w] # "executing"
      /\ \A v \in Workers : v # w => /\ place'[v] = "executing" <=> place[v] = "executing"
                                     /\ current'[v] = current[v]
  BY <1>1, WokenLemma DEF Finish, TypeOK
<1>4. \A v \in Workers : v # w /\ place[v] = "executing" => current[v] # a
  BY <1>1 DEF IInv, SerialExecution
<1>5. Executing' = Executing \ {a}
  BY <1>1, <1>3, <1>4 DEF Executing
<1> QED BY <1>2, <1>5 DEF Lanes!End, Finish, ending

LEMMA QuietRefines == IInv /\ Quiet => Lanes!Close \/ UNCHANGED Lanes!vars
<1> SUFFICES ASSUME IInv, Quiet PROVE Lanes!Close \/ UNCHANGED Lanes!vars
  OBVIOUS
<1>1. TypeOK
  BY DEF IInv
<1>2. UNCHANGED <<actions, current, finished>>
  BY DEF Quiet, CallerWaits, Refuse, WorkerWaits, Exit, Shutdown, ShutdownReturns, ShutdownExpires,
         WorkersDone, vars, state
<1>3. \A w \in Workers : place'[w] = "executing" <=> place[w] = "executing"
  BY <1>1, WokenLemma
     DEF TypeOK, Quiet, CallerWaits, Refuse, WorkerWaits, Exit, Shutdown, ShutdownReturns,
         ShutdownExpires, WorkersDone, vars
<1>4. Executing' = Executing
  BY <1>2, <1>3 DEF Executing
<1>5. closed' = closed \/ (~closed /\ closed' = TRUE)
  BY <1>1 DEF IInv, EndsInOrder, Quiet, CallerWaits, Refuse, WorkerWaits, Exit, Shutdown, ShutdownReturns,
              ShutdownExpires, WorkersDone, vars, ending
<1> QED BY <1>2, <1>4, <1>5 DEF Lanes!Close, Lanes!vars

(* The dispatcher implements serial lanes: per key in order and one at a   *)
(* time, at most Capacity waiting, none accepted after closing.            *)
THEOREM Refinement == Spec => ImplementsSerialLanes
<1>1. IInv /\ [Next]_vars => [Lanes!Next]_(Lanes!vars)
  <2> SUFFICES ASSUME IInv, [Next]_vars
               PROVE  Lanes!Next \/ UNCHANGED Lanes!vars
    OBVIOUS
  <2>1. ASSUME NEW a \in Actions, Accept(a) PROVE Lanes!Next
    BY <2>1, AcceptRefines DEF Lanes!Next
  <2>2. ASSUME NEW w \in Workers, Take(w) PROVE Lanes!Next
    <3>1. Head(ready) \in Keys
      BY <2>2, TailLemma DEF IInv, TypeOK, Take
    <3> QED BY <2>2, <3>1, TakeRefines DEF Lanes!Next
  <2>3. ASSUME NEW w \in Workers, Finish(w) PROVE Lanes!Next
    <3>1. current[w] \in Actions
      BY <2>3 DEF IInv, TypeOK, Finish
    <3> QED BY <2>3, <3>1, FinishRefines DEF Lanes!Next
  <2>4. CASE Quiet
    BY <2>4, QuietRefines DEF Lanes!Next
  <2> QED BY <2>1, <2>2, <2>3, <2>4 DEF Next, Work, Quiet
<1> QED BY InitRefines, <1>1, Invariance, PTL DEF Spec, ImplementsSerialLanes, Lanes!Spec

=============================================================================
