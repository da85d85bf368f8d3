----------------------------- MODULE Dispatcher -----------------------------
(***************************************************************************)
(* dispatch/dispatch.go: a bounded queue of actions in lanes, one lane per *)
(* key, served by a pool of workers.  Every critical section of mu is one  *)
(* step.  Whoever has to wait takes the channel `changed` under mu and     *)
(* waits for it outside; notify closes that channel, which wakes everybody *)
(* who holds it, and replaces it.                                          *)
(***************************************************************************)
EXTENDS Naturals, Sequences, FiniteSets, SequencesExt

CONSTANTS
    Actions,   \* the calls of Submit, one action each
    Keys,      \* the keys that updateKey computes: topics and users
    KeyOf,     \* KeyOf[a]: the key action a is submitted under
    Workers,   \* the goroutines of the pool
    Capacity,  \* Dispatcher.capacity
    NoAction   \* what a worker runs that runs nothing

ASSUME DispatcherAssumption ==
    /\ KeyOf \in [Actions -> Keys]
    /\ Workers # {} /\ Capacity \in Nat \ {0}
    /\ NoAction \notin Actions

VARIABLES
    caller,    \* caller[a]: where the call of Submit stands
    lanes,     \* the keys in the map Dispatcher.lanes
    actions,   \* actions[k]: lane.actions, empty for a key without a lane
    running,   \* the keys whose lane has lane.running set
    ready,     \* Dispatcher.ready, a queue of keys
    queued,    \* Dispatcher.queued
    closed,    \* Dispatcher.closed
    place,     \* place[w]: where worker w stands
    current,   \* current[w]: the action worker w runs
    finished,  \* the actions that have run
    shutdown,  \* where the call of Shutdown stands
    canceled,  \* Dispatcher.ctx is cancelled
    done       \* the channel Dispatcher.done is closed

state == <<lanes, actions, running, ready, queued>>
ending == <<closed, shutdown, canceled, done>>
vars == <<caller, lanes, actions, running, ready, queued, closed, place, current, finished,
          shutdown, canceled, done>>

TypeOK ==
    /\ caller \in [Actions -> {"idle", "trying", "waiting", "accepted", "refused"}]
    /\ lanes \in SUBSET Keys
    /\ actions \in [Keys -> Seq(Actions)]
    /\ running \in SUBSET Keys
    /\ ready \in Seq(Keys)
    /\ queued \in Nat
    /\ place \in [Workers -> {"looking", "waiting", "executing", "exited"}]
    /\ current \in [Workers -> Actions \cup {NoAction}]
    /\ \A w \in Workers : place[w] = "executing" <=> current[w] # NoAction
    /\ finished \in SUBSET Actions
    /\ shutdown \in {"no", "waiting", "returned", "expired"}
    /\ closed \in BOOLEAN /\ canceled \in BOOLEAN /\ done \in BOOLEAN

Init ==
    /\ caller = [a \in Actions |-> "idle"]
    /\ lanes = {} /\ running = {}
    /\ actions = [k \in Keys |-> <<>>]
    /\ ready = <<>> /\ queued = 0
    /\ place = [w \in Workers |-> "looking"]
    /\ current = [w \in Workers |-> NoAction]
    /\ finished = {}
    /\ closed = FALSE /\ canceled = FALSE /\ done = FALSE
    /\ shutdown = "no"

(* notify: those who wait look again.                                      *)
WokenCallers == [a \in Actions |-> IF caller[a] = "waiting" THEN "trying" ELSE caller[a]]
WorkersUnaware == place
WokenWorkers == [w \in Workers |-> IF place[w] = "waiting" THEN "looking" ELSE place[w]]

-----------------------------------------------------------------------------
(* Submit, by the caller of action a.                                      *)

Looking(a) == caller[a] \in {"idle", "trying"}

Room == queued < Capacity

(* A lane becomes ready with its first action, unless a worker has it.     *)
ReadyAfterAccept(k) == IF k \notin running /\ actions[k] = <<>> THEN Append(ready, k) ELSE ready

NewestFirst(a) == [actions EXCEPT ![KeyOf[a]] = <<a>> \o @]
ActionsAfterAccept(a) == [actions EXCEPT ![KeyOf[a]] = Append(@, a)]

Accept(a) ==
    /\ Looking(a)
    /\ ~closed /\ Room
    /\ lanes' = lanes \cup {KeyOf[a]}
    /\ ready' = ReadyAfterAccept(KeyOf[a])
    /\ actions' = ActionsAfterAccept(a)
    /\ queued' = queued + 1
    /\ caller' = [WokenCallers EXCEPT ![a] = "accepted"]
    /\ place' = WokenWorkers
    /\ UNCHANGED <<running, current, finished, ending>>

CallerWaits(a) ==
    /\ Looking(a)
    /\ ~closed /\ ~Room
    /\ caller' = [caller EXCEPT ![a] = "waiting"]
    /\ UNCHANGED <<state, place, current, finished, ending>>

(* ErrClosed, or the caller's context ended: the action is not accepted.   *)
Refuse(a) ==
    /\ Looking(a) \/ caller[a] = "waiting"
    /\ caller' = [caller EXCEPT ![a] = "refused"]
    /\ UNCHANGED <<state, place, current, finished, ending>>

-----------------------------------------------------------------------------
(* The worker w.                                                           *)

ActionsAfterTake(k) == [actions EXCEPT ![k] = Tail(@)]

Take(w) ==
    /\ place[w] = "looking"
    /\ ready # <<>>
    /\ LET k == Head(ready)
       IN /\ current' = [current EXCEPT ![w] = Head(actions[k])]
          /\ actions' = ActionsAfterTake(k)
          /\ running' = running \cup {k}
    /\ ready' = Tail(ready)
    /\ queued' = queued - 1
    /\ caller' = WokenCallers
    /\ place' = [WokenWorkers EXCEPT ![w] = "executing"]
    /\ UNCHANGED <<lanes, finished, ending>>

(* The action returns; the lane is ready again, or empty and forgotten.    *)
LanesAfterFinish(k) == IF actions[k] = <<>> THEN lanes \ {k} ELSE lanes
ReadyOnlyOnAccept(k) == ready
ReadyAfterFinish(k) == IF actions[k] = <<>> THEN ready ELSE Append(ready, k)

Finish(w) ==
    /\ place[w] = "executing"
    /\ LET k == KeyOf[current[w]]
       IN /\ running' = running \ {k}
          /\ lanes' = LanesAfterFinish(k)
          /\ ready' = ReadyAfterFinish(k)
    /\ finished' = finished \cup {current[w]}
    /\ current' = [current EXCEPT ![w] = NoAction]
    /\ caller' = WokenCallers
    /\ place' = [WokenWorkers EXCEPT ![w] = "looking"]
    /\ UNCHANGED <<actions, queued, ending>>

WorkerWaits(w) ==
    /\ place[w] = "looking"
    /\ ready = <<>> /\ ~closed
    /\ place' = [place EXCEPT ![w] = "waiting"]
    /\ UNCHANGED <<caller, state, current, finished, ending>>

Exit(w) ==
    /\ place[w] = "looking"
    /\ ready = <<>> /\ closed
    /\ place' = [place EXCEPT ![w] = "exited"]
    /\ UNCHANGED <<caller, state, current, finished, ending>>

-----------------------------------------------------------------------------
(* Shutdown, and the goroutine of New that waits for the workers.          *)

Shutdown ==
    /\ shutdown = "no"
    /\ shutdown' = "waiting"
    /\ closed' = TRUE
    /\ caller' = WokenCallers
    /\ place' = WokenWorkers
    /\ UNCHANGED <<state, current, finished, canceled, done>>

ShutdownReturns ==
    /\ shutdown = "waiting" /\ done
    /\ shutdown' = "returned"
    /\ UNCHANGED <<caller, state, place, current, finished, closed, canceled, done>>

(* Its context ends first: the actions are told to stop.                   *)
ShutdownExpires ==
    /\ shutdown = "waiting"
    /\ shutdown' = "expired"
    /\ canceled' = TRUE
    /\ UNCHANGED <<caller, state, place, current, finished, closed, done>>

DoneWithFirstWorker ==
    /\ ~done
    /\ \E w \in Workers : place[w] = "exited"
    /\ done' = TRUE /\ canceled' = TRUE
    /\ UNCHANGED <<caller, state, place, current, finished, closed, shutdown>>

WorkersDone ==
    /\ ~done
    /\ \A w \in Workers : place[w] = "exited"
    /\ done' = TRUE /\ canceled' = TRUE
    /\ UNCHANGED <<caller, state, place, current, finished, closed, shutdown>>

-----------------------------------------------------------------------------
Work(w) == Take(w) \/ Finish(w) \/ WorkerWaits(w) \/ Exit(w)

Next ==
    \/ \E a \in Actions : Accept(a) \/ CallerWaits(a) \/ Refuse(a)
    \/ \E w \in Workers : Work(w)
    \/ Shutdown \/ ShutdownReturns \/ ShutdownExpires \/ WorkersDone

Spec == Init /\ [][Next]_vars

(* The goroutines of the pool run, and every action returns (its calls     *)
(* have time-outs).  A caller that was woken looks again.  Nobody has to   *)
(* submit, give up or shut down.                                           *)
Fairness ==
    /\ \A w \in Workers : WF_vars(Work(w))
    /\ \A a \in Actions : WF_vars(caller[a] = "trying" /\ (Accept(a) \/ CallerWaits(a) \/ Refuse(a)))
    /\ WF_vars(WorkersDone) /\ WF_vars(ShutdownReturns)

FairSpec == Spec /\ Fairness

-----------------------------------------------------------------------------
(* Safety.                                                                 *)

Waiting == {a \in Actions : Contains(actions[KeyOf[a]], a)}
Executing == {current[w] : w \in {v \in Workers : place[v] = "executing"}}

(* Two workers never run actions of one key, and the key of every running  *)
(* action is marked: a topic's presses are handled one at a time.          *)
SerialExecution ==
    /\ running = {KeyOf[a] : a \in Executing}
    /\ \A v, w \in Workers :
          place[v] = "executing" /\ place[w] = "executing" /\ KeyOf[current[v]] = KeyOf[current[w]] => v = w

(* The list of ready keys has exactly the lanes that can be served, each   *)
(* once: none is forgotten by the hand-over between Submit and a worker    *)
(* that finishes, and none is served twice.                                *)
ReadyOnce ==
    /\ \A k \in Keys : Contains(ready, k) <=> (actions[k] # <<>> /\ k \notin running)
    /\ IsInjective(ready)

(* The map holds a lane exactly while it has work: keys of old topics and  *)
(* users do not pile up.                                                   *)
LanesHaveWork == \A k \in Keys : k \in lanes <=> (actions[k] # <<>> \/ k \in running)

(* An accepted action is in exactly one place, its lane, a worker or the   *)
(* past, and one that was refused is nowhere: nothing is lost, run twice   *)
(* or run although its caller was told otherwise.                          *)
PlacedOnce ==
    /\ \A a \in Actions : caller[a] = "accepted" <=> a \in Waiting \cup Executing \cup finished
    /\ Waiting \cap Executing = {} /\ Waiting \cap finished = {} /\ Executing \cap finished = {}
    /\ \A k \in Keys : IsInjective(actions[k])
    /\ \A k \in Keys, a \in Actions : Contains(actions[k], a) => KeyOf[a] = k

(* The counter that Submit compares with the capacity is the number of     *)
(* accepted actions that wait.                                             *)
QueuedCounts == queued = Cardinality(Waiting) /\ queued <= Capacity

(* Nobody sleeps on a channel whose news it has missed: a caller waits     *)
(* only while the queue is full, a worker only while no lane is ready, and *)
(* neither after closing.                                                  *)
NoLostWakeup ==
    /\ \A a \in Actions : caller[a] = "waiting" => queued = Capacity /\ ~closed
    /\ \A w \in Workers : place[w] = "waiting" => ready = <<>> /\ ~closed

(* When the pool is done, or the context of the actions is cancelled       *)
(* without an expired Shutdown, every accepted action has run.             *)
ShutdownDrains ==
    done \/ (canceled /\ shutdown # "expired")
        => \A a \in Actions : caller[a] = "accepted" => a \in finished

(* The order in which the dispatcher ends: a worker leaves only after      *)
(* closing, and the last one to leave saw no lane ready.                   *)
EndsInOrder ==
    /\ closed <=> shutdown # "no"
    /\ \A w \in Workers : place[w] = "exited" => closed
    /\ (\A w \in Workers : place[w] = "exited") => ready = <<>>
    /\ done => \A w \in Workers : place[w] = "exited"
    /\ canceled => done \/ shutdown = "expired"

(* The inductive invariant; ShutdownDrains follows from it.                *)
IInv ==
    /\ TypeOK
    /\ SerialExecution
    /\ ReadyOnce
    /\ LanesHaveWork
    /\ PlacedOnce
    /\ QueuedCounts /\ IsFiniteSet(Waiting)
    /\ NoLostWakeup
    /\ EndsInOrder

-----------------------------------------------------------------------------
(* The dispatcher implements the promise: lanes served one action at a     *)
(* time, in order, within the capacity.                                    *)
Lanes == INSTANCE SerialLanes
             WITH queue <- actions, executing <- Executing, open <- ~closed

ImplementsSerialLanes == Lanes!Spec

(* Every accepted action runs, before or after Shutdown.                   *)
AcceptedRuns == \A a \in Actions : caller[a] = "accepted" ~> a \in finished

(* Once closed, the pool ends and nobody is left waiting.                  *)
ShutdownEnds == closed ~> done /\ \A a \in Actions : caller[a] # "waiting"
=============================================================================
