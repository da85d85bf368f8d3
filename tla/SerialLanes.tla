----------------------------- MODULE SerialLanes -----------------------------
(***************************************************************************)
(* What dispatch/dispatch.go promises to the handlers of Telegram updates: *)
(* actions with one key (a topic or a user) run one at a time, in the      *)
(* order in which they were accepted; at most Capacity accepted actions    *)
(* wait; after closing none is accepted, and those accepted still run.     *)
(* There are no workers, wait channels or lists of ready keys here.        *)
(***************************************************************************)
EXTENDS Naturals, Sequences, FiniteSets, SequencesExt

CONSTANTS
    Actions,   \* the actions that callers may submit, each at most once
    Keys,      \* the keys that serialise them
    KeyOf,     \* KeyOf[a]: the key of action a
    Capacity   \* how many accepted actions may wait

VARIABLES
    queue,      \* queue[k]: the accepted actions of key k that have not started
    executing,  \* the actions in progress
    finished,   \* the actions that have run
    open        \* are actions still accepted

vars == <<queue, executing, finished, open>>

Waiting == {a \in Actions : Contains(queue[KeyOf[a]], a)}
Accepted == Waiting \cup executing \cup finished

Init ==
    /\ queue = [k \in Keys |-> <<>>]
    /\ executing = {} /\ finished = {}
    /\ open = TRUE

Accept(a) ==
    /\ open
    /\ a \notin Accepted
    /\ Cardinality(Waiting) < Capacity
    /\ queue' = [queue EXCEPT ![KeyOf[a]] = Append(@, a)]
    /\ UNCHANGED <<executing, finished, open>>

(* The oldest action of key k starts; none of that key is in progress.     *)
Start(k) ==
    /\ queue[k] # <<>>
    /\ \A a \in executing : KeyOf[a] # k
    /\ executing' = executing \cup {Head(queue[k])}
    /\ queue' = [queue EXCEPT ![k] = Tail(@)]
    /\ UNCHANGED <<finished, open>>

End(a) ==
    /\ a \in executing
    /\ executing' = executing \ {a}
    /\ finished' = finished \cup {a}
    /\ UNCHANGED <<queue, open>>

Close == open /\ open' = FALSE /\ UNCHANGED <<queue, executing, finished>>

Next == \/ \E a \in Actions : Accept(a) \/ End(a)
        \/ \E k \in Keys : Start(k)
        \/ Close

Spec == Init /\ [][Next]_vars
=============================================================================
