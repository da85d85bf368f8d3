------------------------------- MODULE Seating -------------------------------
(***************************************************************************)
(* What a queue promises to the people who stand in it, whatever the       *)
(* buttons, transactions and answers are that bring it about: a person has *)
(* at most one place and a place at most one person; the mark of having    *)
(* handed in stays with the person, also when two people exchange places;  *)
(* somebody who was removed and barred stays out until the bar is lifted;  *)
(* only the end of a run empties the queue at once.                        *)
(***************************************************************************)
EXTENDS Naturals

CONSTANTS People, Capacity

VARIABLES
    place,    \* place[p]: where p stands, 0 outside the queue
    marked,   \* the people in the queue who have handed in
    barred    \* the people who must not come back yet

vars == <<place, marked, barred>>

Standing == {p \in People : place[p] # 0}

Init == /\ place = [p \in People |-> 0]
        /\ marked = {} /\ barred = {}

Enter(p, n) ==
    /\ p \notin Standing \cup barred
    /\ \A q \in People : place[q] # n
    /\ place' = [place EXCEPT ![p] = n]
    /\ UNCHANGED <<marked, barred>>

Leave(p) ==
    /\ p \in Standing
    /\ place' = [place EXCEPT ![p] = 0]
    /\ marked' = marked \ {p}
    /\ UNCHANGED barred

(* A moderator removes p, with or without a bar.                           *)
Remove(p) == /\ p \in Standing
             /\ place' = [place EXCEPT ![p] = 0]
             /\ marked' = marked \ {p}
             /\ barred' \in {barred, barred \cup {p}}

Exchange(p, q) ==
    /\ {p, q} \subseteq Standing
    /\ place' = [place EXCEPT ![p] = place[q], ![q] = place[p]]
    /\ UNCHANGED <<marked, barred>>

Mark(p) == /\ p \in Standing
           /\ marked' \in {marked \cup {p}, marked \ {p}}
           /\ UNCHANGED <<place, barred>>

Lift(p) == /\ barred' = barred \ {p}
           /\ UNCHANGED <<place, marked>>

(* A run ends or the next one begins.                                      *)
Clear == /\ place' = [p \in People |-> 0]
         /\ marked' = {} /\ barred' = {}

Next == \/ \E p \in People : Lift(p) \/ Leave(p) \/ Remove(p) \/ Mark(p)
        \/ \E p \in People, n \in 1..Capacity : Enter(p, n)
        \/ \E p, q \in People : p # q /\ Exchange(p, q)
        \/ Clear

Spec == Init /\ [][Next]_vars
=============================================================================
