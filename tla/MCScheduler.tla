---------------------------- MODULE MCScheduler ----------------------------
(* The run of an old message, 1 to 2, which no calendar has (any more),    *)
(* and two runs, 2 to 3 and 3 to 4.                                        *)
EXTENDS Scheduler, TLC

MCOpensAt == (0 :> 1) @@ (1 :> 2) @@ (2 :> 3)
MCClosesAt == (0 :> 2) @@ (1 :> 3) @@ (2 :> 4)
MCCalendar == [weekly |-> [odd |-> {1, 2}, even |-> {2}], edited |-> [odd |-> {2}, even |-> {1}]]
=============================================================================
