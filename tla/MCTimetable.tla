----------------------------- MODULE MCTimetable -----------------------------
(* Two instances of Timetable: see README.md.                              *)
EXTENDS Timetable

CONSTANTS r1, r2, o1, t1, t2

MCRuns == [opens : Int, closes : Int]

Monday(type, start, end) == [day |-> 0, week |-> type, start |-> start, end |-> end]

(* One schedule that crosses midnight, through a fortnight.                *)
Fortnight == [schedules |-> {r1}, topics |-> {t1}, away |-> t1,
              slots |-> [s \in Schedules |-> Monday("odd", 2, 1)],
              from |-> 42, until |-> 86, sent |-> 42, updates |-> 1, stops |-> FALSE]

(* Two changes of the settings and a restart, from Sunday to Monday.       *)
Changes == [Fortnight EXCEPT !.from = 61, !.until = 64, !.updates = 2, !.stops = TRUE]

(* Three queues in two topics, around one evening.                         *)
Evening == [schedules |-> {r1, r2, o1}, topics |-> {t1, t2}, away |-> t1,
            slots |-> [s \in Schedules |-> Monday("odd", 1, 2)],
            from |-> 42, until |-> 44, sent |-> 42, updates |-> 0, stops |-> FALSE]

MCLimits == {Fortnight, Changes, Evening}
==============================================================================
