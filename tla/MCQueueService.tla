--------------------------- MODULE MCQueueService ---------------------------
(* Two overlapping runs, as before and after a change of settings: a run   *)
(* opens at 1 and closes at 2, its replacement opens at 2 and closes at 3. *)
EXTENDS QueueService

MCOpensAt == [r \in Runs |-> r]
MCClosesAt == [r \in Runs |-> r + 1]
=============================================================================
