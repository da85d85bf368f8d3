--------------------------- MODULE MCQueueEntries ---------------------------
EXTENDS QueueEntries, TLC
CONSTANTS ann, bob, eve

(* Three people contend for two places in one run; two people meet         *)
(* moderators in two runs.                                                 *)
Contended == [people |-> {ann, bob, eve}, runs |-> 1, repeated |-> {"self"},
              entries |-> 3, blocks |-> 0, messages |-> 1]
Moderated == [people |-> {ann, bob}, runs |-> 2, repeated |-> {},
              entries |-> 2, blocks |-> 2, messages |-> 2]
Instances == {Contended, Moderated}
=============================================================================
