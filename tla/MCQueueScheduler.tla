-------------------------- MODULE MCQueueScheduler --------------------------
(* Constants for TLC: each task has an id of its own, or all share one. *)
EXTENDS QueueScheduler

CONSTANTS t1, t2

OwnIds == [t \in Tasks |-> t]
OneId == [t \in Tasks |-> t1]
FirstUrgent == [t \in Tasks |-> IF t = t1 THEN 4 ELSE 2]

=============================================================================
