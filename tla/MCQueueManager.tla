-------------------------- MODULE MCQueueManager --------------------------
(* The dependencies of the instances of QueueManager that TLC checks.      *)
EXTENDS QueueManager

Independent == [j \in Job |-> NoJob]
PairAndOne == [j \in Job |-> IF j = 2 THEN 1 ELSE NoJob]
Chain == [j \in Job |-> IF j > 1 THEN j - 1 ELSE NoJob]
============================================================================
