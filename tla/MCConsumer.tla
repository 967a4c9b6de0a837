------------------------------- MODULE MCConsumer --------------------------------
(* Constants for the runs of Consumer. *)
EXTENDS Consumer, TLC

CONSTANTS c1, c2

MCConsumers == {c1, c2}
MCOneConsumer == {c1}
MCMain == {"main"}
MCMainAndRetry == {"main", "retry"}
MCGhosts == {"sync"}
MCTopics == {"orders"}
MCTwoTopics == {"orders", "other"}
MCOneRecord == [l \in Logs |-> 1]
MCTwoAndCopy == [l \in Logs |-> IF l[1] # "orders" THEN 0 ELSE IF l[3] = "main" THEN 2 ELSE 1]
MCSymmetry == Permutations(MCConsumers)
================================================================================
