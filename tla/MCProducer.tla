------------------------------- MODULE MCProducer --------------------------------
(* Constants for the run of Producer. *)
EXTENDS Producer

CONSTANTS t1, t2

MCThreads == {t1, t2}
\* t1's batches have a key, t2's neither key nor partition.
MCTarget == [t \in Threads |-> IF t = t1 THEN 1 ELSE InTurn]
MCBatches == [t \in Threads |-> IF t = t1 THEN 2 ELSE 1]
================================================================================
