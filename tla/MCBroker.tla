-------------------------------- MODULE MCBroker --------------------------------
(* Constants for the runs of Broker. *)
EXTENDS Broker, TLC

CONSTANTS w1, w2

MCWorkers == {w1, w2}
MCSymmetry == Permutations(MCWorkers)
================================================================================
