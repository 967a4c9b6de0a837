-------------------------------- MODULE MCServer --------------------------------
(* Constants for the runs of Server.  A new connection may take any free          *)
(* descriptor, the one just closed included.                                      *)
EXTENDS Server, TLC

CONSTANTS c1, c2, w1, w2

MCClients == {c1, c2}
MCWorkers == {w1, w2}
MCFds == 1 .. 2
MCOneFd == {1}
MCTwoEach == [c \in Clients |-> 2]
MCTwoAndOne == [c \in Clients |-> IF c = c1 THEN 2 ELSE 1]
MCSymmetry == Permutations(MCClients) \cup Permutations(MCWorkers)
================================================================================
