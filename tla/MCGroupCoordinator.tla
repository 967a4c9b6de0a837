--------------------------- MODULE MCGroupCoordinator ----------------------------
(* Constants for the runs of GroupCoordinator.  A later member sorts before an   *)
(* earlier one, as "member-10" does before "member-9".                           *)
EXTENDS GroupCoordinator, TLC

CONSTANTS c1, c2

MCClients == {c1, c2}
MCOneTopic == {"orders"}
MCOnePartitionCount == [t \in MCOneTopic |-> 3]
MCIdRank == [m \in MemberIds |-> MaxMembers - m]
MCSymmetry == Permutations(MCClients)
================================================================================
