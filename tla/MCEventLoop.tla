------------------------------ MODULE MCEventLoop -------------------------------
(* Constants for the run of EventLoop. *)
EXTENDS EventLoop

CONSTANTS c1, c2, f1, f2

MCConns == {c1, c2}
MCFds == {f1, f2}
MCSymmetry == Permutations(MCConns) \cup Permutations(MCFds)
================================================================================
