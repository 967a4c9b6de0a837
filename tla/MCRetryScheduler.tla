---------------------------- MODULE MCRetryScheduler ----------------------------
(* Constants for the run of RetryScheduler. *)
EXTENDS RetryScheduler

CONSTANTS m1
MCMessages == {m1}
================================================================================
