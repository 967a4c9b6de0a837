----------------------------- MODULE MCAsyncFlusher -----------------------------
(* Constants for the runs of AsyncFlusher. *)
EXTENDS AsyncFlusher

MCPartitions == {"orders-0", "orders-1", "payments-0"}
================================================================================
