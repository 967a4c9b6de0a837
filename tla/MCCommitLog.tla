----------------------------- MODULE MCCommitLog ------------------------------
(* Constants for the runs of CommitLog: a one-record payload, and a two-record *)
(* payload whose batch is larger than what the smaller one leaves in a segment. *)
EXTENDS CommitLog

MCPayloads == {"one", "two"}
MCRecordCount == [p \in MCPayloads |-> IF p = "one" THEN 1 ELSE 2]
MCPayloadBytes == [p \in MCPayloads |-> IF p = "one" THEN 1 ELSE 4]
================================================================================
