------------------------------- MODULE OffsetLog -------------------------------
(***************************************************************************)
(* What one partition's log promises to the broker: a sequence of records  *)
(* addressed by their index, the first `stable` of which have been         *)
(* reported flushed.  Records are only ever added at the end, an append is *)
(* all or nothing, and a failure never removes a stable record.            *)
(***************************************************************************)
EXTENDS Naturals, Sequences

CONSTANTS
    Chunks,   \* the record sequences one append may add
    Lost,     \* what stands at an index whose record is gone, while later ones are not
    Lossy,    \* TRUE when the machine may lose power, FALSE when only the process may die
    Holes     \* TRUE when it may lose a record and keep a later one

VARIABLES
    log,      \* log[o + 1] is the record with offset o
    stable    \* number of records covered by a successful flush

vars == <<log, stable>>

Init == log = <<>> /\ stable = 0

\* An append extends the log by one whole chunk; it may also take effect
\* without being acknowledged, when the process dies inside it.
Extend == \E c \in Chunks : log' = log \o c /\ UNCHANGED stable

\* A successful flush makes every record there is stable.
Sync == /\ stable' \in 0 .. Len(log)
        /\ \A i \in stable' + 1 .. Len(log) : log[i] = Lost
        /\ UNCHANGED log

\* A power loss may remove records, but never a stable one: from the end, or out of
\* the middle where the machine allows it.
Lose == /\ Lossy
        /\ LET kept == log'
           IN  /\ Len(kept) \in stable .. Len(log)
               /\ \A i \in DOMAIN kept :
                     kept[i] = log[i] \/ (Holes /\ i > stable /\ kept[i] = Lost)
        /\ UNCHANGED stable

Next == Extend \/ Sync \/ Lose

Spec == Init /\ [][Next]_vars
================================================================================
