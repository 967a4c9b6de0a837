------------------------------ MODULE AsyncFlusher ------------------------------
(***************************************************************************)
(* The asynchronous flush policy: the flusher thread of BrokerService      *)
(* sleeps on a condition variable for one flush interval, flushes all      *)
(* partitions through TopicManager::Flush, and is stopped by Close.        *)
(*                                                                         *)
(* wait_for is what the library makes of it: the predicate is evaluated    *)
(* under flusher_mutex_, the thread then blocks, and it wakes when it is   *)
(* notified while blocked, when the time is over, or spuriously.  Close    *)
(* sets stop_flusher_ and notifies without taking flusher_mutex_, so both  *)
(* may fall between the evaluation and the blocking.                       *)
(***************************************************************************)
EXTENDS Naturals

CONSTANTS
    Partitions,  \* the partitions of all topics
    Broken       \* partitions whose CommitLog::Flush fails

ASSUME FlusherAssumption == Broken \subseteq Partitions

VARIABLES
    pc,         \* flusher: "check", "entering", "sleep", "flush" or "done"
    remaining,  \* partitions TopicManager::Flush has still to visit
    stop,       \* stop_flusher_
    closer,     \* BrokerService::Close: "open", "notify", "join" or "closed"
    dirty       \* partitions with records not yet flushed

vars == <<pc, remaining, stop, closer, dirty>>

--------------------------------------------------------------------------------
(* RunAsyncFlusher *)

\* The predicate of wait_for.
Evaluate ==
    /\ pc = "check"
    /\ pc' = IF stop THEN "done" ELSE "entering"
    /\ UNCHANGED <<remaining, stop, closer, dirty>>

\* The thread blocks and releases flusher_mutex_.
Enter ==
    /\ pc = "entering"
    /\ pc' = "sleep"
    /\ UNCHANGED <<remaining, stop, closer, dirty>>

\* A spurious wakeup: the predicate is evaluated again.
Spurious ==
    /\ pc = "sleep"
    /\ pc' = "check"
    /\ UNCHANGED <<remaining, stop, closer, dirty>>

\* Faulty variant: the loop ends when the wait times out.
TimeoutEnds ==
    /\ pc = "sleep"
    /\ pc' = "done"
    /\ UNCHANGED <<remaining, stop, closer, dirty>>

\* The flush interval is over: stop_flusher_ is read once more, and unless it is
\* set TopicManager::Flush begins.
Timeout ==
    /\ pc = "sleep"
    /\ pc' = IF stop THEN "done" ELSE "flush"
    /\ remaining' = IF stop THEN {} ELSE Partitions
    /\ UNCHANGED <<stop, closer, dirty>>

\* TopicManager::Flush reaches partition p (in the order of an unordered_map): the
\* first error ends the whole round.
FlushPartition(p) ==
    /\ pc = "flush"
    /\ p \in remaining
    /\ IF p \in Broken
       THEN remaining' = {} /\ UNCHANGED dirty
       ELSE remaining' = remaining \ {p} /\ dirty' = dirty \ {p}
    /\ UNCHANGED <<pc, stop, closer>>

\* The result of the round is ignored; the loop goes on.
RoundEnds ==
    /\ pc = "flush"
    /\ remaining = {}
    /\ pc' = "check"
    /\ UNCHANGED <<remaining, stop, closer, dirty>>

--------------------------------------------------------------------------------
(* Requests and Close *)

\* HandleProduce and HandleNack append and do not flush.
AppendRecord(p) ==
    /\ closer = "open"
    /\ dirty' = dirty \cup {p}
    /\ UNCHANGED <<pc, remaining, stop, closer>>

\* Faulty variant: the flag is not set.
CloseWithoutStore ==
    /\ closer = "open"
    /\ closer' = "notify"
    /\ UNCHANGED <<pc, remaining, stop, dirty>>

CloseStore ==
    /\ closer = "open"
    /\ stop' = TRUE
    /\ closer' = "notify"
    /\ UNCHANGED <<pc, remaining, dirty>>

\* notify_all wakes the flusher only if it is blocked.
CloseNotify ==
    /\ closer = "notify"
    /\ pc' = IF pc = "sleep" THEN "check" ELSE pc
    /\ closer' = "join"
    /\ UNCHANGED <<remaining, stop, dirty>>

CloseJoin ==
    /\ closer = "join"
    /\ pc = "done"
    /\ closer' = "closed"
    /\ UNCHANGED <<pc, remaining, stop, dirty>>

Init ==
    /\ pc = "check"
    /\ remaining = {}
    /\ stop = FALSE
    /\ closer = "open"
    /\ dirty = {}

Flusher ==
    \/ Evaluate
    \/ Enter
    \/ Timeout
    \/ \E p \in Partitions : FlushPartition(p)
    \/ RoundEnds

Next ==
    \/ Flusher
    \/ Spurious
    \/ \E p \in Partitions : AppendRecord(p)
    \/ CloseStore
    \/ CloseNotify
    \/ CloseJoin

\* The flusher thread keeps running, its waits end (a thread that only wakes
\* spuriously reaches the deadline all the same), and so does a Close once begun.
Fairness ==
    /\ WF_vars(Flusher)
    /\ SF_vars(Timeout)
    /\ WF_vars(CloseNotify)
    /\ WF_vars(CloseJoin)

Spec == Init /\ [][Next]_vars /\ Fairness

--------------------------------------------------------------------------------
(* Properties *)

\* If every disk works, every record appended until the broker is closed is flushed
\* some interval later.  (With a broken one the others may wait behind it for ever.)
EveryAppendFlushed ==
    \A p \in Partitions \ Broken : p \in dirty ~> p \notin dirty \/ closer # "open"

\* Close returns, wherever in its loop the flusher is when the flag is set.
CloseReturns == closer # "open" ~> closer = "closed"
================================================================================
