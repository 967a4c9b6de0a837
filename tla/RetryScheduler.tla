----------------------------- MODULE RetryScheduler -----------------------------
(***************************************************************************)
(* The negative-acknowledgement pipeline of one partition:                 *)
(* BrokerService::HandleNack copies a message to the partition's %RETRY%   *)
(* log, or after too many attempts to its %DLQ% log, and RetryScheduler    *)
(* makes the copies visible to Fetch when they are due, in offset order.   *)
(*                                                                         *)
(* HandleNack holds nack_mutex_ throughout but the scheduler thread, the   *)
(* flusher, the clock and the consumers run between its steps, and the     *)
(* broker or the machine may die between any two.  The logs are abstracted *)
(* as OffsetLog promises: an ordered loss of unsynced records at the end.  *)
(* The scheduler's state lives in memory and is rebuilt from the log.      *)
(***************************************************************************)
EXTENDS Integers, Sequences

CONSTANTS
    Messages,    \* offsets of the original topic
    MaxRetries,  \* options_.retry.max_retries
    Delay,       \* options_.retry.delay, in ticks
    MaxLog,      \* bound on the length of the %RETRY% log
    MaxDlq,      \* bound on the length of the %DLQ% log
    MaxTime,     \* bound on the wall clock
    MaxAdjust,   \* bound on backward adjustments of the wall clock
    MaxPowerLoss \* bound on losses of power

ASSUME RetryAssumption ==
    /\ MaxRetries \in Nat \ {0}
    /\ {Delay, MaxLog, MaxDlq, MaxTime, MaxAdjust, MaxPowerLoss} \subseteq Nat

VARIABLES
    clock,     \* RetryNowMs(), the wall clock
    retry,     \* the %RETRY% log: retry metadata of each record
    dlq,       \* the %DLQ% log
    synced,    \* how many records of each log are on stable storage
    tasks,     \* tasks_
    ready,     \* Visibility::ready
    end,       \* Visibility::end, what VisibleEnd returns
    nack,      \* the HandleNack that holds nack_mutex_, or NoNack
    up,        \* the broker runs
    sync,      \* flush_policy is kSync; set by the configuration
    acked,     \* ghost: the length of each log when a Nack into it last succeeded
    adjusted,  \* ghost: how often the clock was set back
    seen,      \* ghost: the latest time the clock has shown
    outages    \* ghost: how often the machine lost power

logs == <<retry, dlq, synced>>
memory == <<tasks, ready, end>>
ghosts == <<acked, adjusted, seen, outages>>
vars == <<clock, logs, memory, nack, up, sync, ghosts>>

\* RetryMetadata of a copy: its original offset, attempt number and due time.
Copy == [orig : Messages, count : 1 .. MaxRetries + 1, time : Nat]
NoNack == [pc |-> "idle"]

--------------------------------------------------------------------------------
(* RetryScheduler *)

\* The least offset from e on that is not in s.
FirstMissing(s, e) ==
    CHOOSE x \in {e} \cup {y + 1 : y \in s} :
        x >= e /\ x \notin s /\ \A y \in e .. x - 1 : y \in s

\* Faulty variant: a task that is due before its predecessors is dropped.
MakeDueVisibleInOrder(ts, rd, e) ==
    LET due == {t \in ts : t.time <= clock}
        x == FirstMissing({t.offset : t \in due}, e)
    IN  [tasks |-> ts \ due, ready |-> rd, end |-> x]

\* Faulty variant: the end moves past every due task.
MakeDueVisibleUnordered(ts, rd, e) ==
    LET due == {t \in ts : t.time <= clock}
        ends == {e} \cup {t.offset + 1 : t \in due}
    IN  [tasks |-> ts \ due, ready |-> rd, end |-> CHOOSE x \in ends : \A y \in ends : y <= x]

\* MakeDueVisibleLocked: due tasks leave the queue; the visible end advances over
\* the offsets that are ready.
MakeDueVisible(ts, rd, e) ==
    LET due == {t \in ts : t.time <= clock}
        all == rd \cup {t.offset : t \in {u \in due : u.offset >= e}}
        x == FirstMissing(all, e)
    IN  [tasks |-> ts \ due, ready |-> {o \in all : o > x}, end |-> x]

SetMemory(m) == tasks' = m.tasks /\ ready' = m.ready /\ end' = m.end

\* Faulty variant: only what is not yet due is queued again.
RebuiltWithoutDue == {t \in {[offset |-> i - 1, time |-> retry[i].time] : i \in DOMAIN retry} :
                         t.time > clock}

\* The tasks Start finds in the %RETRY% log.
Rebuilt == {[offset |-> i - 1, time |-> retry[i].time] : i \in DOMAIN retry}

\* BrokerService::Start after the logs have been opened.
Start ==
    /\ ~up
    /\ up' = TRUE
    /\ SetMemory(MakeDueVisible(Rebuilt, {}, 0))
    /\ UNCHANGED <<clock, logs, nack, sync, ghosts>>

\* One round of the scheduler thread.
Run ==
    /\ up
    /\ \E t \in tasks : t.time <= clock
    /\ SetMemory(MakeDueVisible(tasks, ready, end))
    /\ UNCHANGED <<clock, logs, nack, up, sync, ghosts>>

--------------------------------------------------------------------------------
(* HandleNack *)

\* Faulty variant: the last attempt is dead-lettered instead.
DeadLetterEarly(count) == count >= MaxRetries

DeadLetter(count) == count > MaxRetries

\* The copy to write for attempt `count` of message m.
NextCopy(m, count) ==
    [orig |-> m, count |-> count, time |-> IF DeadLetter(count) THEN 0 ELSE clock + Delay]

Begin(copy) == nack' = [pc |-> "append", copy |-> copy]

\* Faulty variant: the attempt is counted from the copies that are there already.
NackOriginalCounted(m) ==
    /\ up
    /\ nack = NoNack
    /\ clock + Delay <= MaxTime
    /\ LET copies == {i \in DOMAIN retry : retry[i].orig = m}
       IN  Begin(NextCopy(m, 1 + IF copies = {} THEN 0 ELSE retry[CHOOSE i \in copies :
                                      \A j \in copies : retry[j].count <= retry[i].count].count))
    /\ UNCHANGED <<clock, logs, memory, up, sync, ghosts>>

\* A consumer rejects a message of the original topic; nothing tells whether it has
\* done so before.
NackOriginal(m) ==
    /\ up
    /\ nack = NoNack
    /\ clock + Delay <= MaxTime
    /\ Begin(NextCopy(m, 1))
    /\ UNCHANGED <<clock, logs, memory, up, sync, ghosts>>

\* A consumer rejects offset o of the %RETRY% topic, which must be visible.
NackRetry(o) ==
    /\ up
    /\ nack = NoNack
    /\ o < Len(retry)
    /\ o < end
    /\ clock + Delay <= MaxTime
    /\ Begin(NextCopy(retry[o + 1].orig, retry[o + 1].count + 1))
    /\ UNCHANGED <<clock, logs, memory, up, sync, ghosts>>

\* Faulty variant: the copy is scheduled by the reply, which a failed flush skips.
NackAppendUnscheduled ==
    /\ nack.pc = "append"
    /\ Len(retry) < MaxLog
    /\ retry' = Append(retry, nack.copy)
    /\ nack' = [nack EXCEPT !.pc = "flush"]
    /\ UNCHANGED <<clock, dlq, synced, memory, up, sync, ghosts>>

\* The copy is appended to its destination as a batch of one record.
NackAppend ==
    /\ nack.pc = "append"
    /\ IF DeadLetter(nack.copy.count)
       THEN /\ Len(dlq) < MaxDlq
            /\ dlq' = Append(dlq, nack.copy)
            /\ nack' = [nack EXCEPT !.pc = "flush"]
            /\ UNCHANGED retry
       ELSE /\ Len(retry) < MaxLog
            /\ retry' = Append(retry, nack.copy)
            /\ nack' = [nack EXCEPT !.pc = "schedule"]
            /\ UNCHANGED dlq
    /\ UNCHANGED <<clock, synced, memory, up, sync, ghosts>>

\* The append fails and so does the request.
NackAppendFails ==
    /\ nack.pc = "append"
    /\ nack' = NoNack
    /\ UNCHANGED <<clock, logs, memory, up, sync, ghosts>>

\* RetryScheduler::Schedule, before any flush.
NackSchedule ==
    /\ nack.pc = "schedule"
    /\ SetMemory(MakeDueVisible(
           tasks \cup {[offset |-> Len(retry) - 1, time |-> nack.copy.time]}, ready, end))
    /\ nack' = [nack EXCEPT !.pc = "flush"]
    /\ UNCHANGED <<clock, logs, up, sync, ghosts>>

\* Faulty variant: the source is flushed instead of the destination.
FlushedSource(copy) == [synced EXCEPT !.retry = Len(retry)]

\* CommitLog::Flush of the destination.
Flushed(copy) ==
    IF DeadLetter(copy.count) THEN [synced EXCEPT !.dlq = Len(dlq)]
    ELSE [synced EXCEPT !.retry = Len(retry)]

\* The destination is flushed if the policy says so, and the consumer is answered.
NackReply ==
    /\ nack.pc = "flush"
    /\ synced' = IF sync THEN Flushed(nack.copy) ELSE synced
    /\ acked' = IF DeadLetter(nack.copy.count) THEN [acked EXCEPT !.dlq = Len(dlq)]
                ELSE [acked EXCEPT !.retry = Len(retry)]
    /\ nack' = NoNack
    /\ UNCHANGED <<clock, retry, dlq, memory, up, sync, adjusted, seen, outages>>

\* The flush fails: the consumer is told so, but the copy stays.
NackFlushFails ==
    /\ nack.pc = "flush"
    /\ sync
    /\ nack' = NoNack
    /\ UNCHANGED <<clock, logs, memory, up, sync, ghosts>>

--------------------------------------------------------------------------------
(* The flusher, the clock, the process and the machine *)

\* A round of the asynchronous flusher.
FlushAll ==
    /\ up
    /\ ~sync
    /\ synced' = [retry |-> Len(retry), dlq |-> Len(dlq)]
    /\ UNCHANGED <<clock, retry, dlq, memory, nack, up, sync, ghosts>>

Later(t) == IF t > seen THEN t ELSE seen

Tick ==
    /\ clock < MaxTime
    /\ clock' = clock + 1
    /\ seen' = Later(clock')
    /\ UNCHANGED <<logs, memory, nack, up, sync, acked, adjusted, outages>>

\* The wall clock is set back.
SetBack ==
    /\ adjusted < MaxAdjust
    /\ clock > 0
    /\ clock' = clock - 1
    /\ adjusted' = adjusted + 1
    /\ UNCHANGED <<logs, memory, nack, up, sync, acked, seen, outages>>

Down ==
    /\ up' = FALSE
    /\ nack' = NoNack
    /\ tasks' = {} /\ ready' = {} /\ end' = 0
    /\ UNCHANGED <<clock, sync, acked, adjusted, seen>>

Crash == up /\ Down /\ UNCHANGED <<logs, outages>>

\* Unsynced records at the end of either log are lost.
PowerLoss(r, d) ==
    /\ outages < MaxPowerLoss
    /\ outages' = outages + 1
    /\ r >= synced.retry
    /\ d >= synced.dlq
    /\ retry' = SubSeq(retry, 1, r)
    /\ dlq' = SubSeq(dlq, 1, d)
    /\ synced' = [retry |-> r, dlq |-> d]
    /\ Down

Init ==
    /\ clock = 0
    /\ retry = <<>> /\ dlq = <<>> /\ synced = [retry |-> 0, dlq |-> 0]
    /\ tasks = {} /\ ready = {} /\ end = 0
    /\ nack = NoNack
    /\ up = FALSE
    /\ sync \in BOOLEAN
    /\ acked = [retry |-> 0, dlq |-> 0] /\ adjusted = 0 /\ seen = 0 /\ outages = 0

Next ==
    \/ Start
    \/ Run
    \/ \E m \in Messages : NackOriginal(m)
    \/ \E o \in 0 .. MaxLog - 1 : NackRetry(o)
    \/ NackAppend \/ NackAppendFails
    \/ NackSchedule
    \/ NackReply \/ NackFlushFails
    \/ FlushAll
    \/ Tick \/ SetBack
    \/ Crash
    \/ \E r \in 0 .. Len(retry), d \in 0 .. Len(dlq) : PowerLoss(r, d)

\* The scheduler rechecks at least once per second, a handler that holds the lock
\* goes on, time passes, and a broker that is down is started again.
Fairness ==
    /\ WF_vars(Run)
    /\ WF_vars(NackSchedule)
    /\ WF_vars(Tick)
    /\ WF_vars(Start)

Spec == Init /\ [][Next]_vars /\ Fairness

--------------------------------------------------------------------------------
(* Properties *)

\* The types of the variables; the visible end never passes the end of the log.
TypeOK ==
    /\ clock \in 0 .. MaxTime
    /\ retry \in Seq(Copy) /\ dlq \in Seq(Copy)
    /\ synced.retry \in 0 .. Len(retry) /\ synced.dlq \in 0 .. Len(dlq)
    /\ tasks \subseteq [offset : Nat, time : Nat]
    /\ ready \subseteq Nat
    /\ end \in 0 .. Len(retry)
    /\ nack.pc \in {"idle", "append", "schedule", "flush"}
    /\ nack.pc # "idle" => nack.copy \in Copy
    /\ {up, sync} \subseteq BOOLEAN
    /\ acked.retry \in 0 .. MaxLog /\ acked.dlq \in 0 .. MaxDlq

\* Appended but not yet scheduled: the copy of the Nack in progress.
Unscheduled == IF nack.pc = "schedule" THEN {Len(retry) - 1} ELSE {}

\* Every record of the %RETRY% log is either visible, ready behind one that is
\* not due, queued with its own due time, or about to be queued: no failed flush,
\* crash or clock change leaves a permanent hole in the visible prefix.
NoVisibilityHole ==
    up => /\ 0 .. Len(retry) - 1 =
               0 .. end - 1 \cup ready \cup {t.offset : t \in tasks} \cup Unscheduled
          /\ end \notin ready
          /\ \A t \in tasks : t.time = retry[t.offset + 1].time

\* A copy is never visible before it is due.
NeverEarly == \A o \in 0 .. end - 1 : retry[o + 1].time <= seen

\* `copy` was made from entry j of the retry log: the attempt before it, which had
\* fallen due when it was rejected.
MadeFrom(copy, j) ==
    /\ retry[j].orig = copy.orig
    /\ retry[j].count = copy.count - 1
    /\ retry[j].time <= seen

\* HandleNack is not idempotent: each Nack of one offset adds a copy, and they all
\* carry the same attempt number.  The number still tells how often the message
\* really failed: attempt n > 1 lies behind an attempt n - 1 that had been due when
\* it was rejected and, unless the clock was set back, is due at least Delay after
\* it; and the last attempt in this log is max_retries.
AttemptsInOrder ==
    \A i \in DOMAIN retry :
        /\ retry[i].count <= MaxRetries
        /\ retry[i].count > 1 =>
              \E j \in 1 .. i - 1 :
                  /\ MadeFrom(retry[i], j)
                  /\ adjusted = 0 => retry[j].time + Delay <= retry[i].time

\* A message is dead-lettered only after all its retries, however often each Nack was
\* repeated: its last attempt had been due, and is still in its log unless a power
\* loss took copies that no flush covered.
DeadLettersExhausted ==
    outages = 0 => \A i \in DOMAIN dlq :
        /\ dlq[i].count = MaxRetries + 1
        /\ \E j \in DOMAIN retry : MadeFrom(dlq[i], j)

\* A copy whose Nack succeeded is never lost when flushes are synchronous or the
\* machine keeps its power.
AckedCopiesKept ==
    sync \/ outages = 0 => acked.retry <= Len(retry) /\ acked.dlq <= Len(dlq)

\* What was visible before a restart is visible after it, as long as the clock
\* has not been set back.
VisibleAfterRestart ==
    [][Start /\ adjusted = 0 =>
          \A o \in 0 .. Len(retry) - 1 :
              (\A i \in 1 .. o + 1 : retry[i].time <= seen) => o < end']_vars

\* Every copy in the log becomes visible, unless a power loss takes it first.
EventuallyVisible ==
    \A o \in 0 .. MaxLog - 1 : []<>(o < Len(retry) => o < end)
================================================================================
