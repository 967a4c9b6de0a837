----------------------------- MODULE DeliveryProofs ------------------------------
(***************************************************************************)
(* The two parts of delivery that try again: the broker's retries of       *)
(* records a consumer has refused, and the producer's retries of batches.  *)
(*                                                                         *)
(* RetryScheduler, for every number of messages, retries, delay, log       *)
(* length, clock change and power loss: no record of the %RETRY% log is    *)
(* ever left out of the visible prefix for good, shown before it is due,   *)
(* retried too often or too fast, or lost after its Nack succeeded.  The   *)
(* invariant adds to the properties what HandleNack relies on between its  *)
(* steps: the copy it carries was made from a visible attempt, and the     *)
(* copy it is about to schedule is the last record of the log.             *)
(*                                                                         *)
(* Producer, for any number of threads, partitions, batches and            *)
(* retries: a batch reported as sent is where the response says, and       *)
(* duplicates never bring the first copies of a thread's batches out of    *)
(* order.  The invariant says of every successful response on its way what *)
(* AckedStored says of the outcomes, and that only batches whose SendBatch *)
(* has begun are in a request or in a log: so no copy of a later batch     *)
(* exists when an earlier one is acknowledged.                             *)
(***************************************************************************)
EXTENDS RetryScheduler, Producer, SequenceTheorems, WellFoundedInduction, TLAPS

Offsets(ts) == {t.offset : t \in ts}

Types ==
    /\ clock \in Nat /\ seen \in Nat /\ clock <= seen
    /\ adjusted \in Nat /\ (adjusted = 0 => clock = seen)
    /\ outages \in Nat
    /\ retry \in Seq(Copy) /\ dlq \in Seq(Copy)
    /\ synced \in [retry : Nat, dlq : Nat] /\ acked \in [retry : Nat, dlq : Nat]
    /\ nack = NoNack \/ nack \in [pc : {"append", "schedule", "flush"}, copy : Copy]
    /\ up \in BOOLEAN /\ sync \in BOOLEAN

\* A copy is attempt n > 1 because attempt n - 1 lies among the first k records and
\* was due by some time that the clock has shown.
Justified(copy, recs, k, adj, shown) ==
    copy.count > 1 =>
        \E j \in 1 .. k : /\ recs[j].orig = copy.orig
                          /\ recs[j].count = copy.count - 1
                          /\ recs[j].time <= shown
                          /\ adj = 0 /\ copy.count <= MaxRetries =>
                                recs[j].time + Delay <= copy.time

\* HandleNack between its steps.
Pending ==
    /\ nack # NoNack => up
    /\ nack.pc = "append" => Justified(nack.copy, retry, Len(retry), adjusted, seen)
    /\ nack.pc = "schedule" => Len(retry) >= 1 /\ retry[Len(retry)] = nack.copy

\* What the scheduler holds of the first n records of a log: each is visible, ready or
\* queued with its due time, and what is visible or ready was due.
MemoryOk(ts, rd, e, n, recs, time) ==
    /\ ts \subseteq [offset : Nat, time : Nat]
    /\ e \in 0 .. n /\ e \notin rd
    /\ 0 .. e - 1 \cup rd \cup Offsets(ts) = 0 .. n - 1
    /\ \A t \in ts : t.time = recs[t.offset + 1].time
    /\ \A o \in 0 .. e - 1 \cup rd : recs[o + 1].time <= time

\* The records that have been scheduled.
Queued == IF nack.pc = "schedule" THEN Len(retry) - 1 ELSE Len(retry)

\* The memory of the scheduler does not survive the process.
Memory ==
    /\ ~up => tasks = {} /\ ready = {} /\ end = 0
    /\ up => MemoryOk(tasks, ready, end, Queued, retry, seen)

Attempts ==
    \A i \in DOMAIN retry : /\ retry[i].count <= MaxRetries
                            /\ Justified(retry[i], retry, i - 1, adjusted, seen)

Durable ==
    /\ synced.retry <= Len(retry) /\ synced.dlq <= Len(dlq)
    /\ sync => acked.retry <= synced.retry /\ acked.dlq <= synced.dlq
    /\ outages = 0 => acked.retry <= Len(retry) /\ acked.dlq <= Len(dlq)

Inv == Types /\ Pending /\ Memory /\ Attempts /\ DeadLettersExhausted /\ Durable

----------------------------------------
(* Least elements *)

NatLess == {p \in Nat \X Nat : p[1] < p[2]}

LEMMA NatLessWellFounded == IsWellFoundedOn(NatLess, Nat)
BY NatLessThanWellFounded DEF OpToRel, NatLess

LEMMA LeastElement ==
    ASSUME NEW S, S \subseteq Nat, S # {}
    PROVE  \E x \in S : \A y \in S : x <= y
<1>1. PICK x \in S : \A y \in S : <<y, x>> \notin NatLess
  BY NatLessWellFounded, WFMin
<1>2. ASSUME NEW y \in S PROVE x <= y
  <2>a. y \in Nat /\ x \in Nat
    OBVIOUS
  <2>b. ~(y < x)
    BY <1>1, <2>a DEF NatLess
  <2> QED BY <2>a, <2>b
<1> QED BY <1>2

----------------------------------------
(* MakeDueVisible *)

\* The loop that advances the visible end stops at the first offset that is not ready.
LEMMA FirstMissingIs ==
    ASSUME NEW s, NEW n \in Nat, s \subseteq 0 .. n - 1, NEW e \in 0 .. n
    PROVE  LET x == FirstMissing(s, e)
           IN  x \in e .. n /\ x \notin s /\ \A y \in e .. x - 1 : y \in s
<1> DEFINE P(x) == x >= e /\ x \notin s /\ \A y \in e .. x - 1 : y \in s
           S == {x \in Nat : x >= e /\ x \notin s}
           C == {e} \cup {y + 1 : y \in s}
           x == CHOOSE z \in C : P(z)
<1>1. n \in S
  OBVIOUS
<1>2. PICK z \in S : \A y \in S : z <= y
  BY <1>1, LeastElement
<1>3. z \in Nat /\ z >= e /\ z \notin s /\ e \in Nat
  BY <1>2
<1>4. ASSUME NEW y \in e .. z - 1 PROVE y \in s
  <2>a. y \in Nat /\ y >= e /\ ~(z <= y)
    BY <1>3
  <2> QED BY <1>2, <2>a
<1>5. z \in C
  <2>a. CASE z = e
    BY <2>a
  <2>b. CASE z # e
    <3>1. z - 1 \in e .. z - 1 /\ (z - 1) + 1 = z
      BY <1>3, <2>b
    <3>2. z - 1 \in s
      BY <1>4, <3>1
    <3> QED BY <3>1, <3>2
  <2> QED BY <2>a, <2>b
<1>6. P(z)
  BY <1>3, <1>4
<1>7. x \in C /\ P(x)
  <2> HIDE DEF P, C
  <2> QED BY <1>5, <1>6
<1>8. FirstMissing(s, e) = x
  BY DEF FirstMissing
<1>9. x \in Nat /\ x <= n
  <2>a. \A y \in s : y + 1 \in Nat /\ y + 1 <= n
    OBVIOUS
  <2> HIDE DEF x, P
  <2> QED BY <1>3, <1>7, <2>a
<1> HIDE DEF x
<1> QED BY <1>3, <1>7, <1>8, <1>9

\* Nothing is lost, and what becomes visible or ready was due.
Advanced(ts, rd, e, n, m) ==
    /\ m.tasks \subseteq ts /\ m.ready \subseteq 0 .. n - 1 /\ m.end \in e .. n
    /\ m.end \notin m.ready
    /\ 0 .. m.end - 1 \cup m.ready \cup Offsets(m.tasks) = 0 .. n - 1
    /\ \A o \in 0 .. m.end - 1 \cup m.ready :
          o \in 0 .. e - 1 \cup rd \/ \E t \in ts : t.offset = o /\ t.time <= clock
    /\ \A t \in ts : t.time <= clock /\ t.offset >= e => m.end # t.offset

LEMMA VisibleOk ==
    ASSUME NEW ts, NEW rd, NEW e, NEW n \in Nat, NEW recs, NEW time, clock \in Nat,
           MemoryOk(ts, rd, e, n, recs, time)
    PROVE  Advanced(ts, rd, e, n, MakeDueVisible(ts, rd, e))
<1>1. /\ e \in 0 .. n /\ ts \subseteq [offset : Nat, time : Nat]
      /\ 0 .. e - 1 \cup rd \cup Offsets(ts) = 0 .. n - 1
  BY DEF MemoryOk
<1> DEFINE due == {t \in ts : t.time <= clock}
           all == rd \cup {t.offset : t \in {u \in due : u.offset >= e}}
           x == FirstMissing(all, e)
           left == ts \ due
           kept == {o \in all : o > x}
<1>2. MakeDueVisible(ts, rd, e) = [tasks |-> left, ready |-> kept, end |-> x]
  BY DEF MakeDueVisible
<1>3. all \subseteq 0 .. n - 1
  <2>a. rd \subseteq 0 .. n - 1 /\ \A t \in ts : t.offset \in 0 .. n - 1
    BY <1>1 DEF Offsets
  <2> QED BY <2>a
<1>4. x \in e .. n /\ x \notin all /\ \A y \in e .. x - 1 : y \in all
  <2> HIDE DEF all, x
  <2>a. x = FirstMissing(all, e)
    BY DEF x
  <2> QED BY <1>1, <1>3, <2>a, FirstMissingIs
<1>5. \A t \in ts : t.offset \in Nat /\ t.time \in Nat
  BY <1>1
<1>6. \A o \in all : o \in rd \/ \E t \in ts : t.offset = o /\ t.time <= clock
  OBVIOUS
<1>7. rd \subseteq all /\ \A t \in ts : t.time <= clock /\ t.offset >= e => t.offset \in all
  OBVIOUS
<1>8. \A t \in ts : t \in left \/ t.time <= clock
  OBVIOUS
<1>9. left \subseteq ts /\ \A t \in left : t \in ts
  OBVIOUS
<1>10. /\ \A o \in 0 .. n - 1 : o \in 0 .. e - 1 \/ o \in rd \/ \E t \in ts : o = t.offset
      /\ \A t \in ts : t.offset \in 0 .. n - 1
  BY <1>1 DEF Offsets
<1>11. \A o \in kept : o \in all /\ o > x
  OBVIOUS
<1>12. \A o \in all : o > x => o \in kept
  OBVIOUS
<1> HIDE DEF due, all, x, left, kept
<1>13. kept \subseteq 0 .. n - 1 /\ x \notin kept
  BY <1>3, <1>4, <1>11
<1>14. ASSUME NEW o \in 0 .. n - 1
       PROVE  o \in 0 .. x - 1 \cup kept \cup Offsets(left)
  <2>a. CASE o \in all
    <3>1. o \in Nat /\ x \in Nat /\ o # x
      BY <1>1, <1>4, <2>a
    <3>2. o < x \/ o > x
      BY <3>1
    <3> QED BY <1>12, <2>a, <3>1, <3>2
  <2>b. CASE o \in 0 .. e - 1
    BY <1>1, <1>4, <2>b
  <2>c. CASE \E t \in ts : o = t.offset
    <3>1. PICK t \in ts : o = t.offset
      BY <2>c
    <3>2. CASE t \in left
      BY <3>1, <3>2 DEF Offsets
    <3>3. CASE t.time <= clock
      <4>1. t.offset >= e \/ t.offset \in 0 .. e - 1
        BY <1>1, <1>5
      <4> QED BY <1>7, <2>a, <2>b, <3>1, <3>3, <4>1
    <3> QED BY <1>8, <3>2, <3>3
  <2> QED BY <1>7, <1>10, <2>a, <2>b, <2>c
<1>15. ASSUME NEW o \in 0 .. x - 1 \cup kept \cup Offsets(left)
       PROVE  o \in 0 .. n - 1
  <2>a. CASE o \in 0 .. x - 1
    BY <1>4, <2>a
  <2>b. CASE o \in kept
    BY <1>13, <2>b
  <2>c. CASE o \in Offsets(left)
    BY <1>9, <1>10, <2>c DEF Offsets
  <2> QED BY <2>a, <2>b, <2>c
<1>16. 0 .. x - 1 \cup kept \cup Offsets(left) = 0 .. n - 1
  BY <1>14, <1>15
<1>17. ASSUME NEW o \in 0 .. x - 1 \cup kept
       PROVE  o \in 0 .. e - 1 \cup rd \/ \E t \in ts : t.offset = o /\ t.time <= clock
  <2>a. CASE o \in kept
    BY <1>6, <1>11, <2>a
  <2>b. CASE o \in 0 .. x - 1
    <3>1. o \in 0 .. e - 1 \/ o \in e .. x - 1
      BY <1>1, <1>4, <2>b
    <3> QED BY <1>4, <1>6, <3>1
  <2> QED BY <2>a, <2>b
<1> QED BY <1>1, <1>2, <1>4, <1>7, <1>9, <1>13, <1>16, <1>17 DEF Advanced

\* A round of the scheduler keeps its memory right.
LEMMA MakeDueVisibleOk ==
    ASSUME Inv, NEW ts, NEW rd, NEW e, NEW n \in Nat, MemoryOk(ts, rd, e, n, retry, seen)
    PROVE  LET m == MakeDueVisible(ts, rd, e)
           IN  MemoryOk(m.tasks, m.ready, m.end, n, retry, seen)
<1>1. clock \in Nat /\ seen \in Nat /\ clock <= seen
  BY DEF Inv, Types
<1>2. /\ ts \subseteq [offset : Nat, time : Nat] /\ e \in 0 .. n
      /\ 0 .. e - 1 \cup rd \cup Offsets(ts) = 0 .. n - 1
      /\ \A t \in ts : t.time = retry[t.offset + 1].time
      /\ \A o \in 0 .. e - 1 \cup rd : retry[o + 1].time <= seen
  BY DEF MemoryOk
<1>3. PICK m : m = MakeDueVisible(ts, rd, e)
  OBVIOUS
<1>4. /\ m.tasks \subseteq ts /\ m.ready \subseteq 0 .. n - 1 /\ m.end \in e .. n
      /\ m.end \notin m.ready
      /\ 0 .. m.end - 1 \cup m.ready \cup Offsets(m.tasks) = 0 .. n - 1
      /\ \A o \in 0 .. m.end - 1 \cup m.ready :
            o \in 0 .. e - 1 \cup rd \/ \E t \in ts : t.offset = o /\ t.time <= clock
  <2>a. Advanced(ts, rd, e, n, m)
    BY <1>1, <1>3, VisibleOk
  <2> QED BY <2>a DEF Advanced
<1>5. ASSUME NEW o \in 0 .. m.end - 1 \cup m.ready PROVE retry[o + 1].time <= seen
  <2>a. CASE o \in 0 .. e - 1 \cup rd
    BY <1>2, <2>a
  <2>b. CASE \E t \in ts : t.offset = o /\ t.time <= clock
    <3>1. PICK t \in ts : t.offset = o /\ t.time <= clock
      BY <2>b
    <3>2. t.time \in Nat /\ t.time = retry[o + 1].time
      BY <1>2, <3>1
    <3> QED BY <1>1, <3>1, <3>2
  <2> QED BY <1>4, <2>a, <2>b
<1>6. m.end \in 0 .. n
  BY <1>2, <1>4
<1>7. MemoryOk(m.tasks, m.ready, m.end, n, retry, seen)
  BY <1>2, <1>4, <1>5, <1>6 DEF MemoryOk
<1> QED BY <1>3, <1>7

----------------------------------------
(* The steps *)

LEMMA Constants == MaxRetries \in Nat /\ MaxRetries >= 1 /\ Delay \in Nat
BY RetryAssumption

LEMMA LogTypes ==
    ASSUME NEW recs \in Seq(Copy)
    PROVE  /\ Len(recs) \in Nat /\ DOMAIN recs = 1 .. Len(recs)
           /\ \A i \in 1 .. Len(recs) : /\ recs[i] \in Copy /\ recs[i].count \in Nat
                                       /\ recs[i].time \in Nat /\ recs[i].orig \in Messages
<1>1. Len(recs) \in Nat /\ DOMAIN recs = 1 .. Len(recs) /\ \A i \in 1 .. Len(recs) : recs[i] \in Copy
  BY LenProperties, ElementOfSeq
<1>2. \A c \in Copy : c.count \in Nat /\ c.time \in Nat /\ c.orig \in Messages
  BY Constants DEF Copy
<1> QED BY <1>1, <1>2

LEMMA NackTypes ==
    ASSUME Inv
    PROVE  /\ NoNack.pc = "idle"
           /\ nack.pc \in {"append", "schedule", "flush"} => /\ nack # NoNack /\ nack.copy \in Copy
                                                            /\ up
           /\ nack.pc # "schedule" => Queued = Len(retry)
<1>1. NoNack.pc = "idle"
  BY DEF NoNack
<1>2. nack = NoNack \/ nack \in [pc : {"append", "schedule", "flush"}, copy : Copy]
  BY DEF Inv, Types
<1> QED BY <1>1, <1>2 DEF Inv, Pending, Queued

\* A step of the scheduler, or of HandleNack outside the logs.
LEMMA LogsUnchanged ==
    ASSUME Inv, UNCHANGED <<clock, retry, dlq, synced, sync, acked, adjusted, seen, outages>>,
           up' \in BOOLEAN,
           nack' = NoNack \/ nack' \in [pc : {"append", "schedule", "flush"}, copy : Copy],
           Pending', Memory'
    PROVE  Inv'
<1>1. Types'
  BY DEF Inv, Types
<1>2. Attempts'
  BY DEF Inv, Attempts
<1>3. DeadLettersExhausted'
  BY DEF Inv, DeadLettersExhausted, MadeFrom
<1>4. Durable'
  BY DEF Inv, Durable
<1> QED BY <1>1, <1>2, <1>3, <1>4 DEF Inv

\* What Start finds in the log.
LEMMA RebuiltOk ==
    ASSUME Inv
    PROVE  MemoryOk(Rebuilt, {}, 0, Len(retry), retry, seen)
<1>1. /\ Len(retry) \in Nat /\ DOMAIN retry = 1 .. Len(retry)
      /\ \A i \in 1 .. Len(retry) : retry[i].time \in Nat
  BY LogTypes DEF Inv, Types
<1>2. Rebuilt \subseteq [offset : Nat, time : Nat]
  BY <1>1 DEF Rebuilt
<1>3. Offsets(Rebuilt) = 0 .. Len(retry) - 1
  <2>a. ASSUME NEW o \in 0 .. Len(retry) - 1 PROVE o \in Offsets(Rebuilt)
    <3>1. o + 1 \in DOMAIN retry /\ (o + 1) - 1 = o
      BY <1>1
    <3>2. [offset |-> (o + 1) - 1, time |-> retry[o + 1].time] \in Rebuilt
      BY <3>1 DEF Rebuilt
    <3> QED BY <3>1, <3>2 DEF Offsets
  <2>b. ASSUME NEW o \in Offsets(Rebuilt) PROVE o \in 0 .. Len(retry) - 1
    BY <1>1 DEF Offsets, Rebuilt
  <2> QED BY <2>a, <2>b
<1>4. \A t \in Rebuilt : t.time = retry[t.offset + 1].time
  <2> SUFFICES ASSUME NEW i \in DOMAIN retry
               PROVE  retry[i].time = retry[(i - 1) + 1].time
    BY DEF Rebuilt
  <2> QED BY <1>1
<1>5. 0 .. 0 - 1 = {} /\ 0 \in 0 .. Len(retry)
  BY <1>1
<1> QED BY <1>2, <1>3, <1>4, <1>5 DEF MemoryOk

LEMMA StartInv ==
    ASSUME Inv, Start
    PROVE  Inv'
<1>1. /\ ~up /\ up' = TRUE /\ UNCHANGED <<clock, logs, nack, sync, ghosts>>
      /\ SetMemory(MakeDueVisible(Rebuilt, {}, 0))
  BY DEF Start
<1>2. nack = NoNack /\ nack.pc = "idle" /\ Queued = Len(retry)
  BY <1>1, NackTypes DEF Inv, Pending, Queued
<1>3. /\ Len(retry) \in Nat /\ DOMAIN retry = 1 .. Len(retry)
      /\ \A i \in 1 .. Len(retry) : retry[i].time \in Nat
  BY LogTypes DEF Inv, Types
<1>4. MemoryOk(Rebuilt, {}, 0, Len(retry), retry, seen)
  BY RebuiltOk
<1>5. MemoryOk(tasks', ready', end', Len(retry), retry, seen)
  BY <1>1, <1>3, <1>4, MakeDueVisibleOk DEF SetMemory
<1>6. Pending' /\ Memory'
  BY <1>1, <1>2, <1>5 DEF Pending, Memory, Queued, logs, ghosts
<1> QED BY <1>1, <1>2, <1>6, LogsUnchanged DEF logs, ghosts

LEMMA RunInv ==
    ASSUME Inv, Run
    PROVE  Inv'
<1>1. /\ up /\ UNCHANGED <<clock, logs, nack, up, sync, ghosts>>
      /\ SetMemory(MakeDueVisible(tasks, ready, end))
  BY DEF Run
<1>2. MemoryOk(tasks, ready, end, Queued, retry, seen)
  BY <1>1 DEF Inv, Memory
<1>3. Queued \in Nat
  <2>a. Len(retry) \in Nat
    BY LogTypes DEF Inv, Types
  <2> QED BY <2>a DEF Inv, Pending, Queued
<1>4. MemoryOk(tasks', ready', end', Queued, retry, seen)
  BY <1>1, <1>2, <1>3, MakeDueVisibleOk DEF SetMemory
<1>5. Pending' /\ Memory'
  BY <1>1, <1>4 DEF Inv, Pending, Memory, Queued, logs, ghosts
<1>6. /\ up' \in BOOLEAN
      /\ nack' = NoNack \/ nack' \in [pc : {"append", "schedule", "flush"}, copy : Copy]
  BY <1>1 DEF Inv, Types
<1> QED BY <1>1, <1>5, <1>6, LogsUnchanged DEF logs, ghosts

LEMMA NackScheduleInv ==
    ASSUME Inv, NackSchedule
    PROVE  Inv'
<1> DEFINE new == [offset |-> Len(retry) - 1, time |-> nack.copy.time]
           ts == tasks \cup {new}
           n == Len(retry)
<1>1. /\ nack.pc = "schedule" /\ UNCHANGED <<clock, logs, up, sync, ghosts>>
      /\ SetMemory(MakeDueVisible(ts, ready, end))
      /\ nack' = [nack EXCEPT !.pc = "flush"]
  BY DEF NackSchedule
<1>2. /\ n \in Nat /\ n >= 1 /\ retry[n] = nack.copy /\ up /\ nack.copy.time \in Nat
      /\ nack \in [pc : {"append", "schedule", "flush"}, copy : Copy]
  <2>a. n \in Nat /\ n >= 1 /\ retry[n] = nack.copy /\ n \in 1 .. n
    BY <1>1, LogTypes DEF Inv, Types, Pending
  <2>b. nack.copy.time \in Nat
    BY <2>a, LogTypes DEF Inv, Types
  <2> QED BY <1>1, <2>a, <2>b, NackTypes DEF Inv, Types
<1>3. MemoryOk(tasks, ready, end, n - 1, retry, seen)
  BY <1>1, <1>2 DEF Inv, Memory, Queued
<1>4. MemoryOk(ts, ready, end, n, retry, seen)
  <2>a. new \in [offset : Nat, time : Nat] /\ new.offset = n - 1 /\ new.time = retry[n].time
    BY <1>2
  <2>b. Offsets(ts) = Offsets(tasks) \cup {n - 1}
    <3> HIDE DEF new
    <3> QED BY <2>a DEF Offsets
  <2>c. /\ 0 .. end - 1 \cup ready \cup Offsets(tasks) = 0 .. n - 2
        /\ end \in 0 .. n - 1
    BY <1>2, <1>3 DEF MemoryOk
  <2>d. 0 .. n - 1 = 0 .. n - 2 \cup {n - 1}
    BY <1>2
  <2>e. 0 .. end - 1 \cup ready \cup Offsets(ts) = 0 .. n - 1
    BY <2>b, <2>c, <2>d
  <2>f. end \in 0 .. n
    BY <1>2, <2>c
  <2>g. (n - 1) + 1 = n
    BY <1>2
  <2> HIDE DEF new, n
  <2>h. /\ ts \subseteq [offset : Nat, time : Nat]
        /\ \A t \in ts : t.time = retry[t.offset + 1].time
    BY <1>3, <2>a, <2>g DEF MemoryOk
  <2> QED BY <1>3, <2>e, <2>f, <2>h DEF MemoryOk
<1>5. MemoryOk(tasks', ready', end', n, retry, seen)
  <2> HIDE DEF ts
  <2> QED BY <1>1, <1>2, <1>4, MakeDueVisibleOk DEF SetMemory
<1>6. nack'.pc = "flush" /\ nack' \in [pc : {"append", "schedule", "flush"}, copy : Copy]
  BY <1>1, <1>2
<1>7. Pending' /\ Memory'
  BY <1>1, <1>2, <1>5, <1>6 DEF Pending, Memory, Queued, logs, ghosts
<1> QED BY <1>1, <1>2, <1>6, <1>7, LogsUnchanged DEF logs, ghosts

\* HandleNack begins: the copy is justified by the record it was made from.
LEMMA BeginInv ==
    ASSUME Inv, up, nack = NoNack, NEW copy \in Copy, Begin(copy),
           Justified(copy, retry, Len(retry), adjusted, seen),
           UNCHANGED <<clock, logs, memory, up, sync, ghosts>>
    PROVE  Inv'
<1>1. /\ nack' = [pc |-> "append", copy |-> copy] /\ nack'.pc = "append"
      /\ nack'.copy = copy
  BY DEF Begin
<1>2. nack' \in [pc : {"append", "schedule", "flush"}, copy : Copy]
  BY <1>1
<1>3. Queued' = Queued
  BY <1>1, NackTypes DEF Queued, logs
<1>4. Memory'
  BY <1>3 DEF Inv, Memory, logs, memory, ghosts
<1>5. Pending'
  BY <1>1 DEF Pending, logs, ghosts
<1> QED BY <1>2, <1>4, <1>5, LogsUnchanged DEF logs, memory, ghosts

LEMMA NackOriginalInv ==
    ASSUME Inv, NEW m \in Messages, NackOriginal(m)
    PROVE  Inv'
<1> DEFINE copy == NextCopy(m, 1)
<1>1. copy \in Copy /\ copy.count = 1
  <2>a. clock + Delay \in Nat /\ 1 \in 1 .. MaxRetries + 1
    BY Constants DEF Inv, Types
  <2> QED BY <2>a DEF NextCopy, Copy
<1>2. Justified(copy, retry, Len(retry), adjusted, seen)
  BY <1>1 DEF Justified
<1> QED BY <1>1, <1>2, BeginInv DEF NackOriginal

LEMMA NackRetryInv ==
    ASSUME Inv, NEW o \in Nat, NackRetry(o)
    PROVE  Inv'
<1> DEFINE src == retry[o + 1]
           copy == NextCopy(src.orig, src.count + 1)
<1>1. /\ up /\ nack = NoNack /\ o < Len(retry) /\ o < end /\ Begin(copy)
      /\ UNCHANGED <<clock, logs, memory, up, sync, ghosts>>
  BY DEF NackRetry
<1>2. Len(retry) \in Nat /\ o + 1 \in 1 .. Len(retry) /\ DOMAIN retry = 1 .. Len(retry)
  BY <1>1, LogTypes DEF Inv, Types
<1>3. /\ src \in Copy /\ src.count \in Nat /\ src.count >= 1 /\ src.time \in Nat
      /\ src.orig \in Messages /\ src.count <= MaxRetries
  <2>a. src \in Copy /\ src.count \in Nat /\ src.time \in Nat /\ src.orig \in Messages
    BY <1>2, LogTypes DEF Inv, Types
  <2>b. src.count >= 1
    BY <2>a, Constants DEF Copy
  <2> QED BY <1>2, <2>a, <2>b DEF Inv, Attempts
<1>4. src.time <= seen
  <2>a. MemoryOk(tasks, ready, end, Queued, retry, seen)
    BY <1>1 DEF Inv, Memory
  <2>b. Queued \in Int
    BY <1>2 DEF Queued
  <2>c. o \in 0 .. end - 1
    BY <1>1, <2>a, <2>b DEF MemoryOk
  <2> QED BY <2>a, <2>c DEF MemoryOk
<1>5. clock \in Nat /\ seen \in Nat /\ (adjusted = 0 => clock = seen)
  BY DEF Inv, Types
<1> HIDE DEF src
<1>6. /\ copy \in Copy /\ copy.orig = src.orig /\ copy.count = src.count + 1
      /\ copy.count <= MaxRetries => copy.time = clock + Delay
  <2>a. clock + Delay \in Nat /\ src.count + 1 \in 1 .. MaxRetries + 1
    BY <1>3, <1>5, Constants
  <2>b. copy.count <= MaxRetries => copy.time = clock + Delay
    BY <1>3, Constants DEF NextCopy, DeadLetter
  <2> QED BY <1>3, <2>a, <2>b DEF NextCopy, Copy
<1> HIDE DEF copy
<1>7. Justified(copy, retry, Len(retry), adjusted, seen)
  <2>a. src.count = copy.count - 1 /\ src.orig = copy.orig
    BY <1>3, <1>6
  <2>b. adjusted = 0 /\ copy.count <= MaxRetries => src.time + Delay <= copy.time
    BY <1>3, <1>4, <1>5, <1>6, Constants
  <2> QED BY <1>2, <1>4, <2>a, <2>b DEF Justified, src
<1> QED BY <1>1, <1>6, <1>7, BeginInv

\* HandleNack ends, with or without an answer, or the flusher runs.
LEMMA FlushStep ==
    ASSUME Inv, UNCHANGED <<clock, retry, dlq, memory, up, sync, adjusted, seen, outages>>,
           nack' = nack \/ (nack' = NoNack /\ nack.pc # "schedule"),
           synced' \in [retry : Nat, dlq : Nat], acked' \in [retry : Nat, dlq : Nat], Durable'
    PROVE  Inv'
<1>1. Types'
  BY DEF Inv, Types
<1>2. Pending'
  BY NackTypes DEF Inv, Pending
<1>3. Queued' = Queued
  BY NackTypes DEF Queued
<1>4. Memory'
  BY <1>3 DEF Inv, Memory, memory
<1>5. Attempts' /\ DeadLettersExhausted'
  BY DEF Inv, Attempts, DeadLettersExhausted, MadeFrom
<1> QED BY <1>1, <1>2, <1>4, <1>5 DEF Inv

LEMMA NackGivesUpInv ==
    ASSUME Inv, NackAppendFails \/ NackFlushFails
    PROVE  Inv'
<1>1. /\ nack' = NoNack /\ nack.pc # "schedule"
      /\ UNCHANGED <<clock, logs, memory, up, sync, ghosts>>
  BY DEF NackAppendFails, NackFlushFails
<1>2. Durable'
  BY <1>1 DEF Inv, Durable, logs, ghosts
<1>3. synced' \in [retry : Nat, dlq : Nat] /\ acked' \in [retry : Nat, dlq : Nat]
  BY <1>1 DEF Inv, Types, logs, ghosts
<1> QED BY <1>1, <1>2, <1>3, FlushStep DEF logs, ghosts

LEMMA Lengths ==
    ASSUME Inv
    PROVE  /\ Len(retry) \in Nat /\ Len(dlq) \in Nat
           /\ synced \in [retry : Nat, dlq : Nat] /\ acked \in [retry : Nat, dlq : Nat]
           /\ synced.retry \in Nat /\ synced.dlq \in Nat /\ acked.retry \in Nat /\ acked.dlq \in Nat
BY LogTypes DEF Inv, Types

LEMMA NackReplyInv ==
    ASSUME Inv, NackReply
    PROVE  Inv'
<1>1. /\ nack.pc = "flush" /\ nack' = NoNack
      /\ synced' = IF sync THEN Flushed(nack.copy) ELSE synced
      /\ acked' = IF DeadLetter(nack.copy.count) THEN [acked EXCEPT !.dlq = Len(dlq)]
                  ELSE [acked EXCEPT !.retry = Len(retry)]
      /\ UNCHANGED <<clock, retry, dlq, memory, up, sync, adjusted, seen, outages>>
  BY DEF NackReply
<1>2. CASE DeadLetter(nack.copy.count)
  <2>a. /\ acked' \in [retry : Nat, dlq : Nat] /\ acked'.retry = acked.retry
        /\ acked'.dlq = Len(dlq)
    BY <1>1, <1>2, Lengths
  <2>b. /\ synced' \in [retry : Nat, dlq : Nat] /\ synced'.retry = synced.retry
        /\ synced'.dlq = IF sync THEN Len(dlq) ELSE synced.dlq
    BY <1>1, <1>2, Lengths DEF Flushed
  <2>c. Durable'
    BY <1>1, <2>a, <2>b, Lengths DEF Inv, Durable
  <2> QED BY <1>1, <2>a, <2>b, <2>c, FlushStep
<1>3. CASE ~DeadLetter(nack.copy.count)
  <2>a. /\ acked' \in [retry : Nat, dlq : Nat] /\ acked'.dlq = acked.dlq
        /\ acked'.retry = Len(retry)
    BY <1>1, <1>3, Lengths
  <2>b. /\ synced' \in [retry : Nat, dlq : Nat] /\ synced'.dlq = synced.dlq
        /\ synced'.retry = IF sync THEN Len(retry) ELSE synced.retry
    BY <1>1, <1>3, Lengths DEF Flushed
  <2>c. Durable'
    BY <1>1, <2>a, <2>b, Lengths DEF Inv, Durable
  <2> QED BY <1>1, <2>a, <2>b, <2>c, FlushStep
<1> QED BY <1>2, <1>3

LEMMA FlushAllInv ==
    ASSUME Inv, FlushAll
    PROVE  Inv'
<1>1. /\ ~sync /\ synced' = [retry |-> Len(retry), dlq |-> Len(dlq)]
      /\ UNCHANGED <<clock, retry, dlq, memory, nack, up, sync, ghosts>>
  BY DEF FlushAll
<1>2. /\ synced' \in [retry : Nat, dlq : Nat] /\ acked' \in [retry : Nat, dlq : Nat]
      /\ synced'.retry = Len(retry) /\ synced'.dlq = Len(dlq)
  BY <1>1, Lengths DEF ghosts
<1>3. Durable'
  BY <1>1, <1>2, Lengths DEF Inv, Durable, ghosts
<1>4. UNCHANGED <<clock, retry, dlq, memory, up, sync, adjusted, seen, outages>> /\ nack' = nack
  BY <1>1 DEF ghosts
<1> QED BY <1>2, <1>3, <1>4, FlushStep

----------------------------------------
(* Steps of the logs, the clock and the machine *)

LEMMA JustifiedKept ==
    ASSUME NEW copy, NEW recs, NEW k \in Nat, NEW adj, NEW shown \in Nat,
           NEW log2, NEW k2 \in Nat, NEW adj2, NEW shown2 \in Nat,
           Justified(copy, recs, k, adj, shown), k <= k2, shown <= shown2,
           \A j \in 1 .. k : log2[j] = recs[j] /\ recs[j].time \in Nat, adj2 = 0 => adj = 0
    PROVE  Justified(copy, log2, k2, adj2, shown2)
<1> SUFFICES ASSUME copy.count > 1
             PROVE  \E j \in 1 .. k2 : /\ log2[j].orig = copy.orig
                                       /\ log2[j].count = copy.count - 1
                                       /\ log2[j].time <= shown2
                                       /\ adj2 = 0 /\ copy.count <= MaxRetries =>
                                             log2[j].time + Delay <= copy.time
  BY DEF Justified
<1>1. PICK j \in 1 .. k : /\ recs[j].orig = copy.orig
                          /\ recs[j].count = copy.count - 1
                          /\ recs[j].time <= shown
                          /\ adj = 0 /\ copy.count <= MaxRetries =>
                                recs[j].time + Delay <= copy.time
  BY DEF Justified
<1>2. j \in 1 .. k2 /\ log2[j] = recs[j] /\ recs[j].time \in Nat
  BY <1>1
<1>3. log2[j].time <= shown2
  BY <1>1, <1>2
<1> QED BY <1>1, <1>2, <1>3

LEMMA MemoryKept ==
    ASSUME NEW ts, NEW rd, NEW e, NEW n \in Nat, NEW recs, NEW time \in Nat,
           NEW log2, NEW time2 \in Nat, MemoryOk(ts, rd, e, n, recs, time),
           \A j \in 1 .. n : log2[j] = recs[j] /\ recs[j].time \in Nat, time <= time2
    PROVE  MemoryOk(ts, rd, e, n, log2, time2)
<1>1. \A o \in 0 .. n - 1 : o + 1 \in 1 .. n
  OBVIOUS
<1>2. \A t \in ts : t.offset \in 0 .. n - 1
  BY DEF MemoryOk, Offsets
<1>3. \A o \in 0 .. e - 1 \cup rd : o \in 0 .. n - 1
  BY DEF MemoryOk
<1>4. \A t \in ts : t.time = log2[t.offset + 1].time
  BY <1>1, <1>2 DEF MemoryOk
<1>5. ASSUME NEW o \in 0 .. e - 1 \cup rd PROVE log2[o + 1].time <= time2
  <2>a. log2[o + 1] = recs[o + 1] /\ recs[o + 1].time \in Nat
    BY <1>1, <1>3
  <2>b. recs[o + 1].time <= time
    BY DEF MemoryOk
  <2> QED BY <2>a, <2>b
<1> QED BY <1>4, <1>5 DEF MemoryOk

LEMMA AttemptsKept ==
    ASSUME Inv, retry' \in Seq(Copy), Len(retry') <= Len(retry),
           \A i \in 1 .. Len(retry') : retry'[i] = retry[i], adjusted' = 0 => adjusted = 0,
           seen' \in Nat, seen <= seen'
    PROVE  Attempts'
<1>1. /\ Len(retry') \in Nat /\ DOMAIN retry' = 1 .. Len(retry')
      /\ Len(retry) \in Nat /\ DOMAIN retry = 1 .. Len(retry)
  BY LogTypes DEF Inv, Types
<1> SUFFICES ASSUME NEW i \in DOMAIN retry'
             PROVE  /\ retry'[i].count <= MaxRetries
                    /\ Justified(retry'[i], retry', i - 1, adjusted', seen')
  BY DEF Attempts
<1>2. /\ retry'[i] = retry[i] /\ i \in DOMAIN retry /\ i - 1 \in Nat /\ i - 1 <= i - 1
      /\ \A j \in 1 .. i - 1 : j \in 1 .. Len(retry')
  BY <1>1
<1>3. retry[i].count <= MaxRetries /\ Justified(retry[i], retry, i - 1, adjusted, seen)
  BY <1>2 DEF Inv, Attempts
<1>4. seen \in Nat /\ \A j \in 1 .. i - 1 : retry'[j] = retry[j] /\ retry[j].time \in Nat
  BY <1>1, <1>2, LogTypes DEF Inv, Types
<1>5. Justified(retry[i], retry', i - 1, adjusted', seen')
  BY <1>2, <1>3, <1>4, JustifiedKept
<1> QED BY <1>2, <1>3, <1>5

LEMMA NackAppendInv ==
    ASSUME Inv, NackAppend
    PROVE  Inv'
<1> DEFINE copy == nack.copy
           n == Len(retry)
<1>1. /\ nack.pc = "append" /\ UNCHANGED <<clock, synced, memory, up, sync, ghosts>>
      /\ \/ /\ DeadLetter(copy.count) /\ dlq' = Append(dlq, copy)
            /\ nack' = [nack EXCEPT !.pc = "flush"] /\ retry' = retry
         \/ /\ ~DeadLetter(copy.count) /\ retry' = Append(retry, copy)
            /\ nack' = [nack EXCEPT !.pc = "schedule"] /\ dlq' = dlq
  BY DEF NackAppend
<1>2. /\ nack \in [pc : {"append", "schedule", "flush"}, copy : Copy] /\ up
      /\ copy \in Copy /\ Queued = n
      /\ MemoryOk(tasks, ready, end, n, retry, seen)
      /\ Justified(copy, retry, n, adjusted, seen)
  BY <1>1, NackTypes DEF Inv, Types, Pending, Memory
<1>3. copy.count \in 1 .. MaxRetries + 1 /\ n \in Nat /\ Len(dlq) \in Nat /\ n + 1 >= 1
  BY <1>2, Lengths DEF Copy
<1>4. CASE DeadLetter(copy.count) /\ dlq' = Append(dlq, copy)
           /\ nack' = [nack EXCEPT !.pc = "flush"] /\ retry' = retry
  <2>a. nack'.pc = "flush" /\ nack' \in [pc : {"append", "schedule", "flush"}, copy : Copy]
    BY <1>2, <1>4
  <2>b. /\ dlq' \in Seq(Copy) /\ Len(dlq') = Len(dlq) + 1 /\ dlq'[Len(dlq) + 1] = copy
        /\ \A i \in 1 .. Len(dlq) : dlq'[i] = dlq[i]
        /\ DOMAIN dlq' = 1 .. Len(dlq) + 1
    <3>1. dlq \in Seq(Copy)
      BY DEF Inv, Types
    <3>2. /\ dlq' \in Seq(Copy) /\ Len(dlq') = Len(dlq) + 1 /\ dlq'[Len(dlq) + 1] = copy
          /\ \A i \in 1 .. Len(dlq) : dlq'[i] = dlq[i]
      BY <1>2, <1>4, <3>1, AppendProperties
    <3> QED BY <3>2, LogTypes
  <2>c. Types'
    BY <1>1, <1>4, <2>a, <2>b DEF Inv, Types, ghosts
  <2>d. Pending'
    BY <1>1, <1>2, <2>a DEF Pending
  <2>e. Memory'
    BY <1>1, <1>2, <1>4, <2>a DEF Memory, Queued, memory, ghosts
  <2>f. Attempts'
    BY <1>1, <1>4 DEF Inv, Attempts, ghosts
  <2>g. DeadLettersExhausted'
    <3> SUFFICES ASSUME outages = 0, NEW i \in DOMAIN dlq'
                 PROVE  /\ dlq'[i].count = MaxRetries + 1
                        /\ \E j \in DOMAIN retry : MadeFrom(dlq'[i], j)
      BY <1>1, <1>4 DEF DeadLettersExhausted, MadeFrom, ghosts
    <3>1. CASE i \in 1 .. Len(dlq)
      <4>1. i \in DOMAIN dlq /\ dlq'[i] = dlq[i]
        BY <2>b, <3>1, LogTypes DEF Inv, Types
      <4> QED BY <4>1 DEF Inv, DeadLettersExhausted
    <3>2. CASE i = Len(dlq) + 1
      <4>1. copy.count = MaxRetries + 1 /\ copy.count > 1
        BY <1>3, <1>4, Constants, SMTT(30) DEF DeadLetter
      <4>2. PICK j \in 1 .. n : MadeFrom(copy, j)
        BY <1>2, <4>1 DEF Justified, MadeFrom
      <4>3. j \in DOMAIN retry
        BY <4>2, LogTypes DEF Inv, Types
      <4> QED BY <2>b, <3>2, <4>1, <4>2, <4>3
    <3> QED BY <1>3, <2>b, <3>1, <3>2
  <2>h. Durable'
    BY <1>1, <1>3, <1>4, <2>b, Lengths DEF Inv, Durable, ghosts
  <2> QED BY <2>c, <2>d, <2>e, <2>f, <2>g, <2>h DEF Inv
<1>5. CASE ~DeadLetter(copy.count) /\ retry' = Append(retry, copy)
           /\ nack' = [nack EXCEPT !.pc = "schedule"] /\ dlq' = dlq
  <2>a. /\ nack'.pc = "schedule" /\ nack'.copy = copy
        /\ nack' \in [pc : {"append", "schedule", "flush"}, copy : Copy]
    BY <1>2, <1>5
  <2>b. /\ retry' \in Seq(Copy) /\ Len(retry') = n + 1 /\ retry'[n + 1] = copy
        /\ \A i \in 1 .. n : retry'[i] = retry[i] /\ retry[i].time \in Nat
        /\ DOMAIN retry' = 1 .. n + 1 /\ DOMAIN retry = 1 .. n
    <3>1. retry \in Seq(Copy)
      BY DEF Inv, Types
    <3>2. /\ retry' \in Seq(Copy) /\ Len(retry') = n + 1 /\ retry'[n + 1] = copy
          /\ \A i \in 1 .. n : retry'[i] = retry[i]
      BY <1>2, <1>5, <3>1, AppendProperties
    <3> QED BY <3>1, <3>2, LogTypes
  <2>c. Types'
    BY <1>1, <1>5, <2>a, <2>b DEF Inv, Types, ghosts
  <2>d. Pending'
    BY <1>1, <1>2, <1>3, <2>a, <2>b DEF Pending
  <2>e. Memory'
    <3>1. seen \in Nat /\ seen <= seen /\ (n + 1) - 1 = n
      BY <1>3 DEF Inv, Types
    <3>2. MemoryOk(tasks, ready, end, n, retry', seen)
      BY <1>2, <1>3, <2>b, <3>1, MemoryKept
    <3>3. Queued' = n /\ up'
      BY <1>1, <1>2, <2>a, <2>b, <3>1 DEF Queued
    <3> QED BY <1>1, <3>2, <3>3 DEF Memory, memory, ghosts
  <2>f. Attempts'
    <3> SUFFICES ASSUME NEW i \in DOMAIN retry'
                 PROVE  /\ retry'[i].count <= MaxRetries
                        /\ Justified(retry'[i], retry', i - 1, adjusted, seen)
      BY <1>1 DEF Attempts, ghosts
    <3>1. CASE i \in 1 .. n
      <4>1. i - 1 \in Nat /\ i - 1 <= i - 1 /\ \A j \in 1 .. i - 1 : j \in 1 .. n
        BY <1>3, <3>1
      <4>2. retry[i].count <= MaxRetries /\ Justified(retry[i], retry, i - 1, adjusted, seen)
        BY <2>b, <3>1 DEF Inv, Attempts
      <4>3. /\ seen \in Nat /\ seen <= seen
            /\ \A j \in 1 .. i - 1 : retry'[j] = retry[j] /\ retry[j].time \in Nat
        BY <2>b, <4>1 DEF Inv, Types
      <4>4. Justified(retry[i], retry', i - 1, adjusted, seen)
        BY <4>1, <4>2, <4>3, JustifiedKept
      <4> QED BY <2>b, <3>1, <4>2, <4>4
    <3>2. CASE i = n + 1
      <4>1. copy.count <= MaxRetries
        BY <1>3, <1>5, Constants DEF DeadLetter
      <4>2. n <= n /\ (n + 1) - 1 = n /\ seen \in Nat /\ seen <= seen
        BY <1>3 DEF Inv, Types
      <4>3. Justified(copy, retry', n, adjusted, seen)
        BY <1>2, <1>3, <2>b, <4>2, JustifiedKept
      <4> QED BY <2>b, <3>2, <4>1, <4>2, <4>3
    <3> QED BY <1>3, <2>b, <3>1, <3>2
  <2>g. DeadLettersExhausted'
    <3>1. \A j \in DOMAIN retry : j \in DOMAIN retry' /\ retry'[j] = retry[j]
      BY <1>3, <2>b
    <3> QED BY <1>1, <1>5, <3>1 DEF Inv, DeadLettersExhausted, MadeFrom, ghosts
  <2>h. Durable'
    <3>1. /\ synced' = synced /\ acked' = acked /\ sync' = sync /\ outages' = outages
          /\ dlq' = dlq /\ Len(retry') = n + 1
      BY <1>1, <1>5, <2>b DEF ghosts
    <3>2. /\ synced.retry <= n => synced.retry <= n + 1
          /\ acked.retry <= n => acked.retry <= n + 1
      BY <1>3, Lengths
    <3> QED BY <3>1, <3>2, SMTT(30) DEF Inv, Durable
  <2> QED BY <2>c, <2>d, <2>e, <2>f, <2>g, <2>h DEF Inv
<1> QED BY <1>1, <1>4, <1>5

\* The clock moves; times that have been seen stay seen.
LEMMA ClockInv ==
    ASSUME Inv, UNCHANGED <<logs, memory, nack, up, sync, acked, outages>>,
           clock' \in Nat, seen' \in Nat, clock' <= seen', seen <= seen', adjusted' \in Nat,
           adjusted' = 0 => adjusted = 0 /\ clock' = seen'
    PROVE  Inv'
<1>1. Types'
  BY DEF Inv, Types, logs, memory
<1>2. retry' = retry /\ Len(retry) \in Nat /\ Len(retry) <= Len(retry)
      /\ \A i \in 1 .. Len(retry) : retry[i].time \in Nat
  BY LogTypes DEF Inv, Types, logs
<1>3. Attempts'
  BY <1>1, <1>2, AttemptsKept DEF Types
<1>4. Pending'
  <2>a. nack.pc = "append" => Justified(nack.copy, retry, Len(retry), adjusted', seen')
    BY <1>2, JustifiedKept DEF Inv, Types, Pending
  <2> QED BY <1>2, <2>a DEF Inv, Pending
<1>5. Memory'
  <2>a. CASE up
    <3>1. Queued \in Nat /\ Queued' = Queued /\ \A j \in 1 .. Queued : j \in 1 .. Len(retry)
      BY <1>2 DEF Inv, Pending, Queued
    <3>2. MemoryOk(tasks, ready, end, Queued, retry, seen) /\ seen \in Nat
      BY <2>a DEF Inv, Memory, Types
    <3>3. MemoryOk(tasks, ready, end, Queued, retry, seen')
      BY <1>2, <3>1, <3>2, MemoryKept
    <3> QED BY <1>2, <2>a, <3>1, <3>3 DEF Memory, memory
  <2>b. CASE ~up
    BY <2>b DEF Inv, Memory, memory
  <2> QED BY <2>a, <2>b
<1>6. DeadLettersExhausted'
  <2>a. \A j \in DOMAIN retry : retry[j].time <= seen => retry[j].time <= seen'
    BY <1>2, LogTypes DEF Inv, Types
  <2> QED BY <2>a DEF Inv, DeadLettersExhausted, MadeFrom, logs
<1>7. Durable'
  BY DEF Inv, Durable, logs
<1> QED BY <1>1, <1>3, <1>4, <1>5, <1>6, <1>7 DEF Inv

LEMMA TickInv ==
    ASSUME Inv, Tick
    PROVE  Inv'
<1>1. clock \in Nat /\ seen \in Nat /\ clock <= seen /\ (adjusted = 0 => clock = seen)
      /\ adjusted \in Nat
  BY DEF Inv, Types
<1>2. /\ clock' = clock + 1 /\ seen' = (IF clock' > seen THEN clock' ELSE seen)
      /\ adjusted' = adjusted
      /\ UNCHANGED <<logs, memory, nack, up, sync, acked, outages>>
  BY DEF Tick, Later
<1>3. /\ clock' \in Nat /\ seen' \in Nat /\ clock' <= seen' /\ seen <= seen'
      /\ adjusted = 0 => clock' = seen'
  BY <1>1, <1>2
<1> QED BY <1>1, <1>2, <1>3, ClockInv

LEMMA SetBackInv ==
    ASSUME Inv, SetBack
    PROVE  Inv'
<1>1. clock \in Nat /\ seen \in Nat /\ clock <= seen /\ adjusted \in Nat
  BY DEF Inv, Types
<1>2. /\ clock > 0 /\ clock' = clock - 1 /\ adjusted' = adjusted + 1 /\ seen' = seen
      /\ UNCHANGED <<logs, memory, nack, up, sync, acked, outages>>
  BY DEF SetBack
<1>3. /\ clock' \in Nat /\ seen' \in Nat /\ clock' <= seen' /\ seen <= seen'
      /\ adjusted' \in Nat /\ adjusted' # 0
  BY <1>1, <1>2
<1> QED BY <1>2, <1>3, ClockInv

\* The process ends; a prefix of each log remains.
LEMMA DownInv ==
    ASSUME Inv, Down, retry' \in Seq(Copy), dlq' \in Seq(Copy),
           Len(retry') <= Len(retry), \A i \in 1 .. Len(retry') : retry'[i] = retry[i],
           outages' \in Nat, synced' \in [retry : Nat, dlq : Nat], Durable', DeadLettersExhausted'
    PROVE  Inv'
<1>1. /\ up' = FALSE /\ nack' = NoNack /\ tasks' = {} /\ ready' = {} /\ end' = 0
      /\ UNCHANGED <<clock, sync, acked, adjusted, seen>>
  BY DEF Down
<1>2. Types'
  BY <1>1 DEF Inv, Types
<1>3. Pending' /\ Memory'
  BY <1>1, NackTypes DEF Pending, Memory
<1>4. Attempts'
  BY <1>1, AttemptsKept DEF Inv, Types
<1> QED BY <1>2, <1>3, <1>4 DEF Inv

LEMMA CrashInv ==
    ASSUME Inv, Crash
    PROVE  Inv'
<1>1. Down /\ retry' = retry /\ dlq' = dlq /\ synced' = synced /\ outages' = outages
      /\ sync' = sync /\ acked' = acked
  BY DEF Crash, Down, logs
<1>2. /\ retry' \in Seq(Copy) /\ dlq' \in Seq(Copy) /\ outages' \in Nat
      /\ synced' \in [retry : Nat, dlq : Nat] /\ Len(retry') <= Len(retry)
  BY <1>1, Lengths DEF Inv, Types
<1>3. Durable'
  BY <1>1 DEF Inv, Durable
<1>4. DeadLettersExhausted'
  BY <1>1 DEF Inv, DeadLettersExhausted, MadeFrom, Down
<1> QED BY <1>1, <1>2, <1>3, <1>4, DownInv

LEMMA PowerLossInv ==
    ASSUME Inv, NEW r \in 0 .. Len(retry), NEW d \in 0 .. Len(dlq), PowerLoss(r, d)
    PROVE  Inv'
<1>1. /\ outages' = outages + 1 /\ r >= synced.retry /\ d >= synced.dlq
      /\ retry' = SubSeq(retry, 1, r) /\ dlq' = SubSeq(dlq, 1, d)
      /\ synced' = [retry |-> r, dlq |-> d] /\ Down /\ sync' = sync /\ acked' = acked
  BY DEF PowerLoss, Down
<1>2. r \in Nat /\ d \in Nat /\ r <= Len(retry) /\ d <= Len(dlq) /\ outages \in Nat
  BY Lengths DEF Inv, Types
<1>3. /\ retry' \in Seq(Copy) /\ Len(retry') = r /\ \A i \in 1 .. r : retry'[i] = retry[i]
      /\ dlq' \in Seq(Copy) /\ Len(dlq') = d
  <2>a. retry \in Seq(Copy) /\ dlq \in Seq(Copy)
    BY DEF Inv, Types
  <2>b. \A i \in 1 .. r : i \in 1 .. Len(retry)
    BY <1>2, Lengths
  <2>c. \A i \in 1 .. d : i \in 1 .. Len(dlq)
    BY <1>2, Lengths
  <2>d. /\ retry' \in Seq(Copy) /\ Len(retry') = r /\ \A i \in 1 .. r : retry'[i] = retry[i]
    BY <1>1, <1>2, <2>a, <2>b
  <2>e. dlq' \in Seq(Copy) /\ Len(dlq') = d
    BY <1>1, <1>2, <2>a, <2>c
  <2> QED BY <2>d, <2>e
<1>4. outages' \in Nat /\ outages' # 0
  BY <1>1, <1>2
<1>5. synced' \in [retry : Nat, dlq : Nat] /\ synced'.retry = r /\ synced'.dlq = d
  BY <1>1, <1>2
<1>6. Durable'
  BY <1>1, <1>2, <1>3, <1>4, <1>5, Lengths DEF Inv, Durable
<1>7. DeadLettersExhausted'
  BY <1>4 DEF DeadLettersExhausted
<1> QED BY <1>1, <1>2, <1>3, <1>4, <1>5, <1>6, <1>7, DownInv

----------------------------------------
(* The theorems *)

LEMMA InitInv == Init => Inv
<1> SUFFICES ASSUME Init PROVE Inv
  OBVIOUS
<1>1. Len(retry) = 0 /\ DOMAIN retry = {} /\ Len(dlq) = 0 /\ DOMAIN dlq = {}
  BY DEF Init
<1>2. Types
  <2>a. <<>> \in Seq(Copy) /\ [retry |-> 0, dlq |-> 0] \in [retry : Nat, dlq : Nat]
    BY EmptySeq
  <2>b. /\ clock \in Nat /\ seen \in Nat /\ clock <= seen /\ clock = seen
        /\ adjusted \in Nat /\ outages \in Nat
    BY DEF Init
  <2> QED BY <2>a, <2>b DEF Init, Types
<1>3. Pending /\ Memory
  BY DEF Init, Pending, Memory, NoNack
<1>4. Attempts /\ DeadLettersExhausted
  BY <1>1 DEF Attempts, DeadLettersExhausted
<1>5. Durable
  BY <1>1 DEF Init, Durable
<1> QED BY <1>2, <1>3, <1>4, <1>5 DEF Inv

LEMMA NextInv == Inv /\ [Next]_vars => Inv'
<1> SUFFICES ASSUME Inv, [Next]_vars PROVE Inv'
  OBVIOUS
<1>1. CASE UNCHANGED vars
  <2>a. Types' /\ Pending' /\ Memory' /\ Attempts' /\ DeadLettersExhausted' /\ Durable'
    BY <1>1 DEF vars, logs, memory, ghosts, Inv, Types, Pending, Memory, Queued, Attempts,
                DeadLettersExhausted, MadeFrom, Durable
  <2> QED BY <2>a DEF Inv
<1>2. ASSUME NEW o \in 0 .. MaxLog - 1, NackRetry(o) PROVE Inv'
  BY <1>2, NackRetryInv
<1> QED BY <1>1, <1>2, StartInv, RunInv, NackOriginalInv, NackAppendInv, NackGivesUpInv,
           NackScheduleInv, NackReplyInv, FlushAllInv, TickInv, SetBackInv, CrashInv,
           PowerLossInv DEF Next

LEMMA Invariance == Spec => []Inv
BY InitInv, NextInv, PTL DEF Spec

\* No failed flush, crash, power loss or clock change leaves a hole in the visible prefix
\* of the %RETRY% log that a later round of the scheduler would not close.
THEOREM NoHole == Spec => []NoVisibilityHole
<1>1. Inv => NoVisibilityHole
  <2> SUFFICES ASSUME Inv, up PROVE NoVisibilityHole
    BY DEF NoVisibilityHole
  <2>a. MemoryOk(tasks, ready, end, Queued, retry, seen) /\ Len(retry) \in Nat
    BY Lengths DEF Inv, Memory
  <2>b. /\ 0 .. end - 1 \cup ready \cup {t.offset : t \in tasks} = 0 .. Queued - 1
        /\ end \notin ready /\ \A t \in tasks : t.time = retry[t.offset + 1].time
    BY <2>a DEF MemoryOk, Offsets
  <2>c. 0 .. Len(retry) - 1 = (0 .. Queued - 1) \cup Unscheduled
    <3>1. CASE nack.pc = "schedule"
      <4>1. Len(retry) >= 1
        BY <3>1 DEF Inv, Pending
      <4> QED BY <2>a, <3>1, <4>1 DEF Queued, Unscheduled
    <3>2. CASE nack.pc # "schedule"
      BY <3>2 DEF Queued, Unscheduled
    <3> QED BY <3>1, <3>2
  <2> QED BY <2>b, <2>c DEF NoVisibilityHole
<1> QED BY <1>1, Invariance, PTL

\* A copy is never visible before the clock has shown its due time.
THEOREM NeverVisibleEarly == Spec => []NeverEarly
<1>1. Inv => NeverEarly
  <2> SUFFICES ASSUME Inv PROVE NeverEarly
    OBVIOUS
  <2>a. CASE up
    BY <2>a DEF Inv, Memory, MemoryOk, NeverEarly
  <2>b. CASE ~up
    BY <2>b DEF Inv, Memory, NeverEarly
  <2> QED BY <2>a, <2>b
<1> QED BY <1>1, Invariance, PTL

\* An attempt number counts failures of the message, not Nacks: attempt n > 1 lies
\* behind an attempt n - 1 that was due when it was rejected.
THEOREM AttemptsOrdered == Spec => []AttemptsInOrder
<1>1. Inv => AttemptsInOrder
  BY DEF Inv, Attempts, Justified, AttemptsInOrder, MadeFrom
<1> QED BY <1>1, Invariance, PTL

\* A message is dead-lettered only after its last retry was due, however often its
\* Nacks were repeated.
THEOREM DeadLettersLast == Spec => []DeadLettersExhausted
<1>1. Inv => DeadLettersExhausted
  BY DEF Inv
<1> QED BY <1>1, Invariance, PTL

\* A copy whose Nack succeeded survives every crash, and with synchronous flushes every
\* power loss.
THEOREM AckedCopiesSurvive == Spec => []AckedCopiesKept
<1>1. Inv => AckedCopiesKept
  BY Lengths DEF Inv, Durable, AckedCopiesKept
<1> QED BY <1>1, Invariance, PTL

LEMMA NextPosition ==
  ASSUME NEW e \in Nat, NEW o \in Nat, NEW n \in Nat, e <= o, o + 1 <= n
  PROVE  e + 1 \in 1 .. o + 1 /\ e + 1 \in 1 .. n /\ (e + 1) - 1 = e /\ e >= 0
  OBVIOUS

\* What was visible before a restart is visible after it, while the clock has never been
\* set back.
THEOREM RestartKeepsVisible == Spec => VisibleAfterRestart
<1>1. ASSUME Inv, Start, adjusted = 0, NEW o \in 0 .. Len(retry) - 1,
             \A i \in 1 .. o + 1 : retry[i].time <= seen
      PROVE  o < end'
  <2>a. /\ Len(retry) \in Nat /\ DOMAIN retry = 1 .. Len(retry) /\ clock \in Nat /\ clock = seen
    BY <1>1, LogTypes DEF Inv, Types
  <2>b. MemoryOk(Rebuilt, {}, 0, Len(retry), retry, seen)
    BY <1>1, RebuiltOk
  <2>c. Advanced(Rebuilt, {}, 0, Len(retry), MakeDueVisible(Rebuilt, {}, 0))
    BY <2>a, <2>b, VisibleOk
  <2>d. /\ end' = MakeDueVisible(Rebuilt, {}, 0).end
    BY <1>1 DEF Start, SetMemory
  <2>e. /\ end' \in 0 .. Len(retry)
        /\ \A t \in Rebuilt : t.time <= clock /\ t.offset >= 0 => end' # t.offset
    BY <2>c, <2>d DEF Advanced
  <2>f. ASSUME end' <= o PROVE FALSE
    <3>1. /\ end' + 1 \in 1 .. o + 1 /\ end' + 1 \in DOMAIN retry /\ (end' + 1) - 1 = end'
          /\ end' >= 0
      <4>1. end' \in Nat /\ o \in Nat /\ o + 1 <= Len(retry) /\ end' <= o
        BY <1>1, <2>a, <2>e, <2>f
      <4>2. Len(retry) \in Nat /\ DOMAIN retry = 1 .. Len(retry)
        BY <2>a
      <4> QED BY <4>1, <4>2, NextPosition
    <3>2. [offset |-> (end' + 1) - 1, time |-> retry[end' + 1].time] \in Rebuilt
      BY <3>1 DEF Rebuilt
    <3>3. retry[end' + 1].time <= clock
      BY <1>1, <2>a, <3>1
    <3> QED BY <2>e, <3>1, <3>2, <3>3
  <2> QED BY <1>1, <2>a, <2>e, <2>f
<1>2. Inv /\ [Next]_vars =>
         [Start /\ adjusted = 0 =>
            \A o \in 0 .. Len(retry) - 1 :
               (\A i \in 1 .. o + 1 : retry[i].time <= seen) => o < end']_vars
  BY <1>1
<1> QED BY <1>2, Invariance, PTL DEF Spec, VisibleAfterRestart

----------------------------------------
(* The invariant of Producer *)

Places == {NoPlace} \cup (Partitions \X Nat)

\* A copy of b lies at this place, in the partition that b names if it names one.
StoredAt(b, place) ==
    /\ place \in Partitions \X Nat
    /\ place[2] + 1 \in Copies(b, place[1])
    /\ Target[b[1]] # InTurn => place[1] = Target[b[1]]

Begun(b) == b[2] <= sends[b[1]].number

SendTypes ==
    /\ sends \in [Threads -> [state : {"idle", "ready", "waiting"}, number : Nat, attempt : Nat]]
    /\ \A t \in Threads : sends[t].number <= MaxBatches[t]
    /\ \A t \in Threads : sends[t].state # "idle" => Current(t) \in Batches
    /\ log \in [Partitions -> Seq(Batches)]
    /\ next \in Nat
    /\ outcome \in [Batches -> [code : {"none", "acked", "failed"}, place : Places]]

\* What is on its way: requests of batches already begun, responses that are true.
InFlight ==
    /\ \A r \in requests : r.batch \in Batches /\ Begun(r.batch)
    /\ \A r \in replies : /\ r.batch \in Batches /\ r.place \in Places
                          /\ r.ok => StoredAt(r.batch, r.place)

Stored ==
    /\ \A p \in Partitions : \A i \in DOMAIN log[p] : Begun(log[p][i])
    /\ \A b \in Batches : Acked(b) => StoredAt(b, outcome[b].place)

SendInv == SendTypes /\ InFlight /\ Stored /\ FirstCopiesInOrder

----------------------------------------
(* Batches and logs *)

LEMMA BatchOf ==
    ASSUME NEW t \in Threads, NEW n \in 1 .. MaxBatches[t]
    PROVE  <<t, n>> \in Batches
BY DEF Batches

LEMMA BatchParts ==
    ASSUME NEW b \in Batches
    PROVE  b[1] \in Threads /\ b[2] \in 1 .. MaxBatches[b[1]] /\ b[2] \in Nat /\ b = <<b[1], b[2]>>
<1>1. PICK t \in Threads : b \in {t} \X (1 .. MaxBatches[t])
  BY DEF Batches
<1>2. MaxBatches[t] \in Nat
  BY ProducerAssumption
<1> QED BY <1>1, <1>2

\* SelectPartition returns a partition, the one that the batch names if it does.
LEMMA Selected ==
    ASSUME SendInv, NEW b \in Batches
    PROVE  /\ SelectPartition(b) \in Partitions
           /\ Target[b[1]] # InTurn => SelectPartition(b) = Target[b[1]]
<1>1. b[1] \in Threads
  BY BatchParts
<1>2. next \in Nat /\ NumPartitions \in Nat /\ NumPartitions > 0
  BY ProducerAssumption DEF SendInv, SendTypes
<1>3. next % NumPartitions \in 0 .. NumPartitions - 1
  BY <1>2
<1> QED BY <1>1, <1>3, ProducerAssumption DEF SelectPartition, Partitions

\* A copy stays where it is when a log grows.
LEMMA Grown ==
    ASSUME SendInv, NEW q \in Partitions, NEW b \in Batches,
           log' = [log EXCEPT ![q] = Append(@, b)]
    PROVE  /\ log' \in [Partitions -> Seq(Batches)]
           /\ log'[q][Len(log[q]) + 1] = b
           /\ Len(log[q]) \in Nat
           /\ Len(log[q]) + 1 \in DOMAIN log'[q]
           /\ \A p \in Partitions : \A i \in DOMAIN log[p] :
                 i \in DOMAIN log'[p] /\ log'[p][i] = log[p][i]
           /\ \A p \in Partitions : \A i \in DOMAIN log'[p] :
                 i \in DOMAIN log[p] \/ (p = q /\ i = Len(log[q]) + 1)
           /\ \A i \in DOMAIN log[q] : i < Len(log[q]) + 1
<1>1. log \in [Partitions -> Seq(Batches)] /\ log[q] \in Seq(Batches)
  BY DEF SendInv, SendTypes
<1>2. Len(log[q]) \in Nat /\ DOMAIN log[q] = 1 .. Len(log[q])
  BY <1>1, LenProperties
<1> DEFINE s == Append(log[q], b)
<1>3. /\ s \in Seq(Batches) /\ Len(s) = Len(log[q]) + 1 /\ s[Len(log[q]) + 1] = b
      /\ \A i \in 1 .. Len(log[q]) : s[i] = log[q][i]
  BY <1>1, AppendProperties
<1>4. DOMAIN s = 1 .. Len(log[q]) + 1
  BY <1>3, LenProperties
<1>5. log'[q] = s /\ \A p \in Partitions : p # q => log'[p] = log[p]
  BY <1>1
<1> HIDE DEF s
<1>6. log' \in [Partitions -> Seq(Batches)]
  BY <1>1, <1>3, <1>5
<1>7. \A i \in 1 .. Len(log[q]) : i \in 1 .. Len(log[q]) + 1 /\ i < Len(log[q]) + 1
  BY <1>2
<1>8. \A i \in 1 .. Len(log[q]) + 1 : i \in 1 .. Len(log[q]) \/ i = Len(log[q]) + 1
  BY <1>2
<1>9. Len(log[q]) + 1 \in 1 .. Len(log[q]) + 1
  BY <1>2
<1> QED BY <1>2, <1>3, <1>4, <1>5, <1>6, <1>7, <1>8, <1>9

LEMMA GrownStored ==
    ASSUME NEW b, NEW place, StoredAt(b, place),
           \A p \in Partitions : \A i \in DOMAIN log[p] :
               i \in DOMAIN log'[p] /\ log'[p][i] = log[p][i]
    PROVE  StoredAt(b, place)'
BY DEF StoredAt, Copies

----------------------------------------
(* Steps of the client, which leave the logs alone *)

\* A step that at most begins a batch, changes no outcome and adds no response.
LEMMA ClientStep ==
    ASSUME SendInv, UNCHANGED <<broker, outcome>>, SendTypes',
           replies' \subseteq replies,
           \A t \in Threads : sends[t].number <= sends'[t].number,
           \A r \in requests' : r \in requests \/ (r.batch \in Batches /\ Begun(r.batch)')
    PROVE  SendInv'
<1>1. log' = log /\ outcome' = outcome /\ next' = next
  BY DEF broker
<1>2. \A b \in Batches : Begun(b) => Begun(b)'
  <2> SUFFICES ASSUME NEW b \in Batches, Begun(b) PROVE Begun(b)'
    OBVIOUS
  <2>a. b[1] \in Threads /\ b[2] \in Nat
    BY BatchParts
  <2>b. sends[b[1]].number \in Nat /\ sends'[b[1]].number \in Nat
    BY <2>a DEF SendInv, SendTypes
  <2> QED BY <2>a, <2>b DEF Begun
<1>3. \A b, place : StoredAt(b, place)' = StoredAt(b, place)
  BY <1>1 DEF StoredAt, Copies
<1>4. InFlight'
  BY <1>2, <1>3 DEF SendInv, InFlight
<1>5. Stored'
  <2>a. \A p \in Partitions : \A i \in DOMAIN log[p] : log[p][i] \in Batches
    <3>1. \A p \in Partitions : log[p] \in Seq(Batches)
      BY DEF SendInv, SendTypes
    <3> QED BY <3>1, LenProperties, ElementOfSeq
  <2> QED BY <1>1, <1>2, <1>3, <2>a DEF SendInv, Stored, Acked
<1>6. FirstCopiesInOrder'
  BY <1>1 DEF SendInv, FirstCopiesInOrder, Acked, Copies
<1> QED BY <1>4, <1>5, <1>6 DEF SendInv

\* An attempt ends: SendBatch fails, or tries again.
LEMMA TriesAgainTypes ==
    ASSUME SendInv, NEW t \in Threads, sends[t].state # "idle", TriesAgain(t), UNCHANGED broker
    PROVE  /\ SendTypes'
           /\ \A u \in Threads : sends'[u].number = sends[u].number
           /\ \A b \in Batches : Acked(b)' => Acked(b) /\ outcome'[b] = outcome[b]
<1>1. /\ sends \in [Threads -> [state : {"idle", "ready", "waiting"}, number : Nat, attempt : Nat]]
      /\ outcome \in [Batches -> [code : {"none", "acked", "failed"}, place : Places]]
      /\ Current(t) \in Batches
      /\ log' = log /\ next' = next
  BY DEF SendInv, SendTypes, broker
<1>2. CASE sends[t].attempt < SendRetries
  <2>a. /\ sends' = [sends EXCEPT ![t].state = "ready", ![t].attempt = @ + 1]
        /\ outcome' = outcome
    BY <1>2 DEF TriesAgain
  <2>b. /\ sends' \in [Threads -> [state : {"idle", "ready", "waiting"}, number : Nat, attempt : Nat]]
        /\ \A u \in Threads : sends'[u].number = sends[u].number
        /\ \A u \in Threads : u # t => sends'[u] = sends[u]
    BY <1>1, <2>a
  <2>c. \A u \in Threads : Current(u)' = Current(u)
    BY <2>b DEF Current
  <2>d. SendTypes'
    BY <1>1, <2>a, <2>b, <2>c DEF SendInv, SendTypes
  <2> QED BY <2>a, <2>b, <2>d DEF Acked
<1>3. CASE ~(sends[t].attempt < SendRetries)
  <2>a. /\ sends' = [sends EXCEPT ![t].state = "idle"]
        /\ outcome' = [outcome EXCEPT ![Current(t)] = Outcome("failed", NoPlace)]
    BY <1>3 DEF TriesAgain, Returns
  <2>b. /\ sends' \in [Threads -> [state : {"idle", "ready", "waiting"}, number : Nat, attempt : Nat]]
        /\ \A u \in Threads : sends'[u].number = sends[u].number
        /\ \A u \in Threads : u # t => sends'[u] = sends[u]
        /\ sends'[t].state = "idle"
    BY <1>1, <2>a
  <2>c. \A u \in Threads : Current(u)' = Current(u)
    BY <2>b DEF Current
  <2>d. Outcome("failed", NoPlace) \in [code : {"none", "acked", "failed"}, place : Places]
    BY DEF Outcome, Places
  <2>e. outcome' \in [Batches -> [code : {"none", "acked", "failed"}, place : Places]]
    BY <1>1, <2>a, <2>d
  <2>f. SendTypes'
    BY <1>1, <2>b, <2>c, <2>e DEF SendInv, SendTypes
  <2>g. ~Acked(Current(t))'
    BY <1>1, <2>a, <2>c DEF Acked, Outcome
  <2>h. \A b \in Batches : b # Current(t) => outcome'[b] = outcome[b]
    BY <1>1, <2>a
  <2> QED BY <2>b, <2>c, <2>f, <2>g, <2>h DEF Acked
<1> QED BY <1>2, <1>3

LEMMA FailedStep ==
    ASSUME SendInv, NEW t \in Threads, sends[t].state # "idle", TriesAgain(t), UNCHANGED broker,
           requests' = requests, replies' \subseteq replies
    PROVE  SendInv'
<1>1. /\ SendTypes'
      /\ \A u \in Threads : sends'[u].number = sends[u].number
      /\ \A b \in Batches : Acked(b)' => Acked(b) /\ outcome'[b] = outcome[b]
  BY TriesAgainTypes
<1>2. log' = log
  BY DEF broker
<1>3. \A b \in Batches : Begun(b)' = Begun(b)
  BY <1>1, BatchParts DEF Begun
<1>4. \A b, place : StoredAt(b, place)' = StoredAt(b, place)
  BY <1>2 DEF StoredAt, Copies
<1>5. InFlight'
  BY <1>3, <1>4 DEF SendInv, InFlight
<1>6. Stored'
  <2>a. \A p \in Partitions : \A i \in DOMAIN log[p] : log[p][i] \in Batches
    <3>1. \A p \in Partitions : log[p] \in Seq(Batches)
      BY DEF SendInv, SendTypes
    <3> QED BY <3>1, LenProperties, ElementOfSeq
  <2> QED BY <1>1, <1>2, <1>3, <1>4, <2>a DEF SendInv, Stored
<1>7. FirstCopiesInOrder'
  <2> SUFFICES ASSUME NEW u \in Threads, Target[u] # InTurn,
                      NEW m \in 1 .. MaxBatches[u], NEW n \in 1 .. MaxBatches[u],
                      m < n, Acked(<<u, m>>)',
                      NEW j \in Copies(<<u, n>>, Target[u])'
               PROVE  \E i \in Copies(<<u, m>>, Target[u])' : i < j
    BY DEF FirstCopiesInOrder
  <2>a. Acked(<<u, m>>)
    BY <1>1, BatchOf
  <2> QED BY <2>a, <1>2 DEF SendInv, FirstCopiesInOrder, Copies
<1> QED BY <1>1, <1>5, <1>6, <1>7 DEF SendInv

LEMMA SendBatchInv ==
    ASSUME SendInv, NEW t \in Threads, SendBatch(t)
    PROVE  SendInv'
<1> DEFINE new == [state |-> "ready", number |-> sends[t].number + 1, attempt |-> 0]
<1>1. /\ sends \in [Threads -> [state : {"idle", "ready", "waiting"}, number : Nat, attempt : Nat]]
      /\ sends[t].number \in Nat /\ sends[t].number < MaxBatches[t] /\ MaxBatches[t] \in Nat
      /\ \A u \in Threads : sends[u].number \in Nat
      /\ UNCHANGED <<network, broker, outcome>>
      /\ sends' = [sends EXCEPT ![t] = new]
  BY ProducerAssumption DEF SendInv, SendTypes, SendBatch
<1>2. /\ sends'[t] = new /\ \A u \in Threads : u # t => sends'[u] = sends[u]
      /\ sends' \in [Threads -> [state : {"idle", "ready", "waiting"}, number : Nat, attempt : Nat]]
  BY <1>1
<1>3. /\ \A u \in Threads : sends[u].number <= sends'[u].number
      /\ \A u \in Threads : sends'[u].number <= MaxBatches[u]
  BY <1>1, <1>2 DEF SendInv, SendTypes
<1>4. \A u \in Threads : sends'[u].state # "idle" => Current(u)' \in Batches
  <2>a. Current(t)' \in Batches
    <3>1. sends'[t].number \in 1 .. MaxBatches[t]
      BY <1>1, <1>2
    <3> QED BY <3>1, BatchOf DEF Current
  <2>b. \A u \in Threads : u # t => Current(u)' = Current(u)
    BY <1>2 DEF Current
  <2> QED BY <1>2, <2>a, <2>b DEF SendInv, SendTypes
<1>5. SendTypes'
  BY <1>1, <1>2, <1>3, <1>4 DEF SendInv, SendTypes, broker
<1> QED BY <1>1, <1>3, <1>5, ClientStep DEF network

LEMMA RoundTripInv ==
    ASSUME SendInv, NEW t \in Threads, RoundTrip(t)
    PROVE  SendInv'
<1>1. /\ sends \in [Threads -> [state : {"idle", "ready", "waiting"}, number : Nat, attempt : Nat]]
      /\ sends[t].state = "ready" /\ Current(t) \in Batches
      /\ sends' = [sends EXCEPT ![t].state = "waiting"]
      /\ UNCHANGED <<broker, outcome>> /\ replies' = replies
      /\ \A r \in requests' : r \in requests \/ r.batch = Current(t)
  BY DEF SendInv, SendTypes, RoundTrip
<1>2. /\ sends' \in [Threads -> [state : {"idle", "ready", "waiting"}, number : Nat, attempt : Nat]]
      /\ \A u \in Threads : sends'[u].number = sends[u].number /\ sends[u].number \in Nat
      /\ \A u \in Threads : u # t => sends'[u] = sends[u]
  BY <1>1
<1>3. \A u \in Threads : Current(u)' = Current(u)
  BY <1>2 DEF Current
<1>4. SendTypes'
  BY <1>1, <1>2, <1>3 DEF SendInv, SendTypes, broker
<1>5. \A u \in Threads : sends[u].number <= sends'[u].number
  BY <1>2
<1>6. \A r \in requests' : r \in requests \/ (r.batch \in Batches /\ Begun(r.batch)')
  <2> SUFFICES ASSUME NEW r \in requests', r \notin requests
               PROVE  r.batch \in Batches /\ Begun(r.batch)'
    OBVIOUS
  <2>a. r.batch = Current(t)
    BY <1>1
  <2>b. r.batch \in Batches /\ (r.batch)[1] = t /\ (r.batch)[2] = sends[t].number
    BY <2>a, <1>1 DEF Current
  <2>c. (r.batch)[2] <= sends'[t].number
    BY <2>b, <1>2
  <2> QED BY <2>b, <2>c DEF Begun
<1> QED BY <1>1, <1>4, <1>5, <1>6, ClientStep

LEMMA ReadResponseInv ==
    ASSUME SendInv, NEW t \in Threads, ReadResponse(t)
    PROVE  SendInv'
<1>1. PICK r \in replies : /\ InRoundTrip(t) /\ r.conn = conn /\ r.batch = Current(t)
                           /\ replies' = replies \ {r}
                           /\ Returns(t, Outcome(IF r.ok THEN "acked" ELSE "failed", r.place))
                           /\ UNCHANGED <<conn, made, requests, broker>>
  BY DEF ReadResponse
<1> DEFINE c == Current(t)
           result == Outcome(IF r.ok THEN "acked" ELSE "failed", r.place)
<1>2. /\ sends \in [Threads -> [state : {"idle", "ready", "waiting"}, number : Nat, attempt : Nat]]
      /\ outcome \in [Batches -> [code : {"none", "acked", "failed"}, place : Places]]
      /\ c \in Batches /\ log' = log /\ next' = next
      /\ sends' = [sends EXCEPT ![t].state = "idle"]
      /\ outcome' = [outcome EXCEPT ![c] = result]
  BY <1>1 DEF SendInv, SendTypes, broker, InRoundTrip, Returns
<1>3. /\ sends' \in [Threads -> [state : {"idle", "ready", "waiting"}, number : Nat, attempt : Nat]]
      /\ \A u \in Threads : sends'[u].number = sends[u].number /\ sends[u].number \in Nat
      /\ \A u \in Threads : u # t => sends'[u] = sends[u]
      /\ sends'[t].state = "idle"
  BY <1>2
<1>4. \A u \in Threads : Current(u)' = Current(u)
  BY <1>3 DEF Current
<1>5. /\ result \in [code : {"none", "acked", "failed"}, place : Places]
      /\ result.code = "acked" => StoredAt(c, result.place)
  BY <1>1 DEF SendInv, InFlight, Outcome
<1>6. /\ outcome' \in [Batches -> [code : {"none", "acked", "failed"}, place : Places]]
      /\ outcome'[c] = result
      /\ \A b \in Batches : b # c => outcome'[b] = outcome[b]
  BY <1>2, <1>5
<1>7. SendTypes'
  BY <1>2, <1>3, <1>4, <1>6 DEF SendInv, SendTypes
<1>8. \A b \in Batches : Begun(b)' = Begun(b)
  BY <1>3, BatchParts DEF Begun
<1>9. \A b, place : StoredAt(b, place)' = StoredAt(b, place)
  BY <1>2 DEF StoredAt, Copies
<1>10. InFlight'
  BY <1>1, <1>8, <1>9 DEF SendInv, InFlight
<1>11. \A p \in Partitions : \A i \in DOMAIN log[p] : log[p][i] \in Batches
  <2>a. \A p \in Partitions : log[p] \in Seq(Batches)
    BY DEF SendInv, SendTypes
  <2> QED BY <2>a, LenProperties, ElementOfSeq
<1>12. Stored'
  <2>a. \A b \in Batches : Acked(b)' => StoredAt(b, outcome'[b].place)
    BY <1>5, <1>6 DEF SendInv, Stored, Acked
  <2> QED BY <2>a, <1>2, <1>8, <1>9, <1>11 DEF SendInv, Stored
<1>13. FirstCopiesInOrder'
  <2> SUFFICES ASSUME NEW u \in Threads, Target[u] # InTurn,
                      NEW m \in 1 .. MaxBatches[u], NEW n \in 1 .. MaxBatches[u],
                      m < n, Acked(<<u, m>>)',
                      NEW j \in Copies(<<u, n>>, Target[u])
               PROVE  \E i \in Copies(<<u, m>>, Target[u]) : i < j
    BY <1>2 DEF FirstCopiesInOrder, Copies
  <2>a. CASE <<u, m>> # c
    <3>1. Acked(<<u, m>>)
      BY <2>a, <1>6, BatchOf DEF Acked
    <3> QED BY <3>1 DEF SendInv, FirstCopiesInOrder
  <2>b. CASE <<u, m>> = c
    <3>1. u = t /\ m = sends[t].number
      BY <2>b DEF Current
    <3>2. Target[u] \in Partitions /\ MaxBatches[u] \in Nat
      BY ProducerAssumption
    <3>3. j \in DOMAIN log[Target[u]] /\ log[Target[u]][j] = <<u, n>>
      BY DEF Copies
    <3>4. Begun(<<u, n>>)
      BY <3>2, <3>3 DEF SendInv, Stored
    <3> QED BY <3>1, <3>2, <3>4, <1>3 DEF Begun
  <2> QED BY <2>a, <2>b
<1> QED BY <1>7, <1>10, <1>12, <1>13 DEF SendInv

----------------------------------------
(* Steps of the broker *)

\* A request leaves `requests`, its batch may have been appended, and a response may
\* have been sent that tells the truth.
LEMMA ExecuteStep ==
    ASSUME SendInv, NEW r \in requests, requests' = requests \ {r}, next' \in Nat,
           UNCHANGED <<sends, outcome>>,
           \/ log' = log
           \/ log' = [log EXCEPT ![SelectPartition(r.batch)] = Append(@, r.batch)],
           \A s \in replies' : \/ s \in replies
                               \/ /\ s.batch \in Batches /\ s.place \in Places
                                  /\ s.ok => StoredAt(s.batch, s.place)'
    PROVE  SendInv'
<1> DEFINE q == SelectPartition(r.batch)
           b == r.batch
<1>1. /\ b \in Batches /\ Begun(b)
      /\ q \in Partitions
  BY Selected DEF SendInv, InFlight
<1> HIDE DEF q, b
<1>2. /\ log' \in [Partitions -> Seq(Batches)]
      /\ \A p \in Partitions : \A i \in DOMAIN log[p] :
            i \in DOMAIN log'[p] /\ log'[p][i] = log[p][i]
      /\ \A p \in Partitions : \A i \in DOMAIN log'[p] :
            \/ i \in DOMAIN log[p]
            \/ p = q /\ log'[p][i] = b /\ i = Len(log[q]) + 1
      /\ \A i \in DOMAIN log[q] : i < Len(log[q]) + 1
  <2>a. CASE log' = log
    <3>1. log[q] \in Seq(Batches)
      BY <1>1 DEF SendInv, SendTypes
    <3>2. Len(log[q]) \in Nat /\ DOMAIN log[q] = 1 .. Len(log[q])
      BY <3>1, LenProperties
    <3>3. \A i \in DOMAIN log[q] : i < Len(log[q]) + 1
      BY <3>2
    <3> QED BY <2>a, <3>3 DEF SendInv, SendTypes
  <2>b. CASE log' = [log EXCEPT ![q] = Append(@, b)]
    BY <2>b, <1>1, Grown
  <2> QED BY <2>a, <2>b DEF q, b
<1>3. SendTypes'
  <2>a. \A u \in Threads : Current(u)' = Current(u)
    BY DEF Current
  <2> QED BY <2>a, <1>2 DEF SendInv, SendTypes
<1>4. \A c, place : StoredAt(c, place) => StoredAt(c, place)'
  BY <1>2, GrownStored
<1>5. \A c : Begun(c)' = Begun(c)
  BY DEF Begun
<1>6. InFlight'
  BY <1>4, <1>5 DEF SendInv, InFlight
<1>7. Stored'
  <2>a. ASSUME NEW p \in Partitions, NEW i \in DOMAIN log'[p] PROVE Begun(log'[p][i])
    <3>1. CASE i \in DOMAIN log[p]
      BY <3>1, <1>2 DEF SendInv, Stored
    <3>2. CASE log'[p][i] = b
      BY <3>2, <1>1
    <3> QED BY <3>1, <3>2, <1>2
  <2> QED BY <2>a, <1>4, <1>5 DEF SendInv, Stored, Acked
<1>8. FirstCopiesInOrder'
  <2> SUFFICES ASSUME NEW u \in Threads, Target[u] # InTurn,
                      NEW m \in 1 .. MaxBatches[u], NEW n \in 1 .. MaxBatches[u],
                      m < n, Acked(<<u, m>>),
                      NEW j \in Copies(<<u, n>>, Target[u])'
               PROVE  \E i \in Copies(<<u, m>>, Target[u])' : i < j
    BY DEF FirstCopiesInOrder, Acked
  <2> DEFINE p == Target[u]
  <2>a. p \in Partitions
    BY ProducerAssumption
  <2>b. j \in DOMAIN log'[p] /\ log'[p][j] = <<u, n>>
    BY DEF Copies
  <2>c. \A i \in Copies(<<u, m>>, p) : i \in Copies(<<u, m>>, p)'
    BY <1>2, <2>a DEF Copies
  <2>d. CASE j \in DOMAIN log[p]
    <3>1. j \in Copies(<<u, n>>, p)
      BY <2>a, <2>b, <2>d, <1>2 DEF Copies
    <3>2. PICK i \in Copies(<<u, m>>, p) : i < j
      BY <3>1 DEF SendInv, FirstCopiesInOrder
    <3> QED BY <3>2, <2>c
  <2>e. CASE p = q /\ j = Len(log[q]) + 1
    <3>1. <<u, m>> \in Batches
      BY BatchOf
    <3>2. StoredAt(<<u, m>>, outcome[<<u, m>>].place)
      BY <3>1 DEF SendInv, Stored
    <3>3. PICK i : i \in Copies(<<u, m>>, p)
      BY <3>2 DEF StoredAt
    <3>4. i < j
      BY <3>3, <2>e, <1>2 DEF Copies
    <3> QED BY <3>3, <3>4, <2>c
  <2> QED BY <2>a, <2>b, <2>d, <2>e, <1>2
<1> QED BY <1>3, <1>6, <1>7, <1>8 DEF SendInv

LEMMA AdvanceType == ASSUME SendInv, NEW b, Advance(b) PROVE next' \in Nat
BY DEF SendInv, SendTypes, Advance

LEMMA HandleProduceInv ==
    ASSUME SendInv, NEW r \in requests, HandleProduce(r)
    PROVE  SendInv'
<1>1. PICK q : q = SelectPartition(r.batch)
  OBVIOUS
<1>2. PICK n : n = Len(log[q])
  OBVIOUS
<1>3. /\ requests' = requests \ {r} /\ Advance(r.batch) /\ UNCHANGED <<sends, outcome>>
      /\ log' = [log EXCEPT ![q] = Append(@, r.batch)]
      /\ Reply(r, TRUE, <<q, n>>)
  BY <1>1, <1>2 DEF HandleProduce
<1>4. /\ r.batch \in Batches /\ q \in Partitions
      /\ Target[(r.batch)[1]] # InTurn => q = Target[(r.batch)[1]]
  BY <1>1, Selected DEF SendInv, InFlight
<1>5. n \in Nat /\ n + 1 \in DOMAIN log'[q] /\ log'[q][n + 1] = r.batch
  BY <1>2, <1>3, <1>4, Grown
<1>6. <<q, n>> \in Partitions \X Nat /\ <<q, n>> \in Places
  BY <1>4, <1>5 DEF Places
<1>7. StoredAt(r.batch, <<q, n>>)'
  BY <1>4, <1>5, <1>6 DEF StoredAt, Copies
<1>8. \A s \in replies' : \/ s \in replies
                          \/ /\ s.batch \in Batches /\ s.place \in Places
                             /\ s.ok => StoredAt(s.batch, s.place)'
  <2> SUFFICES ASSUME NEW s \in replies', s \notin replies
               PROVE  /\ s.batch \in Batches /\ s.place \in Places
                      /\ StoredAt(s.batch, s.place)'
    OBVIOUS
  <2>a. s.batch = r.batch /\ s.place = <<q, n>>
    BY <1>3 DEF Reply
  <2> QED BY <1>4, <1>6, <1>7, <2>a
<1>9. next' \in Nat
  BY <1>3, AdvanceType
<1> QED BY <1>1, <1>3, <1>8, <1>9, ExecuteStep

LEMMA ProduceFailsInv ==
    ASSUME SendInv, NEW r \in requests, ProduceFails(r)
    PROVE  SendInv'
<1>1. /\ requests' = requests \ {r} /\ Advance(r.batch) /\ UNCHANGED <<sends, outcome>>
      /\ \/ log' = log
         \/ log' = [log EXCEPT ![SelectPartition(r.batch)] = Append(@, r.batch)]
      /\ Reply(r, FALSE, NoPlace)
  BY DEF ProduceFails
<1>2. r.batch \in Batches /\ NoPlace \in Places
  BY DEF SendInv, InFlight, Places
<1>3. \A s \in replies' : s \in replies \/ (s.batch = r.batch /\ s.place = NoPlace /\ s.ok = FALSE)
  BY <1>1 DEF Reply
<1>4. next' \in Nat
  BY <1>1, AdvanceType
<1> QED BY <1>1, <1>2, <1>3, <1>4, ExecuteStep

LEMMA DroppedInv ==
    ASSUME SendInv, NEW r \in requests, Dropped(r)
    PROVE  SendInv'
<1>1. next' \in Nat
  BY DEF SendInv, SendTypes, Dropped, broker
<1> QED BY <1>1, ExecuteStep DEF Dropped, broker

----------------------------------------
(* The theorems about Producer *)

LEMMA SendInitInv == ProducerInit => SendInv
<1> SUFFICES ASSUME ProducerInit PROVE SendInv
  OBVIOUS
<1>1. SendTypes
  BY ProducerAssumption, EmptySeq DEF ProducerInit, SendTypes, Outcome, Places
<1>2. \A p \in Partitions : DOMAIN log[p] = {}
  BY DEF ProducerInit
<1>3. \A b \in Batches : ~Acked(b)
  BY DEF ProducerInit, Acked, Outcome
<1>4. FirstCopiesInOrder
  BY <1>3, BatchOf DEF FirstCopiesInOrder
<1> QED BY <1>1, <1>2, <1>3, <1>4 DEF ProducerInit, SendInv, InFlight, Stored

LEMMA SendNextInv == SendInv /\ [ProducerNext]_producer_vars => SendInv'
<1> SUFFICES ASSUME SendInv, [ProducerNext]_producer_vars PROVE SendInv'
  OBVIOUS
<1>1. ASSUME NEW t \in Threads, WriteFails(t) PROVE SendInv'
  BY <1>1, FailedStep DEF WriteFails
<1>2. ASSUME NEW t \in Threads, ReadFails(t) PROVE SendInv'
  BY <1>2, FailedStep DEF ReadFails, InRoundTrip
<1>3. CASE UNCHANGED producer_vars
  <2>a. SendTypes'
    BY <1>3 DEF producer_vars, broker, SendInv, SendTypes, Current
  <2>b. \A u \in Threads : sends[u].number <= sends'[u].number
    <3>1. \A u \in Threads : sends[u].number \in Nat
      BY DEF SendInv, SendTypes
    <3> QED BY <3>1, <1>3 DEF producer_vars
  <2> QED BY <2>a, <2>b, <1>3, ClientStep DEF producer_vars, network, broker
<1> QED BY <1>1, <1>2, <1>3, SendBatchInv, RoundTripInv, ReadResponseInv, HandleProduceInv,
           ProduceFailsInv, DroppedInv DEF ProducerNext

\* A batch that SendBatch reported as sent lies at the partition and offset of the
\* response, whatever timeouts, retries, late executions and failures came before.
THEOREM AckedStoredCorrect == ProducerSpec => []AckedStored
<1>1. SendInv => AckedStored
  BY DEF SendInv, Stored, StoredAt, AckedStored, NoPlace
<1> QED BY <1>1, SendInitInv, SendNextInv, PTL DEF ProducerSpec

\* The first copies of a thread's acknowledged batches are in the order of sending.
THEOREM FirstCopiesOrdered == ProducerSpec => []FirstCopiesInOrder
<1>1. SendInv => FirstCopiesInOrder
  BY DEF SendInv
<1> QED BY <1>1, SendInitInv, SendNextInv, PTL DEF ProducerSpec
================================================================================
