-------------------------------- MODULE Producer ---------------------------------
(***************************************************************************)
(* The client's Producer: application threads that share one Producer and  *)
(* so one ClientConnection, whose mutex is held for a whole round trip,    *)
(* and the broker that executes the requests.  After a timeout or an I/O   *)
(* error the socket is closed and the batch is sent again over a new one,  *)
(* but nothing tells the broker to forget the first request: it executes   *)
(* the requests of different connections in any order.                     *)
(*                                                                         *)
(* A batch names its partition, or has a key whose hash does, or leaves    *)
(* the choice to the broker, which takes the partitions in turn.           *)
(***************************************************************************)
EXTENDS Integers, Sequences

CONSTANTS
    Threads,        \* application threads
    NumPartitions,
    Target,         \* Target[t]: the partition of thread t's batches, or InTurn
    SendRetries,    \* options_.max_retries
    MaxBatches      \* MaxBatches[t]: bound on the batches a thread sends

InTurn == -1        \* kInvalidPartitionId, and no key
Partitions == 0 .. NumPartitions - 1

ASSUME ProducerAssumption ==
    /\ NumPartitions \in Nat \ {0} /\ SendRetries \in Nat
    /\ Target \in [Threads -> Partitions \cup {InTurn}]
    /\ MaxBatches \in [Threads -> Nat]

VARIABLES
    sends,      \* sends[t]: the SendBatch call of thread t
    conn,       \* fd_ of the connection, NoConn when there is none
    made,       \* connections made so far
    requests,   \* requests written to a socket and not yet executed
    replies,    \* responses on their way
    log,        \* log[p]: the batches of partition p, by thread and number
    next,       \* next_partition of the topic
    outcome     \* outcome[b]: what SendBatch returned for batch b

network == <<conn, made, requests, replies>>
broker == <<log, next>>
producer_vars == <<sends, network, broker, outcome>>

NoConn == 0
Batches == UNION {{t} \X (1 .. MaxBatches[t]) : t \in Threads}

\* What SendBatch returns: with "acked", the place the response names.
Outcome(code, place) == [code |-> code, place |-> place]
NoPlace == <<>>

Current(t) == <<t, sends[t].number>>
InRoundTrip(t) == sends[t].state = "waiting"

--------------------------------------------------------------------------------
(* SendBatch *)

SendBatch(t) ==
    /\ sends[t].state = "idle"
    /\ sends[t].number < MaxBatches[t]
    /\ sends' = [sends EXCEPT ![t] = [state |-> "ready", number |-> @.number + 1,
                                      attempt |-> 0]]
    /\ UNCHANGED <<network, broker, outcome>>

\* SendBatch returns.
Returns(t, result) ==
    /\ sends' = [sends EXCEPT ![t].state = "idle"]
    /\ outcome' = [outcome EXCEPT ![Current(t)] = result]

\* The loop over the attempts after an I/O error or a timeout.
TriesAgain(t) ==
    IF sends[t].attempt < SendRetries
    THEN /\ sends' = [sends EXCEPT ![t].state = "ready", ![t].attempt = @ + 1]
         /\ UNCHANGED outcome
    ELSE Returns(t, Outcome("failed", NoPlace))

--------------------------------------------------------------------------------
(* RoundTrip *)

\* The thread gets the mutex, connects when there is no socket, and writes.
RoundTrip(t) ==
    LET c == IF conn = NoConn THEN made + 1 ELSE conn
    IN  /\ sends[t].state = "ready"
        /\ \A u \in Threads : ~InRoundTrip(u)
        /\ conn' = c
        /\ made' = IF conn = NoConn THEN made + 1 ELSE made
        /\ requests' = requests \cup {[conn |-> c, batch |-> Current(t)]}
        /\ sends' = [sends EXCEPT ![t].state = "waiting"]
        /\ UNCHANGED <<replies, broker, outcome>>

\* Connecting or writing fails.
WriteFails(t) ==
    /\ sends[t].state = "ready"
    /\ \A u \in Threads : ~InRoundTrip(u)
    /\ conn' = NoConn
    /\ TriesAgain(t)
    /\ UNCHANGED <<made, requests, replies, broker>>

\* Faulty variant: the error code of the response is not looked at.
ReadAnyResponse(t) ==
    \E r \in replies :
        /\ InRoundTrip(t) /\ r.conn = conn /\ r.batch = Current(t)
        /\ replies' = replies \ {r}
        /\ Returns(t, Outcome("acked", r.place))
        /\ UNCHANGED <<conn, made, requests, broker>>

\* The response arrives; an error of the broker is not tried again.
ReadResponse(t) ==
    \E r \in replies :
        /\ InRoundTrip(t) /\ r.conn = conn /\ r.batch = Current(t)
        /\ replies' = replies \ {r}
        /\ Returns(t, Outcome(IF r.ok THEN "acked" ELSE "failed", r.place))
        /\ UNCHANGED <<conn, made, requests, broker>>

\* Faulty variant: a timeout is taken for success.
TimeoutIsSuccess(t) ==
    /\ InRoundTrip(t)
    /\ conn' = NoConn
    /\ replies' = {}
    /\ Returns(t, Outcome("acked", NoPlace))
    /\ UNCHANGED <<made, requests, broker>>

\* The response does not arrive in time, or the connection breaks: the socket is
\* closed, and a response still on its way is never read.
ReadFails(t) ==
    /\ InRoundTrip(t)
    /\ conn' = NoConn
    /\ replies' = {}
    /\ TriesAgain(t)
    /\ UNCHANGED <<made, requests, broker>>

--------------------------------------------------------------------------------
(* The broker *)

\* A response is sent only over a connection that is still open.
Reply(r, ok, place) ==
    replies' = IF r.conn = conn
               THEN replies \cup {[conn |-> conn, batch |-> r.batch, ok |-> ok, place |-> place]}
               ELSE replies

\* SelectPartition, once per request: a repeated one may go elsewhere.
SelectPartition(b) ==
    IF Target[b[1]] # InTurn THEN Target[b[1]] ELSE next % NumPartitions

Advance(b) == next' = IF Target[b[1]] = InTurn THEN next + 1 ELSE next

\* HandleProduce appends the batch and tells where.
HandleProduce(r) ==
    LET p == SelectPartition(r.batch)
    IN  /\ requests' = requests \ {r}
        /\ Advance(r.batch)
        /\ log' = [log EXCEPT ![p] = Append(@, r.batch)]
        /\ Reply(r, TRUE, <<p, Len(log[p])>>)
        /\ UNCHANGED <<sends, conn, made, outcome>>

\* HandleProduce fails, in the append or in the flush after it.
ProduceFails(r) ==
    LET p == SelectPartition(r.batch)
    IN  /\ requests' = requests \ {r}
        /\ Advance(r.batch)
        /\ log' \in {log, [log EXCEPT ![p] = Append(@, r.batch)]}
        /\ Reply(r, FALSE, NoPlace)
        /\ UNCHANGED <<sends, conn, made, outcome>>

\* The broker sees the connection closed before it has read the request.
Dropped(r) ==
    /\ r.conn # conn
    /\ requests' = requests \ {r}
    /\ UNCHANGED <<sends, conn, made, replies, broker, outcome>>

--------------------------------------------------------------------------------
ProducerInit ==
    /\ sends = [t \in Threads |-> [state |-> "idle", number |-> 0, attempt |-> 0]]
    /\ conn = NoConn
    /\ made = 0
    /\ requests = {}
    /\ replies = {}
    /\ log = [p \in Partitions |-> <<>>]
    /\ next = 0
    /\ outcome = [b \in Batches |-> Outcome("none", NoPlace)]

ProducerNext ==
    \/ \E t \in Threads :
          SendBatch(t) \/ RoundTrip(t) \/ WriteFails(t) \/ ReadResponse(t) \/ ReadFails(t)
    \/ \E r \in requests : HandleProduce(r) \/ ProduceFails(r) \/ Dropped(r)

ProducerSpec == ProducerInit /\ [][ProducerNext]_producer_vars

--------------------------------------------------------------------------------
(* Properties *)

Copies(b, p) == {i \in DOMAIN log[p] : log[p][i] = b}
Acked(b) == outcome[b].code = "acked"

\* The types of the variables; no attempt beyond the last retry is made.
ProducerTypeOK ==
    /\ \A t \in Threads :
          /\ sends[t].state \in {"idle", "ready", "waiting"}
          /\ sends[t].number \in 0 .. MaxBatches[t]
          /\ sends[t].attempt \in 0 .. SendRetries
    /\ conn \in {NoConn, made}
    /\ \A r \in requests : r.conn \in 1 .. made /\ r.batch \in Batches
    /\ \A r \in replies : r.conn = conn /\ r.batch \in Batches
    /\ log \in [Partitions -> Seq(Batches)]
    /\ next \in Nat
    /\ \A b \in Batches : outcome[b].code \in {"none", "acked", "failed"}

\* A batch that SendBatch reported as sent is where the response says, also when
\* copies of it went to other partitions.
AckedStored ==
    \A b \in Batches : Acked(b) =>
        LET place == outcome[b].place
        IN  place # NoPlace /\ place[2] + 1 \in Copies(b, place[1])

\* Retries and late requests duplicate batches, but never overtake: in the partition
\* of a thread that does not leave the choice to the broker, before any copy of a
\* later batch there is a copy of every batch it sent successfully before, so the
\* first copies are in the order of sending.
FirstCopiesInOrder ==
    \A t \in Threads : Target[t] # InTurn =>
        \A m, n \in 1 .. MaxBatches[t] :
            m < n /\ Acked(<<t, m>>) =>
                \A j \in Copies(<<t, n>>, Target[t]) :
                    \E i \in Copies(<<t, m>>, Target[t]) : i < j
================================================================================
