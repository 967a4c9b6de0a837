# A TLA+ verification of LogMQ

LogMQ is a small log-structured message broker in C++: partition logs in segment
files, topics, consumer groups, delayed retries with a dead-letter log, a
reactor-style TCP server and a client library. This directory holds TLA+ modules of
its stateful parts, the TLC configurations that check them, and TLAPS proofs of most
of the safety properties for all values of the constants. `PROJECT.json` lists, for
every definition, the source lines it stands for.

Run a model with `tlc -config <cfg> <MC module>`, the proofs of a module `M` with
`tlapm MProofs.tla`.

## The system

| part | state it keeps | operations | talks to |
|---|---|---|---|
| `CommitLog` over `Segment`, `OffsetIndex`, `RecordBatch`, `File` | segment files; write position, sparse index and next offset in memory | Open (recovery), Append (rollover), Read, Flush, Close | called by the broker's workers under the log's mutex |
| `TopicManager`, `OffsetStore`, `BrokerService` | topic table + `topics.meta`, committed offsets + one file per key, partitions | Start, CreateTopic, Produce, Fetch, CommitOffset, FetchCommittedOffset, Close | logs; files replaced by write-and-rename |
| asynchronous flusher | stop flag, condition variable | flush all partitions every interval | `TopicManager::Flush`; stopped by Close |
| `HandleNack`, `RetryScheduler` | `%RETRY%` and `%DLQ%` logs, heap of due times, visible end per partition | Nack, Schedule, Recover, scheduler thread, VisibleEnd | wall clock, logs, Fetch |
| `GroupCoordinator` | members, generation, leader, assignment, heartbeat times (memory only) | JoinGroup, SyncGroup, Heartbeat, LeaveGroup, timeout scanner | steady clock, consumers |
| `TcpServer`, `TcpConnection`, `EventLoop`, `WorkerPool` | connection map, per-connection request queue and output buffer, functor queues, task queue | accept, register, read, submit, respond, write, close, Stop | clients, `BrokerService::Handle` |
| `Consumer` | member id, generation, assignment with positions, flags | Subscribe, Poll, Seek, Nack, CommitSync, Close; heartbeat thread | coordinator, logs and committed offsets, over one connection |
| `Producer`, `ClientConnection` | one socket and its mutex | Send, SendBatch with retries | broker |
| `EventLoop`, `Channel`, `EpollPoller` | functor queue, eventfd, `registered_fds_`, what each channel waits for | Poll, dispatch, QueueInLoop, Wakeup, Quit, update and remove channels | the kernel, connections, accepting thread, workers |
| protocol codec, `FrameDecoder`, `Buffer` | undecoded bytes, unwritten bytes | encode and decode requests and responses, Push, Append, Consume | both ends of a connection |
| `AdminClient`, record/CRC encoding, kqueue, config, `main`, CLI | – | – | not modelled, see the end |

What is hard in it: crashes and power losses between the steps of an append, a flush,
a rollover, a recovery, a rename; operations that fail halfway; clocks read before a
lock; tokens, positions and log ends that are stale when they are used; responses
that are lost, late or repeated; descriptors used again; condition variables notified
without their mutex; frames cut and joined anywhere; wake-ups, stale descriptors and
raw channel pointers inside the loop; shutdown racing everything else. `PROJECT.json` lists these
hazards at their lines with the properties that watch them.

What makes each part correct:

* log: files, memory and index agree in every state; every stored offset can be read;
  what a flush covered is never lost; the whole implements an append-only sequence;
* broker: what was acknowledged is there after a restart; memory equals the files; a
  committed offset lies within its log;
* flusher: every append is flushed; Close does not hang or linger;
* retries: no copy visible early, none hidden for ever, attempts in order, dead letters
  only after the last attempt;
* groups: partitions are divided among the members, no two owners, generations fence;
* server: replies in order, the map is exact, every request is answered, Stop returns
  and releases everything;
* loop: no functor waits behind a blocked Poll, the poller agrees with the channels, no
  event reaches a destroyed channel, a joined loop leaves nothing behind;
* protocol: what is run is what was sent, an answer is the one to its request, frames
  are self-delimiting and have one encoding;
* clients: nothing is skipped, memberships agree with the coordinator, everything is
  delivered; what was reported as sent is stored, in order.

## Modules

`OffsetLog` is the abstract specification of a partition: a sequence of records with a
stable prefix; `Extend`, `Sync`, `Lose`. `Broker` and `RetryScheduler` use logs as
`OffsetLog` promises them, so they rest on the refinement below.

`CommitLog` (`storage/`) is the storage engine. A batch is a payload, a position and a
base offset; the bytes behind the last batch of a file are its *tail*, of which only
the facts recovery looks at are kept. Every method is one action, since it holds the
log's mutex; recovery is one action per loop iteration so that crashes fall between
them. Failures: short writes, failing reads, fsync, close, index writes; `Crash`,
`CrashInAppend`, power losses (the newest unsynced data goes first, or with
`"reordering"` any unsynced data), selected by `Faults`. Integers keep their bound where the code checks it
(`MaxOffset`). `Read` is an operator checked against the stored batches.

`GroupCoordinator` is the coordinator for one group with the clients' view of their
tokens. `JoinGroup` and the scanner read the clock in one step and take the mutex in
another, as the code does. `IdRank` is the string order of `member-<n>`.

`RetryScheduler` joins `HandleNack`, the scheduler and the clock for one partition.
`Broker` has the handlers that change durable state, one step per critical section,
with `topics.meta` and the offset files as values plus the older contents a power loss
may bring back. `AsyncFlusher` is the condition-variable protocol of the flusher:
predicate, blocking, notification, timeout and spurious wakeups are steps of their own.

`Server` has the accepting loop, one I/O loop per connection with its functor queue,
the bounded worker queue, the workers and the thread in `Stop`. Sharing an I/O loop
between connections only removes interleavings. Readiness is nondeterministic.

`EventLoop` is the inside of one such loop, which `Server` takes for granted. `Loop`,
`Poll` and `DoPendingFunctors` are split into the steps between which other threads can
act: the test of `quit_`, `epoll_wait`, each event, the swap, each functor, the
destruction of each. `QueueInLoop` is two steps, the push and the write to the eventfd. `io`
holds the channels, `connections_`, `registered_fds_` and the kernel's interest list;
`Release` destroys a connection when the last of its owners (map, Stop's vector,
functors, tasks) lets go, on whichever thread that is. What a handler reads is
nondeterministic.

`Codec` has every encoder and decoder of `protocol/codec.cpp` as an operator of its own
on sequences of bytes, in pairs that share nothing but the primitives, as in the code.
Field widths are those of the code; a byte has `Radix` values. The structs of
`protocol/types.h` are the sets `Request` and `Response`; `r ** field` reads one field with
a `BodyReader`. `Framing` runs it over
one connection: a client that may send before it has its answers, both byte streams,
`FrameDecoder`, `SubmitNext` with a worker pool that takes or refuses any request,
`QueueErrorAndClose`, `Shutdown` at any moment and the output `Buffer`. A behaviour
plays one *script* of `Scripts`: requests, the answers of the service, and frames of
some other codec.

`Consumer` composes the client with the coordinator: it instantiates
`GroupCoordinator` and uses its operators (`GroupFor`, `WithMember`, `Rebalance`,
`Without`, `Expired`) for the broker's side, without time. The application thread and
the heartbeat thread interleave at every round trip; a request fails before or after it
is executed. Members that no consumer knows about ("ghosts") arise when a join
succeeds and what follows fails. A change of topic stops the heartbeat thread, leaves
the group and joins it again, each of which may fail. `Nack` adds a copy to the retry
log, which `Release` makes visible when its delay is over; a fetch reads up to the
visible end. A consumer is called by one application thread.

`Producer` has threads sharing one connection, and a broker that may still execute a
request whose sender gave up. A batch goes to the partition it or its key names, or the
broker takes the partitions in turn, once per request, so that a repeated request may go
to another partition than the first.

`MC*` modules hold constants for TLC only. Definitions introduced as *faulty variant*
are what a plausible mistake would make of the definition below them; they are used to
see that each property can fail.

## Runs

| run | question | properties |
|---|---|---|
| `commit_log_crash` | strict recovery under crashes inside Append and recovery, short writes, read errors, failing fsync and close, power losses ordered and unordered | `Layout`, `ReadComplete`, `FlushedStored`, `ImplementsOffsetLog` (refinement of `OffsetLog`) |
| `group` | joins, rejoins, leaves, expiry, lost responses, restart | `PartitionsDivided`, `ExclusiveInIncarnation`, `GenerationFences`, `SilentMembersLeave` |
| `retry` | nacks, also repeated ones, against scheduler, clock, crashes and a power loss, under both flush policies | `NoVisibilityHole`, `NeverEarly`, `AttemptsInOrder`, `DeadLettersExhausted`, `AckedCopiesKept`, `VisibleAfterRestart`, `EventuallyVisible` |
| `broker` | handlers on two workers against crashes and a power loss, under both flush policies | `AckedStored`, `AcknowledgedServed`, `MemoryIsPersisted`, `CommittedWithinLog` |
| `flusher_liveness` | flusher and Close | `EveryAppendFlushed`, `CloseReturns` |
| `server_safety` | two clients that pipeline, two workers, reused descriptors, a full queue and Stop | `ConnectionsMapped`, `ResponsesInOrder`, `StopReleasesAll` |
| `server_liveness` | pipelined requests, two workers, a full queue and Stop | `RequestsAnswered`, `StopReturns` |
| `consumer_group` | two consumers exchanging a partition, ghost members, expiry | `NothingSkipped` (at-least-once), `AssignmentCurrent` |
| `consumer_delivery` | two records and a copy, failing requests, expiry or restart, a seek, a nack, a change of topic | `NothingSkipped`, `EveryRecordDelivered` |
| `producer_retry` | retries against late execution, in a named partition and in partitions taken in turn | `AckedStored`, `FirstCopiesInOrder` |
| `protocol_framing` | every message as bytes, cut and joined anywhere, next to frames that do not decode, with a worker queue that may be full | `RequestsIntact`, `AnswersMatch`, `CallsAnswered`, `FramesCanonical` |
| `event_loop` | a loop, its poller and its connections against workers, accepting thread and Stop | `PollerMatches`, `DispatchedAlive`, `NoLostWakeup`, `JoinedClean` |

What a Nack promises is subtle. `HandleNack` is not idempotent: rejecting one offset eight
times makes eight copies, as the test `ConcurrentNacksDoNotLeaveVisibilityHoles` expects, so
neither the copies of a message nor their total number are bounded by `max_retries`.
`AttemptsInOrder` says what does hold: a copy's attempt number counts failed deliveries
along the chain of copies that led to it, each of which had been due, and not Nacks.
`RequestsAnswered` follows a request that was read until a reply to it is with the client;
the only excuse is a connection that ended because the server stops, the client has gone,
or the client was told of a bad frame or a full queue. `AnswersMatch` and `CallsAnswered`
say what a full queue does to the calls of a connection: the one turned away is told so
and never run, those before it have their answers, those behind it fail when the server
closes the connection (a client that writes to the closed socket may find out before it
has read the answers).

The power loss of `broker` and `retry` happens at most once and their properties say
what it excuses: with synchronous flushing `AckedStored` and `AckedCopiesKept` hold
across it, `MemoryIsPersisted` and `NoVisibilityHole` in any case, while
`AcknowledgedServed`, `CommittedWithinLog` and `DeadLettersExhausted` speak
of behaviours without one (see the deviations). `TypeOK` of the modules other than
`CommitLog`, whose type correctness is proved, is not part of a run; it documents the
variables. `OffsetLog` says what an abstract log may do: extend, sync, lose what was not
synced from the end (`Lossy`) or, when `Holes` are allowed, anywhere.

### Deviations

Faithful models behave like the code also where it departs from what its comments or
documents say. The properties above are stated so that they hold; the following
statements do not. TLC has found a counterexample to each when it was checked as a
property of these modules, except for `client.cpp:364`, which the fairness of
`consumer_delivery` assumes away, and `commit_log.cpp:341`, which only the hypothesis of
`FlushedNeverLost` tells (the runs have strict recovery):

| where | what happens |
|---|---|
| `storage/commit_log.cpp:294` | after an unordered power loss recovery keeps a newer segment behind a shortened one: offsets below `next_offset_` that cannot be read |
| `storage/commit_log.cpp:341` | without strict recovery a read error on an intact batch truncates flushed batches |
| `storage/commit_log.cpp:337` | strict recovery refuses a log whose only damage is an unfinished append over the remains of an earlier one |
| `broker/group_coordinator.cpp:112` | a refused JoinGroup leaves an empty group that pins its topic |
| `broker/group_coordinator.cpp:134` | member ids and generations start over when a group is created again, so a token of the dead group is accepted by its successor and two clients own one partition, although the comment there calls the id unique |
| `broker/group_coordinator.cpp:146` | a rejoin that waited for the mutex overwrites a later heartbeat with an earlier time |
| `broker/group_coordinator.cpp:277` | LeaveGroup at the last generation leaves partitions without owner |
| `broker/topic_manager.cpp:346` | `topics.meta` and the offset files are renamed without fsync: after a power loss an acknowledged, flushed record may be in a log no topic leads to, or the broker may find an empty file and not start |
| `broker/broker_service.cpp:428` | commits are checked against unflushed records: a power loss leaves a committed offset beyond its log |
| `broker/topic_manager.cpp:248` | one partition whose fsync fails keeps the flusher from those behind it |
| `broker/broker_service.cpp:189` | Close's notification can be lost, and Close waits for a flush interval |
| `net/tcp_server.cpp:197` | a burst of accepts passes the connection limit |
| `net/tcp_connection.cpp:190` | the error reply to a bad frame overtakes the reply to an earlier request; a client that waits for that reply disconnects |
| `protocol/codec.cpp:1896` | a bad frame takes with it the requests decoded before it in the same `Push`: they are neither run nor answered |
| `protocol/codec.cpp:526` | `CommitOffset` with a negative offset is decoded, though the encoder refuses to send it (the broker then rejects it) |
| `net/event_loop.cpp:136` | once Stop has taken the connections from the map, the last reference to one may go on the main or a worker thread, so that a connection is destroyed there while its loop holds an event for it, or after the loop is gone |
| `net/tcp_server.cpp:113`, `:119` | Stop drops replies still in an output buffer, and may stop an I/O loop before its last connection is destroyed |
| `client/client.cpp:364` | when Subscribe fails after it cleared the assignments, later Polls succeed and return nothing until Subscribe is called again |
| `client/client.cpp:419` | a position beyond the end of one log makes every Poll fail, for the other logs too |

### Bounds

* Storage: two payloads (one and two records, of different size), segments that hold
  one or two batches, `IndexInterval` such that some batches are indexed and some are
  not, `MaxOffset = 6`: several rolls, files with and without index entries, the
  overflow check. The theorems need no bounds.
* Groups: two clients, two member ids per incarnation, of which the later sorts first,
  three partitions (not divisible by two), two incarnations. With two ids at most three
  generations come about, so that `MaxGeneration = 4` is out of TLC's reach; the theorems
  cover it.
* Retries: one message, two retries, three entries in the retry log and one dead letter:
  all attempts of a message next to copies that repeated Nacks made, due in any order
  after the clock was set back. A copy keeps the message it was made from; that copies of
  different messages do not disturb each other is left to the theorems.
* Broker: two workers, one topic with one or two partitions, two records.
* Flusher: three partitions. Server: two clients, two descriptors, queue of one, so
  that it fills, two workers, two requests each. For liveness, which needs the whole state
  graph, one descriptor and two requests of one client and one of the other: the clients
  come one after the other, and the request of a connection that has closed can still fill
  the queue for the next.
* Consumers: `MaxRecords`, `MaxFaults`, `MaxMembers` and `MaxIncarnation` bound
  records, failures, ids and re-creations; one partition handed between two consumers,
  and one consumer with both sources, two topics (the second without records), one
  change of topic (`MaxSwitches`) and one seek (`MaxSeeks`), with two records and one copy. A consumer can in principle go on for ever
  losing the race between its JoinGroup and its SyncGroup against expiries; the bound
  on member ids cuts that off, so `EveryRecordDelivered` is about finitely many
  such races.
* Framing: `Radix` 4, so that eight-byte fields reach their sign bit and every api key
  has its code; frames of at most 120 bytes, so that some messages do not fit. One
  script per kind of request and per kind of response, success and error, both
  versions, with the edges of each field; pipelines of two and three requests with bad
  frames (unknown key, unknown version, a longer body) at each place.
  Reads of one byte or of all there is, writes of 13 bytes (less than a header) or all.
* Event loop: two connections on two descriptors, one request each, up to two
  events and the wake-up per Poll in any order.
* Producer: two partitions; one thread with two keyed batches, one with a batch that
  leaves the partition to the broker; one retry (the default).

Symmetry is used for clients, consumers, connections, descriptors and workers in runs without liveness.
`CHECK_DEADLOCK FALSE` appears where the system really ends: a server that stopped, a
broker that is closed or cannot start, closed consumers, producers that are done.

### Fairness

Only what the scheduling justifies. The scanner, the retry scheduler, the flusher
(whose timeout is strong fairness: a wait cannot be prolonged by spurious wakeups,
`wait_for` keeps its deadline), I/O loops and workers run on; a handler that holds a
lock goes on; time passes; a broker that is down is started again; a `Stop` or `Close`
once begun goes on. `consumer_delivery` assumes an application that keeps calling
`Poll` and calls `Subscribe` for the same topic again when it failed, that the
coordinator expires members that stay silent, which `SilentMembersLeave` shows, and that
the delay of a retry copy ends, which `EventuallyVisible` shows. An application that calls
`Subscribe` over and over without committing is handed the same first records each time;
`EveryRecordDelivered` excepts it in its formula (`<>[][~SubscribesAgain]_vars`), and without
the exception the run, where there is a second record to miss, fails.
`RequestsAnswered` assumes that a client reads what is written to it: a reply that stays in a
full socket buffer is not modelled. Failures, expiries of live
members, restarts and client actions are never fair.

## Proofs

Each proof module `MProofs` extends its module `M` (`DeliveryProofs` extends both
`RetryScheduler` and `Producer`, whose specification is called `ProducerSpec`), defines an inductive invariant `Inv` (`IInv` in `FramingProofs`),
shows `Init => Inv` and that every action preserves it, one lemma per action, and derives
the theorems from it. The theorems hold for all values of the constants that satisfy the
named `ASSUME` of `M`, which say no more than that sizes, counts and bounds are natural
numbers and that sets of names are finite and do not overlap. Each `Inv` was checked with TLC before it was
proved. Only `FlushedNeverLost` and `LogImplementsOffsetLog` have a hypothesis of their own.

| module | theorems | of |
|---|---|---|
| `CommitLogProofs` | `TypeCorrect`, `LayoutCorrect`, `FlushedNeverLost`, `ReadsComplete`, `LogImplementsOffsetLog` | `TypeOK` and all properties of `commit_log_crash` |
| `GroupCoordinatorProofs` | `TypeCorrect`, `AlwaysDivided`, `OwnersExclusive`, `GenerationsFence` | `TypeOK`, `PartitionsDivided`, `ExclusiveInIncarnation`, `GenerationFences` |
| `DeliveryProofs` | `NoHole`, `NeverVisibleEarly`, `AttemptsOrdered`, `DeadLettersLast`, `AckedCopiesSurvive`, `RestartKeepsVisible` | all safety properties of `retry` |
| `BrokerProofs` | `AckedStoredCorrect`, `AcknowledgedServedCorrect`, `MemoryPersisted`, `CommitsWithinLog` | all properties of `broker` |
| `ServerProofs` | `ConnectionsAlwaysMapped`, `ResponsesOrdered`, `StopReleasesEverything` | all properties of `server_safety` |
| `ConsumerProofs` | `NeverSkips`, `AssignmentsCurrent` | `NothingSkipped`, `AssignmentCurrent` |
| `DeliveryProofs` | `AckedStoredCorrect`, `FirstCopiesOrdered` | all properties of `producer_retry` |
| `EventLoopProofs` | `PollerAgrees`, `NothingDeadDispatched`, `JoinLeavesNothing`, `WakeupsArrive` | all properties of `event_loop` |
| `FramingProofs` | `SpecRequestsIntact`, `SpecAnswersMatch`, `SpecCallsAnswered`, `SpecFramesCanonical`; `RequestFrame`, `ResponseFrame`, `RequestCanonical` | `RequestsIntact`, `AnswersMatch`, `CallsAnswered`, `FramesCanonical`; the codec round trip, in both directions for requests |

**Log.** `TypeOK /\ Layout` is inductive together: batches lie back to back with
consecutive offsets in each file, files are ordered, `segments` mirrors them, index entries
point at batches of their file and describe them, the recovery scan has covered a prefix,
`next_offset` is the end of the last file. Each action needs most of it, e.g. Append needs
the write position to be the end of the file to place a batch, recovery needs the order of
the files to go on. `FlushedStored` alone is not inductive, since a power loss may take any
unsynced batch: `Durable` adds that every flushed batch lies below the sync mark of its
file, and `SyncedKept` states per action that synced batches stay where they are.
`FlushedNeverLost` assumes that recovery is strict or that reads do not fail
(`ReadsTrusted`); that is needed, see the read error under Deviations. `ReadsComplete`
follows the code of Read on a state with `Layout`: the segment and the index entry it finds
are the last ones at or before the offset, and between the entry and the batch lies less
than an index interval, which the caller's limit covers. `LogImplementsOffsetLog` is the
refinement, under `ReadsTrusted` too: every step leaves the stored batches and the end of
the log alone, adds one batch at the end, flushes, or loses batches, and each kind maps to
a stutter, `Extend`, `Sync` or `Lose` of `OffsetLog`. Stored batches do not overlap, so the
record at an offset is that of the one batch that holds it. For the holes of a reordering
power loss the invariant gets `Late`: what no flush covered lies behind all that one did,
hence a hole lies behind the stable records.

**Groups.** The range assignor is proved to divide: the runs of members `i` and `i + 1`
touch, the first starts at 0, the last ends at the number of partitions, and the positions
of the members in the string order are exactly `0 .. n - 1`, whatever that order is.
Fencing needs the history of a token: one of the present incarnation is not ahead of the
group's generation, its id was handed out, and if its generation is the group's, what its
client owns is within the assignment (`Present` tokens). At the last generation, where the
code reassigns in place, the properties claim nothing.

**Retries.** `MemoryOk`: of the records scheduled so far each is visible, ready or in the
heap with its due time, and what is visible or ready was due at some time the clock has
shown. `Justified`: an attempt beyond the first has, earlier in the log, a predecessor that was
visible, hence due, when it was rejected; copies that repeated Nacks made share one.
`Durable` relates acknowledged, synced and stored counts.

**Broker.** `Files`: memory is what the files hold, except for the one worker that is
between changing the table and writing `topics.meta`. `Stored`: a produce on its way to its
answer has its record in a log that `topics.meta` leads to. `Committed`: an offset that was
checked stays within its log, which only a power loss shortens.

**Server.** `Mapped` and `Queued` say who owns a connection: descriptors of live
connections differ, the map names exactly the open ones, later Stop's functor or vector
keeps them, a register functor is alone in its queue. `Order` numbers a connection's
requests without a gap over replies, the request at a worker, those waiting and those not
yet read. `Flying`: at most one request of a connection is among tasks, workers and
response functors, and it is the next one to be answered; this is what keeps replies in
order, through `processing_`, and what each step of the pool and the loop preserves.

**Consumer.** `NothingSkipped` becomes inductive by saying the same of every copy of the
positions: those of the consumer, those Poll advances while it fetches (there, what lies
below is delivered or among the records about to be returned), those a CommitSync in
progress sends, those JoinAndSync restores. `AssignmentCurrent` needs that tokens are not
ahead of their group (`Fresh`), that what JoinAndSync has restored and has still to
restore is together the assignment (`Granted`), and `Counted`, by which the generation
stays below its limit for the ids handed out. The coordinator's side reuses the operators
of `GroupCoordinator`.

**Producer.** Responses on their way are true (`InFlight`), and only batches that were begun
are in a log, so a later batch cannot have its first copy before an earlier one's.

**Loop.** Outside the dispatching of events, queued functors have a wake-up written or a
thread that has yet to write it; so has a quit flag the loop has not seen (`WakeInv`). The
other three theorems share `Inv`. Its first half, `IoOk`, is about connections and poller
only: open descriptors differ, each epoll entry belongs to an open connection and is what
its channel waits for, `registered_fds_` names the descriptors that have one, and a closed
connection's channel is out of the poller. Each operation of `Channel` and `TcpConnection`
is shown to keep it and to be `Handled`: to touch its own connection only, and to do no
more to that than close it. The second half says who holds what: a connection lives exactly
as long as something owns it (`Ownership`), an accepted one has exactly one register
functor that has yet to run (`Accepting`), events not yet handled are of different channels
and, until Stop clears the map, of connections in the map (`Dispatching`), and what each
stage of Stop and each place of the loop imply (`Stages`). `DispatchedAlive` needs that an
event's connection can only leave the map by its own handler, which that one event of the
channel has yet to start.

**Codec.** `RequestFrame` and `ResponseFrame`: whatever an encoder accepts, its decoder
gives back, for every message and every `Radix`. They are built from below. A field: the
digits of a number are written and read with the same weights (`ReadsWritten`), and each
kind of field takes exactly the bytes its encoder appended and leaves the rest
(`Takes(bytes, field, name, value)`). A body: the reads of a decoder are chained over the
concatenated fields; that no length overflows its four bytes follows from the frame limit
(`Short`). A list: after `i` items the reader has the first `i` values and the bytes of the
others (`Listed`). A frame: the header's fields are at their places and its length is the
length of the whole. A response keeps of a record's retry metadata what its version carries
(`OnTheWire`).

`RequestCanonical` is the way back: bytes that `DecodeRequest` accepts are those that
`EncodeRequest` writes for the request, unless it refuses that request. Here the steps are
undone. The digits read are the digits written (`WritesRead`); a field that has been read
has taken the bytes its encoder gives the value (`Undoable(field)`), for negative numbers
by two's complement; a chain of fields has taken the concatenation, and nothing is left
when the body is accepted; a list that is read in full has taken its items one by one
(`RecordsRead`), so that its count is no larger than the bytes allow. `FramesCanonical`
adds that a prefix or an extension of a frame begins with the same length field and has
another length (`SameLength`).

**Framing.** `Cut(s, f, m, n, rest)` says that the bytes `s` are the frames `m + 1 .. n` of
the sequence `f` and then `rest`. `Push` on a prefix of such a stream takes whole frames off
it, in order, whatever the prefix is (`PushCuts`), because each frame announces its own
length. The inductive invariant `IInv` keeps this for both directions: the decoder's
buffer with the bytes under way is cut into the frames sent and not yet taken
(`Decoding`); the queue and the worker hold the requests of the frames taken and not yet
executed (`Held`), and a request that the pool turned away is the one after those executed
and the last that was taken (`TurnedAway`); `to_client` with the unread part of the output `Buffer` is cut into the
replies not yet read, that of the request turned away included, perhaps followed by the
error reply to a bad frame (`Replying`), for which the
buffer's `reader_index_` and compaction matter; `wire` names the calls that wait, in
order (`Ordered`, `Calling`). `AnswersMatch` then follows from `RequestFrame` and
`ResponseFrame`, and from ids that are never 0, which an error reply has. For
`CallsAnswered`, `Untroubled` says that without Shutdown, bad frames and full queues nothing
is closing, `Idle` that decoded requests do not wait for an idle worker, and `Flushing` that
a connection which is to close has yet to write and, on account of a full queue, closes only
when all is written.

Facts about sequences and counters that would call for induction (a run contains a
partition, the number of good replies in a prefix, the batch an index entry leads to) are
proved from the least counterexample, by the well-foundedness of the natural numbers.

Only model-checked: every liveness property (`SilentMembersLeave`,
`EventuallyVisible`, `EveryAppendFlushed`, `CloseReturns`, `RequestsAnswered`,
`StopReturns`, `EveryRecordDelivered`), which rest on fairness.

## Not modelled

The record and checksum encoding (pure functions on bytes; `CommitLog` uses their
contract), the kqueue poller (another platform; it reports reading and writing as two
events, so that the argument of `DispatchedAlive`, one event per channel and batch, does not
apply to it: the tie that guards a handler is a member of the `Channel` that may be gone), `Buffer::ReadFromFd` (no
caller), configuration and status types, `main` and the command-line tool (no state of
their own), `AdminClient`
(single round trips). Within modelled parts: calls of one `Consumer` from several
threads (nothing promises that they may be made), the hash of a key (a key stands for
its partition), the creation of the internal `%RETRY%` and `%DLQ%` topics by the first Nack
(`broker_service.cpp:253`; its write of `topics.meta` is that of `CreateTopic` in `Broker`, and a
power loss may take it as described for `topic_manager.cpp:346`, so `AckedCopiesKept` speaks of
the logs and not of the topics that lead to them), an allocation that fails (the decoders of lists
`reserve` a 32-bit count before they read, `codec.cpp:419`, `:1213`, `:1317`; where that throws,
`ReadList` returns the decode error that follows), name validation, `Metadata` (it changes nothing).

## Plan

Order of work: the storage engine first (everything durable rests on it), then the
coordinator, retries, the broker's durable state, the flusher, the server, and the
clients. That much is done, and every safety property that a run
checks is proved. What would come next is a composition of both clients with `Server`'s closing connections.
