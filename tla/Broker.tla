--------------------------------- MODULE Broker ---------------------------------
(***************************************************************************)
(* The broker's durable state as BrokerService's handlers change it: the   *)
(* topic table of TopicManager with its file topics.meta, the committed    *)
(* offsets of OffsetStore with one file per key, and the partition logs.   *)
(*                                                                         *)
(* A log is what OffsetLog promises: records, a synced prefix.  topics.meta *)
(* and the offset files are replaced by writing a temporary file and       *)
(* renaming it, without fsync: a crash of the process leaves the old or    *)
(* the new file, a power loss may bring back any version not known to be   *)
(* on disk.  Worker threads run the handlers; a handler is one step per    *)
(* critical section.  A produce carries one record.  One consumer group.   *)
(***************************************************************************)
EXTENDS Integers, Sequences

CONSTANTS
    Topics,
    Counts,      \* partition counts that CreateTopic requests may ask for
    Workers,     \* worker threads
    MaxPowerLoss, \* bound on losses of power
    Torn,        \* content of a file whose data never reached the disk
    MaxRecords   \* bound on the records produced altogether

ASSUME BrokerAssumption ==
    /\ Counts \subseteq Nat \ {0}
    /\ {MaxRecords, MaxPowerLoss} \subseteq Nat

VARIABLES
    meta,         \* topics.meta
    offset_file,  \* partition -> the group's offset file
    logs,         \* partition -> its CommitLog
    topics,       \* TopicManager::topics_: topic -> partition count, 0 if unknown
    offsets,      \* OffsetStore::offsets_: partition -> offset, or None
    up,           \* the broker has started
    sync,         \* flush_policy is kSync; set by the configuration
    requests,     \* worker -> the request it handles
    produced,     \* ghost: number of records produced, which also names the next
    acked,        \* ghost: the records whose Produce was answered with success
    created,      \* ghost: the topics whose CreateTopic was answered with success
    outages       \* ghost: how often the machine lost power

disk == <<meta, offset_file, logs>>
ghosts == <<produced, acked, created, outages>>
vars == <<disk, topics, offsets, up, sync, requests, ghosts>>

None == -1
Idle == [pc |-> "idle"]
NoTopics == [t \in Topics |-> 0]

\* Partition ids run from 0; a partition that no topic has yet is an empty log.
Partitions == UNION {{t} \X (0 .. n - 1) : t \in Topics, n \in Counts}

\* GetPartition, SelectPartition: the partition belongs to a known topic.
Known(tp) == tp[2] < topics[tp[1]]

--------------------------------------------------------------------------------
(* Files replaced by rename *)

\* `maybe`: the contents that a power loss may bring back instead of `now`.
NewFile(v) == [now |-> v, maybe |-> {}]

\* Write the temporary file, rename it over the old one.
Replace(f, v) ==
    [now |-> v,
     maybe |-> IF outages < MaxPowerLoss THEN f.maybe \cup {f.now, Torn} ELSE {}]

--------------------------------------------------------------------------------
(* Start *)

\* TopicManager::Load and OffsetStore::Load: an empty file is Corruption and Start
\* fails; files of partitions without a topic are loaded all the same.
CanStart == meta.now # Torn /\ \A tp \in Partitions : offset_file[tp].now # Torn

\* OffsetStore::Load
OffsetsLoaded == [tp \in Partitions |-> offset_file[tp].now]

Start ==
    /\ ~up
    /\ CanStart
    /\ up' = TRUE
    /\ topics' = meta.now
    /\ offsets' = OffsetsLoaded
    /\ UNCHANGED <<disk, sync, requests, ghosts>>

--------------------------------------------------------------------------------
(* CreateTopic *)

\* TopicManager::mutex_ is held exclusively from the lookup to the end of
\* PersistMetadataLocked; every other handler needs it for its partition lookup.
TopicsUnlocked == \A w \in Workers : requests[w].pc # "persist"

Serve(w, r) == requests' = [requests EXCEPT ![w] = r]

\* A worker is free to take a request that looks up a partition.
MayServe(w) == up /\ requests[w] = Idle /\ TopicsUnlocked

\* A new topic: its logs are opened (created or recovered) and it enters the map.
CreateTopic(w, t, n) ==
    /\ MayServe(w)
    /\ topics[t] = 0
    /\ topics' = [topics EXCEPT ![t] = n]
    /\ Serve(w, [pc |-> "persist", topic |-> t])
    /\ UNCHANGED <<disk, offsets, up, sync, ghosts>>

\* A topic that exists with the same partition count: success.
CreateTopicAgain(w, t) ==
    /\ MayServe(w)
    /\ topics[t] # 0
    /\ created' = created \cup {<<t, topics[t]>>}
    /\ UNCHANGED <<disk, topics, offsets, up, sync, requests, produced, acked, outages>>

\* Faulty variant: topics.meta is written before the topic is in the map.
PersistMetadataEarly(w) ==
    LET t == requests[w].topic
    IN  /\ requests[w].pc = "persist"
        /\ meta' = Replace(meta, [topics EXCEPT ![t] = 0])
        /\ created' = created \cup {<<t, topics[t]>>}
        /\ Serve(w, Idle)
        /\ UNCHANGED <<offset_file, logs, topics, offsets, up, sync, produced, acked, outages>>

PersistMetadataLocked(w) ==
    LET t == requests[w].topic
    IN  /\ requests[w].pc = "persist"
        /\ meta' = Replace(meta, topics)
        /\ created' = created \cup {<<t, topics[t]>>}
        /\ Serve(w, Idle)
        /\ UNCHANGED <<offset_file, logs, topics, offsets, up, sync, produced, acked, outages>>

\* The file cannot be written: the topic leaves the map and the request fails.
PersistMetadataFails(w) ==
    /\ requests[w].pc = "persist"
    /\ topics' = [topics EXCEPT ![requests[w].topic] = 0]
    /\ Serve(w, Idle)
    /\ UNCHANGED <<disk, offsets, up, sync, ghosts>>

--------------------------------------------------------------------------------
(* Produce *)

\* SelectPartition (by request, key hash or turn: any partition of the topic) and
\* CommitLog::Append.
Produce(w, tp) ==
    /\ MayServe(w)
    /\ Known(tp)
    /\ produced < MaxRecords
    /\ produced' = produced + 1
    /\ logs' = [logs EXCEPT ![tp].records = Append(@, produced)]
    /\ Serve(w, [pc |-> IF sync THEN "flush" ELSE "reply",
                 ack |-> [partition |-> tp, offset |-> Len(logs[tp].records),
                          record |-> produced]])
    /\ UNCHANGED <<meta, offset_file, topics, offsets, up, sync, acked, created, outages>>

Synced(log) == [log EXCEPT !.synced = Len(log.records)]

\* Faulty variant: the broker answers without waiting for the disk.
ProduceFlushSkipped(w) ==
    /\ requests[w].pc = "flush"
    /\ Serve(w, [requests[w] EXCEPT !.pc = "reply"])
    /\ UNCHANGED <<disk, topics, offsets, up, sync, ghosts>>

\* Synchronous policy: CommitLog::Flush of the partition before the answer.
ProduceFlush(w) ==
    /\ requests[w].pc = "flush"
    /\ logs' = [logs EXCEPT ![requests[w].ack.partition] = Synced(@)]
    /\ Serve(w, [requests[w] EXCEPT !.pc = "reply"])
    /\ UNCHANGED <<meta, offset_file, topics, offsets, up, sync, ghosts>>

\* The flush fails: the client gets an error, the record stays in the log.
ProduceFlushFails(w) ==
    /\ requests[w].pc = "flush"
    /\ Serve(w, Idle)
    /\ UNCHANGED <<disk, topics, offsets, up, sync, ghosts>>

ProduceReply(w) ==
    /\ requests[w].pc = "reply"
    /\ acked' = acked \cup {requests[w].ack}
    /\ Serve(w, Idle)
    /\ UNCHANGED <<disk, topics, offsets, up, sync, produced, created, outages>>

--------------------------------------------------------------------------------
(* Fetch, CommitOffset *)

\* The record that HandleFetch returns for an offset, if any.
Fetch(tp, o) ==
    IF Known(tp) /\ o < Len(logs[tp].records) THEN {logs[tp].records[o + 1]} ELSE {}

\* What HandleFetchCommittedOffset answers; None for an error as well.
FetchCommittedOffset(tp) == IF Known(tp) THEN offsets[tp] ELSE None

\* Faulty variant: an offset beyond the log end passes.
CommitCheckMissing(w, tp, o) ==
    /\ MayServe(w)
    /\ Known(tp)
    /\ Serve(w, [pc |-> "commit", partition |-> tp, offset |-> o])
    /\ UNCHANGED <<disk, topics, offsets, up, sync, ghosts>>

\* HandleCommitOffset compares the offset with the log end ...
CommitCheck(w, tp, o) ==
    /\ MayServe(w)
    /\ Known(tp)
    /\ o <= Len(logs[tp].records)
    /\ Serve(w, [pc |-> "commit", partition |-> tp, offset |-> o])
    /\ UNCHANGED <<disk, topics, offsets, up, sync, ghosts>>

\* ... and calls OffsetStore::Commit, which replaces the file and then the entry.
Commit(w) ==
    LET tp == requests[w].partition
        o == requests[w].offset
    IN  /\ requests[w].pc = "commit"
        /\ offset_file' = [offset_file EXCEPT ![tp] = Replace(@, o)]
        /\ offsets' = [offsets EXCEPT ![tp] = o]
        /\ Serve(w, Idle)
        /\ UNCHANGED <<meta, logs, topics, up, sync, ghosts>>

\* Faulty variant: the entry is updated first.
CommitFailsLate(w) ==
    /\ requests[w].pc = "commit"
    /\ offsets' = [offsets EXCEPT ![requests[w].partition] = requests[w].offset]
    /\ Serve(w, Idle)
    /\ UNCHANGED <<disk, topics, up, sync, ghosts>>

\* PersistLocked fails: neither the file nor the entry changes.
CommitFails(w) ==
    /\ requests[w].pc = "commit"
    /\ Serve(w, Idle)
    /\ UNCHANGED <<disk, topics, offsets, up, sync, ghosts>>

--------------------------------------------------------------------------------
(* The flusher, the process and the machine *)

\* TopicManager::Flush on behalf of the asynchronous flusher, one partition at a
\* time; it holds the topic lock shared.
FlushPartition(tp) ==
    /\ up
    /\ ~sync
    /\ TopicsUnlocked
    /\ Known(tp)
    /\ logs' = [logs EXCEPT ![tp] = Synced(@)]
    /\ UNCHANGED <<meta, offset_file, topics, offsets, up, sync, requests, ghosts>>

Down ==
    /\ up' = FALSE
    /\ topics' = NoTopics
    /\ offsets' = [tp \in Partitions |-> None]
    /\ requests' = [w \in Workers |-> Idle]
    /\ UNCHANGED <<sync, produced, acked, created>>

\* BrokerService::Close, after the server has stopped, flushes nothing: for the
\* disk it is a process that ends, like a crash.
Stop == up /\ Down /\ UNCHANGED <<disk, outages>>

\* Unsynced records at the end of each log may be gone, and each renamed file may
\* be an older version.
PowerLoss ==
    /\ outages < MaxPowerLoss
    /\ outages' = outages + 1
    /\ \E v \in {meta.now} \cup meta.maybe : meta' = NewFile(v)
    /\ offset_file' \in
         {g \in [Partitions -> {NewFile(v) : v \in None .. MaxRecords} \cup {NewFile(Torn)}] :
             \A tp \in Partitions :
                 g[tp].now \in {offset_file[tp].now} \cup offset_file[tp].maybe}
    /\ \E kept \in [Partitions -> 0 .. MaxRecords] :
          /\ \A tp \in Partitions : kept[tp] \in logs[tp].synced .. Len(logs[tp].records)
          /\ logs' = [tp \in Partitions |->
                        [records |-> SubSeq(logs[tp].records, 1, kept[tp]),
                         synced |-> kept[tp]]]
    /\ Down

Init ==
    /\ meta = NewFile(NoTopics)
    /\ offset_file = [tp \in Partitions |-> NewFile(None)]
    /\ logs = [tp \in Partitions |-> [records |-> <<>>, synced |-> 0]]
    /\ topics = NoTopics
    /\ offsets = [tp \in Partitions |-> None]
    /\ up = FALSE
    /\ sync \in BOOLEAN
    /\ requests = [w \in Workers |-> Idle]
    /\ produced = 0 /\ acked = {} /\ created = {} /\ outages = 0

Next ==
    \/ Start
    \/ \E w \in Workers :
         \/ \E t \in Topics, n \in Counts : CreateTopic(w, t, n)
         \/ \E t \in Topics : CreateTopicAgain(w, t)
         \/ PersistMetadataLocked(w)
         \/ PersistMetadataFails(w)
         \/ \E tp \in Partitions : Produce(w, tp)
         \/ ProduceFlush(w)
         \/ ProduceFlushFails(w)
         \/ ProduceReply(w)
         \/ \E tp \in Partitions, o \in 0 .. MaxRecords : CommitCheck(w, tp, o)
         \/ Commit(w)
         \/ CommitFails(w)
    \/ \E tp \in Partitions : FlushPartition(tp)
    \/ Stop
    \/ PowerLoss

Spec == Init /\ [][Next]_vars

--------------------------------------------------------------------------------
(* Properties *)

OffsetOrNone == Nat \cup {None}

\* The types of the variables.
TypeOK ==
    /\ meta.now \in [Topics -> Counts \cup {0}] \cup {Torn}
    /\ \A tp \in Partitions : offset_file[tp].now \in OffsetOrNone \cup {Torn}
    /\ logs \in [Partitions -> [records : Seq(0 .. MaxRecords), synced : 0 .. MaxRecords]]
    /\ topics \in [Topics -> Counts \cup {0}]
    /\ offsets \in [Partitions -> OffsetOrNone]
    /\ {up, sync} \subseteq BOOLEAN
    /\ \A w \in Workers :
          requests[w].pc \in {"idle", "persist", "flush", "reply", "commit"}

\* An acknowledged record is in its log at the offset that was returned, unless
\* it was acknowledged without a flush and the power failed.
AckedStored ==
    sync \/ outages = 0 =>
        \A a \in acked :
            /\ a.offset < Len(logs[a.partition].records)
            /\ logs[a.partition].records[a.offset + 1] = a.record

\* As long as the machine keeps its power, a running broker has every topic whose
\* creation it has acknowledged, with the partition count that was asked for, and
\* serves every record it has acknowledged at the offset it returned: the log has the
\* record and the topic table leads to the log.
AcknowledgedServed ==
    up /\ outages = 0 =>
        /\ \A c \in created : topics[c[1]] = c[2]
        /\ \A a \in acked : Fetch(a.partition, a.offset) = {a.record}

\* What the broker believes is what a restart would load: the topic table and the
\* committed offsets in memory are those of the files, also after failed writes.
MemoryIsPersisted ==
    up => /\ TopicsUnlocked => meta.now = topics
          /\ \A tp \in Partitions : offset_file[tp].now = offsets[tp]

\* A committed offset never lies beyond the end of its log, as long as the machine
\* keeps its power.
CommittedWithinLog ==
    up /\ outages = 0 => \A tp \in Partitions : FetchCommittedOffset(tp) <= Len(logs[tp].records)
================================================================================
