------------------------------ MODULE BrokerProofs ------------------------------
(***************************************************************************)
(* Proofs about the broker's durable state: for every set of topics,       *)
(* partition counts and workers, and any number of power losses, what the  *)
(* broker acknowledged is stored and served, what it holds in memory is    *)
(* what its files hold, and no committed offset lies beyond its log.       *)
(*                                                                         *)
(* Torn is any value: a table or an offset that is read back is one that   *)
(* CanStart let through.                                                   *)
(***************************************************************************)
EXTENDS Broker, TLAPS

----------------------------------------
(* The inductive invariant *)

Tables == [Topics -> Counts \cup {0}]

Acks == [partition : Partitions, offset : Nat, record : Nat]

\* The requests that a worker can be handling.
Requests ==
    {Idle} \cup [pc : {"persist"}, topic : Topics]
           \cup [pc : {"flush", "reply"}, ack : Acks]
           \cup [pc : {"commit"}, partition : Partitions, offset : Nat]

Types ==
    /\ meta \in [now : Tables \cup {Torn}, maybe : SUBSET (Tables \cup {Torn})]
    /\ offset_file \in [Partitions -> [now : OffsetOrNone \cup {Torn},
                                       maybe : SUBSET (OffsetOrNone \cup {Torn})]]
    /\ logs \in [Partitions -> [records : Seq(Nat), synced : Nat]]
    /\ \A tp \in Partitions : logs[tp].synced <= Len(logs[tp].records)
    /\ topics \in Tables
    /\ offsets \in [Partitions -> OffsetOrNone]
    /\ up \in BOOLEAN /\ sync \in BOOLEAN
    /\ requests \in [Workers -> Requests]
    /\ produced \in Nat /\ outages \in Nat
    /\ acked \subseteq Acks
    /\ created \subseteq Topics \X Counts

\* The files behind the memory.  While a worker writes topics.meta, and it is the only
\* one, the file still lacks that worker's topic and nothing else.
Files ==
    /\ ~up => \A w \in Workers : requests[w] = Idle
    /\ up /\ TopicsUnlocked => meta.now = topics
    /\ up => \A tp \in Partitions : offset_file[tp].now = offsets[tp]
    /\ \A w \in Workers : requests[w].pc = "persist" =>
          /\ topics[requests[w].topic] # 0
          /\ meta.now = [topics EXCEPT ![requests[w].topic] = 0]
    /\ \A w, v \in Workers :
          requests[w].pc = "persist" /\ requests[v].pc = "persist" => w = v

InLog(log, a) ==
    /\ a.offset < Len(log.records)
    /\ log.records[a.offset + 1] = a.record

\* The partition belongs to a topic of the table.
Listed(tp, table) == tp[2] < table[tp[1]]

Flushed(log, a) == a.offset < log.synced

\* The record is where a fetch finds it and, if `flushed`, on the disk.
Safe(a, ls, flushed, table) ==
    /\ InLog(ls[a.partition], a)
    /\ flushed => Flushed(ls[a.partition], a)
    /\ Listed(a.partition, table)

\* A produce that was not answered yet has its record in a log that topics.meta leads
\* to, synced when the answer is next and flushes are synchronous; so has every
\* acknowledged record, for as long as the promise goes.
Stored ==
    /\ \A w \in Workers : requests[w].pc \in {"flush", "reply"} =>
          Safe(requests[w].ack, logs, sync /\ requests[w].pc = "reply", meta.now)
    /\ \A a \in acked : outages = 0 => Safe(a, logs, sync, meta.now)
    /\ \A a \in acked : sync =>
          InLog(logs[a.partition], a) /\ Flushed(logs[a.partition], a)
    /\ \A c \in created : outages = 0 => meta.now[c[1]] = c[2]

\* Checked offsets stay within their logs, which only a power loss shortens.
Committed ==
    /\ \A w \in Workers : requests[w].pc = "commit" =>
          requests[w].offset <= Len(logs[requests[w].partition].records)
    /\ \A tp \in Partitions : outages = 0 =>
          /\ offset_file[tp].now \in OffsetOrNone
          /\ offset_file[tp].now <= Len(logs[tp].records)

Inv == Types /\ Files /\ Stored /\ Committed

----------------------------------------
(* Types *)

LEMMA PartitionTypes ==
  ASSUME NEW tp \in Partitions
  PROVE  tp[1] \in Topics /\ tp[2] \in Nat
<1>1. PICK t \in Topics, n \in Counts : tp \in {t} \X (0 .. n - 1)
  BY DEF Partitions
<1>2. n \in Nat
  BY BrokerAssumption
<1> QED BY <1>1, <1>2

\* The program counter says what a request carries.
LEMMA RequestTypes ==
  ASSUME NEW r \in Requests
  PROVE  /\ r.pc \in {"idle", "persist", "flush", "reply", "commit"}
         /\ r.pc = "idle" => r = Idle
         /\ r.pc = "persist" => r.topic \in Topics
         /\ r.pc \in {"flush", "reply"} =>
               r \in [pc : {"flush", "reply"}, ack : Acks] /\ r.ack \in Acks
         /\ r.pc = "commit" => r.partition \in Partitions /\ r.offset \in Nat
  BY DEF Requests, Idle

LEMMA LogTypes ==
  ASSUME Types, NEW tp \in Partitions
  PROVE  /\ logs[tp].records \in Seq(Nat)
         /\ Len(logs[tp].records) \in Nat
         /\ logs[tp].synced \in Nat
         /\ logs[tp].synced <= Len(logs[tp].records)
         /\ logs[tp] = [records |-> logs[tp].records, synced |-> logs[tp].synced]
  BY DEF Types

LEMMA ReplaceTypes ==
  ASSUME NEW S, NEW f \in [now : S \cup {Torn}, maybe : SUBSET (S \cup {Torn})], NEW v \in S
  PROVE  Replace(f, v) \in [now : S \cup {Torn}, maybe : SUBSET (S \cup {Torn})]
  BY DEF Replace

\* A worker's new request.
LEMMA ServeTypes ==
  ASSUME requests \in [Workers -> Requests], NEW w \in Workers, NEW r \in Requests, Serve(w, r)
  PROVE  /\ requests' \in [Workers -> Requests]
         /\ requests'[w] = r
         /\ \A v \in Workers \ {w} : requests'[v] = requests[v]
  BY DEF Serve

LEMMA IdleTypes == Idle \in Requests /\ Idle.pc = "idle"
  BY DEF Requests, Idle

LEMMA RecordsReplaced ==
  ASSUME NEW l \in [records : Seq(Nat), synced : Nat], NEW s
  PROVE  [l EXCEPT !.records = s] = [records |-> s, synced |-> l.synced]
  OBVIOUS

\* A log whose records or whose synced prefix grew.
LEMMA AppendTypes ==
  ASSUME Types, NEW tp \in Partitions,
         logs' = [logs EXCEPT ![tp].records = Append(@, produced)]
  PROVE  /\ logs' \in [Partitions -> [records : Seq(Nat), synced : Nat]]
         /\ \A p \in Partitions : logs'[p].synced = logs[p].synced
         /\ \A p \in Partitions : p # tp => logs'[p] = logs[p]
         /\ logs'[tp].records = Append(logs[tp].records, produced)
<1>1. produced \in Nat /\ logs \in [Partitions -> [records : Seq(Nat), synced : Nat]]
  BY DEF Types
<1>2. Append(logs[tp].records, produced) \in Seq(Nat)
  BY <1>1, LogTypes
<1>3. logs' = [logs EXCEPT ![tp] = [logs[tp] EXCEPT !.records = Append(logs[tp].records, produced)]]
  OBVIOUS
<1>4. [logs[tp] EXCEPT !.records = Append(logs[tp].records, produced)]
        = [records |-> Append(logs[tp].records, produced), synced |-> logs[tp].synced]
  BY <1>1, RecordsReplaced
<1> QED BY <1>1, <1>2, <1>3, <1>4, LogTypes

LEMMA SyncedTypes ==
  ASSUME Types, NEW tp \in Partitions, logs' = [logs EXCEPT ![tp] = Synced(@)]
  PROVE  /\ logs' \in [Partitions -> [records : Seq(Nat), synced : Nat]]
         /\ \A p \in Partitions : logs'[p].records = logs[p].records
         /\ \A p \in Partitions : p # tp => logs'[p] = logs[p]
         /\ logs'[tp].synced = Len(logs[tp].records)
<1>1. logs \in [Partitions -> [records : Seq(Nat), synced : Nat]]
  BY DEF Types
<1>2. Synced(logs[tp]) = [records |-> logs[tp].records, synced |-> Len(logs[tp].records)]
  BY <1>1 DEF Synced
<1>3. logs' = [logs EXCEPT ![tp] = Synced(logs[tp])]
  OBVIOUS
<1> QED BY <1>1, <1>2, <1>3, LogTypes

\* The logs after a power loss.
LEMMA KeptLogs ==
  ASSUME Types, NEW kept \in [Partitions -> 0 .. MaxRecords],
         \A tp \in Partitions : kept[tp] \in logs[tp].synced .. Len(logs[tp].records),
         logs' = [tp \in Partitions |->
                    [records |-> SubSeq(logs[tp].records, 1, kept[tp]), synced |-> kept[tp]]]
  PROVE  /\ logs' \in [Partitions -> [records : Seq(Nat), synced : Nat]]
         /\ \A tp \in Partitions :
               /\ Len(logs'[tp].records) = logs'[tp].synced
               /\ logs[tp].synced <= logs'[tp].synced
               /\ \A i \in 1 .. logs'[tp].synced : logs'[tp].records[i] = logs[tp].records[i]
<1>1. ASSUME NEW tp \in Partitions
      PROVE  /\ kept[tp] \in Nat /\ kept[tp] <= Len(logs[tp].records)
             /\ logs[tp].synced <= kept[tp]
             /\ logs[tp].records \in Seq(Nat)
             /\ logs'[tp] = [records |-> SubSeq(logs[tp].records, 1, kept[tp]),
                             synced |-> kept[tp]]
  <2>a. MaxRecords \in Nat
    BY BrokerAssumption
  <2>b. logs[tp].synced \in Nat /\ Len(logs[tp].records) \in Nat
    BY LogTypes
  <2>c. kept[tp] \in logs[tp].synced .. Len(logs[tp].records)
    OBVIOUS
  <2>d. kept[tp] \in Nat /\ kept[tp] <= Len(logs[tp].records) /\ logs[tp].synced <= kept[tp]
    BY <2>b, <2>c
  <2> QED BY <2>d, LogTypes
<1>2. ASSUME NEW tp \in Partitions
      PROVE  /\ SubSeq(logs[tp].records, 1, kept[tp]) \in Seq(Nat)
             /\ Len(SubSeq(logs[tp].records, 1, kept[tp])) = kept[tp]
             /\ \A i \in 1 .. kept[tp] :
                   SubSeq(logs[tp].records, 1, kept[tp])[i] = logs[tp].records[i]
  BY <1>1, LogTypes
<1> QED BY <1>1, <1>2

LEMMA TypesInit == Init => Types
<1> SUFFICES ASSUME Init PROVE Types
  OBVIOUS
<1>1. NoTopics \in Tables
  BY DEF NoTopics, Tables
<1>2. NewFile(NoTopics) \in [now : Tables \cup {Torn}, maybe : SUBSET (Tables \cup {Torn})]
  BY <1>1 DEF NewFile
<1>3. NewFile(None) \in [now : OffsetOrNone \cup {Torn}, maybe : SUBSET (OffsetOrNone \cup {Torn})]
  BY DEF NewFile, OffsetOrNone
<1>4. <<>> \in Seq(Nat) /\ Len(<<>>) = 0
  OBVIOUS
<1>5. None \in OffsetOrNone
  BY DEF OffsetOrNone
<1>6. /\ logs \in [Partitions -> [records : Seq(Nat), synced : Nat]]
      /\ \A tp \in Partitions : logs[tp].synced <= Len(logs[tp].records)
  BY <1>4 DEF Init
<1>7. /\ meta \in [now : Tables \cup {Torn}, maybe : SUBSET (Tables \cup {Torn})]
      /\ offset_file \in [Partitions -> [now : OffsetOrNone \cup {Torn},
                                         maybe : SUBSET (OffsetOrNone \cup {Torn})]]
  BY <1>2, <1>3 DEF Init
<1>8. requests \in [Workers -> Requests] /\ offsets \in [Partitions -> OffsetOrNone]
  BY <1>5, IdleTypes DEF Init
<1> QED BY <1>1, <1>6, <1>7, <1>8 DEF Init, Types

LEMMA DownTypes ==
  ASSUME Types, Down, outages' \in Nat,
         meta' \in [now : Tables \cup {Torn}, maybe : SUBSET (Tables \cup {Torn})],
         offset_file' \in [Partitions -> [now : OffsetOrNone \cup {Torn},
                                          maybe : SUBSET (OffsetOrNone \cup {Torn})]],
         logs' \in [Partitions -> [records : Seq(Nat), synced : Nat]],
         \A tp \in Partitions : logs'[tp].synced <= Len(logs'[tp].records)
  PROVE  Types'
<1>1. topics' \in Tables
  BY DEF Down, NoTopics, Tables
<1>2. offsets' \in [Partitions -> OffsetOrNone]
  BY DEF Down, OffsetOrNone
<1>3. requests' \in [Workers -> Requests]
  BY IdleTypes DEF Down
<1> QED BY <1>1, <1>2, <1>3 DEF Types, Down

LEMMA TypesStep == Types /\ Files /\ [Next]_vars => Types'
<1> SUFFICES ASSUME Types, Files, [Next]_vars PROVE Types'
  OBVIOUS
<1> USE DEF ghosts, disk
<1>1. CASE Start
  <2>a. topics' \in Tables
    BY <1>1 DEF Start, CanStart, Types
  <2>b. offsets' \in [Partitions -> OffsetOrNone]
    BY <1>1 DEF Start, CanStart, Types, OffsetsLoaded
  <2> QED BY <1>1, <2>a, <2>b DEF Start, Types
<1>2. ASSUME NEW w \in Workers, NEW t \in Topics, NEW n \in Counts, CreateTopic(w, t, n)
      PROVE  Types'
  <2>a. [pc |-> "persist", topic |-> t] \in Requests
    BY DEF Requests
  <2>b. requests' \in [Workers -> Requests]
    BY <1>2, <2>a, ServeTypes DEF CreateTopic, Types
  <2>c. topics' \in Tables
    BY <1>2 DEF CreateTopic, Types, Tables
  <2> QED BY <1>2, <2>b, <2>c DEF CreateTopic, Types
<1>3. ASSUME NEW w \in Workers, NEW t \in Topics, CreateTopicAgain(w, t)
      PROVE  Types'
  <2>a. topics[t] \in Counts
    BY <1>3 DEF CreateTopicAgain, Types, Tables
  <2> QED BY <1>3, <2>a DEF CreateTopicAgain, Types
<1>4. ASSUME NEW w \in Workers, PersistMetadataLocked(w)
      PROVE  Types'
  <2>a. requests' \in [Workers -> Requests]
    BY <1>4, ServeTypes, IdleTypes DEF PersistMetadataLocked, Types
  <2>b. meta' \in [now : Tables \cup {Torn}, maybe : SUBSET (Tables \cup {Torn})]
    BY <1>4, ReplaceTypes DEF PersistMetadataLocked, Types
  <2>c. requests[w].topic \in Topics
    BY <1>4, RequestTypes DEF PersistMetadataLocked, Types
  <2>d. topics[requests[w].topic] \in Counts
    BY <1>4, <2>c DEF PersistMetadataLocked, Types, Tables, Files
  <2>e. created' \subseteq Topics \X Counts
    BY <1>4, <2>c, <2>d DEF PersistMetadataLocked, Types
  <2> QED BY <1>4, <2>a, <2>b, <2>e DEF PersistMetadataLocked, Types
<1>5. ASSUME NEW w \in Workers, PersistMetadataFails(w)
      PROVE  Types'
  <2>a. requests' \in [Workers -> Requests]
    BY <1>5, ServeTypes, IdleTypes DEF PersistMetadataFails, Types
  <2>b. topics' \in Tables
    BY <1>5 DEF PersistMetadataFails, Types, Tables
  <2> QED BY <1>5, <2>a, <2>b DEF PersistMetadataFails, Types
<1>6. ASSUME NEW w \in Workers, NEW tp \in Partitions, Produce(w, tp)
      PROVE  Types'
  <2>a. [partition |-> tp, offset |-> Len(logs[tp].records), record |-> produced] \in Acks
    BY LogTypes DEF Acks, Types
  <2>b. [pc |-> IF sync THEN "flush" ELSE "reply",
         ack |-> [partition |-> tp, offset |-> Len(logs[tp].records), record |-> produced]]
           \in Requests
    BY <2>a DEF Requests
  <2>c. requests' \in [Workers -> Requests]
    BY <1>6, <2>b, ServeTypes DEF Produce, Types
  <2>d. /\ logs' \in [Partitions -> [records : Seq(Nat), synced : Nat]]
        /\ \A p \in Partitions : logs'[p].synced = logs[p].synced
        /\ \A p \in Partitions : p # tp => logs'[p] = logs[p]
        /\ logs'[tp].records = Append(logs[tp].records, produced)
    BY <1>6, AppendTypes DEF Produce
  <2>e. Len(logs'[tp].records) = Len(logs[tp].records) + 1
    BY <2>d, LogTypes
  <2>f. ASSUME NEW p \in Partitions PROVE logs'[p].synced <= Len(logs'[p].records)
    <3>1. /\ logs[p].synced \in Nat /\ Len(logs[p].records) \in Nat
          /\ logs[p].synced <= Len(logs[p].records)
      BY LogTypes
    <3>2. CASE p = tp
      BY <3>1, <3>2, <2>d, <2>e
    <3>3. CASE p # tp
      BY <3>1, <3>3, <2>d
    <3> QED BY <3>2, <3>3
  <2>g. produced' \in Nat
    BY <1>6 DEF Produce, Types
  <2> QED BY <1>6, <2>c, <2>d, <2>f, <2>g DEF Produce, Types
<1>7. ASSUME NEW w \in Workers, ProduceFlush(w)
      PROVE  Types'
  <2>a. /\ requests[w] \in [pc : {"flush", "reply"}, ack : Acks]
        /\ requests[w].ack.partition \in Partitions
    BY <1>7, RequestTypes DEF ProduceFlush, Types, Acks
  <2>b. [requests[w] EXCEPT !.pc = "reply"] \in Requests
    BY <2>a DEF Requests
  <2>c. requests' \in [Workers -> Requests]
    BY <1>7, <2>b, ServeTypes DEF ProduceFlush, Types
  <2>d. PICK tp \in Partitions : tp = requests[w].ack.partition
    BY <2>a
  <2>e. /\ logs' \in [Partitions -> [records : Seq(Nat), synced : Nat]]
        /\ \A p \in Partitions : logs'[p].records = logs[p].records
        /\ \A p \in Partitions : p # tp => logs'[p] = logs[p]
        /\ logs'[tp].synced = Len(logs[tp].records)
    BY <1>7, <2>d, SyncedTypes DEF ProduceFlush
  <2>f. ASSUME NEW p \in Partitions PROVE logs'[p].synced <= Len(logs'[p].records)
    <3>1. /\ logs[p].synced \in Nat /\ Len(logs[p].records) \in Nat
          /\ logs[p].synced <= Len(logs[p].records)
      BY LogTypes
    <3>2. CASE p = tp
      BY <3>1, <3>2, <2>e
    <3>3. CASE p # tp
      BY <3>1, <3>3, <2>e
    <3> QED BY <3>2, <3>3
  <2> QED BY <1>7, <2>c, <2>e, <2>f DEF ProduceFlush, Types
<1>8. ASSUME NEW w \in Workers, ProduceFlushFails(w)
      PROVE  Types'
  <2>a. requests' \in [Workers -> Requests]
    BY <1>8, ServeTypes, IdleTypes DEF ProduceFlushFails, Types
  <2> QED BY <1>8, <2>a DEF ProduceFlushFails, Types
<1>9. ASSUME NEW w \in Workers, ProduceReply(w)
      PROVE  Types'
  <2>a. requests' \in [Workers -> Requests]
    BY <1>9, ServeTypes, IdleTypes DEF ProduceReply, Types
  <2>b. requests[w].ack \in Acks
    BY <1>9, RequestTypes DEF ProduceReply, Types
  <2> QED BY <1>9, <2>a, <2>b DEF ProduceReply, Types
<1>10. ASSUME NEW w \in Workers, NEW tp \in Partitions, NEW o \in 0 .. MaxRecords,
              CommitCheck(w, tp, o)
       PROVE  Types'
  <2>a. o \in Nat
    BY BrokerAssumption
  <2>b. [pc |-> "commit", partition |-> tp, offset |-> o] \in Requests
    BY <2>a DEF Requests
  <2>c. requests' \in [Workers -> Requests]
    BY <1>10, <2>b, ServeTypes DEF CommitCheck, Types
  <2> QED BY <1>10, <2>c DEF CommitCheck, Types
<1>11. ASSUME NEW w \in Workers, Commit(w)
       PROVE  Types'
  <2>a. requests' \in [Workers -> Requests]
    BY <1>11, ServeTypes, IdleTypes DEF Commit, Types
  <2>b. PICK tp \in Partitions, o \in Nat : tp = requests[w].partition /\ o = requests[w].offset
    BY <1>11, RequestTypes DEF Commit, Types
  <2>c. o \in OffsetOrNone
    BY <2>b DEF OffsetOrNone
  <2>d. Replace(offset_file[tp], o) \in
          [now : OffsetOrNone \cup {Torn}, maybe : SUBSET (OffsetOrNone \cup {Torn})]
    BY <2>c, ReplaceTypes DEF Types
  <2>e. /\ offset_file' = [offset_file EXCEPT ![tp] = Replace(offset_file[tp], o)]
        /\ offsets' = [offsets EXCEPT ![tp] = o]
    BY <1>11, <2>b DEF Commit
  <2>f. offset_file' \in [Partitions -> [now : OffsetOrNone \cup {Torn},
                                         maybe : SUBSET (OffsetOrNone \cup {Torn})]]
    BY <2>d, <2>e DEF Types
  <2>g. offsets' \in [Partitions -> OffsetOrNone]
    BY <2>c, <2>e DEF Types
  <2> QED BY <1>11, <2>a, <2>f, <2>g DEF Commit, Types
<1>12. ASSUME NEW w \in Workers, CommitFails(w)
       PROVE  Types'
  <2>a. requests' \in [Workers -> Requests]
    BY <1>12, ServeTypes, IdleTypes DEF CommitFails, Types
  <2> QED BY <1>12, <2>a DEF CommitFails, Types
<1>13. ASSUME NEW tp \in Partitions, FlushPartition(tp)
       PROVE  Types'
  <2>a. /\ logs' \in [Partitions -> [records : Seq(Nat), synced : Nat]]
        /\ \A p \in Partitions : logs'[p].records = logs[p].records
        /\ \A p \in Partitions : p # tp => logs'[p] = logs[p]
        /\ logs'[tp].synced = Len(logs[tp].records)
    BY <1>13, SyncedTypes DEF FlushPartition
  <2>b. ASSUME NEW p \in Partitions PROVE logs'[p].synced <= Len(logs'[p].records)
    <3>1. /\ logs[p].synced \in Nat /\ Len(logs[p].records) \in Nat
          /\ logs[p].synced <= Len(logs[p].records)
      BY LogTypes
    <3>2. CASE p = tp
      BY <3>1, <3>2, <2>a
    <3>3. CASE p # tp
      BY <3>1, <3>3, <2>a
    <3> QED BY <3>2, <3>3
  <2> QED BY <1>13, <2>a, <2>b DEF FlushPartition, Types
<1>14. CASE Stop
  BY <1>14, DownTypes DEF Stop, Types
<1>15. CASE PowerLoss
  <2>a. meta' \in [now : Tables \cup {Torn}, maybe : SUBSET (Tables \cup {Torn})]
    BY <1>15 DEF PowerLoss, Types, NewFile
  <2>b. offset_file' \in [Partitions -> [now : OffsetOrNone \cup {Torn},
                                         maybe : SUBSET (OffsetOrNone \cup {Torn})]]
    <3>1. offset_file' \in
            [Partitions -> {NewFile(v) : v \in None .. MaxRecords} \cup {NewFile(Torn)}]
      BY <1>15 DEF PowerLoss
    <3>2. None .. MaxRecords \subseteq OffsetOrNone
      BY BrokerAssumption DEF None, OffsetOrNone
    <3>3. {NewFile(v) : v \in None .. MaxRecords} \cup {NewFile(Torn)}
            \subseteq [now : OffsetOrNone \cup {Torn}, maybe : SUBSET (OffsetOrNone \cup {Torn})]
      BY <3>2 DEF NewFile
    <3> QED BY <3>1, <3>3
  <2>c. PICK kept \in [Partitions -> 0 .. MaxRecords] :
          /\ \A tp \in Partitions : kept[tp] \in logs[tp].synced .. Len(logs[tp].records)
          /\ logs' = [tp \in Partitions |->
                        [records |-> SubSeq(logs[tp].records, 1, kept[tp]),
                         synced |-> kept[tp]]]
    BY <1>15 DEF PowerLoss
  <2>d. /\ logs' \in [Partitions -> [records : Seq(Nat), synced : Nat]]
        /\ \A tp \in Partitions :
              /\ Len(logs'[tp].records) = logs'[tp].synced
              /\ logs[tp].synced <= logs'[tp].synced
              /\ \A i \in 1 .. logs'[tp].synced : logs'[tp].records[i] = logs[tp].records[i]
    BY <2>c, KeptLogs
  <2>e. \A tp \in Partitions : logs'[tp].synced <= Len(logs'[tp].records)
    BY <2>d
  <2>f. outages' \in Nat
    BY <1>15 DEF PowerLoss, Types
  <2> QED BY <1>15, <2>a, <2>b, <2>d, <2>e, <2>f, DownTypes DEF PowerLoss
<1>16. CASE UNCHANGED vars
  BY <1>16 DEF vars, Types
<1> QED
  BY <1>1, <1>2, <1>3, <1>4, <1>5, <1>6, <1>7, <1>8, <1>9, <1>10, <1>11, <1>12, <1>13,
     <1>14, <1>15, <1>16 DEF Next

----------------------------------------
(* The files *)

LEMMA FilesInit == Init => Files
  BY IdleTypes DEF Init, Files, NewFile, TopicsUnlocked

LEMMA DownFiles == Down => Files'
  BY IdleTypes DEF Down, Files

\* A worker whose request changes while the topic table and its file do not.
LEMMA WorkerMoves ==
  ASSUME Files, NEW w \in Workers, up,
         up' = up, topics' = topics, meta' = meta,
         \A v \in Workers \ {w} : requests'[v] = requests[v],
         requests[w].pc # "persist", requests'[w].pc # "persist",
         \A tp \in Partitions : offset_file'[tp].now = offsets'[tp]
  PROVE  Files'
<1>1. \A v \in Workers : requests'[v].pc = "persist" =>
         v # w /\ requests'[v] = requests[v]
  OBVIOUS
<1>2. TopicsUnlocked' => TopicsUnlocked
  BY DEF TopicsUnlocked
<1> QED BY <1>1, <1>2 DEF Files

LEMMA FilesStep == Types /\ Files /\ [Next]_vars => Files'
<1> SUFFICES ASSUME Types, Files, [Next]_vars PROVE Files'
  OBVIOUS
<1> USE DEF ghosts, disk
<1>0. ASSUME NEW w \in Workers, requests[w].pc # "idle" PROVE up
  BY <1>0, IdleTypes DEF Files, Types
<1>1. CASE Start
  <2>a. \A w \in Workers : requests'[w].pc # "persist"
    BY <1>1, IdleTypes DEF Start, Files
  <2>b. \A tp \in Partitions : offset_file'[tp].now = offsets'[tp]
    BY <1>1 DEF Start, OffsetsLoaded
  <2> QED BY <1>1, <2>a, <2>b DEF Start, Files
<1>2. ASSUME NEW w \in Workers, NEW t \in Topics, NEW n \in Counts, CreateTopic(w, t, n)
      PROVE  Files'
  <2>a. [pc |-> "persist", topic |-> t] \in Requests
    BY DEF Requests
  <2>b. /\ requests'[w] = [pc |-> "persist", topic |-> t]
        /\ \A v \in Workers \ {w} : requests'[v] = requests[v]
    BY <1>2, <2>a, ServeTypes DEF CreateTopic, Types
  <2>c. \A v \in Workers \ {w} : requests'[v].pc # "persist"
    BY <1>2, <2>b DEF CreateTopic, MayServe, TopicsUnlocked
  <2>d. meta.now = topics /\ topics[t] = 0 /\ topics \in Tables /\ topics' = [topics EXCEPT ![t] = n]
    BY <1>2 DEF CreateTopic, MayServe, Files, Types
  <2>e. n # 0
    BY BrokerAssumption
  <2>f. topics'[t] # 0 /\ meta.now = [topics' EXCEPT ![t] = 0]
    BY <2>d, <2>e DEF Tables
  <2>g. ~TopicsUnlocked'
    BY <2>b DEF TopicsUnlocked
  <2> QED BY <1>2, <2>b, <2>c, <2>f, <2>g DEF CreateTopic, MayServe, Files
<1>3. ASSUME NEW w \in Workers, NEW t \in Topics, CreateTopicAgain(w, t)
      PROVE  Files'
  BY <1>3 DEF CreateTopicAgain, Files, TopicsUnlocked
<1>4. ASSUME NEW w \in Workers, PersistMetadataLocked(w)
      PROVE  Files'
  <2>a. requests'[w] = Idle /\ \A v \in Workers \ {w} : requests'[v] = requests[v]
    BY <1>4, ServeTypes, IdleTypes DEF PersistMetadataLocked, Types
  <2>b. \A v \in Workers : requests'[v].pc # "persist"
    BY <1>4, <2>a, IdleTypes DEF PersistMetadataLocked, Files
  <2>c. up /\ meta'.now = topics'
    BY <1>4, <1>0 DEF PersistMetadataLocked, Replace
  <2> QED BY <1>4, <2>b, <2>c DEF PersistMetadataLocked, Files
<1>5. ASSUME NEW w \in Workers, PersistMetadataFails(w)
      PROVE  Files'
  <2>a. requests'[w] = Idle /\ \A v \in Workers \ {w} : requests'[v] = requests[v]
    BY <1>5, ServeTypes, IdleTypes DEF PersistMetadataFails, Types
  <2>b. \A v \in Workers : requests'[v].pc # "persist"
    BY <1>5, <2>a, IdleTypes DEF PersistMetadataFails, Files
  <2>c. up /\ meta'.now = topics'
    BY <1>5, <1>0 DEF PersistMetadataFails, Files
  <2> QED BY <1>5, <2>b, <2>c DEF PersistMetadataFails, Files
<1>6. ASSUME NEW w \in Workers, NEW tp \in Partitions, Produce(w, tp)
      PROVE  Files'
  <2>a. requests[w].pc # "persist" /\ up
    BY <1>6, IdleTypes DEF Produce, MayServe
  <2>b. /\ requests'[w].pc # "persist"
        /\ \A v \in Workers \ {w} : requests'[v] = requests[v]
    BY <1>6 DEF Produce, Serve, Types
  <2> QED BY <1>6, <2>a, <2>b, WorkerMoves DEF Produce, Files
<1>7. ASSUME NEW w \in Workers, ProduceFlush(w)
      PROVE  Files'
  <2>a. requests[w] \in [pc : {"flush", "reply"}, ack : Acks]
    BY <1>7, RequestTypes DEF ProduceFlush, Types
  <2>b. /\ requests'[w].pc # "persist"
        /\ \A v \in Workers \ {w} : requests'[v] = requests[v]
    BY <1>7, <2>a DEF ProduceFlush, Serve, Types
  <2>c. requests[w].pc # "persist" /\ up
    BY <1>7, <1>0 DEF ProduceFlush
  <2> QED BY <1>7, <2>b, <2>c, WorkerMoves DEF ProduceFlush, Files
<1>8. ASSUME NEW w \in Workers, ProduceFlushFails(w)
      PROVE  Files'
  <2>a. requests'[w] = Idle /\ \A v \in Workers \ {w} : requests'[v] = requests[v]
    BY <1>8, ServeTypes, IdleTypes DEF ProduceFlushFails, Types
  <2>b. requests[w].pc # "persist" /\ requests'[w].pc # "persist" /\ up
    BY <1>8, <1>0, <2>a, IdleTypes DEF ProduceFlushFails
  <2> QED BY <1>8, <2>a, <2>b, WorkerMoves DEF ProduceFlushFails, Files
<1>9. ASSUME NEW w \in Workers, ProduceReply(w)
      PROVE  Files'
  <2>a. requests'[w] = Idle /\ \A v \in Workers \ {w} : requests'[v] = requests[v]
    BY <1>9, ServeTypes, IdleTypes DEF ProduceReply, Types
  <2>b. requests[w].pc # "persist" /\ requests'[w].pc # "persist" /\ up
    BY <1>9, <1>0, <2>a, IdleTypes DEF ProduceReply
  <2> QED BY <1>9, <2>a, <2>b, WorkerMoves DEF ProduceReply, Files
<1>10. ASSUME NEW w \in Workers, NEW tp \in Partitions, NEW o \in 0 .. MaxRecords,
              CommitCheck(w, tp, o)
       PROVE  Files'
  <2>a. requests[w].pc # "persist" /\ up
    BY <1>10, IdleTypes DEF CommitCheck, MayServe
  <2>b. /\ requests'[w].pc # "persist"
        /\ \A v \in Workers \ {w} : requests'[v] = requests[v]
    BY <1>10 DEF CommitCheck, Serve, Types
  <2> QED BY <1>10, <2>a, <2>b, WorkerMoves DEF CommitCheck, Files
<1>11. ASSUME NEW w \in Workers, Commit(w)
       PROVE  Files'
  <2>a. requests'[w] = Idle /\ \A v \in Workers \ {w} : requests'[v] = requests[v]
    BY <1>11, ServeTypes, IdleTypes DEF Commit, Types
  <2>b. requests[w].pc # "persist" /\ requests'[w].pc # "persist" /\ up
    BY <1>11, <1>0, <2>a, IdleTypes DEF Commit
  <2>c. \A p \in Partitions : offset_file'[p].now = offsets'[p]
    BY <1>11, <2>b DEF Commit, Replace, Files, Types
  <2> QED BY <1>11, <2>a, <2>b, <2>c, WorkerMoves DEF Commit
<1>12. ASSUME NEW w \in Workers, CommitFails(w)
       PROVE  Files'
  <2>a. requests'[w] = Idle /\ \A v \in Workers \ {w} : requests'[v] = requests[v]
    BY <1>12, ServeTypes, IdleTypes DEF CommitFails, Types
  <2>b. requests[w].pc # "persist" /\ requests'[w].pc # "persist" /\ up
    BY <1>12, <1>0, <2>a, IdleTypes DEF CommitFails
  <2> QED BY <1>12, <2>a, <2>b, WorkerMoves DEF CommitFails, Files
<1>13. ASSUME NEW tp \in Partitions, FlushPartition(tp)
       PROVE  Files'
  BY <1>13 DEF FlushPartition, Files, TopicsUnlocked
<1>14. CASE Stop \/ PowerLoss
  BY <1>14, DownFiles DEF Stop, PowerLoss
<1>15. CASE UNCHANGED vars
  BY <1>15 DEF vars, Files, TopicsUnlocked
<1> QED
  BY <1>1, <1>2, <1>3, <1>4, <1>5, <1>6, <1>7, <1>8, <1>9, <1>10, <1>11, <1>12, <1>13,
     <1>14, <1>15 DEF Next

----------------------------------------
(* The logs and the topic table only grow while the machine has power *)

Grown(l, m) ==
    /\ Len(l.records) <= Len(m.records)
    /\ \A i \in 1 .. Len(l.records) : m.records[i] = l.records[i]
    /\ l.synced <= m.synced

LogsGrow == \A tp \in Partitions : Grown(logs[tp], logs'[tp])

TableGrows ==
    /\ \A tp \in Partitions : Listed(tp, meta.now) => Listed(tp, meta'.now)
    /\ \A c \in Topics \X Counts : meta.now[c[1]] = c[2] => meta'.now[c[1]] = c[2]

LEMMA LogsKept ==
  ASSUME Types, logs' = logs
  PROVE  LogsGrow
<1> SUFFICES ASSUME NEW tp \in Partitions PROVE Grown(logs[tp], logs'[tp])
  BY DEF LogsGrow
<1>1. Len(logs[tp].records) \in Nat /\ logs[tp].synced \in Nat
  BY LogTypes
<1> QED BY <1>1 DEF Grown

LEMMA AppendGrows ==
  ASSUME Types, NEW tp \in Partitions,
         logs' = [logs EXCEPT ![tp].records = Append(@, produced)]
  PROVE  LogsGrow
<1> SUFFICES ASSUME NEW p \in Partitions PROVE Grown(logs[p], logs'[p])
  BY DEF LogsGrow
<1>1. /\ Len(logs[p].records) \in Nat /\ logs[p].synced \in Nat
      /\ logs[p].records \in Seq(Nat)
  BY LogTypes
<1>2. /\ logs'[p].synced = logs[p].synced
      /\ p # tp => logs'[p] = logs[p]
      /\ logs'[tp].records = Append(logs[tp].records, produced)
  BY AppendTypes
<1>3. CASE p = tp
  <2>a. /\ Len(logs'[p].records) = Len(logs[p].records) + 1
        /\ \A i \in 1 .. Len(logs[p].records) : logs'[p].records[i] = logs[p].records[i]
    BY <1>1, <1>2, <1>3
  <2> QED BY <1>1, <1>2, <2>a DEF Grown
<1>4. CASE p # tp
  BY <1>1, <1>2, <1>4 DEF Grown
<1> QED BY <1>3, <1>4

LEMMA SyncedGrows ==
  ASSUME Types, NEW tp \in Partitions, logs' = [logs EXCEPT ![tp] = Synced(@)]
  PROVE  LogsGrow
<1> SUFFICES ASSUME NEW p \in Partitions PROVE Grown(logs[p], logs'[p])
  BY DEF LogsGrow
<1>1. /\ Len(logs[p].records) \in Nat /\ logs[p].synced \in Nat
      /\ logs[p].synced <= Len(logs[p].records)
  BY LogTypes
<1>2. /\ logs'[p].records = logs[p].records
      /\ p # tp => logs'[p] = logs[p]
      /\ logs'[tp].synced = Len(logs[tp].records)
  BY SyncedTypes
<1> QED BY <1>1, <1>2 DEF Grown

\* Writing topics.meta adds the worker's topic and leaves the others.
LEMMA PersistGrows ==
  ASSUME Types, Files, NEW w \in Workers, PersistMetadataLocked(w)
  PROVE  TableGrows
<1>1. PICK t \in Topics : t = requests[w].topic
  BY RequestTypes DEF PersistMetadataLocked, Types
<1>2. /\ meta.now = [topics EXCEPT ![t] = 0] /\ topics \in Tables /\ meta'.now = topics
  BY <1>1 DEF PersistMetadataLocked, Replace, Files, Types
<1>3. ASSUME NEW tp \in Partitions, Listed(tp, meta.now) PROVE Listed(tp, meta'.now)
  <2>a. tp[1] \in Topics /\ tp[2] \in Nat
    BY PartitionTypes
  <2>b. tp[1] # t
    BY <1>2, <1>3, <2>a DEF Listed, Tables
  <2> QED BY <1>2, <1>3, <2>a, <2>b DEF Listed, Tables
<1>4. ASSUME NEW c \in Topics \X Counts, meta.now[c[1]] = c[2] PROVE meta'.now[c[1]] = c[2]
  <2>a. c[1] \in Topics /\ c[2] # 0
    BY BrokerAssumption
  <2>b. c[1] # t
    BY <1>2, <1>4, <2>a DEF Tables
  <2> QED BY <1>2, <1>4, <2>a, <2>b DEF Tables
<1> QED BY <1>3, <1>4 DEF TableGrows

LEMMA InLogGrows ==
  ASSUME Types, Types', LogsGrow, NEW a \in Acks, InLog(logs[a.partition], a)
  PROVE  InLog(logs'[a.partition], a)
<1>1. a.partition \in Partitions /\ a.offset \in Nat
  BY DEF Acks
<1>2. PICK l, m : l = logs[a.partition].records /\ m = logs'[a.partition].records
  OBVIOUS
<1>3. /\ Len(l) \in Nat /\ Len(l) <= Len(m) /\ a.offset < Len(l)
      /\ \A i \in 1 .. Len(l) : m[i] = l[i]
      /\ l[a.offset + 1] = a.record
  BY <1>1, <1>2, LogTypes DEF LogsGrow, Grown, InLog
<1>4. a.offset + 1 \in 1 .. Len(l)
  BY <1>1, <1>3
<1>5. Len(m) \in Nat
  BY <1>1, <1>2 DEF Types
<1> QED BY <1>1, <1>2, <1>3, <1>4, <1>5, SMTT(30) DEF InLog

LEMMA FlushedGrows ==
  ASSUME Types, Types', LogsGrow, NEW a \in Acks, Flushed(logs[a.partition], a)
  PROVE  Flushed(logs'[a.partition], a)
<1>1. a.partition \in Partitions /\ a.offset \in Nat
  BY DEF Acks
<1>2. PICK m : m = logs'[a.partition]
  OBVIOUS
<1>3. m.synced \in Nat
  BY <1>1, <1>2 DEF Types
<1>4. PICK n : n = logs[a.partition].synced
  OBVIOUS
<1>5. n \in Nat /\ n <= m.synced /\ a.offset < n
  BY <1>1, <1>2, <1>4, LogTypes DEF LogsGrow, Grown, Flushed
<1>6. a.offset < m.synced
  BY <1>1, <1>3, <1>5
<1> QED BY <1>2, <1>6 DEF Flushed

LEMMA SafeGrows ==
  ASSUME Types, Types', LogsGrow, TableGrows, NEW a \in Acks, NEW f \in BOOLEAN,
         Safe(a, logs, f, meta.now)
  PROVE  Safe(a, logs', f, meta'.now)
<1>1. a.partition \in Partitions
  BY DEF Acks
<1> QED BY <1>1, InLogGrows, FlushedGrows DEF Safe, TableGrows

\* The step of an action that keeps the machine's power: a worker has its old request
\* or one whose record is safe; likewise the acknowledged records and topics.
LEMMA StoredKept ==
  ASSUME Types, Types', Stored, LogsGrow, TableGrows,
         sync' = sync, outages' = outages,
         \A w \in Workers : \/ requests'[w] = requests[w]
                            \/ requests'[w].pc \in {"flush", "reply"} =>
                                  Safe(requests'[w].ack, logs',
                                       sync /\ requests'[w].pc = "reply", meta'.now),
         \A a \in acked' : a \in acked \/ Safe(a, logs', sync, meta'.now),
         \A c \in created' : c \in created \/ meta'.now[c[1]] = c[2]
  PROVE  Stored'
<1>1. ASSUME NEW w \in Workers, requests'[w].pc \in {"flush", "reply"}
      PROVE  Safe(requests'[w].ack, logs', sync /\ requests'[w].pc = "reply", meta'.now)
  <2>a. CASE requests'[w] = requests[w]
    <3>1. requests[w].ack \in Acks
      BY <1>1, <2>a, RequestTypes DEF Types
    <3>2. Safe(requests[w].ack, logs, sync /\ requests[w].pc = "reply", meta.now)
      BY <1>1, <2>a DEF Stored
    <3>3. (sync /\ requests[w].pc = "reply") \in BOOLEAN
      OBVIOUS
    <3> QED BY <2>a, <3>1, <3>2, <3>3, SafeGrows
  <2> QED BY <1>1, <2>a
<1>2. ASSUME NEW a \in acked', outages' = 0 PROVE Safe(a, logs', sync, meta'.now)
  <2>a. CASE a \in acked
    <3>1. a \in Acks /\ sync \in BOOLEAN /\ Safe(a, logs, sync, meta.now)
      BY <1>2, <2>a DEF Stored, Types
    <3> QED BY <3>1, SafeGrows
  <2> QED BY <2>a
<1>3. ASSUME NEW a \in acked', sync'
      PROVE  InLog(logs'[a.partition], a) /\ Flushed(logs'[a.partition], a)
  <2>a. CASE a \in acked
    <3>1. a \in Acks /\ InLog(logs[a.partition], a) /\ Flushed(logs[a.partition], a)
      BY <1>3, <2>a DEF Stored, Types
    <3> QED BY <3>1, InLogGrows, FlushedGrows
  <2>b. CASE Safe(a, logs', sync, meta'.now)
    BY <1>3, <2>b DEF Safe
  <2> QED BY <2>a, <2>b
<1>4. ASSUME NEW c \in created', outages' = 0 PROVE meta'.now[c[1]] = c[2]
  <2>a. CASE c \in created
    BY <1>4, <2>a DEF Stored, TableGrows, Types
  <2> QED BY <2>a
<1> QED BY <1>1, <1>2, <1>3, <1>4 DEF Stored

LEMMA StoredStep == Types /\ Types' /\ Files /\ Stored /\ [Next]_vars => Stored'
<1> SUFFICES ASSUME Types, Types', Files, Stored, [Next]_vars PROVE Stored'
  OBVIOUS
<1> USE DEF ghosts, disk
<1>0. meta' = meta => TableGrows
  BY DEF TableGrows
<1>1. CASE Start
  <2>a. LogsGrow /\ TableGrows
    BY <1>1, <1>0, LogsKept DEF Start
  <2> QED BY <1>1, <2>a, StoredKept DEF Start
<1>2. ASSUME NEW w \in Workers, NEW t \in Topics, NEW n \in Counts, CreateTopic(w, t, n)
      PROVE  Stored'
  <2>a. LogsGrow /\ TableGrows
    BY <1>2, <1>0, LogsKept DEF CreateTopic
  <2>b. \A v \in Workers : requests'[v] = requests[v] \/ requests'[v].pc = "persist"
    BY <1>2 DEF CreateTopic, Serve, Types
  <2> QED BY <1>2, <2>a, <2>b, StoredKept DEF CreateTopic
<1>3. ASSUME NEW w \in Workers, NEW t \in Topics, CreateTopicAgain(w, t)
      PROVE  Stored'
  <2>a. LogsGrow /\ TableGrows
    BY <1>3, <1>0, LogsKept DEF CreateTopicAgain
  <2>b. \A c \in created' : c \in created \/ meta'.now[c[1]] = c[2]
    BY <1>3 DEF CreateTopicAgain, MayServe, Files
  <2> QED BY <1>3, <2>a, <2>b, StoredKept DEF CreateTopicAgain
<1>4. ASSUME NEW w \in Workers, PersistMetadataLocked(w)
      PROVE  Stored'
  <2>a. LogsGrow /\ TableGrows
    BY <1>4, PersistGrows, LogsKept DEF PersistMetadataLocked
  <2>b. \A v \in Workers : requests'[v] = requests[v] \/ requests'[v].pc = "idle"
    BY <1>4, IdleTypes DEF PersistMetadataLocked, Serve, Types
  <2>c. \A c \in created' : c \in created \/ meta'.now[c[1]] = c[2]
    BY <1>4 DEF PersistMetadataLocked, Replace
  <2>d. sync' = sync /\ outages' = outages /\ acked' = acked
    BY <1>4 DEF PersistMetadataLocked
  <2> QED BY <2>a, <2>b, <2>c, <2>d, StoredKept
<1>5. ASSUME NEW w \in Workers, PersistMetadataFails(w)
      PROVE  Stored'
  <2>a. LogsGrow /\ TableGrows
    BY <1>5, <1>0, LogsKept DEF PersistMetadataFails
  <2>b. \A v \in Workers : requests'[v] = requests[v] \/ requests'[v].pc = "idle"
    BY <1>5, IdleTypes DEF PersistMetadataFails, Serve, Types
  <2> QED BY <1>5, <2>a, <2>b, StoredKept DEF PersistMetadataFails
<1>6. ASSUME NEW w \in Workers, NEW tp \in Partitions, Produce(w, tp)
      PROVE  Stored'
  <2>a. LogsGrow /\ TableGrows
    BY <1>6, <1>0, AppendGrows DEF Produce
  <2>b. /\ logs[tp].records \in Seq(Nat) /\ Len(logs[tp].records) \in Nat /\ produced \in Nat
        /\ logs'[tp].records = Append(logs[tp].records, produced)
    BY <1>6, LogTypes, AppendTypes DEF Produce, Types
  <2>c. PICK a : a = [partition |-> tp, offset |-> Len(logs[tp].records), record |-> produced]
    OBVIOUS
  <2>d. a.partition = tp /\ a.offset = Len(logs[tp].records) /\ a.record = produced
    BY <2>c
  <2>e. /\ a.offset < Len(Append(logs[tp].records, produced))
        /\ Append(logs[tp].records, produced)[a.offset + 1] = a.record
    BY <2>b, <2>d
  <2>f. InLog(logs'[tp], a)
    BY <2>b, <2>e DEF InLog
  <2>g. Listed(tp, meta'.now)
    BY <1>6 DEF Produce, MayServe, Files, Known, Listed
  <2>h. Safe(a, logs', FALSE, meta'.now)
    BY <2>d, <2>f, <2>g DEF Safe
  <2>i. \A v \in Workers : \/ requests'[v] = requests[v]
                           \/ /\ requests'[v].ack = a
                              /\ ~(sync /\ requests'[v].pc = "reply")
    BY <1>6, <2>c DEF Produce, Serve, Types
  <2>j. \A v \in Workers : \/ requests'[v] = requests[v]
                            \/ Safe(requests'[v].ack, logs',
                                    sync /\ requests'[v].pc = "reply", meta'.now)
    BY <2>h, <2>i DEF Safe
  <2> QED BY <1>6, <2>a, <2>j, StoredKept DEF Produce
<1>7. ASSUME NEW w \in Workers, ProduceFlush(w)
      PROVE  Stored'
  <2>a. /\ requests[w] \in [pc : {"flush", "reply"}, ack : Acks]
        /\ requests[w].ack \in Acks
    BY <1>7, RequestTypes DEF ProduceFlush, Types
  <2>b. PICK a \in Acks : a = requests[w].ack
    BY <2>a
  <2>c. PICK tp \in Partitions : tp = a.partition
    BY DEF Acks
  <2>d. logs' = [logs EXCEPT ![tp] = Synced(@)]
    BY <1>7, <2>b, <2>c DEF ProduceFlush
  <2>e. LogsGrow /\ TableGrows
    BY <1>7, <1>0, <2>d, SyncedGrows DEF ProduceFlush
  <2>f. logs'[tp].synced = Len(logs[tp].records)
    BY <2>d, SyncedTypes
  <2>g. Safe(a, logs, FALSE, meta.now)
    BY <1>7, <2>b DEF ProduceFlush, Stored, Safe
  <2>h. Safe(a, logs', FALSE, meta'.now)
    BY <2>e, <2>g, SafeGrows
  <2>i. Flushed(logs'[tp], a)
    BY <2>c, <2>f, <2>g DEF Safe, InLog, Flushed
  <2>j. Safe(a, logs', TRUE, meta'.now)
    BY <2>c, <2>h, <2>i DEF Safe
  <2>k. \A v \in Workers : requests'[v] = requests[v] \/ requests'[v].ack = a
    BY <1>7, <2>a, <2>b DEF ProduceFlush, Serve, Types
  <2>l. \A v \in Workers : \/ requests'[v] = requests[v]
                            \/ Safe(requests'[v].ack, logs',
                                    sync /\ requests'[v].pc = "reply", meta'.now)
    BY <2>j, <2>k DEF Safe
  <2> QED BY <1>7, <2>e, <2>l, StoredKept DEF ProduceFlush
<1>8. ASSUME NEW w \in Workers, ProduceFlushFails(w)
      PROVE  Stored'
  <2>a. LogsGrow /\ TableGrows
    BY <1>8, <1>0, LogsKept DEF ProduceFlushFails
  <2>b. \A v \in Workers : requests'[v] = requests[v] \/ requests'[v].pc = "idle"
    BY <1>8, IdleTypes DEF ProduceFlushFails, Serve, Types
  <2> QED BY <1>8, <2>a, <2>b, StoredKept DEF ProduceFlushFails
<1>9. ASSUME NEW w \in Workers, ProduceReply(w)
      PROVE  Stored'
  <2>a. LogsGrow /\ TableGrows
    BY <1>9, <1>0, LogsKept DEF ProduceReply
  <2>b. \A v \in Workers : requests'[v] = requests[v] \/ requests'[v].pc = "idle"
    BY <1>9, IdleTypes DEF ProduceReply, Serve, Types
  <2>c. Safe(requests[w].ack, logs, sync, meta.now)
    BY <1>9 DEF ProduceReply, Stored, Safe
  <2>d. Safe(requests[w].ack, logs', sync, meta'.now)
    BY <1>9, <2>c DEF ProduceReply
  <2>e. \A a \in acked' : a \in acked \/ Safe(a, logs', sync, meta'.now)
    BY <1>9, <2>d DEF ProduceReply
  <2> QED BY <1>9, <2>a, <2>b, <2>e, StoredKept DEF ProduceReply
<1>10. ASSUME NEW w \in Workers, NEW tp \in Partitions, NEW o \in 0 .. MaxRecords,
              CommitCheck(w, tp, o)
       PROVE  Stored'
  <2>a. LogsGrow /\ TableGrows
    BY <1>10, <1>0, LogsKept DEF CommitCheck
  <2>b. \A v \in Workers : requests'[v] = requests[v] \/ requests'[v].pc = "commit"
    BY <1>10 DEF CommitCheck, Serve, Types
  <2> QED BY <1>10, <2>a, <2>b, StoredKept DEF CommitCheck
<1>11. ASSUME NEW w \in Workers, Commit(w)
       PROVE  Stored'
  <2>a. LogsGrow /\ TableGrows
    BY <1>11, <1>0, LogsKept DEF Commit
  <2>b. \A v \in Workers : requests'[v] = requests[v] \/ requests'[v].pc = "idle"
    BY <1>11, IdleTypes DEF Commit, Serve, Types
  <2> QED BY <1>11, <2>a, <2>b, StoredKept DEF Commit
<1>12. ASSUME NEW w \in Workers, CommitFails(w)
       PROVE  Stored'
  <2>a. LogsGrow /\ TableGrows
    BY <1>12, <1>0, LogsKept DEF CommitFails
  <2>b. \A v \in Workers : requests'[v] = requests[v] \/ requests'[v].pc = "idle"
    BY <1>12, IdleTypes DEF CommitFails, Serve, Types
  <2> QED BY <1>12, <2>a, <2>b, StoredKept DEF CommitFails
<1>13. ASSUME NEW tp \in Partitions, FlushPartition(tp)
       PROVE  Stored'
  <2>a. LogsGrow /\ TableGrows
    BY <1>13, <1>0, SyncedGrows DEF FlushPartition
  <2> QED BY <1>13, <2>a, StoredKept DEF FlushPartition
<1>14. CASE Stop
  <2>a. LogsGrow /\ TableGrows
    BY <1>14, <1>0, LogsKept DEF Stop
  <2>b. \A v \in Workers : requests'[v].pc = "idle"
    BY <1>14, IdleTypes DEF Stop, Down
  <2> QED BY <1>14, <2>a, <2>b, StoredKept DEF Stop, Down
<1>15. CASE PowerLoss
  <2>a. outages' # 0
    BY <1>15 DEF PowerLoss, Types
  <2>b. \A v \in Workers : requests'[v].pc = "idle"
    BY <1>15, IdleTypes DEF PowerLoss, Down
  <2>c. acked' = acked /\ sync' = sync
    BY <1>15 DEF PowerLoss, Down
  <2>d. PICK kept \in [Partitions -> 0 .. MaxRecords] :
          /\ \A tp \in Partitions : kept[tp] \in logs[tp].synced .. Len(logs[tp].records)
          /\ logs' = [tp \in Partitions |->
                        [records |-> SubSeq(logs[tp].records, 1, kept[tp]),
                         synced |-> kept[tp]]]
    BY <1>15 DEF PowerLoss
  <2>e. \A tp \in Partitions :
          /\ Len(logs'[tp].records) = logs'[tp].synced
          /\ logs[tp].synced <= logs'[tp].synced
          /\ \A i \in 1 .. logs'[tp].synced : logs'[tp].records[i] = logs[tp].records[i]
    BY <2>d, KeptLogs
  <2>f. ASSUME NEW a \in acked, sync
        PROVE  InLog(logs'[a.partition], a) /\ Flushed(logs'[a.partition], a)
    <3>1. a.partition \in Partitions /\ a.offset \in Nat
      BY DEF Types, Acks
    <3>2. PICK l, m : l = logs[a.partition] /\ m = logs'[a.partition]
      OBVIOUS
    <3>3. l.synced \in Nat /\ m.synced \in Nat /\ a.offset < l.synced
          /\ l.records[a.offset + 1] = a.record
      BY <2>f, <3>1, <3>2 DEF Stored, Types, Flushed, InLog
    <3>4. /\ Len(m.records) = m.synced /\ l.synced <= m.synced
          /\ \A i \in 1 .. m.synced : m.records[i] = l.records[i]
      BY <2>e, <3>1, <3>2
    <3>5. a.offset < m.synced /\ a.offset + 1 \in 1 .. m.synced
      BY <3>1, <3>3, <3>4
    <3> QED BY <3>2, <3>3, <3>4, <3>5 DEF InLog, Flushed
  <2> QED BY <2>a, <2>b, <2>c, <2>f DEF Stored
<1>16. CASE UNCHANGED vars
  BY <1>16 DEF vars, Stored
<1> QED
  BY <1>1, <1>2, <1>3, <1>4, <1>5, <1>6, <1>7, <1>8, <1>9, <1>10, <1>11, <1>12, <1>13,
     <1>14, <1>15, <1>16 DEF Next

----------------------------------------
(* Committed offsets *)

LEMMA CommittedKept ==
  ASSUME Types, Types', Committed, LogsGrow, outages' = outages,
         \A w \in Workers : \/ requests'[w] = requests[w]
                            \/ requests'[w].pc = "commit" =>
                                  requests'[w].offset <= Len(logs'[requests'[w].partition].records),
         \A tp \in Partitions : \/ offset_file'[tp].now = offset_file[tp].now
                                \/ /\ offset_file'[tp].now \in OffsetOrNone
                                   /\ offset_file'[tp].now <= Len(logs'[tp].records)
  PROVE  Committed'
<1>1. ASSUME NEW tp \in Partitions
      PROVE  /\ Len(logs[tp].records) \in Nat /\ Len(logs'[tp].records) \in Nat
             /\ Len(logs[tp].records) <= Len(logs'[tp].records)
  BY DEF Types, LogsGrow, Grown
<1>2. ASSUME NEW w \in Workers, requests'[w].pc = "commit"
      PROVE  requests'[w].offset <= Len(logs'[requests'[w].partition].records)
  <2>a. CASE requests'[w] = requests[w]
    <3>1. requests[w].partition \in Partitions /\ requests[w].offset \in Nat
      BY <1>2, <2>a, RequestTypes DEF Types
    <3>2. requests[w].offset <= Len(logs[requests[w].partition].records)
      BY <1>2, <2>a DEF Committed
    <3>3. PICK tp \in Partitions, o \in Nat : tp = requests[w].partition /\ o = requests[w].offset
      BY <3>1
    <3>4. o <= Len(logs'[tp].records)
      BY <1>1, <3>2, <3>3
    <3> QED BY <2>a, <3>3, <3>4
  <2> QED BY <1>2, <2>a
<1>3. ASSUME NEW tp \in Partitions, outages' = 0
      PROVE  offset_file'[tp].now \in OffsetOrNone /\ offset_file'[tp].now <= Len(logs'[tp].records)
  <2>a. CASE offset_file'[tp].now = offset_file[tp].now
    <3>1. PICK o : o = offset_file[tp].now
      OBVIOUS
    <3>2. o \in OffsetOrNone /\ o <= Len(logs[tp].records)
      BY <1>3, <3>1 DEF Committed
    <3>3. o \in Int
      BY <3>2 DEF OffsetOrNone, None
    <3>4. o <= Len(logs'[tp].records)
      BY <1>1, <3>2, <3>3
    <3> QED BY <2>a, <3>1, <3>2, <3>4
  <2> QED BY <1>3, <2>a
<1> QED BY <1>2, <1>3 DEF Committed

LEMMA CommittedStep == Types /\ Types' /\ Committed /\ [Next]_vars => Committed'
<1> SUFFICES ASSUME Types, Types', Committed, [Next]_vars PROVE Committed'
  OBVIOUS
<1> USE DEF ghosts, disk
<1>1. CASE Start
  BY <1>1, LogsKept, CommittedKept DEF Start
<1>2. ASSUME NEW w \in Workers, NEW t \in Topics, NEW n \in Counts, CreateTopic(w, t, n)
      PROVE  Committed'
  <2>a. \A v \in Workers : requests'[v] = requests[v] \/ requests'[v].pc = "persist"
    BY <1>2 DEF CreateTopic, Serve, Types
  <2> QED BY <1>2, <2>a, LogsKept, CommittedKept DEF CreateTopic
<1>3. ASSUME NEW w \in Workers, NEW t \in Topics, CreateTopicAgain(w, t)
      PROVE  Committed'
  BY <1>3, LogsKept, CommittedKept DEF CreateTopicAgain
<1>4. ASSUME NEW w \in Workers, PersistMetadataLocked(w)
      PROVE  Committed'
  <2>a. \A v \in Workers : requests'[v] = requests[v] \/ requests'[v].pc = "idle"
    BY <1>4, IdleTypes DEF PersistMetadataLocked, Serve, Types
  <2> QED BY <1>4, <2>a, LogsKept, CommittedKept DEF PersistMetadataLocked
<1>5. ASSUME NEW w \in Workers, PersistMetadataFails(w)
      PROVE  Committed'
  <2>a. \A v \in Workers : requests'[v] = requests[v] \/ requests'[v].pc = "idle"
    BY <1>5, IdleTypes DEF PersistMetadataFails, Serve, Types
  <2> QED BY <1>5, <2>a, LogsKept, CommittedKept DEF PersistMetadataFails
<1>6. ASSUME NEW w \in Workers, NEW tp \in Partitions, Produce(w, tp)
      PROVE  Committed'
  <2>a. \A v \in Workers : requests'[v] = requests[v] \/ requests'[v].pc # "commit"
    BY <1>6 DEF Produce, Serve, Types
  <2> QED BY <1>6, <2>a, AppendGrows, CommittedKept DEF Produce
<1>7. ASSUME NEW w \in Workers, ProduceFlush(w)
      PROVE  Committed'
  <2>a. /\ requests[w] \in [pc : {"flush", "reply"}, ack : Acks]
        /\ requests[w].ack.partition \in Partitions
    BY <1>7, RequestTypes DEF ProduceFlush, Types, Acks
  <2>b. \A v \in Workers : requests'[v] = requests[v] \/ requests'[v].pc = "reply"
    BY <1>7, <2>a DEF ProduceFlush, Serve, Types
  <2>c. LogsGrow
    BY <1>7, <2>a, SyncedGrows DEF ProduceFlush
  <2> QED BY <1>7, <2>b, <2>c, CommittedKept DEF ProduceFlush
<1>8. ASSUME NEW w \in Workers, ProduceFlushFails(w)
      PROVE  Committed'
  <2>a. \A v \in Workers : requests'[v] = requests[v] \/ requests'[v].pc = "idle"
    BY <1>8, IdleTypes DEF ProduceFlushFails, Serve, Types
  <2> QED BY <1>8, <2>a, LogsKept, CommittedKept DEF ProduceFlushFails
<1>9. ASSUME NEW w \in Workers, ProduceReply(w)
      PROVE  Committed'
  <2>a. \A v \in Workers : requests'[v] = requests[v] \/ requests'[v].pc = "idle"
    BY <1>9, IdleTypes DEF ProduceReply, Serve, Types
  <2> QED BY <1>9, <2>a, LogsKept, CommittedKept DEF ProduceReply
<1>10. ASSUME NEW w \in Workers, NEW tp \in Partitions, NEW o \in 0 .. MaxRecords,
              CommitCheck(w, tp, o)
       PROVE  Committed'
  <2>a. \A v \in Workers : \/ requests'[v] = requests[v]
                           \/ requests'[v].partition = tp /\ requests'[v].offset = o
    BY <1>10 DEF CommitCheck, Serve, Types
  <2>b. o <= Len(logs'[tp].records)
    BY <1>10 DEF CommitCheck
  <2>c. \A v \in Workers : \/ requests'[v] = requests[v]
                           \/ requests'[v].offset <= Len(logs'[requests'[v].partition].records)
    BY <2>a, <2>b
  <2> QED BY <1>10, <2>c, LogsKept, CommittedKept DEF CommitCheck
<1>11. ASSUME NEW w \in Workers, Commit(w)
       PROVE  Committed'
  <2>a. \A v \in Workers : requests'[v] = requests[v] \/ requests'[v].pc = "idle"
    BY <1>11, IdleTypes DEF Commit, Serve, Types
  <2>b. PICK tp \in Partitions, o \in Nat : tp = requests[w].partition /\ o = requests[w].offset
    BY <1>11, RequestTypes DEF Commit, Types
  <2>c. o <= Len(logs'[tp].records) /\ o \in OffsetOrNone
    BY <1>11, <2>b DEF Commit, Committed, OffsetOrNone
  <2>d. offset_file' = [offset_file EXCEPT ![tp] = Replace(offset_file[tp], o)]
    BY <1>11, <2>b DEF Commit
  <2>e. Replace(offset_file[tp], o).now = o
    BY DEF Replace
  <2>f. \A p \in Partitions : \/ offset_file'[p].now = offset_file[p].now
                              \/ /\ offset_file'[p].now \in OffsetOrNone
                                 /\ offset_file'[p].now <= Len(logs'[p].records)
    BY <2>c, <2>d, <2>e DEF Types
  <2>g. LogsGrow /\ outages' = outages
    BY <1>11, LogsKept DEF Commit
  <2> QED BY <2>a, <2>f, <2>g, CommittedKept
<1>12. ASSUME NEW w \in Workers, CommitFails(w)
       PROVE  Committed'
  <2>a. \A v \in Workers : requests'[v] = requests[v] \/ requests'[v].pc = "idle"
    BY <1>12, IdleTypes DEF CommitFails, Serve, Types
  <2> QED BY <1>12, <2>a, LogsKept, CommittedKept DEF CommitFails
<1>13. ASSUME NEW tp \in Partitions, FlushPartition(tp)
       PROVE  Committed'
  BY <1>13, SyncedGrows, CommittedKept DEF FlushPartition
<1>14. CASE Stop
  <2>a. \A v \in Workers : requests'[v].pc = "idle"
    BY <1>14, IdleTypes DEF Stop, Down
  <2> QED BY <1>14, <2>a, LogsKept, CommittedKept DEF Stop
<1>15. CASE PowerLoss
  <2>a. outages' # 0
    BY <1>15 DEF PowerLoss, Types
  <2>b. \A v \in Workers : requests'[v].pc = "idle"
    BY <1>15, IdleTypes DEF PowerLoss, Down
  <2> QED BY <2>a, <2>b DEF Committed
<1>16. CASE UNCHANGED vars
  BY <1>16 DEF vars, Committed
<1> QED
  BY <1>1, <1>2, <1>3, <1>4, <1>5, <1>6, <1>7, <1>8, <1>9, <1>10, <1>11, <1>12, <1>13,
     <1>14, <1>15, <1>16 DEF Next

----------------------------------------
(* Theorems *)

LEMMA InvInit == Init => Inv
<1> SUFFICES ASSUME Init PROVE Inv
  OBVIOUS
<1>1. Stored
  BY IdleTypes DEF Init, Stored
<1>2. Committed
  <2>a. \A tp \in Partitions : offset_file[tp].now = None /\ Len(logs[tp].records) = 0
    BY DEF Init, NewFile
  <2>b. None \in OffsetOrNone /\ None <= 0
    BY DEF OffsetOrNone, None
  <2>c. \A w \in Workers : requests[w].pc = "idle"
    BY IdleTypes DEF Init
  <2> QED BY <2>a, <2>b, <2>c DEF Committed
<1> QED BY <1>1, <1>2, TypesInit, FilesInit DEF Inv

\* The files, logs, memory and requests of the broker are related as Inv says in every
\* reachable state.
THEOREM Invariance == Spec => []Inv
<1>1. Inv /\ [Next]_vars => Inv'
  BY TypesStep, FilesStep, StoredStep, CommittedStep DEF Inv
<1> QED BY InvInit, <1>1, PTL DEF Spec

\* A record whose Produce was answered is in its log at the offset that was returned,
\* unless it was answered without a flush and the power failed.
THEOREM AckedStoredCorrect == Spec => []AckedStored
<1>1. Inv => AckedStored
  BY DEF Inv, Stored, Safe, InLog, AckedStored
<1> QED BY <1>1, Invariance, PTL

\* In a running broker the topic table leads wherever topics.meta leads.
LEMMA TableFollowsFile ==
  ASSUME Inv, up, NEW t \in Topics, meta.now[t] # 0
  PROVE  topics[t] = meta.now[t]
<1>1. CASE TopicsUnlocked
  BY <1>1 DEF Inv, Files
<1>2. CASE ~TopicsUnlocked
  <2>a. PICK w \in Workers : requests[w].pc = "persist"
    BY <1>2 DEF TopicsUnlocked
  <2>b. meta.now = [topics EXCEPT ![requests[w].topic] = 0] /\ topics \in Tables
    BY <2>a DEF Inv, Files, Types
  <2> QED BY <2>b DEF Tables
<1> QED BY <1>1, <1>2

\* While the machine keeps its power, a running broker has every topic and serves every
\* record that it acknowledged.
THEOREM AcknowledgedServedCorrect == Spec => []AcknowledgedServed
<1>1. ASSUME Inv, up, outages = 0, NEW c \in created PROVE topics[c[1]] = c[2]
  <2>a. c[1] \in Topics /\ c[2] # 0 /\ meta.now[c[1]] = c[2]
    BY <1>1, BrokerAssumption DEF Inv, Types, Stored
  <2> QED BY <1>1, <2>a, TableFollowsFile
<1>2. ASSUME Inv, up, outages = 0, NEW a \in acked PROVE Fetch(a.partition, a.offset) = {a.record}
  <2>a. /\ InLog(logs[a.partition], a) /\ Listed(a.partition, meta.now)
        /\ a.partition \in Partitions
    BY <1>2 DEF Inv, Types, Stored, Safe, Acks
  <2>b. a.partition[1] \in Topics /\ a.partition[2] \in Nat
    BY <2>a, PartitionTypes
  <2>c. meta.now[a.partition[1]] # 0
    BY <2>a, <2>b DEF Listed
  <2>d. Known(a.partition)
    BY <1>2, <2>a, <2>b, <2>c, TableFollowsFile DEF Known, Listed
  <2> QED BY <2>a, <2>d DEF Fetch, InLog
<1>3. Inv => AcknowledgedServed
  BY <1>1, <1>2 DEF AcknowledgedServed
<1> QED BY <1>3, Invariance, PTL

\* What the running broker believes is what a restart would load, also after failed
\* writes and whatever the power losses left of the files.
THEOREM MemoryPersisted == Spec => []MemoryIsPersisted
<1>1. Inv => MemoryIsPersisted
  BY DEF Inv, Files, MemoryIsPersisted
<1> QED BY <1>1, Invariance, PTL

\* While the machine keeps its power, no committed offset lies beyond the log end.
THEOREM CommitsWithinLog == Spec => []CommittedWithinLog
<1>1. ASSUME Inv, up, outages = 0, NEW tp \in Partitions
      PROVE  FetchCommittedOffset(tp) <= Len(logs[tp].records)
  <2>a. offsets[tp] <= Len(logs[tp].records)
    BY <1>1 DEF Inv, Files, Committed
  <2>b. Len(logs[tp].records) \in Nat
    BY <1>1, LogTypes DEF Inv
  <2>c. None <= Len(logs[tp].records)
    BY <2>b DEF None
  <2> QED BY <2>a, <2>c DEF FetchCommittedOffset
<1>2. Inv => CommittedWithinLog
  BY <1>1 DEF CommittedWithinLog
<1> QED BY <1>2, Invariance, PTL
================================================================================
