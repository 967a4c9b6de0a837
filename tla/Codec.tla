--------------------------------- MODULE Codec ----------------------------------
(***************************************************************************)
(* The wire format: how requests and responses become frames and frames    *)
(* become requests and responses.  Encoders and decoders are separate code *)
(* and separate definitions here; that they fit together is checked.       *)
(*                                                                         *)
(* Lengths, positions and field widths are those of the code, in bytes; a  *)
(* byte has Radix values in place of 256, so that a two-byte field holds   *)
(* every api key, and four- and eight-byte fields wrap within TLC's reach. *)
(* Strings are sequences of bytes.                                         *)
(***************************************************************************)
EXTENDS Integers, Sequences, SequencesExt

CONSTANTS
    Radix,              \* number of values of a byte
    kMaxFrameBytes

\* Radix to the n, for the widths of the protocol's integers.
Power[n \in 0 .. 8] == IF n = 0 THEN 1 ELSE Radix * Power[n - 1]

\* A frame has room for the header and for an error reply of one character.
ASSUME CodecAssumption == /\ Radix \in Nat /\ Radix % 2 = 0 /\ Radix * Radix > 11
                          /\ kMaxFrameBytes \in 23 .. Power[4] - 1

Byte == 0 .. Radix - 1

\* Result<T>
Ok(v) == [ok |-> TRUE, value |-> v]
Err == [ok |-> FALSE, value |-> <<>>]
When(condition, v) == IF condition THEN Ok(v) ELSE Err
Then(result, Rest(_)) == IF result.ok THEN Rest(result.value) ELSE Err

\* The enumerators in the order of their values, from 1 and from 0.
ApiKeys == <<"Produce", "Fetch", "Metadata", "CreateTopic", "CommitOffset",
             "FetchCommittedOffset", "JoinGroup", "SyncGroup", "Heartbeat", "LeaveGroup",
             "Nack">>
ErrorCodes == <<"None", "InvalidRequest", "TopicNotFound", "OffsetOutOfRange", "Internal",
                "UnsupportedVersion", "UnknownMember", "IllegalGeneration">>

kProtocolVersion == 1
kRetryProtocolVersion == 2
SupportedProtocolVersion(v) == v \in {kProtocolVersion, kRetryProtocolVersion}

kFrameHeaderBytes == 4 + 2 + 2 + 8

--------------------------------------------------------------------------------
(* Integers and strings *)

\* static_cast to an unsigned type of that width, most significant byte first.
AppendBigEndian(v, width) ==
    LET unsigned == v % Power[width]
    IN  [i \in 1 .. width |-> (unsigned \div Power[width - i]) % Radix]

\* The unsigned value of bytes.
ReadBigEndian(bytes) ==
    LET value[n \in 0 .. Len(bytes)] == IF n = 0 THEN 0 ELSE value[n - 1] * Radix + bytes[n]
    IN  value[Len(bytes)]

U8(v) == AppendBigEndian(v, 1)
U16(v) == AppendBigEndian(v, 2)
U32(v) == AppendBigEndian(v, 4)
U64(v) == AppendBigEndian(v, 8)

AppendString(s) == U32(Len(s)) \o s

\* The largest value of the signed type of that width.
MaxSigned(width) == Power[width] \div 2 - 1

AppendPartitionId(p) == U32(p)

\* Two's complement.
DecodePartitionId(u) == IF u <= MaxSigned(4) THEN u ELSE u - Power[4]
DecodeOffset(u) == IF u <= MaxSigned(8) THEN u ELSE u - Power[8]

--------------------------------------------------------------------------------
(* The structs of requests and responses.  A body is the struct together with the *)
(* alternative of the variant that it is, its type.                                *)

Signed(width) == -MaxSigned(width) - 1 .. MaxSigned(width)
Unsigned(width) == 0 .. Power[width] - 1
Text == Seq(Byte)

RetryMetadata ==
    [retry_count : Unsigned(4), next_visible_time : Unsigned(8), original_topic : Text,
     failure_reason : Text, original_partition : Signed(4), original_offset : Signed(8)]

OptionalRetry == {r \in SUBSET RetryMetadata : \A m, n \in r : m = n}

\* A record; retry is the set that holds its RetryMetadata, if it has one.
Record(retry) == [timestamp : Unsigned(8), key : Text, value : Text, retry : retry]

RequestBody ==
    [type : {"Produce"}, topic : Text, partition_id : Signed(4), records : Seq(Record({{}}))]
    \cup [type : {"Fetch"}, topic : Text, partition_id : Signed(4), offset : Signed(8),
          max_bytes : Unsigned(4)]
    \cup [type : {"Metadata"}, topic : Text]
    \cup [type : {"CreateTopic"}, topic : Text, partition_count : Unsigned(4)]
    \cup [type : {"CommitOffset"}, group_id : Text, topic : Text, partition_id : Signed(4),
          offset : Signed(8)]
    \cup [type : {"FetchCommittedOffset"}, group_id : Text, topic : Text, partition_id : Signed(4)]
    \cup [type : {"JoinGroup"}, group_id : Text, member_id : Text, topic : Text]
    \cup [type : {"SyncGroup"}, group_id : Text, member_id : Text, generation_id : Signed(4)]
    \cup [type : {"Heartbeat"}, group_id : Text, member_id : Text, generation_id : Signed(4)]
    \cup [type : {"LeaveGroup"}, group_id : Text, member_id : Text]
    \cup [type : {"Nack"}, topic : Text, partition_id : Signed(4), offset : Signed(8),
          reason : Text]

ResponseBody ==
    [type : {"Produce"}, partition_id : Signed(4), base_offset : Signed(8),
          record_count : Unsigned(4)]
    \cup [type : {"Fetch"}, base_offset : Signed(8), high_watermark : Signed(8),
          records : Seq(Record(OptionalRetry))]
    \cup [type : {"Metadata"}, topics : Seq([topic : Text, partition_count : Unsigned(4)])]
    \cup [type : {"CreateTopic"}, topic : Text, partition_count : Unsigned(4)]
    \cup [type : {"CommitOffset"}, group_id : Text, topic : Text, partition_id : Signed(4),
          offset : Signed(8)]
    \cup [type : {"FetchCommittedOffset"}, group_id : Text, topic : Text, partition_id : Signed(4),
          committed : BOOLEAN, offset : Signed(8)]
    \cup [type : {"JoinGroup"}, group_id : Text, member_id : Text, generation_id : Signed(4),
          leader_id : Text]
    \cup [type : {"SyncGroup"}, group_id : Text, member_id : Text, generation_id : Signed(4),
          assignment : [topic : Text, partition_ids : Seq(Signed(4))]]
    \cup [type : {"Heartbeat"}, group_id : Text, member_id : Text, generation_id : Signed(4)]
    \cup [type : {"LeaveGroup"}, group_id : Text, member_id : Text, generation_id : Signed(4)]
    \cup [type : {"Nack"}, topic : Text, partition_id : Signed(4), offset : Signed(8),
          retry : RetryMetadata, dead_letter : BOOLEAN]

Request == [api_key : Range(ApiKeys), version : Unsigned(2), request_id : Unsigned(8),
            body : RequestBody]
Response == [api_key : Range(ApiKeys), version : Unsigned(2), request_id : Unsigned(8),
             error_code : Range(ErrorCodes), message : Text,
             body : ResponseBody \cup [type : Range(ApiKeys)]]

--------------------------------------------------------------------------------
(* BodyReader.  `rest`: the bytes from offset_ on; `val`: the fields read so far. *)

Reader(rest, val) == [rest |-> rest, ok |-> TRUE, val |-> val]
BodyReader(bytes) == Reader(bytes, <<>>)

\* Field `name` of a struct is set to v.
Put(val, name, v) == [n \in DOMAIN val \cup {name} |-> IF n = name THEN v ELSE val[n]]

Fails(r) == [r EXCEPT !.ok = FALSE]
\* r with another value, unless it has failed.
Having(r, val) == IF r.ok THEN Reader(r.rest, val) ELSE r

\* n bytes have been read and gave field `name` the value v.
Advance(r, n, name, v) ==
    Reader(SubSeq(r.rest, n + 1, Len(r.rest)), Put(r.val, name, v))

\* One field; its kind is its type and the conversion applied to it.
Field(name, kind) == [name |-> name, kind |-> kind]
Width == [u8 |-> 1, bool8 |-> 1, u16 |-> 2, u32 |-> 4, bool32 |-> 4, partition |-> 4,
          generation |-> 4, u64 |-> 8, offset |-> 8, string |-> 4]

\* u, of w bytes, as a value of the field.
Converted(r, f, w, u) ==
    CASE f.kind = "string" ->
            IF u > Len(r.rest) - w THEN Fails(r)
            ELSE Advance(r, w + u, f.name, SubSeq(r.rest, w + 1, w + u))
      [] f.kind = "partition" -> Advance(r, w, f.name, DecodePartitionId(u))
      [] f.kind = "offset" -> Advance(r, w, f.name, DecodeOffset(u))
      [] f.kind = "generation" ->
            IF u > MaxSigned(4) THEN Fails(r) ELSE Advance(r, w, f.name, u)
      [] f.kind \in {"bool8", "bool32"} ->
            IF u > 1 THEN Fails(r) ELSE Advance(r, w, f.name, u = 1)
      [] OTHER -> Advance(r, w, f.name, u)

ReadField(r, f) ==
    LET w == Width[f.kind]
    IN  IF ~r.ok \/ Len(r.rest) < w THEN Fails(r)
        ELSE Converted(r, f, w, ReadBigEndian(SubSeq(r.rest, 1, w)))

\* Field by field, from left to right.
r ** f == ReadField(r, f)

\* The condition under which a decoder accepts what it has read.
Require(r, Condition(_)) == IF r.ok /\ ~Condition(r) THEN Fails(r) ELSE r

consumed(r) == r.rest = <<>>

\* A field the decoder sets by itself, and fields that are read and not kept.
With(r, name, v) == Having(r, Put(r.val, name, v))
Without(r, names) == Having(r, [n \in DOMAIN r.val \ names |-> r.val[n]])

Str(name) == Field(name, "string")
Partition == Field("partition_id", "partition")
OffsetField(name) == Field(name, "offset")
Generation == Field("generation_id", "generation")

--------------------------------------------------------------------------------
(* Parts of bodies.  A record is [timestamp, key, value, retry], where retry is *)
(* the set that holds its RetryMetadata, if it has one.                         *)

AppendProtocolRecord(rec) ==
    U64(rec.timestamp) \o AppendString(rec.key) \o AppendString(rec.value)

DecodeProtocolRecord(r) ==
    With(r ** Field("timestamp", "u64") ** Str("key") ** Str("value"), "retry", {})

\* What both sides demand of RetryMetadata.
RetryMetadataValid(m) ==
    /\ m.retry_count # 0 /\ m.original_topic # <<>>
    /\ m.original_partition >= 0 /\ m.original_offset >= 0

AppendRetryMetadata(m) ==
    U32(m.retry_count) \o U64(m.next_visible_time) \o AppendString(m.original_topic)
    \o AppendString(m.failure_reason) \o AppendPartitionId(m.original_partition)
    \o U64(m.original_offset)

DecodeRetryMetadata(r) ==
    Require(r ** Field("retry_count", "u32") ** Field("next_visible_time", "u64")
              ** Str("original_topic") ** Str("failure_reason")
              ** Field("original_partition", "partition") ** OffsetField("original_offset"),
            LAMBDA m : RetryMetadataValid(m.val))

\* A nested struct, read by One, becomes the field `name`.
ReadStruct(r, name, One(_)) ==
    LET one == One(Reader(r.rest, <<>>))
    IN  IF r.ok THEN Having(one, Put(r.val, name, one.val)) ELSE r

\* The RetryMetadata of a record that has one.
DecodeOptionalRetry(r) ==
    LET read == ReadStruct(r, "retry", DecodeRetryMetadata)
    IN  Without(IF r.ok /\ r.val["present"] THEN With(read, "retry", {read.val["retry"]})
                ELSE With(r, "retry", {}),
                {"present"})

\* A record of a version 2 Fetch response.
DecodeFetchedRecord(r) ==
    DecodeOptionalRetry(Without(DecodeProtocolRecord(r), {"retry"}) ** Field("present", "bool8"))

\* A topic of the metadata, and a partition of an assignment.
DecodeTopicMetadata(r) == r ** Str("topic") ** Field("partition_count", "u32")
DecodeAssignedPartition(r) ==
    LET id == r ** Partition IN Require(Having(id, id.val["partition_id"]), LAMBDA p : p.val >= 0)

\* One item of a list, by what it is.
ReadItem(item, r) ==
    CASE item = "record" -> DecodeProtocolRecord(r)
      [] item = "fetched" -> DecodeFetchedRecord(r)
      [] item = "topic" -> DecodeTopicMetadata(r)
      [] item = "partition" -> DecodeAssignedPartition(r)

\* n items become the list `name`; a failure ends the loop.  An item takes four bytes
\* or more, so more items than that cannot be read.
ReadList(r, name, n, item) ==
    LET last == IF n > Len(r.rest) \div 4 THEN Len(r.rest) \div 4 + 1 ELSE n
        after[i \in 0 .. last] ==
            IF i = 0 THEN Reader(r.rest, <<>>)
            ELSE LET before == after[i - 1]
                     one == ReadItem(item, Reader(before.rest, <<>>))
                 IN  IF before.ok THEN Having(one, Append(before.val, one.val)) ELSE before
        list == after[last]
    IN  IF r.ok THEN Having(list, Put(r.val, name, list.val)) ELSE r

\* As many items as the field "count" says.
ReadCounted(r, name, item) == Without(ReadList(r, name, r.val["count"], item), {"count"})

\* The bytes of a list of items.
Each(items, Bytes(_)) == FlattenSeq([i \in DOMAIN items |-> Bytes(items[i])])

--------------------------------------------------------------------------------
(* Request bodies *)

\* Nothing may follow what r has read.
Whole(r) == Require(r, consumed)

EncodeProduceBody(q) ==
    When(q.records # <<>>,
         AppendString(q.topic) \o AppendPartitionId(q.partition_id) \o U32(Len(q.records))
         \o Each(q.records, AppendProtocolRecord))

DecodeProduceBody(b) ==
    LET head == Require(BodyReader(b) ** Str("topic") ** Partition ** Field("count", "u32"),
                        LAMBDA r : r.val["count"] # 0)
    IN  Require(ReadCounted(head, "records", "record"), consumed)

EncodeFetchBody(q) ==
    Ok(AppendString(q.topic) \o AppendPartitionId(q.partition_id) \o U64(q.offset)
       \o U32(q.max_bytes))

DecodeFetchBody(b) ==
    Whole(BodyReader(b) ** Str("topic") ** Partition ** OffsetField("offset")
                        ** Field("max_bytes", "u32"))

EncodeMetadataBody(q) == Ok(AppendString(q.topic))

DecodeMetadataBody(b) ==
    Whole(BodyReader(b) ** Str("topic"))

EncodeCreateTopicBody(q) == Ok(AppendString(q.topic) \o U32(q.partition_count))

DecodeCreateTopicBody(b) ==
    Whole(BodyReader(b) ** Str("topic") ** Field("partition_count", "u32"))

EncodeCommitOffsetBody(q) ==
    When(q.offset >= 0, AppendString(q.group_id) \o AppendString(q.topic)
                        \o AppendPartitionId(q.partition_id) \o U64(q.offset))

\* Does not mirror the encoder's check: an offset with the top bit set is accepted.
DecodeCommitOffsetBody(b) ==
    Whole(BodyReader(b) ** Str("group_id") ** Str("topic") ** Partition ** OffsetField("offset"))

EncodeFetchCommittedOffsetBody(q) ==
    Ok(AppendString(q.group_id) \o AppendString(q.topic) \o AppendPartitionId(q.partition_id))

DecodeFetchCommittedOffsetBody(b) ==
    Whole(BodyReader(b) ** Str("group_id") ** Str("topic") ** Partition)

EncodeJoinGroupBody(q) ==
    Ok(AppendString(q.group_id) \o AppendString(q.member_id) \o AppendString(q.topic))

DecodeJoinGroupBody(b) ==
    Whole(BodyReader(b) ** Str("group_id") ** Str("member_id") ** Str("topic"))

EncodeSyncGroupBody(q) ==
    When(q.generation_id >= 0,
         AppendString(q.group_id) \o AppendString(q.member_id) \o U32(q.generation_id))

DecodeSyncGroupBody(b) ==
    Whole(BodyReader(b) ** Str("group_id") ** Str("member_id") ** Generation)

EncodeHeartbeatBody(q) ==
    When(q.generation_id >= 0,
         AppendString(q.group_id) \o AppendString(q.member_id) \o U32(q.generation_id))

DecodeHeartbeatBody(b) ==
    Whole(BodyReader(b) ** Str("group_id") ** Str("member_id") ** Generation)

EncodeLeaveGroupBody(q) == Ok(AppendString(q.group_id) \o AppendString(q.member_id))

\* Faulty variant: bytes after the member are ignored.
DecodeLeaveGroupBodyTrailing(b) == BodyReader(b) ** Str("group_id") ** Str("member_id")

DecodeLeaveGroupBody(b) ==
    Whole(BodyReader(b) ** Str("group_id") ** Str("member_id"))

NackValid(q) == q.topic # <<>> /\ q.partition_id >= 0 /\ q.offset >= 0

EncodeNackBody(q) ==
    When(NackValid(q), AppendString(q.topic) \o AppendPartitionId(q.partition_id)
                       \o U64(q.offset) \o AppendString(q.reason))

DecodeNackBody(b) ==
    Require(Whole(BodyReader(b) ** Str("topic") ** Partition ** OffsetField("offset") ** Str("reason")),
            LAMBDA r : NackValid(r.val))

\* The body must be the alternative that belongs to the api key.
EncodeRequestBody(q) ==
    IF q.body.type # q.api_key THEN Err
    ELSE CASE q.api_key = "Produce" -> EncodeProduceBody(q.body)
           [] q.api_key = "Fetch" -> EncodeFetchBody(q.body)
           [] q.api_key = "Metadata" -> EncodeMetadataBody(q.body)
           [] q.api_key = "CreateTopic" -> EncodeCreateTopicBody(q.body)
           [] q.api_key = "CommitOffset" -> EncodeCommitOffsetBody(q.body)
           [] q.api_key = "FetchCommittedOffset" -> EncodeFetchCommittedOffsetBody(q.body)
           [] q.api_key = "JoinGroup" -> EncodeJoinGroupBody(q.body)
           [] q.api_key = "SyncGroup" -> EncodeSyncGroupBody(q.body)
           [] q.api_key = "Heartbeat" -> EncodeHeartbeatBody(q.body)
           [] q.api_key = "LeaveGroup" -> EncodeLeaveGroupBody(q.body)
           [] q.api_key = "Nack" -> EncodeNackBody(q.body)

\* The alternative of the body, read by r.
CompleteBody(api_key, r) == When(r.ok, With(r, "type", api_key).val)

DecodeRequestBody(api_key, b) ==
    CompleteBody(api_key,
             CASE api_key = "Produce" -> DecodeProduceBody(b)
               [] api_key = "Fetch" -> DecodeFetchBody(b)
               [] api_key = "Metadata" -> DecodeMetadataBody(b)
               [] api_key = "CreateTopic" -> DecodeCreateTopicBody(b)
               [] api_key = "CommitOffset" -> DecodeCommitOffsetBody(b)
               [] api_key = "FetchCommittedOffset" -> DecodeFetchCommittedOffsetBody(b)
               [] api_key = "JoinGroup" -> DecodeJoinGroupBody(b)
               [] api_key = "SyncGroup" -> DecodeSyncGroupBody(b)
               [] api_key = "Heartbeat" -> DecodeHeartbeatBody(b)
               [] api_key = "LeaveGroup" -> DecodeLeaveGroupBody(b)
               [] api_key = "Nack" -> DecodeNackBody(b))

--------------------------------------------------------------------------------
(* Response bodies *)

EncodeProduceResponseBody(p) ==
    When(p.partition_id >= 0 /\ p.base_offset >= 0,
         AppendPartitionId(p.partition_id) \o U64(p.base_offset) \o U32(p.record_count))

DecodeProduceResponseBody(r) ==
    r ** Partition ** OffsetField("base_offset") ** Field("record_count", "u32")

\* A record of a Fetch response; only version 2 says whether it is a retry copy.
FetchedRecord(rec, version) ==
    AppendProtocolRecord(rec)
    \o IF version # kRetryProtocolVersion THEN <<>>
       ELSE IF rec.retry = {} THEN U8(0)
       ELSE U8(1) \o AppendRetryMetadata(CHOOSE m \in rec.retry : TRUE)

EncodeFetchResponseBody(p, version) ==
    When(/\ p.base_offset >= 0 /\ p.high_watermark >= 0
         /\ version = kRetryProtocolVersion =>
               \A i \in DOMAIN p.records : \A m \in p.records[i].retry : RetryMetadataValid(m),
         U64(p.base_offset) \o U64(p.high_watermark) \o U32(Len(p.records))
         \o Each(p.records, LAMBDA rec : FetchedRecord(rec, version)))

\* The count is compared with the bytes that are left: a record takes at least 16.
DecodeFetchResponseBody(r, version) ==
    LET head == r ** OffsetField("base_offset") ** OffsetField("high_watermark")
                  ** Field("count", "u32")
    IN  ReadCounted(Require(head, LAMBDA h : h.val["count"] <= Len(h.rest) \div 16),
                    "records", IF version = kRetryProtocolVersion THEN "fetched" ELSE "record")

EncodeMetadataResponseBody(p) ==
    Ok(U32(Len(p.topics))
       \o Each(p.topics, LAMBDA t : AppendString(t.topic) \o U32(t.partition_count)))

DecodeMetadataResponseBody(r) ==
    ReadCounted(r ** Field("count", "u32"), "topics", "topic")

EncodeCreateTopicResponseBody(p) == Ok(AppendString(p.topic) \o U32(p.partition_count))

DecodeCreateTopicResponseBody(r) ==
    r ** Str("topic") ** Field("partition_count", "u32")

EncodeCommitOffsetResponseBody(p) ==
    When(p.partition_id >= 0 /\ p.offset >= 0,
         AppendString(p.group_id) \o AppendString(p.topic)
         \o AppendPartitionId(p.partition_id) \o U64(p.offset))

DecodeCommitOffsetResponseBody(r) ==
    r ** Str("group_id") ** Str("topic") ** Partition ** OffsetField("offset")

EncodeFetchCommittedOffsetResponseBody(p) ==
    When(p.partition_id >= 0 /\ p.offset >= 0,
         AppendString(p.group_id) \o AppendString(p.topic) \o AppendPartitionId(p.partition_id)
         \o U32(IF p.committed THEN 1 ELSE 0) \o U64(p.offset))

DecodeFetchCommittedOffsetResponseBody(r) ==
    r ** Str("group_id") ** Str("topic") ** Partition ** Field("committed", "bool32")
      ** OffsetField("offset")

\* The ids of an assignment must not be negative, on either side.
AppendPartitionAssignment(a) ==
    AppendString(a.topic) \o U32(Len(a.partition_ids)) \o Each(a.partition_ids, AppendPartitionId)

DecodePartitionAssignment(r) ==
    ReadCounted(r ** Str("topic") ** Field("count", "u32"), "partition_ids", "partition")

EncodeJoinGroupResponseBody(p) ==
    When(p.generation_id >= 0,
         AppendString(p.group_id) \o AppendString(p.member_id) \o U32(p.generation_id)
         \o AppendString(p.leader_id))

DecodeJoinGroupResponseBody(r) ==
    r ** Str("group_id") ** Str("member_id") ** Generation ** Str("leader_id")

EncodeSyncGroupResponseBody(p) ==
    When(/\ p.generation_id >= 0
         /\ \A i \in DOMAIN p.assignment.partition_ids : p.assignment.partition_ids[i] >= 0,
         AppendString(p.group_id) \o AppendString(p.member_id) \o U32(p.generation_id)
         \o AppendPartitionAssignment(p.assignment))

DecodeSyncGroupResponseBody(r) ==
    ReadStruct(r ** Str("group_id") ** Str("member_id") ** Generation,
               "assignment", DecodePartitionAssignment)

EncodeHeartbeatResponseBody(p) ==
    When(p.generation_id >= 0,
         AppendString(p.group_id) \o AppendString(p.member_id) \o U32(p.generation_id))

DecodeHeartbeatResponseBody(r) ==
    r ** Str("group_id") ** Str("member_id") ** Generation

EncodeLeaveGroupResponseBody(p) ==
    When(p.generation_id >= 0,
         AppendString(p.group_id) \o AppendString(p.member_id) \o U32(p.generation_id))

DecodeLeaveGroupResponseBody(r) ==
    r ** Str("group_id") ** Str("member_id") ** Generation

\* The location is a Nack request with an empty reason.
EncodeNackResponseBody(p) ==
    LET location == EncodeNackBody([topic |-> p.topic, partition_id |-> p.partition_id,
                                    offset |-> p.offset, reason |-> <<>>])
    IN  Then(location, LAMBDA bytes :
                When(RetryMetadataValid(p.retry),
                     bytes \o AppendRetryMetadata(p.retry) \o U8(IF p.dead_letter THEN 1 ELSE 0)))

DecodeNackResponseBody(r) ==
    LET location == r ** Str("topic") ** Partition ** OffsetField("offset") ** Str("reason")
        whole == ReadStruct(location, "retry", DecodeRetryMetadata)
                 ** Field("dead_letter", "bool8")
    IN  Without(Require(whole, LAMBDA n : NackValid(n.val) /\ n.val.reason = <<>>), {"reason"})

EncodeResponseBody(p) ==
    IF p.body.type # p.api_key THEN Err
    ELSE CASE p.api_key = "Produce" -> EncodeProduceResponseBody(p.body)
           [] p.api_key = "Fetch" -> EncodeFetchResponseBody(p.body, p.version)
           [] p.api_key = "Metadata" -> EncodeMetadataResponseBody(p.body)
           [] p.api_key = "CreateTopic" -> EncodeCreateTopicResponseBody(p.body)
           [] p.api_key = "CommitOffset" -> EncodeCommitOffsetResponseBody(p.body)
           [] p.api_key = "FetchCommittedOffset" -> EncodeFetchCommittedOffsetResponseBody(p.body)
           [] p.api_key = "JoinGroup" -> EncodeJoinGroupResponseBody(p.body)
           [] p.api_key = "SyncGroup" -> EncodeSyncGroupResponseBody(p.body)
           [] p.api_key = "Heartbeat" -> EncodeHeartbeatResponseBody(p.body)
           [] p.api_key = "LeaveGroup" -> EncodeLeaveGroupResponseBody(p.body)
           [] p.api_key = "Nack" -> EncodeNackResponseBody(p.body)

DecodeResponseBody(api_key, r, version) ==
    LET p == CASE api_key = "Produce" -> DecodeProduceResponseBody(r)
               [] api_key = "Fetch" -> DecodeFetchResponseBody(r, version)
               [] api_key = "Metadata" -> DecodeMetadataResponseBody(r)
               [] api_key = "CreateTopic" -> DecodeCreateTopicResponseBody(r)
               [] api_key = "CommitOffset" -> DecodeCommitOffsetResponseBody(r)
               [] api_key = "FetchCommittedOffset" -> DecodeFetchCommittedOffsetResponseBody(r)
               [] api_key = "JoinGroup" -> DecodeJoinGroupResponseBody(r)
               [] api_key = "SyncGroup" -> DecodeSyncGroupResponseBody(r)
               [] api_key = "Heartbeat" -> DecodeHeartbeatResponseBody(r)
               [] api_key = "LeaveGroup" -> DecodeLeaveGroupResponseBody(r)
               [] api_key = "Nack" -> DecodeNackResponseBody(r)
    IN  With(p, "type", api_key)

\* The body of an error response: the alternative alone, without contents.
EmptyResponseBodyFor(api_key) == [type |-> api_key]

--------------------------------------------------------------------------------
(* Frames *)

\* The header in front of a body; api_key is the number on the wire.
Frame(api_key, version, request_id, body) ==
    U32(kFrameHeaderBytes + Len(body)) \o U16(api_key) \o U16(version) \o U64(request_id) \o body

ApiKeyValue(name) == CHOOSE k \in DOMAIN ApiKeys : ApiKeys[k] = name
ErrorCodeValue(name) == (CHOOSE k \in DOMAIN ErrorCodes : ErrorCodes[k] = name) - 1

\* AppendFrameHeader: the body fits in a frame.
AppendFrameHeader(api_key, version, request_id, body) ==
    When(Len(body) <= kMaxFrameBytes - kFrameHeaderBytes,
         Frame(ApiKeyValue(api_key), version, request_id, body))

EncodeRequest(q) ==
    IF ~SupportedProtocolVersion(q.version) THEN Err
    ELSE Then(EncodeRequestBody(q), LAMBDA body :
                 AppendFrameHeader(q.api_key, q.version, q.request_id, body))

\* The error envelope every response body begins with.
ErrorEnvelope(code, message) == U16(ErrorCodeValue(code)) \o AppendString(message)

EncodeResponse(p) ==
    IF ~SupportedProtocolVersion(p.version) THEN Err
    ELSE Then(IF p.error_code = "None" THEN EncodeResponseBody(p) ELSE Ok(<<>>), LAMBDA body :
                 AppendFrameHeader(p.api_key, p.version, p.request_id,
                                   ErrorEnvelope(p.error_code, p.message) \o body))

EncodeErrorResponse(api_key, version, request_id, code, message) ==
    IF ~SupportedProtocolVersion(version) THEN Err
    ELSE AppendFrameHeader(api_key, version, request_id, ErrorEnvelope(code, message))

\* The length field of a frame, its other header fields and its body.
PeekFrameLength(bytes) == ReadBigEndian(SubSeq(bytes, 1, 4))
ApiKeyOf(f) == ReadBigEndian(SubSeq(f, 5, 6))
VersionOf(f) == ReadBigEndian(SubSeq(f, 7, 8))
RequestIdOf(f) == ReadBigEndian(SubSeq(f, 9, 16))
BodyOf(f) == SubSeq(f, kFrameHeaderBytes + 1, Len(f))

ValidateFrame(f) ==
    /\ Len(f) >= kFrameHeaderBytes
    /\ PeekFrameLength(f) \in kFrameHeaderBytes .. kMaxFrameBytes
    /\ PeekFrameLength(f) = Len(f)

ParseApiKey(v) == v \in DOMAIN ApiKeys
ParseProtocolErrorCode(v) == v + 1 \in DOMAIN ErrorCodes

\* The header checks DecodeRequest and DecodeResponse begin with.
HeaderOk(f) ==
    ValidateFrame(f) /\ ParseApiKey(ApiKeyOf(f)) /\ SupportedProtocolVersion(VersionOf(f))

DecodeRequest(f) ==
    LET api_key == ApiKeys[ApiKeyOf(f)]
    IN  IF ~HeaderOk(f) THEN Err
        ELSE Then(DecodeRequestBody(api_key, BodyOf(f)), LAMBDA body :
                     Ok([api_key |-> api_key, version |-> VersionOf(f),
                         request_id |-> RequestIdOf(f), body |-> body]))

\* The rest of a response, after its error envelope.
DecodeResponseAfter(f, api_key, envelope) ==
    LET code == ErrorCodes[envelope.val["code"] + 1]
        contents == IF code = "None"
                    THEN DecodeResponseBody(api_key, BodyReader(envelope.rest), VersionOf(f))
                    ELSE Having(envelope, EmptyResponseBodyFor(api_key))
        response(body) ==
            When(body.ok, [api_key |-> api_key, version |-> VersionOf(f),
                           request_id |-> RequestIdOf(f), error_code |-> code,
                           message |-> envelope.val["message"], body |-> body.val])
    IN  IF ~envelope.ok \/ ~ParseProtocolErrorCode(envelope.val["code"]) THEN Err
        ELSE response(Require(contents, consumed))

DecodeResponse(f) ==
    IF ~HeaderOk(f) THEN Err
    ELSE DecodeResponseAfter(f, ApiKeys[ApiKeyOf(f)],
                             BodyReader(BodyOf(f)) ** Field("code", "u16") ** Str("message"))

--------------------------------------------------------------------------------
(* FrameDecoder *)

\* One turn of the loop of Push, d = [ok, buffer, requests], `len` the length that
\* the buffer begins with.
PushTurn(d, len, max_frame_bytes) ==
    LET taken(request) ==
            IF ~request.ok THEN Fails(d)
            ELSE [ok |-> TRUE, buffer |-> SubSeq(d.buffer, len + 1, Len(d.buffer)),
                  requests |-> Append(d.requests, request.value)]
    IN  IF ~d.ok \/ Len(d.buffer) < 4 THEN d
        ELSE IF len < kFrameHeaderBytes \/ len > max_frame_bytes THEN Fails(d)
        ELSE IF Len(d.buffer) < len THEN d
        ELSE taken(DecodeRequest(SubSeq(d.buffer, 1, len)))

\* Push: the requests decoded from the buffer, what is left of it, and whether all
\* went well.  An error loses the requests decoded before it in the same call.
Push(buffer, max_frame_bytes) ==
    LET turns == Len(buffer) \div kFrameHeaderBytes + 1
        after[i \in 0 .. turns] ==
            IF i = 0 THEN [ok |-> TRUE, buffer |-> buffer, requests |-> <<>>]
            ELSE LET d == after[i - 1] IN PushTurn(d, PeekFrameLength(d.buffer), max_frame_bytes)
    IN  after[turns]
================================================================================
