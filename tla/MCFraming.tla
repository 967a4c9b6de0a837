------------------------------- MODULE MCFraming --------------------------------
(***************************************************************************)
(* Framing for TLC.  Single exchanges cover every request and response     *)
(* body with its boundary values; pipelined ones mix understood, refused   *)
(* and foreign frames.                                                     *)
(***************************************************************************)
EXTENDS Framing, TLC

Names == {<<>>, <<3>>}
Long == [i \in 1 .. 110 |-> 1]      \* a body with it exceeds kMaxFrameBytes
Ids == {-MaxSigned(4) - 1, MaxSigned(4)}
Offsets == {-1, 0, MaxSigned(8)}
Generations == {-1, MaxSigned(4)}

PlainRecord == [timestamp |-> Power[8] - 1, key |-> <<>>, value |-> <<>>, retry |-> {}]
KeyedRecord == [timestamp |-> 0, key |-> <<1, 2>>, value |-> <<3>>, retry |-> {}]
Metadata(count, topic, offset) ==
    [retry_count |-> count, next_visible_time |-> 5, original_topic |-> topic,
     failure_reason |-> <<2>>, original_partition |-> 0, original_offset |-> offset]
RetryRecord(m) == [PlainRecord EXCEPT !.retry = {m}]
GoodRetry == RetryRecord(Metadata(1, <<1>>, MaxSigned(8)))

Body(api, fields) == ("type" :> api) @@ fields
Bodies(api, sets) == {Body(api, f) : f \in sets}

RequestBodies ==
    Bodies("Produce", [topic : Names \cup {Long}, partition_id : Ids,
                       records : {<<>>, <<PlainRecord>>, <<KeyedRecord, PlainRecord>>}])
    \cup Bodies("Fetch", [topic : Names, partition_id : Ids, offset : Offsets,
                          max_bytes : {0, Power[4] - 1}])
    \cup Bodies("Metadata", [topic : Names \cup {Long}])
    \cup Bodies("CreateTopic", [topic : Names, partition_count : {0, Power[4] - 1}])
    \cup Bodies("CommitOffset", [group_id : Names, topic : Names, partition_id : {0},
                                 offset : Offsets])
    \cup Bodies("FetchCommittedOffset", [group_id : Names, topic : Names, partition_id : Ids])
    \cup Bodies("JoinGroup", [group_id : Names, member_id : Names, topic : {<<1, 0>>}])
    \cup Bodies("SyncGroup", [group_id : Names, member_id : {<<1>>},
                              generation_id : Generations])
    \cup Bodies("Heartbeat", [group_id : Names, member_id : {<<1>>},
                              generation_id : Generations])
    \cup Bodies("LeaveGroup", [group_id : Names, member_id : Names])
    \cup Bodies("Nack", [topic : Names, partition_id : Ids, offset : Offsets,
                         reason : {<<>>, <<2>>}])

ResponseBodies ==
    Bodies("Produce", [partition_id : Ids, base_offset : Offsets, record_count : {1}])
    \cup Bodies("Fetch", [base_offset : {0}, high_watermark : Offsets,
                          records : {<<>>, <<PlainRecord>>, <<GoodRetry>>,
                                     <<RetryRecord(Metadata(0, <<1>>, 0))>>,
                                     <<RetryRecord(Metadata(1, <<>>, 0))>>}])
    \cup Bodies("Fetch", [base_offset : {MaxSigned(8)}, high_watermark : {MaxSigned(8)},
                          records : {<<PlainRecord, KeyedRecord>>, <<GoodRetry, GoodRetry>>}])
    \cup Bodies("Metadata", [topics : {<<>>} \cup
                                {<<[topic |-> n, partition_count |-> 2]>> : n \in Names}])
    \cup Bodies("CreateTopic", [topic : Names, partition_count : {Power[4] - 1}])
    \cup Bodies("CommitOffset", [group_id : Names, topic : {<<1>>}, partition_id : Ids,
                                 offset : Offsets])
    \cup Bodies("FetchCommittedOffset", [group_id : Names, topic : {<<1>>}, partition_id : {0},
                                         committed : BOOLEAN, offset : Offsets])
    \cup Bodies("JoinGroup", [group_id : {<<1>>}, member_id : Names,
                              generation_id : Generations, leader_id : Names])
    \cup Bodies("SyncGroup", [group_id : {<<1>>}, member_id : {<<2>>},
                              generation_id : Generations,
                              assignment : [topic : Names,
                                            partition_ids : {<<>>, <<0, MaxSigned(4)>>, <<-1>>}]])
    \cup Bodies("Heartbeat", [group_id : Names, member_id : Names,
                              generation_id : Generations])
    \cup Bodies("LeaveGroup", [group_id : Names, member_id : Names,
                               generation_id : Generations])
    \cup Bodies("Nack", [topic : Names, partition_id : {0}, offset : Offsets,
                         retry : {Metadata(1, <<1>>, 0), Metadata(0, <<1>>, 0)},
                         dead_letter : BOOLEAN])

MakeRequest(version, id, body) ==
    [api_key |-> body.type, version |-> version, request_id |-> id, body |-> body]
MakeResponse(q, code, body) ==
    [api_key |-> q.api_key, version |-> q.version, request_id |-> q.request_id,
     error_code |-> code, message |-> IF code = "None" THEN <<>> ELSE <<3>>, body |-> body]
MakeExchange(q, p) == [request |-> q, response |-> p, foreign |-> <<>>]

Failure(q) == MakeResponse(q, "TopicNotFound", EmptyResponseBodyFor(q.api_key))
\* A request of each kind that can be sent.
Plain(api) == CHOOSE b \in RequestBodies : b.type = api /\ EncodeRequest(MakeRequest(1, 0, b)).ok

\* Every request, answered with an error.
Asked == {LET q == MakeRequest(v, Power[8] - v, b) IN <<MakeExchange(q, Failure(q))>> :
             b \in RequestBodies, v \in {1, 2}}
\* Every response.
Answered == {LET q == MakeRequest(v, 1, Plain(b.type)) IN <<MakeExchange(q, MakeResponse(q, "None", b))>> :
                b \in ResponseBodies, v \in {1, 2}}
\* A version the codec does not know, and a body of another request.
Mistaken == {<<MakeExchange(q, Failure(q))>> :
                q \in {MakeRequest(3, 1, Plain("Fetch")),
                       [MakeRequest(1, 1, Plain("Fetch")) EXCEPT !.api_key = "Metadata"]}}

\* Exchange i of a pipelined script: understood, refused by the encoder, or the
\* frame of a newer client: another api key, version, or body.
Kinds == {"ok", "failure", "refused", "new_api", "new_version", "new_body"}
Pipelined(kind, i) ==
    LET body == IF kind = "refused"
                THEN Body("Heartbeat", [group_id |-> <<>>, member_id |-> <<>>,
                                        generation_id |-> -1])
                ELSE Body("Metadata", [topic |-> <<i>>])
        q == MakeRequest(1, i, body)
        answer == Body("Metadata", [topics |-> <<[topic |-> <<i>>, partition_count |-> i]>>])
    IN  [request |-> q,
         response |-> IF kind = "ok" THEN MakeResponse(q, "None", answer) ELSE Failure(q),
         foreign |-> CASE kind = "new_api" -> Frame(12, 1, i, AppendString(<<i>>))
                       [] kind = "new_version" -> Frame(3, 3, i, AppendString(<<i>>))
                       [] kind = "new_body" -> Frame(3, 1, i, AppendString(<<i>>) \o <<0>>)
                       [] OTHER -> <<>>]
Pipelines(n) == {[i \in 1 .. n |-> Pipelined(kinds[i], i)] : kinds \in [1 .. n -> Kinds]}

MCScripts == Asked \cup Answered \cup Mistaken \cup Pipelines(2) \cup Pipelines(3)
================================================================================
