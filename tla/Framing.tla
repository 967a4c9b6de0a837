-------------------------------- MODULE Framing ---------------------------------
(***************************************************************************)
(* One connection at the level of bytes: a client that sends requests and  *)
(* reads responses, the two byte streams of the socket, and TcpConnection  *)
(* with its FrameDecoder, its queue of decoded requests and its output     *)
(* Buffer.  Reads and writes may stop after any number of bytes, so frames *)
(* are split and joined in every way; a frame the server does not          *)
(* understand (of a newer client) may stand between others.                *)
(*                                                                         *)
(* A behaviour plays one script: the requests the client sends and what    *)
(* BrokerService answers.  ClientConnection waits for each answer before   *)
(* it sends the next request; the protocol allows to send on, and so does  *)
(* the client here.  Who runs a request, and when, is the subject of       *)
(* Server; here the service answers the request a worker holds.            *)
(***************************************************************************)
EXTENDS Codec

CONSTANTS
    Scripts,     \* sequences of exchanges, see below
    ReadSizes,   \* bounds on the bytes of one read, besides all there are
    WriteSizes   \* the same for one write

\* An exchange is [request, response, foreign]: what the client asks, what the
\* service answers, and the bytes to send instead when they are not this codec's.
Exchange == [request : Request, response : Response, foreign : Seq(Byte)]
IsForeign(x) == x.foreign # <<>>

\* Foreign bytes are a whole frame that DecodeRequest refuses.
Refused(f) ==
    /\ Len(f) \in kFrameHeaderBytes .. kMaxFrameBytes /\ PeekFrameLength(f) = Len(f)
    /\ ~DecodeRequest(f).ok

\* The service answers the request it was asked; NextRequestId gives no two requests
\* the same id, and none the id of a reply to a frame that does not decode.
ASSUME ScriptsAssumption ==
    /\ Scripts \subseteq Seq(Exchange)
    /\ \A s \in Scripts : \A i, j \in DOMAIN s :
          /\ s[i].response.request_id = s[i].request.request_id
          /\ s[i].response.api_key = s[i].request.api_key
          /\ s[i].response.error_code = "None" => s[i].response.body \in ResponseBody
          /\ s[i].request.request_id # 0
          /\ s[i].request = s[j].request => i = j
          /\ IsForeign(s[i]) => Refused(s[i].foreign)
    /\ ReadSizes \cup WriteSizes \subseteq Nat

VARIABLES
    script,      \* the exchanges of this behaviour
    sent,        \* how many of them the client has begun
    answers,     \* answers[i]: what the client has for exchange i
    connected,   \* the client's socket is open
    wire,        \* ghost: the exchanges of which a frame was sent, in order
    to_server,   \* bytes sent and not yet read
    to_client,
    open,        \* fd_ >= 0
    reading,     \* HandleRead is between two reads
    buffer,      \* decoder_.buffer_
    requests,    \* requests_
    current,     \* the request a worker has (processing_)
    rejected,    \* ghost: the request that Submit did not accept
    closing,     \* closing_
    output,      \* output_: data_ and reader_index_
    stopped,     \* ghost: Shutdown was called
    executed     \* ghost: the requests the service has run, in order

client == <<sent, answers, connected, wire>>
server == <<open, reading, buffer, requests, current, rejected, closing, output, stopped,
            executed>>
vars == <<script, client, to_server, to_client, server>>

--------------------------------------------------------------------------------
(* Buffer *)

readable_bytes(b) == Len(b.data) - b.reader_index

\* Faulty variant: the consumed bytes are erased but still counted.
CompactIfNeededKeepsIndex(b) ==
    IF b.reader_index > Len(b.data) \div 2
    THEN [b EXCEPT !.data = SubSeq(@, b.reader_index + 1, Len(@))]
    ELSE b

CompactIfNeeded(b) ==
    IF b.reader_index > Len(b.data) \div 2
    THEN [data |-> SubSeq(b.data, b.reader_index + 1, Len(b.data)), reader_index |-> 0]
    ELSE b

Consume(b, n) == CompactIfNeeded([data |-> b.data, reader_index |-> b.reader_index + n])
Appended(b, bytes) == [data |-> b.data \o bytes, reader_index |-> b.reader_index]

--------------------------------------------------------------------------------
(* The client: RoundTrip, its two halves apart *)

Answer(code, response) == [code |-> code, response |-> response]
Waiting == {i \in 1 .. sent : answers[i].code = "waiting"}

\* The client's socket is closed and every open call fails.
Disconnect ==
    /\ connected' = FALSE
    /\ answers' = [i \in DOMAIN answers |->
                      IF answers[i].code \in {"none", "waiting"} THEN Answer("failed", {})
                      ELSE answers[i]]
    /\ sent' = Len(script)

\* A request that cannot be encoded is refused before anything is sent.
SendRequest ==
    /\ connected /\ sent < Len(script)
    /\ sent' = sent + 1
    /\ \E bytes \in {LET x == script[sent + 1]
                      IN  IF IsForeign(x) THEN Ok(x.foreign) ELSE EncodeRequest(x.request)} :
           /\ to_server' = IF bytes.ok THEN to_server \o bytes.value ELSE to_server
           /\ wire' = IF bytes.ok THEN Append(wire, sent + 1) ELSE wire
           /\ answers' = [answers EXCEPT ![sent + 1] =
                             Answer(IF bytes.ok THEN "waiting" ELSE "refused", {})]
    /\ UNCHANGED <<script, connected, to_client, server>>

\* What ReadExact waits for is there: the length, and as many bytes if it is valid.
ValidLength(len) == len \in kFrameHeaderBytes .. kMaxFrameBytes
ResponseArrived ==
    /\ Len(to_client) >= 4
    /\ LET len == PeekFrameLength(to_client) IN ValidLength(len) => Len(to_client) >= len

\* Faulty variant: whatever arrives is the answer.
MatchesAnything(p, q) == TRUE

Matches(p, q) == p.request_id = q.request_id /\ p.api_key = q.api_key

\* ReadExact twice, DecodeResponse and the comparison with the request.
ReadResponse ==
    /\ connected /\ Waiting # {} /\ ResponseArrived
    /\ LET i == CHOOSE i \in Waiting : \A j \in Waiting : i <= j
           len == PeekFrameLength(to_client)
       IN  \E p \in {IF ValidLength(len) THEN DecodeResponse(SubSeq(to_client, 1, len)) ELSE Err} :
           IF p.ok /\ Matches(p.value, script[i].request)
           THEN /\ answers' = [answers EXCEPT ![i] = Answer("answered", {p.value})]
                /\ to_client' = SubSeq(to_client, len + 1, Len(to_client))
                /\ UNCHANGED <<sent, connected>>
           ELSE Disconnect /\ UNCHANGED to_client
    /\ UNCHANGED <<script, wire, to_server, server>>

\* The server has closed: the read that waits for more bytes fails.  If it closed
\* before it had read everything, what was on the way to the client may be lost.
ReadEof ==
    /\ connected /\ ~open /\ Waiting # {}
    /\ ~ResponseArrived \/ to_server # <<>>
    /\ Disconnect
    /\ UNCHANGED <<script, wire, to_server, to_client, server>>

--------------------------------------------------------------------------------
(* TcpConnection *)

\* The bytes of a reply, or none if it cannot be encoded.
OrElse(result, bytes) == IF result.ok THEN result.value ELSE bytes

\* The replies to q when the pool does not take it, and when its answer has no encoding.
QueueFull == <<3>>
NoEncoding == <<2>>
InternalReply(q, message) ==
    OrElse(EncodeErrorResponse(q.api_key, kProtocolVersion, q.request_id, "Internal", message),
           <<>>)

\* WorkerPool::Submit takes the request, or its queue is full.
Submit(q, out) ==
    \/ /\ current' = {q}
       /\ output' = out
       /\ UNCHANGED <<rejected, closing>>
    \/ /\ current' = {}
       /\ output' = Appended(out, InternalReply(q, QueueFull))
       /\ rejected' = rejected \cup {q}
       /\ closing' = TRUE

\* Faulty variant: closing_ is not looked at.
SubmitNextWhenClosing(queue, busy, out) ==
    IF busy # {} \/ queue = <<>>
    THEN /\ requests' = queue /\ current' = busy /\ output' = out
         /\ UNCHANGED <<rejected, closing>>
    ELSE requests' = Tail(queue) /\ Submit(Head(queue), out)

\* With `queue` decoded, `busy` at a worker and `out` to be written.
SubmitNext(queue, busy, out) ==
    IF busy # {} \/ closing \/ queue = <<>>
    THEN /\ requests' = queue /\ current' = busy /\ output' = out
         /\ UNCHANGED <<rejected, closing>>
    ELSE requests' = Tail(queue) /\ Submit(Head(queue), out)

HandleClose == open' = FALSE /\ reading' = FALSE

\* The reply to a frame that does not decode, with nothing of its header in it.
QueueErrorAndClose ==
    /\ output' = Appended(output, EncodeErrorResponse("Produce", kProtocolVersion, 0,
                                                      "InvalidRequest", <<1>>).value)
    /\ closing' = TRUE
    /\ buffer' = <<>>
    /\ requests' = <<>>
    /\ reading' = FALSE
    /\ UNCHANGED current

\* One turn of HandleRead's loop: n bytes are read and pushed.
HandleRead(n) ==
    /\ open
    /\ n \in 1 .. Len(to_server)
    /\ to_server' = SubSeq(to_server, n + 1, Len(to_server))
    /\ \E d \in {Push(buffer \o SubSeq(to_server, 1, n), kMaxFrameBytes)} :
           IF d.ok
           THEN /\ buffer' = d.buffer
                /\ requests' = requests \o d.requests
                /\ reading' = TRUE
                /\ UNCHANGED <<current, closing, output>>
           ELSE QueueErrorAndClose
    /\ UNCHANGED <<script, client, to_client, open, rejected, stopped, executed>>

\* The read would block: the handler ends with SubmitNext.
HandleReadEnds ==
    /\ open /\ reading
    /\ reading' = FALSE
    /\ SubmitNext(requests, current, output)
    /\ UNCHANGED <<script, client, to_server, to_client, open, buffer, stopped, executed>>

\* The client has gone and all it sent has been read.
PeerClosed ==
    /\ open /\ ~connected /\ to_server = <<>>
    /\ HandleClose
    /\ UNCHANGED <<script, client, to_server, to_client, buffer, requests, current, rejected,
                   closing, output, stopped, executed>>

\* The server stops: what is in output_ is still written, the rest is dropped.
Shutdown ==
    /\ open /\ ~reading /\ ~stopped
    /\ stopped' = TRUE
    /\ closing' = TRUE
    /\ IF readable_bytes(output) = 0 THEN HandleClose ELSE UNCHANGED <<open, reading>>
    /\ UNCHANGED <<script, client, to_server, to_client, buffer, requests, current, rejected,
                   output, executed>>

\* What the service answers to request q: BrokerService::Handle, of which only matters
\* here that it gives some response with the id and the key of q.
Handle(q) ==
    LET same == {i \in DOMAIN script : script[i].request = q}
    IN  IF same = {} THEN [api_key |-> q.api_key, version |-> q.version,
                           request_id |-> q.request_id, error_code |-> "InvalidRequest",
                           message |-> <<>>, body |-> EmptyResponseBodyFor(q.api_key)]
        ELSE script[CHOOSE i \in same : TRUE].response

\* The reply to q; one that cannot be encoded becomes an internal error.
ReplyBytes(q) == OrElse(EncodeResponse(Handle(q)), InternalReply(q, NoEncoding))

\* The worker runs the request, and OnResponse queues the reply on the loop.
OnResponse ==
    /\ ~reading
    /\ \E q \in current :
          /\ executed' = Append(executed, q)
          /\ SubmitNext(requests, {}, Appended(output, ReplyBytes(q)))
    /\ UNCHANGED <<script, client, to_server, to_client, open, reading, buffer, stopped>>

\* One write of n bytes; a connection that is closing closes once all is written.
HandleWrite(n) ==
    /\ open /\ ~reading
    /\ n \in 1 .. readable_bytes(output)
    /\ to_client' = to_client \o SubSeq(output.data, output.reader_index + 1,
                                        output.reader_index + n)
    /\ output' = Consume(output, n)
    /\ IF n = readable_bytes(output) /\ closing THEN HandleClose ELSE UNCHANGED <<open, reading>>
    /\ UNCHANGED <<script, client, to_server, buffer, requests, current, rejected, closing,
                   stopped, executed>>

--------------------------------------------------------------------------------
Init ==
    /\ script \in Scripts
    /\ sent = 0
    /\ answers = [i \in DOMAIN script |-> Answer("none", {})]
    /\ connected = TRUE
    /\ wire = <<>>
    /\ to_server = <<>>
    /\ to_client = <<>>
    /\ open = TRUE
    /\ reading = FALSE
    /\ buffer = <<>>
    /\ requests = <<>>
    /\ current = {}
    /\ rejected = {}
    /\ closing = FALSE
    /\ stopped = FALSE
    /\ output = [data |-> <<>>, reader_index |-> 0]
    /\ executed = <<>>

Reads == \E n \in ReadSizes \cup {Len(to_server)} : HandleRead(n)
Writes == \E n \in WriteSizes \cup {readable_bytes(output)} : HandleWrite(n)

Next ==
    \/ SendRequest
    \/ ReadResponse
    \/ ReadEof
    \/ Reads
    \/ HandleReadEnds
    \/ PeerClosed
    \/ Shutdown
    \/ OnResponse
    \/ Writes

Spec == Init /\ [][Next]_vars

--------------------------------------------------------------------------------
(* Properties *)

\* However the stream is cut into reads, the service runs exactly the requests that
\* were sent, unchanged and in order, and none that was sent after, or read out of
\* the middle of, a frame that did not decode.
RequestsIntact ==
    /\ Len(executed) <= Len(wire)
    /\ \A k \in DOMAIN executed :
          /\ executed[k] = script[wire[k]].request
          /\ \A j \in 1 .. k : ~IsForeign(script[wire[j]])

\* A response as it can arrive: version 1 has no retry metadata, an error no body.
WithoutRetry(rec) ==
    [timestamp |-> rec.timestamp, key |-> rec.key, value |-> rec.value, retry |-> {}]
BodyOnTheWire(p) ==
    IF p.error_code # "None" THEN EmptyResponseBodyFor(p.api_key)
    ELSE IF p.api_key = "Fetch" /\ p.version = kProtocolVersion
    THEN [type |-> "Fetch", base_offset |-> p.body.base_offset,
          high_watermark |-> p.body.high_watermark,
          records |-> [i \in DOMAIN p.body.records |-> WithoutRetry(p.body.records[i])]]
    ELSE p.body
OnTheWire(p) ==
    [api_key |-> p.api_key, version |-> p.version, request_id |-> p.request_id,
     error_code |-> p.error_code, message |-> p.message, body |-> BodyOnTheWire(p)]

\* An internal error as the client gets it.
InternalError(q, message) ==
    [api_key |-> q.api_key, version |-> kProtocolVersion, request_id |-> q.request_id,
     error_code |-> "Internal", message |-> message, body |-> EmptyResponseBodyFor(q.api_key)]

\* What the client must get for exchange x, and for one the pool did not take.
Expected(x) ==
    IF EncodeResponse(x.response).ok THEN OnTheWire(x.response)
    ELSE InternalError(x.request, NoEncoding)
Given(x) ==
    IF x.request \in rejected THEN InternalError(x.request, QueueFull) ELSE Expected(x)

Ran(q) == \E k \in DOMAIN executed : executed[k] = q

\* However the replies are cut into writes, an answered call has the response the
\* service gave to that very request when it ran it, or an internal error if that
\* response has no encoding; and if the worker queue was full the call is told so,
\* and only then, and its request is never run.  The error reply to a bad frame is
\* never taken for an answer.
AnswersMatch ==
    \A i \in DOMAIN script : answers[i].code = "answered" =>
        /\ ~IsForeign(script[i])
        /\ answers[i].response = {Given(script[i])}
        /\ script[i].request \in rejected <=> ~Ran(script[i].request)

\* The client has nothing more to send, and every byte has gone where it can go.
NothingInFlight ==
    /\ sent = Len(script)
    /\ ~reading /\ current = {}
    /\ open => to_server = <<>> /\ readable_bytes(output) = 0
    /\ ~(Waiting # {} /\ ResponseArrived)

Clean == \A i \in DOMAIN script : ~IsForeign(script[i])

\* No call hangs and none fails for a reason of framing.  Once everything in flight
\* has arrived, a call waits only at a socket the server has closed, where its read
\* fails.  Every call of a client whose frames the server understands has its answer,
\* or was refused before it was sent, unless the server was stopped.  When the worker
\* queue was full the server closes the connection: the calls up to the one that was
\* turned away have their answers, except if the client found the socket closed
\* first, and only those behind it have none.
CallsAnswered ==
    NothingInFlight =>
        /\ Waiting # {} => ~open
        /\ ~stopped /\ Clean => \A i \in DOMAIN script :
              \/ answers[i].code \in {"answered", "refused"}
              \/ \E j \in DOMAIN script :
                    script[j].request \in rejected /\ (j < i \/ ~connected)

\* A frame with one byte replaced.
Damaged(f) == {[f EXCEPT ![i] = b] : i \in DOMAIN f, b \in 0 .. Radix - 1} \ {f}

\* The same for one frame.
SelfDelimiting(f) ==
    /\ \A n \in 0 .. Len(f) - 1 : ~DecodeRequest(SubSeq(f, 1, n)).ok
    /\ ~DecodeRequest(Append(f, 0)).ok
    /\ \A g \in Damaged(f) : \A q \in {DecodeRequest(g)} :
          q.ok => EncodeRequest(q.value) \in {Ok(g), Err}

\* Frames delimit themselves and have one encoding: of a frame the client can send
\* no proper prefix and no extension decodes, and a frame that differs from it in a
\* byte decodes only to a request whose own encoding it is, or that the encoder
\* refuses to send.
FramesCanonical ==
    sent = 0 => \A i \in DOMAIN script :
        \A e \in {EncodeRequest(script[i].request)} : e.ok => SelfDelimiting(e.value)
================================================================================
