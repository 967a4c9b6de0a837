--------------------------------- MODULE Server ---------------------------------
(***************************************************************************)
(* The network front end: TcpServer accepts connections on the main loop   *)
(* and registers each on an I/O loop, TcpConnection reads requests, hands  *)
(* them one at a time to the WorkerPool and writes the replies, and Stop   *)
(* takes all of it down.                                                   *)
(*                                                                         *)
(* Main loop, I/O loops, workers, the thread in Stop and the clients run   *)
(* concurrently.  Every connection has an I/O loop of its own here, whose  *)
(* queue of functors is pending[c]; sharing a loop only removes            *)
(* interleavings.  A frame is a request number and whether it decodes; the *)
(* number of bytes in it, and how reads split it, are left out.            *)
(***************************************************************************)
EXTENDS Integers, Sequences, FiniteSets

CONSTANTS
    Clients,         \* each connects at most once
    Fds,             \* file descriptors the kernel hands out for connections
    Workers,         \* worker threads
    MaxConnections,  \* options_.max_connections
    QueueSize,       \* WorkerPool::max_queue_size_
    MaxRequests,     \* MaxRequests[c]: bound on the frames client c sends
    NoConn           \* no entry in the connection map

ASSUME ServerAssumption ==
    /\ {MaxConnections, QueueSize} \subseteq Nat \ {0}
    /\ MaxRequests \in [Clients -> Nat]
    /\ NoConn \notin Clients

VARIABLES
    conn,         \* client -> its connection, see NewConnection
    connections,  \* connections_: fd -> connection, or NoConn
    pending,      \* client -> pending_functors_ of its loop
    tasks,        \* WorkerPool::tasks_
    busy,         \* worker -> the task it runs
    held,         \* connections that the shutdown functor's vector still owns
    looping,      \* loop_running_: TcpServer::Loop has begun
    stage         \* Stop: "running", "flagged", "cleared", "workers", "loops", "stopped"

control == <<held, looping, stage>>
vars == <<conn, connections, pending, tasks, busy, control>>

NoFd == 0
Idle == <<>>

\* st: "none", "backlog" (connected, not accepted), "queued" (accepted, not yet
\* registered), "open", "erased" (closing, the descriptor not yet released) or
\* "closed".  wire, sent, got and peer belong to the client: frames not yet read,
\* number of frames sent, replies received, and whether its end is open.
NewConnection ==
    [st |-> "none", fd |-> NoFd, peer |-> TRUE, wire |-> <<>>, sent |-> 0, got |-> <<>>,
     requests |-> <<>>, processing |-> FALSE, closing |-> FALSE, output |-> <<>>]

FreeFds == Fds \ {conn[c].fd : c \in Clients}
Registered == {fd \in Fds : connections[fd] # NoConn}
Stopping == stage # "running"

--------------------------------------------------------------------------------
(* Clients *)

Connect(c) ==
    /\ conn[c].st = "none"
    /\ stage \in {"running", "flagged"}
    /\ conn' = [conn EXCEPT ![c].st = "backlog"]
    /\ UNCHANGED <<connections, pending, tasks, busy, control>>

\* A client may send before it has been answered.
Send(c, ok) ==
    /\ conn[c].st \in {"backlog", "queued", "open"}
    /\ conn[c].peer
    /\ conn[c].sent < MaxRequests[c]
    /\ conn' = [conn EXCEPT ![c].sent = @ + 1,
                            ![c].wire = Append(@, [id |-> conn[c].sent + 1, ok |-> ok])]
    /\ UNCHANGED <<connections, pending, tasks, busy, control>>

Disconnect(c) ==
    /\ conn[c].st \in {"backlog", "queued", "open"}
    /\ conn[c].peer
    /\ conn' = [conn EXCEPT ![c].peer = FALSE]
    /\ UNCHANGED <<connections, pending, tasks, busy, control>>

--------------------------------------------------------------------------------
(* HandleAccept and the registration functor *)

\* The limit is compared with the connections registered by now; a connection
\* that passes is registered later, on its I/O loop.
HandleAccept(c, fd) ==
    /\ looping
    /\ stage \in {"running", "flagged"}
    /\ conn[c].st = "backlog"
    /\ fd \in FreeFds
    /\ IF Stopping \/ Cardinality(Registered) >= MaxConnections
       THEN /\ conn' = [conn EXCEPT ![c].st = "closed"]
            /\ UNCHANGED pending
       ELSE /\ conn' = [conn EXCEPT ![c].st = "queued", ![c].fd = fd]
            /\ pending' = [pending EXCEPT ![c] = Append(@, [kind |-> "register"])]
    /\ UNCHANGED <<connections, tasks, busy, control>>

Due(c, kind) == pending[c] # <<>> /\ Head(pending[c]).kind = kind

\* emplace: an entry under the same descriptor would stay.
Entered(c) == [connections EXCEPT ![conn[c].fd] = IF @ = NoConn THEN c ELSE @]

\* Faulty variant: stopping_ is not consulted.
RegisterAlways(c) ==
    /\ Due(c, "register")
    /\ pending' = [pending EXCEPT ![c] = Tail(@)]
    /\ conn' = [conn EXCEPT ![c].st = "open"]
    /\ connections' = Entered(c)
    /\ UNCHANGED <<tasks, busy, control>>

Register(c) ==
    /\ Due(c, "register")
    /\ pending' = [pending EXCEPT ![c] = Tail(@)]
    /\ IF Stopping
       THEN conn' = [conn EXCEPT ![c].st = "erased"] /\ UNCHANGED connections
       ELSE conn' = [conn EXCEPT ![c].st = "open"] /\ connections' = Entered(c)
    /\ UNCHANGED <<tasks, busy, control>>

--------------------------------------------------------------------------------
(* TcpConnection: SubmitNext, HandleClose *)

\* Faulty variant: a request in flight does not hold back the next.
MaySubmitWhileBusy(r) == ~r.closing /\ r.requests # <<>>

MaySubmit(r) == ~r.processing /\ ~r.closing /\ r.requests # <<>>

\* WorkerPool::Submit takes the task.
Accepted == stage \in {"running", "flagged", "cleared"} /\ Len(tasks) < QueueSize

Reply(id, ok) == [id |-> id, ok |-> ok]

\* Faulty variant: the client is not told that its request was refused.
SubmitNextSilent(r) ==
    IF ~MaySubmit(r) THEN r
    ELSE IF Accepted
    THEN [r EXCEPT !.processing = TRUE, !.requests = Tail(@)]
    ELSE [r EXCEPT !.requests = Tail(@), !.closing = TRUE]

\* Connection r after SubmitNext: one request in flight at a time; if the pool
\* refuses it the client gets an error and the connection closes when that is sent.
SubmitNext(r) ==
    IF ~MaySubmit(r) THEN r
    ELSE IF Accepted
    THEN [r EXCEPT !.processing = TRUE, !.requests = Tail(@)]
    ELSE [r EXCEPT !.requests = Tail(@),
                   !.output = Append(@, Reply(Head(r.requests), FALSE)),
                   !.closing = TRUE]

TasksAfter(c, r) ==
    IF MaySubmit(r) /\ Accepted THEN Append(tasks, <<c, Head(r.requests)>>) ELSE tasks

\* HandleClose: RemoveConnection takes the map entry out, and only then CloseFd
\* releases the descriptor.
Closed(r) == [r EXCEPT !.st = "erased"]

\* Faulty variant: the close callback is not set.
ErasedNever(c) == connections

Erased(c) == [connections EXCEPT ![conn[c].fd] = NoConn]

CloseFd(c) ==
    /\ conn[c].st = "erased"
    /\ conn' = [conn EXCEPT ![c].st = "closed", ![c].fd = NoFd]
    /\ UNCHANGED <<connections, pending, tasks, busy, control>>

--------------------------------------------------------------------------------
(* TcpConnection: HandleRead, HandleWrite *)

\* A connection reads and writes only while something still owns it: the
\* connection map, the vector of Stop, a functor or a task (Channel::Tie).
Owned(c) ==
    \/ connections[conn[c].fd] = c
    \/ c \in held
    \/ pending[c] # <<>>
    \/ \E i \in DOMAIN tasks : tasks[i][1] = c
    \/ \E w \in Workers : busy[w] # Idle /\ busy[w][1] = c

Live(c) == conn[c].st = "open" /\ Owned(c)

Ids(frames) == [i \in DOMAIN frames |-> frames[i].id]

\* All frames decode: they are queued and the next one is submitted.
HandleRead(c) ==
    LET r == [conn[c] EXCEPT !.requests = @ \o Ids(conn[c].wire), !.wire = <<>>]
    IN  /\ Live(c)
        /\ conn[c].peer /\ conn[c].wire # <<>>
        /\ \A i \in DOMAIN conn[c].wire : conn[c].wire[i].ok
        /\ conn' = [conn EXCEPT ![c] = SubmitNext(r)]
        /\ tasks' = TasksAfter(c, r)
        /\ UNCHANGED <<connections, pending, busy, control>>

\* A frame does not decode: QueueErrorAndClose.  Requests not yet submitted are
\* dropped; the one in flight is not waited for.
HandleBadFrame(c) ==
    LET bad == {i \in DOMAIN conn[c].wire : ~conn[c].wire[i].ok}
        first == CHOOSE i \in bad : \A j \in bad : i <= j
    IN  /\ Live(c)
        /\ bad # {}
        /\ conn' = [conn EXCEPT ![c].requests = <<>>,
                                ![c].wire = <<>>,
                                ![c].closing = TRUE,
                                ![c].output = Append(@, Reply(conn[c].wire[first].id, FALSE))]
        /\ UNCHANGED <<connections, pending, tasks, busy, control>>

\* The peer has closed: what was read before the end is queued but not submitted;
\* a hang-up event closes the connection without reading.
HandlePeerClosed(c) ==
    /\ Live(c)
    /\ ~conn[c].peer
    /\ \E read \in {<<>>, conn[c].wire} :
          /\ \A i \in DOMAIN read : read[i].ok
          /\ conn' = [conn EXCEPT ![c] = Closed([conn[c] EXCEPT !.wire = <<>>,
                                                                !.requests = @ \o Ids(read)])]
    /\ connections' = Erased(c)
    /\ UNCHANGED <<pending, tasks, busy, control>>

\* HandleWrite: n replies fit in the socket; when all are written and the
\* connection is closing, HandleClose.
HandleWrite(c, n) ==
    LET r == [conn[c] EXCEPT !.output = SubSeq(@, n + 1, Len(@)),
                             !.got = @ \o SubSeq(conn[c].output, 1, n)]
        done == r.output = <<>> /\ r.closing
    IN  /\ Live(c)
        /\ conn[c].peer
        /\ n \in 1 .. Len(conn[c].output)
        /\ conn' = [conn EXCEPT ![c] = IF done THEN Closed(r) ELSE r]
        /\ connections' = IF done THEN Erased(c) ELSE connections
        /\ UNCHANGED <<pending, tasks, busy, control>>

--------------------------------------------------------------------------------
(* WorkerPool *)

\* Run: a worker takes the oldest task ...
TakeTask(w) ==
    /\ busy[w] = Idle
    /\ tasks # <<>>
    /\ busy' = [busy EXCEPT ![w] = Head(tasks)]
    /\ tasks' = Tail(tasks)
    /\ UNCHANGED <<conn, connections, pending, control>>

\* ... and when BrokerService::Handle returns queues the reply on the I/O loop.
FinishTask(w) ==
    LET c == busy[w][1]
    IN  /\ busy[w] # Idle
        /\ pending' = [pending EXCEPT
               ![c] = Append(@, [kind |-> "response", id |-> busy[w][2]])]
        /\ busy' = [busy EXCEPT ![w] = Idle]
        /\ UNCHANGED <<conn, connections, tasks, control>>

--------------------------------------------------------------------------------
(* Functors on the I/O loop *)

\* When the functor that just ran was the last owner of connection r, its
\* destructor closes the descriptor.
Released(c, r, ts) ==
    IF /\ r.st = "open"
       /\ connections[r.fd] # c
       /\ c \notin held
       /\ Len(pending[c]) = 1
       /\ \A i \in DOMAIN ts : ts[i][1] # c
       /\ \A w \in Workers : busy[w] = Idle \/ busy[w][1] # c
    THEN [r EXCEPT !.st = "erased"]
    ELSE r

\* OnResponse: also on a connection that is closed, whose queued requests go on
\* being submitted.
OnResponse(c) ==
    LET r == [conn[c] EXCEPT !.processing = FALSE,
                             !.output = Append(@, Reply(Head(pending[c]).id, TRUE))]
    IN  /\ Due(c, "response")
        /\ conn' = [conn EXCEPT ![c] = Released(c, SubmitNext(r), TasksAfter(c, r))]
        /\ tasks' = TasksAfter(c, r)
        /\ pending' = [pending EXCEPT ![c] = Tail(@)]
        /\ UNCHANGED <<connections, busy, control>>

\* Shutdown: close at once if there is nothing to write.
Shutdown(c) ==
    LET r == [conn[c] EXCEPT !.closing = TRUE]
        now == r.st = "open" /\ r.output = <<>>
    IN  /\ Due(c, "shutdown")
        /\ conn' = [conn EXCEPT ![c] = IF now THEN Closed(r) ELSE Released(c, r, tasks)]
        /\ connections' = IF now THEN Erased(c) ELSE connections
        /\ pending' = [pending EXCEPT ![c] = Tail(@)]
        /\ UNCHANGED <<tasks, busy, control>>

--------------------------------------------------------------------------------
(* TcpServer::Stop *)

\* TcpServer::Loop, unless Stop was faster.
Loop ==
    /\ stage = "running"
    /\ ~looping
    /\ looping' = TRUE
    /\ UNCHANGED <<conn, connections, pending, tasks, busy, held, stage>>

StopFlag ==
    /\ stage = "running"
    /\ stage' = "flagged"
    /\ UNCHANGED <<conn, connections, pending, tasks, busy, held, looping>>

\* What the shutdown functor does: accepting ends, the map is emptied and every
\* connection in it is told to shut down.
ShutdownAll ==
    LET told == {connections[fd] : fd \in Registered}
    IN  /\ stage = "flagged"
        /\ stage' = "cleared"
        /\ connections' = [fd \in Fds |-> NoConn]
        /\ pending' = [c \in Clients |->
                          IF c \in told THEN Append(pending[c], [kind |-> "shutdown"])
                          ELSE pending[c]]
        /\ conn' = [c \in Clients |->
                       IF conn[c].st = "backlog" THEN [conn[c] EXCEPT !.st = "closed"]
                       ELSE conn[c]]
        /\ held' = told
        /\ UNCHANGED <<tasks, busy, looping>>

\* Faulty variant: the functor is queued on the main loop, which may not run.
StopOnMainLoop == looping /\ ShutdownAll

\* Stop waits for the functor, which runs on the main loop, or on the calling
\* thread if the loop has not begun.
StopConnections == ShutdownAll

\* The functor returns and its vector goes: connections that nothing else owns are
\* destroyed, on the thread that ran the functor.
ReleaseHeld ==
    /\ held # {}
    /\ held' = {}
    /\ conn' = [c \in Clients |->
                   IF /\ c \in held /\ conn[c].st = "open" /\ pending[c] = <<>>
                      /\ \A i \in DOMAIN tasks : tasks[i][1] # c
                      /\ \A w \in Workers : busy[w] = Idle \/ busy[w][1] # c
                   THEN Closed(conn[c]) ELSE conn[c]]
    /\ UNCHANGED <<connections, pending, tasks, busy, looping, stage>>

\* The main loop signals before its functor returns.  WorkerPool::Stop refuses new
\* tasks ...
StopPool ==
    /\ stage = "cleared"
    /\ looping \/ held = {}
    /\ stage' = "workers"
    /\ UNCHANGED <<conn, connections, pending, tasks, busy, held, looping>>

\* ... and returns when the queue is empty and every worker has ended.
StopWorkers ==
    /\ stage = "workers"
    /\ tasks = <<>>
    /\ \A w \in Workers : busy[w] = Idle
    /\ stage' = "loops"
    /\ UNCHANGED <<conn, connections, pending, tasks, busy, held, looping>>

\* A loop that quits runs the functors it still has.
StopLoops ==
    /\ stage = "loops"
    /\ \A c \in Clients : pending[c] = <<>>
    /\ stage' = "stopped"
    /\ UNCHANGED <<conn, connections, pending, tasks, busy, held, looping>>

Init ==
    /\ conn = [c \in Clients |-> NewConnection]
    /\ connections = [fd \in Fds |-> NoConn]
    /\ pending = [c \in Clients |-> <<>>]
    /\ tasks = <<>>
    /\ busy = [w \in Workers |-> Idle]
    /\ held = {}
    /\ looping = FALSE
    /\ stage = "running"

ClientStep ==
    \E c \in Clients : Connect(c) \/ Disconnect(c) \/ \E ok \in BOOLEAN : Send(c, ok)

LoopStep(c) ==
    \/ Register(c) \/ Shutdown(c) \/ OnResponse(c)
    \/ stage # "stopped" /\ (HandleRead(c) \/ HandleBadFrame(c) \/ HandlePeerClosed(c))
    \/ stage # "stopped" /\ \E n \in 1 .. MaxRequests[c] : HandleWrite(c, n)
    \/ CloseFd(c)

WorkerStep(w) == TakeTask(w) \/ FinishTask(w)

StopStep == StopConnections \/ StopPool \/ StopWorkers \/ StopLoops

Next ==
    \/ ClientStep
    \/ \E c \in Clients, fd \in Fds : HandleAccept(c, fd)
    \/ \E c \in Clients : LoopStep(c)
    \/ \E w \in Workers : WorkerStep(w)
    \/ Loop
    \/ StopFlag
    \/ StopStep
    \/ ReleaseHeld

\* Loops and workers keep running, and a Stop once begun goes on.
Fairness ==
    /\ \A c \in Clients : WF_vars(LoopStep(c))
    /\ \A w \in Workers : WF_vars(WorkerStep(w))
    /\ WF_vars(StopStep)
    /\ WF_vars(ReleaseHeld)

Spec == Init /\ [][Next]_vars /\ Fairness

--------------------------------------------------------------------------------
(* Properties *)

Replies(c) == [id : 1 .. MaxRequests[c], ok : BOOLEAN]

\* The types of the variables; a connection has a descriptor exactly while the
\* server holds one, and the task queue respects its bound.
TypeOK ==
    /\ \A c \in Clients :
          /\ conn[c].st \in {"none", "backlog", "queued", "open", "erased", "closed"}
          /\ conn[c].fd \in Fds <=> conn[c].st \in {"queued", "open", "erased"}
          /\ conn[c].output \in Seq(Replies(c))
          /\ conn[c].requests \in Seq(1 .. MaxRequests[c])
    /\ connections \in [Fds -> Clients \cup {NoConn}]
    /\ Len(tasks) <= QueueSize
    /\ stage \in {"running", "flagged", "cleared", "workers", "loops", "stopped"}

\* Until Stop empties it, the map holds exactly the open connections, each under
\* its own descriptor, however descriptors are reused: Stop reaches all of them.
ConnectionsMapped ==
    stage \in {"running", "flagged"} =>
        /\ \A c \in Clients : conn[c].st = "open" => connections[conn[c].fd] = c
        /\ \A fd \in Registered : conn[connections[fd]].st = "open"

\* All replies of a connection, in the order in which they go out.
Outgoing(c) == conn[c].got \o conn[c].output

\* The number of BrokerService's replies among the first p.
GoodUpTo(replies, p) == Cardinality({i \in 1 .. p : replies[i].ok})

\* The replies of BrokerService go out in the order of the requests, none is
\* skipped and none is sent twice: the i-th of them answers request i.
ResponsesInOrder ==
    \A c \in Clients : \A p \in DOMAIN Outgoing(c) :
        Outgoing(c)[p].ok => Outgoing(c)[p].id = GoodUpTo(Outgoing(c), p)

\* When Stop and its shutdown functor have returned, no connection is left open:
\* whatever was accepted, registered or closing at the time has been closed.
StopReleasesAll ==
    stage = "stopped" /\ held = {} =>
        \A c \in Clients : conn[c].st \notin {"queued", "open"}

\* The connection is open and has read request id of the client, or dropped it.
WasRead(c, id) ==
    /\ conn[c].st = "open"
    /\ id <= conn[c].sent
    /\ \A i \in DOMAIN conn[c].wire : conn[c].wire[i].id # id

\* The client has its answer, of BrokerService or the refusal of the worker queue.
HasReply(c, id) == \E i \in DOMAIN conn[c].got : conn[c].got[i].id = id

\* The server hangs up on a client only when it is stopping, when the client has gone,
\* or after it has told the client of a bad frame or a full queue.
HungUp(c) ==
    /\ conn[c].st # "open"
    /\ Stopping \/ ~conn[c].peer \/ \E i \in DOMAIN conn[c].got : ~conn[c].got[i].ok

\* A request that was read is answered, and the answer reaches the client, through
\* whatever queues it has to pass; or the server has hung up with good reason.
RequestsAnswered ==
    \A c \in Clients : \A id \in 1 .. MaxRequests[c] :
        WasRead(c, id) ~> HasReply(c, id) \/ HungUp(c)

\* Stop returns, whatever clients, loops and workers are doing.
StopReturns == (stage = "flagged") ~> (stage = "stopped")
================================================================================
