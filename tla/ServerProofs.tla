------------------------------ MODULE ServerProofs ------------------------------
(***************************************************************************)
(* Proofs about the network front end: for any number of clients, file     *)
(* descriptors and workers, and queues of any size, the connection map     *)
(* holds exactly the open connections until Stop empties it, every         *)
(* connection is closed once Stop is through, and the broker's replies go  *)
(* out in the order of the requests.                                       *)
(***************************************************************************)
EXTENDS Server, FiniteSetTheorems, TLAPS

----------------------------------------
(* The inductive invariant *)

Frames == [id : Nat, ok : BOOLEAN]

States == {"none", "backlog", "queued", "open", "erased", "closed"}

Connection ==
    [st : States, fd : Fds \cup {NoFd}, peer : BOOLEAN, wire : Seq(Frames), sent : Nat,
     got : Seq(Frames), requests : Seq(Nat), processing : BOOLEAN, closing : BOOLEAN,
     output : Seq(Frames)]

Functors == [kind : {"register", "shutdown"}] \cup [kind : {"response"}, id : Nat]

Stages == {"running", "flagged", "cleared", "workers", "loops", "stopped"}

Types ==
    /\ conn \in [Clients -> Connection]
    /\ connections \in [Fds -> Clients \cup {NoConn}]
    /\ pending \in [Clients -> Seq(Functors)]
    /\ tasks \in Seq(Clients \X Nat)
    /\ busy \in [Workers -> (Clients \X Nat) \cup {Idle}]
    /\ held \subseteq Clients
    /\ looping \in BOOLEAN
    /\ stage \in Stages

BeforeStop == stage \in {"running", "flagged"}

InTasks(c, ts) == \E i \in DOMAIN ts : ts[i][1] = c
InBusy(c, bs) == \E w \in Workers : bs[w] # Idle /\ bs[w][1] = c

\* What keeps a connection alive once the map is empty.
Kept(c) == c \in held \/ pending[c] # <<>> \/ InTasks(c, tasks) \/ InBusy(c, busy)

HasFd == {"queued", "open", "erased"}

\* Descriptors, the map and who keeps a connection alive.
Mapped ==
    /\ BeforeStop => held = {}
    /\ \A c \in Clients : conn[c].st \in HasFd => conn[c].fd \in Fds
    /\ \A c, d \in Clients :
          conn[c].st \in HasFd /\ conn[d].st \in HasFd /\ conn[c].fd = conn[d].fd => c = d
    /\ \A fd \in Fds : connections[fd] # NoConn =>
          /\ BeforeStop
          /\ conn[connections[fd]].st = "open"
          /\ conn[connections[fd]].fd = fd
    /\ \A c \in Clients : conn[c].st = "open" =>
          IF BeforeStop THEN connections[conn[c].fd] = c
          ELSE Kept(c)

\* The functors of a connection's loop; nothing is left when the loops have ended.
Queued ==
    /\ \A c \in Clients : conn[c].st \in {"none", "backlog"} => pending[c] = <<>>
    /\ \A c \in Clients : conn[c].st = "queued" => pending[c] = <<[kind |-> "register"]>>
    /\ \A c \in Clients : conn[c].st \in {"open", "erased", "closed"} =>
          \A i \in DOMAIN pending[c] : pending[c][i].kind # "register"
    /\ stage \in {"loops", "stopped"} => tasks = <<>> /\ \A w \in Workers : busy[w] = Idle
    /\ stage = "stopped" => \A c \in Clients : pending[c] = <<>>

\* The replies of a connection, sent or not, and how many of them are the broker's.
Replied(r) == r.got \o r.output
Answered(r) == GoodUpTo(Replied(r), Len(Replied(r)))

GoodOrder(replies) ==
    \A p \in DOMAIN replies : replies[p].ok => replies[p].id = GoodUpTo(replies, p)

\* The requests at a worker or on their way back.
InFlight(r) == IF r.processing THEN 1 ELSE 0

\* After n answered requests: what a connection received is numbered without a gap, the
\* one at a worker, those that wait, those not read yet.  Closing drops some of them.
Chain(r, n) ==
    /\ ~r.closing => \A i \in DOMAIN r.requests : r.requests[i] = n + InFlight(r) + i
    /\ r.st \notin {"erased", "closed"} =>
          \A i \in DOMAIN r.wire : r.wire[i].id = (r.sent - Len(r.wire)) + i
    /\ r.st \notin {"erased", "closed"} /\ ~r.closing =>
          r.sent - Len(r.wire) = n + InFlight(r) + Len(r.requests)
    /\ r.st \in {"none", "backlog", "queued"} =>
          ~r.processing /\ ~r.closing /\ r.requests = <<>>

Numbered(r) == GoodOrder(Replied(r)) /\ Chain(r, Answered(r))

Answers(f) == \E i \in DOMAIN f : f[i].kind = "response"

\* Connection r of client c, with functors f, has at most one request among the tasks ts,
\* at the workers bs or on its way back, and that is the one after those answered.
Expected(r, id) == r.processing /\ id = Answered(r) + 1

Carried(c, r, f, ts, bs) ==
    /\ \A i \in DOMAIN ts : ts[i][1] = c => Expected(r, ts[i][2])
    /\ \A w \in Workers : bs[w] # Idle /\ bs[w][1] = c => Expected(r, bs[w][2])
    /\ \A i \in DOMAIN f : f[i].kind = "response" => Expected(r, f[i].id)
    /\ \A i, j \in DOMAIN ts : ts[i][1] = c /\ ts[j][1] = c => i = j
    /\ \A w, v \in Workers :
          bs[w] # Idle /\ bs[v] # Idle /\ bs[w][1] = c /\ bs[v][1] = c => w = v
    /\ \A i, j \in DOMAIN f : f[i].kind = "response" /\ f[j].kind = "response" => i = j
    /\ InTasks(c, ts) => ~InBusy(c, bs) /\ ~Answers(f)
    /\ InBusy(c, bs) => ~Answers(f)

Flying == \A c \in Clients : Carried(c, conn[c], pending[c], tasks, busy)

Order == \A c \in Clients : Numbered(conn[c])

Inv == Types /\ Mapped /\ Queued /\ Order /\ Flying

----------------------------------------
(* A set of numbers has a least element *)

NatLess == {p \in Nat \X Nat : p[1] < p[2]}

LEMMA NatLessWellFounded == IsWellFoundedOn(NatLess, Nat)
BY NatLessThanWellFounded DEF OpToRel, NatLess

LEMMA LeastElement ==
    ASSUME NEW S, S \subseteq Nat, S # {}
    PROVE  \E x \in S : \A y \in S : x <= y
<1>1. PICK x \in S : \A y \in S : <<y, x>> \notin NatLess
  BY NatLessWellFounded, WFMin
<1>2. ASSUME NEW y \in S PROVE x <= y
  <2>a. y \in Nat /\ x \in Nat
    OBVIOUS
  <2>b. ~(y < x)
    BY <1>1, <2>a DEF NatLess
  <2> QED BY <2>a, <2>b
<1> QED BY <1>2

----------------------------------------
(* Types *)

LEMMA ConnectionTypes ==
  ASSUME NEW r \in Connection
  PROVE  /\ r.st \in States /\ r.fd \in Fds \cup {NoFd} /\ r.peer \in BOOLEAN
         /\ r.wire \in Seq(Frames) /\ r.sent \in Nat /\ r.got \in Seq(Frames)
         /\ r.requests \in Seq(Nat) /\ r.processing \in BOOLEAN /\ r.closing \in BOOLEAN
         /\ r.output \in Seq(Frames)
         /\ Len(r.wire) \in Nat /\ Len(r.requests) \in Nat /\ Len(r.output) \in Nat
  BY DEF Connection

LEMMA EmptyTypes == <<>> \in Seq(Frames) /\ <<>> \in Seq(Nat)
  OBVIOUS

LEMMA AppendFrame ==
  ASSUME NEW s \in Seq(Frames), NEW x \in Frames
  PROVE  Append(s, x) \in Seq(Frames) /\ Len(Append(s, x)) = Len(s) + 1
  OBVIOUS

LEMMA IdsTypes ==
  ASSUME NEW frames \in Seq(Frames)
  PROVE  /\ Ids(frames) \in Seq(Nat) /\ Len(Ids(frames)) = Len(frames)
         /\ \A i \in 1 .. Len(frames) : Ids(frames)[i] = frames[i].id
<1>1. DOMAIN frames = 1 .. Len(frames) /\ Len(frames) \in Nat
  OBVIOUS
<1>2. \A i \in 1 .. Len(frames) : frames[i].id \in Nat
  <2>a. \A i \in 1 .. Len(frames) : frames[i] \in Frames
    BY <1>1
  <2> QED BY <2>a DEF Frames
<1>3. Ids(frames) = [i \in 1 .. Len(frames) |-> frames[i].id]
  BY <1>1 DEF Ids
<1> QED BY <1>1, <1>2, <1>3

\* The connection after its next request was submitted, or refused.
LEMMA SubmitTypes ==
  ASSUME NEW c \in Clients, NEW r \in Connection, tasks \in Seq(Clients \X Nat)
  PROVE  /\ SubmitNext(r) \in Connection
         /\ TasksAfter(c, r) \in Seq(Clients \X Nat)
         /\ SubmitNext(r).st = r.st /\ SubmitNext(r).fd = r.fd
<1>1. CASE ~MaySubmit(r)
  BY <1>1 DEF SubmitNext, TasksAfter
<1>2. CASE MaySubmit(r)
  <2>a. r.requests \in Seq(Nat) /\ r.requests # <<>> /\ r.output \in Seq(Frames)
    BY <1>2, ConnectionTypes DEF MaySubmit
  <2>b. Head(r.requests) \in Nat /\ Tail(r.requests) \in Seq(Nat)
    BY <2>a, SMTT(30)
  <2>c. Reply(Head(r.requests), FALSE) \in Frames
    BY <2>b DEF Reply, Frames
  <2>d. Append(r.output, Reply(Head(r.requests), FALSE)) \in Seq(Frames)
    BY <2>a, <2>c, AppendFrame
  <2>e. CASE Accepted
    <3>1. SubmitNext(r) = [r EXCEPT !.processing = TRUE, !.requests = Tail(r.requests)]
      BY <1>2, <2>e DEF SubmitNext
    <3>2. SubmitNext(r) \in Connection /\ SubmitNext(r).st = r.st /\ SubmitNext(r).fd = r.fd
      BY <2>b, <3>1 DEF Connection
    <3>3. TasksAfter(c, r) = Append(tasks, <<c, Head(r.requests)>>)
      BY <1>2, <2>e DEF TasksAfter
    <3> QED BY <2>b, <3>2, <3>3
  <2>f. CASE ~Accepted
    <3>1. SubmitNext(r) = [r EXCEPT !.requests = Tail(r.requests),
                                    !.output = Append(r.output, Reply(Head(r.requests), FALSE)),
                                    !.closing = TRUE]
      BY <1>2, <2>f DEF SubmitNext
    <3>2. SubmitNext(r) \in Connection /\ SubmitNext(r).st = r.st /\ SubmitNext(r).fd = r.fd
      BY <2>b, <2>d, <3>1 DEF Connection
    <3>3. TasksAfter(c, r) = tasks
      BY <1>2, <2>f DEF TasksAfter
    <3> QED BY <3>2, <3>3
  <2> QED BY <2>e, <2>f
<1> QED BY <1>1, <1>2

LEMMA ReleasedTypes ==
  ASSUME NEW c \in Clients, NEW r \in Connection, NEW ts
  PROVE  Released(c, r, ts) \in Connection
  BY DEF Released, Connection, States

LEMMA PendingTypes ==
  ASSUME Types, NEW c \in Clients
  PROVE  /\ pending[c] \in Seq(Functors) /\ Len(pending[c]) \in Nat
         /\ DOMAIN pending[c] = 1 .. Len(pending[c])
  BY DEF Types

LEMMA DueTypes ==
  ASSUME Types, NEW c \in Clients, NEW kind, Due(c, kind)
  PROVE  /\ pending[c] \in Seq(Functors) /\ pending[c] # <<>>
         /\ Head(pending[c]) \in Functors /\ Head(pending[c]) = pending[c][1]
         /\ Tail(pending[c]) \in Seq(Functors)
         /\ Head(pending[c]).kind = kind
         /\ kind = "response" => Head(pending[c]).id \in Nat
<1>1. pending[c] \in Seq(Functors) /\ pending[c] # <<>> /\ Head(pending[c]).kind = kind
  BY PendingTypes DEF Due
<1>2. /\ Head(pending[c]) \in Functors /\ Tail(pending[c]) \in Seq(Functors)
      /\ Head(pending[c]) = pending[c][1]
  BY <1>1
<1> QED BY <1>1, <1>2 DEF Functors

----------------------------------------
(* What each action makes of a connection *)

Moved(c, q) ==
    /\ q \in Connection
    /\ conn' \in [Clients -> Connection]
    /\ conn'[c] = q
    /\ \A d \in Clients \ {c} : conn'[d] = conn[d]

LEMMA Put ==
  ASSUME conn \in [Clients -> Connection], NEW c \in Clients, NEW q \in Connection,
         conn' = [conn EXCEPT ![c] = q]
  PROVE  Moved(c, q)
  BY DEF Moved

LEMMA StateTypes ==
  ASSUME NEW r \in Connection, NEW st \in States, NEW fd \in Fds \cup {NoFd}
  PROVE  /\ [r EXCEPT !.st = st] \in Connection
         /\ [r EXCEPT !.st = st, !.fd = fd] \in Connection
         /\ [r EXCEPT !.peer = FALSE] \in Connection
         /\ [r EXCEPT !.closing = TRUE] \in Connection
  BY DEF Connection

LEMMA ConnectEffect ==
  ASSUME Types, NEW c \in Clients, Connect(c)
  PROVE  Moved(c, [conn[c] EXCEPT !.st = "backlog"])
<1>1. conn \in [Clients -> Connection] /\ conn[c] \in Connection
  BY DEF Types
<1>2. conn' = [conn EXCEPT ![c] = [conn[c] EXCEPT !.st = "backlog"]]
  BY DEF Connect
<1>3. [conn[c] EXCEPT !.st = "backlog"] \in Connection
  BY <1>1, StateTypes DEF States
<1> QED BY <1>1, <1>2, <1>3, Put

Sent(r, ok) ==
    [r EXCEPT !.sent = r.sent + 1, !.wire = Append(r.wire, [id |-> r.sent + 1, ok |-> ok])]

Placed(r, st, fd) == [r EXCEPT !.st = st, !.fd = fd]

LEMMA SendEffect ==
  ASSUME Types, NEW c \in Clients, NEW ok \in BOOLEAN, Send(c, ok)
  PROVE  Moved(c, Sent(conn[c], ok))
<1>1. conn \in [Clients -> Connection] /\ conn[c] \in Connection
  BY DEF Types
<1>2. PICK r \in Connection : r = conn[c]
  BY <1>1
<1>3. r.sent + 1 \in Nat /\ r.wire \in Seq(Frames)
  BY ConnectionTypes
<1>4. PICK w : w = Append(r.wire, [id |-> r.sent + 1, ok |-> ok])
  OBVIOUS
<1>5. [id |-> r.sent + 1, ok |-> ok] \in Frames
  BY <1>3 DEF Frames
<1>6. w \in Seq(Frames)
  BY <1>3, <1>4, <1>5, AppendFrame
<1>7. Sent(r, ok) = [r EXCEPT !.sent = r.sent + 1, !.wire = w]
  BY <1>4 DEF Sent
<1>8. Sent(r, ok) \in Connection
  BY <1>3, <1>6, <1>7 DEF Connection
<1>9. conn' = [conn EXCEPT ![c] = Sent(r, ok)]
  BY <1>1, <1>2, <1>4, <1>7 DEF Send
<1> QED BY <1>1, <1>2, <1>8, <1>9, Put

LEMMA DisconnectEffect ==
  ASSUME Types, NEW c \in Clients, Disconnect(c)
  PROVE  Moved(c, [conn[c] EXCEPT !.peer = FALSE])
<1>1. conn \in [Clients -> Connection] /\ conn[c] \in Connection
  BY DEF Types
<1>2. conn' = [conn EXCEPT ![c] = [conn[c] EXCEPT !.peer = FALSE]]
  BY DEF Disconnect
<1>3. [conn[c] EXCEPT !.peer = FALSE] \in Connection
  BY <1>1, StateTypes DEF States
<1> QED BY <1>1, <1>2, <1>3, Put

\* The connection is refused, or accepted and its registration queued.
LEMMA HandleAcceptEffect ==
  ASSUME Types, NEW c \in Clients, NEW fd \in Fds, HandleAccept(c, fd)
  PROVE  \/ pending' = pending /\ Moved(c, [conn[c] EXCEPT !.st = "closed"])
         \/ /\ pending' = [pending EXCEPT ![c] = Append(@, [kind |-> "register"])]
            /\ Moved(c, Placed(conn[c], "queued", fd))
<1>1. conn \in [Clients -> Connection] /\ conn[c] \in Connection
  BY DEF Types
<1>2. /\ [conn[c] EXCEPT !.st = "closed"] \in Connection
      /\ Placed(conn[c], "queued", fd) \in Connection
  BY <1>1, StateTypes DEF States, Placed
<1>3. CASE pending' = pending /\ conn' = [conn EXCEPT ![c].st = "closed"]
  <2>a. conn' = [conn EXCEPT ![c] = [conn[c] EXCEPT !.st = "closed"]]
    BY <1>3
  <2> QED BY <1>1, <1>2, <1>3, <2>a, Put
<1>4. CASE /\ pending' = [pending EXCEPT ![c] = Append(@, [kind |-> "register"])]
           /\ conn' = [conn EXCEPT ![c].st = "queued", ![c].fd = fd]
  <2>a. conn' = [conn EXCEPT ![c] = Placed(conn[c], "queued", fd)]
    BY <1>1, <1>4 DEF Placed
  <2> QED BY <1>1, <1>2, <1>4, <2>a, Put
<1> QED BY <1>3, <1>4 DEF HandleAccept

LEMMA RegisterEffect ==
  ASSUME Types, NEW c \in Clients, Register(c)
  PROVE  \/ Stopping /\ connections' = connections /\ Moved(c, [conn[c] EXCEPT !.st = "erased"])
         \/ ~Stopping /\ connections' = Entered(c) /\ Moved(c, [conn[c] EXCEPT !.st = "open"])
<1>1. conn \in [Clients -> Connection] /\ conn[c] \in Connection
  BY DEF Types
<1>2. /\ [conn[c] EXCEPT !.st = "erased"] \in Connection
      /\ [conn[c] EXCEPT !.st = "open"] \in Connection
  BY <1>1, StateTypes DEF States
<1>3. CASE Stopping
  <2>a. conn' = [conn EXCEPT ![c] = [conn[c] EXCEPT !.st = "erased"]] /\ connections' = connections
    BY <1>3 DEF Register
  <2> QED BY <1>1, <1>2, <1>3, <2>a, Put
<1>4. CASE ~Stopping
  <2>a. conn' = [conn EXCEPT ![c] = [conn[c] EXCEPT !.st = "open"]] /\ connections' = Entered(c)
    BY <1>4 DEF Register
  <2> QED BY <1>1, <1>2, <1>4, <2>a, Put
<1> QED BY <1>3, <1>4

LEMMA CloseFdEffect ==
  ASSUME Types, NEW c \in Clients, CloseFd(c)
  PROVE  Moved(c, Placed(conn[c], "closed", NoFd))
<1>1. conn \in [Clients -> Connection] /\ conn[c] \in Connection
  BY DEF Types
<1>2. conn' = [conn EXCEPT ![c] = Placed(conn[c], "closed", NoFd)]
  BY <1>1 DEF CloseFd, Placed
<1>3. Placed(conn[c], "closed", NoFd) \in Connection
  BY <1>1, StateTypes DEF States, Placed
<1> QED BY <1>1, <1>2, <1>3, Put

ReadAll(r) == [r EXCEPT !.requests = r.requests \o Ids(r.wire), !.wire = <<>>]

Failed(r, id) ==
    [r EXCEPT !.requests = <<>>, !.wire = <<>>, !.closing = TRUE,
              !.output = Append(r.output, Reply(id, FALSE))]

Ended(r, read) ==
    [r EXCEPT !.wire = <<>>, !.requests = r.requests \o Ids(read), !.st = "erased"]

Written(r, n) ==
    [r EXCEPT !.output = SubSeq(r.output, n + 1, Len(r.output)),
              !.got = r.got \o SubSeq(r.output, 1, n)]

Responded(r, id) ==
    [r EXCEPT !.processing = FALSE, !.output = Append(r.output, Reply(id, TRUE))]

LEMMA ReplyTypes ==
  ASSUME NEW id \in Nat, NEW ok \in BOOLEAN, NEW s \in Seq(Frames)
  PROVE  /\ Reply(id, ok) \in Frames /\ Reply(id, ok).id = id /\ Reply(id, ok).ok = ok
         /\ Append(s, Reply(id, ok)) \in Seq(Frames)
<1>1. Reply(id, ok) \in Frames /\ Reply(id, ok).id = id /\ Reply(id, ok).ok = ok
  BY DEF Reply, Frames
<1> QED BY <1>1, AppendFrame

LEMMA SplitTypes ==
  ASSUME NEW s \in Seq(Frames), NEW n \in 1 .. Len(s)
  PROVE  /\ SubSeq(s, n + 1, Len(s)) \in Seq(Frames)
         /\ Len(SubSeq(s, n + 1, Len(s))) = Len(s) - n
         /\ SubSeq(s, 1, n) \in Seq(Frames)
         /\ Len(SubSeq(s, 1, n)) = n
  OBVIOUS

LEMMA RecordTypes ==
  ASSUME NEW r \in Connection
  PROVE  /\ ReadAll(r) \in Connection
         /\ \A id \in Nat : Failed(r, id) \in Connection /\ Responded(r, id) \in Connection
         /\ \A read \in Seq(Frames) : Ended(r, read) \in Connection
         /\ \A n \in 1 .. Len(r.output) : Written(r, n) \in Connection
         /\ Closed(r) \in Connection
<1>1. /\ r.wire \in Seq(Frames) /\ r.requests \in Seq(Nat) /\ r.output \in Seq(Frames)
      /\ r.got \in Seq(Frames)
  BY ConnectionTypes
<1>2. ReadAll(r) \in Connection
  <2>a. r.requests \o Ids(r.wire) \in Seq(Nat)
    BY <1>1, IdsTypes
  <2>b. PICK q \in Seq(Nat), w \in Seq(Frames) : q = r.requests \o Ids(r.wire) /\ w = <<>>
    BY <2>a, EmptyTypes
  <2>c. ReadAll(r) = [r EXCEPT !.requests = q, !.wire = w]
    BY <2>b DEF ReadAll
  <2> QED BY <2>c DEF Connection
<1>3. ASSUME NEW id \in Nat PROVE Failed(r, id) \in Connection /\ Responded(r, id) \in Connection
  <2>a. Append(r.output, Reply(id, FALSE)) \in Seq(Frames) /\ Append(r.output, Reply(id, TRUE)) \in Seq(Frames)
    BY <1>1, ReplyTypes
  <2>b. Failed(r, id) \in Connection
    <3>1. PICK q \in Seq(Nat), w \in Seq(Frames), o \in Seq(Frames) :
            q = <<>> /\ w = <<>> /\ o = Append(r.output, Reply(id, FALSE))
      BY <2>a, EmptyTypes
    <3>2. Failed(r, id) = [r EXCEPT !.requests = q, !.wire = w, !.closing = TRUE, !.output = o]
      BY <3>1 DEF Failed
    <3> QED BY <3>2 DEF Connection
  <2>c. Responded(r, id) \in Connection
    BY <2>a DEF Responded, Connection
  <2> QED BY <2>b, <2>c
<1>4. ASSUME NEW read \in Seq(Frames) PROVE Ended(r, read) \in Connection
  <2>a. r.requests \o Ids(read) \in Seq(Nat)
    BY <1>1, IdsTypes
  <2>b. PICK q \in Seq(Nat), w \in Seq(Frames) : q = r.requests \o Ids(read) /\ w = <<>>
    BY <2>a, EmptyTypes
  <2>c. Ended(r, read) = [r EXCEPT !.wire = w, !.requests = q, !.st = "erased"]
    BY <2>b DEF Ended
  <2> QED BY <2>c DEF Connection, States
<1>5. ASSUME NEW n \in 1 .. Len(r.output) PROVE Written(r, n) \in Connection
  <2>a. PICK a, b : a = SubSeq(r.output, n + 1, Len(r.output)) /\ b = r.got \o SubSeq(r.output, 1, n)
    OBVIOUS
  <2>b. a \in Seq(Frames) /\ SubSeq(r.output, 1, n) \in Seq(Frames)
    BY <1>1, <2>a, SplitTypes
  <2>c. b \in Seq(Frames)
    BY <1>1, <2>a, <2>b
  <2>d. Written(r, n) = [r EXCEPT !.output = a, !.got = b]
    BY <2>a, SMTT(30) DEF Written
  <2> QED BY <2>b, <2>c, <2>d DEF Connection
<1>6. Closed(r) \in Connection
  BY StateTypes DEF Closed, States
<1> QED BY <1>2, <1>3, <1>4, <1>5, <1>6

LEMMA HandleReadEffect ==
  ASSUME Types, NEW c \in Clients, HandleRead(c)
  PROVE  /\ ReadAll(conn[c]) \in Connection
         /\ Moved(c, SubmitNext(ReadAll(conn[c])))
         /\ tasks' = TasksAfter(c, ReadAll(conn[c]))
<1>1. /\ conn \in [Clients -> Connection] /\ conn[c] \in Connection
      /\ tasks \in Seq(Clients \X Nat)
  BY DEF Types
<1>2. ReadAll(conn[c]) \in Connection
  BY <1>1, RecordTypes
<1>3. SubmitNext(ReadAll(conn[c])) \in Connection
  BY <1>1, <1>2, SubmitTypes
<1>4. /\ conn' = [conn EXCEPT ![c] = SubmitNext(ReadAll(conn[c]))]
      /\ tasks' = TasksAfter(c, ReadAll(conn[c]))
  BY DEF HandleRead, ReadAll
<1> QED BY <1>1, <1>2, <1>3, <1>4, Put

LEMMA HandleBadFrameEffect ==
  ASSUME Types, NEW c \in Clients, HandleBadFrame(c)
  PROVE  \E id \in Nat : Moved(c, Failed(conn[c], id))
<1>1. conn \in [Clients -> Connection]
  BY DEF Types
<1>2. PICK r \in Connection : r = conn[c]
  BY <1>1
<1>3. PICK bad, first : /\ bad = {i \in DOMAIN r.wire : ~r.wire[i].ok}
                        /\ first = CHOOSE i \in bad : \A j \in bad : i <= j
  OBVIOUS
<1>4. bad # {} /\ conn' = [conn EXCEPT ![c].requests = <<>>,
                                ![c].wire = <<>>,
                                ![c].closing = TRUE,
                                ![c].output = Append(@, Reply(r.wire[first].id, FALSE))]
  BY <1>2, <1>3 DEF HandleBadFrame
<1>5. r.wire \in Seq(Frames) /\ DOMAIN r.wire = 1 .. Len(r.wire) /\ Len(r.wire) \in Nat
  BY ConnectionTypes
<1>6. \E i \in bad : \A j \in bad : i <= j
  <2>a. bad \subseteq 1 .. Len(r.wire)
    BY <1>3, <1>5
  <2>b. bad \subseteq Nat
    BY <2>a
  <2> QED BY <1>4, <2>b, LeastElement
<1>7. first \in bad
  BY <1>3, <1>6
<1>8. r.wire[first] \in Frames
  <2>a. first \in DOMAIN r.wire
    BY <1>3, <1>7
  <2> QED BY <1>5, <2>a
<1>9. PICK id \in Nat : id = r.wire[first].id
  BY <1>8 DEF Frames
<1>10. conn' = [conn EXCEPT ![c] = Failed(r, id)]
  BY <1>1, <1>2, <1>4, <1>9 DEF Failed
<1>11. Failed(r, id) \in Connection
  BY RecordTypes
<1> QED BY <1>1, <1>2, <1>10, <1>11, Put

LEMMA HandlePeerClosedEffect ==
  ASSUME Types, NEW c \in Clients, HandlePeerClosed(c)
  PROVE  /\ conn[c].st = "open" /\ connections' = Erased(c)
         /\ \E read \in {<<>>, conn[c].wire} : Moved(c, Ended(conn[c], read))
<1>1. conn \in [Clients -> Connection]
  BY DEF Types
<1>2. PICK r \in Connection : r = conn[c]
  BY <1>1
<1>3. PICK read \in {<<>>, r.wire} :
        conn' = [conn EXCEPT ![c] = Closed([r EXCEPT !.wire = <<>>, !.requests = @ \o Ids(read)])]
  BY <1>2 DEF HandlePeerClosed
<1>4. Closed([r EXCEPT !.wire = <<>>, !.requests = @ \o Ids(read)]) = Ended(r, read)
  BY DEF Closed, Ended, Connection
<1>5. read \in Seq(Frames)
  BY ConnectionTypes, EmptyTypes
<1>6. Ended(r, read) \in Connection
  BY <1>5, RecordTypes
<1>7. conn' = [conn EXCEPT ![c] = Ended(r, read)]
  BY <1>3, <1>4
<1> QED BY <1>1, <1>2, <1>6, <1>7, Put DEF HandlePeerClosed, Live

LEMMA HandleWriteEffect ==
  ASSUME Types, NEW c \in Clients, NEW n, HandleWrite(c, n)
  PROVE  /\ n \in 1 .. Len(conn[c].output) /\ conn[c].st = "open"
         /\ \/ connections' = connections /\ Moved(c, Written(conn[c], n))
            \/ connections' = Erased(c) /\ Moved(c, Closed(Written(conn[c], n)))
<1>1. conn \in [Clients -> Connection] /\ conn[c] \in Connection
  BY DEF Types
<1>2. PICK q : q = Written(conn[c], n)
  OBVIOUS
<1>3. /\ n \in 1 .. Len(conn[c].output) /\ conn[c].st = "open"
      /\ conn' = [conn EXCEPT ![c] = IF q.output = <<>> /\ q.closing THEN Closed(q) ELSE q]
      /\ connections' = IF q.output = <<>> /\ q.closing THEN Erased(c) ELSE connections
  BY <1>2 DEF HandleWrite, Written, Live
<1>4. q \in Connection /\ Closed(q) \in Connection
  BY <1>1, <1>2, <1>3, RecordTypes
<1>5. CASE q.output = <<>> /\ q.closing
  BY <1>1, <1>2, <1>3, <1>4, <1>5, Put
<1>6. CASE ~(q.output = <<>> /\ q.closing)
  BY <1>1, <1>2, <1>3, <1>4, <1>6, Put
<1> QED BY <1>3, <1>5, <1>6

LEMMA OnResponseEffect ==
  ASSUME Types, NEW c \in Clients, OnResponse(c)
  PROVE  \E id \in Nat, r \in Connection :
            /\ id = Head(pending[c]).id
            /\ r = Responded(conn[c], id)
            /\ Moved(c, Released(c, SubmitNext(r), TasksAfter(c, r)))
            /\ tasks' = TasksAfter(c, r)
<1>1. /\ conn \in [Clients -> Connection] /\ conn[c] \in Connection
      /\ tasks \in Seq(Clients \X Nat)
  BY DEF Types
<1>2. PICK id \in Nat : id = Head(pending[c]).id
  BY DueTypes DEF OnResponse
<1>3. PICK r \in Connection : r = Responded(conn[c], id)
  BY <1>1, RecordTypes
<1>4. Released(c, SubmitNext(r), TasksAfter(c, r)) \in Connection
  BY <1>1, SubmitTypes, ReleasedTypes
<1>5. /\ conn' = [conn EXCEPT ![c] = Released(c, SubmitNext(r), TasksAfter(c, r))]
      /\ tasks' = TasksAfter(c, r)
  BY <1>2, <1>3 DEF OnResponse, Responded
<1> QED BY <1>1, <1>2, <1>3, <1>4, <1>5, Put

LEMMA ShutdownEffect ==
  ASSUME Types, NEW c \in Clients, Shutdown(c)
  PROVE  \E r \in Connection :
            /\ r = [conn[c] EXCEPT !.closing = TRUE]
            /\ r.st = conn[c].st /\ r.fd = conn[c].fd
            /\ \/ connections' = connections /\ Moved(c, Released(c, r, tasks))
               \/ r.st = "open" /\ connections' = Erased(c) /\ Moved(c, Closed(r))
<1>1. conn \in [Clients -> Connection] /\ conn[c] \in Connection
  BY DEF Types
<1>2. PICK r \in Connection : r = [conn[c] EXCEPT !.closing = TRUE]
  BY <1>1, StateTypes DEF States
<1>3. r.st = conn[c].st /\ r.fd = conn[c].fd
  BY <1>1, <1>2 DEF Connection
<1>4. Released(c, r, tasks) \in Connection /\ Closed(r) \in Connection
  BY RecordTypes, ReleasedTypes
<1>5. CASE r.st = "open" /\ r.output = <<>>
  <2>a. conn' = [conn EXCEPT ![c] = Closed(r)] /\ connections' = Erased(c)
    BY <1>2, <1>5 DEF Shutdown
  <2> QED BY <1>1, <1>2, <1>3, <1>4, <1>5, <2>a, Put
<1>6. CASE ~(r.st = "open" /\ r.output = <<>>)
  <2>a. conn' = [conn EXCEPT ![c] = Released(c, r, tasks)] /\ connections' = connections
    BY <1>2, <1>6 DEF Shutdown
  <2> QED BY <1>1, <1>2, <1>3, <1>4, <2>a, Put
<1> QED BY <1>5, <1>6

\* Emptying the map closes the backlog, releasing the vector closes what only it owned.
LEMMA ShutdownAllEffect ==
  ASSUME Types, ShutdownAll
  PROVE  /\ conn' \in [Clients -> Connection]
         /\ \A c \in Clients : \/ conn'[c] = conn[c] /\ conn[c].st # "backlog"
                               \/ conn'[c] = [conn[c] EXCEPT !.st = "closed"] /\ conn[c].st = "backlog"
<1>1. conn \in [Clients -> Connection]
  BY DEF Types
<1>2. \A c \in Clients : [conn[c] EXCEPT !.st = "closed"] \in Connection
  BY <1>1, StateTypes DEF States
<1> QED BY <1>1, <1>2 DEF ShutdownAll

LEMMA ReleaseHeldEffect ==
  ASSUME Types, ReleaseHeld
  PROVE  /\ conn' \in [Clients -> Connection]
         /\ \A c \in Clients :
               \/ conn'[c] = conn[c]
               \/ conn'[c] = Closed(conn[c]) /\ conn[c].st = "open"
<1>1. conn \in [Clients -> Connection]
  BY DEF Types
<1>2. \A c \in Clients : Closed(conn[c]) \in Connection
  BY <1>1, RecordTypes
<1> QED BY <1>1, <1>2 DEF ReleaseHeld

LEMMA TypesInit == Init => Types
<1> SUFFICES ASSUME Init PROVE Types
  OBVIOUS
<1>1. NewConnection \in Connection
  <2>a. PICK a \in Seq(Frames), b \in Seq(Nat) : a = <<>> /\ b = <<>>
    BY EmptyTypes
  <2>b. NewConnection = [st |-> "none", fd |-> NoFd, peer |-> TRUE, wire |-> a, sent |-> 0,
                         got |-> a, requests |-> b, processing |-> FALSE, closing |-> FALSE,
                         output |-> a]
    BY <2>a DEF NewConnection
  <2> QED BY <2>b DEF Connection, States
<1>2. <<>> \in Seq(Functors) /\ <<>> \in Seq(Clients \X Nat)
  OBVIOUS
<1>3. conn \in [Clients -> Connection] /\ pending \in [Clients -> Seq(Functors)]
  BY <1>1, <1>2 DEF Init
<1> QED BY <1>2, <1>3 DEF Init, Types, Stages

\* A functor is queued, or the first one has run.
LEMMA PendingAppend ==
  ASSUME Types, NEW c \in Clients, NEW f \in Functors,
         pending' = [pending EXCEPT ![c] = Append(@, f)]
  PROVE  /\ pending' \in [Clients -> Seq(Functors)]
         /\ pending'[c] = Append(pending[c], f)
         /\ \A d \in Clients \ {c} : pending'[d] = pending[d]
<1>1. pending \in [Clients -> Seq(Functors)] /\ Append(pending[c], f) \in Seq(Functors)
  BY PendingTypes DEF Types
<1> QED BY <1>1

LEMMA PendingTail ==
  ASSUME Types, NEW c \in Clients, NEW kind, Due(c, kind),
         pending' = [pending EXCEPT ![c] = Tail(@)]
  PROVE  /\ pending' \in [Clients -> Seq(Functors)]
         /\ pending'[c] = Tail(pending[c])
         /\ \A d \in Clients \ {c} : pending'[d] = pending[d]
<1>1. pending \in [Clients -> Seq(Functors)] /\ Tail(pending[c]) \in Seq(Functors)
  BY DueTypes DEF Types
<1> QED BY <1>1

LEMMA TypesStep == Types /\ [Next]_vars => Types'
<1> SUFFICES ASSUME Types, [Next]_vars PROVE Types'
  OBVIOUS
<1> USE DEF control
<1>1. ASSUME NEW c \in Clients, Connect(c) PROVE Types'
  BY <1>1, ConnectEffect DEF Connect, Moved, Types
<1>2. ASSUME NEW c \in Clients, NEW ok \in BOOLEAN, Send(c, ok) PROVE Types'
  BY <1>2, SendEffect DEF Send, Moved, Types
<1>3. ASSUME NEW c \in Clients, Disconnect(c) PROVE Types'
  BY <1>3, DisconnectEffect DEF Disconnect, Moved, Types
<1>4. ASSUME NEW c \in Clients, NEW fd \in Fds, HandleAccept(c, fd) PROVE Types'
  <2>a. conn' \in [Clients -> Connection]
    BY <1>4, HandleAcceptEffect DEF Moved
  <2>b. [kind |-> "register"] \in Functors
    BY DEF Functors
  <2>c. pending' \in [Clients -> Seq(Functors)]
    BY <1>4, <2>b, HandleAcceptEffect, PendingAppend DEF Types
  <2> QED BY <1>4, <2>a, <2>c DEF HandleAccept, Types
<1>5. ASSUME NEW c \in Clients, Register(c) PROVE Types'
  <2>a. conn' \in [Clients -> Connection] /\ (connections' = connections \/ connections' = Entered(c))
    BY <1>5, RegisterEffect DEF Moved
  <2>b. connections' \in [Fds -> Clients \cup {NoConn}]
    BY <2>a DEF Types, Entered
  <2>c. pending' \in [Clients -> Seq(Functors)]
    BY <1>5, PendingTail DEF Register
  <2> QED BY <1>5, <2>a, <2>b, <2>c DEF Register, Types
<1>6. ASSUME NEW c \in Clients PROVE Erased(c) \in [Fds -> Clients \cup {NoConn}]
  BY DEF Erased, Types
<1>7. ASSUME NEW c \in Clients, Shutdown(c) PROVE Types'
  <2>a. conn' \in [Clients -> Connection] /\ (connections' = connections \/ connections' = Erased(c))
    BY <1>7, ShutdownEffect DEF Moved
  <2>b. connections' \in [Fds -> Clients \cup {NoConn}]
    BY <1>6, <2>a DEF Types
  <2>c. pending' \in [Clients -> Seq(Functors)]
    BY <1>7, PendingTail DEF Shutdown
  <2> QED BY <1>7, <2>a, <2>b, <2>c DEF Shutdown, Types
<1>8. ASSUME NEW c \in Clients, OnResponse(c) PROVE Types'
  <2>a. conn' \in [Clients -> Connection]
    BY <1>8, OnResponseEffect DEF Moved
  <2>b. tasks' \in Seq(Clients \X Nat)
    BY <1>8, OnResponseEffect, SubmitTypes DEF Types
  <2>c. pending' \in [Clients -> Seq(Functors)]
    BY <1>8, PendingTail DEF OnResponse
  <2> QED BY <1>8, <2>a, <2>b, <2>c DEF OnResponse, Types
<1>9. ASSUME NEW c \in Clients, HandleRead(c) PROVE Types'
  <2>a. conn' \in [Clients -> Connection] /\ ReadAll(conn[c]) \in Connection
        /\ tasks' = TasksAfter(c, ReadAll(conn[c]))
    BY <1>9, HandleReadEffect DEF Moved
  <2>b. tasks' \in Seq(Clients \X Nat)
    BY <2>a, SubmitTypes DEF Types
  <2> QED BY <1>9, <2>a, <2>b DEF HandleRead, Types
<1>10. ASSUME NEW c \in Clients, HandleBadFrame(c) PROVE Types'
  <2>a. conn' \in [Clients -> Connection]
    BY <1>10, HandleBadFrameEffect DEF Moved
  <2> QED BY <1>10, <2>a DEF HandleBadFrame, Types
<1>11. ASSUME NEW c \in Clients, HandlePeerClosed(c) PROVE Types'
  <2>a. conn' \in [Clients -> Connection] /\ connections' = Erased(c)
    BY <1>11, HandlePeerClosedEffect DEF Moved
  <2> QED BY <1>6, <1>11, <2>a DEF HandlePeerClosed, Types
<1>12. ASSUME NEW c \in Clients, NEW n, HandleWrite(c, n) PROVE Types'
  <2>a. conn' \in [Clients -> Connection] /\ (connections' = connections \/ connections' = Erased(c))
    BY <1>12, HandleWriteEffect DEF Moved
  <2>b. connections' \in [Fds -> Clients \cup {NoConn}]
    BY <1>6, <2>a DEF Types
  <2> QED BY <1>12, <2>a, <2>b DEF HandleWrite, Types
<1>13. ASSUME NEW c \in Clients, CloseFd(c) PROVE Types'
  BY <1>13, CloseFdEffect DEF CloseFd, Moved, Types
<1>14. ASSUME NEW w \in Workers, TakeTask(w) PROVE Types'
  <2>a. tasks \in Seq(Clients \X Nat) /\ tasks # <<>>
    BY <1>14 DEF TakeTask, Types
  <2>b. Head(tasks) \in Clients \X Nat /\ Tail(tasks) \in Seq(Clients \X Nat)
    BY <2>a
  <2> QED BY <1>14, <2>b DEF TakeTask, Types
<1>15. ASSUME NEW w \in Workers, FinishTask(w) PROVE Types'
  <2>a. busy[w] \in Clients \X Nat
    BY <1>15 DEF FinishTask, Types
  <2>b. PICK c \in Clients, id \in Nat : c = busy[w][1] /\ id = busy[w][2]
    BY <2>a
  <2>c. [kind |-> "response", id |-> id] \in Functors
    BY DEF Functors
  <2>d. pending' = [pending EXCEPT ![c] = Append(@, [kind |-> "response", id |-> id])]
    BY <1>15, <2>b DEF FinishTask
  <2>e. pending' \in [Clients -> Seq(Functors)]
    BY <2>c, <2>d, PendingAppend
  <2> QED BY <1>15, <2>e DEF FinishTask, Types
<1>16. CASE Loop \/ StopFlag \/ StopPool \/ StopWorkers \/ StopLoops
  BY <1>16 DEF Loop, StopFlag, StopPool, StopWorkers, StopLoops, Types, Stages
<1>17. CASE ShutdownAll
  <2>a. held' \subseteq Clients
    BY <1>17 DEF ShutdownAll, Registered, Types
  <2>b. connections' \in [Fds -> Clients \cup {NoConn}]
    BY <1>17 DEF ShutdownAll
  <2>c. \A c \in Clients : Append(pending[c], [kind |-> "shutdown"]) \in Seq(Functors)
    <3>1. [kind |-> "shutdown"] \in Functors
      BY DEF Functors
    <3> QED BY <3>1, PendingTypes
  <2>d. pending' \in [Clients -> Seq(Functors)]
    BY <1>17, <2>c, PendingTypes DEF ShutdownAll
  <2> QED BY <1>17, <2>a, <2>b, <2>d, ShutdownAllEffect DEF ShutdownAll, Types, Stages
<1>18. CASE ReleaseHeld
  BY <1>18, ReleaseHeldEffect DEF ReleaseHeld, Types
<1>19. CASE UNCHANGED vars
  BY <1>19 DEF vars, Types
<1> QED
  BY <1>1, <1>2, <1>3, <1>4, <1>5, <1>7, <1>8, <1>9, <1>10, <1>11, <1>12, <1>13, <1>14,
     <1>15, <1>16, <1>17, <1>18, <1>19
     DEF Next, ClientStep, LoopStep, WorkerStep, StopStep, StopConnections

----------------------------------------
(* Queued functors *)

Alive == {"open", "erased", "closed"}

\* The state and the descriptor that the handlers leave.
LEMMA RecordStates ==
  ASSUME NEW r \in Connection
  PROVE  /\ ReadAll(r).st = r.st /\ ReadAll(r).fd = r.fd
         /\ \A id : Failed(r, id).st = r.st /\ Failed(r, id).fd = r.fd
         /\ \A id : Responded(r, id).st = r.st /\ Responded(r, id).fd = r.fd
         /\ \A read : Ended(r, read).st = "erased" /\ Ended(r, read).fd = r.fd
         /\ \A n : Written(r, n).st = r.st /\ Written(r, n).fd = r.fd
         /\ Closed(r).st = "erased" /\ Closed(r).fd = r.fd
  BY DEF Connection, ReadAll, Failed, Responded, Ended, Written, Closed

LEMMA ReleasedState ==
  ASSUME NEW c \in Clients, NEW r \in Connection, NEW ts
  PROVE  /\ Released(c, r, ts).fd = r.fd
         /\ \/ Released(c, r, ts) = r
            \/ r.st = "open" /\ Released(c, r, ts).st = "erased"
  BY DEF Released, Connection

\* The worker pool takes nothing any more.
LEMMA NothingSubmitted ==
  ASSUME stage \in {"loops", "stopped"}, NEW c, NEW r
  PROVE  TasksAfter(c, r) = tasks
  BY DEF TasksAfter, Accepted

\* A connection with a request at the workers, or a functor, has been registered.
LEMMA FlyingAlive ==
  ASSUME Types, Order, NEW c \in Clients, conn[c].processing
  PROVE  conn[c].st \in Alive
  BY ConnectionTypes DEF Types, Order, Numbered, Chain, States, Alive

LEMMA DueAlive ==
  ASSUME Types, Queued, NEW c \in Clients, NEW kind, Due(c, kind), kind # "register"
  PROVE  conn[c].st \in Alive
<1>1. pending[c] # <<>> /\ pending[c][1].kind = kind
  BY DueTypes
<1>2. conn[c].st \in States
  BY ConnectionTypes DEF Types
<1>3. conn[c].st # "queued"
  <2>a. <<[kind |-> "register"]>>[1].kind = "register"
    OBVIOUS
  <2> QED BY <1>1, <2>a DEF Queued
<1> QED BY <1>1, <1>2, <1>3 DEF Queued, States, Alive

LEMMA DueRegister ==
  ASSUME Types, Queued, NEW c \in Clients, Due(c, "register")
  PROVE  conn[c].st = "queued" /\ Tail(pending[c]) = <<>>
<1>1. /\ pending[c] # <<>> /\ pending[c][1].kind = "register"
      /\ 1 \in DOMAIN pending[c]
  BY DueTypes
<1>2. conn[c].st \in States
  BY ConnectionTypes DEF Types
<1>3. conn[c].st = "queued"
  BY <1>1, <1>2 DEF Queued, States
<1>4. pending[c] = <<[kind |-> "register"]>>
  BY <1>3 DEF Queued
<1> QED BY <1>3, <1>4

\* A step that leaves the functors of all connections but c, and the states of all but c.
LEMMA QueuedKept ==
  ASSUME Types, Types', Queued, NEW c \in Clients,
         \A d \in Clients \ {c} : conn'[d] = conn[d] /\ pending'[d] = pending[d],
         conn'[c].st \in {"none", "backlog"} => pending'[c] = <<>>,
         conn'[c].st = "queued" => pending'[c] = <<[kind |-> "register"]>>,
         conn'[c].st \in Alive => \A i \in DOMAIN pending'[c] : pending'[c][i].kind # "register",
         stage \in {"loops", "stopped"} => tasks' = tasks /\ busy' = busy,
         stage' = stage,
         stage = "stopped" => pending'[c] = <<>>
  PROVE  Queued'
  BY DEF Queued, Alive

LEMMA TailKinds ==
  ASSUME NEW f \in Seq(Functors), f # <<>>, NEW kind,
         \A i \in DOMAIN f : f[i].kind # kind
  PROVE  \A i \in DOMAIN Tail(f) : Tail(f)[i].kind # kind
<1>1. Len(Tail(f)) = Len(f) - 1 /\ Len(f) \in Nat /\ DOMAIN Tail(f) = 1 .. Len(f) - 1
  OBVIOUS
<1>2. ASSUME NEW i \in DOMAIN Tail(f) PROVE Tail(f)[i] = f[i + 1] /\ i + 1 \in DOMAIN f
  BY <1>1
<1> QED BY <1>2

LEMMA QueuedStep ==
  Types /\ Types' /\ Mapped /\ Queued /\ Order /\ Flying /\ [Next]_vars => Queued'
<1> SUFFICES ASSUME Types, Types', Mapped, Queued, Order, Flying, [Next]_vars PROVE Queued'
  OBVIOUS
<1> USE DEF control
<1>0. \A c \in Clients : conn[c] \in Connection /\ conn[c].st \in States
  BY ConnectionTypes DEF Types
\* The functors stay, and the state stays or ends.
<1>1. ASSUME NEW c \in Clients, NEW q, Moved(c, q), pending' = pending, stage' = stage,
             stage \in {"loops", "stopped"} => tasks' = tasks /\ busy' = busy,
             \/ q.st = conn[c].st
             \/ conn[c].st = "none" /\ q.st = "backlog"
             \/ conn[c].st \in {"none", "backlog"} \cup Alive /\ q.st \in Alive
      PROVE  Queued'
  <2>a. conn[c].st \in {"none", "backlog"} => \A i \in DOMAIN pending[c] : FALSE
    BY DEF Queued
  <2> QED BY <1>1, <2>a, QueuedKept DEF Moved, Queued, Alive
<1>2. ASSUME NEW c \in Clients, Connect(c) PROVE Queued'
  <2>a. Moved(c, [conn[c] EXCEPT !.st = "backlog"]) /\ conn[c].st = "none"
    BY <1>2, ConnectEffect DEF Connect
  <2>b. [conn[c] EXCEPT !.st = "backlog"].st = "backlog"
    BY <1>0 DEF Connection
  <2> QED BY <1>1, <1>2, <2>a, <2>b DEF Connect
<1>3. ASSUME NEW c \in Clients, NEW ok \in BOOLEAN, Send(c, ok) PROVE Queued'
  <2>a. PICK q : Moved(c, q) /\ q.st = conn[c].st
    <3>1. Moved(c, Sent(conn[c], ok))
      BY <1>3, SendEffect
    <3>2. Sent(conn[c], ok).st = conn[c].st
      BY <1>0 DEF Connection, Sent
    <3> QED BY <3>1, <3>2
  <2> QED BY <1>1, <1>3, <2>a DEF Send
<1>4. ASSUME NEW c \in Clients, Disconnect(c) PROVE Queued'
  <2>a. Moved(c, [conn[c] EXCEPT !.peer = FALSE])
    BY <1>4, DisconnectEffect
  <2>b. [conn[c] EXCEPT !.peer = FALSE].st = conn[c].st
    BY <1>0 DEF Connection
  <2> QED BY <1>1, <1>4, <2>a, <2>b DEF Disconnect
<1>5. ASSUME NEW c \in Clients, NEW fd \in Fds, HandleAccept(c, fd) PROVE Queued'
  <2>a. conn[c].st = "backlog" /\ pending[c] = <<>> /\ stage' = stage /\ BeforeStop
        /\ tasks' = tasks /\ busy' = busy
    BY <1>5 DEF HandleAccept, Queued, BeforeStop
  <2>b. CASE pending' = pending /\ Moved(c, [conn[c] EXCEPT !.st = "closed"])
    <3>1. [conn[c] EXCEPT !.st = "closed"].st = "closed"
      BY <1>0 DEF Connection
    <3> QED BY <1>1, <2>a, <2>b, <3>1 DEF Alive
  <2>c. CASE /\ pending' = [pending EXCEPT ![c] = Append(@, [kind |-> "register"])]
             /\ Moved(c, Placed(conn[c], "queued", fd))
    <3>1. [kind |-> "register"] \in Functors
      BY DEF Functors
    <3>2. /\ pending'[c] = Append(pending[c], [kind |-> "register"])
          /\ \A d \in Clients \ {c} : pending'[d] = pending[d]
      BY <2>c, <3>1, PendingAppend
    <3>3. pending'[c] = <<[kind |-> "register"]>>
      BY <2>a, <3>2
    <3>4. conn'[c].st = "queued" /\ \A d \in Clients \ {c} : conn'[d] = conn[d]
      <4>1. Placed(conn[c], "queued", fd).st = "queued"
        BY <1>0 DEF Connection, Placed
      <4> QED BY <2>c, <4>1 DEF Moved
    <3> QED BY <2>a, <3>2, <3>3, <3>4, QueuedKept DEF BeforeStop, Alive
  <2> QED BY <1>5, <2>b, <2>c, HandleAcceptEffect
<1>6. ASSUME NEW c \in Clients, Register(c) PROVE Queued'
  <2>a. Due(c, "register") /\ stage' = stage /\ tasks' = tasks /\ busy' = busy
    BY <1>6 DEF Register
  <2>b. pending'[c] = <<>> /\ \A d \in Clients \ {c} : pending'[d] = pending[d]
    BY <1>6, <2>a, PendingTail, DueRegister DEF Register
  <2>c. conn'[c].st \in Alive /\ \A d \in Clients \ {c} : conn'[d] = conn[d]
    <3>1. /\ [conn[c] EXCEPT !.st = "erased"].st = "erased"
          /\ [conn[c] EXCEPT !.st = "open"].st = "open"
      BY <1>0 DEF Connection
    <3> QED BY <1>6, <3>1, RegisterEffect DEF Moved, Alive
  <2> QED BY <2>a, <2>b, <2>c, QueuedKept DEF Alive
\* A functor of a registered connection has run.
<1>7. ASSUME NEW c \in Clients, NEW kind, Due(c, kind), kind # "register",
             pending' = [pending EXCEPT ![c] = Tail(@)],
             conn'[c].st \in Alive, \A d \in Clients \ {c} : conn'[d] = conn[d],
             stage' = stage, busy' = busy,
             stage \in {"loops", "stopped"} => tasks' = tasks
      PROVE  Queued'
  <2>a. pending'[c] = Tail(pending[c]) /\ \A d \in Clients \ {c} : pending'[d] = pending[d]
    BY <1>7, PendingTail
  <2>b. pending[c] \in Seq(Functors) /\ pending[c] # <<>>
    BY <1>7, DueTypes
  <2>c. \A i \in DOMAIN pending[c] : pending[c][i].kind # "register"
    BY <1>7, DueAlive DEF Queued, Alive
  <2>d. \A i \in DOMAIN pending'[c] : pending'[c][i].kind # "register"
    BY <2>a, <2>b, <2>c, TailKinds
  <2>e. stage # "stopped"
    BY <2>b DEF Queued
  <2> QED BY <1>7, <2>a, <2>d, <2>e, QueuedKept DEF Alive
<1>8. ASSUME NEW c \in Clients, Shutdown(c) PROVE Queued'
  <2>a. Due(c, "shutdown")
    BY <1>8 DEF Shutdown
  <2>b. conn[c].st \in Alive
    BY <2>a, DueAlive
  <2>c. conn'[c].st \in Alive /\ \A d \in Clients \ {c} : conn'[d] = conn[d]
    BY <1>8, <2>b, ShutdownEffect, RecordStates, ReleasedState DEF Moved, Alive
  <2> QED BY <1>7, <1>8, <2>a, <2>c DEF Shutdown
<1>9. ASSUME NEW c \in Clients, OnResponse(c) PROVE Queued'
  <2>a. Due(c, "response")
    BY <1>9 DEF OnResponse
  <2>b. conn[c].st \in Alive
    BY <2>a, DueAlive
  <2>c. PICK id \in Nat, r \in Connection :
            /\ r = Responded(conn[c], id)
            /\ Moved(c, Released(c, SubmitNext(r), TasksAfter(c, r)))
            /\ tasks' = TasksAfter(c, r)
    BY <1>9, OnResponseEffect
  <2>d. r.st = conn[c].st
    BY <1>0, <2>c, RecordStates
  <2>e. SubmitNext(r) \in Connection /\ SubmitNext(r).st = r.st
    BY SubmitTypes DEF Types
  <2>f. conn'[c].st \in Alive /\ \A d \in Clients \ {c} : conn'[d] = conn[d]
    BY <2>b, <2>c, <2>d, <2>e, ReleasedState DEF Moved, Alive
  <2>g. stage \in {"loops", "stopped"} => tasks' = tasks
    BY <2>c, NothingSubmitted
  <2> QED BY <1>7, <1>9, <2>a, <2>f, <2>g DEF OnResponse
<1>10. ASSUME NEW c \in Clients, HandleRead(c) PROVE Queued'
  <2>a. /\ ReadAll(conn[c]) \in Connection
        /\ Moved(c, SubmitNext(ReadAll(conn[c])))
        /\ tasks' = TasksAfter(c, ReadAll(conn[c]))
    BY <1>10, HandleReadEffect
  <2>b. SubmitNext(ReadAll(conn[c])).st = conn[c].st
    BY <1>0, <2>a, SubmitTypes, RecordStates DEF Types
  <2>c. stage \in {"loops", "stopped"} => tasks' = tasks
    BY <2>a, NothingSubmitted
  <2> QED BY <1>1, <1>10, <2>a, <2>b, <2>c DEF HandleRead
<1>11. ASSUME NEW c \in Clients, HandleBadFrame(c) PROVE Queued'
  <2>a. PICK id \in Nat : Moved(c, Failed(conn[c], id))
    BY <1>11, HandleBadFrameEffect
  <2>b. Failed(conn[c], id).st = conn[c].st
    BY <1>0, RecordStates
  <2> QED BY <1>1, <1>11, <2>a, <2>b DEF HandleBadFrame
<1>12. ASSUME NEW c \in Clients, HandlePeerClosed(c) PROVE Queued'
  <2>a. PICK read \in {<<>>, conn[c].wire} : Moved(c, Ended(conn[c], read)) /\ conn[c].st = "open"
    BY <1>12, HandlePeerClosedEffect
  <2>b. Ended(conn[c], read).st = "erased"
    BY <1>0, RecordStates
  <2> QED BY <1>1, <1>12, <2>a, <2>b DEF HandlePeerClosed, Alive
<1>13. ASSUME NEW c \in Clients, NEW n, HandleWrite(c, n) PROVE Queued'
  <2>a. /\ conn[c].st = "open" /\ n \in 1 .. Len(conn[c].output)
        /\ Moved(c, Written(conn[c], n)) \/ Moved(c, Closed(Written(conn[c], n)))
    BY <1>13, HandleWriteEffect
  <2>b. Written(conn[c], n) \in Connection
    BY <1>0, <2>a, RecordTypes
  <2>c. Written(conn[c], n).st = "open" /\ Closed(Written(conn[c], n)).st = "erased"
    BY <1>0, <2>a, <2>b, RecordStates
  <2> QED BY <1>1, <1>13, <2>a, <2>c DEF HandleWrite, Alive
<1>14. ASSUME NEW c \in Clients, CloseFd(c) PROVE Queued'
  <2>a. Moved(c, Placed(conn[c], "closed", NoFd)) /\ conn[c].st = "erased"
    BY <1>14, CloseFdEffect DEF CloseFd
  <2>b. Placed(conn[c], "closed", NoFd).st = "closed"
    BY <1>0 DEF Connection, Placed
  <2> QED BY <1>1, <1>14, <2>a, <2>b DEF CloseFd, Alive
<1>15. ASSUME NEW w \in Workers, TakeTask(w) PROVE Queued'
  BY <1>15 DEF TakeTask, Queued
<1>16. ASSUME NEW w \in Workers, FinishTask(w) PROVE Queued'
  <2>a. busy[w] \in Clients \X Nat
    BY <1>16 DEF FinishTask, Types
  <2>b. PICK c \in Clients, id \in Nat : c = busy[w][1] /\ id = busy[w][2]
    BY <2>a
  <2>c. [kind |-> "response", id |-> id] \in Functors
    BY DEF Functors
  <2>d. pending' = [pending EXCEPT ![c] = Append(@, [kind |-> "response", id |-> id])]
    BY <1>16, <2>b DEF FinishTask
  <2>e. /\ pending'[c] = Append(pending[c], [kind |-> "response", id |-> id])
        /\ \A d \in Clients \ {c} : pending'[d] = pending[d]
    BY <2>c, <2>d, PendingAppend
  <2>f. conn[c].st \in Alive
    BY <1>16, <2>b, FlyingAlive DEF FinishTask, Flying, Carried, Expected
  <2>g. \A i \in DOMAIN pending[c] : pending[c][i].kind # "register"
    BY <2>f DEF Queued, Alive
  <2>h. \A i \in DOMAIN pending'[c] : pending'[c][i].kind # "register"
    BY <2>e, <2>g, PendingTypes
  <2>i. stage \notin {"loops", "stopped"} /\ stage' = stage /\ conn' = conn
    BY <1>16 DEF FinishTask, Queued
  <2> QED BY <2>e, <2>f, <2>h, <2>i, QueuedKept DEF Alive
<1>17. CASE Loop \/ StopFlag \/ StopPool
  BY <1>17 DEF Loop, StopFlag, StopPool, Queued
<1>18. CASE StopWorkers
  BY <1>18 DEF StopWorkers, Queued
<1>19. CASE StopLoops
  BY <1>19 DEF StopLoops, Queued
<1>20. CASE ShutdownAll
  <2>a. stage' = "cleared"
    BY <1>20 DEF ShutdownAll
  <2>b. ASSUME NEW c \in Clients
        PROVE  /\ conn'[c].st = conn[c].st \/ (conn[c].st = "backlog" /\ conn'[c].st = "closed")
               /\ \/ pending'[c] = pending[c]
                  \/ /\ conn[c].st = "open"
                     /\ pending'[c] = Append(pending[c], [kind |-> "shutdown"])
    <3>1. conn'[c].st = conn[c].st \/ (conn[c].st = "backlog" /\ conn'[c].st = "closed")
      <4>1. [conn[c] EXCEPT !.st = "closed"].st = "closed"
        BY <1>0 DEF Connection
      <4> QED BY <1>20, <4>1, ShutdownAllEffect
    <3>2. CASE pending'[c] = pending[c]
      BY <3>1, <3>2
    <3>3. CASE pending'[c] # pending[c]
      <4>1. /\ pending'[c] = Append(pending[c], [kind |-> "shutdown"])
            /\ \E fd \in Registered : c = connections[fd]
        BY <1>20, <3>3 DEF ShutdownAll
      <4>2. conn[c].st = "open"
        BY <4>1 DEF Mapped, Registered
      <4> QED BY <3>1, <4>1, <4>2
    <3> QED BY <3>2, <3>3
  <2>c. ASSUME NEW c \in Clients, conn'[c].st \in Alive
        PROVE  \A i \in DOMAIN pending'[c] : pending'[c][i].kind # "register"
    <3>1. \A i \in DOMAIN pending[c] : pending[c][i].kind # "register"
      BY <2>b, <2>c DEF Queued, Alive
    <3>2. CASE pending'[c] = pending[c]
      BY <3>1, <3>2
    <3>3. CASE pending'[c] = Append(pending[c], [kind |-> "shutdown"])
      BY <3>1, <3>3, PendingTypes
    <3> QED BY <2>b, <3>2, <3>3
  <2>d. ASSUME NEW c \in Clients, conn'[c].st \notin Alive
        PROVE  conn'[c].st = conn[c].st /\ pending'[c] = pending[c]
    BY <2>b, <2>d DEF Alive
  <2> QED BY <2>a, <2>c, <2>d DEF Queued, Alive
<1>21. CASE ReleaseHeld
  <2>a. \A c \in Clients : conn'[c].st = conn[c].st \/ (conn[c].st = "open" /\ conn'[c].st = "erased")
    BY <1>0, <1>21, ReleaseHeldEffect, RecordStates
  <2> QED BY <1>21, <2>a DEF ReleaseHeld, Queued
<1>22. CASE UNCHANGED vars
  BY <1>22 DEF vars, Queued
<1> QED
  BY <1>2, <1>3, <1>4, <1>5, <1>6, <1>8, <1>9, <1>10, <1>11, <1>12, <1>13, <1>14,
     <1>15, <1>16, <1>17, <1>18, <1>19, <1>20, <1>21, <1>22
     DEF Next, ClientStep, LoopStep, WorkerStep, StopStep, StopConnections

----------------------------------------
(* Descriptors and the map *)

LEMMA MappedMove ==
  ASSUME Types, Types', Mapped, NEW c \in Clients,
         \A d \in Clients \ {c} : conn'[d] = conn[d],
         conn'[c].st \in HasFd => conn[c].st \in HasFd /\ conn'[c].fd = conn[c].fd,
         conn'[c].st = "open" => conn[c].st = "open" /\ connections' = connections,
         \A fd \in Fds : \/ connections'[fd] = connections[fd]
                         \/ connections'[fd] = NoConn /\ connections[fd] \in {c, NoConn},
         \A fd \in Fds : connections'[fd] = c => conn'[c].st = "open",
         stage' = stage, held' = held,
         ~BeforeStop => \A d \in Clients : conn'[d].st = "open" /\ Kept(d) => Kept(d)'
  PROVE  Mapped'
<1> USE DEF HasFd
<1>1. \A d \in Clients : conn'[d].st \in HasFd => conn[d].st \in HasFd /\ conn'[d].fd = conn[d].fd
  OBVIOUS
<1>2. \A d \in Clients : conn'[d].st \in HasFd => conn'[d].fd \in Fds
  BY <1>1 DEF Mapped
<1>3. \A b, d \in Clients :
         conn'[b].st \in HasFd /\ conn'[d].st \in HasFd /\ conn'[b].fd = conn'[d].fd => b = d
  BY <1>1 DEF Mapped
<1>4. ASSUME NEW fd \in Fds, connections'[fd] # NoConn
      PROVE  /\ BeforeStop
             /\ conn'[connections'[fd]].st = "open" /\ conn'[connections'[fd]].fd = fd
  <2>a. connections'[fd] = connections[fd] /\ connections[fd] \in Clients
    BY <1>4 DEF Types
  <2>b. PICK d \in Clients : d = connections[fd]
    BY <2>a
  <2>c. BeforeStop /\ conn[d].st = "open" /\ conn[d].fd = fd
    BY <1>4, <2>a, <2>b DEF Mapped
  <2>d. conn'[d].st = "open"
    BY <2>a, <2>b, <2>c
  <2>e. conn'[d].fd = fd
    BY <1>1, <2>c, <2>d
  <2> QED BY <2>a, <2>b, <2>c, <2>d, <2>e
<1>5. ASSUME NEW d \in Clients, conn'[d].st = "open", BeforeStop
      PROVE  connections'[conn'[d].fd] = d
  <2>a. conn[d].st = "open" /\ conn'[d].fd = conn[d].fd /\ conn[d].fd \in Fds
    BY <1>1, <1>5 DEF Mapped
  <2>b. connections[conn[d].fd] = d
    BY <1>5, <2>a DEF Mapped
  <2>c. d # NoConn
    BY ServerAssumption
  <2> QED BY <1>5, <2>a, <2>b, <2>c
<1>6. ASSUME NEW d \in Clients, conn'[d].st = "open", ~BeforeStop
      PROVE  Kept(d)'
  BY <1>6 DEF Mapped
<1>7. BeforeStop' <=> BeforeStop
  BY DEF BeforeStop
<1> QED BY <1>2, <1>3, <1>4, <1>5, <1>6, <1>7 DEF Mapped

\* The map without the entry of an open connection.
LEMMA ErasedMap ==
  ASSUME Types, Mapped, NEW c \in Clients, conn[c].st = "open", connections' = Erased(c)
  PROVE  /\ \A fd \in Fds : \/ connections'[fd] = connections[fd]
                            \/ connections'[fd] = NoConn /\ connections[fd] \in {c, NoConn}
         /\ \A fd \in Fds : connections'[fd] # c
<1>1. conn[c].fd \in Fds
  BY DEF Mapped, HasFd
<1>2. /\ connections'[conn[c].fd] = NoConn
      /\ \A fd \in Fds : fd # conn[c].fd => connections'[fd] = connections[fd]
  BY <1>1 DEF Erased, Types
<1>3. connections[conn[c].fd] \in {c, NoConn}
  <2>a. ASSUME connections[conn[c].fd] # NoConn PROVE connections[conn[c].fd] = c
    <3>1. PICK d \in Clients : d = connections[conn[c].fd]
      BY <1>1, <2>a DEF Types
    <3>2. conn[d].st = "open" /\ conn[d].fd = conn[c].fd
      BY <1>1, <2>a, <3>1 DEF Mapped
    <3> QED BY <3>1, <3>2 DEF Mapped, HasFd
  <2> QED BY <2>a
<1>4. c # NoConn
  BY ServerAssumption
<1>5. \A fd \in Fds : connections[fd] = c => fd = conn[c].fd
  BY <1>4 DEF Mapped
<1> QED BY <1>2, <1>3, <1>4, <1>5

LEMMA NotOpenNotMapped ==
  ASSUME Types, Mapped, NEW c \in Clients, conn[c].st # "open" \/ connections[conn[c].fd] # c
  PROVE  \A fd \in Fds : connections[fd] # c
<1>1. c # NoConn
  BY ServerAssumption
<1> QED BY <1>1 DEF Mapped

\* A new entry, under a descriptor that no other connection has.
LEMMA EnteredMap ==
  ASSUME Types, Mapped, NEW c \in Clients, conn[c].st = "queued", connections' = Entered(c)
  PROVE  /\ conn[c].fd \in Fds
         /\ connections'[conn[c].fd] = c
         /\ \A fd \in Fds : fd # conn[c].fd => connections'[fd] = connections[fd]
<1>1. conn[c].fd \in Fds
  BY DEF Mapped, HasFd
<1>2. connections[conn[c].fd] = NoConn
  <2>a. ASSUME connections[conn[c].fd] # NoConn PROVE FALSE
    <3>1. PICK d \in Clients : d = connections[conn[c].fd]
      BY <1>1, <2>a DEF Types
    <3>2. conn[d].st = "open" /\ conn[d].fd = conn[c].fd
      BY <1>1, <2>a, <3>1 DEF Mapped
    <3>3. d = c
      BY <3>2 DEF Mapped, HasFd
    <3> QED BY <3>2, <3>3
  <2> QED BY <2>a
<1> QED BY <1>1, <1>2 DEF Entered, Types

LEMMA PairNotIdle ==
  ASSUME NEW p \in Clients \X Nat
  PROVE  p # Idle
<1>1. PICK c \in Clients, n \in Nat : p = <<c, n>>
  OBVIOUS
<1>2. Len(<<c, n>>) = 2 /\ Len(<<>>) = 0
  OBVIOUS
<1> QED BY <1>1, <1>2 DEF Idle

LEMMA TasksGrow ==
  ASSUME Types, NEW c \in Clients, NEW r \in Connection, NEW d, InTasks(d, tasks)
  PROVE  InTasks(d, TasksAfter(c, r))
<1>1. PICK i \in DOMAIN tasks : tasks[i][1] = d
  BY DEF InTasks
<1>2. tasks \in Seq(Clients \X Nat)
  BY DEF Types
<1>3. ASSUME NEW x PROVE i \in DOMAIN Append(tasks, x) /\ Append(tasks, x)[i] = tasks[i]
  BY <1>2
<1>4. i \in DOMAIN TasksAfter(c, r) /\ TasksAfter(c, r)[i] = tasks[i]
  BY <1>3 DEF TasksAfter
<1> QED BY <1>1, <1>4 DEF InTasks

\* A functor that leaves its connection open was not the last owner.
LEMMA ReleasedKept ==
  ASSUME Types, Mapped, NEW c \in Clients, NEW r \in Connection, NEW ts,
         ~BeforeStop, conn[c].st = "open", r.fd = conn[c].fd,
         Released(c, r, ts).st = "open", pending[c] # <<>>
  PROVE  c \in held \/ Tail(pending[c]) # <<>> \/ InTasks(c, ts) \/ InBusy(c, busy)
<1>1. r.st = "open" /\ Released(c, r, ts) = r
  BY ReleasedState
<1>2. connections[r.fd] # c
  <2>a. r.fd \in Fds /\ c # NoConn
    BY ServerAssumption DEF Mapped, HasFd
  <2> QED BY <2>a DEF Mapped
<1>3. Released(c, r, ts) # [r EXCEPT !.st = "erased"]
  BY <1>1 DEF Connection
<1>4. \/ c \in held
      \/ Len(pending[c]) # 1
      \/ \E i \in DOMAIN ts : ts[i][1] = c
      \/ \E w \in Workers : busy[w] # Idle /\ busy[w][1] = c
  BY <1>1, <1>2, <1>3 DEF Released
<1>5. ASSUME Len(pending[c]) # 1 PROVE Tail(pending[c]) # <<>>
  <2>a. pending[c] \in Seq(Functors) /\ Len(pending[c]) \in Nat
    BY PendingTypes
  <2>b. Len(pending[c]) # 0
    BY <2>a
  <2>c. Len(Tail(pending[c])) = Len(pending[c]) - 1
    BY <2>a, <2>b
  <2>d. Len(Tail(pending[c])) # 0
    BY <1>5, <2>a, <2>b, <2>c
  <2>e. Len(<<>>) = 0
    OBVIOUS
  <2> QED BY <2>d, <2>e
<1> QED BY <1>4, <1>5 DEF InTasks, InBusy

LEMMA MappedStep ==
  Types /\ Types' /\ Mapped /\ Queued /\ [Next]_vars => Mapped'
<1> SUFFICES ASSUME Types, Types', Mapped, Queued, [Next]_vars PROVE Mapped'
  OBVIOUS
<1> USE DEF control
<1>0. \A c \in Clients : conn[c] \in Connection /\ conn[c].st \in States
  BY ConnectionTypes DEF Types
\* The owners stay, and the connection keeps its state and descriptor, or it has
\* neither and gets none.
<1>1. ASSUME NEW c \in Clients, NEW q, Moved(c, q),
             connections' = connections, stage' = stage, pending' = pending, held' = held,
             busy' = busy, tasks' = tasks,
             \/ q.st = conn[c].st /\ q.fd = conn[c].fd
             \/ conn[c].st # "open" /\ q.st \notin HasFd
      PROVE  Mapped'
  <2>a. \A d \in Clients : Kept(d) => Kept(d)'
    BY <1>1 DEF Kept
  <2>b. conn'[c].st \in HasFd => conn[c].st \in HasFd /\ conn'[c].fd = conn[c].fd
    BY <1>1 DEF Moved
  <2>c. conn'[c].st = "open" => conn[c].st = "open"
    BY <1>1 DEF Moved, HasFd
  <2>d. \A fd \in Fds : connections'[fd] = c => conn'[c].st = "open"
    BY <1>1, NotOpenNotMapped DEF Moved
  <2> QED BY <1>1, <2>a, <2>b, <2>c, <2>d, MappedMove DEF Moved
<1>2. ASSUME NEW c \in Clients, Connect(c) PROVE Mapped'
  <2>a. Moved(c, [conn[c] EXCEPT !.st = "backlog"]) /\ conn[c].st = "none"
    BY <1>2, ConnectEffect DEF Connect
  <2>b. [conn[c] EXCEPT !.st = "backlog"].st = "backlog"
    BY <1>0 DEF Connection
  <2> QED BY <1>1, <1>2, <2>a, <2>b DEF Connect, HasFd
<1>3. ASSUME NEW c \in Clients, NEW ok \in BOOLEAN, Send(c, ok) PROVE Mapped'
  <2>a. Moved(c, Sent(conn[c], ok))
    BY <1>3, SendEffect
  <2>b. Sent(conn[c], ok).st = conn[c].st /\ Sent(conn[c], ok).fd = conn[c].fd
    BY <1>0 DEF Connection, Sent
  <2> QED BY <1>1, <1>3, <2>a, <2>b DEF Send
<1>4. ASSUME NEW c \in Clients, Disconnect(c) PROVE Mapped'
  <2>a. Moved(c, [conn[c] EXCEPT !.peer = FALSE])
    BY <1>4, DisconnectEffect
  <2>b. /\ [conn[c] EXCEPT !.peer = FALSE].st = conn[c].st
        /\ [conn[c] EXCEPT !.peer = FALSE].fd = conn[c].fd
    BY <1>0 DEF Connection
  <2> QED BY <1>1, <1>4, <2>a, <2>b DEF Disconnect
<1>5. ASSUME NEW c \in Clients, NEW fd \in Fds, HandleAccept(c, fd) PROVE Mapped'
  <2>a. /\ conn[c].st = "backlog" /\ stage' = stage /\ BeforeStop
        /\ tasks' = tasks /\ busy' = busy /\ held' = held /\ connections' = connections
        /\ \A d \in Clients : conn[d].fd # fd
    BY <1>5 DEF HandleAccept, FreeFds, BeforeStop
  <2>b. CASE pending' = pending /\ Moved(c, [conn[c] EXCEPT !.st = "closed"])
    <3>1. [conn[c] EXCEPT !.st = "closed"].st = "closed"
      BY <1>0 DEF Connection
    <3> QED BY <1>1, <2>a, <2>b, <3>1 DEF HasFd
  <2>c. CASE Moved(c, Placed(conn[c], "queued", fd))
    <3>1. conn'[c].st = "queued" /\ conn'[c].fd = fd /\ \A d \in Clients \ {c} : conn'[d] = conn[d]
      <4>1. /\ Placed(conn[c], "queued", fd).st = "queued"
            /\ Placed(conn[c], "queued", fd).fd = fd
        BY <1>0 DEF Connection, Placed
      <4> QED BY <2>c, <4>1 DEF Moved
    <3>2. \A d \in Clients : conn'[d].st \in HasFd => conn'[d].fd \in Fds
      BY <3>1 DEF Mapped
    <3>3. \A b, d \in Clients :
             conn'[b].st \in HasFd /\ conn'[d].st \in HasFd /\ conn'[b].fd = conn'[d].fd => b = d
      BY <2>a, <3>1 DEF Mapped
    <3>4. ASSUME NEW f \in Fds, connections[f] # NoConn
          PROVE  conn'[connections[f]].st = "open" /\ conn'[connections[f]].fd = f
      <4>1. PICK d \in Clients : d = connections[f]
        BY <3>4 DEF Types
      <4>2. conn[d].st = "open" /\ conn[d].fd = f
        BY <3>4, <4>1 DEF Mapped
      <4> QED BY <2>a, <3>1, <4>1, <4>2
    <3>5. \A d \in Clients : conn'[d].st = "open" => connections[conn'[d].fd] = d
      BY <2>a, <3>1 DEF Mapped
    <3>6. BeforeStop'
      BY <2>a DEF BeforeStop
    <3> QED BY <2>a, <3>2, <3>3, <3>4, <3>5, <3>6 DEF Mapped
  <2> QED BY <1>5, <2>b, <2>c, HandleAcceptEffect
<1>6. ASSUME NEW c \in Clients, Register(c) PROVE Mapped'
  <2>a. /\ conn[c].st = "queued" /\ stage' = stage
        /\ tasks' = tasks /\ busy' = busy /\ held' = held
    BY <1>6, DueRegister DEF Register
  <2>b. \A d \in Clients \ {c} : pending'[d] = pending[d]
    BY <1>6, PendingTail DEF Register
  <2>c. CASE connections' = connections /\ Moved(c, [conn[c] EXCEPT !.st = "erased"])
    <3>1. /\ conn'[c].st = "erased" /\ conn'[c].fd = conn[c].fd
          /\ \A d \in Clients \ {c} : conn'[d] = conn[d]
      <4>1. /\ [conn[c] EXCEPT !.st = "erased"].st = "erased"
            /\ [conn[c] EXCEPT !.st = "erased"].fd = conn[c].fd
        BY <1>0 DEF Connection
      <4> QED BY <2>c, <4>1 DEF Moved
    <3>2. \A d \in Clients : conn'[d].st = "open" /\ Kept(d) => Kept(d)'
      BY <2>a, <2>b, <3>1 DEF Kept
    <3>3. \A fd \in Fds : connections[fd] # c
      BY <2>a, NotOpenNotMapped
    <3> QED BY <2>a, <2>c, <3>1, <3>2, <3>3, MappedMove DEF HasFd
  <2>d. CASE ~Stopping /\ connections' = Entered(c) /\ Moved(c, [conn[c] EXCEPT !.st = "open"])
    <3>1. /\ conn'[c].st = "open" /\ conn'[c].fd = conn[c].fd
          /\ \A d \in Clients \ {c} : conn'[d] = conn[d]
      <4>1. /\ [conn[c] EXCEPT !.st = "open"].st = "open"
            /\ [conn[c] EXCEPT !.st = "open"].fd = conn[c].fd
        BY <1>0 DEF Connection
      <4> QED BY <2>d, <4>1 DEF Moved
    <3>2. BeforeStop /\ BeforeStop'
      BY <2>a, <2>d DEF BeforeStop, Stopping
    <3>3. /\ conn[c].fd \in Fds
          /\ connections'[conn[c].fd] = c
          /\ \A fd \in Fds : fd # conn[c].fd => connections'[fd] = connections[fd]
      BY <2>a, <2>d, EnteredMap
    <3>4. \A d \in Clients : conn'[d].st \in HasFd => conn[d].st \in HasFd /\ conn'[d].fd = conn[d].fd
      BY <2>a, <3>1 DEF HasFd
    <3>5. \A d \in Clients : conn'[d].st \in HasFd => conn'[d].fd \in Fds
      BY <3>4 DEF Mapped
    <3>6. \A b, d \in Clients :
             conn'[b].st \in HasFd /\ conn'[d].st \in HasFd /\ conn'[b].fd = conn'[d].fd => b = d
      BY <3>4 DEF Mapped
    <3>7. ASSUME NEW f \in Fds, connections'[f] # NoConn
          PROVE  conn'[connections'[f]].st = "open" /\ conn'[connections'[f]].fd = f
      <4>1. CASE f = conn[c].fd
        BY <3>1, <3>3, <4>1
      <4>2. CASE f # conn[c].fd
        <5>1. connections'[f] = connections[f] /\ connections[f] # NoConn
          BY <3>3, <3>7, <4>2
        <5>2. PICK d \in Clients : d = connections[f]
          BY <5>1 DEF Types
        <5>3. conn[d].st = "open" /\ conn[d].fd = f
          BY <5>1, <5>2 DEF Mapped
        <5> QED BY <2>a, <3>1, <5>1, <5>2, <5>3
      <4> QED BY <4>1, <4>2
    <3>8. ASSUME NEW d \in Clients, conn'[d].st = "open" PROVE connections'[conn'[d].fd] = d
      <4>1. CASE d = c
        BY <3>1, <3>3, <4>1
      <4>2. CASE d # c
        <5>1. conn'[d] = conn[d] /\ conn[d].fd \in Fds /\ connections[conn[d].fd] = d
          BY <3>1, <3>2, <3>8, <4>2 DEF Mapped, HasFd
        <5>2. conn[d].fd # conn[c].fd
          BY <2>a, <3>8, <4>2, <5>1 DEF Mapped, HasFd
        <5> QED BY <3>3, <5>1, <5>2
      <4> QED BY <4>1, <4>2
    <3> QED BY <2>a, <3>2, <3>5, <3>6, <3>7, <3>8 DEF Mapped
  <2> QED BY <1>6, <2>c, <2>d, RegisterEffect
\* An open connection is closed and its map entry is erased, or there was none.
<1>7. ASSUME NEW c \in Clients, NEW q, Moved(c, q), conn[c].st = "open",
             q.st = "erased", q.fd = conn[c].fd, stage' = stage,
             \/ connections' = Erased(c)
             \/ connections' = connections /\ connections[conn[c].fd] # c,
             \A d \in Clients \ {c} : pending'[d] = pending[d],
             \A d \in Clients : InTasks(d, tasks) => InTasks(d, tasks'),
             held' = held, busy' = busy
      PROVE  Mapped'
  <2>a. /\ conn'[c].st = "erased" /\ conn'[c].fd = conn[c].fd
        /\ \A d \in Clients \ {c} : conn'[d] = conn[d]
    BY <1>7 DEF Moved
  <2>b. \A d \in Clients : conn'[d].st = "open" /\ Kept(d) => Kept(d)'
    BY <1>7, <2>a DEF Kept
  <2>c. /\ \A fd \in Fds : \/ connections'[fd] = connections[fd]
                           \/ connections'[fd] = NoConn /\ connections[fd] \in {c, NoConn}
        /\ \A fd \in Fds : connections'[fd] # c
    BY <1>7, ErasedMap, NotOpenNotMapped
  <2> QED BY <1>7, <2>a, <2>b, <2>c, MappedMove DEF HasFd
\* The connection goes on, and what owned it or something else does.
<1>8. ASSUME NEW c \in Clients, NEW q, Moved(c, q), q.st = conn[c].st, q.fd = conn[c].fd,
             stage' = stage, connections' = connections,
             \A d \in Clients \ {c} : pending'[d] = pending[d],
             \A d \in Clients : InTasks(d, tasks) => InTasks(d, tasks'),
             held' = held, busy' = busy,
             ~BeforeStop /\ conn[c].st = "open" => Kept(c)'
      PROVE  Mapped'
  <2>a. /\ conn'[c].st = conn[c].st /\ conn'[c].fd = conn[c].fd
        /\ \A d \in Clients \ {c} : conn'[d] = conn[d]
    BY <1>8 DEF Moved
  <2>b. ~BeforeStop => \A d \in Clients : conn'[d].st = "open" /\ Kept(d) => Kept(d)'
    BY <1>8, <2>a DEF Kept
  <2>c. \A fd \in Fds : connections'[fd] = c => conn'[c].st = "open"
    BY <1>8, <2>a, NotOpenNotMapped
  <2> QED BY <1>8, <2>a, <2>b, <2>c, MappedMove
<1>9. ASSUME NEW c \in Clients, Shutdown(c) PROVE Mapped'
  <2>a. PICK r \in Connection :
            /\ r.st = conn[c].st /\ r.fd = conn[c].fd
            /\ \/ connections' = connections /\ Moved(c, Released(c, r, tasks))
               \/ r.st = "open" /\ connections' = Erased(c) /\ Moved(c, Closed(r))
    BY <1>9, ShutdownEffect
  <2>b. /\ Due(c, "shutdown") /\ stage' = stage /\ tasks' = tasks /\ busy' = busy /\ held' = held
        /\ pending' = [pending EXCEPT ![c] = Tail(@)]
    BY <1>9 DEF Shutdown
  <2>c. pending'[c] = Tail(pending[c]) /\ \A d \in Clients \ {c} : pending'[d] = pending[d]
    BY <2>b, PendingTail
  <2>d. CASE r.st = "open" /\ connections' = Erased(c) /\ Moved(c, Closed(r))
    <3>1. Closed(r).st = "erased" /\ Closed(r).fd = r.fd
      BY RecordStates
    <3> QED BY <1>7, <2>a, <2>b, <2>c, <2>d, <3>1
  <2>e. CASE connections' = connections /\ Moved(c, Released(c, r, tasks))
    <3>1. PICK q \in Connection : q = Released(c, r, tasks)
      BY ReleasedTypes
    <3>2. /\ q.fd = r.fd
          /\ q = r \/ (r.st = "open" /\ q.st = "erased" /\ connections[r.fd] # c)
      BY <3>1, ReleasedState DEF Released
    <3>3. CASE q = r
      <4>1. ASSUME ~BeforeStop, conn[c].st = "open" PROVE Kept(c)'
        <5>1. pending[c] # <<>>
          BY <2>b, DueTypes
        <5>2. c \in held \/ Tail(pending[c]) # <<>> \/ InTasks(c, tasks) \/ InBusy(c, busy)
          BY <2>a, <3>1, <3>3, <4>1, <5>1, ReleasedKept
        <5> QED BY <2>b, <2>c, <5>2 DEF Kept
      <4> QED BY <1>8, <2>a, <2>b, <2>c, <2>e, <3>1, <3>3, <4>1
    <3>4. CASE r.st = "open" /\ q.st = "erased" /\ connections[r.fd] # c
      BY <1>7, <2>a, <2>b, <2>c, <2>e, <3>1, <3>2, <3>4
    <3> QED BY <3>2, <3>3, <3>4
  <2> QED BY <2>a, <2>d, <2>e
<1>10. ASSUME NEW c \in Clients, OnResponse(c) PROVE Mapped'
  <2>a. PICK id \in Nat, r \in Connection :
            /\ r = Responded(conn[c], id)
            /\ Moved(c, Released(c, SubmitNext(r), TasksAfter(c, r)))
            /\ tasks' = TasksAfter(c, r)
    BY <1>10, OnResponseEffect
  <2>b. r.st = conn[c].st /\ r.fd = conn[c].fd
    BY <1>0, <2>a, RecordStates
  <2>c. PICK m \in Connection : m = SubmitNext(r) /\ m.st = r.st /\ m.fd = r.fd
    BY SubmitTypes DEF Types
  <2>d. /\ Due(c, "response") /\ stage' = stage /\ busy' = busy /\ held' = held
        /\ pending' = [pending EXCEPT ![c] = Tail(@)] /\ connections' = connections
    BY <1>10 DEF OnResponse
  <2>e. pending'[c] = Tail(pending[c]) /\ \A d \in Clients \ {c} : pending'[d] = pending[d]
    BY <2>d, PendingTail
  <2>f. \A d \in Clients : InTasks(d, tasks) => InTasks(d, tasks')
    BY <2>a, TasksGrow
  <2>g. PICK q \in Connection : q = Released(c, m, tasks')
    BY ReleasedTypes
  <2>h. Moved(c, q)
    BY <2>a, <2>c, <2>g
  <2>i. /\ q.fd = m.fd
        /\ q = m \/ (m.st = "open" /\ q.st = "erased" /\ connections[m.fd] # c)
    BY <2>g, ReleasedState DEF Released
  <2>j. CASE q = m
    <3>1. ASSUME ~BeforeStop, conn[c].st = "open" PROVE Kept(c)'
      <4>1. pending[c] # <<>>
        BY <2>d, DueTypes
      <4>2. c \in held \/ Tail(pending[c]) # <<>> \/ InTasks(c, tasks') \/ InBusy(c, busy)
        BY <2>b, <2>c, <2>g, <2>j, <3>1, <4>1, ReleasedKept
      <4> QED BY <2>d, <2>e, <4>2 DEF Kept
    <3> QED BY <1>8, <2>b, <2>c, <2>d, <2>e, <2>f, <2>h, <2>j, <3>1
  <2>k. CASE m.st = "open" /\ q.st = "erased" /\ connections[m.fd] # c
    BY <1>7, <2>b, <2>c, <2>d, <2>e, <2>f, <2>h, <2>i, <2>k
  <2> QED BY <2>i, <2>j, <2>k
<1>11. ASSUME NEW c \in Clients, HandleRead(c) PROVE Mapped'
  <2>a. PICK r \in Connection :
          r = ReadAll(conn[c]) /\ Moved(c, SubmitNext(r)) /\ tasks' = TasksAfter(c, r)
    BY <1>11, HandleReadEffect
  <2>b. SubmitNext(r).st = conn[c].st /\ SubmitNext(r).fd = conn[c].fd
    <3>1. r.st = conn[c].st /\ r.fd = conn[c].fd
      BY <1>0, <2>a, RecordStates
    <3> QED BY <3>1, SubmitTypes DEF Types
  <2>c. \A d \in Clients : InTasks(d, tasks) => InTasks(d, tasks')
    BY <2>a, TasksGrow
  <2>d. ~BeforeStop /\ conn[c].st = "open" => Kept(c)'
    BY <1>11, <2>c DEF HandleRead, Mapped, Kept
  <2> QED BY <1>8, <1>11, <2>a, <2>b, <2>c, <2>d DEF HandleRead
<1>12. ASSUME NEW c \in Clients, HandleBadFrame(c) PROVE Mapped'
  <2>a. PICK id \in Nat : Moved(c, Failed(conn[c], id))
    BY <1>12, HandleBadFrameEffect
  <2>b. Failed(conn[c], id).st = conn[c].st /\ Failed(conn[c], id).fd = conn[c].fd
    BY <1>0, RecordStates
  <2> QED BY <1>1, <1>12, <2>a, <2>b DEF HandleBadFrame
<1>13. ASSUME NEW c \in Clients, HandlePeerClosed(c) PROVE Mapped'
  <2>a. PICK read \in {<<>>, conn[c].wire} : Moved(c, Ended(conn[c], read))
    BY <1>13, HandlePeerClosedEffect
  <2>b. Ended(conn[c], read).st = "erased" /\ Ended(conn[c], read).fd = conn[c].fd
    BY <1>0, RecordStates
  <2> QED BY <1>7, <1>13, <2>a, <2>b, HandlePeerClosedEffect DEF HandlePeerClosed
<1>14. ASSUME NEW c \in Clients, NEW n, HandleWrite(c, n) PROVE Mapped'
  <2>a. /\ n \in 1 .. Len(conn[c].output) /\ conn[c].st = "open"
        /\ \/ connections' = connections /\ Moved(c, Written(conn[c], n))
           \/ connections' = Erased(c) /\ Moved(c, Closed(Written(conn[c], n)))
    BY <1>14, HandleWriteEffect
  <2>b. PICK q \in Connection : q = Written(conn[c], n)
    BY <1>0, <2>a, RecordTypes
  <2>c. /\ q.st = conn[c].st /\ q.fd = conn[c].fd
        /\ Closed(q).st = "erased" /\ Closed(q).fd = conn[c].fd
    BY <1>0, <2>b, RecordStates
  <2>d. CASE connections' = connections /\ Moved(c, q)
    BY <1>1, <1>14, <2>c, <2>d DEF HandleWrite
  <2>e. CASE connections' = Erased(c) /\ Moved(c, Closed(q))
    BY <1>7, <1>14, <2>a, <2>c, <2>e DEF HandleWrite
  <2> QED BY <2>a, <2>b, <2>d, <2>e
<1>15. ASSUME NEW c \in Clients, CloseFd(c) PROVE Mapped'
  <2>a. Moved(c, Placed(conn[c], "closed", NoFd)) /\ conn[c].st = "erased"
    BY <1>15, CloseFdEffect DEF CloseFd
  <2>b. Placed(conn[c], "closed", NoFd).st = "closed"
    BY <1>0 DEF Connection, Placed
  <2> QED BY <1>1, <1>15, <2>a, <2>b DEF CloseFd, HasFd
\* No connection changes.
<1>16. ASSUME conn' = conn, connections' = connections, held' = held,
              BeforeStop' <=> BeforeStop,
              ~BeforeStop => \A d \in Clients : Kept(d) => Kept(d)'
       PROVE  Mapped'
  BY <1>16 DEF Mapped
<1>17. ASSUME NEW w \in Workers, TakeTask(w) PROVE Mapped'
  <2>a. ASSUME NEW d \in Clients, InTasks(d, tasks) PROVE InTasks(d, tasks') \/ InBusy(d, busy')
    <3>1. PICK i \in DOMAIN tasks : tasks[i][1] = d
      BY <2>a DEF InTasks
    <3>2. tasks \in Seq(Clients \X Nat) /\ tasks # <<>> /\ Len(tasks) \in Nat
          /\ tasks' = Tail(tasks) /\ DOMAIN tasks = 1 .. Len(tasks)
      BY <1>17 DEF TakeTask, Types
    <3>3. CASE i = 1
      <4>1. busy'[w] = tasks[1]
        BY <1>17, <3>2 DEF TakeTask, Types
      <4>2. tasks[1] \in Clients \X Nat
        BY <3>1, <3>2, <3>3
      <4>3. tasks[1] # Idle
        BY <4>2, PairNotIdle
      <4> QED BY <3>1, <3>3, <4>1, <4>3 DEF InBusy
    <3>4. CASE i # 1
      <4>1. i - 1 \in DOMAIN Tail(tasks) /\ Tail(tasks)[i - 1] = tasks[i]
        BY <3>2, <3>4
      <4> QED BY <3>1, <3>2, <4>1 DEF InTasks
    <3> QED BY <3>3, <3>4
  <2>b. ASSUME NEW d \in Clients, InBusy(d, busy) PROVE InBusy(d, busy')
    <3>1. PICK v \in Workers : busy[v] # Idle /\ busy[v][1] = d
      BY <2>b DEF InBusy
    <3>2. v # w /\ busy'[v] = busy[v]
      BY <1>17, <3>1 DEF TakeTask, Types
    <3> QED BY <3>1, <3>2 DEF InBusy
  <2>c. \A d \in Clients : Kept(d) => Kept(d)'
    BY <1>17, <2>a, <2>b DEF TakeTask, Kept
  <2> QED BY <1>16, <1>17, <2>c DEF TakeTask, BeforeStop
<1>18. ASSUME NEW w \in Workers, FinishTask(w) PROVE Mapped'
  <2>a. busy[w] \in Clients \X Nat
    BY <1>18 DEF FinishTask, Types
  <2>b. PICK c \in Clients, id \in Nat : c = busy[w][1] /\ id = busy[w][2]
    BY <2>a
  <2>c. [kind |-> "response", id |-> id] \in Functors
    BY DEF Functors
  <2>d. pending' = [pending EXCEPT ![c] = Append(@, [kind |-> "response", id |-> id])]
    BY <1>18, <2>b DEF FinishTask
  <2>e. /\ pending'[c] = Append(pending[c], [kind |-> "response", id |-> id])
        /\ \A d \in Clients \ {c} : pending'[d] = pending[d]
    BY <2>c, <2>d, PendingAppend
  <2>f. pending'[c] # <<>>
    BY <2>e, PendingTypes
  <2>g. ASSUME NEW d \in Clients, d # c, InBusy(d, busy) PROVE InBusy(d, busy')
    <3>1. PICK v \in Workers : busy[v] # Idle /\ busy[v][1] = d
      BY <2>g DEF InBusy
    <3>2. v # w /\ busy'[v] = busy[v]
      BY <1>18, <2>b, <2>g, <3>1 DEF FinishTask, Types
    <3> QED BY <3>1, <3>2 DEF InBusy
  <2>h. \A d \in Clients : Kept(d) => Kept(d)'
    BY <1>18, <2>e, <2>f, <2>g DEF FinishTask, Kept
  <2> QED BY <1>16, <1>18, <2>h DEF FinishTask, BeforeStop
<1>19. CASE Loop \/ StopFlag \/ StopPool \/ StopWorkers \/ StopLoops \/ UNCHANGED vars
  <2>a. \A d \in Clients : Kept(d) => Kept(d)'
    BY <1>19 DEF Loop, StopFlag, StopPool, StopWorkers, StopLoops, vars, Kept
  <2>b. BeforeStop' <=> BeforeStop
    BY <1>19 DEF Loop, StopFlag, StopPool, StopWorkers, StopLoops, vars, BeforeStop
  <2> QED BY <1>16, <1>19, <2>a, <2>b DEF Loop, StopFlag, StopPool, StopWorkers, StopLoops, vars
<1>20. CASE ShutdownAll
  <2>a. ~BeforeStop' /\ BeforeStop
    BY <1>20 DEF ShutdownAll, BeforeStop
  <2>b. \A d \in Clients : conn'[d].st \in HasFd => conn'[d] = conn[d]
    <3>1. \A d \in Clients : [conn[d] EXCEPT !.st = "closed"].st = "closed"
      BY <1>0 DEF Connection
    <3> QED BY <1>20, <3>1, ShutdownAllEffect DEF HasFd
  <2>c. \A fd \in Fds : connections'[fd] = NoConn
    BY <1>20 DEF ShutdownAll
  <2>d. ASSUME NEW d \in Clients, conn'[d].st = "open" PROVE Kept(d)'
    <3>1. conn[d].st = "open" /\ conn[d].fd \in Fds /\ connections[conn[d].fd] = d
      BY <2>a, <2>b, <2>d DEF Mapped, HasFd
    <3>2. d # NoConn
      BY ServerAssumption
    <3>3. d \in held'
      BY <1>20, <3>1, <3>2 DEF ShutdownAll, Registered
    <3> QED BY <3>3 DEF Kept
  <2>e. \A d \in Clients : conn'[d].st \in HasFd => conn'[d].fd \in Fds
    BY <2>b DEF Mapped
  <2>f. \A b, d \in Clients :
           conn'[b].st \in HasFd /\ conn'[d].st \in HasFd /\ conn'[b].fd = conn'[d].fd => b = d
    BY <2>b DEF Mapped
  <2> QED BY <2>a, <2>c, <2>d, <2>e, <2>f DEF Mapped
<1>21. CASE ReleaseHeld
  <2>a. ASSUME NEW d \in Clients
        PROVE  /\ conn'[d].fd = conn[d].fd
               /\ conn'[d].st = conn[d].st \/ (conn[d].st = "open" /\ conn'[d].st = "erased")
    BY <1>0, <1>21, ReleaseHeldEffect, RecordStates
  <2>b. \A d \in Clients : conn'[d].st \in HasFd => conn[d].st \in HasFd
    BY <2>a DEF HasFd
  <2>c. ~BeforeStop /\ ~BeforeStop'
    BY <1>21 DEF ReleaseHeld, Mapped, BeforeStop
  <2>d. ASSUME NEW d \in Clients, conn'[d].st = "open" PROVE Kept(d)'
    <3>1. conn[d].st = "open" /\ Kept(d)
      BY <2>a, <2>c, <2>d DEF Mapped
    <3>2. conn'[d] # Closed(conn[d])
      BY <1>0, <2>d, RecordStates
    <3>3. \/ d \notin held \/ pending[d] # <<>>
          \/ \E i \in DOMAIN tasks : tasks[i][1] = d
          \/ \E w \in Workers : busy[w] # Idle /\ busy[w][1] = d
      BY <1>21, <3>1, <3>2 DEF ReleaseHeld
    <3> QED BY <1>21, <3>1, <3>3 DEF ReleaseHeld, Kept, InTasks, InBusy
  <2>e. \A fd \in Fds : connections'[fd] = NoConn
    BY <1>21, <2>c DEF ReleaseHeld, Mapped
  <2>f. \A d \in Clients : conn'[d].st \in HasFd => conn'[d].fd \in Fds
    BY <2>a, <2>b DEF Mapped
  <2>g. \A b, d \in Clients :
           conn'[b].st \in HasFd /\ conn'[d].st \in HasFd /\ conn'[b].fd = conn'[d].fd => b = d
    BY <2>a, <2>b DEF Mapped
  <2> QED BY <2>c, <2>d, <2>e, <2>f, <2>g DEF Mapped
<1> QED
  BY <1>2, <1>3, <1>4, <1>5, <1>6, <1>9, <1>10, <1>11, <1>12, <1>13, <1>14,
     <1>15, <1>17, <1>18, <1>19, <1>20, <1>21
     DEF Next, ClientStep, LoopStep, WorkerStep, StopStep, StopConnections

----------------------------------------
(* Counting replies *)

GoodSet(s, p) == {i \in 1 .. p : s[i].ok}

LEMMA GoodFinite ==
  ASSUME NEW s, NEW p \in Nat
  PROVE  IsFiniteSet(GoodSet(s, p)) /\ GoodUpTo(s, p) = Cardinality(GoodSet(s, p))
         /\ GoodUpTo(s, p) \in Nat
<1>1. IsFiniteSet(1 .. p)
  BY FS_Interval
<1>2. IsFiniteSet(GoodSet(s, p))
  BY <1>1, FS_Subset DEF GoodSet
<1>3. GoodUpTo(s, p) = Cardinality(GoodSet(s, p))
  BY DEF GoodUpTo, GoodSet
<1> QED BY <1>2, <1>3, FS_CardinalityType

LEMMA GoodAppend ==
  ASSUME NEW s \in Seq(Frames), NEW x \in Frames
  PROVE  /\ \A p \in 1 .. Len(s) : GoodUpTo(Append(s, x), p) = GoodUpTo(s, p)
         /\ GoodUpTo(Append(s, x), Len(s) + 1) =
               GoodUpTo(s, Len(s)) + (IF x.ok THEN 1 ELSE 0)
<1>1. PICK t : t = Append(s, x)
  OBVIOUS
<1>2. /\ Len(s) \in Nat /\ \A i \in 1 .. Len(s) : t[i] = s[i]
      /\ t[Len(s) + 1] = x
  BY <1>1
<1>3. ASSUME NEW p \in 1 .. Len(s) PROVE GoodUpTo(t, p) = GoodUpTo(s, p)
  <2>a. \A i \in 1 .. p : t[i] = s[i]
    BY <1>2
  <2>b. {i \in 1 .. p : t[i].ok} = {i \in 1 .. p : s[i].ok}
    BY <2>a
  <2> QED BY <2>b DEF GoodUpTo
<1>4. PICK n \in Nat : n = Len(s)
  BY <1>2
<1>5. IsFiniteSet(GoodSet(s, n)) /\ GoodUpTo(s, n) = Cardinality(GoodSet(s, n))
  BY GoodFinite
<1>6. GoodUpTo(t, n + 1) = Cardinality(GoodSet(t, n + 1))
  BY GoodFinite
<1>7. n + 1 \notin GoodSet(s, n)
  BY DEF GoodSet
<1>8. CASE x.ok
  <2>a. GoodSet(t, n + 1) = GoodSet(s, n) \cup {n + 1}
    BY <1>2, <1>4, <1>8 DEF GoodSet
  <2>b. Cardinality(GoodSet(s, n) \cup {n + 1}) = Cardinality(GoodSet(s, n)) + 1
    BY <1>5, <1>7, FS_AddElement
  <2>c. GoodUpTo(t, n + 1) = GoodUpTo(s, n) + 1
    BY <1>5, <1>6, <2>a, <2>b
  <2> QED BY <1>1, <1>3, <1>4, <1>8, <2>c
<1>9. CASE ~x.ok
  <2>a. GoodSet(t, n + 1) = GoodSet(s, n)
    BY <1>2, <1>4, <1>9 DEF GoodSet
  <2>b. GoodUpTo(t, n + 1) = GoodUpTo(s, n)
    BY <1>5, <1>6, <2>a
  <2>c. GoodUpTo(s, n) \in Nat
    BY GoodFinite
  <2>d. GoodUpTo(s, n) + 0 = GoodUpTo(s, n)
    BY <2>c
  <2> QED BY <1>1, <1>3, <1>4, <1>9, <2>b, <2>d
<1> QED BY <1>8, <1>9

\* One more reply in order.
LEMMA OrderAppend ==
  ASSUME NEW s \in Seq(Frames), NEW x \in Frames, GoodOrder(s),
         x.ok => x.id = GoodUpTo(s, Len(s)) + 1
  PROVE  GoodOrder(Append(s, x))
<1> SUFFICES ASSUME NEW p \in DOMAIN Append(s, x), Append(s, x)[p].ok
             PROVE  Append(s, x)[p].id = GoodUpTo(Append(s, x), p)
  BY DEF GoodOrder
<1>1. /\ Len(s) \in Nat /\ DOMAIN s = 1 .. Len(s) /\ DOMAIN Append(s, x) = 1 .. Len(s) + 1
      /\ \A i \in 1 .. Len(s) : Append(s, x)[i] = s[i]
      /\ Append(s, x)[Len(s) + 1] = x
  OBVIOUS
<1>2. CASE p \in 1 .. Len(s)
  <2>a. Append(s, x)[p] = s[p] /\ p \in DOMAIN s
    BY <1>1, <1>2
  <2>b. GoodUpTo(Append(s, x), p) = GoodUpTo(s, p)
    BY <1>2, GoodAppend
  <2> QED BY <2>a, <2>b DEF GoodOrder
<1>3. CASE p = Len(s) + 1
  <2>a. Append(s, x)[p] = x
    BY <1>1, <1>3
  <2>b. GoodUpTo(Append(s, x), p) = GoodUpTo(s, Len(s)) + 1
    BY <1>3, <2>a, GoodAppend
  <2> QED BY <2>a, <2>b
<1> QED BY <1>1, <1>2, <1>3

LEMMA RepliedTypes ==
  ASSUME NEW r \in Connection
  PROVE  Replied(r) \in Seq(Frames) /\ Len(Replied(r)) \in Nat /\ Answered(r) \in Nat
<1>1. r.got \in Seq(Frames) /\ r.output \in Seq(Frames)
  BY ConnectionTypes
<1>2. Replied(r) \in Seq(Frames)
  BY <1>1 DEF Replied
<1>3. Len(Replied(r)) \in Nat
  BY <1>2
<1> QED BY <1>2, <1>3, GoodFinite DEF Answered

LEMMA ConcatAppend ==
  ASSUME NEW s \in Seq(Frames), NEW t \in Seq(Frames), NEW x \in Frames
  PROVE  s \o Append(t, x) = Append(s \o t, x)
  OBVIOUS

LEMMA ConcatFrames ==
  ASSUME NEW s \in Seq(Frames), NEW t \in Seq(Frames)
  PROVE  /\ s \o t \in Seq(Frames) /\ Len(s \o t) = Len(s) + Len(t)
         /\ \A i \in 1 .. Len(s) : (s \o t)[i] = s[i]
         /\ \A i \in Len(s) + 1 .. Len(s) + Len(t) : (s \o t)[i] = t[i - Len(s)]
  OBVIOUS

LEMMA ConcatSplit ==
  ASSUME NEW s \in Seq(Frames), NEW t \in Seq(Frames), NEW n \in 1 .. Len(t)
  PROVE  (s \o SubSeq(t, 1, n)) \o SubSeq(t, n + 1, Len(t)) = s \o t
<1>1. PICK a \in Seq(Frames), b \in Seq(Frames) :
        a = SubSeq(t, 1, n) /\ b = SubSeq(t, n + 1, Len(t))
  BY SplitTypes
<1>2. /\ Len(s) \in Nat /\ Len(t) \in Nat /\ n \in Nat /\ 1 <= n /\ n <= Len(t)
      /\ Len(a) = n /\ Len(b) = Len(t) - n
  BY <1>1, SplitTypes
<1>3. \A i \in 1 .. n : a[i] = t[i]
  BY <1>1, <1>2
<1>4. \A i \in 1 .. Len(t) - n : b[i] = t[n + i]
  BY <1>1, <1>2
<1>5. PICK u \in Seq(Frames) : u = s \o a
  BY ConcatFrames
<1>6. /\ Len(u) = Len(s) + n /\ \A i \in 1 .. Len(s) : u[i] = s[i]
      /\ \A i \in Len(s) + 1 .. Len(s) + n : u[i] = a[i - Len(s)]
  <2>a. /\ Len(u) = Len(s) + Len(a) /\ \A i \in 1 .. Len(s) : u[i] = s[i]
        /\ \A i \in Len(s) + 1 .. Len(s) + Len(a) : u[i] = a[i - Len(s)]
    BY <1>5, ConcatFrames
  <2> QED BY <1>2, <2>a
<1>7. PICK v \in Seq(Frames), w \in Seq(Frames) : v = u \o b /\ w = s \o t
  BY ConcatFrames
<1>8. Len(v) = Len(s) + Len(t) /\ Len(w) = Len(s) + Len(t)
  <2>a. Len(v) = Len(u) + Len(b) /\ Len(w) = Len(s) + Len(t)
    BY <1>7, ConcatFrames
  <2> QED BY <1>2, <1>6, <2>a
<1>9. ASSUME NEW i \in 1 .. Len(s) + Len(t) PROVE v[i] = w[i]
  <2>a. CASE i <= Len(s)
    <3>1. v[i] = u[i] /\ w[i] = s[i]
      BY <1>2, <1>6, <1>7, <2>a
    <3> QED BY <1>2, <1>6, <2>a, <3>1
  <2>b. CASE i > Len(s) /\ i <= Len(s) + n
    <3>1. v[i] = u[i] /\ w[i] = t[i - Len(s)]
      BY <1>2, <1>6, <1>7, <2>b
    <3>2. u[i] = a[i - Len(s)] /\ i - Len(s) \in 1 .. n
      BY <1>2, <1>6, <2>b
    <3> QED BY <1>3, <3>1, <3>2
  <2>c. CASE i > Len(s) + n
    <3>1. v[i] = b[i - (Len(s) + n)] /\ w[i] = t[i - Len(s)]
      BY <1>2, <1>6, <1>7, <2>c
    <3>2. i - (Len(s) + n) \in 1 .. Len(t) - n /\ n + (i - (Len(s) + n)) = i - Len(s)
      BY <1>2, <2>c
    <3> QED BY <1>4, <3>1, <3>2
  <2> QED BY <1>2, <2>a, <2>b, <2>c
<1>10. v = w
  BY <1>8, <1>9
<1> QED BY <1>1, <1>5, <1>7, <1>10

----------------------------------------
(* The numbering of one connection *)

LEMMA InFlightTypes == \A r : InFlight(r) \in {0, 1}
  BY DEF InFlight

SameReplies(q, r) == Replied(q) = Replied(r) /\ Answered(q) = Answered(r)

SameRequests(q, r) ==
    q.wire = r.wire /\ q.sent = r.sent /\ q.requests = r.requests /\ q.processing = r.processing

LEMMA IdsEmpty == Ids(<<>>) = <<>>
<1>1. Ids(<<>>) \in Seq(Nat) /\ Len(Ids(<<>>)) = Len(<<>>)
  BY EmptyTypes, IdsTypes
<1>2. Len(<<>>) = 0
  OBVIOUS
<1> QED BY <1>1, <1>2

LEMMA RepliesKept ==
  ASSUME NEW q, NEW r, q.got = r.got, q.output = r.output
  PROVE  SameReplies(q, r)
  BY DEF SameReplies, Replied, Answered

\* Only the state changes, or the connection begins to close.
LEMMA NumberedMove ==
  ASSUME NEW q \in Connection, NEW r \in Connection, Numbered(r),
         q.got = r.got, q.output = r.output, SameRequests(q, r),
         q.closing = r.closing \/ (q.closing /\ r.st \in Alive),
         q.st \in {"erased", "closed"} \/ r.st \notin {"erased", "closed"},
         q.st \in {"none", "backlog", "queued"} => r.st \in {"none", "backlog", "queued"}
  PROVE  Numbered(q) /\ SameReplies(q, r)
<1>1. SameReplies(q, r)
  BY RepliesKept
<1>2. InFlight(q) = InFlight(r)
  BY DEF SameRequests, InFlight
<1>3. Chain(q, Answered(r))
  BY <1>2 DEF Numbered, Chain, SameRequests, Alive
<1> QED BY <1>1, <1>3 DEF Numbered, SameReplies

\* A failure reply is added and the connection closes.
LEMMA RefusedReplies ==
  ASSUME NEW q \in Connection, NEW r \in Connection, GoodOrder(Replied(r)), NEW x \in Frames, ~x.ok,
         q.got = r.got, q.output = Append(r.output, x)
  PROVE  GoodOrder(Replied(q)) /\ Answered(q) = Answered(r)
<1>1. r.got \in Seq(Frames) /\ r.output \in Seq(Frames)
  BY ConnectionTypes
<1>2. PICK s \in Seq(Frames) : s = Replied(r)
  BY RepliedTypes
<1>3. Replied(q) = Append(s, x)
  <2>a. r.got \o Append(r.output, x) = Append(r.got \o r.output, x)
    BY <1>1, ConcatAppend
  <2> QED BY <1>2, <2>a DEF Replied
<1>4. GoodOrder(Append(s, x))
  BY <1>2, OrderAppend
<1>5. Len(Append(s, x)) = Len(s) + 1 /\ Len(s) \in Nat
  OBVIOUS
<1>6. GoodUpTo(Append(s, x), Len(s) + 1) = GoodUpTo(s, Len(s)) + 0
  BY GoodAppend
<1>7. GoodUpTo(s, Len(s)) \in Nat
  BY <1>5, GoodFinite
<1>8. GoodUpTo(Append(s, x), Len(s) + 1) = GoodUpTo(s, Len(s))
  BY <1>6, <1>7
<1> QED BY <1>2, <1>3, <1>4, <1>5, <1>8 DEF Answered

\* The broker's reply to the request in flight is added.
LEMMA AnsweredReplies ==
  ASSUME NEW q \in Connection, NEW r \in Connection, GoodOrder(Replied(r)), NEW x \in Frames, x.ok,
         x.id = Answered(r) + 1,
         q.got = r.got, q.output = Append(r.output, x)
  PROVE  GoodOrder(Replied(q)) /\ Answered(q) = Answered(r) + 1
<1>1. r.got \in Seq(Frames) /\ r.output \in Seq(Frames)
  BY ConnectionTypes
<1>2. PICK s \in Seq(Frames) : s = Replied(r)
  BY RepliedTypes
<1>3. Replied(q) = Append(s, x)
  <2>a. r.got \o Append(r.output, x) = Append(r.got \o r.output, x)
    BY <1>1, ConcatAppend
  <2> QED BY <1>2, <2>a DEF Replied
<1>4. Answered(r) = GoodUpTo(s, Len(s))
  BY <1>2 DEF Answered
<1>5. GoodOrder(Append(s, x))
  BY <1>2, <1>4, OrderAppend
<1>6. Len(Append(s, x)) = Len(s) + 1
  OBVIOUS
<1>7. GoodUpTo(Append(s, x), Len(s) + 1) = GoodUpTo(s, Len(s)) + 1
  BY GoodAppend
<1> QED BY <1>3, <1>4, <1>5, <1>6, <1>7 DEF Answered

LEMMA SendNumbered ==
  ASSUME NEW r \in Connection, Numbered(r), r.st \notin {"erased", "closed"}, NEW ok \in BOOLEAN,
         NEW q \in Connection, q = Sent(r, ok)
  PROVE  Numbered(q) /\ Answered(q) = Answered(r) /\ q.processing = r.processing
<1>1. /\ q.st = r.st /\ q.got = r.got /\ q.output = r.output /\ q.requests = r.requests
      /\ q.processing = r.processing /\ q.closing = r.closing /\ q.sent = r.sent + 1
      /\ q.wire = Append(r.wire, [id |-> r.sent + 1, ok |-> ok])
  BY DEF Connection, Sent
<1>2. SameReplies(q, r)
  BY <1>1, RepliesKept
<1>3. PICK n \in Nat : n = Answered(r)
  BY RepliedTypes
<1>4. InFlight(q) = InFlight(r)
  BY <1>1 DEF InFlight
<1>5. /\ r.wire \in Seq(Frames) /\ Len(r.wire) \in Nat /\ r.sent \in Nat
      /\ Len(q.wire) = Len(r.wire) + 1 /\ DOMAIN q.wire = 1 .. Len(r.wire) + 1
      /\ DOMAIN r.wire = 1 .. Len(r.wire)
      /\ \A i \in 1 .. Len(r.wire) : q.wire[i] = r.wire[i]
      /\ q.wire[Len(r.wire) + 1].id = r.sent + 1
  BY <1>1, ConnectionTypes
<1>6. q.sent - Len(q.wire) = r.sent - Len(r.wire)
  BY <1>1, <1>5
<1>7. \A i \in DOMAIN r.wire : r.wire[i].id = (r.sent - Len(r.wire)) + i
  BY DEF Numbered, Chain
<1>8. ASSUME NEW i \in DOMAIN q.wire PROVE q.wire[i].id = (q.sent - Len(q.wire)) + i
  <2>a. CASE i \in 1 .. Len(r.wire)
    BY <1>5, <1>6, <1>7, <2>a
  <2>b. CASE i = Len(r.wire) + 1
    <3>1. (r.sent - Len(r.wire)) + (Len(r.wire) + 1) = r.sent + 1
      BY <1>5
    <3> QED BY <1>5, <1>6, <2>b, <3>1
  <2> QED BY <1>5, <2>a, <2>b
<1>9. Chain(q, n)
  BY <1>1, <1>3, <1>4, <1>6, <1>8 DEF Numbered, Chain
<1> QED BY <1>1, <1>2, <1>3, <1>9 DEF Numbered, SameReplies

\* What is read goes on where the waiting requests end.
LEMMA ReadChain ==
  ASSUME NEW r \in Connection, NEW n \in Nat, Chain(r, n),
         r.st \notin {"erased", "closed"}, ~r.closing
  PROVE  /\ \A i \in DOMAIN (r.requests \o Ids(r.wire)) :
               (r.requests \o Ids(r.wire))[i] = n + InFlight(r) + i
         /\ Len(r.requests \o Ids(r.wire)) = Len(r.requests) + Len(r.wire)
         /\ r.sent = n + InFlight(r) + Len(r.requests \o Ids(r.wire))
<1>1. /\ r.requests \in Seq(Nat) /\ r.wire \in Seq(Frames) /\ r.sent \in Nat
      /\ Len(r.requests) \in Nat /\ Len(r.wire) \in Nat
      /\ DOMAIN r.requests = 1 .. Len(r.requests) /\ DOMAIN r.wire = 1 .. Len(r.wire)
  BY ConnectionTypes
<1>2. PICK s \in Seq(Nat) : s = Ids(r.wire)
  BY <1>1, IdsTypes
<1>3. Len(s) = Len(r.wire) /\ \A i \in 1 .. Len(r.wire) : s[i] = r.wire[i].id
  BY <1>1, <1>2, IdsTypes
<1>4. PICK k \in Nat : k = n + InFlight(r)
  BY InFlightTypes
<1>5. PICK a \in Nat, b \in Nat, e \in Nat : a = Len(r.requests) /\ b = Len(r.wire) /\ e = r.sent
  BY <1>1
<1>6. /\ \A i \in 1 .. a : r.requests[i] = k + i
      /\ \A i \in 1 .. b : r.wire[i].id = (e - b) + i
      /\ e - b = k + a
  BY <1>1, <1>4, <1>5 DEF Chain
<1>7. PICK t : t = r.requests \o s
  OBVIOUS
<1>8. /\ Len(t) = a + b /\ DOMAIN t = 1 .. a + b
      /\ \A i \in 1 .. a : t[i] = r.requests[i]
      /\ \A i \in a + 1 .. a + b : t[i] = s[i - a]
  <2>a. Len(s) = b
    BY <1>3, <1>5
  <2>b. /\ Len(t) = Len(r.requests) + Len(s) /\ DOMAIN t = 1 .. Len(r.requests) + Len(s)
        /\ \A i \in 1 .. Len(r.requests) : t[i] = r.requests[i]
        /\ \A i \in Len(r.requests) + 1 .. Len(r.requests) + Len(s) : t[i] = s[i - Len(r.requests)]
    BY <1>1, <1>7
  <2> QED BY <1>5, <2>a, <2>b
<1>9. ASSUME NEW i \in 1 .. a + b PROVE t[i] = k + i
  <2>a. CASE i <= a
    BY <1>6, <1>8, <2>a
  <2>b. CASE i > a
    <3>1. i - a \in 1 .. b /\ i \in a + 1 .. a + b
      BY <2>b
    <3>2. t[i] = r.wire[i - a].id
      BY <1>3, <1>5, <1>8, <3>1
    <3>3. r.wire[i - a].id = (e - b) + (i - a)
      BY <1>6, <3>1
    <3>4. (e - b) + (i - a) = k + i
      BY <1>6, <3>1
    <3> QED BY <3>2, <3>3, <3>4
  <2> QED BY <2>a, <2>b
<1>10. e = k + (a + b)
  BY <1>6
<1> QED BY <1>2, <1>4, <1>5, <1>7, <1>8, <1>9, <1>10

\* Everything is read.
LEMMA ReadNumbered ==
  ASSUME NEW r \in Connection, Numbered(r), r.st = "open", NEW q \in Connection, q = ReadAll(r)
  PROVE  Numbered(q) /\ Answered(q) = Answered(r) /\ q.processing = r.processing
<1>1. /\ q.st = r.st /\ q.got = r.got /\ q.output = r.output /\ q.sent = r.sent
      /\ q.processing = r.processing /\ q.closing = r.closing
      /\ q.requests = r.requests \o Ids(r.wire) /\ q.wire = <<>>
  BY DEF ReadAll, Connection
<1>2. SameReplies(q, r)
  BY <1>1, RepliesKept
<1>3. PICK n \in Nat : n = Answered(r)
  BY RepliedTypes
<1>4. InFlight(q) = InFlight(r)
  BY <1>1 DEF InFlight
<1>5. Len(q.wire) = 0 /\ DOMAIN q.wire = {} /\ q.sent \in Nat
  BY <1>1, ConnectionTypes
<1>6. q.sent - Len(q.wire) = q.sent
  BY <1>5
<1>7. ~q.closing => /\ \A i \in DOMAIN q.requests : q.requests[i] = n + InFlight(q) + i
                    /\ q.sent = n + InFlight(q) + Len(q.requests)
  <2>a. Chain(r, n)
    BY <1>3 DEF Numbered
  <2>b. ~r.closing => /\ \A i \in DOMAIN (r.requests \o Ids(r.wire)) :
                            (r.requests \o Ids(r.wire))[i] = n + InFlight(r) + i
                      /\ r.sent = n + InFlight(r) + Len(r.requests \o Ids(r.wire))
    BY <2>a, ReadChain
  <2> QED BY <1>1, <1>4, <2>b
<1>8. Chain(q, n)
  BY <1>1, <1>5, <1>6, <1>7 DEF Chain
<1> QED BY <1>1, <1>2, <1>3, <1>8 DEF Numbered, SameReplies

\* The peer closed: what was read waits behind the other requests, unless nothing was.
LEMMA EndedNumbered ==
  ASSUME NEW r \in Connection, Numbered(r), r.st = "open", NEW read \in {<<>>, r.wire},
         NEW q \in Connection, q = Ended(r, read)
  PROVE  Numbered(q) /\ Answered(q) = Answered(r) /\ q.processing = r.processing
<1>1. /\ q.st = "erased" /\ q.got = r.got /\ q.output = r.output
      /\ q.processing = r.processing /\ q.closing = r.closing
      /\ q.requests = r.requests \o Ids(read)
  BY DEF Ended, Connection
<1>2. SameReplies(q, r)
  BY <1>1, RepliesKept
<1>3. PICK n \in Nat : n = Answered(r)
  BY RepliedTypes
<1>4. InFlight(q) = InFlight(r)
  BY <1>1 DEF InFlight
<1>5. ~q.closing => \A i \in DOMAIN q.requests : q.requests[i] = n + InFlight(q) + i
  <2>a. CASE read = r.wire
    <3>1. Chain(r, n)
      BY <1>3 DEF Numbered
    <3>2. ~r.closing => \A i \in DOMAIN (r.requests \o Ids(r.wire)) :
                           (r.requests \o Ids(r.wire))[i] = n + InFlight(r) + i
      BY <3>1, ReadChain
    <3> QED BY <1>1, <1>4, <2>a, <3>2
  <2>b. CASE read = <<>>
    <3>1. Ids(read) = <<>>
      BY <2>b, IdsEmpty
    <3>2. r.requests \in Seq(Nat)
      BY ConnectionTypes
    <3>3. q.requests = r.requests
      BY <1>1, <3>1, <3>2
    <3> QED BY <1>1, <1>3, <1>4, <3>3 DEF Numbered, Chain
  <2> QED BY <2>a, <2>b
<1>6. Chain(q, n)
  BY <1>1, <1>5 DEF Chain
<1> QED BY <1>1, <1>2, <1>3, <1>6 DEF Numbered, SameReplies

\* A frame does not decode.
LEMMA FailedNumbered ==
  ASSUME NEW r \in Connection, Numbered(r), r.st = "open", NEW id \in Nat,
         NEW q \in Connection, q = Failed(r, id)
  PROVE  Numbered(q) /\ Answered(q) = Answered(r) /\ q.processing = r.processing
<1>1. /\ q.st = r.st /\ q.got = r.got /\ q.output = Append(r.output, Reply(id, FALSE))
      /\ q.processing = r.processing /\ q.closing /\ q.wire = <<>>
  BY DEF Failed, Connection
<1>2. Reply(id, FALSE) \in Frames /\ ~Reply(id, FALSE).ok
  BY ReplyTypes, EmptyTypes
<1>3. GoodOrder(Replied(q)) /\ Answered(q) = Answered(r)
  BY <1>1, <1>2, RefusedReplies DEF Numbered
<1>4. DOMAIN q.wire = {}
  BY <1>1
<1>5. Chain(q, Answered(q))
  BY <1>1, <1>4 DEF Chain
<1> QED BY <1>1, <1>3, <1>5 DEF Numbered

\* Replies leave the output buffer for the client.
LEMMA WrittenNumbered ==
  ASSUME NEW r \in Connection, Numbered(r), NEW n \in 1 .. Len(r.output),
         NEW q \in Connection, q = Written(r, n)
  PROVE  Numbered(q) /\ Answered(q) = Answered(r) /\ q.processing = r.processing
<1>1. /\ q.st = r.st /\ q.output = SubSeq(r.output, n + 1, Len(r.output))
      /\ q.got = r.got \o SubSeq(r.output, 1, n) /\ q.requests = r.requests
      /\ q.processing = r.processing /\ q.closing = r.closing /\ q.wire = r.wire /\ q.sent = r.sent
  BY DEF Written, Connection
<1>2. Replied(q) = Replied(r)
  <2>a. (r.got \o SubSeq(r.output, 1, n)) \o SubSeq(r.output, n + 1, Len(r.output)) = r.got \o r.output
    BY ConnectionTypes, ConcatSplit
  <2> QED BY <1>1, <2>a DEF Replied
<1>3. Answered(q) = Answered(r)
  BY <1>2 DEF Answered
<1>4. InFlight(q) = InFlight(r)
  BY <1>1 DEF InFlight
<1>5. Chain(q, Answered(r))
  BY <1>1, <1>4 DEF Numbered, Chain
<1> QED BY <1>1, <1>2, <1>3, <1>5 DEF Numbered

\* The request in flight is answered: the next one in line takes its number.
LEMMA RespondedNumbered ==
  ASSUME NEW r \in Connection, Numbered(r), r.st \in Alive, r.processing, NEW id \in Nat,
         id = Answered(r) + 1, NEW q \in Connection, q = Responded(r, id)
  PROVE  Numbered(q) /\ ~q.processing /\ q.st = r.st
<1>1. /\ q.st = r.st /\ q.got = r.got /\ q.output = Append(r.output, Reply(id, TRUE))
      /\ ~q.processing /\ q.closing = r.closing /\ q.wire = r.wire /\ q.sent = r.sent
      /\ q.requests = r.requests
  BY DEF Responded, Connection
<1>2. Reply(id, TRUE) \in Frames /\ Reply(id, TRUE).ok /\ Reply(id, TRUE).id = id
  BY ReplyTypes, EmptyTypes
<1>3. GoodOrder(Replied(q)) /\ Answered(q) = Answered(r) + 1
  BY <1>1, <1>2, AnsweredReplies DEF Numbered
<1>4. PICK n \in Nat : n = Answered(r)
  BY RepliedTypes
<1>5. InFlight(r) = 1 /\ InFlight(q) = 0
  BY <1>1 DEF InFlight
<1>6. PICK a : a = n + InFlight(r) /\ a = (n + 1) + InFlight(q)
  BY <1>5
<1>7. Chain(r, n)
  BY <1>4 DEF Numbered
<1>8. Chain(q, n + 1)
  BY <1>1, <1>6, <1>7 DEF Chain, Alive
<1> QED BY <1>1, <1>3, <1>4, <1>8 DEF Numbered

\* The next request is submitted, refused or left waiting.
LEMMA SubmitNumbered ==
  ASSUME NEW r \in Connection, Numbered(r), r.st \in Alive,
         NEW q \in Connection, q = SubmitNext(r)
  PROVE  /\ Numbered(q) /\ Answered(q) = Answered(r) /\ q.st = r.st
         /\ IF MaySubmit(r) /\ Accepted
            THEN ~r.processing /\ q.processing /\ Head(r.requests) = Answered(r) + 1
            ELSE q.processing = r.processing
<1>1. CASE ~MaySubmit(r)
  <2>a. q = r
    BY <1>1 DEF SubmitNext
  <2> QED BY <1>1, <2>a
<1>2. CASE MaySubmit(r)
  <2>a. /\ r.requests \in Seq(Nat) /\ r.requests # <<>> /\ ~r.processing /\ ~r.closing
        /\ Len(r.requests) \in Nat
    BY <1>2, ConnectionTypes DEF MaySubmit
  <2>b. PICK t \in Seq(Nat), h \in Nat : t = Tail(r.requests) /\ h = Head(r.requests)
    <3>1. Tail(r.requests) \in Seq(Nat) /\ Head(r.requests) \in Nat
      BY <2>a
    <3> QED BY <3>1
  <2>c. PICK n \in Nat : n = Answered(r)
    BY RepliedTypes
  <2>d. InFlight(r) = 0
    BY <2>a DEF InFlight
  <2>e. \A i \in DOMAIN r.requests : r.requests[i] = n + i
    <3>1. \A i \in DOMAIN r.requests : r.requests[i] = n + 0 + i
      BY <2>a, <2>c, <2>d DEF Numbered, Chain
    <3> QED BY <3>1
  <2>f. h = n + 1
    <3>1. 1 \in DOMAIN r.requests /\ h = r.requests[1]
      BY <2>a, <2>b
    <3> QED BY <2>e, <3>1
  <2>g. CASE Accepted
    <3>1. q = [r EXCEPT !.processing = TRUE, !.requests = t]
      BY <1>2, <2>b, <2>g DEF SubmitNext
    <3>2. /\ q.st = r.st /\ q.got = r.got /\ q.output = r.output /\ q.sent = r.sent
          /\ q.processing /\ q.closing = r.closing /\ q.wire = r.wire /\ q.requests = t
      BY <3>1 DEF Connection
    <3>3. SameReplies(q, r)
      BY <3>2, RepliesKept
    <3>4. InFlight(q) = 1
      BY <3>2 DEF InFlight
    <3>5. /\ Len(t) \in Nat /\ Len(r.requests) = Len(t) + 1
          /\ \A i \in DOMAIN t : i \in Nat /\ i + 1 \in DOMAIN r.requests /\ t[i] = r.requests[i + 1]
      <4>1. Len(t) = Len(r.requests) - 1 /\ Len(t) \in Nat
        BY <2>a, <2>b
      <4>2. DOMAIN t = 1 .. Len(t) /\ DOMAIN r.requests = 1 .. Len(r.requests)
        BY <2>a
      <4>3. \A i \in 1 .. Len(r.requests) - 1 : t[i] = r.requests[i + 1]
        BY <2>a, <2>b
      <4>4. PICK a \in Nat, b \in Nat : a = Len(t) /\ b = Len(r.requests)
        BY <2>a, <4>1
      <4>5. b = a + 1 /\ \A i \in 1 .. a : i \in Nat /\ i + 1 \in 1 .. b /\ i \in 1 .. b - 1
        BY <4>1, <4>4
      <4>6. Len(r.requests) = Len(t) + 1
        BY <4>4, <4>5
      <4>7. \A i \in DOMAIN t : i \in 1 .. a
        BY <4>2, <4>4
      <4>8. \A i \in 1 .. a : i \in Nat /\ i + 1 \in DOMAIN r.requests /\ t[i] = r.requests[i + 1]
        BY <4>2, <4>3, <4>4, <4>5
      <4> QED BY <4>1, <4>6, <4>7, <4>8
    <3>6. \A i \in DOMAIN t : t[i] = n + 1 + i
      <4>1. \A i \in DOMAIN t : t[i] = n + (i + 1)
        BY <2>e, <3>5
      <4> QED BY <3>5, <4>1
    <3>7. n + InFlight(r) + Len(r.requests) = n + InFlight(q) + Len(t)
      BY <2>d, <3>4, <3>5
    <3>8. Chain(r, n)
      BY <2>c DEF Numbered
    <3>9. \A i \in DOMAIN q.requests : q.requests[i] = n + InFlight(q) + i
      BY <3>2, <3>4, <3>6
    <3>10. Chain(q, n)
      BY <3>2, <3>7, <3>8, <3>9 DEF Chain, Alive
    <3> QED BY <1>2, <2>a, <2>b, <2>c, <2>f, <2>g, <3>2, <3>3, <3>10 DEF Numbered, SameReplies
  <2>h. CASE ~Accepted
    <3>1. q = [r EXCEPT !.requests = Tail(r.requests),
                        !.output = Append(r.output, Reply(h, FALSE)), !.closing = TRUE]
      BY <1>2, <2>b, <2>h DEF SubmitNext
    <3>2. /\ q.st = r.st /\ q.got = r.got /\ q.output = Append(r.output, Reply(h, FALSE))
          /\ q.sent = r.sent /\ q.processing = r.processing /\ q.closing /\ q.wire = r.wire
      BY <3>1 DEF Connection
    <3>3. Reply(h, FALSE) \in Frames /\ ~Reply(h, FALSE).ok
      BY ReplyTypes, EmptyTypes
    <3>4. GoodOrder(Replied(q)) /\ Answered(q) = Answered(r)
      BY <3>2, <3>3, RefusedReplies DEF Numbered
    <3>5. Chain(q, n)
      BY <2>c, <3>2 DEF Numbered, Chain, Alive
    <3> QED BY <2>c, <2>h, <3>2, <3>4, <3>5 DEF Numbered
  <2> QED BY <2>g, <2>h
<1> QED BY <1>1, <1>2

----------------------------------------
(* One request in flight *)

LEMMA CarriedKept ==
  ASSUME NEW c, NEW r, NEW q, NEW f, NEW ts, NEW bs, Carried(c, r, f, ts, bs),
         Answered(q) = Answered(r), q.processing = r.processing
  PROVE  Carried(c, q, f, ts, bs)
  BY DEF Carried, Expected

LEMMA CarriedFunctor ==
  ASSUME NEW c, NEW r, NEW f \in Seq(Functors), NEW ts, NEW bs, Carried(c, r, f, ts, bs),
         NEW x \in Functors, x.kind # "response"
  PROVE  Carried(c, r, Append(f, x), ts, bs)
<1>1. PICK g : g = Append(f, x)
  OBVIOUS
<1>2. ASSUME NEW i \in DOMAIN g, g[i].kind = "response" PROVE i \in DOMAIN f /\ g[i] = f[i]
  BY <1>1, <1>2
<1>3. Carried(c, r, g, ts, bs)
  BY <1>2 DEF Carried, Answers
<1> QED BY <1>1, <1>3

\* The first functor has run; i is its position among those that are left.
LEMMA TailFunctors ==
  ASSUME NEW f \in Seq(Functors), f # <<>>
  PROVE  \A i \in DOMAIN Tail(f) : /\ i \in Nat /\ i # 0 /\ i + 1 \in DOMAIN f
                                   /\ Tail(f)[i] = f[i + 1]
<1>1. Len(Tail(f)) = Len(f) - 1 /\ Len(f) \in Nat /\ DOMAIN Tail(f) = 1 .. Len(f) - 1
  OBVIOUS
<1> QED BY <1>1

LEMMA CarriedTail ==
  ASSUME NEW c, NEW r, NEW f \in Seq(Functors), NEW ts, NEW bs, Carried(c, r, f, ts, bs),
         f # <<>>
  PROVE  Carried(c, r, Tail(f), ts, bs)
<1>1. PICK g : g = Tail(f)
  OBVIOUS
<1>2. \A i \in DOMAIN g : i \in Nat /\ i + 1 \in DOMAIN f /\ g[i] = f[i + 1]
  BY <1>1, TailFunctors
<1>3. \A i \in DOMAIN g : g[i].kind = "response" => Expected(r, g[i].id)
  BY <1>2 DEF Carried
<1>4. \A i, j \in DOMAIN g : g[i].kind = "response" /\ g[j].kind = "response" => i = j
  <2>a. \A i, j \in DOMAIN g : g[i].kind = "response" /\ g[j].kind = "response" => i + 1 = j + 1
    BY <1>2 DEF Carried
  <2> QED BY <1>2, <2>a
<1>5. Answers(g) => Answers(f)
  BY <1>2 DEF Answers
<1>6. Carried(c, r, g, ts, bs)
  BY <1>3, <1>4, <1>5 DEF Carried
<1> QED BY <1>1, <1>6

\* The reply was the only request in flight.
LEMMA CarriedResponse ==
  ASSUME NEW c, NEW r, NEW q, NEW f \in Seq(Functors), NEW ts, NEW bs,
         Carried(c, r, f, ts, bs), f # <<>>, f[1].kind = "response"
  PROVE  Carried(c, q, Tail(f), ts, bs)
<1>1. PICK g : g = Tail(f)
  OBVIOUS
<1>2. \A i \in DOMAIN g : i \in Nat /\ i # 0 /\ i + 1 \in DOMAIN f /\ g[i] = f[i + 1]
  BY <1>1, TailFunctors
<1>3. 1 \in DOMAIN f
  OBVIOUS
<1>4. ~Answers(g)
  <2>a. SUFFICES ASSUME NEW i \in DOMAIN g, g[i].kind = "response" PROVE FALSE
    BY DEF Answers
  <2>b. i + 1 = 1
    BY <1>2, <1>3, <2>a DEF Carried
  <2> QED BY <1>2, <2>b
<1>5. Answers(f)
  BY <1>3 DEF Answers
<1>6. ~InTasks(c, ts) /\ ~InBusy(c, bs)
  BY <1>5 DEF Carried
<1>7. Carried(c, q, g, ts, bs)
  BY <1>4, <1>6 DEF Carried, InTasks, InBusy, Answers
<1> QED BY <1>1, <1>7

\* A request is submitted by a connection that has none in flight.
LEMMA CarriedSubmit ==
  ASSUME NEW c \in Clients, NEW d \in Clients, NEW r, NEW q, NEW f, NEW ts \in Seq(Clients \X Nat),
         NEW bs, NEW id \in Nat, Carried(d, r, f, ts, bs),
         IF d = c THEN ~r.processing /\ Expected(q, id) ELSE q = r
  PROVE  Carried(d, q, f, Append(ts, <<c, id>>), bs)
<1>1. PICK us : us = Append(ts, <<c, id>>)
  OBVIOUS
<1>2. /\ Len(ts) \in Nat /\ DOMAIN ts = 1 .. Len(ts) /\ DOMAIN us = 1 .. Len(ts) + 1
      /\ \A i \in DOMAIN ts : us[i] = ts[i] /\ i # Len(ts) + 1
      /\ us[Len(ts) + 1] = <<c, id>>
  BY <1>1
<1>3. PICK n : n = Len(ts) + 1 /\ n \notin DOMAIN ts /\ DOMAIN us = DOMAIN ts \cup {n} /\ us[n] = <<c, id>>
  BY <1>2
<1>4. us[n][1] = c /\ us[n][2] = id
  BY <1>3
<1>5. CASE d = c
  <2>a. ~InTasks(c, ts) /\ ~InBusy(c, bs) /\ ~Answers(f)
    BY <1>5 DEF Carried, InTasks, InBusy, Answers, Expected
  <2>b. \A i \in DOMAIN us : us[i][1] = c => i = n
    BY <1>2, <1>3, <2>a DEF InTasks
  <2>c. Carried(d, q, f, us, bs)
    BY <1>4, <1>5, <2>a, <2>b DEF Carried, InTasks, InBusy, Answers
  <2> QED BY <1>1, <2>c
<1>6. CASE d # c
  <2>a. \A i \in DOMAIN us : us[i][1] = d => i \in DOMAIN ts /\ us[i] = ts[i]
    BY <1>2, <1>3, <1>4, <1>6
  <2>b. InTasks(d, us) => InTasks(d, ts)
    BY <2>a DEF InTasks
  <2>c. Carried(d, r, f, us, bs)
    BY <2>a, <2>b DEF Carried
  <2> QED BY <1>1, <1>6, <2>c
<1> QED BY <1>5, <1>6

LEMMA CarriedTake ==
  ASSUME NEW d \in Clients, NEW r, NEW f, NEW ts \in Seq(Clients \X Nat), ts # <<>>,
         NEW bs \in [Workers -> (Clients \X Nat) \cup {Idle}], NEW w \in Workers, bs[w] = Idle,
         Carried(d, r, f, ts, bs)
  PROVE  Carried(d, r, f, Tail(ts), [bs EXCEPT ![w] = Head(ts)])
<1>1. PICK us, cs : us = Tail(ts) /\ cs = [bs EXCEPT ![w] = Head(ts)]
  OBVIOUS
<1>2. /\ 1 \in DOMAIN ts /\ Head(ts) = ts[1] /\ ts[1] \in Clients \X Nat
      /\ Len(ts) \in Nat /\ DOMAIN us = 1 .. Len(ts) - 1 /\ DOMAIN ts = 1 .. Len(ts)
  BY <1>1
<1>3. \A i \in DOMAIN us : i \in Nat /\ i # 0 /\ i + 1 \in DOMAIN ts /\ us[i] = ts[i + 1]
  BY <1>1, <1>2
<1>4. cs[w] = ts[1] /\ \A v \in Workers : v # w => cs[v] = bs[v]
  BY <1>1, <1>2
<1>5. \A i \in DOMAIN us : us[i][1] = d => Expected(r, us[i][2])
  BY <1>3 DEF Carried
<1>6. \A v \in Workers : cs[v] # Idle /\ cs[v][1] = d => Expected(r, cs[v][2])
  BY <1>2, <1>4 DEF Carried
<1>7. \A i, j \in DOMAIN us : us[i][1] = d /\ us[j][1] = d => i = j
  <2>a. \A i, j \in DOMAIN us : us[i][1] = d /\ us[j][1] = d => i + 1 = j + 1
    BY <1>3 DEF Carried
  <2> QED BY <1>3, <2>a
<1>8. CASE ts[1][1] = d
  <2>a. InTasks(d, ts)
    BY <1>2, <1>8 DEF InTasks
  <2>b. ~InBusy(d, bs) /\ ~Answers(f)
    BY <2>a DEF Carried
  <2>c. ~InTasks(d, us)
    <3>1. \A i \in DOMAIN us : us[i][1] = d => i + 1 = 1
      BY <1>2, <1>3, <1>8 DEF Carried
    <3>2. \A i \in DOMAIN us : i + 1 # 1
      BY <1>3
    <3> QED BY <3>1, <3>2 DEF InTasks
  <2>d. \A v \in Workers : cs[v] # Idle /\ cs[v][1] = d => v = w
    BY <1>4, <2>b DEF InBusy
  <2>e. Carried(d, r, f, us, cs)
    BY <1>5, <1>6, <1>7, <2>b, <2>c, <2>d DEF Carried
  <2> QED BY <1>1, <2>e
<1>9. CASE ts[1][1] # d
  <2>a. \A v \in Workers : cs[v] # Idle /\ cs[v][1] = d => v # w /\ cs[v] = bs[v]
    BY <1>4, <1>9
  <2>b. InBusy(d, cs) => InBusy(d, bs)
    BY <2>a DEF InBusy
  <2>c. InTasks(d, us) => InTasks(d, ts)
    BY <1>3 DEF InTasks
  <2>d. Carried(d, r, f, us, cs)
    BY <1>5, <1>6, <1>7, <2>a, <2>b, <2>c DEF Carried
  <2> QED BY <1>1, <2>d
<1> QED BY <1>8, <1>9

LEMMA CarriedFinish ==
  ASSUME NEW c \in Clients, NEW d \in Clients, NEW r, NEW f \in Seq(Functors), NEW ts, NEW id \in Nat,
         NEW bs \in [Workers -> (Clients \X Nat) \cup {Idle}], NEW w \in Workers, bs[w] = <<c, id>>,
         Carried(d, r, f, ts, bs), NEW g,
         g = IF d = c THEN Append(f, [kind |-> "response", id |-> id]) ELSE f
  PROVE  Carried(d, r, g, ts, [bs EXCEPT ![w] = Idle])
<1>1. PICK cs : cs = [bs EXCEPT ![w] = Idle]
  OBVIOUS
<1>2. cs[w] = Idle /\ \A v \in Workers : v # w => cs[v] = bs[v]
  BY <1>1
<1>3. /\ bs[w] # Idle /\ bs[w][1] = c /\ bs[w][2] = id
  BY PairNotIdle
<1>4. \A v \in Workers : cs[v] # Idle => cs[v] = bs[v]
  BY <1>2
<1>5. InBusy(d, cs) => InBusy(d, bs)
  BY <1>4 DEF InBusy
<1>6. CASE d = c
  <2>a. InBusy(c, bs)
    BY <1>3 DEF InBusy
  <2>b. ~Answers(f) /\ ~InTasks(c, ts)
    BY <1>6, <2>a DEF Carried
  <2>c. ~InBusy(c, cs)
    BY <1>2, <1>3, <1>4, <1>6 DEF Carried, InBusy
  <2>d. PICK x : x = [kind |-> "response", id |-> id] /\ x.id = id
    OBVIOUS
  <2>e. Expected(r, id)
    BY <1>3, <1>6 DEF Carried
  <2>f. \A i \in DOMAIN g : g[i].kind = "response" => i = Len(f) + 1 /\ g[i].id = id
    <3>1. /\ DOMAIN g = DOMAIN f \cup {Len(f) + 1} /\ g[Len(f) + 1] = x
          /\ \A i \in DOMAIN f : g[i] = f[i]
      BY <1>6, <2>d
    <3> QED BY <2>b, <2>d, <3>1 DEF Answers
  <2>g. Carried(d, r, g, ts, cs)
    BY <1>6, <2>b, <2>c, <2>e, <2>f DEF Carried, InTasks, InBusy
  <2> QED BY <1>1, <2>g
<1>7. CASE d # c
  <2>a. Carried(d, r, f, ts, cs)
    BY <1>4, <1>5 DEF Carried
  <2> QED BY <1>1, <1>7, <2>a
<1> QED BY <1>6, <1>7

Harmless(f, g) ==
    \/ g = f
    \/ f # <<>> /\ g = Tail(f)
    \/ \E kind \in {"register", "shutdown"} : g = Append(f, [kind |-> kind])

LEMMA CarriedHarmless ==
  ASSUME NEW c, NEW r, NEW q, NEW f \in Seq(Functors), NEW g, NEW ts, NEW bs,
         Carried(c, r, f, ts, bs), Harmless(f, g),
         Answered(q) = Answered(r), q.processing = r.processing
  PROVE  Carried(c, q, g, ts, bs)
<1>1. Carried(c, q, f, ts, bs)
  BY CarriedKept
<1>2. CASE g = f
  BY <1>1, <1>2
<1>3. CASE f # <<>> /\ g = Tail(f)
  BY <1>1, <1>3, CarriedTail
<1>4. ASSUME NEW kind \in {"register", "shutdown"}, g = Append(f, [kind |-> kind])
      PROVE  Carried(c, q, g, ts, bs)
  <2>a. [kind |-> kind] \in Functors /\ [kind |-> kind].kind # "response"
    BY DEF Functors
  <2> QED BY <1>1, <1>4, <2>a, CarriedFunctor
<1> QED BY <1>2, <1>3, <1>4 DEF Harmless

----------------------------------------
(* Every step keeps the numbering and the request in flight *)

LEMMA ClosedNumbered ==
  ASSUME NEW r \in Connection, Numbered(r)
  PROVE  Numbered(Closed(r)) /\ Answered(Closed(r)) = Answered(r)
         /\ Closed(r).processing = r.processing
<1>1. PICK q \in Connection : q = Closed(r)
  BY RecordTypes
<1>2. /\ q.st = "erased" /\ q.got = r.got /\ q.output = r.output /\ q.sent = r.sent
      /\ q.processing = r.processing /\ q.closing = r.closing /\ q.requests = r.requests
      /\ q.wire = r.wire
  BY <1>1 DEF Closed, Connection
<1> QED BY <1>1, <1>2, NumberedMove DEF SameRequests, SameReplies

LEMMA ReleasedNumbered ==
  ASSUME NEW r \in Connection, Numbered(r), NEW c, NEW ts
  PROVE  /\ Numbered(Released(c, r, ts)) /\ Answered(Released(c, r, ts)) = Answered(r)
         /\ Released(c, r, ts).processing = r.processing
<1>1. Released(c, r, ts) = r \/ Released(c, r, ts) = Closed(r)
  BY DEF Released, Closed
<1> QED BY <1>1, ClosedNumbered

LEMMA ClosingNumbered ==
  ASSUME NEW r \in Connection, Numbered(r), r.st \in Alive, NEW q \in Connection,
         q = [r EXCEPT !.closing = TRUE]
  PROVE  Numbered(q) /\ Answered(q) = Answered(r) /\ q.processing = r.processing
<1>1. /\ q.st = r.st /\ q.got = r.got /\ q.output = r.output /\ q.sent = r.sent
      /\ q.processing = r.processing /\ q.closing /\ q.requests = r.requests
      /\ q.wire = r.wire
  BY DEF Connection
<1> QED BY <1>1, NumberedMove DEF SameRequests, SameReplies

\* No request moves.
LEMMA RequestsStay ==
  ASSUME Types, Flying, tasks' = tasks, busy' = busy,
         \A d \in Clients :
            /\ Numbered(conn'[d]) /\ Answered(conn'[d]) = Answered(conn[d])
            /\ conn'[d].processing = conn[d].processing
            /\ Harmless(pending[d], pending'[d])
  PROVE  Order' /\ Flying'
<1>1. \A d \in Clients : Numbered(conn'[d])
  OBVIOUS
<1>2. ASSUME NEW d \in Clients PROVE Carried(d, conn'[d], pending'[d], tasks', busy')
  <2>a. Carried(d, conn[d], pending[d], tasks, busy) /\ pending[d] \in Seq(Functors)
    BY PendingTypes DEF Flying
  <2>b. Carried(d, conn'[d], pending'[d], tasks, busy)
    BY <2>a, CarriedHarmless
  <2> QED BY <2>b
<1> QED BY <1>1, <1>2 DEF Order, Flying

LEMMA RequestsStayOne ==
  ASSUME Types, Order, Flying, tasks' = tasks, busy' = busy, NEW c \in Clients, NEW q, Moved(c, q),
         Numbered(q), Answered(q) = Answered(conn[c]), q.processing = conn[c].processing,
         Harmless(pending[c], pending'[c]),
         \A d \in Clients \ {c} : pending'[d] = pending[d]
  PROVE  Order' /\ Flying'
<1>1. ASSUME NEW d \in Clients
      PROVE  /\ Numbered(conn'[d]) /\ Answered(conn'[d]) = Answered(conn[d])
             /\ conn'[d].processing = conn[d].processing
             /\ Harmless(pending[d], pending'[d])
  <2>a. CASE d = c
    BY <2>a DEF Moved
  <2>b. CASE d # c
    BY <2>b DEF Moved, Order, Harmless
  <2> QED BY <2>a, <2>b
<1> QED BY <1>1, RequestsStay

\* Connection r, with no reply on its way, submits its next request.
LEMMA RequestSubmitted ==
  ASSUME Types, Order, Flying, busy' = busy, NEW c \in Clients, NEW r \in Connection,
         Numbered(r), r.st \in Alive, Carried(c, r, pending'[c], tasks, busy),
         tasks' = TasksAfter(c, r), NEW q, Moved(c, q), Numbered(q),
         Answered(q) = Answered(SubmitNext(r)), q.processing = SubmitNext(r).processing,
         \A d \in Clients \ {c} : pending'[d] = pending[d]
  PROVE  Order' /\ Flying'
<1>1. \A d \in Clients : Numbered(conn'[d])
  BY DEF Order, Moved
<1>2. tasks \in Seq(Clients \X Nat)
  BY DEF Types
<1>3. PICK s \in Connection : s = SubmitNext(r)
  BY <1>2, SubmitTypes
<1>4. /\ Answered(s) = Answered(r)
      /\ IF MaySubmit(r) /\ Accepted
         THEN ~r.processing /\ s.processing /\ Head(r.requests) = Answered(r) + 1
         ELSE s.processing = r.processing
  BY <1>3, SubmitNumbered
<1>5. ASSUME NEW d \in Clients PROVE Carried(d, conn'[d], pending'[d], tasks', busy')
  <2>a. CASE MaySubmit(r) /\ Accepted
    <3>1. PICK id \in Nat : id = Answered(r) + 1
      BY RepliedTypes
    <3>2. tasks' = Append(tasks, <<c, id>>)
      BY <1>4, <2>a, <3>1 DEF TasksAfter
    <3>3. CASE d = c
      <4>1. conn'[d] = q /\ Expected(q, id)
        BY <1>3, <1>4, <2>a, <3>1, <3>3 DEF Moved, Expected
      <4>2. Carried(d, q, pending'[d], Append(tasks, <<c, id>>), busy)
        BY <1>2, <1>4, <2>a, <3>3, <4>1, CarriedSubmit
      <4> QED BY <3>2, <4>1, <4>2
    <3>4. CASE d # c
      <4>1. conn'[d] = conn[d] /\ pending'[d] = pending[d]
        BY <3>4 DEF Moved
      <4>2. Carried(d, conn[d], pending[d], tasks, busy)
        BY DEF Flying
      <4>3. Carried(d, conn[d], pending[d], Append(tasks, <<c, id>>), busy)
        BY <1>2, <3>4, <4>2, CarriedSubmit
      <4> QED BY <3>2, <4>1, <4>3
    <3> QED BY <3>3, <3>4
  <2>b. CASE ~(MaySubmit(r) /\ Accepted)
    <3>1. tasks' = tasks
      BY <2>b DEF TasksAfter
    <3>2. CASE d = c
      <4>1. conn'[d] = q /\ Answered(q) = Answered(r) /\ q.processing = r.processing
        BY <1>3, <1>4, <2>b, <3>2 DEF Moved
      <4>2. Carried(d, q, pending'[d], tasks, busy)
        BY <3>2, <4>1, CarriedKept
      <4> QED BY <3>1, <4>1, <4>2
    <3>3. CASE d # c
      BY <3>1, <3>3 DEF Moved, Flying
    <3> QED BY <3>2, <3>3
  <2> QED BY <2>a, <2>b
<1> QED BY <1>1, <1>5 DEF Order, Flying

LEMMA RequestStep ==
  Types /\ Types' /\ Queued /\ Order /\ Flying /\ [Next]_vars => Order' /\ Flying'
<1> SUFFICES ASSUME Types, Types', Queued, Order, Flying, [Next]_vars PROVE Order' /\ Flying'
  OBVIOUS
<1> USE DEF control
<1>0. \A c \in Clients : conn[c] \in Connection /\ Numbered(conn[c])
  BY DEF Types, Order
<1>1. ASSUME NEW c \in Clients, NEW q, Moved(c, q), tasks' = tasks, busy' = busy, pending' = pending,
             Numbered(q), Answered(q) = Answered(conn[c]), q.processing = conn[c].processing
      PROVE  Order' /\ Flying'
  <2>a. Harmless(pending[c], pending'[c])
    BY <1>1 DEF Harmless
  <2> QED BY <1>1, <2>a, RequestsStayOne
\* Only the state or the peer changes.
<1>2. ASSUME NEW r \in Connection, Numbered(r), NEW q \in Connection,
             q.got = r.got, q.output = r.output, SameRequests(q, r), q.closing = r.closing,
             q.st \in {"erased", "closed"} \/ r.st \notin {"erased", "closed"},
             q.st \in {"none", "backlog", "queued"} => r.st \in {"none", "backlog", "queued"}
      PROVE  Numbered(q) /\ Answered(q) = Answered(r) /\ q.processing = r.processing
  BY <1>2, NumberedMove DEF SameReplies, SameRequests
<1>3. ASSUME NEW c \in Clients, Connect(c) PROVE Order' /\ Flying'
  <2>a. PICK r \in Connection, q \in Connection :
           r = conn[c] /\ q = [r EXCEPT !.st = "backlog"] /\ Moved(c, q)
    BY <1>0, <1>3, ConnectEffect DEF Moved
  <2>b. /\ q.got = r.got /\ q.output = r.output /\ SameRequests(q, r) /\ q.closing = r.closing
        /\ q.st = "backlog"
    BY <2>a DEF Connection, SameRequests
  <2>c. r.st = "none" /\ Numbered(r)
    BY <1>0, <1>3, <2>a DEF Connect
  <2>d. Numbered(q) /\ Answered(q) = Answered(r) /\ q.processing = r.processing
    BY <1>2, <2>b, <2>c
  <2> QED BY <1>1, <1>3, <2>a, <2>d DEF Connect
<1>4. ASSUME NEW c \in Clients, NEW ok \in BOOLEAN, Send(c, ok) PROVE Order' /\ Flying'
  <2>a. PICK r \in Connection : r = conn[c] /\ Numbered(r)
    BY <1>0
  <2>b. PICK q \in Connection :
          q = Sent(r, ok) /\ Moved(c, q)
    <3>1. Moved(c, Sent(conn[c], ok))
      BY <1>4, SendEffect
    <3>2. PICK q : q = Sent(r, ok) /\ Moved(c, q)
      BY <2>a, <3>1
    <3> QED BY <3>2 DEF Moved
  <2>c. r.st \notin {"erased", "closed"}
    BY <1>4, <2>a DEF Send
  <2>d. Numbered(q) /\ Answered(q) = Answered(r) /\ q.processing = r.processing
    BY <2>a, <2>b, <2>c, SendNumbered
  <2> QED BY <1>1, <1>4, <2>a, <2>b, <2>d DEF Send
<1>5. ASSUME NEW c \in Clients, Disconnect(c) PROVE Order' /\ Flying'
  <2>a. PICK r \in Connection, q \in Connection :
           r = conn[c] /\ q = [r EXCEPT !.peer = FALSE] /\ Moved(c, q)
    BY <1>0, <1>5, DisconnectEffect DEF Moved
  <2>b. /\ q.got = r.got /\ q.output = r.output /\ SameRequests(q, r) /\ q.closing = r.closing
        /\ q.st = r.st
    BY <2>a DEF Connection, SameRequests
  <2>c. Numbered(r)
    BY <1>0, <2>a
  <2>d. Numbered(q) /\ Answered(q) = Answered(r) /\ q.processing = r.processing
    BY <1>2, <2>b, <2>c
  <2> QED BY <1>1, <1>5, <2>a, <2>d DEF Disconnect
<1>6. ASSUME NEW c \in Clients, NEW fd \in Fds, HandleAccept(c, fd) PROVE Order' /\ Flying'
  <2>a. PICK r \in Connection : r = conn[c] /\ Numbered(r) /\ r.st = "backlog"
    BY <1>0, <1>6 DEF HandleAccept
  <2>b. PICK q \in Connection :
          /\ q = [r EXCEPT !.st = "closed"] \/ q = Placed(r, "queued", fd)
          /\ Moved(c, q)
    <3>1. Moved(c, [conn[c] EXCEPT !.st = "closed"]) \/ Moved(c, Placed(conn[c], "queued", fd))
      BY <1>6, HandleAcceptEffect
    <3>2. PICK q : /\ q = [r EXCEPT !.st = "closed"] \/ q = Placed(r, "queued", fd)
                   /\ Moved(c, q)
      BY <2>a, <3>1
    <3> QED BY <3>2 DEF Moved
  <2>c. /\ q.got = r.got /\ q.output = r.output /\ SameRequests(q, r) /\ q.closing = r.closing
        /\ q.st \in {"closed", "queued"}
    BY <2>b DEF Connection, SameRequests, Placed
  <2>d. Numbered(q) /\ Answered(q) = Answered(r) /\ q.processing = r.processing
    BY <1>2, <2>a, <2>c
  <2>e. Harmless(pending[c], pending'[c]) /\ \A d \in Clients \ {c} : pending'[d] = pending[d]
    <3>1. CASE pending' = pending
      BY <3>1 DEF Harmless
    <3>2. CASE pending' = [pending EXCEPT ![c] = Append(@, [kind |-> "register"])]
      <4>1. [kind |-> "register"] \in Functors
        BY DEF Functors
      <4> QED BY <3>2, <4>1, PendingAppend DEF Harmless
    <3> QED BY <1>6, <3>1, <3>2 DEF HandleAccept
  <2> QED BY <1>6, <2>a, <2>b, <2>d, <2>e, RequestsStayOne DEF HandleAccept
<1>7. ASSUME NEW c \in Clients, Register(c) PROVE Order' /\ Flying'
  <2>a. Due(c, "register") /\ pending' = [pending EXCEPT ![c] = Tail(@)]
    BY <1>7 DEF Register
  <2>b. PICK r \in Connection : r = conn[c] /\ Numbered(r) /\ r.st = "queued"
    BY <1>0, <2>a, DueRegister
  <2>c. PICK q \in Connection :
          (q = [r EXCEPT !.st = "erased"] \/ q = [r EXCEPT !.st = "open"]) /\ Moved(c, q)
    BY <1>7, <2>b, RegisterEffect DEF Moved
  <2>d. /\ q.got = r.got /\ q.output = r.output /\ SameRequests(q, r) /\ q.closing = r.closing
        /\ q.st \in {"erased", "open"}
    BY <2>c DEF Connection, SameRequests
  <2>e. Numbered(q) /\ Answered(q) = Answered(r) /\ q.processing = r.processing
    BY <1>2, <2>b, <2>d
  <2>f. Harmless(pending[c], pending'[c]) /\ \A d \in Clients \ {c} : pending'[d] = pending[d]
    BY <2>a, PendingTail, DueTypes DEF Harmless
  <2> QED BY <1>7, <2>b, <2>c, <2>e, <2>f, RequestsStayOne DEF Register
<1>8. ASSUME NEW c \in Clients, Shutdown(c) PROVE Order' /\ Flying'
  <2>a. Due(c, "shutdown") /\ pending' = [pending EXCEPT ![c] = Tail(@)]
    BY <1>8 DEF Shutdown
  <2>b. conn[c].st \in Alive
    BY <2>a, DueAlive
  <2>c. PICK r \in Connection :
            /\ r = [conn[c] EXCEPT !.closing = TRUE]
            /\ Moved(c, Released(c, r, tasks)) \/ Moved(c, Closed(r))
    BY <1>8, ShutdownEffect
  <2>d. Numbered(r) /\ Answered(r) = Answered(conn[c]) /\ r.processing = conn[c].processing
    BY <1>0, <2>b, <2>c, ClosingNumbered
  <2>e. PICK q : /\ Moved(c, q) /\ Numbered(q) /\ Answered(q) = Answered(r)
                 /\ q.processing = r.processing
    <3>1. CASE Moved(c, Released(c, r, tasks))
      BY <2>d, <3>1, ReleasedNumbered
    <3>2. CASE Moved(c, Closed(r))
      BY <2>d, <3>2, ClosedNumbered
    <3> QED BY <2>c, <3>1, <3>2
  <2>f. Harmless(pending[c], pending'[c]) /\ \A d \in Clients \ {c} : pending'[d] = pending[d]
    BY <2>a, PendingTail, DueTypes DEF Harmless
  <2> QED BY <1>8, <2>d, <2>e, <2>f, RequestsStayOne DEF Shutdown
<1>9. ASSUME NEW c \in Clients, OnResponse(c) PROVE Order' /\ Flying'
  <2>a. Due(c, "response") /\ pending' = [pending EXCEPT ![c] = Tail(@)]
    BY <1>9 DEF OnResponse
  <2>b. conn[c].st \in Alive
    BY <2>a, DueAlive
  <2>c. PICK id \in Nat, r \in Connection :
            /\ id = Head(pending[c]).id
            /\ r = Responded(conn[c], id)
            /\ Moved(c, Released(c, SubmitNext(r), TasksAfter(c, r)))
            /\ tasks' = TasksAfter(c, r)
    BY <1>9, OnResponseEffect
  <2>d. /\ pending[c] \in Seq(Functors) /\ pending[c] # <<>>
        /\ pending[c][1].kind = "response" /\ pending[c][1].id = id /\ 1 \in DOMAIN pending[c]
    BY <2>a, <2>c, DueTypes
  <2>e. Carried(c, conn[c], pending[c], tasks, busy)
    BY DEF Flying
  <2>f. conn[c].processing /\ id = Answered(conn[c]) + 1
    BY <2>d, <2>e DEF Carried, Expected
  <2>g. Numbered(r) /\ r.st \in Alive
    BY <1>0, <2>b, <2>c, <2>f, RespondedNumbered
  <2>h. Carried(c, r, Tail(pending[c]), tasks, busy)
    BY <2>d, <2>e, CarriedResponse
  <2>i. pending'[c] = Tail(pending[c]) /\ \A d \in Clients \ {c} : pending'[d] = pending[d]
    BY <2>a, PendingTail
  <2>j. SubmitNext(r) \in Connection
    BY SubmitTypes DEF Types
  <2>k. Numbered(SubmitNext(r))
    BY <2>g, <2>j, SubmitNumbered
  <2>l. PICK q : /\ Moved(c, q) /\ Numbered(q) /\ Answered(q) = Answered(SubmitNext(r))
                  /\ q.processing = SubmitNext(r).processing
    BY <2>c, <2>j, <2>k, ReleasedNumbered
  <2>m. Carried(c, r, pending'[c], tasks, busy) /\ busy' = busy
    BY <1>9, <2>h, <2>i DEF OnResponse
  <2> QED BY <2>c, <2>g, <2>i, <2>l, <2>m, RequestSubmitted
<1>10. ASSUME NEW c \in Clients, HandleRead(c) PROVE Order' /\ Flying'
  <2>a. PICK r \in Connection : r = ReadAll(conn[c])
    BY <1>10, HandleReadEffect
  <2>b. Moved(c, SubmitNext(r)) /\ tasks' = TasksAfter(c, r)
    BY <1>10, <2>a, HandleReadEffect
  <2>c. conn[c].st = "open" /\ pending' = pending /\ busy' = busy
    BY <1>10 DEF HandleRead, Live
  <2>d. Numbered(r) /\ Answered(r) = Answered(conn[c]) /\ r.processing = conn[c].processing
    BY <1>0, <2>a, <2>c, ReadNumbered
  <2>e. r.st \in Alive
    BY <1>0, <2>a, <2>c, RecordStates DEF Alive
  <2>f. Carried(c, conn[c], pending[c], tasks, busy)
    BY DEF Flying
  <2>g. Carried(c, r, pending'[c], tasks, busy)
    BY <2>c, <2>d, <2>f, CarriedKept
  <2>h. SubmitNext(r) \in Connection
    BY SubmitTypes DEF Types
  <2>i. Numbered(SubmitNext(r))
    BY <2>d, <2>e, <2>h, SubmitNumbered
  <2> QED BY <2>b, <2>c, <2>d, <2>e, <2>g, <2>i, RequestSubmitted
<1>11. ASSUME NEW c \in Clients, HandleBadFrame(c) PROVE Order' /\ Flying'
  <2>a. PICK id \in Nat, q \in Connection : q = Failed(conn[c], id) /\ Moved(c, q)
    BY <1>11, HandleBadFrameEffect DEF Moved
  <2>b. Numbered(q) /\ Answered(q) = Answered(conn[c]) /\ q.processing = conn[c].processing
    BY <1>0, <1>11, <2>a, FailedNumbered DEF HandleBadFrame, Live
  <2> QED BY <1>1, <1>11, <2>a, <2>b DEF HandleBadFrame
<1>12. ASSUME NEW c \in Clients, HandlePeerClosed(c) PROVE Order' /\ Flying'
  <2>a. PICK read \in {<<>>, conn[c].wire} : Moved(c, Ended(conn[c], read)) /\ conn[c].st = "open"
    BY <1>12, HandlePeerClosedEffect
  <2>b. PICK q \in Connection : q = Ended(conn[c], read) /\ Moved(c, q)
    BY <2>a DEF Moved
  <2>c. Numbered(q) /\ Answered(q) = Answered(conn[c]) /\ q.processing = conn[c].processing
    BY <1>0, <2>a, <2>b, EndedNumbered
  <2> QED BY <1>1, <1>12, <2>b, <2>c DEF HandlePeerClosed
<1>13. ASSUME NEW c \in Clients, NEW n, HandleWrite(c, n) PROVE Order' /\ Flying'
  <2>a. /\ n \in 1 .. Len(conn[c].output)
        /\ Moved(c, Written(conn[c], n)) \/ Moved(c, Closed(Written(conn[c], n)))
    BY <1>13, HandleWriteEffect
  <2>b. PICK r \in Connection : r = Written(conn[c], n)
    BY <1>0, <2>a, RecordTypes
  <2>c. Numbered(r) /\ Answered(r) = Answered(conn[c]) /\ r.processing = conn[c].processing
    BY <1>0, <2>a, <2>b, WrittenNumbered
  <2>d. PICK q : /\ Moved(c, q) /\ Numbered(q) /\ Answered(q) = Answered(r)
                 /\ q.processing = r.processing
    BY <2>a, <2>b, <2>c, ClosedNumbered
  <2> QED BY <1>1, <1>13, <2>c, <2>d DEF HandleWrite
<1>14. ASSUME NEW c \in Clients, CloseFd(c) PROVE Order' /\ Flying'
  <2>a. PICK r \in Connection, q \in Connection :
           r = conn[c] /\ q = Placed(r, "closed", NoFd) /\ Moved(c, q)
    BY <1>0, <1>14, CloseFdEffect DEF Moved
  <2>b. /\ q.got = r.got /\ q.output = r.output /\ SameRequests(q, r) /\ q.closing = r.closing
        /\ q.st = "closed"
    BY <2>a DEF Connection, SameRequests, Placed
  <2>c. Numbered(q) /\ Answered(q) = Answered(r) /\ q.processing = r.processing
    BY <1>0, <1>2, <2>a, <2>b
  <2> QED BY <1>1, <1>14, <2>a, <2>c DEF CloseFd
<1>15. ASSUME NEW w \in Workers, TakeTask(w) PROVE Order' /\ Flying'
  <2>a. /\ tasks \in Seq(Clients \X Nat) /\ tasks # <<>> /\ busy[w] = Idle
        /\ busy \in [Workers -> (Clients \X Nat) \cup {Idle}]
        /\ busy' = [busy EXCEPT ![w] = Head(tasks)] /\ tasks' = Tail(tasks)
        /\ conn' = conn /\ pending' = pending
    BY <1>15 DEF TakeTask, Types
  <2>b. ASSUME NEW d \in Clients PROVE Carried(d, conn'[d], pending'[d], tasks', busy')
    <3>1. Carried(d, conn[d], pending[d], tasks, busy)
      BY DEF Flying
    <3>2. Carried(d, conn[d], pending[d], Tail(tasks), [busy EXCEPT ![w] = Head(tasks)])
      BY <2>a, <3>1, CarriedTake
    <3> QED BY <2>a, <3>2
  <2> QED BY <2>a, <2>b DEF Order, Flying
<1>16. ASSUME NEW w \in Workers, FinishTask(w) PROVE Order' /\ Flying'
  <2>a. busy \in [Workers -> (Clients \X Nat) \cup {Idle}] /\ busy[w] \in Clients \X Nat
    BY <1>16 DEF FinishTask, Types
  <2>b. PICK c \in Clients, id \in Nat : busy[w] = <<c, id>>
    BY <2>a
  <2>c. PICK x \in Functors : x = [kind |-> "response", id |-> id]
    BY DEF Functors
  <2>d. /\ pending' = [pending EXCEPT ![c] = Append(@, x)]
        /\ busy' = [busy EXCEPT ![w] = Idle] /\ tasks' = tasks /\ conn' = conn
    BY <1>16, <2>b, <2>c DEF FinishTask
  <2>e. pending'[c] = Append(pending[c], x) /\ \A d \in Clients \ {c} : pending'[d] = pending[d]
    BY <2>d, PendingAppend
  <2>f. ASSUME NEW d \in Clients PROVE Carried(d, conn'[d], pending'[d], tasks', busy')
    <3>1. Carried(d, conn[d], pending[d], tasks, busy) /\ pending[d] \in Seq(Functors)
      BY PendingTypes DEF Flying
    <3>2. PICK g : g = pending'[d]
      OBVIOUS
    <3>3. g = IF d = c THEN Append(pending[d], [kind |-> "response", id |-> id]) ELSE pending[d]
      BY <2>c, <2>e, <3>2
    <3>4. Carried(d, conn[d], g, tasks, [busy EXCEPT ![w] = Idle])
      BY <2>a, <2>b, <3>1, <3>3, CarriedFinish
    <3> QED BY <2>d, <3>2, <3>4
  <2> QED BY <2>d, <2>f DEF Order, Flying
<1>17. CASE Loop \/ StopFlag \/ StopPool \/ StopWorkers \/ StopLoops \/ UNCHANGED vars
  <2>a. conn' = conn /\ pending' = pending /\ tasks' = tasks /\ busy' = busy
    BY <1>17 DEF Loop, StopFlag, StopPool, StopWorkers, StopLoops, vars
  <2>b. \A d \in Clients : Harmless(pending[d], pending'[d])
    BY <2>a DEF Harmless
  <2> QED BY <1>0, <2>a, <2>b, RequestsStay
<1>18. CASE ShutdownAll
  <2>a. ASSUME NEW d \in Clients
        PROVE  /\ Numbered(conn'[d]) /\ Answered(conn'[d]) = Answered(conn[d])
               /\ conn'[d].processing = conn[d].processing
    <3>1. CASE conn'[d] = conn[d]
      BY <1>0, <3>1
    <3>2. CASE conn'[d] = [conn[d] EXCEPT !.st = "closed"]
      <4>1. PICK r \in Connection, q \in Connection :
               r = conn[d] /\ q = conn'[d] /\ q = [r EXCEPT !.st = "closed"]
        BY <1>0, <3>2 DEF Types
      <4>2. /\ q.got = r.got /\ q.output = r.output /\ SameRequests(q, r) /\ q.closing = r.closing
            /\ q.st = "closed"
        BY <4>1 DEF Connection, SameRequests
      <4>3. Numbered(q) /\ Answered(q) = Answered(r) /\ q.processing = r.processing
        BY <1>0, <1>2, <4>1, <4>2
      <4> QED BY <4>1, <4>3
    <3> QED BY <1>18, <3>1, <3>2, ShutdownAllEffect
  <2>b. \A d \in Clients : Harmless(pending[d], pending'[d])
    BY <1>18 DEF ShutdownAll, Harmless
  <2> QED BY <1>18, <2>a, <2>b, RequestsStay DEF ShutdownAll
<1>19. CASE ReleaseHeld
  <2>a. ASSUME NEW d \in Clients
        PROVE  /\ Numbered(conn'[d]) /\ Answered(conn'[d]) = Answered(conn[d])
               /\ conn'[d].processing = conn[d].processing
    BY <1>0, <1>19, ReleaseHeldEffect, ClosedNumbered
  <2>b. \A d \in Clients : Harmless(pending[d], pending'[d])
    BY <1>19 DEF ReleaseHeld, Harmless
  <2> QED BY <1>19, <2>a, <2>b, RequestsStay DEF ReleaseHeld
<1> QED
  BY <1>3, <1>4, <1>5, <1>6, <1>7, <1>8, <1>9, <1>10, <1>11, <1>12, <1>13, <1>14,
     <1>15, <1>16, <1>17, <1>18, <1>19
     DEF Next, ClientStep, LoopStep, WorkerStep, StopStep, StopConnections

----------------------------------------
(* The invariant and what follows from it *)

LEMMA InvInit == Init => Inv
<1> SUFFICES ASSUME Init PROVE Inv
  OBVIOUS
<1>1. Types
  BY TypesInit
<1>2. \A c \in Clients : conn[c] = NewConnection /\ pending[c] = <<>>
  BY DEF Init
<1>3. /\ NewConnection.st = "none" /\ NewConnection.got = <<>> /\ NewConnection.output = <<>>
      /\ NewConnection.wire = <<>> /\ NewConnection.requests = <<>> /\ NewConnection.sent = 0
      /\ ~NewConnection.processing /\ ~NewConnection.closing
  BY DEF NewConnection
<1>4. Mapped
  BY <1>2, <1>3 DEF Init, Mapped, HasFd
<1>5. Queued
  BY <1>2, <1>3 DEF Init, Queued
<1>6. Len(<<>>) = 0 /\ DOMAIN <<>> = {}
  OBVIOUS
<1>7. Numbered(NewConnection)
  <2>a. Replied(NewConnection) = <<>>
    <3>1. PICK s \in Seq(Frames) : s = <<>>
      BY EmptyTypes
    <3>2. s \o s = s
      BY <3>1
    <3> QED BY <1>3, <3>1, <3>2 DEF Replied
  <2>b. GoodOrder(Replied(NewConnection))
    BY <1>6, <2>a DEF GoodOrder
  <2>c. Answered(NewConnection) = 0
    <3>1. GoodSet(<<>>, 0) = {}
      BY DEF GoodSet
    <3>2. Cardinality({}) = 0
      BY FS_EmptySet
    <3>3. GoodUpTo(<<>>, 0) = Cardinality(GoodSet(<<>>, 0))
      BY DEF GoodUpTo, GoodSet
    <3> QED BY <1>6, <2>a, <3>1, <3>2, <3>3 DEF Answered
  <2>d. InFlight(NewConnection) = 0
    BY <1>3 DEF InFlight
  <2>e. Chain(NewConnection, 0)
    <3>1. PICK r : r = NewConnection
      OBVIOUS
    <3>2. /\ r.st = "none" /\ r.sent = 0 /\ Len(r.wire) = 0 /\ Len(r.requests) = 0
          /\ DOMAIN r.wire = {} /\ DOMAIN r.requests = {} /\ InFlight(r) = 0
          /\ ~r.processing /\ ~r.closing /\ r.requests = <<>>
      BY <1>3, <1>6, <2>d, <3>1
    <3>3. r.sent - Len(r.wire) = 0 + InFlight(r) + Len(r.requests)
      BY <3>2
    <3>4. Chain(r, 0)
      BY <3>2, <3>3 DEF Chain
    <3> QED BY <3>1, <3>4
  <2> QED BY <2>b, <2>c, <2>e DEF Numbered
<1>8. Order
  BY <1>2, <1>7 DEF Order
<1>9. Flying
  BY <1>2, <1>6 DEF Init, Flying, Carried, InTasks, InBusy, Answers
<1> QED BY <1>1, <1>4, <1>5, <1>8, <1>9 DEF Inv

\* Every step keeps descriptors, map, functors, numbering and the request in flight.
THEOREM Invariance == Spec => []Inv
<1>1. Inv /\ [Next]_vars => Inv'
  <2> SUFFICES ASSUME Inv, [Next]_vars PROVE Inv'
    OBVIOUS
  <2>a. Types'
    BY TypesStep DEF Inv
  <2>b. Mapped'
    BY <2>a, MappedStep DEF Inv
  <2>c. Queued'
    BY <2>a, QueuedStep DEF Inv
  <2>d. Order' /\ Flying'
    BY <2>a, RequestStep DEF Inv
  <2> QED BY <2>a, <2>b, <2>c, <2>d DEF Inv
<1> QED BY <1>1, InvInit, PTL DEF Spec

\* Until Stop empties it, the map holds exactly the open connections (TcpServer's
\* registration functor and RemoveConnection), however descriptors are reused.
THEOREM ConnectionsAlwaysMapped == Spec => []ConnectionsMapped
<1>1. Inv => ConnectionsMapped
  BY DEF Inv, Mapped, BeforeStop, ConnectionsMapped, Registered
<1> QED BY <1>1, Invariance, PTL

\* When TcpServer::Stop and its functor have returned, no accepted connection is left
\* unregistered or open.
THEOREM StopReleasesEverything == Spec => []StopReleasesAll
<1>1. Inv => StopReleasesAll
  <2> SUFFICES ASSUME Inv, stage = "stopped", held = {}, NEW c \in Clients
               PROVE  conn[c].st \notin {"queued", "open"}
    BY DEF StopReleasesAll
  <2>a. /\ pending[c] = <<>> /\ tasks = <<>> /\ \A w \in Workers : busy[w] = Idle
    BY DEF Inv, Queued
  <2>b. conn[c].st # "queued"
    <3>1. Len(<<[kind |-> "register"]>>) = 1 /\ Len(<<>>) = 0
      OBVIOUS
    <3> QED BY <2>a, <3>1 DEF Inv, Queued
  <2>c. ~Kept(c)
    BY <2>a DEF Kept, InTasks, InBusy
  <2>d. conn[c].st # "open"
    BY <2>c DEF Inv, Mapped, BeforeStop
  <2> QED BY <2>b, <2>d
<1> QED BY <1>1, Invariance, PTL

\* TcpConnection sends the broker's replies in the order of the requests, skips none and
\* sends none twice, whatever is read, refused, dropped or submitted in between.
THEOREM ResponsesOrdered == Spec => []ResponsesInOrder
<1>1. Inv => ResponsesInOrder
  BY DEF Inv, Order, Numbered, GoodOrder, Replied, ResponsesInOrder, Outgoing
<1> QED BY <1>1, Invariance, PTL

================================================================================
