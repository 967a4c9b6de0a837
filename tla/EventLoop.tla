------------------------------- MODULE EventLoop --------------------------------
(***************************************************************************)
(* One I/O loop from the inside: EventLoop with its queue of functors and  *)
(* its wake-up descriptor, the epoll poller, the channels of the           *)
(* connections it owns, and the threads that queue functors on it: the     *)
(* main loop, which accepts and stops, and the workers.  Server takes the  *)
(* loop for granted, as a queue of functors that always runs and handlers  *)
(* that run for the events of open connections; this module is about how   *)
(* that comes about.  What a connection reads and writes is in Framing.    *)
(***************************************************************************)
EXTENDS Integers, Sequences, FiniteSets, SequencesExt

CONSTANTS
    Conns,          \* connections the main loop may accept for this loop
    Fds,            \* their file descriptors, reused once closed
    MaxRequests,    \* bound on the requests a connection submits
    WakeupChannel   \* the channel of the wake-up descriptor

\* 0 stands for the -1 of a closed descriptor, "main" for the thread of the main loop.
ASSUME EventLoopAssumption ==
    /\ WakeupChannel \notin Conns /\ "main" \notin Conns
    /\ IsFiniteSet(Conns)
    /\ 0 \notin Fds
    /\ MaxRequests \in Nat

VARIABLES
    pc,        \* where Loop is
    quit,      \* quit_
    wake,      \* the counter of the eventfd is not zero
    pending,   \* pending_functors_
    taken,     \* the functors DoPendingFunctors has swapped out
    next,      \* index of the one to run
    active,    \* events of the last Poll not yet handled
    io,        \* connections and poller, see below
    tasks,     \* connections with a request at a worker
    mid,       \* threads between the push and the Wakeup of QueueInLoop
    held,      \* connections in the vector of TcpServer::Stop's functor
    untold,    \* those of them it has not yet told to shut down
    stage      \* Stop: "running", "flagged", "cleared", "quitting", "stopped"

loop == <<pc, wake, taken, next, active>>
others == <<quit, mid, held, untold, stage>>
vars == <<loop, pending, io, tasks, others>>

\* A connection with its channel.  st: "none", "accepted" (its register functor is
\* queued), "open" (fd_ >= 0), "closed" (fd_ is -1, the object lives), "dead".
NewConn == [st |-> "none", fd |-> 0, reading |-> FALSE, writing |-> FALSE, removed |-> FALSE,
            output |-> FALSE, closing |-> FALSE, processing |-> FALSE, submitted |-> 0]

\* io.conn: the connections; io.map: those in connections_; io.registered:
\* registered_fds_; io.kernel[fd]: the epoll entry of a descriptor, if it has one.
Open(s) == {c \in Conns : s.conn[c].st \in {"accepted", "open"}}
OpenFds(s) == {s.conn[c].fd : c \in Open(s)}

Main == "main"
Functor(kind, c) == [kind |-> kind, conn |-> c]

--------------------------------------------------------------------------------
(* EpollPoller *)

EventsForChannel(ch) ==
    (IF ch.reading THEN {"in"} ELSE {}) \cup (IF ch.writing THEN {"out"} ELSE {})

\* EPOLL_CTL_DEL; a descriptor that is not open is an error that keeps the entry in
\* registered_fds_, one that epoll does not know is not.
PollerRemove(s, fd) ==
    IF fd \notin s.registered \/ fd \notin OpenFds(s) THEN s
    ELSE [s EXCEPT !.registered = @ \ {fd}, !.kernel[fd] = {}]

\* EPOLL_CTL_ADD or _MOD, by what registered_fds_ says; the kernel refuses an ADD of
\* what it has and a MOD of what it has not.
PollerUpdate(s, c) ==
    LET fd == s.conn[c].fd
        events == EventsForChannel(s.conn[c])
        accepted == fd \in OpenFds(s) /\ (fd \in s.registered <=> s.kernel[fd] # {})
    IN  IF events = {} THEN PollerRemove(s, fd)
        ELSE IF accepted
        THEN [s EXCEPT !.registered = @ \cup {fd},
                       !.kernel[fd] = {[conn |-> c, events |-> events]}]
        ELSE s

--------------------------------------------------------------------------------
(* Channel *)

Update(s, c) == IF s.conn[c].removed THEN s ELSE PollerUpdate(s, c)

EnableReading(s, c) == Update([s EXCEPT !.conn[c].reading = TRUE], c)
EnableWriting(s, c) == Update([s EXCEPT !.conn[c].writing = TRUE], c)
DisableWriting(s, c) == Update([s EXCEPT !.conn[c].writing = FALSE], c)
DisableAll(s, c) == Update([s EXCEPT !.conn[c].reading = FALSE, !.conn[c].writing = FALSE], c)

RemoveChannel(s, c) ==
    IF s.conn[c].removed THEN s
    ELSE PollerRemove([s EXCEPT !.conn[c].removed = TRUE], s.conn[c].fd)

--------------------------------------------------------------------------------
(* TcpConnection *)

\* close(2): the kernel forgets the descriptor's epoll entry.
CloseFd(s, c, st) ==
    IF s.conn[c].fd = 0 THEN [s EXCEPT !.conn[c].st = st]
    ELSE [s EXCEPT !.kernel[s.conn[c].fd] = {}, !.conn[c].fd = 0, !.conn[c].st = st]

\* Faulty variant: the descriptor is closed before the channel is removed.
HandleCloseFdFirst(s, c) ==
    IF s.conn[c].fd = 0 THEN s
    ELSE LET closed == [CloseFd(s, c, "closed") EXCEPT !.conn[c].fd = s.conn[c].fd]
             gone == RemoveChannel(DisableAll(closed, c), c)
         IN  [gone EXCEPT !.conn[c].fd = 0, !.map = @ \ {c}]

\* Out of the poller, out of the map, and only then the descriptor is closed.
HandleClose(s, c) ==
    IF s.conn[c].fd = 0 THEN s
    ELSE LET gone == RemoveChannel(DisableAll(s, c), c)
         IN  CloseFd([gone EXCEPT !.map = @ \ {c}], c, "closed")

\* The destructor, on whichever thread drops the last reference.
Destroy(s, c) ==
    [CloseFd(RemoveChannel(DisableAll(s, c), c), c, "dead") EXCEPT
        !.conn[c] = [NewConn EXCEPT !.st = "dead"]]

\* Bytes are added to the output.
Reply(s, c) == EnableWriting([s EXCEPT !.conn[c].output = TRUE], c)
ReplyAndClose(s, c) == [Reply(s, c) EXCEPT !.conn[c].closing = TRUE]

\* A handler's outcome: the state it leaves, and the connections it submits.
Outcome(s, submits) == [io |-> s, submits |-> submits]

\* SubmitNext: there is no request to submit, or the pool takes it, or refuses it.
SubmitNext(s, c) ==
    LET ch == s.conn[c]
        more == ~ch.processing /\ ~ch.closing /\ ch.submitted < MaxRequests
        taking == [s EXCEPT !.conn[c].processing = TRUE, !.conn[c].submitted = @ + 1]
    IN  {Outcome(s, {})}
        \cup (IF more THEN {Outcome(ReplyAndClose(s, c), {})} ELSE {})
        \cup (IF more /\ stage \in {"running", "flagged", "cleared"}
              THEN {Outcome(taking, {c})} ELSE {})

\* HandleRead: all frames decode, one does not, or the stream has ended.
HandleRead(s, c) ==
    IF s.conn[c].fd = 0 THEN {Outcome(s, {})}
    ELSE SubmitNext(s, c) \cup {Outcome(ReplyAndClose(s, c), {}), Outcome(HandleClose(s, c), {})}

\* HandleWrite: all is written, a part of it, or the write fails.
HandleWrite(s, c) ==
    LET empty == DisableWriting([s EXCEPT !.conn[c].output = FALSE], c)
    IN  {IF s.conn[c].closing THEN HandleClose(empty, c) ELSE empty}
        \cup (IF s.conn[c].output THEN {s, HandleClose(s, c)} ELSE {})

\* HandleEventWithGuard: error, then close and no more, then read, then write.
HandleEvent(s, c, flags) ==
    LET failed == IF "error" \in flags THEN HandleClose(s, c) ELSE s
        read == IF "readable" \in flags THEN HandleRead(failed, c) ELSE {Outcome(failed, {})}
        written(r) == {Outcome(w, r.submits) : w \in HandleWrite(r.io, c)}
    IN  IF "closed" \in flags THEN {Outcome(HandleClose(failed, c), {})}
        ELSE IF "writable" \in flags THEN UNION {written(r) : r \in read}
        ELSE read

\* OnResponse, and what Shutdown queues.
OnResponse(s, c) == SubmitNext(Reply([s EXCEPT !.conn[c].processing = FALSE], c), c)

Shutdown(s, c) ==
    LET closing == [s EXCEPT !.conn[c].closing = TRUE]
    IN  IF s.conn[c].output THEN closing ELSE HandleClose(closing, c)

\* The functor HandleAccept queues; Start enables reading.
Register(s, c) ==
    IF stage # "running" THEN CloseFd(s, c, "dead")
    ELSE EnableReading([s EXCEPT !.conn[c].st = "open", !.map = @ \cup {c}], c)

--------------------------------------------------------------------------------
(* Ownership: a connection lives while the map, the vector of Stop, a functor or a *)
(* task holds a reference to it.  A worker's task ends after its QueueInLoop.      *)

OwnersIn(functors) == {f.conn : f \in {g \in Range(functors) : g.kind # "register"}}

\* State s once a reference to c is gone: c is destroyed if it was the last.
Release(s, c, owners) ==
    IF c \notin s.map \cup owners /\ s.conn[c].st \in {"open", "closed"}
    THEN Destroy(s, c) ELSE s

--------------------------------------------------------------------------------
(* Loop *)

\* Faulty variant: the loop ends without running what is still queued.
CheckQuitEnds ==
    /\ pc = "check"
    /\ pc' = IF quit THEN "ended" ELSE "poll"
    /\ UNCHANGED <<wake, taken, next, active, pending, io, tasks, others>>

CheckQuit ==
    /\ pc = "check"
    /\ pc' = IF quit THEN "last_swap" ELSE "poll"
    /\ UNCHANGED <<wake, taken, next, active, pending, io, tasks, others>>

\* The flags of one event, by what a channel waits for: a hang-up makes the others
\* void, and after an error they find the descriptor closed.
FlagsFor(entry) ==
    {{"closed"}, {"error", "readable", "writable"}}
    \cup (IF "in" \in entry.events THEN {{"readable"}} ELSE {})
    \cup (IF "out" \in entry.events THEN {{"writable"}} ELSE {})
    \cup (IF entry.events = {"in", "out"} THEN {{"readable", "writable"}} ELSE {})

\* Faulty variant: reading and writing are reported apart.
EventsOfApart(c, flags) == {[conn |-> c, flags |-> {f}] : f \in flags}

\* ToPollEvent: a descriptor has one event.
EventsOf(c, flags) == {[conn |-> c, flags |-> flags]}

Entries == UNION {io.kernel[fd] : fd \in Fds}

\* epoll_wait returns the events of some descriptors, and the wake-up if it is due.
Poll ==
    /\ pc = "poll"
    /\ pc' = "dispatch"
    /\ \E ready \in SUBSET Entries :
          /\ wake \/ ready # {}
          /\ \E flags \in [ready -> UNION {FlagsFor(e) : e \in ready}] :
                /\ \A e \in ready : flags[e] \in FlagsFor(e)
                /\ active' \in SetToSeqs(
                       (UNION {EventsOf(e.conn, flags[e]) : e \in ready})
                       \cup (IF wake THEN EventsOf(WakeupChannel, {"readable"}) ELSE {}))
    /\ UNCHANGED <<wake, taken, next, pending, io, tasks, others>>

\* EINTR: a Poll without events, after which functors run all the same.
PollInterrupted ==
    /\ pc = "poll"
    /\ pc' = "dispatch"
    /\ UNCHANGED <<wake, taken, next, active, pending, io, tasks, others>>

\* Any other error: the loop goes round without running functors.
PollFails ==
    /\ pc = "poll"
    /\ pc' = "check"
    /\ UNCHANGED <<wake, taken, next, active, pending, io, tasks, others>>

\* HandleWakeup empties the eventfd.
DispatchWakeup ==
    /\ pc = "dispatch"
    /\ active # <<>> /\ Head(active).conn = WakeupChannel
    /\ wake' = FALSE
    /\ active' = Tail(active)
    /\ UNCHANGED <<pc, taken, next, pending, io, tasks, others>>

\* HandleEvent of a connection's channel, which its tie keeps alive meanwhile.
Dispatch ==
    /\ pc = "dispatch"
    /\ active # <<>> /\ Head(active).conn # WakeupChannel
    /\ active' = Tail(active)
    /\ LET e == Head(active)
       IN  IF io.conn[e.conn].st = "dead" THEN UNCHANGED <<io, tasks>>
           ELSE \E r \in HandleEvent(io, e.conn, e.flags) :
                   /\ tasks' = tasks \cup r.submits
                   /\ io' = Release(r.io, e.conn, OwnersIn(pending) \cup tasks' \cup mid \cup held)
    /\ UNCHANGED <<pc, wake, taken, next, pending, others>>

\* DoPendingFunctors: the queue is swapped out ...
Swap ==
    /\ \/ pc = "dispatch" /\ active = <<>> /\ pc' = "run"
       \/ pc = "last_swap" /\ pc' = "last_run"
    /\ taken' = pending
    /\ pending' = <<>>
    /\ UNCHANGED <<wake, next, active, io, tasks, others>>

\* ... each functor is run ...
RunFunctor ==
    /\ pc \in {"run", "last_run"}
    /\ next <= Len(taken)
    /\ next' = next + 1
    /\ LET f == taken[next]
       IN  \E r \in CASE f.kind = "register" -> {Outcome(Register(io, f.conn), {})}
                      [] f.kind = "response" -> OnResponse(io, f.conn)
                      [] f.kind = "shutdown" -> {Outcome(Shutdown(io, f.conn), {})} :
              io' = r.io /\ tasks' = tasks \cup r.submits
    /\ UNCHANGED <<pc, wake, taken, active, pending, others>>

\* ... they are destroyed one by one, each with what only it owned ...
DropFunctor ==
    /\ pc \in {"run", "last_run"}
    /\ next > Len(taken) /\ taken # <<>>
    /\ taken' = Tail(taken)
    /\ LET f == Head(taken)
           owners == OwnersIn(pending) \cup OwnersIn(taken') \cup tasks \cup mid \cup held
       IN  io' = IF f.kind = "register" THEN io ELSE Release(io, f.conn, owners)
    /\ UNCHANGED <<pc, wake, next, active, pending, tasks, others>>

\* Faulty variant: the eventfd is emptied after the functors, not before.
FunctorsDoneDrains ==
    /\ pc \in {"run", "last_run"}
    /\ next > Len(taken) /\ taken = <<>>
    /\ pc' = IF pc = "run" THEN "check" ELSE "ended"
    /\ next' = 1
    /\ wake' = FALSE
    /\ UNCHANGED <<taken, active, pending, io, tasks, others>>

\* ... and the loop goes round, or ends.
FunctorsDone ==
    /\ pc \in {"run", "last_run"}
    /\ next > Len(taken) /\ taken = <<>>
    /\ pc' = IF pc = "run" THEN "check" ELSE "ended"
    /\ next' = 1
    /\ UNCHANGED <<wake, taken, active, pending, io, tasks, others>>

--------------------------------------------------------------------------------
(* Other threads.  QueueInLoop pushes under the mutex and writes the eventfd after. *)

QueueInLoop(t, f) ==
    /\ t \notin mid
    /\ pending' = Append(pending, f)
    /\ mid' = mid \cup {t}

\* The second half; a worker's task ends with it.
Wakeup(t) ==
    /\ t \in mid
    /\ mid' = mid \ {t}
    /\ wake' = TRUE
    /\ io' = IF t = Main THEN io
             ELSE Release(io, t, OwnersIn(pending) \cup OwnersIn(taken) \cup tasks \cup mid' \cup held)
    /\ UNCHANGED <<pc, taken, next, active, pending, tasks, quit, held, untold,
                   stage>>

\* HandleAccept on the main loop.
HandleAccept(c, fd) ==
    /\ stage = "running"
    /\ io.conn[c].st = "none" /\ fd \notin OpenFds(io)
    /\ QueueInLoop(Main, Functor("register", c))
    /\ io' = [io EXCEPT !.conn[c].st = "accepted", !.conn[c].fd = fd]
    /\ UNCHANGED <<loop, tasks, quit, held, untold, stage>>

\* The worker that has c's request; the thread goes by the connection's name.
FinishTask(c) ==
    /\ c \in tasks
    /\ QueueInLoop(c, Functor("response", c))
    /\ tasks' = tasks \ {c}
    /\ UNCHANGED <<loop, io, quit, held, untold, stage>>

\* TcpServer::Stop: stopping_ ...
StopFlag ==
    /\ stage = "running"
    /\ stage' = "flagged"
    /\ UNCHANGED <<loop, pending, io, tasks, quit, mid, held, untold>>

\* ... the map is moved to a vector ...
StopClear ==
    /\ stage = "flagged" /\ Main \notin mid
    /\ stage' = "cleared"
    /\ held' = io.map
    /\ untold' = io.map
    /\ io' = [io EXCEPT !.map = {}]
    /\ UNCHANGED <<loop, pending, tasks, quit, mid>>

\* ... whose connections are told one by one ...
StopTell(c) ==
    /\ c \in untold
    /\ QueueInLoop(Main, Functor("shutdown", c))
    /\ untold' = untold \ {c}
    /\ UNCHANGED <<loop, io, tasks, quit, held, stage>>

\* ... the vector goes, reference by reference, on the main loop's thread ...
ReleaseHeld(c) ==
    /\ c \in held /\ untold = {} /\ Main \notin mid
    /\ held' = held \ {c}
    /\ io' = Release(io, c, OwnersIn(pending) \cup OwnersIn(taken) \cup tasks \cup mid \cup held')
    /\ UNCHANGED <<loop, pending, tasks, quit, mid, untold, stage>>

\* ... and, with the workers ended, EventLoopThreadPool::Stop quits the loop ...
Quit ==
    /\ stage = "cleared" /\ untold = {} /\ tasks = {} /\ mid = {}
    /\ stage' = "quitting"
    /\ quit' = TRUE
    /\ mid' = {Main}
    /\ UNCHANGED <<loop, pending, io, tasks, held, untold>>

\* ... and joins its thread.
Join ==
    /\ stage = "quitting" /\ pc = "ended" /\ mid = {}
    /\ stage' = "stopped"
    /\ UNCHANGED <<loop, pending, io, tasks, quit, mid, held, untold>>

--------------------------------------------------------------------------------
Init ==
    /\ pc = "check" /\ quit = FALSE /\ wake = FALSE
    /\ pending = <<>> /\ taken = <<>> /\ next = 1 /\ active = <<>>
    /\ io = [conn |-> [c \in Conns |-> NewConn], map |-> {}, registered |-> {},
             kernel |-> [fd \in Fds |-> {}]]
    /\ tasks = {} /\ mid = {} /\ held = {} /\ untold = {}
    /\ stage = "running"

LoopStep ==
    CheckQuit \/ DispatchWakeup \/ Dispatch \/ Swap \/ RunFunctor \/ DropFunctor \/ FunctorsDone

Next ==
    \/ LoopStep
    \/ Poll
    \/ PollInterrupted
    \/ PollFails
    \/ \E t \in Conns \cup {Main} : Wakeup(t)
    \/ \E c \in Conns, fd \in Fds : HandleAccept(c, fd)
    \/ \E c \in Conns : FinishTask(c) \/ StopTell(c) \/ ReleaseHeld(c)
    \/ StopFlag \/ StopClear \/ Quit \/ Join

Spec == Init /\ [][Next]_vars

--------------------------------------------------------------------------------
(* Properties *)

\* The poller and the kernel agree with the channels: a channel of an open
\* connection is registered for exactly what it waits for, and no entry, nor
\* registered_fds_, names anything else, however descriptors are closed and reused.
PollerMatches ==
    /\ io.registered = {fd \in Fds : io.kernel[fd] # {}}
    /\ \A c \in Conns :
          LET ch == io.conn[c]
              events == EventsForChannel(ch)
          IN  ch.st = "open" =>
                 io.kernel[ch.fd] = IF events = {} THEN {} ELSE {[conn |-> c, events |-> events]}
    /\ \A e \in Entries : io.conn[e.conn].st = "open"

\* Until Stop drops its references from another thread, the loop never handles an
\* event of a channel that has been destroyed since Poll returned it.
DispatchedAlive ==
    stage \in {"running", "flagged"} =>
        \A i \in DOMAIN active :
            active[i].conn # WakeupChannel => io.conn[active[i].conn].st # "dead"

\* No wake-up is lost: whenever the loop is about to block, or blocked, while a
\* functor waits or Quit was called, the eventfd is readable or a thread is on its
\* way to write it.
NoLostWakeup == pc = "poll" /\ (pending # <<>> \/ quit) => wake \/ mid # {}

\* Nothing is left behind: when the loop's thread has been joined every functor has
\* run, and all connections are destroyed, except that Stop's vector, if it is not
\* gone yet, may still hold some.
JoinedClean ==
    stage = "stopped" =>
        /\ pending = <<>> /\ taken = <<>>
        /\ \A c \in Conns : io.conn[c].st \in {"open", "closed"} => c \in held
        /\ \A c \in Conns : io.conn[c].st # "accepted"
================================================================================
