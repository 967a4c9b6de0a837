---------------------------- MODULE EventLoopProofs -----------------------------
(***************************************************************************)
(* Proofs about EventLoop, for any number of connections and descriptors:  *)
(* no wake-up is lost, the poller agrees with the channels, what is        *)
(* dispatched is alive, and nothing is left when the loop has been joined. *)
(*                                                                         *)
(* Inv has two halves.  IoOk is about connections and poller alone: every  *)
(* operation of a channel or a connection keeps it, and Handled says what  *)
(* else a handler may change.  The rest relates the connections to who     *)
(* refers to them (map, functors, tasks, Stop's vector), to the events and *)
(* functors still to be handled, and to how far Stop has come.             *)
(***************************************************************************)
EXTENDS EventLoop, FiniteSetTheorems, TLAPS

----------------------------------------
(* Types *)

Channels == [st : {"none", "accepted", "open", "closed", "dead"}, fd : Fds \cup {0},
             reading : BOOLEAN, writing : BOOLEAN, removed : BOOLEAN, output : BOOLEAN,
             closing : BOOLEAN, processing : BOOLEAN, submitted : Nat]
KernelEntries == [conn : Conns, events : SUBSET {"in", "out"}]
IoStates == [conn : [Conns -> Channels], map : SUBSET Conns, registered : SUBSET Fds,
             kernel : [Fds -> SUBSET KernelEntries]]
Functors == [kind : {"register", "response", "shutdown"}, conn : Conns]
Events == [conn : Conns \cup {WakeupChannel},
           flags : SUBSET {"closed", "error", "readable", "writable"}]

TypeOK ==
    /\ pc \in {"check", "poll", "dispatch", "run", "last_swap", "last_run", "ended"}
    /\ quit \in BOOLEAN /\ wake \in BOOLEAN
    /\ pending \in Seq(Functors) /\ taken \in Seq(Functors) /\ next \in Nat \ {0}
    /\ active \in Seq(Events)
    /\ io \in IoStates
    /\ tasks \subseteq Conns /\ mid \subseteq Conns \cup {Main}
    /\ held \subseteq Conns /\ untold \subseteq held
    /\ stage \in {"running", "flagged", "cleared", "quitting", "stopped"}

----------------------------------------
(* The poller *)

\* The epoll entry that a channel calls for.
Wanted(ch, c) ==
    IF EventsForChannel(ch) = {} THEN {} ELSE {[conn |-> c, events |-> EventsForChannel(ch)]}

\* Connection c of s: what its descriptor, its channel and its epoll entry are.
ChannelOk(s, c) ==
    LET ch == s.conn[c]
    IN  /\ ch.st \in {"accepted", "open"} =>
              /\ ch.fd \in Fds /\ ~ch.removed
              /\ s.kernel[ch.fd] = Wanted(ch, c)
        /\ ch.st \notin {"accepted", "open"} => ch.fd = 0
        /\ ch.st \in {"none", "accepted"} => ~ch.reading /\ ~ch.writing /\ ~ch.removed
        /\ ch.st = "closed" => ch.removed
        /\ c \in s.map => ch.st = "open"

IoOk(s) ==
    /\ s \in IoStates
    /\ s.registered = {fd \in Fds : s.kernel[fd] # {}}
    /\ \A c \in Conns : ChannelOk(s, c)
    /\ \A c, d \in Open(s) : s.conn[c].fd = s.conn[d].fd => c = d
    /\ \A fd \in Fds : \A e \in s.kernel[fd] :
          s.conn[e.conn].st = "open" /\ s.conn[e.conn].fd = fd

----------------------------------------
(* Ownership *)

Owned == io.map \cup OwnersIn(pending) \cup OwnersIn(taken) \cup tasks \cup mid \cup held

Alive(c) == io.conn[c].st \in {"open", "closed"}

\* A connection lives exactly as long as something owns it.
Ownership == \A c \in Conns : Alive(c) <=> c \in Owned

\* The register functors that have yet to run.
ToRegister(c) ==
    \/ \E i \in DOMAIN pending : pending[i] = Functor("register", c)
    \/ \E i \in DOMAIN taken : i >= next /\ taken[i] = Functor("register", c)

\* An accepted connection has exactly one of them, and no other connection has any.
Accepting ==
    /\ \A c \in Conns : io.conn[c].st = "accepted" <=> ToRegister(c)
    /\ \A c \in Conns : \A i, j \in DOMAIN pending :
          pending[i] = Functor("register", c) /\ pending[j] = Functor("register", c) => i = j
    /\ \A c \in Conns : \A i, j \in DOMAIN taken :
          i >= next /\ j >= next /\ taken[i] = Functor("register", c)
             /\ taken[j] = Functor("register", c) => i = j
    /\ \A c \in Conns : \A i \in DOMAIN pending, j \in DOMAIN taken :
          j >= next => ~(pending[i] = Functor("register", c) /\ taken[j] = Functor("register", c))

----------------------------------------
(* The loop and Stop *)

\* What Poll returned has one event per channel; until Stop clears the map, the
\* connection of an event that has not been handled is open and in the map.
Dispatching ==
    /\ \A i, j \in DOMAIN active : active[i].conn = active[j].conn => i = j
    /\ \A i \in DOMAIN active : active[i].conn # WakeupChannel =>
          /\ io.conn[active[i].conn].st \in {"open", "closed", "dead"}
          /\ stage \in {"running", "flagged"} => active[i].conn \in io.map

Stages ==
    /\ stage \in {"running", "flagged"} =>
          held = {} /\ \A c \in Conns : io.conn[c].st = "open" => c \in io.map
    /\ stage \notin {"running", "flagged"} => io.map = {}
    /\ quit <=> stage \in {"quitting", "stopped"}
    /\ quit => untold = {} /\ tasks = {} /\ mid \subseteq {Main}
    /\ stage = "stopped" => pc = "ended" /\ mid = {}
    /\ pc \in {"last_swap", "last_run", "ended"} => quit
    /\ pc \in {"last_run", "ended"} => pending = <<>>
    /\ pc # "dispatch" => active = <<>>
    /\ pc \notin {"run", "last_run"} => taken = <<>> /\ next = 1

Inv == TypeOK /\ IoOk(io) /\ Ownership /\ Accepting /\ Dispatching /\ Stages
----------------------------------------
(* Operations of the poller and the channel *)

\* State s with another channel for c.
WithChannel(s, c, ch) == [s EXCEPT !.conn = [s.conn EXCEPT ![c] = ch]]

\* The parts of such a state.
LEMMA WithChannelFields ==
    ASSUME NEW s \in IoStates, NEW c \in Conns, NEW ch \in Channels
    PROVE  LET t == WithChannel(s, c, ch)
           IN  /\ t \in IoStates /\ t.map = s.map /\ t.registered = s.registered
               /\ t.kernel = s.kernel /\ t.conn = [s.conn EXCEPT ![c] = ch]
               /\ t.conn[c] = ch /\ \A d \in Conns : d # c => t.conn[d] = s.conn[d]
<1> DEFINE conn == [s.conn EXCEPT ![c] = ch]
<1>1. s.conn \in [Conns -> Channels]
  BY DEF IoStates
<1>2. conn \in [Conns -> Channels] /\ conn[c] = ch /\ \A d \in Conns : d # c => conn[d] = s.conn[d]
  BY <1>1
<1> HIDE DEF conn
<1>3. [s EXCEPT !.conn = conn] \in IoStates
  BY <1>2 DEF IoStates
<1> QED BY <1>2, <1>3 DEF WithChannel, conn, IoStates

\* Update tells epoll what the channel of c now waits for; it does nothing for a
\* channel that was removed.
LEMMA UpdateOk ==
    ASSUME NEW s, IoOk(s), NEW c \in Conns, s.conn[c].st \in {"open", "closed"},
           NEW ch \in Channels, ch.st = s.conn[c].st, ch.fd = s.conn[c].fd,
           ch.removed = s.conn[c].removed
    PROVE  LET u == Update(WithChannel(s, c, ch), c)
           IN  /\ IoOk(u) /\ u.map = s.map
               /\ u.conn = [s.conn EXCEPT ![c] = ch]
<1> DEFINE t == WithChannel(s, c, ch)
           u == Update(t, c)
           fd == ch.fd
           w == Wanted(ch, c)
<1>1. /\ s \in IoStates /\ s.conn[c] \in Channels
      /\ s.registered = {g \in Fds : s.kernel[g] # {}}
      /\ \A d \in Conns : ChannelOk(s, d)
      /\ \A d, e \in Open(s) : s.conn[d].fd = s.conn[e].fd => d = e
      /\ \A g \in Fds : \A e \in s.kernel[g] :
            s.conn[e.conn].st = "open" /\ s.conn[e.conn].fd = g
  BY DEF IoOk, IoStates
<1>2. /\ t \in IoStates /\ t.map = s.map /\ t.registered = s.registered
      /\ t.kernel = s.kernel /\ t.conn = [s.conn EXCEPT ![c] = ch]
      /\ t.conn[c] = ch /\ \A d \in Conns : d # c => t.conn[d] = s.conn[d]
  BY <1>1, WithChannelFields
<1> HIDE DEF t
<1>3. \A d \in Conns : t.conn[d].st = s.conn[d].st /\ t.conn[d].fd = s.conn[d].fd
  BY <1>2
<1>4. Open(t) = Open(s) /\ OpenFds(t) = OpenFds(s)
  BY <1>3 DEF Open, OpenFds
<1>5. CASE ch.st = "closed"
  <2>a. ch.removed
    BY <1>1, <1>5 DEF ChannelOk
  <2>b. u = t
    BY <1>2, <2>a DEF Update
  <2>c. ASSUME NEW d \in Conns PROVE ChannelOk(t, d)
    <3>1. ChannelOk(s, d)
      BY <1>1
    <3>2. CASE d = c
      BY <3>1, <3>2, <1>2, <1>5, <2>a DEF ChannelOk
    <3>3. CASE d # c
      BY <3>1, <3>3, <1>2 DEF ChannelOk
    <3> QED BY <3>2, <3>3
  <2>d. IoOk(t)
    <3>1. \A g \in Fds : \A e \in t.kernel[g] : e.conn \in Conns
      BY <1>2 DEF IoStates, KernelEntries
    <3>2. \A g \in Fds : \A e \in t.kernel[g] : t.conn[e.conn].st = "open" /\ t.conn[e.conn].fd = g
      BY <3>1, <1>1, <1>2, <1>3
    <3>3. \A d, e \in Open(t) : t.conn[d].fd = t.conn[e].fd => d = e
      BY <1>1, <1>3, <1>4 DEF Open
    <3> QED BY <1>1, <1>2, <2>c, <3>2, <3>3 DEF IoOk
  <2> QED BY <2>b, <2>d, <1>2 DEF t
<1>6. CASE ch.st = "open"
  <2>a. fd \in Fds /\ ~ch.removed /\ s.conn[c].st = "open"
    BY <1>1, <1>6 DEF ChannelOk
  <2>b. fd \in OpenFds(t)
    BY <1>2, <1>6 DEF OpenFds, Open
  <2>c. u = PollerUpdate(t, c)
    BY <1>2, <2>a DEF Update
  <2>d. t.kernel \in [Fds -> SUBSET KernelEntries] /\ t.registered \in SUBSET Fds
    BY <1>2 DEF IoStates
  <2>e. w \in SUBSET KernelEntries
    BY DEF Wanted, EventsForChannel, KernelEntries
  <2>f. /\ u \in IoStates /\ u.conn = t.conn /\ u.map = t.map
        /\ u.kernel = [t.kernel EXCEPT ![fd] = w]
        /\ u.registered = IF w = {} THEN t.registered \ {fd} ELSE t.registered \cup {fd}
    <3>1. (fd \in t.registered) <=> t.kernel[fd] # {}
      BY <1>1, <1>2, <2>a
    <3>2. CASE EventsForChannel(ch) = {}
      <4>1. u = PollerRemove(t, fd) /\ w = {}
        BY <2>c, <3>2, <1>2 DEF PollerUpdate, Wanted
      <4>2. CASE fd \notin t.registered
        <5>1. u = t
          BY <4>1, <4>2 DEF PollerRemove
        <5>2. t.kernel = [t.kernel EXCEPT ![fd] = {}]
          BY <3>1, <4>2, <2>d
        <5>3. t.registered = t.registered \ {fd}
          BY <4>2
        <5> QED BY <5>1, <5>2, <5>3, <4>1, <1>2
      <4>3. CASE fd \in t.registered
        <5>1. u = [t EXCEPT !.registered = @ \ {fd}, !.kernel[fd] = {}]
          BY <4>1, <4>3, <2>b DEF PollerRemove
        <5>2. u = [t EXCEPT !.registered = @ \ {fd}, !.kernel[fd] = w] /\ w = {}
          BY <5>1, <4>1
        <5> HIDE DEF u, w, fd
        <5> QED BY <5>2, <1>2, <2>a, <2>d, <2>e DEF IoStates
      <4> QED BY <4>2, <4>3
    <3>3. CASE EventsForChannel(ch) # {}
      <4>1. w = {[conn |-> c, events |-> EventsForChannel(ch)]}
        BY <3>3 DEF Wanted
      <4>2. u = [t EXCEPT !.registered = @ \cup {fd}, !.kernel[fd] = w]
        BY <4>1, <3>1, <3>3, <2>b, <2>c, <1>2 DEF PollerUpdate
      <4>3. w # {}
        BY <4>1
      <4> HIDE DEF u, w, fd
      <4> QED BY <4>2, <4>3, <1>2, <2>a, <2>d, <2>e DEF IoStates
    <3> QED BY <3>2, <3>3
  <2> HIDE DEF u
  <2>g. u.kernel[fd] = w /\ \A g \in Fds : g # fd => u.kernel[g] = s.kernel[g]
    BY <1>2, <2>a, <2>d, <2>f
  <2>h. u.registered = {g \in Fds : u.kernel[g] # {}}
    BY <1>1, <1>2, <2>a, <2>f, <2>g
  <2>i. ASSUME NEW d \in Conns PROVE ChannelOk(u, d)
    <3>1. ChannelOk(s, d)
      BY <1>1
    <3>2. CASE d = c
      BY <3>1, <3>2, <1>2, <1>6, <2>a, <2>f, <2>g DEF ChannelOk
    <3>3. CASE d # c
      <4>1. u.conn[d] = s.conn[d] /\ u.map = s.map
        BY <3>3, <1>2, <2>f
      <4>2. CASE s.conn[d].st \in {"accepted", "open"}
        <5>1. d \in Open(s) /\ c \in Open(s)
          BY <4>2, <2>a DEF Open
        <5>2. s.conn[d].fd # fd
          BY <5>1, <3>3, <1>1
        <5>3. s.conn[d].fd \in Fds
          BY <4>2, <3>1 DEF ChannelOk
        <5>4. u.kernel[s.conn[d].fd] = s.kernel[s.conn[d].fd]
          BY <5>2, <5>3, <2>g
        <5> QED BY <5>4, <4>1, <3>1 DEF ChannelOk
      <4>3. CASE s.conn[d].st \notin {"accepted", "open"}
        BY <4>1, <4>3, <3>1 DEF ChannelOk
      <4> QED BY <4>2, <4>3
    <3> QED BY <3>2, <3>3
  <2>j. \A d, e \in Open(u) : u.conn[d].fd = u.conn[e].fd => d = e
    <3>1. Open(u) = Open(s) /\ \A d \in Conns : u.conn[d].fd = s.conn[d].fd
      BY <1>3, <1>4, <2>f DEF Open
    <3> QED BY <3>1, <1>1 DEF Open
  <2>k. ASSUME NEW g \in Fds, NEW e \in u.kernel[g]
         PROVE  u.conn[e.conn].st = "open" /\ u.conn[e.conn].fd = g
    <3>1. CASE g = fd
      <4>1. e.conn = c
        BY <3>1, <2>g, <2>k DEF Wanted
      <4> QED BY <3>1, <4>1, <1>2, <1>6, <2>f
    <3>2. CASE g # fd
      <4>1. e \in s.kernel[g]
        BY <3>2, <2>g, <2>k
      <4>2. e.conn \in Conns
        BY <2>f DEF IoStates, KernelEntries
      <4> QED BY <4>1, <4>2, <1>1, <1>3, <2>f
    <3> QED BY <3>1, <3>2
  <2>l. IoOk(u)
    <3>1. u \in IoStates /\ \A d \in Conns : ChannelOk(u, d)
      BY <2>f, <2>i
    <3>2. \A g \in Fds : \A e \in u.kernel[g] : u.conn[e.conn].st = "open" /\ u.conn[e.conn].fd = g
      BY <2>k
    <3> HIDE DEF w, fd
    <3> QED BY <2>h, <2>j, <3>1, <3>2 DEF IoOk
  <2> QED BY <2>f, <2>l, <1>2 DEF u, t
<1> QED BY <1>5, <1>6

\* A connection whose epoll entry is gone may give up its descriptor.
LEMMA GoneOk ==
    ASSUME NEW s, IoOk(s), NEW c \in Conns,
           c \in Open(s) => s.kernel[s.conn[c].fd] = {},
           NEW ch \in Channels, ch.fd = 0, ch.st \in {"closed", "dead"},
           ch.st = "closed" => ch.removed,
           NEW u \in IoStates, u.registered = s.registered, u.kernel = s.kernel,
           u.conn = [s.conn EXCEPT ![c] = ch], u.map \subseteq s.map, c \notin u.map
    PROVE  IoOk(u)
<1>1. /\ s \in IoStates
      /\ s.registered = {g \in Fds : s.kernel[g] # {}}
      /\ \A d \in Conns : ChannelOk(s, d)
      /\ \A d, e \in Open(s) : s.conn[d].fd = s.conn[e].fd => d = e
      /\ \A g \in Fds : \A e \in s.kernel[g] :
            s.conn[e.conn].st = "open" /\ s.conn[e.conn].fd = g
  BY DEF IoOk
<1>2. u.conn[c] = ch /\ \A d \in Conns : d # c => u.conn[d] = s.conn[d]
  BY <1>1 DEF IoStates
<1>3. Open(u) = Open(s) \ {c}
  BY <1>2 DEF Open
<1>4. ASSUME NEW d \in Conns PROVE ChannelOk(u, d)
  <2>a. ChannelOk(s, d)
    BY <1>1
  <2>b. CASE d = c
    BY <2>b, <1>2 DEF ChannelOk
  <2>c. CASE d # c
    BY <2>a, <2>c, <1>2 DEF ChannelOk
  <2> QED BY <2>b, <2>c
<1>5. \A d, e \in Open(u) : u.conn[d].fd = u.conn[e].fd => d = e
  BY <1>1, <1>2, <1>3 DEF Open
<1>6. ASSUME NEW g \in Fds, NEW e \in u.kernel[g]
      PROVE  u.conn[e.conn].st = "open" /\ u.conn[e.conn].fd = g
  <2>a. s.conn[e.conn].st = "open" /\ s.conn[e.conn].fd = g /\ e.conn \in Conns
    BY <1>1, <1>6 DEF IoStates, KernelEntries
  <2>b. e.conn # c
    BY <2>a, <1>6 DEF Open
  <2> QED BY <2>a, <2>b, <1>2
<1> QED BY <1>1, <1>4, <1>5, <1>6 DEF IoOk

----------------------------------------
(* What a handler of connection c may do *)

\* Nothing to other connections, and to c itself nothing beyond what its channel and
\* its buffers hold, except to close it, which takes it out of the map.
Handled(s, t, c) ==
    /\ IoOk(t)
    /\ \A d \in Conns : d # c => t.conn[d] = s.conn[d]
    /\ \/ t.conn[c].st = s.conn[c].st /\ t.map = s.map
       \/ s.conn[c].st = "open" /\ t.conn[c].st = "closed" /\ t.map = s.map \ {c}

\* A handler may return early ...
LEMMA HandledStays ==
    ASSUME NEW s, IoOk(s), NEW c \in Conns
    PROVE  Handled(s, s, c)
BY DEF Handled

\* ... and call another.
LEMMA HandledTwice ==
    ASSUME NEW s, NEW t, NEW u, NEW c \in Conns, Handled(s, t, c), Handled(t, u, c)
    PROVE  Handled(s, u, c)
BY DEF Handled

\* A handler never destroys its connection.
LEMMA HandledLives ==
    ASSUME NEW s, NEW t, NEW c \in Conns, Handled(s, t, c), s.conn[c].st \in {"open", "closed"}
    PROVE  IoOk(t) /\ t.conn[c].st \in {"open", "closed"}
BY DEF Handled

\* The types that IoOk implies.
LEMMA IoOkTypes ==
    ASSUME NEW s, IoOk(s), NEW c \in Conns
    PROVE  s \in IoStates /\ s.conn \in [Conns -> Channels] /\ s.conn[c] \in Channels
BY DEF IoOk, IoStates

\* The parts of a channel that the poller does not look at.
LEMMA QuietOk ==
    ASSUME NEW s, IoOk(s), NEW c \in Conns, NEW ch \in Channels,
           ch.st = s.conn[c].st, ch.fd = s.conn[c].fd, ch.removed = s.conn[c].removed,
           ch.reading = s.conn[c].reading, ch.writing = s.conn[c].writing
    PROVE  LET t == WithChannel(s, c, ch) IN Handled(s, t, c) /\ t.conn[c] = ch
<1> DEFINE t == WithChannel(s, c, ch)
<1>1. /\ s \in IoStates
      /\ s.registered = {g \in Fds : s.kernel[g] # {}}
      /\ \A d \in Conns : ChannelOk(s, d)
      /\ \A d, e \in Open(s) : s.conn[d].fd = s.conn[e].fd => d = e
      /\ \A g \in Fds : \A e \in s.kernel[g] :
            s.conn[e.conn].st = "open" /\ s.conn[e.conn].fd = g
  BY DEF IoOk
<1>2. /\ t \in IoStates /\ t.map = s.map /\ t.registered = s.registered
      /\ t.kernel = s.kernel /\ t.conn = [s.conn EXCEPT ![c] = ch]
      /\ t.conn[c] = ch /\ \A d \in Conns : d # c => t.conn[d] = s.conn[d]
  BY <1>1, WithChannelFields
<1> HIDE DEF t
<1>3. \A d \in Conns : /\ t.conn[d].st = s.conn[d].st /\ t.conn[d].fd = s.conn[d].fd
                       /\ t.conn[d].removed = s.conn[d].removed
                       /\ t.conn[d].reading = s.conn[d].reading
                       /\ t.conn[d].writing = s.conn[d].writing
  BY <1>2
<1>4. Open(t) = Open(s)
  BY <1>3 DEF Open
<1>5. ASSUME NEW d \in Conns PROVE ChannelOk(t, d)
  <2>a. ChannelOk(s, d)
    BY <1>1
  <2>b. Wanted(t.conn[d], d) = Wanted(s.conn[d], d)
    BY <1>3 DEF Wanted, EventsForChannel
  <2> QED BY <1>2, <1>3, <2>a, <2>b DEF ChannelOk
<1>6. \A g \in Fds : \A e \in t.kernel[g] : e.conn \in Conns
  BY <1>2 DEF IoStates, KernelEntries
<1>7. \A g \in Fds : \A e \in t.kernel[g] : t.conn[e.conn].st = "open" /\ t.conn[e.conn].fd = g
  BY <1>6, <1>1, <1>2, <1>3
<1>8. \A d, e \in Open(t) : t.conn[d].fd = t.conn[e].fd => d = e
  BY <1>1, <1>3, <1>4 DEF Open
<1>9. IoOk(t)
  BY <1>1, <1>2, <1>5, <1>7, <1>8 DEF IoOk
<1> QED BY <1>2, <1>9, <1>3 DEF Handled, t

\* Update as part of a handler.
LEMMA UpdateHandled ==
    ASSUME NEW s, IoOk(s), NEW c \in Conns, s.conn[c].st \in {"open", "closed"},
           NEW ch \in Channels, ch.st = s.conn[c].st, ch.fd = s.conn[c].fd,
           ch.removed = s.conn[c].removed
    PROVE  LET u == Update(WithChannel(s, c, ch), c)
           IN  Handled(s, u, c) /\ u.conn[c] = ch /\ u.map = s.map
<1> DEFINE u == Update(WithChannel(s, c, ch), c)
<1>1. IoOk(u) /\ u.map = s.map /\ u.conn = [s.conn EXCEPT ![c] = ch]
  BY UpdateOk
<1> HIDE DEF u
<1>2. s.conn \in [Conns -> Channels]
  BY IoOkTypes
<1>3. u.conn[c] = ch /\ \A d \in Conns : d # c => u.conn[d] = s.conn[d]
  BY <1>1, <1>2
<1> QED BY <1>1, <1>3 DEF Handled, u

\* EnableWriting and DisableWriting as parts of a handler.
LEMMA WritingHandled ==
    ASSUME NEW s, IoOk(s), NEW c \in Conns, s.conn[c].st \in {"open", "closed"}
    PROVE  /\ Handled(s, EnableWriting(s, c), c)
           /\ Handled(s, DisableWriting(s, c), c)
<1>1. s \in IoStates /\ s.conn[c] \in Channels
  BY IoOkTypes
<1>2. ASSUME NEW b \in BOOLEAN PROVE Handled(s, Update([s EXCEPT !.conn[c].writing = b], c), c)
  <2> DEFINE ch == [s.conn[c] EXCEPT !.writing = b]
  <2>a. /\ ch \in Channels /\ ch.st = s.conn[c].st /\ ch.fd = s.conn[c].fd
        /\ ch.removed = s.conn[c].removed
    BY <1>1 DEF Channels
  <2>b. [s EXCEPT !.conn[c].writing = b] = WithChannel(s, c, ch)
    BY <1>1 DEF WithChannel, IoStates
  <2> HIDE DEF ch
  <2>c. Handled(s, Update(WithChannel(s, c, ch), c), c)
    BY <2>a, UpdateHandled
  <2> QED BY <2>b, <2>c
<1> QED BY <1>2 DEF EnableWriting, DisableWriting

\* HandleClose and the destructor first take the channel out of the poller.
LEMMA DetachFields ==
    ASSUME NEW s, IoOk(s), NEW c \in Conns, s.conn[c].st \in {"open", "closed"}
    PROVE  LET u == DisableAll(s, c)
               g == RemoveChannel(u, c)
           IN  /\ IoOk(u) /\ u.map = s.map
               /\ u.conn[c].st = s.conn[c].st /\ u.conn[c].fd = s.conn[c].fd
               /\ \A d \in Conns : d # c => u.conn[d] = s.conn[d]
               /\ c \in Open(u) => u.kernel[u.conn[c].fd] = {}
               /\ g = WithChannel(u, c, [u.conn[c] EXCEPT !.removed = TRUE])
<1> DEFINE u == DisableAll(s, c)
           ch == [s.conn[c] EXCEPT !.reading = FALSE, !.writing = FALSE]
<1>1. s \in IoStates /\ s.conn[c] \in Channels
  BY IoOkTypes
<1>2. /\ ch \in Channels /\ ch.st = s.conn[c].st /\ ch.fd = s.conn[c].fd
      /\ ch.removed = s.conn[c].removed /\ ~ch.reading /\ ~ch.writing
  BY <1>1 DEF Channels
<1>3. u = Update(WithChannel(s, c, ch), c)
  <2>a. [s EXCEPT !.conn[c].reading = FALSE, !.conn[c].writing = FALSE] = WithChannel(s, c, ch)
    BY <1>1 DEF WithChannel, IoStates
  <2> QED BY <2>a DEF DisableAll
<1> HIDE DEF u, ch
<1>4. Handled(s, u, c) /\ u.conn[c] = ch /\ u.map = s.map
  BY <1>2, <1>3, UpdateHandled
<1>5. IoOk(u) /\ \A d \in Conns : d # c => u.conn[d] = s.conn[d]
  BY <1>4 DEF Handled
<1>6. u \in IoStates /\ ChannelOk(u, c)
  BY <1>5 DEF IoOk
<1>7. Wanted(ch, c) = {}
  BY <1>2 DEF Wanted, EventsForChannel
<1>8. c \in Open(u) => u.kernel[u.conn[c].fd] = {}
  BY <1>4, <1>6, <1>7 DEF ChannelOk, Open
<1>9. RemoveChannel(u, c) = WithChannel(u, c, [u.conn[c] EXCEPT !.removed = TRUE])
  <2>a. [u EXCEPT !.conn[c].removed = TRUE] = WithChannel(u, c, [u.conn[c] EXCEPT !.removed = TRUE])
    BY <1>6 DEF WithChannel, IoStates
  <2>b. CASE u.conn[c].removed
    <3>1. [u.conn[c] EXCEPT !.removed = TRUE] = u.conn[c]
      BY <2>b, <1>2, <1>4 DEF Channels
    <3>2. WithChannel(u, c, u.conn[c]) = u
      BY <1>6 DEF WithChannel, IoStates
    <3> QED BY <2>b, <3>1, <3>2 DEF RemoveChannel
  <2>c. CASE ~u.conn[c].removed
    <3>1. u.conn[c].st = "open" /\ u.conn[c].fd \in Fds /\ u.kernel[u.conn[c].fd] = {}
      BY <2>c, <1>2, <1>4, <1>6, <1>8 DEF ChannelOk, Open
    <3>2. u.conn[c].fd \notin u.registered
      BY <3>1, <1>5 DEF IoOk
    <3>3. [u EXCEPT !.conn[c].removed = TRUE].registered = u.registered
      BY <1>6 DEF IoStates
    <3> QED BY <2>a, <2>c, <3>2, <3>3 DEF RemoveChannel, PollerRemove
  <2> QED BY <2>b, <2>c
<1> QED BY <1>2, <1>4, <1>5, <1>8, <1>9 DEF u

\* The channel out of the poller, the connection out of the map, the descriptor closed.
LEMMA HandleCloseHandled ==
    ASSUME NEW s, IoOk(s), NEW c \in Conns, s.conn[c].st \in {"open", "closed"}
    PROVE  Handled(s, HandleClose(s, c), c)
<1>0. ChannelOk(s, c) /\ s \in IoStates /\ s.conn[c] \in Channels
  BY IoOkTypes DEF IoOk
<1>1. CASE s.conn[c].fd = 0
  BY <1>1, HandledStays DEF HandleClose
<1>2. CASE s.conn[c].fd # 0
  <2> DEFINE u == DisableAll(s, c)
             g == RemoveChannel(u, c)
             m == [g EXCEPT !.map = @ \ {c}]
             ch == [u.conn[c] EXCEPT !.removed = TRUE]
             ch2 == [ch EXCEPT !.fd = 0, !.st = "closed"]
             t == CloseFd(m, c, "closed")
             fd == s.conn[c].fd
  <2>a. s.conn[c].st = "open" /\ fd \in Fds
    BY <1>0, <1>2 DEF ChannelOk
  <2>b. HandleClose(s, c) = t
    BY <1>2 DEF HandleClose
  <2>c. /\ IoOk(u) /\ u.map = s.map
        /\ u.conn[c].st = s.conn[c].st /\ u.conn[c].fd = s.conn[c].fd
        /\ \A d \in Conns : d # c => u.conn[d] = s.conn[d]
        /\ c \in Open(u) => u.kernel[u.conn[c].fd] = {}
        /\ g = WithChannel(u, c, ch)
    BY DetachFields
  <2> HIDE DEF u, g
  <2>d. u \in IoStates /\ u.conn[c] \in Channels
    BY <2>c, IoOkTypes
  <2>e. /\ ch \in Channels /\ ch.fd = fd
        /\ ch2 \in Channels /\ ch2.fd = 0 /\ ch2.st = "closed" /\ ch2.removed
    BY <2>c, <2>d DEF Channels
  <2> HIDE DEF ch, ch2
  <2>f. /\ g \in IoStates /\ g.map = u.map /\ g.registered = u.registered
        /\ g.kernel = u.kernel /\ g.conn = [u.conn EXCEPT ![c] = ch] /\ g.conn[c] = ch
    BY <2>c, <2>d, <2>e, WithChannelFields
  <2>g. /\ m \in IoStates /\ m.map = u.map \ {c} /\ m.registered = u.registered
        /\ m.kernel = u.kernel /\ m.conn = [u.conn EXCEPT ![c] = ch] /\ m.conn[c] = ch
    BY <2>f DEF IoStates
  <2> HIDE DEF m
  <2>h. u.kernel[fd] = {}
    BY <2>a, <2>c DEF Open
  <2>i. /\ t \in IoStates /\ t.map = u.map \ {c} /\ t.registered = u.registered
        /\ t.kernel = u.kernel /\ t.conn = [u.conn EXCEPT ![c] = ch2]
    <3>1. t = [m EXCEPT !.kernel[fd] = {}, !.conn[c].fd = 0, !.conn[c].st = "closed"]
      BY <1>2, <2>e, <2>g DEF CloseFd
    <3> DEFINE K == [m.kernel EXCEPT ![fd] = {}]
               C == [m.conn EXCEPT ![c] = [m.conn[c] EXCEPT !.fd = 0, !.st = "closed"]]
    <3>0. [m.conn[c] EXCEPT !.fd = 0, !.st = "closed"] = ch2
      BY <2>g DEF ch2
    <3>2. K = u.kernel
      BY <2>g, <2>h, <2>a, <2>d DEF IoStates
    <3>3. C = [u.conn EXCEPT ![c] = ch2] /\ C \in [Conns -> Channels]
      BY <2>d, <2>e, <2>g, <3>0 DEF IoStates
    <3>4. t = [m EXCEPT !.kernel = K, !.conn = C]
      BY <3>1, <2>g, <2>a, ZenonT(60) DEF IoStates
    <3> HIDE DEF K, C, t
    <3> QED BY <3>2, <3>3, <3>4, <2>d, <2>g DEF IoStates
  <2> HIDE DEF t
  <2>j. IoOk(t)
    BY <2>c, <2>e, <2>i, GoneOk
  <2>k. t.conn[c] = ch2 /\ \A d \in Conns : d # c => t.conn[d] = s.conn[d]
    BY <2>c, <2>d, <2>i DEF IoStates
  <2> QED BY <2>a, <2>b, <2>c, <2>e, <2>i, <2>j, <2>k DEF Handled
<1> QED BY <1>1, <1>2

DeadConn == [NewConn EXCEPT !.st = "dead"]

\* The destructor of a connection that is no longer in the map.
LEMMA DestroyOk ==
    ASSUME NEW s, IoOk(s), NEW c \in Conns, s.conn[c].st \in {"open", "closed"}, c \notin s.map
    PROVE  LET t == Destroy(s, c)
           IN  /\ IoOk(t) /\ t.map = s.map /\ t.conn[c].st = "dead"
               /\ \A d \in Conns : d # c => t.conn[d] = s.conn[d]
<1> DEFINE u == DisableAll(s, c)
           g == RemoveChannel(u, c)
           ch == [u.conn[c] EXCEPT !.removed = TRUE]
           x == CloseFd(g, c, "dead")
           t == [x EXCEPT !.conn[c] = DeadConn]
           fd == s.conn[c].fd
<1>1. ChannelOk(s, c) /\ s \in IoStates /\ s.conn[c] \in Channels
  BY IoOkTypes DEF IoOk
<1>2. Destroy(s, c) = t
  BY DEF Destroy, DeadConn
<1>3. /\ IoOk(u) /\ u.map = s.map
      /\ u.conn[c].st = s.conn[c].st /\ u.conn[c].fd = s.conn[c].fd
      /\ \A d \in Conns : d # c => u.conn[d] = s.conn[d]
      /\ c \in Open(u) => u.kernel[u.conn[c].fd] = {}
      /\ g = WithChannel(u, c, ch)
  BY DetachFields
<1> HIDE DEF u, g
<1>4. u \in IoStates /\ u.conn[c] \in Channels
  BY <1>3, IoOkTypes
<1>5. ch \in Channels /\ ch.fd = fd
  BY <1>3, <1>4 DEF Channels
<1>6. DeadConn \in Channels /\ DeadConn.fd = 0 /\ DeadConn.st = "dead"
  BY DEF DeadConn, NewConn, Channels
<1> HIDE DEF ch
<1>7. /\ g \in IoStates /\ g.map = u.map /\ g.registered = u.registered
      /\ g.kernel = u.kernel /\ g.conn = [u.conn EXCEPT ![c] = ch] /\ g.conn[c] = ch
  BY <1>3, <1>4, <1>5, WithChannelFields
<1>8. /\ x \in IoStates /\ x.map = u.map /\ x.registered = u.registered /\ x.kernel = u.kernel
      /\ \A d \in Conns : d # c => x.conn[d] = u.conn[d]
  <2>a. CASE fd = 0
    <3> DEFINE C == [g.conn EXCEPT ![c] = [ch EXCEPT !.st = "dead"]]
    <3>1. [ch EXCEPT !.st = "dead"] \in Channels
      BY <1>5 DEF Channels
    <3>2. C \in [Conns -> Channels] /\ \A d \in Conns : d # c => C[d] = u.conn[d]
      BY <3>1, <1>4, <1>7 DEF IoStates
    <3>3. x = [g EXCEPT !.conn = C]
      BY <2>a, <1>5, <1>7 DEF CloseFd, IoStates
    <3> HIDE DEF C, x
    <3> QED BY <3>2, <3>3, <1>7 DEF IoStates
  <2>b. CASE fd # 0
    <3>0. fd \in Fds /\ u.kernel[fd] = {}
      BY <2>b, <1>1, <1>3 DEF ChannelOk, Open
    <3> DEFINE C == [g.conn EXCEPT ![c] = [g.conn[c] EXCEPT !.fd = 0, !.st = "dead"]]
               K == [g.kernel EXCEPT ![fd] = {}]
    <3>1. [g.conn[c] EXCEPT !.fd = 0, !.st = "dead"] \in Channels
      BY <1>5, <1>7 DEF Channels
    <3>2. C \in [Conns -> Channels] /\ \A d \in Conns : d # c => C[d] = u.conn[d]
      BY <3>1, <1>4, <1>7 DEF IoStates
    <3>3. K = u.kernel
      BY <3>0, <1>4, <1>7 DEF IoStates
    <3>4. x = [g EXCEPT !.kernel[fd] = {}, !.conn[c].fd = 0, !.conn[c].st = "dead"]
      BY <2>b, <1>5, <1>7 DEF CloseFd
    <3>5. x = [g EXCEPT !.kernel = K, !.conn = C]
      BY <3>4, <3>0, <1>7, ZenonT(60) DEF IoStates
    <3> HIDE DEF C, K, x
    <3> QED BY <3>2, <3>3, <3>5, <1>4, <1>7 DEF IoStates
  <2> QED BY <2>a, <2>b
<1> HIDE DEF x
<1>9. /\ t \in IoStates /\ t.map = u.map /\ t.registered = u.registered
      /\ t.kernel = u.kernel /\ t.conn = [u.conn EXCEPT ![c] = DeadConn]
  <2> DEFINE C == [x.conn EXCEPT ![c] = DeadConn]
  <2>a. C = [u.conn EXCEPT ![c] = DeadConn] /\ C \in [Conns -> Channels]
    BY <1>4, <1>6, <1>8 DEF IoStates
  <2>b. t = [x EXCEPT !.conn = C]
    OBVIOUS
  <2> HIDE DEF C, t
  <2> QED BY <2>a, <2>b, <1>8 DEF IoStates
<1> HIDE DEF t
<1>10. IoOk(t)
  <2>a. c \notin t.map
    BY <1>3, <1>9
  <2> QED BY <2>a, <1>3, <1>6, <1>9, GoneOk
<1>11. t.conn[c] = DeadConn /\ \A d \in Conns : d # c => t.conn[d] = s.conn[d]
  BY <1>3, <1>4, <1>9 DEF IoStates
<1> QED BY <1>2, <1>3, <1>6, <1>9, <1>10, <1>11

\* What becomes of a connection when a reference to it goes.
LEMMA ReleaseOk ==
    ASSUME NEW s, IoOk(s), NEW c \in Conns, NEW owners
    PROVE  LET t == Release(s, c, owners)
           IN  /\ IoOk(t) /\ t.map = s.map
               /\ \A d \in Conns : d # c => t.conn[d] = s.conn[d]
               /\ IF c \notin s.map \cup owners /\ s.conn[c].st \in {"open", "closed"}
                  THEN t.conn[c].st = "dead" ELSE t = s
<1>1. CASE c \notin s.map \cup owners /\ s.conn[c].st \in {"open", "closed"}
  <2> DEFINE t == Destroy(s, c)
  <2>a. /\ IoOk(t) /\ t.map = s.map /\ t.conn[c].st = "dead"
        /\ \A d \in Conns : d # c => t.conn[d] = s.conn[d]
    BY <1>1, DestroyOk
  <2>b. Release(s, c, owners) = t
    BY <1>1 DEF Release
  <2> HIDE DEF t
  <2> QED BY <1>1, <2>a, <2>b
<1>2. CASE ~(c \notin s.map \cup owners /\ s.conn[c].st \in {"open", "closed"})
  BY <1>2 DEF Release
<1> QED BY <1>1, <1>2

\* The outcomes r of a handler of c in state s: requests are submitted for c only,
\* and none once the workers have ended.
HandledAll(s, results, c) ==
    \A r \in results :
        /\ Handled(s, r.io, c)
        /\ r.submits \subseteq {c}
        /\ stage \notin {"running", "flagged", "cleared"} => r.submits = {}

\* A handler that first does one thing, and then has the outcomes R.
LEMMA HandledAfter ==
    ASSUME NEW s, NEW t, NEW c \in Conns, NEW R, Handled(s, t, c), HandledAll(t, R, c)
    PROVE  HandledAll(s, R, c)
BY HandledTwice DEF HandledAll

\* A handler with a single outcome that submits nothing.
LEMMA OutcomeHandled ==
    ASSUME NEW s, NEW t, NEW c \in Conns, Handled(s, t, c)
    PROVE  HandledAll(s, {Outcome(t, {})}, c)
BY DEF HandledAll, Outcome

\* Appending to the output, whether or not the connection is to close after it.
LEMMA ReplyHandled ==
    ASSUME NEW s, IoOk(s), NEW c \in Conns, s.conn[c].st \in {"open", "closed"}
    PROVE  Handled(s, Reply(s, c), c) /\ Handled(s, ReplyAndClose(s, c), c)
<1> DEFINE ch == [s.conn[c] EXCEPT !.output = TRUE]
           t == WithChannel(s, c, ch)
           u == EnableWriting(t, c)
           cl == [u.conn[c] EXCEPT !.closing = TRUE]
<1>1. s \in IoStates /\ s.conn[c] \in Channels
  BY IoOkTypes
<1>2. /\ ch \in Channels /\ ch.st = s.conn[c].st /\ ch.fd = s.conn[c].fd
      /\ ch.removed = s.conn[c].removed /\ ch.reading = s.conn[c].reading
      /\ ch.writing = s.conn[c].writing
  BY <1>1 DEF Channels
<1>3. [s EXCEPT !.conn[c].output = TRUE] = t
  BY <1>1 DEF WithChannel, IoStates
<1>4. Reply(s, c) = u
  BY <1>3 DEF Reply
<1> HIDE DEF ch
<1>5. Handled(s, t, c)
  BY <1>2, QuietOk
<1> HIDE DEF t
<1>6. Handled(t, u, c)
  BY <1>5, HandledLives, WritingHandled
<1> HIDE DEF u
<1>7. Handled(s, u, c)
  BY <1>5, <1>6, HandledTwice
<1>8. IoOk(u) /\ u \in IoStates /\ u.conn[c] \in Channels
  BY <1>7, HandledLives, IoOkTypes
<1>9. /\ cl \in Channels /\ cl.st = u.conn[c].st /\ cl.fd = u.conn[c].fd
      /\ cl.removed = u.conn[c].removed /\ cl.reading = u.conn[c].reading
      /\ cl.writing = u.conn[c].writing
  BY <1>8 DEF Channels
<1>10. [u EXCEPT !.conn[c].closing = TRUE] = WithChannel(u, c, cl)
  BY <1>8 DEF WithChannel, IoStates
<1> HIDE DEF cl
<1>11. Handled(u, WithChannel(u, c, cl), c)
  BY <1>8, <1>9, QuietOk
<1>12. ReplyAndClose(s, c) = WithChannel(u, c, cl)
  BY <1>4, <1>10 DEF ReplyAndClose
<1> QED BY <1>4, <1>7, <1>11, <1>12, HandledTwice

\* SubmitNext submits c or nothing, and nothing once the pool has ended.
LEMMA SubmitNextHandled ==
    ASSUME NEW s, IoOk(s), NEW c \in Conns, s.conn[c].st \in {"open", "closed"}
    PROVE  HandledAll(s, SubmitNext(s, c), c)
<1> DEFINE ch == [s.conn[c] EXCEPT !.processing = TRUE, !.submitted = @ + 1]
           taking == [s EXCEPT !.conn[c].processing = TRUE, !.conn[c].submitted = @ + 1]
<1>1. s \in IoStates /\ s.conn[c] \in Channels
  BY IoOkTypes
<1>0. s.conn[c].submitted + 1 \in Nat
  BY <1>1 DEF Channels
<1>2. /\ ch \in Channels /\ ch.st = s.conn[c].st /\ ch.fd = s.conn[c].fd
      /\ ch.removed = s.conn[c].removed /\ ch.reading = s.conn[c].reading
      /\ ch.writing = s.conn[c].writing
  BY <1>0, <1>1 DEF Channels
<1>3. taking = WithChannel(s, c, ch)
  BY <1>1 DEF WithChannel, IoStates
<1> HIDE DEF ch
<1>4. Handled(s, taking, c)
  BY <1>2, <1>3, QuietOk
<1> HIDE DEF taking
<1>5. Handled(s, s, c) /\ Handled(s, ReplyAndClose(s, c), c)
  BY HandledStays, ReplyHandled
<1>6. ASSUME NEW r \in SubmitNext(s, c)
      PROVE  \/ r = Outcome(s, {})
             \/ r = Outcome(ReplyAndClose(s, c), {})
             \/ r = Outcome(taking, {c}) /\ stage \in {"running", "flagged", "cleared"}
  BY <1>6 DEF SubmitNext, taking
<1> QED BY <1>4, <1>5, <1>6 DEF HandledAll, Outcome

\* HandleRead, whatever has arrived.
LEMMA HandleReadHandled ==
    ASSUME NEW s, IoOk(s), NEW c \in Conns, s.conn[c].st \in {"open", "closed"}
    PROVE  HandledAll(s, HandleRead(s, c), c)
<1>1. HandledAll(s, SubmitNext(s, c), c)
  BY SubmitNextHandled
<1>2. HandledAll(s, {Outcome(s, {})}, c)
  BY HandledStays, OutcomeHandled
<1>3. HandledAll(s, {Outcome(ReplyAndClose(s, c), {})}, c)
  BY ReplyHandled, OutcomeHandled
<1>4. HandledAll(s, {Outcome(HandleClose(s, c), {})}, c)
  BY HandleCloseHandled, OutcomeHandled
<1> QED BY <1>1, <1>2, <1>3, <1>4 DEF HandleRead, HandledAll

\* HandleWrite, however much is written.
LEMMA HandleWriteHandled ==
    ASSUME NEW s, IoOk(s), NEW c \in Conns, s.conn[c].st \in {"open", "closed"},
           NEW t \in HandleWrite(s, c)
    PROVE  Handled(s, t, c)
<1> DEFINE ch == [s.conn[c] EXCEPT !.output = FALSE]
           u == WithChannel(s, c, ch)
           empty == DisableWriting(u, c)
<1>1. s \in IoStates /\ s.conn[c] \in Channels
  BY IoOkTypes
<1>2. /\ ch \in Channels /\ ch.st = s.conn[c].st /\ ch.fd = s.conn[c].fd
      /\ ch.removed = s.conn[c].removed /\ ch.reading = s.conn[c].reading
      /\ ch.writing = s.conn[c].writing
  BY <1>1 DEF Channels
<1>3. [s EXCEPT !.conn[c].output = FALSE] = u
  BY <1>1 DEF WithChannel, IoStates
<1>4. \/ t = empty \/ t = HandleClose(empty, c)
      \/ t = s \/ t = HandleClose(s, c)
  BY <1>3 DEF HandleWrite
<1> HIDE DEF ch
<1>5. Handled(s, u, c)
  BY <1>2, QuietOk
<1> HIDE DEF u
<1>6. Handled(u, empty, c)
  BY <1>5, HandledLives, WritingHandled
<1> HIDE DEF empty
<1>7. Handled(s, empty, c)
  BY <1>5, <1>6, HandledTwice
<1>8. Handled(empty, HandleClose(empty, c), c)
  BY <1>7, HandledLives, HandleCloseHandled
<1>9. Handled(s, s, c) /\ Handled(s, HandleClose(s, c), c)
  BY HandledStays, HandleCloseHandled
<1> QED BY <1>4, <1>7, <1>8, <1>9, HandledTwice

\* HandleEventWithGuard, for any flags.
LEMMA HandleEventHandled ==
    ASSUME NEW s, IoOk(s), NEW c \in Conns, s.conn[c].st \in {"open", "closed"}, NEW flags
    PROVE  HandledAll(s, HandleEvent(s, c, flags), c)
<1> DEFINE failed == IF "error" \in flags THEN HandleClose(s, c) ELSE s
           read == IF "readable" \in flags THEN HandleRead(failed, c) ELSE {Outcome(failed, {})}
           written(r) == {Outcome(w, r.submits) : w \in HandleWrite(r.io, c)}
<1>1. Handled(s, failed, c)
  BY HandledStays, HandleCloseHandled
<1> HIDE DEF failed
<1>2. IoOk(failed) /\ failed.conn[c].st \in {"open", "closed"}
  BY <1>1, HandledLives
<1>3. HandledAll(failed, read, c)
  BY <1>2, HandledStays, OutcomeHandled, HandleReadHandled
<1>4. HandledAll(failed, {Outcome(HandleClose(failed, c), {})}, c)
  BY <1>2, HandleCloseHandled, OutcomeHandled
<1> HIDE DEF read
<1>5. HandledAll(s, read, c) /\ HandledAll(s, {Outcome(HandleClose(failed, c), {})}, c)
  BY <1>1, <1>3, <1>4, HandledAfter
<1>6. ASSUME NEW r \in read, NEW q \in written(r)
      PROVE  /\ Handled(s, q.io, c) /\ q.submits \subseteq {c}
             /\ stage \notin {"running", "flagged", "cleared"} => q.submits = {}
  <2>a. PICK w \in HandleWrite(r.io, c) : q = Outcome(w, r.submits)
    BY <1>6
  <2>b. /\ Handled(s, r.io, c) /\ r.submits \subseteq {c}
        /\ stage \notin {"running", "flagged", "cleared"} => r.submits = {}
    BY <1>5, <1>6 DEF HandledAll
  <2>c. Handled(r.io, w, c)
    BY <2>b, HandledLives, HandleWriteHandled
  <2>d. Handled(s, w, c)
    BY <2>b, <2>c, HandledTwice
  <2> QED BY <2>a, <2>b, <2>d DEF Outcome
<1>7. HandledAll(s, UNION {written(r) : r \in read}, c)
  BY <1>6 DEF HandledAll
<1>8. \/ HandleEvent(s, c, flags) = {Outcome(HandleClose(failed, c), {})}
      \/ HandleEvent(s, c, flags) = UNION {written(r) : r \in read}
      \/ HandleEvent(s, c, flags) = read
  BY DEF HandleEvent, failed, read
<1> HIDE DEF written
<1> QED BY <1>5, <1>7, <1>8

\* OnResponse, also for a connection closed in the meantime.
LEMMA OnResponseHandled ==
    ASSUME NEW s, IoOk(s), NEW c \in Conns, s.conn[c].st \in {"open", "closed"}
    PROVE  HandledAll(s, OnResponse(s, c), c)
<1> DEFINE ch == [s.conn[c] EXCEPT !.processing = FALSE]
           u == WithChannel(s, c, ch)
           v == Reply(u, c)
<1>1. s \in IoStates /\ s.conn[c] \in Channels
  BY IoOkTypes
<1>2. /\ ch \in Channels /\ ch.st = s.conn[c].st /\ ch.fd = s.conn[c].fd
      /\ ch.removed = s.conn[c].removed /\ ch.reading = s.conn[c].reading
      /\ ch.writing = s.conn[c].writing
  BY <1>1 DEF Channels
<1>3. [s EXCEPT !.conn[c].processing = FALSE] = u
  BY <1>1 DEF WithChannel, IoStates
<1>4. OnResponse(s, c) = SubmitNext(v, c)
  BY <1>3 DEF OnResponse
<1> HIDE DEF ch
<1>5. Handled(s, u, c)
  BY <1>2, QuietOk
<1> HIDE DEF u
<1>6. Handled(s, v, c)
  BY <1>5, HandledLives, ReplyHandled, HandledTwice
<1> HIDE DEF v
<1>7. HandledAll(v, SubmitNext(v, c), c)
  BY <1>6, HandledLives, SubmitNextHandled
<1> QED BY <1>4, <1>6, <1>7, HandledAfter

\* Shutdown, which closes at once or after the output.
LEMMA ShutdownHandled ==
    ASSUME NEW s, IoOk(s), NEW c \in Conns, s.conn[c].st \in {"open", "closed"}
    PROVE  Handled(s, Shutdown(s, c), c)
<1> DEFINE ch == [s.conn[c] EXCEPT !.closing = TRUE]
           u == WithChannel(s, c, ch)
<1>1. s \in IoStates /\ s.conn[c] \in Channels
  BY IoOkTypes
<1>2. /\ ch \in Channels /\ ch.st = s.conn[c].st /\ ch.fd = s.conn[c].fd
      /\ ch.removed = s.conn[c].removed /\ ch.reading = s.conn[c].reading
      /\ ch.writing = s.conn[c].writing
  BY <1>1 DEF Channels
<1>3. [s EXCEPT !.conn[c].closing = TRUE] = u
  BY <1>1 DEF WithChannel, IoStates
<1>4. Shutdown(s, c) = u \/ Shutdown(s, c) = HandleClose(u, c)
  BY <1>3 DEF Shutdown
<1> HIDE DEF ch
<1>5. Handled(s, u, c)
  BY <1>2, QuietOk
<1> HIDE DEF u
<1>6. Handled(u, HandleClose(u, c), c)
  BY <1>5, HandledLives, HandleCloseHandled
<1> QED BY <1>4, <1>5, <1>6, HandledTwice

\* A connection that gets a descriptor nobody has, or whose registration runs.
LEMMA OpenedOk ==
    ASSUME NEW s, IoOk(s), NEW c \in Conns, s.conn[c].st \in {"none", "accepted"},
           NEW ch \in Channels, ch.fd \in Fds, ~ch.reading, ~ch.writing, ~ch.removed,
           ch.st \in {"accepted", "open"}, s.kernel[ch.fd] = {},
           \A d \in Open(s) : s.conn[d].fd = ch.fd => d = c,
           NEW u \in IoStates, u.registered = s.registered, u.kernel = s.kernel,
           u.conn = [s.conn EXCEPT ![c] = ch],
           u.map \subseteq s.map \cup {c}, c \in u.map => ch.st = "open"
    PROVE  IoOk(u)
<1>1. /\ s \in IoStates
      /\ s.registered = {g \in Fds : s.kernel[g] # {}}
      /\ \A d \in Conns : ChannelOk(s, d)
      /\ \A d, e \in Open(s) : s.conn[d].fd = s.conn[e].fd => d = e
      /\ \A g \in Fds : \A e \in s.kernel[g] :
            s.conn[e.conn].st = "open" /\ s.conn[e.conn].fd = g
  BY DEF IoOk
<1>2. u.conn[c] = ch /\ \A d \in Conns : d # c => u.conn[d] = s.conn[d]
  BY <1>1 DEF IoStates
<1>3. Open(u) = Open(s) \cup {c}
  BY <1>2 DEF Open
<1>4. ASSUME NEW d \in Conns PROVE ChannelOk(u, d)
  <2>a. ChannelOk(s, d)
    BY <1>1
  <2>b. CASE d = c
    <3>1. Wanted(ch, c) = {}
      BY DEF Wanted, EventsForChannel
    <3>2. c \in s.map => FALSE
      BY <2>a, <2>b DEF ChannelOk
    <3> QED BY <2>b, <3>1, <3>2, <1>2 DEF ChannelOk
  <2>c. CASE d # c
    <3>1. d \in u.map => d \in s.map
      BY <2>c
    <3> QED BY <2>a, <2>c, <1>2, <3>1 DEF ChannelOk
  <2> QED BY <2>b, <2>c
<1>5. ASSUME NEW d \in Open(u), NEW e \in Open(u), u.conn[d].fd = u.conn[e].fd PROVE d = e
  BY <1>1, <1>2, <1>3, <1>5 DEF Open
<1>6. ASSUME NEW g \in Fds, NEW e \in u.kernel[g]
      PROVE  u.conn[e.conn].st = "open" /\ u.conn[e.conn].fd = g
  <2>a. s.conn[e.conn].st = "open" /\ s.conn[e.conn].fd = g /\ e.conn \in Conns
    BY <1>1, <1>6 DEF IoStates, KernelEntries
  <2>b. e.conn # c
    BY <2>a
  <2> QED BY <2>a, <2>b, <1>2
<1> QED BY <1>1, <1>4, <1>5, <1>6 DEF IoOk

\* HandleAccept: a descriptor that no open connection has has no epoll entry either.
LEMMA AcceptOk ==
    ASSUME NEW s, IoOk(s), NEW c \in Conns, s.conn[c].st = "none",
           NEW fd \in Fds, fd \notin OpenFds(s)
    PROVE  LET t == [s EXCEPT !.conn[c].st = "accepted", !.conn[c].fd = fd]
           IN  /\ IoOk(t) /\ t.map = s.map /\ t.conn[c].st = "accepted"
               /\ \A d \in Conns : d # c => t.conn[d] = s.conn[d]
<1> DEFINE ch == [s.conn[c] EXCEPT !.st = "accepted", !.fd = fd]
           t == [s EXCEPT !.conn[c].st = "accepted", !.conn[c].fd = fd]
<1>1. s \in IoStates /\ s.conn[c] \in Channels /\ ChannelOk(s, c)
  BY IoOkTypes DEF IoOk
<1>2. /\ ch \in Channels /\ ch.fd = fd /\ ~ch.reading /\ ~ch.writing /\ ~ch.removed
      /\ ch.st = "accepted"
  BY <1>1 DEF Channels, ChannelOk
<1>3. t = WithChannel(s, c, ch)
  BY <1>1 DEF WithChannel, IoStates
<1> HIDE DEF ch, t
<1>4. /\ t \in IoStates /\ t.map = s.map /\ t.registered = s.registered
      /\ t.kernel = s.kernel /\ t.conn = [s.conn EXCEPT ![c] = ch]
      /\ t.conn[c] = ch /\ \A d \in Conns : d # c => t.conn[d] = s.conn[d]
  BY <1>1, <1>2, <1>3, WithChannelFields
<1>5. s.kernel[fd] = {}
  <2>a. ASSUME NEW e \in s.kernel[fd] PROVE FALSE
    <3>1. e.conn \in Conns
      BY <1>1, <2>a DEF IoStates, KernelEntries
    <3>2. s.conn[e.conn].st = "open" /\ s.conn[e.conn].fd = fd
      BY <2>a DEF IoOk
    <3> QED BY <3>1, <3>2 DEF OpenFds, Open
  <2> QED BY <2>a
<1>6. \A d \in Open(s) : s.conn[d].fd # fd
  BY DEF OpenFds
<1>7. /\ s.kernel[ch.fd] = {} /\ \A d \in Open(s) : s.conn[d].fd = ch.fd => d = c
      /\ t.map \subseteq s.map \cup {c} /\ c \notin t.map
  BY <1>1, <1>2, <1>4, <1>5, <1>6 DEF ChannelOk
<1>8. IoOk(t)
  BY <1>2, <1>4, <1>7, OpenedOk
<1> QED BY <1>2, <1>4, <1>8 DEF t

\* The register functor opens the connection, or closes it when stopping_ is set.
LEMMA RegisterOk ==
    ASSUME NEW s, IoOk(s), NEW c \in Conns, s.conn[c].st = "accepted"
    PROVE  LET t == Register(s, c)
           IN  /\ IoOk(t) /\ \A d \in Conns : d # c => t.conn[d] = s.conn[d]
               /\ IF stage = "running"
                  THEN t.conn[c].st = "open" /\ t.map = s.map \cup {c}
                  ELSE t.conn[c].st = "dead" /\ t.map = s.map
<1>1. s \in IoStates /\ s.conn[c] \in Channels /\ ChannelOk(s, c)
  BY IoOkTypes DEF IoOk
<1> DEFINE fd == s.conn[c].fd
<1>2. /\ fd \in Fds /\ fd # 0 /\ ~s.conn[c].reading /\ ~s.conn[c].writing /\ ~s.conn[c].removed
      /\ c \notin s.map
  BY <1>1, EventLoopAssumption DEF ChannelOk
<1>3. s.kernel[fd] = {}
  BY <1>1, <1>2 DEF ChannelOk, Wanted, EventsForChannel
<1>4. CASE stage # "running"
  <2> DEFINE ch == [s.conn[c] EXCEPT !.fd = 0, !.st = "dead"]
             t == CloseFd(s, c, "dead")
             K == [s.kernel EXCEPT ![fd] = {}]
  <2>a. ch \in Channels /\ ch.fd = 0 /\ ch.st = "dead"
    BY <1>1 DEF Channels
  <2>b. K = s.kernel
    BY <1>1, <1>2, <1>3 DEF IoStates
  <2>c. t = [s EXCEPT !.kernel[fd] = {}, !.conn[c].fd = 0, !.conn[c].st = "dead"]
    BY <1>2 DEF CloseFd
  <2>d. t = WithChannel(s, c, ch)
    <3> DEFINE C == [s.conn EXCEPT ![c] = ch]
    <3>1. t = [s EXCEPT !.kernel = K, !.conn = C]
      BY <2>c, <1>1, <1>2 DEF IoStates
    <3> HIDE DEF K, C
    <3> QED BY <3>1, <2>b, <1>1 DEF WithChannel, C, IoStates
  <2> HIDE DEF ch, t
  <2> DEFINE q == WithChannel(s, c, ch)
  <2>e. /\ q \in IoStates /\ q.map = s.map /\ q.registered = s.registered
        /\ q.kernel = s.kernel /\ q.conn = [s.conn EXCEPT ![c] = ch]
        /\ q.conn[c] = ch /\ \A d \in Conns : d # c => q.conn[d] = s.conn[d]
    BY <1>1, <2>a, WithChannelFields
  <2> HIDE DEF q
  <2>f. t = q
    BY <2>d DEF q
  <2>g. IoOk(t)
    BY <1>2, <1>3, <2>a, <2>e, <2>f, GoneOk
  <2> QED BY <1>4, <2>a, <2>e, <2>f, <2>g DEF Register, t
<1>5. CASE stage = "running"
  <2> DEFINE ch == [s.conn[c] EXCEPT !.st = "open"]
             q == WithChannel(s, c, ch)
             t == [s EXCEPT !.conn[c].st = "open", !.map = @ \cup {c}]
  <2>a. /\ ch \in Channels /\ ch.fd = fd /\ ch.st = "open" /\ ~ch.reading /\ ~ch.writing
        /\ ~ch.removed
    BY <1>1, <1>2 DEF Channels
  <2>b. t = [q EXCEPT !.map = @ \cup {c}]
    BY <1>1 DEF WithChannel, IoStates
  <2> HIDE DEF ch, t
  <2>c. /\ q \in IoStates /\ q.map = s.map /\ q.registered = s.registered
        /\ q.kernel = s.kernel /\ q.conn = [s.conn EXCEPT ![c] = ch]
        /\ q.conn[c] = ch /\ \A d \in Conns : d # c => q.conn[d] = s.conn[d]
    BY <1>1, <2>a, WithChannelFields
  <2> HIDE DEF q
  <2>d. /\ t \in IoStates /\ t.map = s.map \cup {c} /\ t.registered = s.registered
        /\ t.kernel = s.kernel /\ t.conn = [s.conn EXCEPT ![c] = ch]
        /\ t.conn[c] = ch /\ \A d \in Conns : d # c => t.conn[d] = s.conn[d]
    BY <2>b, <2>c DEF IoStates
  <2>e. \A d \in Open(s) : s.conn[d].fd = fd => d = c
    <3>1. c \in Open(s)
      BY DEF Open
    <3> QED BY <3>1 DEF IoOk
  <2>f. IoOk(t)
    <3>1. /\ s.kernel[ch.fd] = {} /\ \A d \in Open(s) : s.conn[d].fd = ch.fd => d = c
          /\ t.map \subseteq s.map \cup {c}
          /\ ch.fd \in Fds
      BY <1>2, <1>3, <2>a, <2>d, <2>e
    <3> QED BY <2>a, <2>d, <3>1, OpenedOk
  <2> DEFINE ch2 == [t.conn[c] EXCEPT !.reading = TRUE]
             u == Update(WithChannel(t, c, ch2), c)
  <2>g. /\ ch2 \in Channels /\ ch2.st = "open" /\ ch2.fd = t.conn[c].fd
        /\ ch2.removed = t.conn[c].removed
    BY <2>a, <2>d DEF Channels
  <2>h. [t EXCEPT !.conn[c].reading = TRUE] = WithChannel(t, c, ch2)
    BY <2>d DEF WithChannel, IoStates
  <2>i. Register(s, c) = u
    BY <1>5, <2>h DEF Register, EnableReading, t
  <2> HIDE DEF ch2
  <2>j. Handled(t, u, c) /\ u.conn[c] = ch2 /\ u.map = t.map
    BY <2>a, <2>d, <2>f, <2>g, UpdateHandled
  <2> HIDE DEF u
  <2> QED BY <1>5, <2>d, <2>g, <2>i, <2>j DEF Handled
<1> QED BY <1>4, <1>5

\* Stop moves the map away.
LEMMA ClearOk ==
    ASSUME NEW s, IoOk(s)
    PROVE  LET t == [s EXCEPT !.map = {}] IN IoOk(t) /\ t.map = {} /\ t.conn = s.conn
<1> DEFINE t == [s EXCEPT !.map = {}]
<1>1. s \in IoStates
  BY DEF IoOk
<1>2. /\ t \in IoStates /\ t.map = {} /\ t.conn = s.conn /\ t.kernel = s.kernel
      /\ t.registered = s.registered
  BY <1>1 DEF IoStates
<1> HIDE DEF t
<1>3. ASSUME NEW d \in Conns PROVE ChannelOk(t, d)
  BY <1>2 DEF IoOk, ChannelOk
<1>4. Open(t) = Open(s)
  BY <1>2 DEF Open
<1>5. IoOk(t)
  BY <1>2, <1>3, <1>4 DEF IoOk
<1> QED BY <1>2, <1>5 DEF t

----------------------------------------
(* Functors *)

\* Which connections the functors of a queue own.
LEMMA OwnersByIndex ==
    ASSUME NEW q, NEW c
    PROVE  c \in OwnersIn(q) <=> \E i \in DOMAIN q : q[i].kind # "register" /\ q[i].conn = c
BY DEF OwnersIn, Range

\* An empty queue owns none.
LEMMA NoOwners == OwnersIn(<<>>) = {}
BY DEF OwnersIn, Range

\* A functor pushed adds its connection, unless it is a registration.
LEMMA OwnersAppended ==
    ASSUME NEW q \in Seq(Functors), NEW f \in Functors
    PROVE  /\ Append(q, f) \in Seq(Functors)
           /\ OwnersIn(Append(q, f)) =
                 IF f.kind = "register" THEN OwnersIn(q) ELSE OwnersIn(q) \cup {f.conn}
<1> DEFINE p == Append(q, f)
<1>1. /\ p \in Seq(Functors) /\ Len(p) = Len(q) + 1 /\ p[Len(q) + 1] = f
      /\ \A i \in 1 .. Len(q) : p[i] = q[i]
  OBVIOUS
<1> HIDE DEF p
<1>2. /\ DOMAIN p = 1 .. Len(q) + 1 /\ DOMAIN q = 1 .. Len(q) /\ Len(q) \in Nat
      /\ \A i \in DOMAIN p : i \in DOMAIN q \/ i = Len(q) + 1
  BY <1>1
<1>3. ASSUME NEW c
      PROVE  c \in OwnersIn(p) <=> c \in OwnersIn(q) \/ (f.kind # "register" /\ c = f.conn)
  <2>a. c \in OwnersIn(q) => c \in OwnersIn(p)
    <3>1. ASSUME NEW i \in DOMAIN q, q[i].kind # "register", q[i].conn = c PROVE c \in OwnersIn(p)
      <4>1. i \in DOMAIN p /\ p[i] = q[i]
        BY <1>1, <1>2
      <4> QED BY <3>1, <4>1, OwnersByIndex
    <3> QED BY <3>1, OwnersByIndex
  <2>b. f.kind # "register" /\ c = f.conn => c \in OwnersIn(p)
    <3>1. Len(q) + 1 \in DOMAIN p
      BY <1>2
    <3> QED BY <3>1, <1>1, OwnersByIndex
  <2>c. c \in OwnersIn(p) => c \in OwnersIn(q) \/ (f.kind # "register" /\ c = f.conn)
    <3>1. ASSUME NEW i \in DOMAIN p, p[i].kind # "register", p[i].conn = c
          PROVE  c \in OwnersIn(q) \/ (f.kind # "register" /\ c = f.conn)
      <4>1. CASE i \in DOMAIN q
        <5>1. q[i] = p[i]
          BY <4>1, <1>1, <1>2
        <5> QED BY <3>1, <4>1, <5>1, OwnersByIndex
      <4>2. CASE i = Len(q) + 1
        BY <3>1, <4>2, <1>1
      <4> QED BY <4>1, <4>2, <1>2
    <3> QED BY <3>1, OwnersByIndex
  <2> QED BY <2>a, <2>b, <2>c
<1> QED BY <1>1, <1>3 DEF p

\* The indices of a sequence and of its tail.
LEMMA TailIndices ==
    ASSUME NEW S, NEW q \in Seq(S), q # <<>>
    PROVE  /\ Tail(q) \in Seq(S) /\ Len(Tail(q)) = Len(q) - 1 /\ Len(q) \in Nat \ {0}
           /\ DOMAIN q = 1 .. Len(q) /\ DOMAIN Tail(q) = 1 .. Len(q) - 1
           /\ Head(q) = q[1] /\ Head(q) \in S /\ 1 \in DOMAIN q
           /\ \A i \in DOMAIN Tail(q) : i + 1 \in DOMAIN q /\ Tail(q)[i] = q[i + 1]
           /\ \A j \in DOMAIN q : j = 1 \/ (j - 1 \in DOMAIN Tail(q) /\ Tail(q)[j - 1] = q[j])
<1>1. /\ Tail(q) \in Seq(S) /\ Len(Tail(q)) = Len(q) - 1 /\ Len(q) \in Nat \ {0}
      /\ DOMAIN q = 1 .. Len(q) /\ DOMAIN Tail(q) = 1 .. Len(q) - 1
      /\ Head(q) = q[1] /\ Head(q) \in S /\ 1 \in DOMAIN q
  OBVIOUS
<1>2. \A i \in 1 .. Len(q) - 1 : Tail(q)[i] = q[i + 1]
  OBVIOUS
<1>3. \A i \in DOMAIN Tail(q) : i + 1 \in DOMAIN q /\ Tail(q)[i] = q[i + 1]
  BY <1>1, <1>2
<1>4. ASSUME NEW j \in DOMAIN q, j # 1 PROVE j - 1 \in DOMAIN Tail(q) /\ Tail(q)[j - 1] = q[j]
  <2>a. j \in Int /\ j - 1 \in 1 .. Len(q) - 1 /\ (j - 1) + 1 = j
    BY <1>1, <1>4
  <2> QED BY <1>1, <1>2, <2>a
<1> QED BY <1>1, <1>3, <1>4

\* A functor destroyed takes away its connection, if no other has it.
LEMMA OwnersOfTail ==
    ASSUME NEW q \in Seq(Functors), q # <<>>
    PROVE  OwnersIn(q) = IF Head(q).kind = "register" THEN OwnersIn(Tail(q))
                         ELSE OwnersIn(Tail(q)) \cup {Head(q).conn}
<1> DEFINE t == Tail(q)
<1>1. /\ Head(q) = q[1] /\ 1 \in DOMAIN q
      /\ \A i \in DOMAIN t : i + 1 \in DOMAIN q /\ t[i] = q[i + 1]
      /\ \A j \in DOMAIN q : j = 1 \/ (j - 1 \in DOMAIN t /\ t[j - 1] = q[j])
  BY TailIndices
<1> HIDE DEF t
<1>2. ASSUME NEW c
      PROVE  c \in OwnersIn(q) <=> c \in OwnersIn(t) \/ (Head(q).kind # "register" /\ c = Head(q).conn)
  <2>a. c \in OwnersIn(t) => c \in OwnersIn(q)
    BY <1>1, OwnersByIndex
  <2>b. Head(q).kind # "register" /\ c = Head(q).conn => c \in OwnersIn(q)
    BY <1>1, OwnersByIndex
  <2>c. c \in OwnersIn(q) => c \in OwnersIn(t) \/ (Head(q).kind # "register" /\ c = Head(q).conn)
    <3>1. ASSUME NEW j \in DOMAIN q, q[j].kind # "register", q[j].conn = c, j # 1
          PROVE  c \in OwnersIn(t)
      <4>1. j - 1 \in DOMAIN t /\ t[j - 1] = q[j]
        BY <1>1, <3>1
      <4> QED BY <3>1, <4>1, OwnersByIndex
    <3> QED BY <1>1, <3>1, OwnersByIndex
  <2> QED BY <2>a, <2>b, <2>c
<1> QED BY <1>2 DEF t

\* The functors are what Functor makes.
LEMMA FunctorTypes ==
    /\ \A c \in Conns, k \in {"register", "response", "shutdown"} :
          Functor(k, c) \in Functors /\ Functor(k, c).kind = k /\ Functor(k, c).conn = c
    /\ \A f \in Functors : f = Functor(f.kind, f.conn) /\ f.conn \in Conns
          /\ f.kind \in {"register", "response", "shutdown"}
BY DEF Functor, Functors

----------------------------------------
(* The invariant is inductive *)

\* The loop starts with nothing queued and no connection.
LEMMA InitInv == Init => Inv
<1> SUFFICES ASSUME Init PROVE Inv
  OBVIOUS
<1>1. NewConn \in Channels
  BY DEF NewConn, Channels
<1>2. \A c \in Conns : io.conn[c] = NewConn
  BY DEF Init
<1>3. io \in IoStates /\ io.map = {} /\ io.registered = {} /\ \A fd \in Fds : io.kernel[fd] = {}
  BY <1>1 DEF Init, IoStates
<1>4. TypeOK
  <2>a. pending \in Seq(Functors) /\ taken \in Seq(Functors) /\ active \in Seq(Events)
    BY DEF Init
  <2>b. /\ quit \in BOOLEAN /\ wake \in BOOLEAN /\ tasks \subseteq Conns
        /\ mid \subseteq Conns \cup {Main} /\ held \subseteq Conns /\ untold \subseteq held
    BY Zenon DEF Init
  <2> QED BY <1>3, <2>a, <2>b DEF Init, TypeOK
<1>5. IoOk(io)
  BY <1>2, <1>3 DEF IoOk, ChannelOk, Open, NewConn
<1>6. Ownership
  BY <1>2, <1>3, NoOwners DEF Init, Ownership, Owned, Alive, NewConn
<1>7. Accepting
  BY <1>2 DEF Init, Accepting, ToRegister, NewConn
<1>8. Dispatching /\ Stages
  BY <1>2, <1>3 DEF Init, Dispatching, Stages, NewConn
<1> QED BY <1>4, <1>5, <1>6, <1>7, <1>8 DEF Inv

\* Accepting depends on the functors and on which connections are accepted.
LEMMA AcceptingKept ==
    ASSUME Accepting, UNCHANGED <<pending, taken, next>>,
           \A d \in Conns : io'.conn[d].st = "accepted" <=> io.conn[d].st = "accepted"
    PROVE  Accepting'
BY DEF Accepting, ToRegister

\* Steps that leave connections, functors and references alone.
LEMMA QuietSteps ==
    ASSUME Inv, CheckQuit \/ PollInterrupted \/ PollFails \/ FunctorsDone \/ StopFlag \/ Quit
                \/ Join \/ UNCHANGED vars
    PROVE  Inv'
<1> USE DEF loop, others, Inv
<1>1. UNCHANGED <<io, pending, tasks, taken, held, active>>
  BY DEF CheckQuit, PollInterrupted, PollFails, FunctorsDone, StopFlag, Quit, Join, vars
<1>2. CASE UNCHANGED vars
  BY <1>2 DEF vars, TypeOK, IoOk, Ownership, Accepting, Dispatching, Stages, ToRegister, Owned, Alive
<1>3. CASE CheckQuit \/ PollInterrupted \/ PollFails \/ FunctorsDone \/ StopFlag \/ Quit \/ Join
  <2>a. TypeOK'
    <3>1. CASE CheckQuit \/ PollInterrupted \/ PollFails
      BY <1>1, <3>1 DEF TypeOK, CheckQuit, PollInterrupted, PollFails
    <3>2. CASE FunctorsDone
      BY <1>1, <3>2 DEF TypeOK, FunctorsDone
    <3>3. CASE StopFlag \/ Join
      BY <1>1, <3>3 DEF TypeOK, StopFlag, Join
    <3>4. CASE Quit
      BY <1>1, <3>4 DEF TypeOK, Quit
    <3> QED BY <1>3, <3>1, <3>2, <3>3, <3>4
  <2>b. IoOk(io)'
    BY <1>1
  <2>c. Ownership'
    <3>1. UNCHANGED mid \/ (mid = {} /\ mid' = {Main})
      BY <1>3 DEF CheckQuit, PollInterrupted, PollFails, FunctorsDone, StopFlag, Quit, Join
    <3>2. \A c \in Conns : c # Main
      BY EventLoopAssumption DEF Main
    <3>3. \A c \in Conns : c \in mid' <=> c \in mid
      BY <3>1, <3>2
    <3> QED BY <1>1, <3>3 DEF Ownership, Owned, Alive
  <2>d. Accepting'
    <3>1. CASE UNCHANGED next
      BY <1>1, <3>1, AcceptingKept
    <3>2. CASE FunctorsDone
      BY <1>1, <3>2 DEF FunctorsDone, Accepting, ToRegister
    <3> QED BY <1>3, <3>1, <3>2 DEF CheckQuit, PollInterrupted, PollFails, StopFlag, Quit, Join
  <2>e. Dispatching'
    BY <1>1, <1>3 DEF Dispatching, CheckQuit, PollInterrupted, PollFails, FunctorsDone, StopFlag, Quit, Join
  <2>f. Stages'
    <3>1. CASE CheckQuit \/ PollInterrupted \/ PollFails
      BY <1>1, <3>1 DEF Stages, CheckQuit, PollInterrupted, PollFails
    <3>2. CASE FunctorsDone
      BY <1>1, <3>2 DEF Stages, FunctorsDone
    <3>3. CASE StopFlag \/ Quit \/ Join
      BY <1>1, <3>3 DEF Stages, StopFlag, Quit, Join
    <3> QED BY <1>3, <3>1, <3>2, <3>3
  <2> QED BY <2>a, <2>b, <2>c, <2>d, <2>e, <2>f
<1> QED BY <1>2, <1>3

\* DoPendingFunctors moves functors, and references, from one queue to the other.
LEMMA SwapStep ==
    ASSUME Inv, Swap
    PROVE  Inv'
<1> USE DEF others, Inv
<1>1. taken = <<>> /\ next = 1 /\ taken' = pending /\ pending' = <<>>
  BY DEF Swap, Stages
<1>2. UNCHANGED <<wake, next, active, io, tasks, quit, mid, held, untold, stage>>
  BY DEF Swap
<1>3. TypeOK'
  BY <1>1, <1>2 DEF TypeOK, Swap
<1>4. Ownership'
  BY <1>1, <1>2 DEF Ownership, Owned, Alive
<1>5. Accepting'
  <2>a. \A i \in DOMAIN pending : i >= next
    BY <1>1 DEF TypeOK
  <2>b. DOMAIN taken = {} /\ DOMAIN pending' = {}
    BY <1>1
  <2>c. \A c \in Conns : ToRegister(c)' <=> ToRegister(c)
    BY <1>1, <1>2, <2>a, <2>b DEF ToRegister
  <2> QED BY <1>1, <1>2, <2>a, <2>b, <2>c DEF Accepting
<1>6. Dispatching'
  BY <1>2 DEF Dispatching
<1>7. Stages'
  BY <1>1, <1>2 DEF Stages, Swap
<1> QED BY <1>2, <1>3, <1>4, <1>5, <1>6, <1>7

\* HandleWakeup touches no connection.
LEMMA DispatchWakeupStep ==
    ASSUME Inv, DispatchWakeup
    PROVE  Inv'
<1> USE DEF others, Inv
<1>1. /\ UNCHANGED <<pc, taken, next, pending, io, tasks, quit, mid, held, untold, stage>>
      /\ active' = Tail(active) /\ active # <<>> /\ wake' = FALSE
  BY DEF DispatchWakeup
<1>2. /\ Tail(active) \in Seq(Events)
      /\ \A i \in DOMAIN Tail(active) : i + 1 \in DOMAIN active /\ Tail(active)[i] = active[i + 1]
      /\ DOMAIN Tail(active) \subseteq Nat
  BY <1>1, TailIndices DEF TypeOK
<1>3. TypeOK'
  BY <1>1, <1>2 DEF TypeOK
<1>4. Ownership' /\ Accepting'
  BY <1>1, AcceptingKept DEF Ownership, Owned, Alive
<1>5. Dispatching'
  <2>a. ASSUME NEW i \in DOMAIN active', NEW j \in DOMAIN active', active'[i].conn = active'[j].conn
        PROVE  i = j
    <3>1. i + 1 = j + 1 /\ i \in Nat /\ j \in Nat
      BY <1>1, <1>2, <2>a DEF Dispatching
    <3> QED BY <3>1
  <2>b. ASSUME NEW i \in DOMAIN active', active'[i].conn # WakeupChannel
        PROVE  /\ io'.conn[active'[i].conn].st \in {"open", "closed", "dead"}
               /\ stage' \in {"running", "flagged"} => active'[i].conn \in io'.map
    BY <1>1, <1>2, <2>b DEF Dispatching
  <2> QED BY <2>a, <2>b DEF Dispatching
<1>6. Stages'
  BY <1>1 DEF Stages, DispatchWakeup
<1> QED BY <1>1, <1>3, <1>4, <1>5, <1>6

\* An epoll entry is what its connection's channel waits for, so a connection has one.
LEMMA EntryIsWanted ==
    ASSUME IoOk(io), NEW e \in Entries
    PROVE  /\ e.conn \in Conns /\ io.conn[e.conn].st = "open"
           /\ e = [conn |-> e.conn, events |-> EventsForChannel(io.conn[e.conn])]
<1>1. PICK fd \in Fds : e \in io.kernel[fd]
  BY DEF Entries
<1>2. e.conn \in Conns
  BY <1>1 DEF IoOk, IoStates, KernelEntries
<1>3. io.conn[e.conn].st = "open" /\ io.conn[e.conn].fd = fd
  BY <1>1 DEF IoOk
<1>4. io.kernel[fd] = Wanted(io.conn[e.conn], e.conn)
  BY <1>2, <1>3 DEF IoOk, ChannelOk
<1> QED BY <1>1, <1>2, <1>3, <1>4 DEF Wanted

\* Poll returns events of open connections, at most one for each.
LEMMA PollStep ==
    ASSUME Inv, Poll
    PROVE  Inv'
<1> USE DEF others, Inv
<1>1. /\ UNCHANGED <<wake, taken, next, pending, io, tasks, quit, mid, held, untold, stage>>
      /\ pc = "poll" /\ pc' = "dispatch"
  BY DEF Poll
<1>2. PICK ready \in SUBSET Entries :
        \E flags \in [ready -> UNION {FlagsFor(e) : e \in ready}] :
           /\ \A e \in ready : flags[e] \in FlagsFor(e)
           /\ active' \in SetToSeqs(
                  (UNION {EventsOf(e.conn, flags[e]) : e \in ready})
                  \cup (IF wake THEN EventsOf(WakeupChannel, {"readable"}) ELSE {}))
  BY DEF Poll
<1>3. PICK flags \in [ready -> UNION {FlagsFor(e) : e \in ready}] :
           /\ \A e \in ready : flags[e] \in FlagsFor(e)
           /\ active' \in SetToSeqs(
                  (UNION {EventsOf(e.conn, flags[e]) : e \in ready})
                  \cup (IF wake THEN EventsOf(WakeupChannel, {"readable"}) ELSE {}))
  BY <1>2
<1> DEFINE S == (UNION {EventsOf(e.conn, flags[e]) : e \in ready})
                \cup (IF wake THEN EventsOf(WakeupChannel, {"readable"}) ELSE {})
<1>4. ASSUME NEW x \in S
      PROVE  \/ x = [conn |-> WakeupChannel, flags |-> {"readable"}]
             \/ \E e \in ready : x = [conn |-> e.conn, flags |-> flags[e]]
  <2> DEFINE A == UNION {EventsOf(e.conn, flags[e]) : e \in ready}
             B == IF wake THEN EventsOf(WakeupChannel, {"readable"}) ELSE {}
  <2>z. x \in A \/ x \in B
    BY <1>4
  <2>a. CASE x \in A
    <3>1. PICK e \in ready : x \in EventsOf(e.conn, flags[e])
      BY <2>a
    <3> QED BY <3>1 DEF EventsOf
  <2>b. CASE x \in B
    BY <2>b DEF EventsOf
  <2> HIDE DEF A, B
  <2> QED BY <2>z, <2>a, <2>b
<1>5. ASSUME NEW e \in ready
      PROVE  /\ e.conn \in Conns /\ io.conn[e.conn].st = "open"
             /\ e = [conn |-> e.conn, events |-> EventsForChannel(io.conn[e.conn])]
             /\ flags[e] \subseteq {"closed", "error", "readable", "writable"}
  <2>a. flags[e] \in FlagsFor(e)
    BY <1>3
  <2>b. flags[e] \subseteq {"closed", "error", "readable", "writable"}
    BY <2>a DEF FlagsFor
  <2> QED BY <2>b, EntryIsWanted
<1> HIDE DEF S
<1>6. ASSUME NEW x \in S
      PROVE  /\ x \in Events
             /\ x.conn # WakeupChannel => x.conn \in Conns /\ io.conn[x.conn].st = "open"
  BY <1>4, <1>5, <1>6 DEF Events
<1>7. ASSUME NEW x \in S, NEW y \in S, x.conn = y.conn
      PROVE  x = y
  <2>a. CASE x.conn = WakeupChannel
    <3>1. ASSUME NEW z \in S, z.conn = WakeupChannel
          PROVE  z = [conn |-> WakeupChannel, flags |-> {"readable"}]
      <4>1. ASSUME NEW e \in ready, z = [conn |-> e.conn, flags |-> flags[e]] PROVE FALSE
        BY <1>5, <3>1, <4>1, EventLoopAssumption
      <4> QED BY <1>4, <3>1, <4>1
    <3> QED BY <1>7, <2>a, <3>1
  <2>b. CASE x.conn # WakeupChannel
    <3>1. PICK e \in ready : x = [conn |-> e.conn, flags |-> flags[e]]
      BY <1>4, <2>b
    <3>2. PICK f \in ready : y = [conn |-> f.conn, flags |-> flags[f]]
      BY <1>4, <1>7, <2>b
    <3>3. e.conn = f.conn
      BY <1>7, <3>1, <3>2
    <3>4. e = f
      BY <1>5, <3>3
    <3> QED BY <3>1, <3>2, <3>4
  <2> QED BY <2>a, <2>b
<1>8. IsFiniteSet(S)
  <2> DEFINE f == [x \in S |-> x.conn]
             T == Conns \cup {WakeupChannel}
  <2>a. IsFiniteSet(T)
    BY EventLoopAssumption, FS_AddElement
  <2>b. f \in [S -> T]
    BY <1>6 DEF Events
  <2>c. \A x, y \in S : f[x] = f[y] => x = y
    BY <1>7
  <2>d. f \in Injection(S, T)
    BY <2>b, <2>c DEF Injection, IsInjective
  <2> HIDE DEF f, T
  <2> QED BY <2>a, <2>d, FS_Injection
<1>9. Cardinality(S) \in Nat
  BY <1>8, FS_CardinalityType
<1>10. /\ active' \in [1 .. Cardinality(S) -> S]
       /\ \A i, j \in 1 .. Cardinality(S) : i # j => active'[i] # active'[j]
  BY <1>3 DEF SetToSeqs, S
<1>11. active' \in Seq(Events)
  <2>a. active' \in [1 .. Cardinality(S) -> Events]
    BY <1>6, <1>10
  <2> QED BY <2>a, <1>9
<1>12. TypeOK'
  BY <1>1, <1>11 DEF TypeOK
<1>13. Ownership' /\ Accepting'
  BY <1>1, AcceptingKept DEF Ownership, Owned, Alive
<1>14. Dispatching'
  <2>a. \A i \in DOMAIN active' : active'[i] \in S
    BY <1>10
  <2>b. \A i, j \in DOMAIN active' : active'[i].conn = active'[j].conn => i = j
    BY <1>7, <1>10, <2>a
  <2>c. ASSUME NEW i \in DOMAIN active', active'[i].conn # WakeupChannel
        PROVE  /\ io'.conn[active'[i].conn].st \in {"open", "closed", "dead"}
               /\ stage' \in {"running", "flagged"} => active'[i].conn \in io'.map
    BY <1>1, <1>6, <2>a, <2>c DEF Stages
  <2> QED BY <2>b, <2>c DEF Dispatching
<1>15. Stages'
  BY <1>1 DEF Stages
<1> QED BY <1>1, <1>12, <1>13, <1>14, <1>15

\* HandleEvent, and the reference that the tie held.
LEMMA DispatchStep ==
    ASSUME Inv, Dispatch
    PROVE  Inv'
<1> USE DEF others, Inv
<1> DEFINE c == Head(active).conn
           flags == Head(active).flags
<1>1. /\ UNCHANGED <<pc, wake, taken, next, pending, quit, mid, held, untold, stage>>
      /\ pc = "dispatch" /\ active # <<>> /\ c # WakeupChannel /\ active' = Tail(active)
  BY DEF Dispatch
<1>2. /\ Tail(active) \in Seq(Events) /\ Head(active) = active[1] /\ Head(active) \in Events
      /\ 1 \in DOMAIN active /\ DOMAIN Tail(active) \subseteq Nat \ {0}
      /\ \A i \in DOMAIN Tail(active) : i + 1 \in DOMAIN active /\ Tail(active)[i] = active[i + 1]
      /\ \A i \in DOMAIN active : active[i] \in Events
  BY <1>1, TailIndices DEF TypeOK
<1>3. c \in Conns
  BY <1>1, <1>2 DEF Events
<1>4. io.conn[c].st \in {"open", "closed", "dead"}
  BY <1>1, <1>2 DEF Dispatching
<1>5. taken = <<>> /\ OwnersIn(taken) = {}
  BY <1>1, NoOwners DEF Stages
<1>6. \/ io.conn[c].st = "dead" /\ UNCHANGED <<io, tasks>>
      \/ /\ io.conn[c].st # "dead"
         /\ \E r \in HandleEvent(io, c, flags) :
               /\ tasks' = tasks \cup r.submits
               /\ io' = Release(r.io, c, OwnersIn(pending) \cup tasks' \cup mid \cup held)
  BY DEF Dispatch
<1> HIDE DEF c, flags
\* What happens to connections.
<1>7. /\ IoOk(io') /\ tasks' \subseteq Conns /\ tasks \subseteq tasks'
      /\ \A d \in Conns : d # c =>
            io'.conn[d] = io.conn[d] /\ (d \in io'.map <=> d \in io.map) /\ (d \in tasks' => d \in tasks)
      /\ io'.map \subseteq io.map
      /\ io'.conn[c].st \in {"open", "closed", "dead"}
      /\ io'.conn[c].st = "open" /\ c \in io.map => c \in io'.map
      /\ io'.conn[c].st = "open" => io.conn[c].st = "open"
      /\ io'.conn[c].st \in {"open", "closed"}
            <=> c \in io'.map \cup OwnersIn(pending) \cup tasks' \cup mid \cup held
      /\ quit => tasks' = tasks
  <2>a. CASE io.conn[c].st = "dead" /\ UNCHANGED <<io, tasks>>
    <3>1. c \notin Owned
      BY <1>3, <2>a DEF Ownership, Alive
    <3>2. c \notin io.map \cup OwnersIn(pending) \cup tasks \cup mid \cup held
      BY <3>1 DEF Owned
    <3> QED BY <1>3, <2>a, <3>2 DEF TypeOK
  <2>b. CASE /\ io.conn[c].st # "dead"
             /\ \E r \in HandleEvent(io, c, flags) :
                   /\ tasks' = tasks \cup r.submits
                   /\ io' = Release(r.io, c, OwnersIn(pending) \cup tasks' \cup mid \cup held)
    <3> DEFINE owners == OwnersIn(pending) \cup tasks' \cup mid \cup held
    <3>1. PICK r \in HandleEvent(io, c, flags) :
             tasks' = tasks \cup r.submits /\ io' = Release(r.io, c, owners)
      BY <2>b
    <3>2. io.conn[c].st \in {"open", "closed"}
      BY <1>4, <2>b
    <3>3. /\ Handled(io, r.io, c) /\ r.submits \subseteq {c}
          /\ stage \notin {"running", "flagged", "cleared"} => r.submits = {}
      BY <1>3, <3>1, <3>2, HandleEventHandled DEF HandledAll
    <3>4. IoOk(r.io) /\ r.io.conn[c].st \in {"open", "closed"}
      BY <1>3, <3>2, <3>3, HandledLives
    <3> HIDE DEF owners
    <3>5. /\ IoOk(io') /\ io'.map = r.io.map
          /\ \A d \in Conns : d # c => io'.conn[d] = r.io.conn[d]
          /\ IF c \notin r.io.map \cup owners /\ r.io.conn[c].st \in {"open", "closed"}
             THEN io'.conn[c].st = "dead" ELSE io' = r.io
      BY <1>3, <3>1, <3>4, ReleaseOk
    <3>6. /\ \A d \in Conns : d # c => r.io.conn[d] = io.conn[d]
          /\ \/ r.io.conn[c].st = io.conn[c].st /\ r.io.map = io.map
             \/ io.conn[c].st = "open" /\ r.io.conn[c].st = "closed" /\ r.io.map = io.map \ {c}
      BY <3>3 DEF Handled
    <3>7. /\ tasks' \subseteq Conns /\ tasks \subseteq tasks'
          /\ \A d \in Conns : d # c => (d \in tasks' => d \in tasks)
          /\ quit => tasks' = tasks
      BY <1>3, <3>1, <3>3 DEF TypeOK, Stages
    <3>8. IF c \notin r.io.map \cup owners THEN io'.conn[c].st = "dead" ELSE io' = r.io
      BY <3>4, <3>5
    <3>9. io'.conn[c].st \in {"open", "closed"} <=> c \in io'.map \cup owners
      BY <3>4, <3>5, <3>8
    <3>10. /\ \A d \in Conns : d # c => io'.conn[d] = io.conn[d] /\ (d \in io'.map <=> d \in io.map)
           /\ io'.map \subseteq io.map
      BY <3>5, <3>6
    <3>11. /\ io'.conn[c].st \in {"open", "closed", "dead"}
           /\ io'.conn[c].st = "open" /\ c \in io.map => c \in io'.map
           /\ io'.conn[c].st = "open" => io.conn[c].st = "open"
      BY <3>4, <3>5, <3>6, <3>8
    <3> QED BY <3>5, <3>7, <3>9, <3>10, <3>11 DEF owners
  <2> QED BY <1>6, <2>a, <2>b
<1>8. TypeOK'
  BY <1>1, <1>2, <1>7 DEF TypeOK, IoOk
<1>9. Ownership'
  <2>a. ASSUME NEW d \in Conns PROVE Alive(d)' <=> d \in Owned'
    <3>1. CASE d = c
      BY <1>1, <1>5, <1>7, <3>1 DEF Owned, Alive
    <3>2. CASE d # c
      <4>1. d \in Owned' <=> d \in Owned
        BY <1>1, <1>7, <3>2 DEF Owned
      <4>2. Alive(d)' <=> Alive(d)
        BY <1>7, <3>2 DEF Alive
      <4> QED BY <4>1, <4>2 DEF Ownership
    <3> QED BY <3>1, <3>2
  <2> QED BY <2>a DEF Ownership
<1>10. Accepting'
  <2>a. \A d \in Conns : io'.conn[d].st = "accepted" <=> io.conn[d].st = "accepted"
    BY <1>4, <1>7
  <2> QED BY <1>1, <2>a, AcceptingKept
<1>11. Dispatching'
  <2>a. ASSUME NEW i \in DOMAIN active', NEW j \in DOMAIN active', active'[i].conn = active'[j].conn
        PROVE  i = j
    <3>1. i + 1 = j + 1 /\ i \in Nat /\ j \in Nat
      BY <1>1, <1>2, <2>a DEF Dispatching
    <3> QED BY <3>1
  <2>b. ASSUME NEW i \in DOMAIN active', active'[i].conn # WakeupChannel
        PROVE  /\ io'.conn[active'[i].conn].st \in {"open", "closed", "dead"}
               /\ stage' \in {"running", "flagged"} => active'[i].conn \in io'.map
    <3>1. /\ i \in Nat \ {0} /\ i + 1 \in DOMAIN active /\ active'[i] = active[i + 1]
          /\ i + 1 # 1
      BY <1>1, <1>2
    <3>2. active[i + 1].conn # c
      BY <1>2, <3>1 DEF Dispatching, c
    <3>3. active'[i].conn \in Conns
      BY <1>2, <2>b, <3>1 DEF Events
    <3> QED BY <1>1, <1>7, <2>b, <3>1, <3>2, <3>3 DEF Dispatching
  <2> QED BY <2>a, <2>b DEF Dispatching
<1>12. Stages'
  <2>a. ASSUME stage' \in {"running", "flagged"}, NEW d \in Conns, io'.conn[d].st = "open"
        PROVE  d \in io'.map
    BY <1>1, <1>7, <2>a DEF Stages
  <2>b. stage \notin {"running", "flagged"} => io'.map = {}
    BY <1>7 DEF Stages
  <2>c. quit => tasks' = {}
    BY <1>7 DEF Stages
  <2> QED BY <1>1, <2>a, <2>b, <2>c DEF Stages
<1> QED BY <1>7, <1>8, <1>9, <1>10, <1>11, <1>12

\* A functor runs on a connection that it keeps alive, or registers one.
LEMMA RunFunctorStep ==
    ASSUME Inv, RunFunctor
    PROVE  Inv'
<1> USE DEF others, Inv
<1> DEFINE f == taken[next]
<1>1. /\ UNCHANGED <<pc, wake, taken, active, pending, quit, mid, held, untold, stage>>
      /\ pc \in {"run", "last_run"} /\ next <= Len(taken) /\ next' = next + 1
  BY DEF RunFunctor
<1>2. next \in DOMAIN taken /\ f \in Functors /\ next \in Nat \ {0}
  BY <1>1 DEF TypeOK
<1>0. PICK c \in Conns : c = f.conn
  BY <1>2, FunctorTypes
<1>3. /\ c \in Conns /\ f = Functor(f.kind, c) /\ f.kind \in {"register", "response", "shutdown"}
      /\ \A k \in {"register", "response", "shutdown"}, d \in Conns :
            Functor(k, d).kind = k /\ Functor(k, d).conn = d
  BY <1>0, <1>2, FunctorTypes
<1>4. active = <<>>
  BY <1>1 DEF Stages
<1>5. \A d \in Conns : \A i \in DOMAIN taken : i >= next' => i >= next
  BY <1>1, <1>2 DEF TypeOK
<1>6. \A i \in DOMAIN taken : i >= next => i = next \/ i >= next'
  BY <1>1, <1>2 DEF TypeOK
<1>7. CASE f.kind = "register"
  <2>a. io' = Register(io, c) /\ tasks' = tasks
    <3>1. \E r \in {Outcome(Register(io, c), {})} : io' = r.io /\ tasks' = tasks \cup r.submits
      BY <1>0, <1>7 DEF RunFunctor
    <3> QED BY <3>1 DEF Outcome
  <2>b. taken[next] = Functor("register", c)
    BY <1>3, <1>7
  <2>c. io.conn[c].st = "accepted"
    <3>1. ToRegister(c)
      BY <1>2, <2>b DEF ToRegister
    <3> QED BY <1>3, <3>1 DEF Accepting
  <2> HIDE DEF f
  <2>d. /\ IoOk(io') /\ \A d \in Conns : d # c => io'.conn[d] = io.conn[d]
        /\ IF stage = "running" THEN io'.conn[c].st = "open" /\ io'.map = io.map \cup {c}
           ELSE io'.conn[c].st = "dead" /\ io'.map = io.map
    BY <1>3, <2>a, <2>c, RegisterOk
  <2>e. TypeOK'
    BY <1>1, <1>2, <2>a, <2>d DEF TypeOK, IoOk
  <2>f. Ownership'
    <3>1. c \notin Owned
      BY <1>3, <2>c DEF Ownership, Alive
    <3>2. ASSUME NEW d \in Conns PROVE Alive(d)' <=> d \in Owned'
      <4>1. CASE d = c
        BY <1>1, <2>a, <2>d, <3>1, <4>1 DEF Owned, Alive
      <4>2. CASE d # c
        <5>1. d \in Owned' <=> d \in Owned
          BY <1>1, <2>a, <2>d, <4>2 DEF Owned
        <5>2. Alive(d)' <=> Alive(d)
          BY <2>d, <4>2 DEF Alive
        <5> QED BY <5>1, <5>2 DEF Ownership
      <4> QED BY <4>1, <4>2
    <3> QED BY <3>2 DEF Ownership
  <2>g. Accepting'
    <3>1. ~ToRegister(c)'
      <4>1. \A i \in DOMAIN pending : pending[i] # Functor("register", c)
        BY <1>2, <1>3, <2>b DEF Accepting
      <4>2. \A i \in DOMAIN taken : i >= next' => taken[i] # Functor("register", c)
        <5>1. \A i \in DOMAIN taken : i >= next' => i # next
          BY <1>1, <1>2
        <5> QED BY <1>2, <1>3, <1>5, <2>b, <5>1 DEF Accepting
      <4> QED BY <1>1, <4>1, <4>2 DEF ToRegister
    <3>2. ASSUME NEW d \in Conns, d # c PROVE ToRegister(d)' <=> ToRegister(d)
      <4>1. taken[next] # Functor("register", d)
        BY <1>3, <2>b, <3>2
      <4> QED BY <1>1, <1>5, <1>6, <4>1 DEF ToRegister
    <3>3. \A d \in Conns : io'.conn[d].st = "accepted" <=> ToRegister(d)'
      <4>1. io'.conn[c].st # "accepted"
        BY <2>d
      <4> QED BY <2>d, <3>1, <3>2, <4>1 DEF Accepting
    <3>4. /\ \A d \in Conns : \A i, j \in DOMAIN pending' :
                pending'[i] = Functor("register", d) /\ pending'[j] = Functor("register", d) => i = j
          /\ \A d \in Conns : \A i, j \in DOMAIN taken' :
                i >= next' /\ j >= next' /\ taken'[i] = Functor("register", d)
                   /\ taken'[j] = Functor("register", d) => i = j
          /\ \A d \in Conns : \A i \in DOMAIN pending', j \in DOMAIN taken' :
                j >= next' => ~(pending'[i] = Functor("register", d) /\ taken'[j] = Functor("register", d))
      BY <1>1, <1>5 DEF Accepting
    <3> QED BY <3>3, <3>4 DEF Accepting, ToRegister
  <2>h. Dispatching'
    BY <1>1, <1>4 DEF Dispatching
  <2>i. Stages'
    <3>1. ASSUME stage' \in {"running", "flagged"}, NEW d \in Conns, io'.conn[d].st = "open"
          PROVE  d \in io'.map
      BY <1>1, <2>d, <3>1 DEF Stages
    <3>2. stage \notin {"running", "flagged"} => io'.map = {}
      BY <2>d DEF Stages
    <3> QED BY <1>1, <2>a, <3>1, <3>2 DEF Stages
  <2> QED BY <2>d, <2>e, <2>f, <2>g, <2>h, <2>i
<1>8. CASE f.kind # "register"
  <2>a. c \in OwnersIn(taken)
    BY <1>0, <1>2, <1>8, OwnersByIndex
  <2>b. io.conn[c].st \in {"open", "closed"}
    BY <1>3, <2>a DEF Ownership, Owned, Alive
  <2>c. \/ \E r \in OnResponse(io, c) : io' = r.io /\ tasks' = tasks \cup r.submits
        \/ \E r \in {Outcome(Shutdown(io, c), {})} : io' = r.io /\ tasks' = tasks \cup r.submits
    <3>1. CASE f.kind = "response"
      BY <1>0, <3>1 DEF RunFunctor
    <3>2. CASE f.kind = "shutdown"
      BY <1>0, <3>2 DEF RunFunctor
    <3> QED BY <1>3, <1>8, <3>1, <3>2
  <2> HIDE DEF f
  <2>d. HandledAll(io, OnResponse(io, c), c) /\ HandledAll(io, {Outcome(Shutdown(io, c), {})}, c)
    BY <1>3, <2>b, OnResponseHandled, ShutdownHandled, OutcomeHandled
  <2>e. PICK submits :
           /\ Handled(io, io', c) /\ tasks' = tasks \cup submits /\ submits \subseteq {c}
           /\ stage \notin {"running", "flagged", "cleared"} => submits = {}
    BY <2>c, <2>d DEF HandledAll
  <2>f. /\ IoOk(io') /\ \A d \in Conns : d # c => io'.conn[d] = io.conn[d]
        /\ \/ io'.conn[c].st = io.conn[c].st /\ io'.map = io.map
           \/ io.conn[c].st = "open" /\ io'.conn[c].st = "closed" /\ io'.map = io.map \ {c}
    BY <2>e DEF Handled
  <2>g. TypeOK'
    <3>1. tasks' \subseteq Conns
      BY <1>3, <2>e DEF TypeOK
    <3> QED BY <1>1, <1>2, <2>f, <3>1 DEF TypeOK, IoOk
  <2>h. Ownership'
    <3>1. ASSUME NEW d \in Conns PROVE Alive(d)' <=> d \in Owned'
      <4>1. CASE d = c
        <5>1. c \in Owned'
          BY <1>1, <2>a DEF Owned
        <5> QED BY <2>b, <2>f, <4>1, <5>1 DEF Alive
      <4>2. CASE d # c
        <5>1. d \in Owned' <=> d \in Owned
          BY <1>1, <2>e, <2>f, <4>2 DEF Owned
        <5>2. Alive(d)' <=> Alive(d)
          BY <2>f, <4>2 DEF Alive
        <5> QED BY <5>1, <5>2 DEF Ownership
      <4> QED BY <4>1, <4>2
    <3> QED BY <3>1 DEF Ownership
  <2>i. Accepting'
    <3>1. \A d \in Conns : io'.conn[d].st = "accepted" <=> io.conn[d].st = "accepted"
      BY <2>b, <2>f
    <3>2. \A d \in Conns : taken[next] # Functor("register", d)
      BY <1>3, <1>8 DEF f
    <3>3. \A d \in Conns : ToRegister(d)' <=> ToRegister(d)
      BY <1>1, <1>5, <1>6, <3>2 DEF ToRegister
    <3>4. \A d \in Conns : io'.conn[d].st = "accepted" <=> ToRegister(d)'
      BY <3>1, <3>3 DEF Accepting
    <3>5. /\ \A d \in Conns : \A i, j \in DOMAIN pending' :
                pending'[i] = Functor("register", d) /\ pending'[j] = Functor("register", d) => i = j
          /\ \A d \in Conns : \A i, j \in DOMAIN taken' :
                i >= next' /\ j >= next' /\ taken'[i] = Functor("register", d)
                   /\ taken'[j] = Functor("register", d) => i = j
          /\ \A d \in Conns : \A i \in DOMAIN pending', j \in DOMAIN taken' :
                j >= next' => ~(pending'[i] = Functor("register", d) /\ taken'[j] = Functor("register", d))
      BY <1>1, <1>5 DEF Accepting
    <3> QED BY <3>4, <3>5 DEF Accepting, ToRegister
  <2>j. Dispatching'
    BY <1>1, <1>4 DEF Dispatching
  <2>k. Stages'
    <3>1. ASSUME stage' \in {"running", "flagged"}, NEW d \in Conns, io'.conn[d].st = "open"
          PROVE  d \in io'.map
      BY <1>1, <2>f, <3>1 DEF Stages
    <3>2. stage \notin {"running", "flagged"} => io'.map = {}
      BY <2>f DEF Stages
    <3>3. quit => tasks' = {}
      BY <2>e DEF Stages
    <3> QED BY <1>1, <3>1, <3>2, <3>3 DEF Stages
  <2> QED BY <2>f, <2>g, <2>h, <2>i, <2>j, <2>k
<1> QED BY <1>7, <1>8

\* A reference to c goes, the others stay.
LEMMA ReleaseStep ==
    ASSUME Inv, NEW c \in Conns, NEW owners,
           owners = OwnersIn(pending') \cup OwnersIn(taken') \cup tasks' \cup mid' \cup held',
           \A d \in Conns : d # c => (d \in owners <=>
               d \in OwnersIn(pending) \cup OwnersIn(taken) \cup tasks \cup mid \cup held),
           io.conn[c].st \in {"open", "closed"},
           io' = Release(io, c, owners)
    PROVE  /\ IoOk(io') /\ io'.map = io.map /\ Ownership'
           /\ \A d \in Conns : io'.conn[d].st # io.conn[d].st => io'.conn[d].st = "dead" /\ d \notin io.map
           /\ \A d \in Conns : io'.conn[d].st = "accepted" <=> io.conn[d].st = "accepted"
<1> USE DEF Inv
<1>1. /\ IoOk(io') /\ io'.map = io.map
      /\ \A d \in Conns : d # c => io'.conn[d] = io.conn[d]
      /\ IF c \notin io.map \cup owners /\ io.conn[c].st \in {"open", "closed"}
         THEN io'.conn[c].st = "dead" ELSE io' = io
  BY ReleaseOk
<1>2. ASSUME NEW d \in Conns PROVE Alive(d)' <=> d \in Owned'
  <2>a. CASE d = c
    BY <1>1, <2>a DEF Owned, Alive
  <2>b. CASE d # c
    <3>1. d \in Owned' <=> d \in Owned
      BY <1>1, <2>b DEF Owned
    <3>2. Alive(d)' <=> Alive(d)
      BY <1>1, <2>b DEF Alive
    <3> QED BY <3>1, <3>2 DEF Ownership
  <2> QED BY <2>a, <2>b
<1>3. Ownership'
  BY <1>2 DEF Ownership
<1>4. \A d \in Conns : io'.conn[d].st # io.conn[d].st => io'.conn[d].st = "dead" /\ d \notin io.map
  BY <1>1
<1> QED BY <1>1, <1>3, <1>4

\* What the loop and Stop have to do with it.
LEMMA ReleaseKeeps ==
    ASSUME Inv, TypeOK', io'.map = io.map, UNCHANGED <<pc, active, quit, stage, pending, untold>>,
           \A d \in Conns : io'.conn[d].st # io.conn[d].st => io'.conn[d].st = "dead" /\ d \notin io.map,
           tasks' \subseteq tasks, mid' \subseteq mid, held' \subseteq held,
           UNCHANGED <<taken, next>> \/ pc \in {"run", "last_run"}
    PROVE  Dispatching' /\ Stages'
<1> USE DEF Inv
<1>1. Dispatching'
  <2>a. \A i \in DOMAIN active : active[i] \in Events
    BY DEF TypeOK
  <2>b. \A i \in DOMAIN active : active[i].conn # WakeupChannel => active[i].conn \in Conns
    BY <2>a DEF Events
  <2> QED BY <2>b DEF Dispatching
<1>2. \A d \in Conns : io'.conn[d].st = "open" => io.conn[d].st = "open"
  OBVIOUS
<1>3. Stages'
  BY <1>2 DEF Stages
<1> QED BY <1>1, <1>3

\* A functor is destroyed.
LEMMA DropFunctorStep ==
    ASSUME Inv, DropFunctor
    PROVE  Inv'
<1> USE DEF others, Inv
<1>1. /\ UNCHANGED <<pc, wake, next, active, pending, tasks, quit, mid, held, untold, stage>>
      /\ pc \in {"run", "last_run"} /\ next > Len(taken) /\ taken # <<>> /\ taken' = Tail(taken)
  BY DEF DropFunctor
<1>2. /\ Tail(taken) \in Seq(Functors) /\ Head(taken) \in Functors
      /\ DOMAIN taken = 1 .. Len(taken) /\ DOMAIN Tail(taken) = 1 .. Len(taken) - 1
      /\ Len(taken) \in Nat \ {0}
  BY <1>1, TailIndices DEF TypeOK
<1>3. PICK c \in Conns : c = Head(taken).conn
  BY <1>2, FunctorTypes
<1>4. OwnersIn(taken) = IF Head(taken).kind = "register" THEN OwnersIn(Tail(taken))
                        ELSE OwnersIn(Tail(taken)) \cup {c}
  BY <1>1, <1>3, OwnersOfTail DEF TypeOK
<1> DEFINE owners == OwnersIn(pending) \cup OwnersIn(taken') \cup tasks \cup mid \cup held
<1>5. io' = IF Head(taken).kind = "register" THEN io ELSE Release(io, c, owners)
  BY <1>3 DEF DropFunctor
<1>6. /\ IoOk(io') /\ io'.map = io.map /\ Ownership'
      /\ \A d \in Conns : io'.conn[d].st # io.conn[d].st => io'.conn[d].st = "dead" /\ d \notin io.map
      /\ \A d \in Conns : io'.conn[d].st = "accepted" <=> io.conn[d].st = "accepted"
  <2>a. CASE Head(taken).kind = "register"
    BY <1>1, <1>4, <1>5, <2>a DEF Ownership, Owned, Alive
  <2>b. CASE Head(taken).kind # "register"
    <3>1. io.conn[c].st \in {"open", "closed"}
      BY <1>4, <2>b DEF Ownership, Owned, Alive
    <3>2. owners = OwnersIn(pending') \cup OwnersIn(taken') \cup tasks' \cup mid' \cup held'
      BY <1>1
    <3>3. \A d \in Conns : d # c => (d \in owners <=>
             d \in OwnersIn(pending) \cup OwnersIn(taken) \cup tasks \cup mid \cup held)
      BY <1>1, <1>4
    <3>4. io' = Release(io, c, owners)
      BY <1>5, <2>b
    <3> HIDE DEF owners
    <3> QED BY <3>1, <3>2, <3>3, <3>4, ReleaseStep
  <2> QED BY <2>a, <2>b
<1>7. TypeOK'
  BY <1>1, <1>2, <1>6 DEF TypeOK, IoOk
<1>8. Accepting'
  <2>a. (\A i \in DOMAIN taken : ~(i >= next)) /\ \A i \in DOMAIN taken' : ~(i >= next')
    BY <1>1, <1>2 DEF TypeOK
  <2>b. \A d \in Conns : ToRegister(d)' <=> ToRegister(d)
    BY <1>1, <2>a DEF ToRegister
  <2> QED BY <1>1, <1>6, <2>a, <2>b DEF Accepting
<1>9. Dispatching' /\ Stages'
  BY <1>1, <1>6, <1>7, ReleaseKeeps
<1> QED BY <1>6, <1>7, <1>8, <1>9

\* The second half of QueueInLoop, with which a worker's reference goes.
LEMMA WakeupStep ==
    ASSUME Inv, NEW t \in Conns \cup {Main}, Wakeup(t)
    PROVE  Inv'
<1> USE DEF Inv
<1>1. /\ UNCHANGED <<pc, taken, next, active, pending, tasks, quit, held, untold, stage>>
      /\ t \in mid /\ mid' = mid \ {t} /\ wake' = TRUE
  BY DEF Wakeup
<1>2. /\ IoOk(io') /\ io'.map = io.map /\ Ownership'
      /\ \A d \in Conns : io'.conn[d].st # io.conn[d].st => io'.conn[d].st = "dead" /\ d \notin io.map
      /\ \A d \in Conns : io'.conn[d].st = "accepted" <=> io.conn[d].st = "accepted"
  <2>a. CASE t = Main
    <3>1. io' = io
      BY <2>a DEF Wakeup
    <3>2. \A d \in Conns : d # Main
      BY EventLoopAssumption DEF Main
    <3>3. \A d \in Conns : d \in Owned' <=> d \in Owned
      BY <1>1, <2>a, <3>1, <3>2 DEF Owned
    <3> QED BY <3>1, <3>3 DEF Ownership, Alive
  <2>b. CASE t # Main
    <3> DEFINE owners == OwnersIn(pending) \cup OwnersIn(taken) \cup tasks \cup mid' \cup held
    <3>1. t \in Conns /\ io' = Release(io, t, owners)
      BY <2>b DEF Wakeup
    <3>2. io.conn[t].st \in {"open", "closed"}
      BY <1>1, <3>1 DEF Ownership, Owned, Alive
    <3>3. owners = OwnersIn(pending') \cup OwnersIn(taken') \cup tasks' \cup mid' \cup held'
      BY <1>1
    <3>4. \A d \in Conns : d # t => (d \in owners <=>
             d \in OwnersIn(pending) \cup OwnersIn(taken) \cup tasks \cup mid \cup held)
      BY <1>1
    <3> HIDE DEF owners
    <3> QED BY <3>1, <3>2, <3>3, <3>4, ReleaseStep
  <2> QED BY <2>a, <2>b
<1>3. TypeOK'
  BY <1>1, <1>2 DEF TypeOK, IoOk
<1>4. Accepting'
  BY <1>1, <1>2, AcceptingKept
<1>5. Dispatching' /\ Stages'
  BY <1>1, <1>2, <1>3, ReleaseKeeps
<1> QED BY <1>2, <1>3, <1>4, <1>5

\* A reference of Stop's vector goes.
LEMMA ReleaseHeldStep ==
    ASSUME Inv, NEW c \in Conns, ReleaseHeld(c)
    PROVE  Inv'
<1> USE DEF Inv, loop
<1>1. /\ UNCHANGED <<pc, wake, taken, next, active, pending, tasks, quit, mid, untold, stage>>
      /\ c \in held /\ untold = {} /\ held' = held \ {c}
  BY DEF ReleaseHeld
<1> DEFINE owners == OwnersIn(pending) \cup OwnersIn(taken) \cup tasks \cup mid \cup held'
<1>2. io' = Release(io, c, owners)
  BY DEF ReleaseHeld
<1>3. io.conn[c].st \in {"open", "closed"}
  BY <1>1 DEF Ownership, Owned, Alive
<1>4. /\ owners = OwnersIn(pending') \cup OwnersIn(taken') \cup tasks' \cup mid' \cup held'
      /\ \A d \in Conns : d # c => (d \in owners <=>
            d \in OwnersIn(pending) \cup OwnersIn(taken) \cup tasks \cup mid \cup held)
  BY <1>1
<1> HIDE DEF owners
<1>5. /\ IoOk(io') /\ io'.map = io.map /\ Ownership'
      /\ \A d \in Conns : io'.conn[d].st # io.conn[d].st => io'.conn[d].st = "dead" /\ d \notin io.map
      /\ \A d \in Conns : io'.conn[d].st = "accepted" <=> io.conn[d].st = "accepted"
  BY <1>2, <1>3, <1>4, ReleaseStep
<1>6. TypeOK'
  BY <1>1, <1>5 DEF TypeOK, IoOk
<1>7. Accepting'
  BY <1>1, <1>5, AcceptingKept
<1>8. Dispatching' /\ Stages'
  BY <1>1, <1>5, <1>6, ReleaseKeeps
<1> QED BY <1>5, <1>6, <1>7, <1>8

\* A functor that registers nothing is queued.
LEMMA AcceptingQueued ==
    ASSUME Inv, NEW c \in Conns, NEW k \in {"response", "shutdown"},
           pending' = Append(pending, Functor(k, c)), UNCHANGED <<io, taken, next>>
    PROVE  Accepting'
<1> USE DEF Inv
<1>1. /\ DOMAIN pending' = 1 .. Len(pending) + 1 /\ DOMAIN pending = 1 .. Len(pending)
      /\ \A i \in DOMAIN pending : pending'[i] = pending[i]
      /\ pending'[Len(pending) + 1] = Functor(k, c) /\ Len(pending) \in Nat
  BY FunctorTypes DEF TypeOK
<1>2. \A d \in Conns : Functor(k, c) # Functor("register", d)
  BY FunctorTypes
<1>3. \A i \in DOMAIN pending' : i \in DOMAIN pending \/ i = Len(pending) + 1
  BY <1>1
<1>4. \A d \in Conns, i \in DOMAIN pending' :
         pending'[i] = Functor("register", d) => i \in DOMAIN pending /\ pending[i] = Functor("register", d)
  BY <1>1, <1>2, <1>3
<1>5. \A d \in Conns, i \in DOMAIN pending :
         pending[i] = Functor("register", d) => i \in DOMAIN pending' /\ pending'[i] = Functor("register", d)
  BY <1>1
<1>6. \A d \in Conns : ToRegister(d)' <=> ToRegister(d)
  BY <1>4, <1>5 DEF ToRegister
<1> QED BY <1>4, <1>6 DEF Accepting

\* A worker's reference to its connection passes to the functor it queues.
LEMMA FinishTaskStep ==
    ASSUME Inv, NEW c \in Conns, FinishTask(c)
    PROVE  Inv'
<1> USE DEF Inv, loop
<1>1. /\ UNCHANGED <<pc, wake, taken, next, active, io, quit, held, untold, stage>>
      /\ c \in tasks /\ tasks' = tasks \ {c} /\ mid' = mid \cup {c}
      /\ pending' = Append(pending, Functor("response", c))
  BY DEF FinishTask, QueueInLoop
<1>2. pending' \in Seq(Functors) /\ OwnersIn(pending') = OwnersIn(pending) \cup {c}
  BY <1>1, FunctorTypes, OwnersAppended DEF TypeOK
<1>3. TypeOK'
  BY <1>1, <1>2 DEF TypeOK
<1>4. Ownership'
  BY <1>1, <1>2 DEF Ownership, Owned, Alive
<1>5. Accepting'
  BY <1>1, AcceptingQueued
<1>6. Dispatching'
  BY <1>1 DEF Dispatching
<1>7. Stages'
  BY <1>1 DEF Stages
<1> QED BY <1>1, <1>3, <1>4, <1>5, <1>6, <1>7

\* Stop queues a shutdown for a connection of its vector.
LEMMA StopTellStep ==
    ASSUME Inv, NEW c \in Conns, StopTell(c)
    PROVE  Inv'
<1> USE DEF Inv, loop
<1>1. /\ UNCHANGED <<pc, wake, taken, next, active, io, tasks, quit, held, stage>>
      /\ c \in untold /\ untold' = untold \ {c} /\ mid' = mid \cup {Main}
      /\ pending' = Append(pending, Functor("shutdown", c))
  BY DEF StopTell, QueueInLoop
<1>2. pending' \in Seq(Functors) /\ OwnersIn(pending') = OwnersIn(pending) \cup {c}
  BY <1>1, FunctorTypes, OwnersAppended DEF TypeOK
<1>3. TypeOK'
  BY <1>1, <1>2 DEF TypeOK
<1>4. Ownership'
  <2>a. \A d \in Conns : d # Main
    BY EventLoopAssumption DEF Main
  <2>b. \A d \in Conns : d \in Owned' <=> d \in Owned
    BY <1>1, <1>2, <2>a DEF Owned, TypeOK
  <2> QED BY <1>1, <2>b DEF Ownership, Alive
<1>5. Accepting'
  BY <1>1, AcceptingQueued
<1>6. Dispatching'
  BY <1>1 DEF Dispatching
<1>7. Stages'
  BY <1>1 DEF Stages
<1> QED BY <1>1, <1>3, <1>4, <1>5, <1>6, <1>7

\* The references pass from the map to Stop's vector.
LEMMA StopClearStep ==
    ASSUME Inv, StopClear
    PROVE  Inv'
<1> USE DEF Inv, loop
<1>1. /\ UNCHANGED <<pc, wake, taken, next, active, pending, tasks, quit, mid>>
      /\ stage = "flagged" /\ stage' = "cleared" /\ held' = io.map /\ untold' = io.map
      /\ io' = [io EXCEPT !.map = {}]
  BY DEF StopClear
<1>2. IoOk(io') /\ io'.map = {} /\ io'.conn = io.conn
  BY <1>1, ClearOk
<1>3. TypeOK'
  BY <1>1, <1>2 DEF TypeOK, IoOk, IoStates
<1>4. Ownership'
  BY <1>1, <1>2 DEF Ownership, Owned, Alive, Stages
<1>5. Accepting'
  BY <1>1, <1>2, AcceptingKept
<1>6. Dispatching'
  BY <1>1, <1>2 DEF Dispatching
<1>7. Stages'
  BY <1>1, <1>2 DEF Stages
<1> QED BY <1>2, <1>3, <1>4, <1>5, <1>6, <1>7

\* An accepted connection has its one register functor.
LEMMA HandleAcceptStep ==
    ASSUME Inv, NEW c \in Conns, NEW fd \in Fds, HandleAccept(c, fd)
    PROVE  Inv'
<1> USE DEF Inv, loop
<1> DEFINE f == Functor("register", c)
<1>1. /\ UNCHANGED <<pc, wake, taken, next, active, tasks, quit, held, untold, stage>>
      /\ stage = "running" /\ mid' = mid \cup {Main} /\ pending' = Append(pending, f)
      /\ io.conn[c].st = "none" /\ fd \notin OpenFds(io)
      /\ io' = [io EXCEPT !.conn[c].st = "accepted", !.conn[c].fd = fd]
  BY DEF HandleAccept, QueueInLoop
<1>2. /\ IoOk(io') /\ io'.map = io.map /\ io'.conn[c].st = "accepted"
      /\ \A d \in Conns : d # c => io'.conn[d] = io.conn[d]
  BY <1>1, AcceptOk
<1>3. pending' \in Seq(Functors) /\ OwnersIn(pending') = OwnersIn(pending)
  BY <1>1, FunctorTypes, OwnersAppended DEF TypeOK
<1>4. TypeOK'
  BY <1>1, <1>2, <1>3 DEF TypeOK, IoOk
<1>5. Ownership'
  <2>a. \A d \in Conns : d # Main
    BY EventLoopAssumption DEF Main
  <2>b. \A d \in Conns : d \in Owned' <=> d \in Owned
    BY <1>1, <1>2, <1>3, <2>a DEF Owned
  <2>c. \A d \in Conns : Alive(d)' <=> Alive(d)
    BY <1>1, <1>2 DEF Alive
  <2> QED BY <2>b, <2>c DEF Ownership
<1>6. Accepting'
  <2>a. /\ DOMAIN pending' = 1 .. Len(pending) + 1 /\ DOMAIN pending = 1 .. Len(pending)
        /\ \A i \in DOMAIN pending : pending'[i] = pending[i]
        /\ pending'[Len(pending) + 1] = f /\ Len(pending) \in Nat
    BY <1>1, FunctorTypes DEF TypeOK
  <2>b. \A i \in DOMAIN pending' : i \in DOMAIN pending \/ i = Len(pending) + 1
    BY <2>a
  <2>c. \A d \in Conns : d # c => f # Functor("register", d)
    BY FunctorTypes
  <2>d. ~ToRegister(c)
    BY <1>1 DEF Accepting
  <2>e. /\ \A i \in DOMAIN pending : pending[i] # f
        /\ \A i \in DOMAIN taken : i >= next => taken[i] # f
    BY <2>d DEF ToRegister
  <2>f. \A i \in DOMAIN pending' : pending'[i] = f => i = Len(pending) + 1
    BY <2>a, <2>b, <2>e
  <2>g. \A d \in Conns, i \in DOMAIN pending' :
           d # c /\ pending'[i] = Functor("register", d)
              => i \in DOMAIN pending /\ pending[i] = Functor("register", d)
    BY <2>a, <2>b, <2>c
  <2>h. \A i \in DOMAIN pending : i \in DOMAIN pending' /\ pending'[i] = pending[i]
    BY <2>a
  <2>i. ToRegister(c)'
    <3>1. Len(pending) + 1 \in DOMAIN pending'
      BY <2>a
    <3> QED BY <2>a, <3>1 DEF ToRegister
  <2>j. \A d \in Conns : d # c => (ToRegister(d)' <=> ToRegister(d))
    BY <1>1, <2>g, <2>h DEF ToRegister
  <2>k. \A d \in Conns : io'.conn[d].st = "accepted" <=> ToRegister(d)'
    BY <1>2, <2>i, <2>j DEF Accepting
  <2>l. \A d \in Conns : \A i, j \in DOMAIN pending' :
            pending'[i] = Functor("register", d) /\ pending'[j] = Functor("register", d) => i = j
    BY <2>f, <2>g DEF Accepting
  <2>m. \A d \in Conns : \A i \in DOMAIN pending', j \in DOMAIN taken' :
            j >= next' => ~(pending'[i] = Functor("register", d) /\ taken'[j] = Functor("register", d))
    <3>1. ASSUME NEW d \in Conns, NEW i \in DOMAIN pending', NEW j \in DOMAIN taken', j >= next',
                 pending'[i] = Functor("register", d), taken'[j] = Functor("register", d)
          PROVE  FALSE
      <4>1. CASE d = c
        BY <1>1, <2>e, <3>1, <4>1
      <4>2. CASE d # c
        BY <1>1, <2>g, <3>1, <4>2 DEF Accepting
      <4> QED BY <4>1, <4>2
    <3> QED BY <3>1
  <2>n. \A d \in Conns : \A i, j \in DOMAIN taken' :
            i >= next' /\ j >= next' /\ taken'[i] = Functor("register", d)
               /\ taken'[j] = Functor("register", d) => i = j
    BY <1>1 DEF Accepting
  <2> HIDE DEF f
  <2> QED BY <2>k, <2>l, <2>m, <2>n DEF Accepting, ToRegister
<1>7. Dispatching'
  <2>a. \A i \in DOMAIN active : active[i] \in Events
    BY DEF TypeOK
  <2>b. \A i \in DOMAIN active : active[i].conn # WakeupChannel =>
           active[i].conn \in Conns /\ active[i].conn # c
    BY <1>1, <2>a DEF Events, Dispatching
  <2> QED BY <1>1, <1>2, <2>b DEF Dispatching
<1>8. Stages'
  <2>a. \A d \in Conns : io'.conn[d].st = "open" => io.conn[d].st = "open"
    BY <1>2
  <2>b. pc \notin {"last_run", "ended"}
    BY <1>1 DEF Stages
  <2> QED BY <1>1, <1>2, <2>a, <2>b DEF Stages
<1> QED BY <1>2, <1>4, <1>5, <1>6, <1>7, <1>8

\* Every step keeps the invariant.
LEMMA NextInv == Inv /\ [Next]_vars => Inv'
<1> SUFFICES ASSUME Inv, [Next]_vars PROVE Inv'
  OBVIOUS
<1>1. CASE CheckQuit \/ PollInterrupted \/ PollFails \/ FunctorsDone \/ StopFlag \/ Quit \/ Join
           \/ UNCHANGED vars
  BY <1>1, QuietSteps
<1>2. CASE Swap
  BY <1>2, SwapStep
<1>3. CASE Poll
  BY <1>3, PollStep
<1>4. CASE DispatchWakeup
  BY <1>4, DispatchWakeupStep
<1>5. CASE Dispatch
  BY <1>5, DispatchStep
<1>6. CASE RunFunctor
  BY <1>6, RunFunctorStep
<1>7. CASE DropFunctor
  BY <1>7, DropFunctorStep
<1>8. ASSUME NEW t \in Conns \cup {Main}, Wakeup(t) PROVE Inv'
  BY <1>8, WakeupStep
<1>9. ASSUME NEW c \in Conns, NEW fd \in Fds, HandleAccept(c, fd) PROVE Inv'
  BY <1>9, HandleAcceptStep
<1>10. ASSUME NEW c \in Conns, FinishTask(c) PROVE Inv'
  BY <1>10, FinishTaskStep
<1>11. ASSUME NEW c \in Conns, StopTell(c) PROVE Inv'
  BY <1>11, StopTellStep
<1>12. ASSUME NEW c \in Conns, ReleaseHeld(c) PROVE Inv'
  BY <1>12, ReleaseHeldStep
<1>13. CASE StopClear
  BY <1>13, StopClearStep
<1> QED BY <1>1, <1>2, <1>3, <1>4, <1>5, <1>6, <1>7, <1>8, <1>9, <1>10, <1>11, <1>12, <1>13
        DEF Next, LoopStep

\* The invariant: poller, references, functors, events and the stages of Stop agree
\* in every state the loop, the workers and the main loop can reach.
THEOREM InvHolds == Spec => []Inv
BY InitInv, NextInv, PTL DEF Spec

----------------------------------------
(* The results *)

\* PollerMatches: registered_fds_ and the kernel's epoll set agree, at every moment,
\* with what the channels of the open connections wait for, however EPOLL_CTL_ADD,
\* _MOD and _DEL, close and the reuse of descriptor numbers fall.
THEOREM PollerAgrees == Spec => []PollerMatches
<1>1. Inv => PollerMatches
  <2> SUFFICES ASSUME Inv PROVE PollerMatches
    OBVIOUS
  <2>a. io.registered = {fd \in Fds : io.kernel[fd] # {}}
    BY DEF Inv, IoOk
  <2>b. ASSUME NEW c \in Conns, io.conn[c].st = "open"
        PROVE  io.kernel[io.conn[c].fd] = Wanted(io.conn[c], c)
    BY <2>b DEF Inv, IoOk, ChannelOk
  <2>c. \A e \in Entries : io.conn[e.conn].st = "open"
    BY EntryIsWanted DEF Inv
  <2> QED BY <2>a, <2>b, <2>c DEF PollerMatches, Wanted
<1> QED BY <1>1, InvHolds, PTL

\* DispatchedAlive: until Stop clears the map, no functor, handler or worker destroys
\* a connection whose event the loop has yet to handle.
THEOREM NothingDeadDispatched == Spec => []DispatchedAlive
<1>1. Inv => DispatchedAlive
  <2> SUFFICES ASSUME Inv, stage \in {"running", "flagged"}, NEW i \in DOMAIN active,
                      active[i].conn # WakeupChannel
               PROVE  io.conn[active[i].conn].st # "dead"
    BY DEF DispatchedAlive
  <2>a. active[i].conn \in io.map /\ io.map \subseteq Conns
    BY DEF Inv, Dispatching, TypeOK, IoStates
  <2> QED BY <2>a DEF Inv, IoOk, ChannelOk
<1> QED BY <1>1, InvHolds, PTL

\* JoinedClean: once Stop has joined the loop's thread no functor is left, no accepted
\* descriptor is left open, and every connection is destroyed but those that Stop's own
\* vector still holds.
THEOREM JoinLeavesNothing == Spec => []JoinedClean
<1>1. Inv => JoinedClean
  <2> SUFFICES ASSUME Inv, stage = "stopped"
               PROVE  /\ pending = <<>> /\ taken = <<>>
                      /\ \A c \in Conns : io.conn[c].st \in {"open", "closed"} => c \in held
                      /\ \A c \in Conns : io.conn[c].st # "accepted"
    BY DEF JoinedClean
  <2>a. /\ pending = <<>> /\ taken = <<>> /\ io.map = {} /\ tasks = {} /\ mid = {}
    BY DEF Inv, Stages
  <2>b. \A c \in Conns : io.conn[c].st \in {"open", "closed"} => c \in held
    BY <2>a, NoOwners DEF Inv, Ownership, Owned, Alive
  <2>c. \A c \in Conns : ~ToRegister(c)
    BY <2>a DEF ToRegister
  <2>d. \A c \in Conns : io.conn[c].st # "accepted"
    BY <2>c DEF Inv, Accepting
  <2> QED BY <2>a, <2>b, <2>d
<1> QED BY <1>1, InvHolds, PTL

----------------------------------------
(* Wake-ups *)

\* Outside the dispatching of events, a queued functor has its wake-up written or about
\* to be written, and so has a Quit that the loop has not seen before it polls.
WakeInv ==
    /\ pc # "dispatch" /\ pending # <<>> => wake \/ mid # {}
    /\ pc = "poll" /\ quit => wake \/ mid # {}

\* NoLostWakeup: when the loop is about to block in poll, functors queued by
\* QueueInLoop, and the flag set by Quit, have a byte in the wakeup pipe or a thread
\* that has yet to call Wakeup, wherever the queueing fell between the loop's steps.
THEOREM WakeupsArrive == Spec => []NoLostWakeup
<1>1. Init => WakeInv
  BY DEF Init, WakeInv
<1>2. WakeInv /\ [Next]_vars => WakeInv'
  <2> SUFFICES ASSUME WakeInv, [Next]_vars PROVE WakeInv'
    OBVIOUS
  <2> USE DEF WakeInv, loop, others
  <2>a. CASE CheckQuit
    BY <2>a DEF CheckQuit
  <2>b. CASE Poll \/ PollInterrupted \/ PollFails
    BY <2>b DEF Poll, PollInterrupted, PollFails
  <2>c. CASE DispatchWakeup \/ Dispatch
    BY <2>c DEF DispatchWakeup, Dispatch
  <2>d. CASE Swap
    BY <2>d DEF Swap
  <2>e. CASE RunFunctor \/ DropFunctor \/ FunctorsDone
    BY <2>e DEF RunFunctor, DropFunctor, FunctorsDone
  <2>f. ASSUME NEW t \in Conns \cup {Main}, Wakeup(t) PROVE WakeInv'
    BY <2>f DEF Wakeup
  <2>g. ASSUME NEW c \in Conns, NEW fd \in Fds, HandleAccept(c, fd) PROVE WakeInv'
    BY <2>g DEF HandleAccept, QueueInLoop
  <2>h. ASSUME NEW c \in Conns, FinishTask(c) \/ StopTell(c) \/ ReleaseHeld(c) PROVE WakeInv'
    BY <2>h DEF FinishTask, StopTell, ReleaseHeld, QueueInLoop
  <2>i. CASE StopFlag \/ StopClear \/ Quit \/ Join
    BY <2>i DEF StopFlag, StopClear, Quit, Join
  <2>j. CASE UNCHANGED vars
    BY <2>j DEF vars
  <2> QED BY <2>a, <2>b, <2>c, <2>d, <2>e, <2>f, <2>g, <2>h, <2>i, <2>j DEF Next, LoopStep
<1>3. WakeInv => NoLostWakeup
  BY DEF WakeInv, NoLostWakeup
<1> QED BY <1>1, <1>2, <1>3, PTL DEF Spec
================================================================================
