-------------------------------- MODULE Consumer ---------------------------------
(***************************************************************************)
(* The client's Consumer: members of one group, which reads one topic at a *)
(* time.  Each consumer has an application thread, which calls Subscribe,  *)
(* Poll, Seek, Nack, CommitSync and Close one after the other, and a       *)
(* heartbeat thread.  The threads share the members of the object under    *)
(* mutex_, which neither holds during a round trip, so everything read     *)
(* before a request may be stale when its response is applied.             *)
(*                                                                         *)
(* The other end is the coordinator of GroupCoordinator (its operators are *)
(* used as they are; time is left out, so a member may expire whenever it  *)
(* likes), the logs of the topics and their retry topics, and the          *)
(* committed offsets.  A request is executed and answered in one step; it may fail   *)
(* on the way there or on the way back.                                    *)
(***************************************************************************)
EXTENDS Integers, FiniteSets

CONSTANTS
    Consumers,
    Topics,
    NumPartitions,   \* partitions of a topic
    Sources,         \* {"main"} for an internal topic, {"main", "retry"} otherwise
    Losable,         \* requests whose round trip may fail
    MaxRecords,      \* MaxRecords[l]: bound on the records of log l
    MaxMembers,      \* bound on the member ids a group hands out
    MaxIncarnation,  \* bound on how often the group is created
    MaxFaults,       \* bound on failed round trips, expiries and broker restarts
    MaxSeeks,        \* bound on the calls of Seek
    MaxSwitches      \* bound on changes of topic

Requests == {"join", "sync", "restore", "fetch", "commit", "leave", "heartbeat"}

Partitions == 0 .. NumPartitions - 1
Logs == Topics \X Partitions \X Sources
LogsOf(topic, parts) == {topic} \X parts \X Sources
RetryLog(l) == <<l[1], l[2], "retry">>

ASSUME ConsumerAssumption ==
    /\ NumPartitions \in Nat \ {0}
    /\ Sources \in {{"main"}, {"main", "retry"}}
    /\ Losable \subseteq Requests
    /\ MaxRecords \in [Logs -> Nat]
    /\ {MaxMembers, MaxIncarnation, MaxFaults, MaxSeeks, MaxSwitches} \subseteq Nat

VARIABLES
    group,         \* the coordinator's GroupState
    incarnation,   \* ghost: how many times the group has been created
    log_end,       \* log_end[l]: records of log l
    visible,       \* visible[l]: those of them that a fetch can see
    committed,     \* committed[l]: the group's committed offset, 0 when there is none
    member,        \* member[c]: member_id_, generation_id_, topic_, subscribed_, closed_, ...
    position,      \* position[c]: assignments_, next offset of each assigned log
    call,          \* call[c]: what the application thread is doing
    heartbeat,     \* heartbeat[c]: what the heartbeat thread is doing
    delivered,     \* ghost: records Poll has returned, or Seek has passed over
    faults,        \* failures so far
    seeks,         \* calls of Seek so far
    switches       \* changes of topic so far

logs == <<log_end, visible>>
broker == <<group, incarnation, logs, committed>>
bounds == <<faults, seeks, switches>>
vars == <<broker, member, position, call, heartbeat, delivered, bounds>>

GC == INSTANCE GroupCoordinator WITH
        Clients <- Consumers, PartitionCount <- [t \in Topics |-> NumPartitions],
        IdRank <- [m \in 1 .. MaxMembers |-> m], SessionTimeout <- 0,
        MaxGeneration <- 2 * MaxMembers + 1, MaxTime <- 0,
        clock <- 0, joins <- <<>>, scan <- -1, token <- <<>>, owned <- <<>>

NoMember == 0
NoToken == [member |-> NoMember, generation |-> 0, incarnation |-> 0]
Idle == [op |-> "idle"]
Waiting == [op |-> "waiting"]
Off == [op |-> "off"]

\* A retry topic comes into being with its first record.
NoTopic(l) == l[3] = "retry" /\ \A p \in Partitions : log_end[<<l[1], p, "retry">>] = 0

\* The next log of a loop over assignments and sources.
First(todo) ==
    CHOOSE l \in todo : \A k \in todo :
        \/ l[2] < k[2]
        \/ l[2] = k[2] /\ (l[3] = "main" \/ k[3] = "retry")

--------------------------------------------------------------------------------
(* Round trips *)

\* A round trip of this kind fails.
RoundTripFails(kind) ==
    /\ kind \in Losable
    /\ faults < MaxFaults
    /\ faults' = faults + 1
    /\ UNCHANGED <<seeks, switches>>

\* The coordinator's checks of SyncGroup and Heartbeat, and their answer.
Answer(t) ==
    IF t.generation <= 0 THEN "IllegalGeneration"
    ELSE IF t.member \notin group.members THEN "UnknownMember"
    ELSE IF t.generation # group.generation THEN "IllegalGeneration"
    ELSE "None"

\* The coordinator executes a JoinGroup request; a group reads one topic only.
ExecuteJoin(m, topic) ==
    LET g == GC!GroupFor(topic)
    IN  /\ m = NoMember => g.next_seq \in 1 .. MaxMembers
        /\ group = GC!NoGroup => incarnation < MaxIncarnation
        /\ incarnation' = IF group = GC!NoGroup THEN incarnation + 1 ELSE incarnation
        /\ group' = IF g.topic # topic THEN g
                    ELSE IF m = NoMember THEN GC!Rebalance(GC!WithMember(g, g.next_seq, 0))
                    ELSE IF m \in g.members /\ g.generation = 0 THEN GC!Rebalance(g)
                    ELSE g
        /\ UNCHANGED <<logs, committed>>

\* The coordinator's group after LeaveGroup of member m.
AfterLeave(m) ==
    LET g == GC!Without(group, {m})
    IN  IF m \notin group.members THEN group
        ELSE IF g.members = {} THEN GC!NoGroup
        ELSE GC!Rebalance(g)

--------------------------------------------------------------------------------
(* Subscribe and JoinAndSync *)

\* topic_ is replaced and what belonged to the old subscription forgotten.
TakeTopic(m, topic) ==
    [m EXCEPT !.topic = topic, !.subscribed = FALSE, !.needs_rejoin = FALSE]

\* Subscribe(topic): a member of another topic has to leave first, and stops its
\* heartbeat thread for that; otherwise the membership is offered again.
Subscribe(c, topic) ==
    LET m == member[c]
        leaves == topic # m.topic /\ m.token.member # NoMember
    IN  /\ call[c] = Idle
        /\ ~m.closed
        /\ IF m.topic \in {topic, ""} THEN UNCHANGED switches
           ELSE switches < MaxSwitches /\ switches' = switches + 1
        /\ IF leaves
           THEN /\ member' = [member EXCEPT ![c].stop = TRUE]
                /\ call' = [call EXCEPT ![c] = [op |-> "switch", topic |-> topic,
                                                token |-> m.token]]
                /\ UNCHANGED position
           ELSE /\ member' = [member EXCEPT ![c] = TakeTopic(m, topic)]
                /\ call' = [call EXCEPT ![c] = [op |-> "begin", by |-> "Subscribe"]]
                /\ position' = [position EXCEPT ![c] = <<>>]
        /\ UNCHANGED <<broker, heartbeat, delivered, faults, seeks>>

\* Once the heartbeat thread has ended, LeaveGroup is sent with the id copied
\* before; being unknown is as good as having left.
SwitchTopic(c) ==
    /\ call[c].op = "switch"
    /\ heartbeat[c] = Off
    /\ group' = AfterLeave(call[c].token.member)
    /\ member' = [member EXCEPT ![c] = [TakeTopic(@, call[c].topic) EXCEPT !.token = NoToken]]
    /\ position' = [position EXCEPT ![c] = <<>>]
    /\ call' = [call EXCEPT ![c] = [op |-> "begin", by |-> "Subscribe"]]
    /\ UNCHANGED <<incarnation, logs, committed, heartbeat, delivered, bounds>>

\* StartHeartbeat
Started(c) == heartbeat' = [heartbeat EXCEPT ![c] = IF @ = Off THEN Waiting ELSE @]

\* The round trip fails, before or after the member was removed: Subscribe fails,
\* the old subscription stays and the heartbeat thread is started again.
SwitchFails(c) ==
    /\ call[c].op = "switch"
    /\ heartbeat[c] = Off
    /\ RoundTripFails("leave")
    /\ group' \in {group, AfterLeave(call[c].token.member)}
    /\ Started(c)
    /\ member' = [member EXCEPT ![c].stop = FALSE]
    /\ call' = [call EXCEPT ![c] = Idle]
    /\ UNCHANGED <<incarnation, logs, committed, position, delivered>>

\* JoinAndSync copies the member id and the topic.
JoinAndSync(c) ==
    /\ call[c].op = "begin"
    /\ call' = [call EXCEPT ![c] = [op |-> "join", by |-> @.by, token |-> member[c].token]]
    /\ UNCHANGED <<broker, member, position, heartbeat, delivered, bounds>>

\* SendJoinGroup.  An unknown member is sent again without its id; a group that
\* reads another topic refuses.
SendJoinGroup(c) ==
    LET t == call[c].token
        m == IF t.member = NoMember THEN group'.next_seq - 1 ELSE t.member
        granted == [member |-> m, generation |-> group'.generation,
                    incarnation |-> IF t.member = NoMember THEN incarnation'
                                    ELSE t.incarnation]
    IN  /\ call[c].op = "join"
        /\ ExecuteJoin(t.member, member[c].topic)
        /\ call' = [call EXCEPT ![c] =
                      IF group'.topic # member[c].topic THEN Idle
                      ELSE IF m \in group'.members
                      THEN [@ EXCEPT !.op = "sync", !.token = granted]
                      ELSE [@ EXCEPT !.token = NoToken]]
        /\ UNCHANGED <<member, position, heartbeat, delivered, bounds>>

\* SendSyncGroup; when it is refused JoinAndSync fails and forgets the member id
\* that JoinGroup returned.
SendSyncGroup(c) ==
    LET t == call[c].token
    IN  /\ call[c].op = "sync"
        /\ call' = [call EXCEPT ![c] =
                      IF Answer(t) = "None"
                      THEN [op |-> "restore", by |-> @.by, token |-> t, pos |-> <<>>,
                            todo |-> LogsOf(group.topic, group.assignment[t.member])]
                      ELSE Idle]
        /\ UNCHANGED <<broker, member, position, heartbeat, delivered, bounds>>

\* FetchCommittedOffset of the next log: without a committed offset, or without a
\* retry topic, it starts at 0.
FetchCommittedOffset(c) ==
    LET l == First(call[c].todo)
        old == call[c].pos
    IN  /\ call[c].op = "restore"
        /\ call[c].todo # {}
        /\ call' = [call EXCEPT ![c].todo = @ \ {l},
                                ![c].pos = [k \in DOMAIN old \cup {l} |->
                                              IF k = l THEN committed[l] ELSE old[k]]]
        /\ UNCHANGED <<broker, member, position, heartbeat, delivered, bounds>>

\* JoinAndSync takes over what it was given.  Subscribe then starts the heartbeat
\* thread; Poll goes on to fetch.
Install(c) ==
    /\ call[c].op = "restore" /\ call[c].todo = {}
    /\ member' = [member EXCEPT ![c].token = call[c].token, ![c].subscribed = TRUE,
                                ![c].needs_rejoin = FALSE,
                                ![c].stop = @ /\ call[c].by # "Subscribe"]
    /\ position' = [position EXCEPT ![c] = call[c].pos]
    /\ IF call[c].by = "Subscribe"
       THEN /\ Started(c)
            /\ call' = [call EXCEPT ![c] = Idle]
       ELSE /\ call' = [call EXCEPT ![c] = [op |-> "snapshot"]]
            /\ UNCHANGED heartbeat
    /\ UNCHANGED <<broker, delivered, bounds>>

\* A round trip of JoinAndSync fails: the request was not executed, or its
\* response is lost.  A member the coordinator registered then belongs to nobody.
JoinAndSyncFails(c) ==
    /\ call[c].op \in {"join", "sync", "restore"}
    /\ call[c].op = "restore" => call[c].todo # {}
    /\ RoundTripFails(call[c].op)
    /\ \/ call[c].op = "join" /\ ExecuteJoin(call[c].token.member, member[c].topic)
       \/ UNCHANGED broker
    /\ call' = [call EXCEPT ![c] = Idle]
    /\ UNCHANGED <<member, position, heartbeat, delivered>>

--------------------------------------------------------------------------------
(* Poll *)

\* Poll, up to the decision to rejoin.
Poll(c) ==
    /\ call[c] = Idle
    /\ member[c].topic # "" /\ ~member[c].closed
    /\ call' = [call EXCEPT ![c] = IF member[c].needs_rejoin
                                    THEN [op |-> "begin", by |-> "Poll"]
                                    ELSE [op |-> "snapshot"]]
    /\ UNCHANGED <<broker, member, position, heartbeat, delivered, bounds>>

\* assignments_ and generation_id_ are copied under the lock ...
Snapshot(c) ==
    /\ call[c].op = "snapshot"
    /\ call' = [call EXCEPT ![c] = [op |-> "fetch", token |-> member[c].token,
                                    pos |-> position[c], todo |-> DOMAIN position[c],
                                    out |-> {}]]
    /\ UNCHANGED <<broker, member, position, heartbeat, delivered, bounds>>

\* Where the batch a fetch returns may end: it holds one or more of the records
\* visible records from the offset on.  When there are none, or no retry topic, it
\* is empty; beyond the log end the fetch is refused.
FetchEnds(l, offset) ==
    IF NoTopic(l) \/ offset \in visible[l] .. log_end[l] THEN {offset}
    ELSE offset + 1 .. visible[l]

\* Faulty variant: the shared positions advance with every fetch, before the
\* records are returned.
FetchAndAdvance(c) ==
    LET l == First(call[c].todo)
        next == call[c].pos[l]
    IN  /\ call[c].op = "fetch"
        /\ call[c].todo # {}
        /\ \E end \in FetchEnds(l, next) :
              /\ call' = [call EXCEPT ![c].todo = @ \ {l}, ![c].pos[l] = end,
                                      ![c].out = @ \cup ({l} \X (next .. end - 1))]
              /\ position' = [position EXCEPT ![c][l] = end]
        /\ UNCHANGED <<broker, member, heartbeat, delivered, bounds>>

\* ... each log is fetched from its copied position, and what the batch holds below
\* that position is dropped ...
Fetch(c) ==
    LET l == First(call[c].todo)
        next == call[c].pos[l]
    IN  /\ call[c].op = "fetch"
        /\ call[c].todo # {}
        /\ \E end \in FetchEnds(l, next) :
              /\ call' = [call EXCEPT ![c].todo = @ \ {l}, ![c].pos[l] = end,
                                      ![c].out = @ \cup ({l} \X (next .. end - 1))]
        /\ UNCHANGED <<broker, member, position, heartbeat, delivered, bounds>>

\* ... unless a fetch fails, or its offset is beyond the log end: Poll returns the
\* error and drops the records it has already collected ...
FetchFails(c) ==
    /\ call[c].op = "fetch"
    /\ call[c].todo # {}
    /\ LET l == First(call[c].todo)
       IN  IF FetchEnds(l, call[c].pos[l]) = {} THEN UNCHANGED bounds
           ELSE RoundTripFails("fetch")
    /\ call' = [call EXCEPT ![c] = Idle]
    /\ UNCHANGED <<broker, member, position, heartbeat, delivered>>

\* Faulty variant: the positions are never taken over.
PollReturnsInPlace(c) ==
    /\ call[c].op = "fetch" /\ call[c].todo = {}
    /\ delivered' = delivered \cup call[c].out
    /\ call' = [call EXCEPT ![c] = Idle]
    /\ UNCHANGED <<broker, member, position, heartbeat, bounds>>

\* ... and at the end the positions are taken over, unless the generation changed
\* in the meantime, and the records are returned.
PollReturns(c) ==
    /\ call[c].op = "fetch" /\ call[c].todo = {}
    /\ position' = IF call[c].token.generation = member[c].token.generation
                   THEN [position EXCEPT ![c] = [l \in DOMAIN @ |->
                           IF l \in DOMAIN call[c].pos THEN call[c].pos[l] ELSE @[l]]]
                   ELSE position
    /\ delivered' = delivered \cup call[c].out
    /\ call' = [call EXCEPT ![c] = Idle]
    /\ UNCHANGED <<broker, member, heartbeat, bounds>>

--------------------------------------------------------------------------------
(* Seek, Nack, CommitSync and Close *)

\* What lies below the new position was passed over at the caller's wish.
Seek(c, l, offset) ==
    /\ call[c] = Idle
    /\ ~member[c].closed /\ member[c].subscribed
    /\ l \in DOMAIN position[c]
    /\ seeks < MaxSeeks
    /\ seeks' = seeks + 1
    /\ position' = [position EXCEPT ![c][l] = offset]
    /\ delivered' = delivered \cup ({l} \X (0 .. offset - 1))
    /\ UNCHANGED <<broker, member, call, heartbeat, faults, switches>>

\* Nack of a record it was handed: only the assignment is checked, and not again
\* when the request reaches the broker ...
Nack(c, l) ==
    /\ call[c] = Idle
    /\ ~member[c].closed /\ member[c].subscribed
    /\ l \in DOMAIN position[c] /\ "retry" \in Sources
    /\ \E o \in 0 .. visible[l] - 1 : <<l, o>> \in delivered
    /\ call' = [call EXCEPT ![c] = [op |-> "nack", log |-> RetryLog(l)]]
    /\ UNCHANGED <<broker, member, position, heartbeat, delivered, bounds>>

\* ... which appends a copy to the retry log.  A record that was tried too often
\* goes to the dead letters, a request may be lost; the client does not care.
SendNack(c) ==
    /\ call[c].op = "nack"
    /\ \/ /\ log_end[call[c].log] < MaxRecords[call[c].log]
          /\ log_end' = [log_end EXCEPT ![call[c].log] = @ + 1]
       \/ UNCHANGED log_end
    /\ call' = [call EXCEPT ![c] = Idle]
    /\ UNCHANGED <<group, incarnation, visible, committed, member, position, heartbeat,
                   delivered, bounds>>

\* CommitSync copies assignments_ under the lock and commits log after log.  The
\* requests carry neither the member id nor the generation.
CommitSync(c) ==
    /\ call[c] = Idle
    /\ member[c].topic # "" /\ ~member[c].closed
    /\ position[c] # <<>>
    /\ call' = [call EXCEPT ![c] = [op |-> "commit", pos |-> position[c],
                                    todo |-> DOMAIN position[c]]]
    /\ UNCHANGED <<broker, member, position, heartbeat, delivered, bounds>>

\* Faulty variant: the log end is committed, not the position.
CommitLogEnd(c) ==
    LET l == First(call[c].todo)
        left == call[c].todo \ {l}
    IN  /\ call[c].op = "commit"
        /\ committed' = [committed EXCEPT ![l] = log_end[l]]
        /\ call' = [call EXCEPT ![c] = IF left = {} THEN Idle ELSE [@ EXCEPT !.todo = left]]
        /\ UNCHANGED <<group, incarnation, logs, member, position, heartbeat, delivered, bounds>>

\* The broker's committed offsets after a commit of log l: one beyond the log end,
\* or of a missing retry topic, is refused.
Commits(l, offset) ==
    IF offset <= log_end[l] THEN [committed EXCEPT ![l] = offset] ELSE committed

\* CommitSync goes on after a missing retry topic, and ends at any other refusal.
CommitOffset(c) ==
    LET l == First(call[c].todo)
        left == call[c].todo \ {l}
        goes_on == call[c].pos[l] <= log_end[l] \/ NoTopic(l)
    IN  /\ call[c].op = "commit"
        /\ committed' = Commits(l, call[c].pos[l])
        /\ call' = [call EXCEPT ![c] = IF left # {} /\ goes_on THEN [@ EXCEPT !.todo = left]
                                       ELSE Idle]
        /\ UNCHANGED <<group, incarnation, logs, member, position, heartbeat, delivered, bounds>>

\* The request of the next log fails, before or after it was executed; the logs
\* before it stay committed.
CommitFails(c) ==
    LET l == First(call[c].todo)
    IN  /\ call[c].op = "commit"
        /\ RoundTripFails("commit")
        /\ committed' \in {committed, Commits(l, call[c].pos[l])}
        /\ call' = [call EXCEPT ![c] = Idle]
        /\ UNCHANGED <<group, incarnation, logs, member, position, heartbeat, delivered>>

\* Close stops and joins the heartbeat thread, whose last response is applied
\* before it ends ...
Close(c) ==
    /\ call[c] = Idle
    /\ ~member[c].closed
    /\ member' = [member EXCEPT ![c].closed = TRUE, ![c].stop = TRUE]
    /\ call' = [call EXCEPT ![c] = [op |-> "leave", token |-> member[c].token]]
    /\ UNCHANGED <<broker, position, heartbeat, delivered, bounds>>

\* ... then leaves with the member id it copied at the beginning.
SendLeaveGroup(c) ==
    /\ call[c].op = "leave"
    /\ heartbeat[c] = Off
    /\ group' = AfterLeave(call[c].token.member)
    /\ member' = [member EXCEPT ![c].token = NoToken, ![c].subscribed = FALSE,
                                ![c].needs_rejoin = FALSE]
    /\ position' = [position EXCEPT ![c] = <<>>]
    /\ call' = [call EXCEPT ![c] = Idle]
    /\ UNCHANGED <<incarnation, logs, committed, heartbeat, delivered, bounds>>

\* LeaveGroup or its answer is lost: Close fails and forgets nothing.  A member
\* that was not removed stays until it expires.
LeaveFails(c) ==
    /\ call[c].op = "leave"
    /\ heartbeat[c] = Off
    /\ call[c].token.member # NoMember
    /\ RoundTripFails("leave")
    /\ group' \in {group, AfterLeave(call[c].token.member)}
    /\ call' = [call EXCEPT ![c] = Idle]
    /\ UNCHANGED <<incarnation, logs, committed, member, position, heartbeat, delivered>>

--------------------------------------------------------------------------------
(* The heartbeat thread *)

\* The wait ends: the thread stops, skips a turn, or copies the membership.
HeartbeatWakes(c) ==
    LET m == member[c]
    IN  /\ heartbeat[c] = Waiting
        /\ \/ m.stop /\ heartbeat' = [heartbeat EXCEPT ![c] = Off]
           \/ /\ ~m.stop /\ m.subscribed /\ ~m.needs_rejoin
              /\ m.token.member # NoMember /\ m.token.generation > 0
              /\ heartbeat' = [heartbeat EXCEPT ![c] = [op |-> "sent", token |-> m.token]]
        /\ UNCHANGED <<broker, member, position, call, delivered, bounds>>

\* The coordinator answers, or the round trip fails and the turn is skipped.
HeartbeatAnswered(c) ==
    /\ heartbeat[c].op = "sent"
    /\ \/ /\ heartbeat' = [heartbeat EXCEPT ![c] =
                              [op |-> "answered", code |-> Answer(heartbeat[c].token)]]
          /\ UNCHANGED bounds
       \/ /\ RoundTripFails("heartbeat")
          /\ heartbeat' = [heartbeat EXCEPT ![c] = Waiting]
    /\ UNCHANGED <<broker, member, position, call, delivered>>

\* Faulty variant: the new generation is taken over without a new assignment.
AdoptGeneration(c) ==
    /\ heartbeat[c].op = "answered"
    /\ heartbeat' = [heartbeat EXCEPT ![c] = Waiting]
    /\ member' = [member EXCEPT ![c].token.generation =
                     IF heartbeat[c].code = "IllegalGeneration" THEN group.generation ELSE @,
                                ![c].needs_rejoin = @ \/ heartbeat[c].code = "UnknownMember"]
    /\ UNCHANGED <<broker, position, call, delivered, bounds>>

\* The answer is applied to the membership held by then, whichever it was for.
HeartbeatApplied(c) ==
    /\ heartbeat[c].op = "answered"
    /\ heartbeat' = [heartbeat EXCEPT ![c] = Waiting]
    /\ member' = [member EXCEPT ![c] =
                     CASE heartbeat[c].code = "UnknownMember" ->
                            [@ EXCEPT !.token = NoToken, !.needs_rejoin = TRUE]
                       [] heartbeat[c].code = "IllegalGeneration" ->
                            [@ EXCEPT !.token.generation = 0, !.needs_rejoin = TRUE]
                       [] OTHER -> @]
    /\ UNCHANGED <<broker, position, call, delivered, bounds>>

--------------------------------------------------------------------------------
(* The broker *)

\* A producer appends to a log.
Append(l) ==
    /\ l[3] = "main"
    /\ log_end[l] < MaxRecords[l]
    /\ log_end' = [log_end EXCEPT ![l] = @ + 1]
    /\ visible' = [visible EXCEPT ![l] = @ + 1]
    /\ UNCHANGED <<group, incarnation, committed, member, position, call, heartbeat,
                   delivered, bounds>>

\* The delay of the next copy of a retry log is over.
Release(l) ==
    /\ visible[l] < log_end[l]
    /\ visible' = [visible EXCEPT ![l] = @ + 1]
    /\ UNCHANGED <<group, incarnation, log_end, committed, member, position, call,
                   heartbeat, delivered, bounds>>

\* Members that send no heartbeat: nobody is joining with their id or holds it,
\* unless it is a consumer whose Close could not leave.
Silent ==
    {m \in group.members : \A c \in Consumers :
        /\ member[c].token.member = m => member[c].closed /\ call[c] = Idle
        /\ call[c].op \in {"join", "sync", "restore"} => call[c].token.member # m}

\* The timeout scanner removes a silent member, or one whose heartbeats were late.
Expire(m) ==
    LET g == GC!Without(group, {m})
    IN  /\ m \in group.members
        /\ IF m \in Silent THEN UNCHANGED faults
           ELSE faults < MaxFaults /\ faults' = faults + 1
        /\ group' = IF g.members = {} THEN GC!NoGroup ELSE GC!Expired(g)
        /\ UNCHANGED <<incarnation, logs, committed, member, position, call, heartbeat,
                       delivered, seeks, switches>>

\* A broker restart forgets the group; logs and committed offsets are kept.
Restart ==
    /\ group # GC!NoGroup
    /\ faults < MaxFaults
    /\ faults' = faults + 1
    /\ group' = GC!NoGroup
    /\ UNCHANGED <<incarnation, logs, committed, member, position, call, heartbeat,
                   delivered, seeks, switches>>

--------------------------------------------------------------------------------
Init ==
    /\ group = GC!NoGroup
    /\ incarnation = 0
    /\ log_end = [l \in Logs |-> 0]
    /\ visible = [l \in Logs |-> 0]
    /\ committed = [l \in Logs |-> 0]
    /\ member = [c \in Consumers |-> [token |-> NoToken, topic |-> "", subscribed |-> FALSE,
                                      needs_rejoin |-> FALSE, closed |-> FALSE,
                                      stop |-> FALSE]]
    /\ position = [c \in Consumers |-> <<>>]
    /\ call = [c \in Consumers |-> Idle]
    /\ heartbeat = [c \in Consumers |-> Off]
    /\ delivered = {}
    /\ faults = 0
    /\ seeks = 0
    /\ switches = 0

\* A call in progress goes on.
Proceed(c) ==
    \/ SwitchTopic(c) \/ SwitchFails(c) \/ JoinAndSync(c)
    \/ SendJoinGroup(c) \/ SendSyncGroup(c) \/ FetchCommittedOffset(c) \/ Install(c)
    \/ JoinAndSyncFails(c)
    \/ Snapshot(c) \/ Fetch(c) \/ FetchFails(c) \/ PollReturns(c)
    \/ SendNack(c) \/ CommitOffset(c) \/ CommitFails(c)
    \/ SendLeaveGroup(c) \/ LeaveFails(c)

Beat(c) == HeartbeatWakes(c) \/ HeartbeatAnswered(c) \/ HeartbeatApplied(c)

Next ==
    \/ \E c \in Consumers :
          \/ \E t \in Topics : Subscribe(c, t)
          \/ Poll(c) \/ CommitSync(c) \/ Close(c)
          \/ \E l \in DOMAIN position[c] :
                \/ \E offset \in 0 .. MaxRecords[l] : Seek(c, l, offset)
                \/ Nack(c, l)
          \/ Proceed(c)
          \/ Beat(c)
    \/ \E l \in Logs : Append(l) \/ Release(l)
    \/ \E m \in group.members : Expire(m)
    \/ Restart

Spec == Init /\ [][Next]_vars

\* A call in progress and the heartbeat thread run on.  The application keeps
\* calling Poll, and calls Subscribe again when it failed.  The delay of a retry
\* copy ends.
Retry(c) ==
    /\ ~member[c].subscribed
    /\ \E t \in Topics : member[c].topic \in {t, ""} /\ Subscribe(c, t)

FairSpec ==
    /\ Spec
    /\ \A c \in Consumers :
          /\ WF_vars(Proceed(c)) /\ WF_vars(Beat(c))
          /\ SF_vars(Poll(c)) /\ SF_vars(Retry(c))
    /\ WF_vars(\E m \in Silent : Expire(m))
    /\ \A l \in Logs : WF_vars(Release(l))

--------------------------------------------------------------------------------
(* Properties *)

\* The types of the variables; the group has committed no offset beyond the end of
\* a log, although consumers may seek there.
TypeOK ==
    /\ group.members \subseteq 1 .. MaxMembers
    /\ \A l \in Logs :
          /\ log_end[l] \in 0 .. MaxRecords[l] /\ visible[l] \in 0 .. log_end[l]
          /\ committed[l] \in 0 .. log_end[l]
    /\ \A c \in Consumers :
          /\ member[c].token.member \in 0 .. MaxMembers
          /\ member[c].token.generation \in 0 .. 2 * MaxMembers + 1
          /\ \A l \in DOMAIN position[c] :
                l \in Logs /\ position[c][l] \in 0 .. MaxRecords[l]
    /\ faults \in 0 .. MaxFaults
    /\ seeks \in 0 .. MaxSeeks
    /\ switches \in 0 .. MaxSwitches

\* A group never moves past a record that none of its consumers was handed: every
\* record below a committed offset was returned by a Poll, whatever failed,
\* expired or was reassigned on the way.
NothingSkipped ==
    \A l \in Logs : \A o \in 0 .. committed[l] - 1 : <<l, o>> \in delivered

\* The membership of consumer c is one the coordinator accepts and has granted
\* since the group was last created.
Accepted(c) ==
    /\ member[c].subscribed
    /\ member[c].token.incarnation = incarnation
    /\ Answer(member[c].token) = "None"

\* A consumer whose membership the coordinator accepts polls exactly the
\* partitions the coordinator thinks it does, of the topic it thinks they are of.
AssignmentCurrent ==
    \A c \in Consumers :
        Accepted(c) => DOMAIN position[c] = LogsOf(group.topic,
                                                   group.assignment[member[c].token.member])

\* The application sought beyond the end of a log: the fetch of that log fails, and
\* with it every Poll, until the log has grown.
Stuck(c) == \E l \in DOMAIN position[c] : position[c][l] > log_end[l]

\* The application subscribes although it is subscribed: its positions go back to
\* the committed offsets.
SubscribesAgain == \E c \in Consumers, t \in Topics : member[c].subscribed /\ Subscribe(c, t)

\* What a consumer of the topic has still to be handed.
Undelivered ==
    {r \in UNION {{l} \X (0 .. log_end[l] - 1) : l \in Logs} :
        r \notin delivered /\ \E c \in Consumers : member[c].topic = r[1][1]}

\* Every record, and every copy a Nack makes of it, is handed to the application in
\* the end: a lost membership is noticed and replaced, and again and again all that
\* producers (which stop at MaxRecords) have written is delivered.  Excepted are
\* applications that go on subscribing again for ever, which without a commit are
\* handed the same first records each time, or close the consumer, go to another
\* topic or seek beyond a log.
EveryRecordDelivered ==
    <>[][~SubscribesAgain]_vars =>
        []<>(Undelivered = {} \/ \E c \in Consumers : member[c].closed \/ Stuck(c))
================================================================================
