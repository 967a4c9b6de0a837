---------------------------- MODULE GroupCoordinator ----------------------------
(***************************************************************************)
(* The broker's consumer-group coordinator, for one group id (groups share *)
(* only the mutex).  Handlers run on the worker threads and each is atomic *)
(* under mutex_; JoinGroup and ExpireTimedOutMembers read the clock BEFORE *)
(* they lock, so both are two steps here.  The state is in memory only: a  *)
(* broker restart forgets the group.                                       *)
(*                                                                         *)
(* Clients hold the member id and generation of their last JoinGroup       *)
(* response and the partitions of their last SyncGroup response; a         *)
(* response may be lost.  Requests that the coordinator rejects without    *)
(* touching its state are not actions.                                     *)
(***************************************************************************)
EXTENDS Integers, FiniteSets

CONSTANTS
    Clients,
    Topics,
    PartitionCount,  \* topic -> number of partitions
    IdRank,          \* member sequence number -> rank of "member-<n>" as a string
    SessionTimeout,  \* options_.consumer.session_timeout, in ticks
    MaxGeneration,   \* numeric_limits<int32_t>::max()
    MaxMembers,      \* bound on the member ids a group hands out
    MaxTime,         \* bound on the clock
    MaxIncarnation   \* bound on how often the group is created

MemberIds == 1 .. MaxMembers

ASSUME CoordinatorAssumption ==
    /\ PartitionCount \in [Topics -> Nat \ {0}]
    /\ IdRank \in [MemberIds -> Nat]
    /\ \A m, n \in MemberIds : IdRank[m] = IdRank[n] => m = n
    /\ SessionTimeout \in Nat
    /\ MaxGeneration \in Nat \ {0}
    /\ {MaxMembers, MaxTime, MaxIncarnation} \subseteq Nat

VARIABLES
    group,        \* the GroupState of groups_, or NoGroup
    clock,        \* steady_clock
    joins,        \* joins[c]: the JoinGroup of client c that waits for mutex_
    scan,         \* the time the scanner read before locking, or Idle
    token,        \* token[c]: member id and generation client c was given
    owned,        \* owned[c]: partitions client c was told to consume
    incarnation   \* ghost: how many times the group has been created

vars == <<group, clock, joins, scan, token, owned, incarnation>>

NoMember == 0
Idle == -1

NoGroup == [topic |-> "", generation |-> 0, next_seq |-> 0, leader |-> NoMember,
            members |-> {}, heartbeat |-> <<>>, assignment |-> <<>>]
NoJoin == [member |-> NoMember, topic |-> "", now |-> Idle]
NoToken == [member |-> NoMember, generation |-> 0, incarnation |-> 0]

--------------------------------------------------------------------------------
(* The range assignor: AssignLocked *)

\* Position of member m in the string-ordered map of members.
MemberIndex(m, members) == Cardinality({n \in members : IdRank[n] < IdRank[m]})

\* Faulty variant: the members after the first `extra` start one run too late.
RunIgnoringExtra(m, members, partitions) ==
    LET i == MemberIndex(m, members)
        base == partitions \div Cardinality(members)
        extra == partitions % Cardinality(members)
        start == i * base + extra
    IN  start .. start + base + (IF i < extra THEN 1 ELSE 0) - 1

\* The run of partitions of member m.
AssignedRun(m, members, partitions) ==
    LET i == MemberIndex(m, members)
        base == partitions \div Cardinality(members)
        extra == partitions % Cardinality(members)
        start == i * base + (IF i < extra THEN i ELSE extra)
    IN  start .. start + base + (IF i < extra THEN 1 ELSE 0) - 1

\* AssignLocked: leader and assignments are computed anew for all members.
AssignLocked(g) ==
    [g EXCEPT
        !.leader = IF g.members = {} THEN NoMember
                   ELSE CHOOSE m \in g.members : MemberIndex(m, g.members) = 0,
        !.assignment = [m \in g.members |-> AssignedRun(m, g.members, PartitionCount[g.topic])]]

--------------------------------------------------------------------------------
(* JoinGroup *)

\* The request reads the clock and waits for mutex_.  A client offers the member
\* id it holds, or none.
JoinArrives(c, topic, member) ==
    /\ joins[c] = NoJoin
    /\ member \in {NoMember, token[c].member}
    /\ joins' = [joins EXCEPT ![c] = [member |-> member, topic |-> topic, now |-> clock]]
    /\ UNCHANGED <<group, clock, scan, token, owned, incarnation>>

\* groups_.try_emplace: an absent group is created before the member is looked up.
GroupFor(topic) ==
    IF group = NoGroup THEN [NoGroup EXCEPT !.topic = topic, !.next_seq = 1] ELSE group

\* Group g after member m has been emplaced with an empty assignment.
WithMember(g, m, now) ==
    [g EXCEPT !.next_seq = @ + 1,
              !.members = @ \cup {m},
              !.heartbeat = [n \in g.members \cup {m} |->
                                IF n = m THEN now ELSE g.heartbeat[n]],
              !.assignment = [n \in g.members \cup {m} |->
                                IF n = m THEN {} ELSE g.assignment[n]]]

\* Faulty variant: the generation is not advanced once there is one.
ReassignInPlace(g) ==
    AssignLocked([g EXCEPT !.generation = IF @ = 0 THEN 1 ELSE @])

\* A group whose member set changed enters a new generation and is reassigned;
\* at the largest generation Join and Leave fail and leave the rest as it is.
Rebalance(g) ==
    IF g.generation = MaxGeneration THEN g
    ELSE AssignLocked([g EXCEPT !.generation = @ + 1])

\* The response reaches the client, or is lost.  A token remembers, as a ghost, in
\* which incarnation of the group its member id was handed out.
Respond(c, g, m, inc, delivered) ==
    IF delivered
    THEN /\ token' = [token EXCEPT ![c] = [member |-> m, generation |-> g.generation,
                                           incarnation |-> inc]]
         /\ owned' = [owned EXCEPT ![c] = {}]
    ELSE UNCHANGED <<token, owned>>

\* JoinGroup of client c gets mutex_.
JoinLocked(c, delivered) ==
    LET req == joins[c]
        g == GroupFor(req.topic)
        m == g.next_seq
        grown == Rebalance(WithMember(g, m, req.now))
        known == [g EXCEPT !.heartbeat[req.member] = req.now]
        alive == IF g.generation = 0 THEN Rebalance(known) ELSE known
    IN  /\ req # NoJoin
        /\ joins' = [joins EXCEPT ![c] = NoJoin]
        /\ group = NoGroup => incarnation < MaxIncarnation
        /\ incarnation' = IF group = NoGroup THEN incarnation + 1 ELSE incarnation
        /\ \/ /\ g.topic = req.topic
              /\ req.member = NoMember
              /\ m \in MemberIds
              /\ group' = grown
              /\ Respond(c, grown, m, incarnation', delivered /\ g.generation # MaxGeneration)
           \/ /\ g.topic = req.topic
              /\ req.member \in g.members
              /\ group' = alive
              /\ Respond(c, alive, req.member, token[c].incarnation, delivered)
           \/ /\ \/ g.topic # req.topic
                 \/ req.member # NoMember /\ req.member \notin g.members
              /\ group' = g
              /\ UNCHANGED <<token, owned>>
        /\ UNCHANGED <<clock, scan>>

--------------------------------------------------------------------------------
(* SyncGroup, Heartbeat, LeaveGroup *)

\* The checks of SyncGroup and Heartbeat.
Accepts(t) ==
    /\ t.generation > 0
    /\ t.member \in group.members
    /\ t.generation = group.generation

SyncGroup(c) ==
    /\ Accepts(token[c])
    /\ group' = [group EXCEPT !.heartbeat[token[c].member] = clock]
    /\ owned' = [owned EXCEPT ![c] = group.assignment[token[c].member]]
    /\ UNCHANGED <<clock, joins, scan, token, incarnation>>

\* Also a SyncGroup whose response is lost.
Heartbeat(c) ==
    /\ Accepts(token[c])
    /\ group' = [group EXCEPT !.heartbeat[token[c].member] = clock]
    /\ UNCHANGED <<clock, joins, scan, token, owned, incarnation>>

\* Group g without the members in gone; their assignments are dropped.
Without(g, gone) ==
    LET left == g.members \ gone
    IN  [g EXCEPT !.members = left,
                  !.heartbeat = [n \in left |-> g.heartbeat[n]],
                  !.assignment = [n \in left |-> g.assignment[n]]]

\* The generation is not checked; at the largest generation the member is gone
\* but neither the group nor the assignment of the others changes.
LeaveGroup(c) ==
    LET m == token[c].member
        g == Without(group, {m})
    IN  /\ m \in group.members
        /\ group' = IF g.generation = MaxGeneration THEN g
                    ELSE IF g.members = {} THEN NoGroup
                    ELSE Rebalance(g)
        /\ token' = [token EXCEPT ![c] = NoToken]
        /\ owned' = [owned EXCEPT ![c] = {}]
        /\ UNCHANGED <<clock, joins, scan, incarnation>>

\* A client dies, or its LeaveGroup never reaches the broker.
ClientStops(c) ==
    /\ token[c] # NoToken
    /\ token' = [token EXCEPT ![c] = NoToken]
    /\ owned' = [owned EXCEPT ![c] = {}]
    /\ UNCHANGED <<group, clock, joins, scan, incarnation>>

--------------------------------------------------------------------------------
(* The timeout scanner *)

\* ExpireTimedOutMembers reads the clock.
ScanStarts ==
    /\ scan = Idle
    /\ scan' = clock
    /\ UNCHANGED <<group, clock, joins, token, owned, incarnation>>

\* Faulty variant: the operands of the subtraction are swapped.
TimedOutSwapped(now) == {m \in group.members : group.heartbeat[m] - now > SessionTimeout}

TimedOut(now) == {m \in group.members : now - group.heartbeat[m] > SessionTimeout}

\* Faulty variant: the generation is advanced by JoinGroup and LeaveGroup only.
ExpiredSameGeneration(g) == AssignLocked(g)

\* What remains of a group that lost members to the scanner: it is reassigned
\* even at the largest generation.
Expired(g) ==
    AssignLocked([g EXCEPT !.generation = IF @ < MaxGeneration THEN @ + 1 ELSE @])

\* ... and removes, under mutex_, the members silent for too long at that time.
ExpireTimedOutMembers ==
    LET gone == TimedOut(scan)
        g == Without(group, gone)
    IN  /\ scan # Idle
        /\ group' = IF gone = {} THEN group
                    ELSE IF g.members = {} THEN NoGroup
                    ELSE Expired(g)
        /\ scan' = Idle
        /\ UNCHANGED <<clock, joins, token, owned, incarnation>>

--------------------------------------------------------------------------------
(* Time and the broker process *)

Tick ==
    /\ clock < MaxTime
    /\ clock' = clock + 1
    /\ UNCHANGED <<group, joins, scan, token, owned, incarnation>>

\* The broker restarts: the group and the requests in flight are gone.
Restart ==
    /\ group' = NoGroup
    /\ joins' = [c \in Clients |-> NoJoin]
    /\ scan' = Idle
    /\ UNCHANGED <<clock, token, owned, incarnation>>

Init ==
    /\ group = NoGroup
    /\ clock = 0
    /\ joins = [c \in Clients |-> NoJoin]
    /\ scan = Idle
    /\ token = [c \in Clients |-> NoToken]
    /\ owned = [c \in Clients |-> {}]
    /\ incarnation = 0

Next ==
    \/ \E c \in Clients, topic \in Topics, member \in MemberIds \cup {NoMember} :
          JoinArrives(c, topic, member)
    \/ \E c \in Clients, delivered \in BOOLEAN : JoinLocked(c, delivered)
    \/ \E c \in Clients : SyncGroup(c)
    \/ \E c \in Clients : Heartbeat(c)
    \/ \E c \in Clients : LeaveGroup(c)
    \/ \E c \in Clients : ClientStops(c)
    \/ ScanStarts
    \/ ExpireTimedOutMembers
    \/ Tick
    \/ Restart

\* The scanner loop never stops while the broker runs: wait_for returns after
\* ScanInterval() whatever else happens.
Spec == Init /\ [][Next]_vars /\ WF_vars(ScanStarts) /\ WF_vars(ExpireTimedOutMembers)

--------------------------------------------------------------------------------
(* Properties *)

\* The types of the variables; every member has a heartbeat time no later than
\* now, and an assignment.
TypeOK ==
    /\ group.topic \in Topics \cup {""}
    /\ group.generation \in 0 .. MaxGeneration
    /\ group.next_seq \in 0 .. MaxMembers + 1
    /\ group.leader \in MemberIds \cup {NoMember}
    /\ group.members \subseteq MemberIds
    /\ group.heartbeat \in [group.members -> 0 .. clock]
    /\ DOMAIN group.assignment = group.members
    /\ clock \in 0 .. MaxTime
    /\ \A c \in Clients : joins[c].now \in Idle .. clock
    /\ scan \in Idle .. clock
    /\ incarnation \in 0 .. MaxIncarnation

\* The partitions are divided among the members: each has exactly one owner, no
\* member has two more than another, and the leader is a member.
Divided ==
    LET all == 0 .. PartitionCount[group.topic] - 1
        part == group.assignment
    IN  /\ UNION {part[m] : m \in group.members} = all
        /\ \A m, n \in group.members :
              /\ m # n => part[m] \cap part[n] = {}
              /\ Cardinality(part[m]) <= Cardinality(part[n]) + 1
        /\ group.leader \in group.members

\* After every join, leave, expiry and restart, in any order, the partitions are
\* divided among exactly the members of the group (short of the last generation).
PartitionsDivided ==
    group.members # {} /\ group.generation < MaxGeneration => Divided

\* No two clients with tokens the coordinator accepts consume one partition, if their
\* member ids come from the group as it exists now: a late response, a lost response
\* or a rejoin never yields two owners.  (Ids and generations start over when a group
\* is created again, so a token of the group before it may be accepted as well.)
ExclusiveInIncarnation ==
    \A c, d \in Clients :
        /\ c # d /\ Accepts(token[c]) /\ Accepts(token[d])
        /\ token[c].incarnation = incarnation /\ token[d].incarnation = incarnation
        /\ group.generation < MaxGeneration
        => owned[c] \cap owned[d] = {}

\* While the group exists its generation never goes back, and within a generation
\* neither the members nor their assignments change.
GenerationFences ==
    [][group # NoGroup /\ group' # NoGroup =>
          /\ group'.generation >= group.generation
          /\ group'.generation = group.generation /\ group.generation < MaxGeneration =>
                group'.members = group.members /\ group'.assignment = group.assignment]_vars

Silent(m) == m \in group.members /\ clock - group.heartbeat[m] > SessionTimeout

\* A member that stays silent past the session timeout does not stay in the group:
\* the scanner removes it, unless it is heard of again.
SilentMembersLeave == \A m \in MemberIds : Silent(m) ~> ~Silent(m)
================================================================================
