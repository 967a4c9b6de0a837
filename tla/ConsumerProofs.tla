----------------------------- MODULE ConsumerProofs ------------------------------
(***************************************************************************)
(* Proofs about Consumer: the group never commits past a record that was   *)
(* not handed out, and a consumer whose membership is accepted polls what  *)
(* the coordinator thinks it does.  For any numbers of consumers, topics,  *)
(* partitions and records, and any number of faults.                       *)
(***************************************************************************)
EXTENDS Consumer, FiniteSetTheorems, WellFoundedInduction, TLAPS

----------------------------------------
(* The inductive invariant *)

\* What assignments_ may be: an offset for each of some logs.
Positions == UNION {[S -> Nat] : S \in SUBSET Logs}

Tokens == [member : Nat, generation : Nat, incarnation : Nat]

Members == [token : Tokens, topic : Topics \cup {""}, subscribed : BOOLEAN,
            needs_rejoin : BOOLEAN, closed : BOOLEAN, stop : BOOLEAN]

\* A GroupState has these fields; nothing is said of the leader and the heartbeats.
Shape(g) ==
    g = [topic |-> g.topic, generation |-> g.generation, next_seq |-> g.next_seq,
         leader |-> g.leader, members |-> g.members, heartbeat |-> g.heartbeat,
         assignment |-> g.assignment]

\* A group that exists: member ids were handed out in order, a group with members
\* has a generation, and what a member has was assigned within the topic.
Formed(g) ==
    /\ Shape(g)
    /\ g.topic \in Topics
    /\ g.generation \in Nat
    /\ g.next_seq \in 1 .. MaxMembers + 1
    /\ g.members \subseteq 1 .. g.next_seq - 1
    /\ g.members # {} => g.generation >= 1
    /\ \A m \in g.members : g.assignment[m] \subseteq Partitions

\* Every id handed out cost one generation, and a second one if it is gone: the
\* largest generation, at which the scanner would reassign in place, is out of reach.
Counted(g) == g.generation + Cardinality(g.members) = 2 * (g.next_seq - 1)

GroupOk ==
    \/ group = GC!NoGroup
    \/ Formed(group) /\ Counted(group) /\ incarnation >= 1

\* The types of the variables the argument is about.
Types ==
    /\ log_end \in [Logs -> Nat]
    /\ visible \in [Logs -> Nat]
    /\ committed \in [Logs -> Nat]
    /\ incarnation \in Nat
    /\ member \in [Consumers -> Members]
    /\ position \in [Consumers -> Positions]
    /\ call = [c \in Consumers |-> call[c]]

\* Every record below the offsets p is in seen.
Passed(p, seen) == \A l \in DOMAIN p : \A o \in 0 .. p[l] - 1 : <<l, o>> \in seen

\* Token t is not ahead of group g in incarnation n.
Fresh(t, g, n) ==
    /\ t.incarnation <= n
    /\ t.incarnation = n /\ g # GC!NoGroup => t.generation <= g.generation

\* If the coordinator accepts t, then D are the logs it has assigned to its member.
Current(t, D, g, n) ==
    /\ Fresh(t, g, n)
    /\ /\ t.incarnation = n
       /\ t.member \in g.members
       /\ t.generation = g.generation
       => D = LogsOf(g.topic, g.assignment[t.member])

\* What holds of a call k in progress: it is about a topic of the broker ...
Topical(k, topic) ==
    /\ k.op \in {"begin", "join", "sync", "restore"} => topic \in Topics
    /\ k.op = "switch" => k.topic \in Topics

\* ... the request it will send carries a token ...
Joining(k) ==
    k.op \in {"join", "sync"} =>
        /\ k = [op |-> k.op, by |-> k.by, token |-> k.token]
        /\ k.token \in Tokens

\* ... the offsets restored so far are committed ones ...
Restoring(k, seen) ==
    k.op = "restore" =>
        /\ k = [op |-> k.op, by |-> k.by, token |-> k.token, pos |-> k.pos, todo |-> k.todo]
        /\ k.token \in Tokens
        /\ k.pos \in Positions
        /\ k.todo \subseteq Logs
        /\ Passed(k.pos, seen)

\* ... below the copied positions, everything was delivered or is about to be ...
Fetching(k, seen) ==
    k.op = "fetch" =>
        /\ k = [op |-> k.op, token |-> k.token, pos |-> k.pos, todo |-> k.todo, out |-> k.out]
        /\ k.pos \in Positions
        /\ k.todo \subseteq DOMAIN k.pos
        /\ Passed(k.pos, seen \cup k.out)

\* ... and a commit in progress has copied positions that were delivered already.
Committing(k, seen) ==
    k.op = "commit" =>
        /\ k = [op |-> k.op, pos |-> k.pos, todo |-> k.todo]
        /\ k.pos \in Positions
        /\ k.todo \subseteq DOMAIN k.pos
        /\ k.todo # {}
        /\ Passed(k.pos, seen)

CallOk(k, topic, seen) ==
    Topical(k, topic) /\ Joining(k) /\ Restoring(k, seen) /\ Fetching(k, seen) /\ Committing(k, seen)

\* What the coordinator has granted the call so far: the logs restored and still to
\* be restored are together those assigned.
Granted(k, g, n) ==
    /\ k.op = "join" => k.token.incarnation <= n
    /\ k.op = "sync" => Fresh(k.token, g, n)
    /\ k.op = "restore" => Current(k.token, DOMAIN k.pos \cup k.todo, g, n)

\* What holds of a membership m with the positions p.
MemberOk(m, p, seen, g, n) ==
    /\ Fresh(m.token, g, n)
    /\ m.subscribed => Current(m.token, DOMAIN p, g, n)
    /\ Passed(p, seen)

\* The inductive invariant.
Inv ==
    /\ Types
    /\ GroupOk
    /\ Passed(committed, delivered)
    /\ \A c \in Consumers :
          /\ CallOk(call[c], member[c].topic, delivered)
          /\ Granted(call[c], group, incarnation)
          /\ MemberOk(member[c], position[c], delivered, group, incarnation)

----------------------------------------
(* Operators *)

LEMMA Constants ==
    /\ NumPartitions \in Nat /\ NumPartitions > 0
    /\ MaxMembers \in Nat
    /\ Sources \subseteq {"main", "retry"} /\ "main" \in Sources
BY ConsumerAssumption

NatLess == {p \in Nat \X Nat : p[1] < p[2]}

LEMMA LeastElement ==
    ASSUME NEW S, S \subseteq Nat, S # {}
    PROVE  \E x \in S : \A y \in S : x <= y
<1>1. IsWellFoundedOn(NatLess, Nat)
  BY NatLessThanWellFounded DEF OpToRel, NatLess
<1>2. PICK x \in S : \A y \in S : <<y, x>> \notin NatLess
  BY <1>1, WFMin
<1>3. ASSUME NEW y \in S PROVE x <= y
  <2>a. x \in Nat /\ y \in Nat
    OBVIOUS
  <2>b. ~(y < x)
    BY <1>2, <2>a DEF NatLess
  <2> QED BY <2>a, <2>b
<1> QED BY <1>3

LEMMA LogParts ==
    ASSUME NEW l \in Logs
    PROVE  l[2] \in Nat /\ l[3] \in {"main", "retry"}
<1>1. l[2] \in Partitions /\ l[3] \in Sources
  BY DEF Logs
<1>2. Partitions \subseteq Nat
  BY Constants DEF Partitions
<1> QED BY <1>1, <1>2, Constants

\* The coordinator's cardinality is this module's.
LEMMA SameCardinality == ASSUME NEW S PROVE GC!Cardinality(S) = Cardinality(S)
BY DEF Cardinality, IsFiniteSet, GC!Cardinality, GC!IsFiniteSet

\* The log a loop comes to next is one of those it has left.
LEMMA FirstInside ==
    ASSUME NEW todo, todo \subseteq Logs, todo # {}
    PROVE  First(todo) \in todo
<1> DEFINE Before(l, k) == \/ l[2] < k[2]
                           \/ l[2] = k[2] /\ (l[3] = "main" \/ k[3] = "retry")
<1>1. \A l \in todo : l[2] \in Nat /\ l[3] \in {"main", "retry"}
  BY LogParts
<1>2. PICK p \in {l[2] : l \in todo} : \A q \in {l[2] : l \in todo} : p <= q
  BY <1>1, LeastElement
<1>3. \E l \in todo : \A k \in todo : Before(l, k)
  <2>a. CASE \E l \in todo : l[2] = p /\ l[3] = "main"
    <3>1. PICK l \in todo : l[2] = p /\ l[3] = "main"
      BY <2>a
    <3>2. ASSUME NEW k \in todo PROVE Before(l, k)
      <4>1. p <= k[2] /\ p \in Nat /\ k[2] \in Nat
        BY <1>1, <1>2
      <4> QED BY <3>1, <4>1
    <3> QED BY <3>2
  <2>b. CASE ~ \E l \in todo : l[2] = p /\ l[3] = "main"
    <3>1. PICK l \in todo : l[2] = p
      BY <1>2
    <3>2. ASSUME NEW k \in todo PROVE Before(l, k)
      BY <1>1, <1>2, <2>b, <3>1
    <3> QED BY <3>2
  <2> QED BY <2>a, <2>b
<1> QED BY <1>3 DEF First

\* A run of partitions stays within the topic.
LEMMA RunInside ==
    ASSUME NEW S \in SUBSET (1 .. MaxMembers), NEW m \in S
    PROVE  GC!AssignedRun(m, S, NumPartitions) \subseteq Partitions
<1> DEFINE N == Cardinality(S)
           Before == {n \in S : [k \in 1 .. MaxMembers |-> k][n] < [k \in 1 .. MaxMembers |-> k][m]}
           i == GC!MemberIndex(m, S)
           base == NumPartitions \div N
           extra == NumPartitions % N
<1>1. IsFiniteSet(S) /\ N \in Nat
  <2>a. IsFiniteSet(1 .. MaxMembers)
    BY Constants, FS_Interval
  <2> QED BY <2>a, FS_Subset, FS_CardinalityType
<1>2. IsFiniteSet(S \ {m}) /\ Cardinality(S \ {m}) = N - 1
  BY <1>1, FS_RemoveElement
<1>3. Before \subseteq S \ {m}
  BY Constants
<1>4. Cardinality(Before) \in Nat /\ Cardinality(Before) <= N - 1
  BY <1>2, <1>3, FS_Subset, FS_CardinalityType
<1>5. i = Cardinality(Before)
  BY SameCardinality DEF GC!MemberIndex
<1>6. i \in Nat /\ i + 1 <= N /\ N > 0
  BY <1>1, <1>4, <1>5
<1>7. base \in Nat /\ extra \in Nat /\ N * base + extra = NumPartitions
  <2>a. \A x, y \in Nat : y > 0 => y * (x \div y) + (x % y) = x
    OBVIOUS
  <2>b. \A x, y \in Nat : y > 0 => x \div y \in Nat /\ x % y \in 0 .. y - 1
    OBVIOUS
  <2>c. extra \in 0 .. N - 1
    BY <1>1, <1>6, <2>b, Constants
  <2>d. base \in Nat /\ N * base + extra = NumPartitions
    BY <1>1, <1>6, <2>a, <2>b, Constants
  <2>e. extra \in Nat
    BY <1>1, <2>c
  <2> QED BY <2>d, <2>e
<1> HIDE DEF N, i, base, extra
<1>8. PICK x, y : x = i * base /\ y = N * base
  OBVIOUS
<1>9. x \in Nat /\ y \in Nat /\ x + base <= y
  <2>a. \A a, b \in Nat : a * b \in Nat
    OBVIOUS
  <2>b. \A a, b, d \in Nat : a <= b => a * d <= b * d
    OBVIOUS
  <2>c. \A a, d \in Nat : (a + 1) * d = a * d + d
    OBVIOUS
  <2>d. (i + 1) * base <= N * base
    BY <1>1, <1>6, <1>7, <2>b
  <2>e. (i + 1) * base = i * base + base
    BY <1>6, <1>7, <2>c
  <2> QED BY <1>1, <1>6, <1>7, <1>8, <2>a, <2>d, <2>e
<1>10. PICK start, end : /\ start = x + (IF i < extra THEN i ELSE extra)
                         /\ end = start + base + (IF i < extra THEN 1 ELSE 0) - 1
  OBVIOUS
<1>11. start \in Nat /\ end \in Int /\ end <= y + extra - 1
  BY <1>6, <1>7, <1>9, <1>10
<1>12. start .. end \subseteq Partitions
  BY <1>7, <1>8, <1>9, <1>11, Constants DEF Partitions
<1>13. GC!AssignedRun(m, S, NumPartitions) = start .. end
  BY <1>8, <1>10, SameCardinality DEF GC!AssignedRun, N, i, base, extra
<1> QED BY <1>12, <1>13

----------------------------------------
(* The group *)

\* A group that is assigned anew in generation k.
LEMMA Reassigned ==
    ASSUME NEW g, Shape(g), NEW k, g.topic \in Topics, g.members \subseteq 1 .. MaxMembers
    PROVE  LET h == GC!AssignLocked([g EXCEPT !.generation = k])
           IN  /\ Shape(h) /\ h.topic = g.topic /\ h.generation = k
               /\ h.next_seq = g.next_seq /\ h.members = g.members
               /\ \A m \in h.members : h.assignment[m] \subseteq Partitions
<1> DEFINE f == [g EXCEPT !.generation = k]
           h == GC!AssignLocked(f)
<1>1. /\ Shape(f) /\ f.topic = g.topic /\ f.generation = k
      /\ f.next_seq = g.next_seq /\ f.members = g.members
  BY DEF Shape
<1>2. PICK leader, parts :
         /\ h = [f EXCEPT !.leader = leader, !.assignment = parts]
         /\ parts = [m \in f.members |->
                        GC!AssignedRun(m, f.members, [t \in Topics |-> NumPartitions][f.topic])]
  BY DEF GC!AssignLocked
<1> HIDE DEF f, h
<1>3. /\ Shape(h) /\ h.topic = f.topic /\ h.generation = f.generation
      /\ h.next_seq = f.next_seq /\ h.members = f.members /\ h.assignment = parts
  BY <1>1, <1>2 DEF Shape
<1>4. \A m \in f.members : parts[m] = GC!AssignedRun(m, f.members, NumPartitions)
  BY <1>1, <1>2
<1>5. \A m \in f.members : parts[m] \subseteq Partitions
  BY <1>1, <1>4, RunInside
<1> QED BY <1>1, <1>3, <1>5 DEF f, h

\* Group h is group g, or gone, or in a later generation.
Moves(g, h) ==
    \/ h = g
    \/ h = GC!NoGroup
    \/ h.generation > g.generation

LEMMA Sizes ==
    ASSUME NEW g, Formed(g), Counted(g)
    PROVE  /\ IsFiniteSet(g.members) /\ Cardinality(g.members) \in Nat
           /\ g.generation <= 2 * MaxMembers
           /\ g.members # {} => Cardinality(g.members) > 0
           /\ g.members \subseteq 1 .. MaxMembers
<1>1. /\ MaxMembers \in Nat /\ g.next_seq \in 1 .. MaxMembers + 1 /\ g.generation \in Nat
      /\ g.members \subseteq 1 .. g.next_seq - 1
      /\ g.generation + Cardinality(g.members) = 2 * (g.next_seq - 1)
  BY Constants DEF Formed, Counted
<1>2. IsFiniteSet(1 .. g.next_seq - 1)
  BY <1>1, FS_Interval
<1>3. IsFiniteSet(g.members) /\ Cardinality(g.members) \in Nat
  BY <1>1, <1>2, FS_Subset, FS_CardinalityType
<1>4. g.members # {} => Cardinality(g.members) > 0
  BY <1>3, FS_EmptySet
<1> QED BY <1>1, <1>3, <1>4

\* The group after a member is gone ...
LEMMA Removed ==
    ASSUME NEW g, Formed(g), Counted(g), NEW m \in g.members,
           NEW w, w = GC!Without(g, {m}), NEW h, w.members # {},
           h = GC!Rebalance(w) \/ h = GC!Expired(w)
    PROVE  Formed(h) /\ Counted(h) /\ h.generation > g.generation
<1> DEFINE S == g.members \ {m}
<1>1. PICK beats, parts : w = [g EXCEPT !.members = S, !.heartbeat = beats, !.assignment = parts]
  BY DEF GC!Without
<1>2. Shape(g) /\ g.generation \in Nat /\ g.topic \in Topics /\ MaxMembers \in Nat
  BY Constants DEF Formed
<1>3. /\ Shape(w) /\ w.topic = g.topic /\ w.generation = g.generation
      /\ w.next_seq = g.next_seq /\ w.members = S
  BY <1>1, <1>2 DEF Shape
<1>4. g.generation <= 2 * MaxMembers /\ S \subseteq 1 .. MaxMembers
  BY Sizes
<1>5. h = GC!AssignLocked([w EXCEPT !.generation = g.generation + 1])
  <2>a. w.generation # 2 * MaxMembers + 1 /\ w.generation < 2 * MaxMembers + 1
    BY <1>2, <1>3, <1>4
  <2>b. CASE h = GC!Rebalance(w)
    BY <1>3, <2>a, <2>b DEF GC!Rebalance
  <2>c. CASE h = GC!Expired(w)
    BY <1>3, <2>a, <2>c DEF GC!Expired
  <2> QED BY <2>b, <2>c
<1>6. /\ Shape(h) /\ h.topic = g.topic /\ h.generation = g.generation + 1
      /\ h.next_seq = g.next_seq /\ h.members = S
      /\ \A n \in h.members : h.assignment[n] \subseteq Partitions
  <2>a. Shape(w) /\ w.topic \in Topics /\ w.members \subseteq 1 .. MaxMembers
    BY <1>2, <1>3, <1>4
  <2>b. PICK k : k = g.generation + 1
    OBVIOUS
  <2>c. h = GC!AssignLocked([w EXCEPT !.generation = k])
    BY <1>5, <2>b
  <2>d. /\ Shape(h) /\ h.topic = w.topic /\ h.generation = k
        /\ h.next_seq = w.next_seq /\ h.members = w.members
        /\ \A n \in h.members : h.assignment[n] \subseteq Partitions
    BY <2>a, <2>c, Reassigned
  <2> QED BY <1>3, <2>b, <2>d
<1>7. Formed(h) /\ h.generation > g.generation
  BY <1>2, <1>6 DEF Formed
<1>8. Counted(h)
  <2>a. Cardinality(S) = Cardinality(g.members) - 1
    BY Sizes, FS_RemoveElement
  <2>b. Cardinality(g.members) \in Nat /\ g.next_seq \in Nat
    BY Sizes, Constants DEF Formed
  <2> QED BY <1>2, <1>6, <2>a, <2>b DEF Counted
<1> QED BY <1>7, <1>8

\* ... after a member came ...
LEMMA Added ==
    ASSUME NEW g, Formed(g), Counted(g), NEW h, g.next_seq \in 1 .. MaxMembers,
           h = GC!Rebalance(GC!WithMember(g, g.next_seq, 0))
    PROVE  /\ Formed(h) /\ Counted(h) /\ h.generation > g.generation
           /\ h.next_seq = g.next_seq + 1 /\ g.next_seq \in h.members /\ h.topic = g.topic
<1> DEFINE m == g.next_seq
           S == g.members \cup {m}
           w == GC!WithMember(g, m, 0)
<1>1. PICK beats, parts : w = [g EXCEPT !.next_seq = @ + 1, !.members = @ \cup {m},
                                        !.heartbeat = beats, !.assignment = parts]
  BY DEF GC!WithMember
<1>2. Shape(g) /\ g.generation \in Nat /\ g.topic \in Topics /\ MaxMembers \in Nat
  BY Constants DEF Formed
<1>3. /\ Shape(w) /\ w.topic = g.topic /\ w.generation = g.generation
      /\ w.next_seq = m + 1 /\ w.members = S
  BY <1>1, <1>2 DEF Shape
<1>4. g.generation <= 2 * MaxMembers /\ S \subseteq 1 .. MaxMembers
  BY Sizes
<1>5. h = GC!AssignLocked([w EXCEPT !.generation = g.generation + 1])
  <2>a. w.generation # 2 * MaxMembers + 1
    BY <1>2, <1>3, <1>4
  <2> QED BY <1>3, <2>a DEF GC!Rebalance
<1>6. /\ Shape(h) /\ h.topic = g.topic /\ h.generation = g.generation + 1
      /\ h.next_seq = m + 1 /\ h.members = S
      /\ \A n \in h.members : h.assignment[n] \subseteq Partitions
  BY <1>2, <1>3, <1>4, <1>5, Reassigned
<1>7. m \notin g.members /\ m \in Nat /\ m >= 1 /\ S \subseteq 1 .. m
  BY <1>2 DEF Formed
<1>8. Formed(h) /\ h.generation > g.generation
  BY <1>2, <1>6, <1>7 DEF Formed
<1>9. Counted(h)
  <2>a. Cardinality(S) = Cardinality(g.members) + 1
    BY <1>7, Sizes, FS_AddElement
  <2>b. PICK k, n : k = Cardinality(g.members) /\ n = g.generation
    OBVIOUS
  <2>c. k \in Nat /\ n \in Nat /\ n + k = 2 * (m - 1)
    BY <1>2, <2>b, Sizes DEF Counted
  <2>d. n + 1 + (k + 1) = 2 * (m + 1 - 1)
    BY <1>7, <2>c
  <2>e. h.generation = n + 1 /\ Cardinality(h.members) = k + 1 /\ h.next_seq = m + 1
    <3>1. Cardinality(h.members) = Cardinality(S)
      BY <1>6
    <3> QED BY <1>6, <2>a, <2>b, <3>1
  <2> QED BY <2>d, <2>e DEF Counted
<1> QED BY <1>6, <1>8, <1>9

\* ... and when it comes into being.
LEMMA Founded ==
    ASSUME NEW topic \in Topics, NEW g,
           g = [GC!NoGroup EXCEPT !.topic = topic, !.next_seq = 1]
    PROVE  /\ Formed(g) /\ Counted(g) /\ g # GC!NoGroup
           /\ g.topic = topic /\ g.generation = 0 /\ g.members = {} /\ g.next_seq = 1
<1>1. /\ Shape(g) /\ g.topic = topic /\ g.generation = 0 /\ g.next_seq = 1
      /\ g.members = {}
  BY DEF Shape, GC!NoGroup
<1>2. Cardinality({}) = 0
  BY FS_EmptySet
<1>3. Formed(g) /\ Counted(g)
  <2>a. Formed(g)
    BY <1>1, Constants DEF Formed
  <2>b. 0 + 0 = 2 * (1 - 1)
    OBVIOUS
  <2> QED BY <1>1, <1>2, <2>a, <2>b DEF Counted
<1>4. g # GC!NoGroup
  <2>a. GC!NoGroup.next_seq = 0
    BY DEF GC!NoGroup
  <2>b. 0 # 1
    OBVIOUS
  <2>c. ASSUME g = GC!NoGroup PROVE FALSE
    <3>1. g.next_seq = 0
      BY <2>a, <2>c, Zenon
    <3> QED BY <1>1, <2>b, <3>1, Zenon
  <2> QED BY <2>c
<1> QED BY <1>1, <1>3, <1>4

\* What a step does to the group: nothing, a later generation, or its end; when it
\* comes into being the incarnation is a new one.
GroupSteps ==
    \/ /\ incarnation' = incarnation
       /\ Moves(group, group')
       /\ group = GC!NoGroup => group' = GC!NoGroup
    \/ incarnation' = incarnation + 1

LEMMA NoGroupFields == GC!NoGroup.members = {} /\ GC!NoGroup.generation = 0
BY DEF GC!NoGroup

\* LeaveGroup, the scanner and JoinGroup keep the group well-formed.
LEMMA LeaveStep ==
    ASSUME GroupOk, incarnation' = incarnation, NEW m,
           group' = group \/ group' = AfterLeave(m)
    PROVE  GroupOk' /\ GroupSteps
<1>1. CASE group' = group
  BY <1>1 DEF GroupOk, GroupSteps, Moves
<1>2. CASE group' = AfterLeave(m) /\ m \in group.members
  <2>a. group # GC!NoGroup /\ Formed(group) /\ Counted(group) /\ incarnation >= 1
    BY <1>2, NoGroupFields DEF GroupOk
  <2>b. PICK w : w = GC!Without(group, {m})
    OBVIOUS
  <2>c. CASE w.members = {}
    <3>1. group' = GC!NoGroup
      BY <1>2, <2>b, <2>c DEF AfterLeave
    <3> QED BY <3>1 DEF GroupOk, GroupSteps, Moves
  <2>d. CASE w.members # {}
    <3>1. group' = GC!Rebalance(w)
      BY <1>2, <2>b, <2>d DEF AfterLeave
    <3>2. Formed(group') /\ Counted(group') /\ group'.generation > group.generation
      BY <1>2, <2>a, <2>b, <2>d, <3>1, Removed
    <3>3. Formed(group)' /\ Counted(group)'
      BY <3>2
    <3> QED BY <2>a, <3>2, <3>3 DEF GroupOk, GroupSteps, Moves
  <2> QED BY <2>c, <2>d
<1>3. CASE group' = AfterLeave(m) /\ m \notin group.members
  BY <1>1, <1>3 DEF AfterLeave
<1> QED BY <1>1, <1>2, <1>3

LEMMA ExpireStep ==
    ASSUME GroupOk, NEW m \in group.members, Expire(m)
    PROVE  GroupOk' /\ GroupSteps
<1>1. group # GC!NoGroup /\ Formed(group) /\ Counted(group) /\ incarnation >= 1
  BY NoGroupFields DEF GroupOk
<1>2. PICK w : w = GC!Without(group, {m})
  OBVIOUS
<1>3. /\ group' = IF w.members = {} THEN GC!NoGroup ELSE GC!Expired(w)
      /\ incarnation' = incarnation
  BY <1>2 DEF Expire
<1>4. CASE w.members = {}
  BY <1>3, <1>4 DEF GroupOk, GroupSteps, Moves
<1>5. CASE w.members # {}
  <2>a. Formed(group') /\ Counted(group') /\ group'.generation > group.generation
    BY <1>1, <1>2, <1>3, <1>5, Removed
  <2>b. Formed(group)' /\ Counted(group)'
    BY <2>a
  <2> QED BY <1>1, <1>3, <2>a, <2>b DEF GroupOk, GroupSteps, Moves
<1> QED BY <1>4, <1>5

LEMMA JoinStep ==
    ASSUME GroupOk, incarnation \in Nat, NEW topic \in Topics, NEW m, ExecuteJoin(m, topic)
    PROVE  /\ GroupOk' /\ GroupSteps /\ incarnation' \in Nat /\ group' # GC!NoGroup
           /\ incarnation <= incarnation'
<1>1. PICK g : g = GC!GroupFor(topic)
  OBVIOUS
<1>2. /\ m = NoMember => g.next_seq \in 1 .. MaxMembers
      /\ incarnation' = IF group = GC!NoGroup THEN incarnation + 1 ELSE incarnation
      /\ group' = IF g.topic # topic THEN g
                  ELSE IF m = NoMember THEN GC!Rebalance(GC!WithMember(g, g.next_seq, 0))
                  ELSE IF m \in g.members /\ g.generation = 0 THEN GC!Rebalance(g)
                  ELSE g
  BY <1>1 DEF ExecuteJoin
<1>3. /\ Formed(g) /\ Counted(g) /\ g # GC!NoGroup
      /\ group # GC!NoGroup => g = group
  <2>a. CASE group = GC!NoGroup
    <3>1. g = [GC!NoGroup EXCEPT !.topic = topic, !.next_seq = 1]
      BY <1>1, <2>a DEF GC!GroupFor
    <3> QED BY <2>a, <3>1, Founded
  <2>b. CASE group # GC!NoGroup
    BY <1>1, <2>b DEF GC!GroupFor, GroupOk
  <2> QED BY <2>a, <2>b
<1>4. incarnation' \in Nat /\ incarnation' >= 1 /\ incarnation <= incarnation'
  BY <1>2 DEF GroupOk
<1>5. ~(m \in g.members /\ g.generation = 0)
  BY <1>3 DEF Formed
<1>6. \/ group' = g
      \/ /\ group' = GC!Rebalance(GC!WithMember(g, g.next_seq, 0))
         /\ g.next_seq \in 1 .. MaxMembers
  BY <1>2, <1>5
<1>7. CASE group' = g
  <2>a. Formed(group)' /\ Counted(group)'
    BY <1>3, <1>7
  <2> QED BY <1>2, <1>3, <1>4, <1>7, <2>a DEF GroupOk, GroupSteps, Moves
<1>8. CASE /\ group' = GC!Rebalance(GC!WithMember(g, g.next_seq, 0))
           /\ g.next_seq \in 1 .. MaxMembers
  <2>a. Formed(group') /\ Counted(group') /\ group'.generation > g.generation
        /\ g.next_seq \in group'.members
    BY <1>3, <1>8, Added
  <2>b. Formed(group)' /\ Counted(group)'
    BY <2>a
  <2>c. group' # GC!NoGroup
    BY <2>a, NoGroupFields
  <2> QED BY <1>2, <1>3, <1>4, <2>a, <2>b, <2>c DEF GroupOk, GroupSteps, Moves
<1> QED BY <1>6, <1>7, <1>8

----------------------------------------
(* What a step leaves alone *)

LEMMA GroupFields ==
    ASSUME GroupOk
    PROVE  /\ group.generation \in Nat
           /\ \A m \in group.members : m \in Nat /\ m # NoMember
           /\ group.members # {} => /\ group # GC!NoGroup /\ group.generation >= 1
                                    /\ group.topic \in Topics
           /\ \A m \in group.members : group.assignment[m] \subseteq Partitions
<1>1. CASE group = GC!NoGroup
  BY <1>1, NoGroupFields
<1>2. CASE Formed(group)
  <2>a. \A m \in 1 .. group.next_seq - 1 : m \in Nat /\ m # 0
    BY <1>2, Constants DEF Formed
  <2>b. group.members # {} => group # GC!NoGroup
    BY NoGroupFields
  <2> QED BY <1>2, <2>a, <2>b DEF Formed, NoMember
<1> QED BY <1>1, <1>2 DEF GroupOk

\* What holds of a token, a call and a membership outlasts the steps of others.
LEMMA FreshKept ==
    ASSUME GroupOk, incarnation \in Nat, GroupSteps, GroupOk', NEW t \in Tokens,
           Fresh(t, group, incarnation)
    PROVE  Fresh(t, group', incarnation')
<1>1. t.incarnation \in Nat /\ t.generation \in Nat /\ group.generation \in Nat
  BY GroupFields DEF Tokens
<1>2. group'.generation \in Nat
  <2>a. group' = GC!NoGroup \/ Formed(group')
    BY DEF GroupOk
  <2>b. group' = GC!NoGroup => group'.generation = 0
    BY NoGroupFields
  <2> QED BY <2>a, <2>b DEF Formed
<1> QED BY <1>1, <1>2 DEF Fresh, GroupSteps, Moves

LEMMA CurrentKept ==
    ASSUME GroupOk, incarnation \in Nat, GroupSteps, GroupOk', NEW t \in Tokens, NEW D,
           Current(t, D, group, incarnation)
    PROVE  Current(t, D, group', incarnation')
<1>1. t.incarnation \in Nat /\ t.generation \in Nat /\ group.generation \in Nat
  BY GroupFields DEF Tokens
<1>2. Fresh(t, group, incarnation)
  BY DEF Current
<1>3. Fresh(t, group', incarnation')
  BY <1>2, FreshKept
<1>4. SUFFICES ASSUME t.incarnation = incarnation', t.member \in group'.members,
                      t.generation = group'.generation
               PROVE  D = LogsOf(group'.topic, group'.assignment[t.member])
  BY <1>3 DEF Current
<1>5. incarnation' = incarnation
  BY <1>1, <1>2, <1>4 DEF GroupSteps, Fresh
<1>6. group' # GC!NoGroup
  BY <1>4, NoGroupFields
<1>7. group' = group \/ group'.generation > group.generation
  BY <1>5, <1>6 DEF GroupSteps, Moves
<1>8. group # GC!NoGroup
  BY <1>5, <1>6 DEF GroupSteps
<1>9. t.generation <= group.generation
  BY <1>2, <1>4, <1>5, <1>8 DEF Fresh
<1>10. group' = group
  BY <1>1, <1>4, <1>7, <1>9
<1> QED BY <1>4, <1>5, <1>10 DEF Current

LEMMA CallTokens ==
    ASSUME NEW k, NEW topic, NEW seen, CallOk(k, topic, seen), k.op \in {"join", "sync", "restore"}
    PROVE  k.token \in Tokens
BY DEF CallOk, Joining, Restoring

LEMMA GrantedKept ==
    ASSUME GroupOk, incarnation \in Nat, GroupSteps, GroupOk', incarnation' \in Nat,
           NEW k, NEW topic, NEW seen,
           CallOk(k, topic, seen), Granted(k, group, incarnation)
    PROVE  Granted(k, group', incarnation')
<1>1. k.op = "join" => k.token.incarnation <= incarnation'
  <2>a. k.op = "join" => k.token.incarnation \in Nat /\ k.token.incarnation <= incarnation
    BY CallTokens DEF Granted, Tokens
  <2>b. incarnation <= incarnation'
    BY DEF GroupSteps
  <2> QED BY <2>a, <2>b
<1>2. k.op = "sync" => Fresh(k.token, group', incarnation')
  BY CallTokens, FreshKept DEF Granted
<1>3. k.op = "restore" => Current(k.token, DOMAIN k.pos \cup k.todo, group', incarnation')
  BY CallTokens, CurrentKept DEF Granted
<1> QED BY <1>1, <1>2, <1>3 DEF Granted

LEMMA SeenMore ==
    ASSUME NEW k, NEW topic, NEW seen, NEW more, seen \subseteq more, CallOk(k, topic, seen)
    PROVE  CallOk(k, topic, more)
<1>1. Restoring(k, more)
  BY DEF CallOk, Restoring, Passed
<1>2. Fetching(k, more)
  BY DEF CallOk, Fetching, Passed
<1>3. Committing(k, more)
  BY DEF CallOk, Committing, Passed
<1> QED BY <1>1, <1>2, <1>3 DEF CallOk

LEMMA MemberKept ==
    ASSUME GroupOk, incarnation \in Nat, GroupSteps, GroupOk', delivered \subseteq delivered',
           NEW m \in Members, NEW p, MemberOk(m, p, delivered, group, incarnation)
    PROVE  MemberOk(m, p, delivered', group', incarnation')
<1>1. m.token \in Tokens
  BY DEF Members
<1>2. Fresh(m.token, group', incarnation')
  BY <1>1, FreshKept DEF MemberOk
<1>3. m.subscribed => Current(m.token, DOMAIN p, group', incarnation')
  BY <1>1, CurrentKept DEF MemberOk
<1>4. Passed(p, delivered')
  BY DEF MemberOk, Passed
<1> QED BY <1>2, <1>3, <1>4 DEF MemberOk

\* A step of consumer c.
LEMMA OneConsumer ==
    ASSUME Inv, Types', GroupOk', GroupSteps, delivered \subseteq delivered',
           Passed(committed', delivered'), NEW c \in Consumers,
           \A d \in Consumers \ {c} : /\ call'[d] = call[d] /\ member'[d] = member[d]
                                      /\ position'[d] = position[d],
           CallOk(call'[c], member'[c].topic, delivered'),
           Granted(call'[c], group', incarnation'),
           MemberOk(member'[c], position'[c], delivered', group', incarnation')
    PROVE  Inv'
<1>1. GroupOk /\ incarnation \in Nat /\ incarnation' \in Nat /\ member \in [Consumers -> Members]
  BY DEF Inv, Types
<1>2. ASSUME NEW d \in Consumers \ {c}
      PROVE  /\ CallOk(call'[d], member'[d].topic, delivered')
             /\ Granted(call'[d], group', incarnation')
             /\ MemberOk(member'[d], position'[d], delivered', group', incarnation')
  <2>a. PICK k, m, p : k = call[d] /\ m = member[d] /\ p = position[d]
    OBVIOUS
  <2>b. /\ CallOk(k, m.topic, delivered) /\ Granted(k, group, incarnation)
        /\ MemberOk(m, p, delivered, group, incarnation) /\ m \in Members
    BY <1>1, <2>a DEF Inv
  <2>c. CallOk(k, m.topic, delivered')
    BY <2>b, SeenMore
  <2>d. Granted(k, group', incarnation')
    BY <1>1, <2>b, GrantedKept
  <2>e. MemberOk(m, p, delivered', group', incarnation')
    BY <1>1, <2>b, MemberKept
  <2>f. call'[d] = k /\ member'[d] = m /\ position'[d] = p
    BY <2>a
  <2> QED BY <2>c, <2>d, <2>e, <2>f
<1>3. \A d \in Consumers : /\ CallOk(call'[d], member'[d].topic, delivered')
                           /\ Granted(call'[d], group', incarnation')
                           /\ MemberOk(member'[d], position'[d], delivered', group', incarnation')
  BY <1>2
<1> QED BY <1>3 DEF Inv

\* A step in which consumer c gets a new call, membership and position.
LEMMA ConsumerStep ==
    ASSUME Inv, NEW c \in Consumers, NEW k, NEW m \in Members, NEW p \in Positions,
           call' = [call EXCEPT ![c] = k], member' = [member EXCEPT ![c] = m],
           position' = [position EXCEPT ![c] = p],
           UNCHANGED <<logs, committed>>, delivered \subseteq delivered',
           incarnation' \in Nat, GroupOk', GroupSteps,
           CallOk(k, m.topic, delivered'), Granted(k, group', incarnation'),
           MemberOk(m, p, delivered', group', incarnation')
    PROVE  Inv'
<1>1. Types /\ Passed(committed, delivered)
  BY DEF Inv
<1>2. /\ \A d \in Consumers \ {c} : /\ call'[d] = call[d] /\ member'[d] = member[d]
                                    /\ position'[d] = position[d]
      /\ call'[c] = k /\ member'[c] = m /\ position'[c] = p
      /\ call' = [d \in Consumers |-> call'[d]]
      /\ member' \in [Consumers -> Members] /\ position' \in [Consumers -> Positions]
  BY <1>1 DEF Types
<1>3. Types'
  BY <1>1, <1>2 DEF Types, logs
<1>4. Passed(committed', delivered')
  BY <1>1 DEF Passed
<1> QED BY <1>2, <1>3, <1>4, OneConsumer

\* A step in which only the call of consumer c and the broker change.
LEMMA CallStep ==
    ASSUME Inv, NEW c \in Consumers, NEW k, call' = [call EXCEPT ![c] = k],
           UNCHANGED <<member, position, delivered>>,
           log_end' \in [Logs -> Nat], visible' \in [Logs -> Nat],
           committed' \in [Logs -> Nat], Passed(committed', delivered),
           incarnation' \in Nat, GroupOk', GroupSteps,
           CallOk(k, member[c].topic, delivered), Granted(k, group', incarnation')
    PROVE  Inv'
<1>1. Types /\ GroupOk /\ incarnation \in Nat
  BY DEF Inv, Types
<1>2. /\ \A d \in Consumers \ {c} : call'[d] = call[d]
      /\ call'[c] = k /\ call' = [d \in Consumers |-> call'[d]]
  BY <1>1 DEF Types
<1>3. Types'
  BY <1>1, <1>2 DEF Types
<1>4. PICK m, p : m = member[c] /\ p = position[c]
  OBVIOUS
<1>5. m \in Members /\ MemberOk(m, p, delivered, group, incarnation)
  BY <1>1, <1>4 DEF Inv, Types
<1>6. MemberOk(m, p, delivered', group', incarnation')
  BY <1>1, <1>5, MemberKept
<1>7. MemberOk(member'[c], position'[c], delivered', group', incarnation')
  BY <1>4, <1>6
<1> QED BY <1>2, <1>3, <1>7, OneConsumer

LEMMA SameGroup ==
    ASSUME Inv, UNCHANGED <<group, incarnation>>
    PROVE  GroupOk' /\ GroupSteps /\ incarnation' \in Nat
BY DEF Inv, Types, GroupOk, GroupSteps, Moves

\* A step in which only the call of consumer c changes.
LEMMA CallOnly ==
    ASSUME Inv, NEW c \in Consumers, NEW k, call' = [call EXCEPT ![c] = k],
           UNCHANGED <<broker, member, position, delivered>>,
           CallOk(k, member[c].topic, delivered), Granted(k, group, incarnation)
    PROVE  Inv'
<1>1. UNCHANGED <<group, incarnation, log_end, visible, committed, member, position, delivered>>
  BY DEF broker, logs
<1>2. /\ log_end' \in [Logs -> Nat] /\ visible' \in [Logs -> Nat]
      /\ committed' \in [Logs -> Nat] /\ Passed(committed', delivered)
  BY <1>1 DEF Inv, Types
<1>3. Granted(k, group', incarnation')
  BY <1>1
<1> QED BY <1>1, <1>2, <1>3, SameGroup, CallStep

\* Calls of which the invariant says nothing, or little.
LEMMA PlainCall ==
    ASSUME NEW k, NEW topic, NEW seen, NEW g, NEW n,
           k.op \in {"idle", "snapshot", "nack", "leave"}
    PROVE  CallOk(k, topic, seen) /\ Granted(k, g, n)
BY DEF CallOk, Granted, Topical, Joining, Restoring, Fetching, Committing

LEMMA BeginCall ==
    ASSUME NEW k, NEW topic \in Topics, NEW seen, NEW g, NEW n, k.op = "begin"
    PROVE  CallOk(k, topic, seen) /\ Granted(k, g, n)
BY DEF CallOk, Granted, Topical, Joining, Restoring, Fetching, Committing

LEMMA IdleCall ==
    ASSUME NEW topic, NEW seen, NEW g, NEW n
    PROVE  CallOk(Idle, topic, seen) /\ Granted(Idle, g, n)
<1>1. Idle.op = "idle"
  BY DEF Idle
<1> QED BY <1>1, PlainCall

\* What the invariant says of one consumer.
LEMMA OfConsumer ==
    ASSUME Inv, NEW c \in Consumers
    PROVE  /\ member[c] \in Members /\ position[c] \in Positions
           /\ CallOk(call[c], member[c].topic, delivered)
           /\ Granted(call[c], group, incarnation)
           /\ MemberOk(member[c], position[c], delivered, group, incarnation)
           /\ member[c].token \in Tokens /\ member[c].topic \in Topics \cup {""}
           /\ Fresh(member[c].token, group, incarnation)
           /\ Passed(position[c], delivered)
           /\ GroupOk /\ incarnation \in Nat
<1>1. member[c] \in Members
  BY DEF Inv, Types
<1>2. member[c].token \in Tokens /\ member[c].topic \in Topics \cup {""}
  BY <1>1 DEF Members
<1> QED BY <1>1, <1>2 DEF Inv, Types, MemberOk

LEMMA EmptyPosition == <<>> \in Positions /\ DOMAIN <<>> = {} /\ \A seen : Passed(<<>>, seen)
<1>1. <<>> \in [{} -> Nat] /\ DOMAIN <<>> = {}
  OBVIOUS
<1> QED BY <1>1 DEF Positions, Passed

LEMMA PositionType ==
    ASSUME NEW p \in Positions
    PROVE  /\ DOMAIN p \subseteq Logs /\ p \in [DOMAIN p -> Nat]
           /\ \A l \in DOMAIN p : p[l] \in Nat
BY DEF Positions

LEMMA MakesPosition ==
    ASSUME NEW S \in SUBSET Logs, NEW p \in [S -> Nat]
    PROVE  p \in Positions
BY DEF Positions

LEMMA NoTokenOk ==
    ASSUME GroupOk, incarnation \in Nat
    PROVE  NoToken \in Tokens /\ Fresh(NoToken, group, incarnation)
<1>1. NoToken \in Tokens /\ NoToken.incarnation = 0 /\ NoToken.generation = 0
  BY DEF NoToken, Tokens, NoMember
<1>2. group.generation \in Nat
  BY GroupFields
<1> QED BY <1>1, <1>2 DEF Fresh

----------------------------------------
(* The actions of Subscribe and JoinAndSync *)

LEMMA Unsubscribed ==
    ASSUME NEW m, NEW seen, NEW g, NEW n, Fresh(m.token, g, n), m.subscribed = FALSE
    PROVE  MemberOk(m, <<>>, seen, g, n)
BY EmptyPosition DEF MemberOk

LEMMA TakesTopic ==
    ASSUME NEW m \in Members, NEW topic \in Topics
    PROVE  LET x == TakeTopic(m, topic)
           IN  x \in Members /\ x.token = m.token /\ x.topic = topic /\ x.subscribed = FALSE
BY DEF TakeTopic, Members

LEMMA SubscribeInv ==
    ASSUME Inv, NEW c \in Consumers, NEW topic \in Topics, Subscribe(c, topic)
    PROVE  Inv'
<1>1. /\ UNCHANGED <<broker, delivered>>
  BY DEF Subscribe
<1>2. UNCHANGED <<group, incarnation, logs, committed, delivered>>
  BY <1>1 DEF broker
<1>3. GroupOk' /\ GroupSteps /\ incarnation' \in Nat
  BY <1>2, SameGroup
<1>4. CASE topic # member[c].topic /\ member[c].token.member # NoMember
  <2>a. PICK m, k : /\ m = [member[c] EXCEPT !.stop = TRUE]
                    /\ k = [op |-> "switch", topic |-> topic, token |-> member[c].token]
    OBVIOUS
  <2>b. /\ member' = [member EXCEPT ![c].stop = TRUE]
        /\ call' = [call EXCEPT ![c] = k]
        /\ UNCHANGED position
    BY <1>4, <2>a DEF Subscribe
  <2>c. member' = [member EXCEPT ![c] = m]
    BY <2>a, <2>b
  <2>d. /\ m \in Members /\ m.token = member[c].token /\ m.topic = member[c].topic
        /\ m.subscribed = member[c].subscribed
    BY <2>a, OfConsumer DEF Members
  <2>e. MemberOk(m, position[c], delivered, group, incarnation)
    BY <2>d, OfConsumer DEF MemberOk
  <2>f. k.op = "switch" /\ k.topic = topic
    BY <2>a
  <2>g. CallOk(k, m.topic, delivered) /\ Granted(k, group, incarnation)
    BY <2>f DEF CallOk, Granted, Topical, Joining, Restoring, Fetching, Committing
  <2>h. position' = [position EXCEPT ![c] = position[c]] /\ position[c] \in Positions
    BY <2>b, OfConsumer DEF Inv, Types
  <2> QED BY <1>2, <1>3, <2>b, <2>c, <2>d, <2>e, <2>g, <2>h, ConsumerStep
<1>5. CASE ~(topic # member[c].topic /\ member[c].token.member # NoMember)
  <2>a. PICK m, k : /\ m = TakeTopic(member[c], topic)
                    /\ k = [op |-> "begin", by |-> "Subscribe"]
    OBVIOUS
  <2>b. /\ member' = [member EXCEPT ![c] = m]
        /\ call' = [call EXCEPT ![c] = k]
        /\ position' = [position EXCEPT ![c] = <<>>]
    BY <1>5, <2>a DEF Subscribe
  <2>c. m \in Members /\ m.token = member[c].token /\ m.topic = topic /\ m.subscribed = FALSE
    BY <2>a, OfConsumer, TakesTopic
  <2>d. MemberOk(m, <<>>, delivered, group, incarnation)
    BY <2>c, OfConsumer, Unsubscribed
  <2>e. k.op = "begin"
    BY <2>a
  <2>f. CallOk(k, m.topic, delivered) /\ Granted(k, group, incarnation)
    BY <2>c, <2>e, BeginCall
  <2> QED BY <1>2, <1>3, <2>b, <2>c, <2>d, <2>f, EmptyPosition, ConsumerStep
<1> QED BY <1>4, <1>5

LEMMA SwitchTopicInv ==
    ASSUME Inv, NEW c \in Consumers, SwitchTopic(c)
    PROVE  Inv'
<1>1. PICK m, k : /\ m = [TakeTopic(member[c], call[c].topic) EXCEPT !.token = NoToken]
                  /\ k = [op |-> "begin", by |-> "Subscribe"]
  OBVIOUS
<1>2. /\ call[c].op = "switch"
      /\ group' = AfterLeave(call[c].token.member)
      /\ member' = [member EXCEPT ![c] = m]
      /\ position' = [position EXCEPT ![c] = <<>>]
      /\ call' = [call EXCEPT ![c] = k]
      /\ UNCHANGED <<incarnation, logs, committed, delivered>>
  BY <1>1 DEF SwitchTopic, Inv, Types
<1>3. call[c].topic \in Topics
  BY <1>2, OfConsumer DEF CallOk, Topical
<1>4. GroupOk' /\ GroupSteps /\ incarnation' \in Nat
  BY <1>2, OfConsumer, LeaveStep
<1>5. m \in Members /\ m.token = NoToken /\ m.topic = call[c].topic /\ m.subscribed = FALSE
  <2>a. PICK x : x = TakeTopic(member[c], call[c].topic)
    OBVIOUS
  <2>b. x \in Members /\ x.topic = call[c].topic /\ x.subscribed = FALSE
    BY <1>3, <2>a, OfConsumer, TakesTopic
  <2>c. NoToken \in Tokens
    BY OfConsumer, NoTokenOk
  <2> QED BY <1>1, <2>a, <2>b, <2>c DEF Members
<1>6. Fresh(NoToken, group', incarnation')
  BY <1>4, OfConsumer, NoTokenOk, FreshKept
<1>7. MemberOk(m, <<>>, delivered', group', incarnation')
  BY <1>5, <1>6, Unsubscribed
<1>8. k.op = "begin"
  BY <1>1
<1>9. CallOk(k, m.topic, delivered') /\ Granted(k, group', incarnation')
  BY <1>3, <1>5, <1>8, BeginCall
<1> QED BY <1>2, <1>4, <1>5, <1>7, <1>9, EmptyPosition, ConsumerStep

\* A step that asks the heartbeat thread to stop, or no longer does.
LEMMA Restopped ==
    ASSUME Inv, NEW c \in Consumers, NEW b \in BOOLEAN, NEW k,
           GroupOk', GroupSteps, incarnation' = incarnation,
           member' = [member EXCEPT ![c].stop = b], call' = [call EXCEPT ![c] = k],
           UNCHANGED <<logs, committed, position, delivered>>,
           k.op \in {"idle", "leave"}
    PROVE  Inv'
<1>1. PICK m : m = [member[c] EXCEPT !.stop = b]
  OBVIOUS
<1>2. member' = [member EXCEPT ![c] = m]
  BY <1>1
<1>3. /\ m \in Members /\ m.token = member[c].token /\ m.topic = member[c].topic
      /\ m.subscribed = member[c].subscribed
  BY <1>1, OfConsumer DEF Members
<1>4. PICK p : p = position[c]
  OBVIOUS
<1>5. MemberOk(m, p, delivered, group, incarnation)
  BY <1>3, <1>4, OfConsumer DEF MemberOk
<1>6. MemberOk(m, p, delivered', group', incarnation')
  BY <1>3, <1>5, OfConsumer, MemberKept
<1>7. CallOk(k, m.topic, delivered') /\ Granted(k, group', incarnation')
  BY PlainCall
<1>8. position' = [position EXCEPT ![c] = p] /\ p \in Positions
  BY <1>4, OfConsumer DEF Inv, Types
<1>9. incarnation' \in Nat
  BY OfConsumer
<1> QED BY <1>2, <1>3, <1>6, <1>7, <1>8, <1>9, ConsumerStep

LEMMA SwitchFailsInv ==
    ASSUME Inv, NEW c \in Consumers, SwitchFails(c)
    PROVE  Inv'
<1>1. /\ group' = group \/ group' = AfterLeave(call[c].token.member)
      /\ member' = [member EXCEPT ![c].stop = FALSE]
      /\ call' = [call EXCEPT ![c] = Idle]
      /\ UNCHANGED <<incarnation, logs, committed, position, delivered>>
  BY DEF SwitchFails
<1>2. GroupOk' /\ GroupSteps
  BY <1>1, OfConsumer, LeaveStep
<1>3. Idle.op = "idle"
  BY DEF Idle
<1> QED BY <1>1, <1>2, <1>3, Restopped

LEMMA JoinAndSyncInv ==
    ASSUME Inv, NEW c \in Consumers, JoinAndSync(c)
    PROVE  Inv'
<1>1. PICK k : k = [op |-> "join", by |-> call[c].by, token |-> member[c].token]
  OBVIOUS
<1>2. /\ call[c].op = "begin" /\ call' = [call EXCEPT ![c] = k]
      /\ UNCHANGED <<broker, member, position, delivered>>
  BY <1>1 DEF JoinAndSync, Inv, Types
<1>3. /\ k = [op |-> k.op, by |-> k.by, token |-> k.token]
      /\ k.op = "join" /\ k.token = member[c].token
  BY <1>1
<1>4. member[c].topic \in Topics
  BY <1>2, OfConsumer DEF CallOk, Topical
<1>5. CallOk(k, member[c].topic, delivered)
  BY <1>3, <1>4, OfConsumer DEF CallOk, Topical, Joining, Restoring, Fetching, Committing
<1>6. Granted(k, group, incarnation)
  BY <1>3, OfConsumer DEF Granted, Fresh
<1> QED BY <1>2, <1>5, <1>6, CallOnly

LEMMA SendJoinGroupInv ==
    ASSUME Inv, NEW c \in Consumers, SendJoinGroup(c)
    PROVE  Inv'
<1>1. PICK t, topic : t = call[c].token /\ topic = member[c].topic
  OBVIOUS
<1>2. PICK m, granted :
         /\ m = IF t.member = NoMember THEN group'.next_seq - 1 ELSE t.member
         /\ granted = [member |-> m, generation |-> group'.generation,
                       incarnation |-> IF t.member = NoMember THEN incarnation'
                                       ELSE t.incarnation]
  OBVIOUS
<1>3. PICK k : k = IF group'.topic # topic THEN Idle
                   ELSE IF m \in group'.members
                   THEN [call[c] EXCEPT !.op = "sync", !.token = granted]
                   ELSE [call[c] EXCEPT !.token = NoToken]
  OBVIOUS
<1>4. /\ call[c].op = "join" /\ ExecuteJoin(t.member, topic)
      /\ call' = [call EXCEPT ![c] = k]
      /\ UNCHANGED <<member, position, delivered>>
  BY <1>1, <1>2, <1>3 DEF SendJoinGroup, Inv, Types
<1>5. topic \in Topics /\ t \in Tokens /\ t.incarnation <= incarnation
      /\ call[c] = [op |-> call[c].op, by |-> call[c].by, token |-> call[c].token]
  BY <1>1, <1>4, OfConsumer DEF CallOk, Topical, Joining, Granted
<1>6. /\ GroupOk' /\ GroupSteps /\ incarnation' \in Nat /\ group' # GC!NoGroup
      /\ incarnation <= incarnation' /\ incarnation \in Nat
  BY <1>4, <1>5, OfConsumer, JoinStep
<1>7. UNCHANGED <<logs, committed>>
  BY <1>4 DEF ExecuteJoin
<1>8. CallOk(k, topic, delivered) /\ Granted(k, group', incarnation')
  <2>a. CASE k = Idle
    BY <2>a, IdleCall
  <2>b. CASE m \in group'.members /\ k = [call[c] EXCEPT !.op = "sync", !.token = granted]
    <3>1. /\ k.op = "sync" /\ k.token = granted
          /\ k = [op |-> k.op, by |-> k.by, token |-> k.token]
      BY <1>5, <2>b
    <3>2. Formed(group')
      BY <1>6 DEF GroupOk
    <3>3. m \in Nat /\ group'.generation \in Nat
      <4>1. group'.members \subseteq 1 .. group'.next_seq - 1 /\ group'.next_seq \in Nat
        BY <3>2, Constants DEF Formed
      <4> QED BY <2>b, <3>2, <4>1 DEF Formed
    <3>4. PICK n : n = (IF t.member = NoMember THEN incarnation' ELSE t.incarnation)
      OBVIOUS
    <3>5. n \in Nat /\ n <= incarnation'
      BY <1>5, <1>6, <3>4 DEF Tokens
    <3>6. granted = [member |-> m, generation |-> group'.generation, incarnation |-> n]
      BY <1>2, <3>4
    <3>7. granted \in Tokens /\ granted.incarnation = n /\ granted.generation = group'.generation
      BY <3>3, <3>5, <3>6 DEF Tokens
    <3>8. Fresh(granted, group', incarnation')
      BY <3>3, <3>5, <3>7 DEF Fresh
    <3> QED BY <1>5, <3>1, <3>7, <3>8
            DEF CallOk, Topical, Joining, Restoring, Fetching, Committing, Granted
  <2>c. CASE k = [call[c] EXCEPT !.token = NoToken]
    <3>1. /\ k.op = "join" /\ k.token = NoToken
          /\ k = [op |-> k.op, by |-> k.by, token |-> k.token]
      BY <1>4, <1>5, <2>c
    <3>2. NoToken \in Tokens /\ NoToken.incarnation = 0
      BY OfConsumer, NoTokenOk DEF NoToken
    <3> QED BY <1>5, <1>6, <3>1, <3>2
            DEF CallOk, Topical, Joining, Restoring, Fetching, Committing, Granted
  <2> QED BY <1>3, <2>a, <2>b, <2>c
<1>9. /\ log_end' \in [Logs -> Nat] /\ visible' \in [Logs -> Nat]
      /\ committed' \in [Logs -> Nat] /\ Passed(committed', delivered)
  BY <1>7 DEF Inv, Types, logs
<1> QED BY <1>1, <1>4, <1>6, <1>8, <1>9, CallStep

LEMMA SendSyncGroupInv ==
    ASSUME Inv, NEW c \in Consumers, SendSyncGroup(c)
    PROVE  Inv'
<1>1. PICK t : t = call[c].token
  OBVIOUS
<1>2. PICK todo : todo = LogsOf(group.topic, group.assignment[t.member])
  OBVIOUS
<1>3. PICK k : k = IF Answer(t) = "None"
                   THEN [op |-> "restore", by |-> call[c].by, token |-> t, pos |-> <<>>, todo |-> todo]
                   ELSE Idle
  OBVIOUS
<1>4. /\ call[c].op = "sync" /\ call' = [call EXCEPT ![c] = k]
      /\ UNCHANGED <<broker, member, position, delivered>>
  BY <1>1, <1>2, <1>3 DEF SendSyncGroup, Inv, Types
<1>5. /\ member[c].topic \in Topics /\ t \in Tokens /\ Fresh(t, group, incarnation)
  BY <1>1, <1>4, OfConsumer DEF CallOk, Topical, Joining, Granted
<1>6. CASE Answer(t) # "None"
  BY <1>3, <1>4, <1>6, IdleCall, CallOnly
<1>7. CASE Answer(t) = "None"
  <2>a. t.member \in group.members /\ t.generation = group.generation
    BY <1>7 DEF Answer
  <2>b. group.topic \in Topics /\ group.assignment[t.member] \subseteq Partitions
    BY <2>a, OfConsumer, GroupFields
  <2>c. todo \subseteq Logs
    BY <1>2, <2>b DEF LogsOf, Logs
  <2>d. /\ k.op = "restore" /\ k.token = t /\ k.pos = <<>> /\ k.todo = todo
        /\ k = [op |-> k.op, by |-> k.by, token |-> k.token, pos |-> k.pos, todo |-> k.todo]
    BY <1>3, <1>7
  <2>e. CallOk(k, member[c].topic, delivered)
    BY <1>5, <2>c, <2>d, EmptyPosition
       DEF CallOk, Topical, Joining, Restoring, Fetching, Committing
  <2>f. DOMAIN k.pos \cup k.todo = todo
    BY <2>d, EmptyPosition
  <2>g. Current(t, todo, group, incarnation)
    BY <1>2, <1>5 DEF Current
  <2>h. Granted(k, group, incarnation)
    BY <2>d, <2>f, <2>g DEF Granted
  <2> QED BY <1>4, <2>e, <2>h, CallOnly
<1> QED BY <1>6, <1>7

LEMMA FetchCommittedOffsetInv ==
    ASSUME Inv, NEW c \in Consumers, FetchCommittedOffset(c)
    PROVE  Inv'
<1>1. PICK l, old, left : l = First(call[c].todo) /\ old = call[c].pos /\ left = call[c].todo \ {l}
  OBVIOUS
<1>2. PICK new : new = [x \in DOMAIN old \cup {l} |-> IF x = l THEN committed[l] ELSE old[x]]
  OBVIOUS
<1>3. PICK k : k = [op |-> call[c].op, by |-> call[c].by, token |-> call[c].token,
                    pos |-> new, todo |-> left]
  OBVIOUS
<1>4. /\ call[c].op = "restore" /\ call[c].todo # {}
      /\ UNCHANGED <<broker, member, position, delivered>>
      /\ call' = [call EXCEPT ![c].todo = left, ![c].pos = new]
  BY <1>1, <1>2 DEF FetchCommittedOffset
<1>5. /\ call[c] = [op |-> call[c].op, by |-> call[c].by, token |-> call[c].token,
                    pos |-> old, todo |-> call[c].todo]
      /\ call[c].token \in Tokens /\ old \in Positions /\ call[c].todo \subseteq Logs
      /\ Passed(old, delivered) /\ member[c].topic \in Topics
      /\ Current(call[c].token, DOMAIN old \cup call[c].todo, group, incarnation)
  BY <1>1, <1>4, OfConsumer DEF CallOk, Topical, Restoring, Granted
<1>6. call' = [call EXCEPT ![c] = k]
  <2>a. [[call[c] EXCEPT !.todo = left] EXCEPT !.pos = new] = k
    <3>1. PICK r, o, b, t : r = call[c] /\ o = r.op /\ b = r.by /\ t = r.token
      OBVIOUS
    <3>2. r = [op |-> o, by |-> b, token |-> t, pos |-> old, todo |-> call[c].todo]
      BY <1>5, <3>1
    <3>3. [[r EXCEPT !.todo = left] EXCEPT !.pos = new]
             = [op |-> o, by |-> b, token |-> t, pos |-> new, todo |-> left]
      <4>1. PICK a : a = [r EXCEPT !.todo = left]
        OBVIOUS
      <4>2. a = [op |-> o, by |-> b, token |-> t, pos |-> old, todo |-> left]
        BY <3>2, <4>1
      <4>3. [a EXCEPT !.pos = new] = [op |-> o, by |-> b, token |-> t, pos |-> new, todo |-> left]
        BY <4>2
      <4> QED BY <4>1, <4>3, Zenon
    <3> QED BY <1>3, <3>1, <3>3
  <2> QED BY <1>4, <2>a
<1>7. l \in call[c].todo /\ l \in Logs
  BY <1>1, <1>4, <1>5, FirstInside
<1>8. committed \in [Logs -> Nat] /\ Passed(committed, delivered)
  BY DEF Inv, Types
<1>9. new \in Positions /\ DOMAIN new = DOMAIN old \cup {l}
  <2>a. DOMAIN old \subseteq Logs /\ \A x \in DOMAIN old : old[x] \in Nat
    BY <1>5, PositionType
  <2>b. new \in [DOMAIN old \cup {l} -> Nat]
    BY <1>2, <1>7, <1>8, <2>a
  <2> QED BY <1>7, <2>a, <2>b, MakesPosition
<1>10. Passed(new, delivered)
  BY <1>2, <1>5, <1>7, <1>8 DEF Passed
<1>11. /\ k = [op |-> k.op, by |-> k.by, token |-> k.token, pos |-> k.pos, todo |-> k.todo]
       /\ k.op = "restore" /\ k.token = call[c].token /\ k.pos = new /\ k.todo = left
  BY <1>3, <1>4
<1>12. left \subseteq Logs /\ DOMAIN new \cup left = DOMAIN old \cup call[c].todo
  BY <1>1, <1>5, <1>7, <1>9
<1>13. CallOk(k, member[c].topic, delivered)
  BY <1>5, <1>9, <1>10, <1>11, <1>12
     DEF CallOk, Topical, Joining, Restoring, Fetching, Committing
<1>14. Granted(k, group, incarnation)
  BY <1>5, <1>11, <1>12 DEF Granted
<1> QED BY <1>4, <1>6, <1>13, <1>14, CallOnly

LEMMA JoinAndSyncFailsInv ==
    ASSUME Inv, NEW c \in Consumers, JoinAndSyncFails(c)
    PROVE  Inv'
<1>1. /\ call' = [call EXCEPT ![c] = Idle]
      /\ UNCHANGED <<member, position, delivered>>
      /\ \/ call[c].op = "join" /\ ExecuteJoin(call[c].token.member, member[c].topic)
         \/ UNCHANGED broker
  BY DEF JoinAndSyncFails
<1>2. CASE UNCHANGED broker
  BY <1>1, <1>2, IdleCall, CallOnly
<1>3. CASE call[c].op = "join" /\ ExecuteJoin(call[c].token.member, member[c].topic)
  <2>a. member[c].topic \in Topics
    BY <1>3, OfConsumer DEF CallOk, Topical
  <2>b. GroupOk' /\ GroupSteps /\ incarnation' \in Nat
    BY <1>3, <2>a, OfConsumer, JoinStep
  <2>c. UNCHANGED <<logs, committed>>
    BY <1>3 DEF ExecuteJoin
  <2>d. /\ log_end' \in [Logs -> Nat] /\ visible' \in [Logs -> Nat]
        /\ committed' \in [Logs -> Nat] /\ Passed(committed', delivered)
    BY <2>c DEF Inv, Types, logs
  <2> QED BY <1>1, <2>b, <2>d, IdleCall, CallStep
<1> QED BY <1>1, <1>2, <1>3

LEMMA InstallInv ==
    ASSUME Inv, NEW c \in Consumers, Install(c)
    PROVE  Inv'
<1>1. PICK t, p, s : /\ t = call[c].token /\ p = call[c].pos
                     /\ s = (member[c].stop /\ call[c].by # "Subscribe")
  OBVIOUS
<1>2. PICK m, k : /\ m = [member[c] EXCEPT !.token = t, !.subscribed = TRUE,
                                           !.needs_rejoin = FALSE, !.stop = s]
                  /\ k = IF call[c].by = "Subscribe" THEN Idle ELSE [op |-> "snapshot"]
  OBVIOUS
<1>3. /\ call[c].op = "restore" /\ call[c].todo = {}
      /\ position' = [position EXCEPT ![c] = p]
      /\ call' = [call EXCEPT ![c] = k]
      /\ UNCHANGED <<broker, delivered>>
  BY <1>1, <1>2 DEF Install
<1>4. member[c] \in Members /\ s \in BOOLEAN
  BY <1>1, OfConsumer
<1>5. member' = [member EXCEPT ![c] = m]
  <2>a. member' = [member EXCEPT ![c].token = t, ![c].subscribed = TRUE,
                                 ![c].needs_rejoin = FALSE, ![c].stop = s]
    BY <1>1 DEF Install, Inv, Types, Members
  <2> QED BY <1>2, <2>a
<1>6. /\ t \in Tokens /\ p \in Positions /\ Passed(p, delivered)
      /\ Current(t, DOMAIN p, group, incarnation)
  <2>a. /\ t \in Tokens /\ p \in Positions /\ Passed(p, delivered)
        /\ Current(t, DOMAIN p \cup call[c].todo, group, incarnation)
    BY <1>1, <1>3, OfConsumer DEF CallOk, Restoring, Granted
  <2>b. DOMAIN p \cup call[c].todo = DOMAIN p
    BY <1>3
  <2> QED BY <2>a, <2>b
<1>7. m \in Members /\ m.token = t /\ m.subscribed = TRUE
  BY <1>2, <1>4, <1>6 DEF Members
<1>8. MemberOk(m, p, delivered, group, incarnation)
  BY <1>6, <1>7 DEF MemberOk, Current
<1>9. CallOk(k, m.topic, delivered) /\ Granted(k, group, incarnation)
  <2>a. k.op \in {"idle", "snapshot"}
    BY <1>2 DEF Idle
  <2> QED BY <2>a, PlainCall
<1>10. UNCHANGED <<group, incarnation, logs, committed, delivered>>
  BY <1>3 DEF broker
<1>11. /\ MemberOk(m, p, delivered', group', incarnation')
       /\ CallOk(k, m.topic, delivered') /\ Granted(k, group', incarnation')
  BY <1>8, <1>9, <1>10
<1>12. GroupOk' /\ GroupSteps /\ incarnation' \in Nat
  BY <1>10, SameGroup
<1> QED BY <1>3, <1>5, <1>6, <1>7, <1>10, <1>11, <1>12, ConsumerStep

----------------------------------------
(* The actions of Poll, Seek, Nack, CommitSync and Close *)

LEMMA PollInv ==
    ASSUME Inv, NEW c \in Consumers, Poll(c)
    PROVE  Inv'
<1>1. PICK k : k = IF member[c].needs_rejoin THEN [op |-> "begin", by |-> "Poll"]
                   ELSE [op |-> "snapshot"]
  OBVIOUS
<1>2. /\ call' = [call EXCEPT ![c] = k] /\ member[c].topic # ""
      /\ UNCHANGED <<broker, member, position, delivered>>
  BY <1>1 DEF Poll
<1>3. k.op = "begin" \/ k.op = "snapshot"
  BY <1>1
<1>4. member[c].topic \in Topics
  BY <1>2, OfConsumer
<1>5. CallOk(k, member[c].topic, delivered) /\ Granted(k, group, incarnation)
  BY <1>3, <1>4, BeginCall, PlainCall
<1> QED BY <1>2, <1>5, CallOnly

LEMMA SnapshotInv ==
    ASSUME Inv, NEW c \in Consumers, Snapshot(c)
    PROVE  Inv'
<1>1. PICK t, p : t = member[c].token /\ p = position[c]
  OBVIOUS
<1>2. PICK k : k = [op |-> "fetch", token |-> t, pos |-> p, todo |-> DOMAIN p, out |-> {}]
  OBVIOUS
<1>3. /\ call' = [call EXCEPT ![c] = k]
      /\ UNCHANGED <<broker, member, position, delivered>>
  BY <1>1, <1>2 DEF Snapshot
<1>4. p \in Positions /\ Passed(p, delivered)
  BY <1>1, OfConsumer
<1>5. /\ k = [op |-> k.op, token |-> k.token, pos |-> k.pos, todo |-> k.todo, out |-> k.out]
      /\ k.op = "fetch" /\ k.pos = p /\ k.todo = DOMAIN p /\ k.out = {}
  BY <1>2
<1>6. delivered \cup k.out = delivered
  BY <1>5
<1>7. CallOk(k, member[c].topic, delivered) /\ Granted(k, group, incarnation)
  BY <1>4, <1>5, <1>6
     DEF CallOk, Topical, Joining, Restoring, Fetching, Committing, Granted
<1> QED BY <1>3, <1>7, CallOnly

LEMMA FetchInv ==
    ASSUME Inv, NEW c \in Consumers, Fetch(c)
    PROVE  Inv'
<1>1. PICK l, p, todo, t, out : /\ l = First(call[c].todo) /\ p = call[c].pos
                                /\ todo = call[c].todo /\ t = call[c].token /\ out = call[c].out
  OBVIOUS
<1>2. /\ call[c].op = "fetch" /\ todo # {}
      /\ UNCHANGED <<broker, member, position, delivered>>
  BY <1>1 DEF Fetch
<1>3. PICK end \in FetchEnds(l, p[l]) :
         call' = [call EXCEPT ![c].todo = @ \ {l}, ![c].pos[l] = end,
                              ![c].out = @ \cup ({l} \X (p[l] .. end - 1))]
  BY <1>1 DEF Fetch
<1>4. /\ call[c] = [op |-> "fetch", token |-> t, pos |-> p, todo |-> todo, out |-> out]
      /\ p \in Positions /\ todo \subseteq DOMAIN p /\ Passed(p, delivered \cup out)
  <2>a. /\ call[c] = [op |-> call[c].op, token |-> call[c].token, pos |-> call[c].pos,
                      todo |-> call[c].todo, out |-> call[c].out]
        /\ call[c].pos \in Positions /\ call[c].todo \subseteq DOMAIN call[c].pos
        /\ Passed(call[c].pos, delivered \cup call[c].out)
    BY <1>2, OfConsumer DEF CallOk, Fetching
  <2> QED BY <1>1, <1>2, <2>a
<1>5. PICK left, new, more : /\ left = todo \ {l} /\ new = [p EXCEPT ![l] = end]
                             /\ more = out \cup ({l} \X (p[l] .. end - 1))
  OBVIOUS
<1>6. PICK k : k = [op |-> "fetch", token |-> t, pos |-> new, todo |-> left, out |-> more]
  OBVIOUS
<1>7. call' = [call EXCEPT ![c] = k]
  <2>a. PICK r : r = call[c]
    OBVIOUS
  <2>b. call' = [call EXCEPT ![c] = [[[r EXCEPT !.todo = left] EXCEPT !.pos = new] EXCEPT !.out = more]]
    BY <1>1, <1>3, <1>4, <1>5, <2>a
  <2>c. [[[r EXCEPT !.todo = left] EXCEPT !.pos = new] EXCEPT !.out = more] = k
    <3>1. PICK a : a = [r EXCEPT !.todo = left]
      OBVIOUS
    <3>2. a = [op |-> "fetch", token |-> t, pos |-> p, todo |-> left, out |-> out]
      BY <1>4, <2>a, <3>1
    <3>3. PICK b : b = [a EXCEPT !.pos = new]
      OBVIOUS
    <3>4. b = [op |-> "fetch", token |-> t, pos |-> new, todo |-> left, out |-> out]
      BY <3>2, <3>3
    <3>5. [b EXCEPT !.out = more] = k
      BY <1>6, <3>4
    <3> QED BY <3>1, <3>3, <3>5, Zenon
  <2> QED BY <2>b, <2>c
<1>8. /\ DOMAIN p \subseteq Logs /\ p \in [DOMAIN p -> Nat] /\ l \in DOMAIN p /\ l \in Logs
      /\ p[l] \in Nat
  <2>a. DOMAIN p \subseteq Logs /\ p \in [DOMAIN p -> Nat]
    BY <1>4, PositionType
  <2>b. l \in todo
    BY <1>1, <1>2, <1>4, <2>a, FirstInside
  <2> QED BY <1>4, <2>a, <2>b
<1>9. end \in Nat /\ p[l] <= end
  <2>a. visible[l] \in Nat
    BY <1>8 DEF Inv, Types
  <2>b. end = p[l] \/ end \in p[l] + 1 .. visible[l]
    BY <1>3 DEF FetchEnds
  <2> QED BY <1>8, <2>a, <2>b
<1>10. new \in [DOMAIN p -> Nat] /\ new \in Positions /\ left \subseteq DOMAIN new
  <2>a. new \in [DOMAIN p -> Nat]
    BY <1>5, <1>8, <1>9
  <2> QED BY <1>4, <1>5, <1>8, <2>a, MakesPosition
<1>11. Passed(new, delivered \cup more)
  <2> SUFFICES ASSUME NEW x \in DOMAIN new, NEW o \in 0 .. new[x] - 1
               PROVE  <<x, o>> \in delivered \cup more
    BY DEF Passed
  <2>a. x \in DOMAIN p
    BY <1>10
  <2>b. CASE x # l
    BY <1>4, <1>5, <1>8, <2>a, <2>b DEF Passed
  <2>c. CASE x = l /\ o < p[l]
    BY <1>4, <1>5, <1>8, <1>9, <1>10, <2>a, <2>c DEF Passed
  <2>d. CASE x = l /\ ~(o < p[l])
    <3>1. new[x] = end /\ o \in p[l] .. end - 1
      BY <1>5, <1>8, <1>9, <2>d
    <3> QED BY <1>5, <2>d, <3>1
  <2> QED BY <2>b, <2>c, <2>d
<1>12. /\ k = [op |-> k.op, token |-> k.token, pos |-> k.pos, todo |-> k.todo, out |-> k.out]
       /\ k.op = "fetch" /\ k.pos = new /\ k.todo = left /\ k.out = more
  BY <1>6
<1>13. CallOk(k, member[c].topic, delivered) /\ Granted(k, group, incarnation)
  BY <1>10, <1>11, <1>12
     DEF CallOk, Topical, Joining, Restoring, Fetching, Committing, Granted
<1> QED BY <1>2, <1>7, <1>13, CallOnly

LEMMA FetchFailsInv ==
    ASSUME Inv, NEW c \in Consumers, FetchFails(c)
    PROVE  Inv'
<1>1. call' = [call EXCEPT ![c] = Idle] /\ UNCHANGED <<broker, member, position, delivered>>
  BY DEF FetchFails
<1> QED BY <1>1, IdleCall, CallOnly

\* A step that moves only the position of consumer c, within the logs it has.
LEMMA Repositioned ==
    ASSUME Inv, NEW c \in Consumers, NEW k, NEW p \in Positions, DOMAIN p = DOMAIN position[c],
           call' = [call EXCEPT ![c] = k], position' = [position EXCEPT ![c] = p],
           UNCHANGED <<broker, member>>, delivered \subseteq delivered',
           CallOk(k, member[c].topic, delivered'), Granted(k, group, incarnation),
           Passed(p, delivered')
    PROVE  Inv'
<1>1. UNCHANGED <<group, incarnation, logs, committed, member>>
  BY DEF broker
<1>2. PICK m : m = member[c]
  OBVIOUS
<1>3. m \in Members /\ member' = [member EXCEPT ![c] = m]
  BY <1>1, <1>2, OfConsumer DEF Inv, Types
<1>4. MemberOk(m, p, delivered', group', incarnation')
  BY <1>1, <1>2, OfConsumer DEF MemberOk
<1>5. CallOk(k, m.topic, delivered') /\ Granted(k, group', incarnation')
  BY <1>1, <1>2
<1>6. GroupOk' /\ GroupSteps /\ incarnation' \in Nat
  BY <1>1, SameGroup
<1> QED BY <1>1, <1>3, <1>4, <1>5, <1>6, ConsumerStep

LEMMA PollReturnsInv ==
    ASSUME Inv, NEW c \in Consumers, PollReturns(c)
    PROVE  Inv'
<1>1. PICK old, pos : old = position[c] /\ pos = call[c].pos
  OBVIOUS
<1>2. PICK p : p = IF call[c].token.generation = member[c].token.generation
                   THEN [l \in DOMAIN old |-> IF l \in DOMAIN pos THEN pos[l] ELSE old[l]]
                   ELSE old
  OBVIOUS
<1>3. /\ call[c].op = "fetch" /\ position' = [position EXCEPT ![c] = p]
      /\ delivered' = delivered \cup call[c].out
      /\ call' = [call EXCEPT ![c] = Idle]
      /\ UNCHANGED <<broker, member>>
  BY <1>1, <1>2 DEF PollReturns, Inv, Types
<1>4. /\ old \in Positions /\ Passed(old, delivered)
      /\ pos \in Positions /\ Passed(pos, delivered')
  BY <1>1, <1>3, OfConsumer DEF CallOk, Fetching
<1>5. p \in Positions /\ DOMAIN p = DOMAIN old
  <2>a. /\ DOMAIN old \subseteq Logs /\ old \in [DOMAIN old -> Nat]
        /\ \A l \in DOMAIN pos : pos[l] \in Nat
    BY <1>4, PositionType
  <2>b. p \in [DOMAIN old -> Nat]
    BY <1>2, <2>a
  <2> QED BY <2>a, <2>b, MakesPosition
<1>6. Passed(p, delivered')
  BY <1>2, <1>3, <1>4 DEF Passed
<1>7. delivered \subseteq delivered'
  BY <1>3
<1> QED BY <1>1, <1>3, <1>5, <1>6, <1>7, IdleCall, Repositioned

LEMMA SeekInv ==
    ASSUME Inv, NEW c \in Consumers, NEW l \in DOMAIN position[c], NEW offset \in Nat,
           Seek(c, l, offset)
    PROVE  Inv'
<1>1. PICK old, p : old = position[c] /\ p = [old EXCEPT ![l] = offset]
  OBVIOUS
<1>2. /\ position' = [position EXCEPT ![c] = p]
      /\ delivered' = delivered \cup ({l} \X (0 .. offset - 1))
      /\ UNCHANGED <<broker, member, call>>
  BY <1>1 DEF Seek, Inv, Types
<1>3. old \in Positions /\ Passed(old, delivered)
  BY <1>1, OfConsumer
<1>4. p \in Positions /\ DOMAIN p = DOMAIN old /\ old \in [DOMAIN old -> Nat]
  <2>a. DOMAIN old \subseteq Logs /\ old \in [DOMAIN old -> Nat]
    BY <1>3, PositionType
  <2>b. p \in [DOMAIN old -> Nat]
    BY <1>1, <2>a
  <2> QED BY <2>a, <2>b, MakesPosition
<1>5. Passed(p, delivered')
  <2> SUFFICES ASSUME NEW x \in DOMAIN p, NEW o \in 0 .. p[x] - 1
               PROVE  <<x, o>> \in delivered'
    BY DEF Passed
  <2>a. CASE x = l
    BY <1>1, <1>2, <1>4, <2>a
  <2>b. CASE x # l
    BY <1>1, <1>2, <1>3, <1>4, <2>b DEF Passed
  <2> QED BY <2>a, <2>b
<1>6. PICK k : k = call[c]
  OBVIOUS
<1>7. call' = [call EXCEPT ![c] = k] /\ delivered \subseteq delivered'
  BY <1>2, <1>6 DEF Inv, Types
<1>8. CallOk(k, member[c].topic, delivered') /\ Granted(k, group, incarnation)
  BY <1>6, <1>7, OfConsumer, SeenMore
<1> QED BY <1>1, <1>2, <1>4, <1>5, <1>7, <1>8, Repositioned

LEMMA NackInv ==
    ASSUME Inv, NEW c \in Consumers, NEW l, Nack(c, l)
    PROVE  Inv'
<1>1. PICK k : k = [op |-> "nack", log |-> RetryLog(l)]
  OBVIOUS
<1>2. call' = [call EXCEPT ![c] = k] /\ UNCHANGED <<broker, member, position, delivered>>
  BY <1>1 DEF Nack
<1>3. k.op = "nack"
  BY <1>1
<1>4. CallOk(k, member[c].topic, delivered) /\ Granted(k, group, incarnation)
  BY <1>3, PlainCall
<1> QED BY <1>2, <1>4, CallOnly

LEMMA SendNackInv ==
    ASSUME Inv, NEW c \in Consumers, SendNack(c)
    PROVE  Inv'
<1>1. /\ call' = [call EXCEPT ![c] = Idle]
      /\ log_end' = [log_end EXCEPT ![call[c].log] = @ + 1] \/ log_end' = log_end
      /\ UNCHANGED <<group, incarnation, visible, committed, member, position, delivered>>
  BY DEF SendNack
<1>2. /\ log_end' \in [Logs -> Nat] /\ visible' \in [Logs -> Nat]
      /\ committed' \in [Logs -> Nat] /\ Passed(committed', delivered)
  BY <1>1 DEF Inv, Types
<1> QED BY <1>1, <1>2, SameGroup, IdleCall, CallStep

LEMMA CommitSyncInv ==
    ASSUME Inv, NEW c \in Consumers, CommitSync(c)
    PROVE  Inv'
<1>1. PICK p : p = position[c]
  OBVIOUS
<1>2. PICK k : k = [op |-> "commit", pos |-> p, todo |-> DOMAIN p]
  OBVIOUS
<1>3. /\ call' = [call EXCEPT ![c] = k] /\ p # <<>>
      /\ UNCHANGED <<broker, member, position, delivered>>
  BY <1>1, <1>2 DEF CommitSync
<1>4. p \in Positions /\ Passed(p, delivered)
  BY <1>1, OfConsumer
<1>5. DOMAIN p # {}
  <2>a. p \in [DOMAIN p -> Nat]
    BY <1>4, PositionType
  <2>b. \A f \in [{} -> Nat] : f = <<>>
    OBVIOUS
  <2> QED BY <1>3, <2>a, <2>b
<1>6. /\ k = [op |-> k.op, pos |-> k.pos, todo |-> k.todo]
      /\ k.op = "commit" /\ k.pos = p /\ k.todo = DOMAIN p
  BY <1>2
<1>7. CallOk(k, member[c].topic, delivered) /\ Granted(k, group, incarnation)
  BY <1>4, <1>5, <1>6
     DEF CallOk, Topical, Joining, Restoring, Fetching, Committing, Granted
<1> QED BY <1>3, <1>7, CallOnly

\* Committing the position of the next log leaves nothing undelivered behind.
LEMMA CommitsPassed ==
    ASSUME Inv, NEW c \in Consumers, call[c].op = "commit"
    PROVE  LET l == First(call[c].todo)
               after == Commits(l, call[c].pos[l])
           IN  after \in [Logs -> Nat] /\ Passed(after, delivered)
<1>1. PICK l, p, after : /\ l = First(call[c].todo) /\ p = call[c].pos
                         /\ after = Commits(l, p[l])
  OBVIOUS
<1>2. /\ p \in Positions /\ call[c].todo \subseteq DOMAIN p /\ call[c].todo # {}
      /\ Passed(p, delivered)
  BY <1>1, OfConsumer DEF CallOk, Committing
<1>3. DOMAIN p \subseteq Logs /\ p \in [DOMAIN p -> Nat]
  BY <1>2, PositionType
<1>4. l \in DOMAIN p /\ l \in Logs /\ p[l] \in Nat
  BY <1>1, <1>2, <1>3, FirstInside
<1>5. committed \in [Logs -> Nat] /\ Passed(committed, delivered)
  BY DEF Inv, Types
<1>6. after = [committed EXCEPT ![l] = p[l]] \/ after = committed
  BY <1>1 DEF Commits
<1>7. after \in [Logs -> Nat]
  BY <1>4, <1>5, <1>6
<1>8. \A x \in Logs : after[x] = committed[x] \/ (x = l /\ after[x] = p[l])
  BY <1>4, <1>5, <1>6
<1>9. Passed(after, delivered)
  BY <1>2, <1>4, <1>5, <1>7, <1>8 DEF Passed
<1> QED BY <1>1, <1>7, <1>9

LEMMA CommitOffsetInv ==
    ASSUME Inv, NEW c \in Consumers, CommitOffset(c)
    PROVE  Inv'
<1>1. PICK l, left, p : /\ l = First(call[c].todo) /\ left = call[c].todo \ {l}
                        /\ p = call[c].pos
  OBVIOUS
<1>2. PICK k : k = IF left # {} /\ (p[l] <= log_end[l] \/ NoTopic(l))
                   THEN [call[c] EXCEPT !.todo = left] ELSE Idle
  OBVIOUS
<1>3. /\ call[c].op = "commit" /\ committed' = Commits(l, p[l])
      /\ call' = [call EXCEPT ![c] = k]
      /\ UNCHANGED <<group, incarnation, logs, member, position, delivered>>
  BY <1>1, <1>2 DEF CommitOffset, Inv, Types
<1>4. committed' \in [Logs -> Nat] /\ Passed(committed', delivered)
  BY <1>1, <1>3, CommitsPassed
<1>5. log_end' \in [Logs -> Nat] /\ visible' \in [Logs -> Nat]
  BY <1>3 DEF Inv, Types, logs
<1>6. CallOk(k, member[c].topic, delivered) /\ Granted(k, group, incarnation)
  <2>a. CASE k = Idle
    BY <2>a, IdleCall
  <2>b. CASE left # {} /\ k = [call[c] EXCEPT !.todo = left]
    <3>1. /\ call[c] = [op |-> call[c].op, pos |-> call[c].pos, todo |-> call[c].todo]
          /\ p \in Positions /\ call[c].todo \subseteq DOMAIN p /\ Passed(p, delivered)
      BY <1>1, <1>3, OfConsumer DEF CallOk, Committing
    <3>2. PICK all : all = call[c].todo
      OBVIOUS
    <3>3. call[c] = [op |-> "commit", pos |-> p, todo |-> all]
      BY <1>1, <1>3, <3>1, <3>2
    <3>4. k = [op |-> "commit", pos |-> p, todo |-> left]
      BY <2>b, <3>3
    <3>5. /\ k = [op |-> k.op, pos |-> k.pos, todo |-> k.todo]
          /\ k.op = "commit" /\ k.pos = p /\ k.todo = left
      BY <3>4
    <3>6. left \subseteq DOMAIN p
      BY <1>1, <3>1
    <3> QED BY <2>b, <3>1, <3>5, <3>6
            DEF CallOk, Topical, Joining, Restoring, Fetching, Committing, Granted
  <2> QED BY <1>2, <2>a, <2>b
<1>7. GroupOk' /\ GroupSteps /\ incarnation' \in Nat /\ Granted(k, group', incarnation')
  BY <1>3, <1>6, SameGroup
<1> QED BY <1>3, <1>4, <1>5, <1>6, <1>7, CallStep

LEMMA CommitFailsInv ==
    ASSUME Inv, NEW c \in Consumers, CommitFails(c)
    PROVE  Inv'
<1>1. PICK l, p : l = First(call[c].todo) /\ p = call[c].pos
  OBVIOUS
<1>2. /\ call[c].op = "commit" /\ committed' \in {committed, Commits(l, p[l])}
      /\ call' = [call EXCEPT ![c] = Idle]
      /\ UNCHANGED <<group, incarnation, logs, member, position, delivered>>
  BY <1>1 DEF CommitFails
<1>3. committed' \in [Logs -> Nat] /\ Passed(committed', delivered)
  <2>a. committed \in [Logs -> Nat] /\ Passed(committed, delivered)
    BY DEF Inv, Types
  <2>b. Commits(l, p[l]) \in [Logs -> Nat] /\ Passed(Commits(l, p[l]), delivered)
    BY <1>1, <1>2, CommitsPassed
  <2>c. CASE committed' = committed
    BY <2>a, <2>c
  <2>d. CASE committed' = Commits(l, p[l])
    BY <2>b, <2>d
  <2> QED BY <1>2, <2>c, <2>d
<1>4. log_end' \in [Logs -> Nat] /\ visible' \in [Logs -> Nat]
  BY <1>2 DEF Inv, Types, logs
<1>5. GroupOk' /\ GroupSteps /\ incarnation' \in Nat
  BY <1>2, SameGroup
<1> QED BY <1>2, <1>3, <1>4, <1>5, IdleCall, CallStep

LEMMA CloseInv ==
    ASSUME Inv, NEW c \in Consumers, Close(c)
    PROVE  Inv'
<1>1. PICK m, k : /\ m = [member[c] EXCEPT !.closed = TRUE, !.stop = TRUE]
                  /\ k = [op |-> "leave", token |-> member[c].token]
  OBVIOUS
<1>2. /\ member' = [member EXCEPT ![c].closed = TRUE, ![c].stop = TRUE]
      /\ call' = [call EXCEPT ![c] = k]
      /\ UNCHANGED <<broker, position, delivered>>
  BY <1>1 DEF Close
<1>3. member' = [member EXCEPT ![c] = m]
  BY <1>1, <1>2
<1>4. /\ m \in Members /\ m.token = member[c].token /\ m.topic = member[c].topic
      /\ m.subscribed = member[c].subscribed
  BY <1>1, OfConsumer DEF Members
<1>5. PICK p : p = position[c]
  OBVIOUS
<1>6. p \in Positions /\ position' = [position EXCEPT ![c] = p]
  BY <1>2, <1>5, OfConsumer DEF Inv, Types
<1>7. UNCHANGED <<group, incarnation, logs, committed, delivered>>
  BY <1>2 DEF broker
<1>8. MemberOk(m, p, delivered', group', incarnation')
  BY <1>4, <1>5, <1>7, OfConsumer DEF MemberOk
<1>9. k.op = "leave"
  BY <1>1
<1>10. CallOk(k, m.topic, delivered') /\ Granted(k, group', incarnation')
  BY <1>9, PlainCall
<1>11. GroupOk' /\ GroupSteps /\ incarnation' \in Nat
  BY <1>7, SameGroup
<1> QED BY <1>2, <1>3, <1>4, <1>6, <1>7, <1>8, <1>10, <1>11, ConsumerStep

LEMMA SendLeaveGroupInv ==
    ASSUME Inv, NEW c \in Consumers, SendLeaveGroup(c)
    PROVE  Inv'
<1>1. PICK m : m = [member[c] EXCEPT !.token = NoToken, !.subscribed = FALSE,
                                     !.needs_rejoin = FALSE]
  OBVIOUS
<1>2. /\ group' = AfterLeave(call[c].token.member)
      /\ member' = [member EXCEPT ![c].token = NoToken, ![c].subscribed = FALSE,
                                  ![c].needs_rejoin = FALSE]
      /\ position' = [position EXCEPT ![c] = <<>>]
      /\ call' = [call EXCEPT ![c] = Idle]
      /\ UNCHANGED <<incarnation, logs, committed, delivered>>
  BY DEF SendLeaveGroup
<1>3. member' = [member EXCEPT ![c] = m]
  BY <1>1, <1>2
<1>4. GroupOk' /\ GroupSteps /\ incarnation' \in Nat
  BY <1>2, OfConsumer, LeaveStep
<1>5. NoToken \in Tokens /\ Fresh(NoToken, group', incarnation')
  BY <1>4, OfConsumer, NoTokenOk, FreshKept
<1>6. m \in Members /\ m.token = NoToken /\ m.subscribed = FALSE
  BY <1>1, <1>5, OfConsumer DEF Members
<1>7. MemberOk(m, <<>>, delivered', group', incarnation')
  BY <1>5, <1>6, Unsubscribed
<1> QED BY <1>2, <1>3, <1>4, <1>6, <1>7, IdleCall, EmptyPosition, ConsumerStep

LEMMA LeaveFailsInv ==
    ASSUME Inv, NEW c \in Consumers, LeaveFails(c)
    PROVE  Inv'
<1>1. /\ group' = group \/ group' = AfterLeave(call[c].token.member)
      /\ call' = [call EXCEPT ![c] = Idle]
      /\ UNCHANGED <<incarnation, logs, committed, member, position, delivered>>
  BY DEF LeaveFails
<1>2. GroupOk' /\ GroupSteps /\ incarnation' \in Nat
  BY <1>1, OfConsumer, LeaveStep
<1>3. /\ log_end' \in [Logs -> Nat] /\ visible' \in [Logs -> Nat]
      /\ committed' \in [Logs -> Nat] /\ Passed(committed', delivered)
  BY <1>1 DEF Inv, Types, logs
<1> QED BY <1>1, <1>2, <1>3, IdleCall, CallStep

----------------------------------------
(* The heartbeat thread and the broker *)

\* A token of generation 0 is accepted by no coordinator.
LEMMA VoidToken ==
    ASSUME GroupOk, incarnation \in Nat, NEW t \in Tokens, NEW D,
           t.generation = 0, t.incarnation <= incarnation
    PROVE  Current(t, D, group, incarnation)
<1>1. group.generation \in Nat /\ (group.members # {} => group.generation >= 1)
  BY GroupFields
<1> QED BY <1>1 DEF Current, Fresh

LEMMA HeartbeatAppliedInv ==
    ASSUME Inv, NEW c \in Consumers, HeartbeatApplied(c)
    PROVE  Inv'
<1>1. PICK r, code : r = member[c] /\ code = heartbeat[c].code
  OBVIOUS
<1>2. PICK m : m = CASE code = "UnknownMember" ->
                          [r EXCEPT !.token = NoToken, !.needs_rejoin = TRUE]
                     [] code = "IllegalGeneration" ->
                          [r EXCEPT !.token.generation = 0, !.needs_rejoin = TRUE]
                     [] OTHER -> r
  OBVIOUS
<1>3. member' = [member EXCEPT ![c] = m] /\ UNCHANGED <<broker, position, call, delivered>>
  BY <1>1, <1>2 DEF HeartbeatApplied, Inv, Types
<1>4. r \in Members /\ r.token \in Tokens /\ r.token.incarnation <= incarnation
      /\ GroupOk /\ incarnation \in Nat
  BY <1>1, OfConsumer DEF Fresh
<1>5. PICK p, k : p = position[c] /\ k = call[c]
  OBVIOUS
<1>6. m \in Members /\ m.topic = r.topic /\ MemberOk(m, p, delivered, group, incarnation)
  <2>a. CASE code = "UnknownMember"
    <3>1. m = [r EXCEPT !.token = NoToken, !.needs_rejoin = TRUE]
      BY <1>2, <2>a
    <3>2. /\ NoToken \in Tokens /\ NoToken.generation = 0 /\ NoToken.incarnation = 0
      BY <1>4, NoTokenOk DEF NoToken
    <3>3. m \in Members /\ m.topic = r.topic /\ m.token = NoToken
      BY <1>4, <3>1, <3>2 DEF Members
    <3>4. Current(NoToken, DOMAIN p, group, incarnation)
      BY <1>4, <3>2, VoidToken
    <3> QED BY <1>5, <3>3, <3>4, OfConsumer DEF MemberOk, Current
  <2>b. CASE code # "UnknownMember" /\ code = "IllegalGeneration"
    <3>1. PICK t : t = [r.token EXCEPT !.generation = 0]
      OBVIOUS
    <3>2. m = [r EXCEPT !.token = t, !.needs_rejoin = TRUE]
      BY <1>2, <2>b, <3>1
    <3>3. t \in Tokens /\ t.generation = 0 /\ t.incarnation = r.token.incarnation
      BY <1>4, <3>1 DEF Tokens
    <3>4. m \in Members /\ m.topic = r.topic /\ m.token = t
      BY <1>4, <3>2, <3>3 DEF Members
    <3>5. Current(t, DOMAIN p, group, incarnation)
      BY <1>4, <3>3, VoidToken
    <3> QED BY <1>5, <3>4, <3>5, OfConsumer DEF MemberOk, Current
  <2>c. CASE code # "UnknownMember" /\ code # "IllegalGeneration"
    <3>1. m = r
      BY <1>2, <2>c
    <3> QED BY <1>1, <1>5, <3>1, OfConsumer
  <2> QED BY <2>a, <2>b, <2>c
<1>7. UNCHANGED <<group, incarnation, logs, committed, delivered>>
  BY <1>3 DEF broker
<1>8. /\ call' = [call EXCEPT ![c] = k] /\ position' = [position EXCEPT ![c] = p]
      /\ p \in Positions
  BY <1>3, <1>5, OfConsumer DEF Inv, Types
<1>9. CallOk(k, m.topic, delivered') /\ Granted(k, group', incarnation')
  BY <1>1, <1>5, <1>6, <1>7, OfConsumer
<1>10. MemberOk(m, p, delivered', group', incarnation')
  BY <1>6, <1>7
<1>11. GroupOk' /\ GroupSteps /\ incarnation' \in Nat
  BY <1>7, SameGroup
<1> QED BY <1>3, <1>6, <1>7, <1>8, <1>9, <1>10, <1>11, ConsumerStep

\* A step of the broker alone.
LEMMA BrokerStep ==
    ASSUME Inv, UNCHANGED <<incarnation, committed, member, position, call, delivered>>,
           log_end' \in [Logs -> Nat], visible' \in [Logs -> Nat], GroupOk', GroupSteps
    PROVE  Inv'
<1>1. Types /\ GroupOk /\ incarnation \in Nat
  BY DEF Inv, Types
<1>2. Types'
  BY <1>1 DEF Types
<1>3. ASSUME NEW c \in Consumers
      PROVE  /\ CallOk(call'[c], member'[c].topic, delivered')
             /\ Granted(call'[c], group', incarnation')
             /\ MemberOk(member'[c], position'[c], delivered', group', incarnation')
  <2>a. PICK k, m, p : k = call[c] /\ m = member[c] /\ p = position[c]
    OBVIOUS
  <2>b. /\ m \in Members /\ CallOk(k, m.topic, delivered) /\ Granted(k, group, incarnation)
        /\ MemberOk(m, p, delivered, group, incarnation)
    BY <2>a, OfConsumer
  <2>c. Granted(k, group', incarnation')
    BY <1>1, <2>b, GrantedKept
  <2>d. MemberOk(m, p, delivered', group', incarnation')
    BY <1>1, <2>b, MemberKept
  <2> QED BY <2>a, <2>b, <2>c, <2>d
<1>4. Passed(committed', delivered')
  BY DEF Inv
<1> QED BY <1>2, <1>3, <1>4 DEF Inv

LEMMA LogsInv ==
    ASSUME Inv, NEW l \in Logs, Append(l) \/ Release(l)
    PROVE  Inv'
<1>1. /\ log_end' = log_end \/ log_end' = [log_end EXCEPT ![l] = @ + 1]
      /\ visible' = [visible EXCEPT ![l] = @ + 1]
      /\ UNCHANGED <<group, incarnation, committed, member, position, call, delivered>>
  BY DEF Append, Release
<1>2. log_end' \in [Logs -> Nat] /\ visible' \in [Logs -> Nat]
  BY <1>1 DEF Inv, Types
<1> QED BY <1>1, <1>2, SameGroup, BrokerStep

LEMMA ForgetInv ==
    ASSUME Inv, Restart \/ \E m \in group.members : Expire(m)
    PROVE  Inv'
<1>1. UNCHANGED <<incarnation, log_end, visible, committed, member, position, call, delivered>>
  BY DEF Restart, Expire, logs
<1>2. log_end' \in [Logs -> Nat] /\ visible' \in [Logs -> Nat] /\ GroupOk
  BY <1>1 DEF Inv, Types
<1>3. GroupOk' /\ GroupSteps
  <2>a. CASE Restart
    BY <2>a DEF Restart, GroupOk, GroupSteps, Moves
  <2>b. CASE \E m \in group.members : Expire(m)
    BY <1>2, <2>b, ExpireStep
  <2> QED BY <2>a, <2>b
<1> QED BY <1>1, <1>2, <1>3, BrokerStep

----------------------------------------
(* The theorems *)

LEMMA InitInv == Init => Inv
<1> SUFFICES ASSUME Init PROVE Inv
  OBVIOUS
<1>1. /\ group = GC!NoGroup /\ incarnation = 0 /\ delivered = {}
      /\ \A l \in Logs : committed[l] = 0
      /\ DOMAIN committed = Logs
  BY DEF Init
<1>2. ASSUME NEW c \in Consumers
      PROVE  /\ call[c] = Idle /\ position[c] = <<>>
             /\ member[c] \in Members /\ member[c].token = NoToken
             /\ member[c].subscribed = FALSE
  <2>a. NoToken \in Tokens
    BY DEF NoToken, Tokens, NoMember
  <2> QED BY <2>a DEF Init, Members
<1>3. Types
  <2>a. member \in [Consumers -> Members]
    <3>1. member = [c \in Consumers |-> member[c]]
      BY DEF Init
    <3> QED BY <1>2, <3>1
  <2>b. position \in [Consumers -> Positions]
    BY EmptyPosition DEF Init
  <2> QED BY <2>a, <2>b DEF Init, Types
<1>4. GroupOk
  BY <1>1 DEF GroupOk
<1>5. Fresh(NoToken, group, incarnation)
  BY <1>1, <1>4, NoTokenOk
<1>6. Passed(committed, delivered)
  BY <1>1 DEF Passed
<1>7. ASSUME NEW c \in Consumers
      PROVE  /\ CallOk(call[c], member[c].topic, delivered)
             /\ Granted(call[c], group, incarnation)
             /\ MemberOk(member[c], position[c], delivered, group, incarnation)
  BY <1>2, <1>5, IdleCall, Unsubscribed
<1> QED BY <1>3, <1>4, <1>6, <1>7 DEF Inv

LEMMA NextInv == Inv /\ [Next]_vars => Inv'
<1> SUFFICES ASSUME Inv, [Next]_vars PROVE Inv'
  OBVIOUS
<1>1. ASSUME NEW c \in Consumers, NEW t \in Topics, Subscribe(c, t) PROVE Inv'
  BY <1>1, SubscribeInv
<1>2. ASSUME NEW c \in Consumers, Poll(c) \/ CommitSync(c) \/ Close(c) PROVE Inv'
  BY <1>2, PollInv, CommitSyncInv, CloseInv
<1>3. ASSUME NEW c \in Consumers, NEW l \in DOMAIN position[c],
             \/ \E offset \in 0 .. MaxRecords[l] : Seek(c, l, offset)
             \/ Nack(c, l)
      PROVE  Inv'
  <2>a. ASSUME NEW offset \in 0 .. MaxRecords[l], Seek(c, l, offset) PROVE Inv'
    <3>1. offset \in Nat
      OBVIOUS
    <3> QED BY <2>a, <3>1, SeekInv
  <2> QED BY <1>3, <2>a, NackInv
<1>4. ASSUME NEW c \in Consumers, Proceed(c) PROVE Inv'
  BY <1>4, SwitchTopicInv, SwitchFailsInv, JoinAndSyncInv, SendJoinGroupInv, SendSyncGroupInv,
     FetchCommittedOffsetInv, InstallInv, JoinAndSyncFailsInv, SnapshotInv, FetchInv,
     FetchFailsInv, PollReturnsInv, SendNackInv, CommitOffsetInv, CommitFailsInv,
     SendLeaveGroupInv, LeaveFailsInv DEF Proceed
<1>5. ASSUME NEW c \in Consumers, Beat(c) PROVE Inv'
  <2>a. CASE HeartbeatWakes(c) \/ HeartbeatAnswered(c)
    <3>1. UNCHANGED <<broker, member, position, call, delivered>>
      BY <2>a DEF HeartbeatWakes, HeartbeatAnswered
    <3>2. UNCHANGED <<group, incarnation, log_end, visible, committed, member, position, call,
                      delivered>>
      BY <3>1 DEF broker, logs
    <3>3. log_end' \in [Logs -> Nat] /\ visible' \in [Logs -> Nat]
      BY <3>2 DEF Inv, Types
    <3> QED BY <3>2, <3>3, SameGroup, BrokerStep
  <2>b. CASE HeartbeatApplied(c)
    BY <2>b, HeartbeatAppliedInv
  <2> QED BY <1>5, <2>a, <2>b DEF Beat
<1>6. ASSUME NEW l \in Logs, Append(l) \/ Release(l) PROVE Inv'
  BY <1>6, LogsInv
<1>7. CASE Restart \/ \E m \in group.members : Expire(m)
  BY <1>7, ForgetInv
<1>8. CASE UNCHANGED vars
  <2>a. UNCHANGED <<group, incarnation, log_end, visible, committed, member, position, call,
                    delivered>>
    BY <1>8 DEF vars, broker, logs
  <2>b. log_end' \in [Logs -> Nat] /\ visible' \in [Logs -> Nat]
    BY <2>a DEF Inv, Types
  <2> QED BY <2>a, <2>b, SameGroup, BrokerStep
<1> QED BY <1>1, <1>2, <1>3, <1>4, <1>5, <1>6, <1>7, <1>8 DEF Next

\* The inductive invariant holds in every reachable state.
THEOREM Invariance == Spec => []Inv
BY InitInv, NextInv, PTL DEF Spec

\* NothingSkipped, for every group: every record below an offset that CommitSync
\* has committed was returned by a Poll, or passed over by a Seek, before.  The
\* positions are copied before the requests are sent and may be stale by then; the
\* invariant says that every such copy lies behind what was delivered.
THEOREM NeverSkips == Spec => []NothingSkipped
<1>1. Inv => NothingSkipped
  <2> SUFFICES ASSUME Inv PROVE NothingSkipped
    OBVIOUS
  <2>a. DOMAIN committed = Logs /\ Passed(committed, delivered)
    BY DEF Inv, Types
  <2> QED BY <2>a DEF NothingSkipped, Passed
<1> QED BY <1>1, Invariance, PTL

\* AssignmentCurrent, for every group: while the coordinator accepts the member id
\* and generation of a consumer, in the incarnation that granted them, the consumer
\* polls exactly the logs assigned to it.  JoinAndSync may install an assignment
\* late, but a token that is accepted is one of the current generation, and no two
\* assignments share a generation.
THEOREM AssignmentsCurrent == Spec => []AssignmentCurrent
<1>1. Inv => AssignmentCurrent
  <2> SUFFICES ASSUME Inv, NEW c \in Consumers, Accepted(c)
               PROVE  DOMAIN position[c] = LogsOf(group.topic,
                                                  group.assignment[member[c].token.member])
    BY DEF AssignmentCurrent
  <2>a. /\ member[c].subscribed /\ member[c].token.incarnation = incarnation
        /\ member[c].token.member \in group.members
        /\ member[c].token.generation = group.generation
    BY DEF Accepted, Answer
  <2>b. Current(member[c].token, DOMAIN position[c], group, incarnation)
    BY <2>a, OfConsumer DEF MemberOk
  <2> QED BY <2>a, <2>b DEF Current
<1> QED BY <1>1, Invariance, PTL

================================================================================
