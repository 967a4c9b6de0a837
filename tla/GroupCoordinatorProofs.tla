------------------------- MODULE GroupCoordinatorProofs -------------------------
(***************************************************************************)
(* The promises of the group coordinator, for any number of clients,       *)
(* members, topics and partitions: the range assignor divides the          *)
(* partitions, a generation fences what it assigned, and two clients with  *)
(* accepted tokens of one incarnation never own a partition together.      *)
(*                                                                         *)
(* The invariant ties the tokens of the clients to the group: ids are      *)
(* handed out once per incarnation, a token is never ahead of the group,   *)
(* and what a client owns under a token of the current generation is the   *)
(* assignment of its member.                                               *)
(***************************************************************************)
EXTENDS GroupCoordinator, FiniteSetTheorems, TLAPS

----------------------------------------
(* Arithmetic of the range assignor *)

\* The first partition of the i-th of the members; the run of the i-th ends where the
\* next one starts.
Start(i, base, extra) == i * base + (IF i < extra THEN i ELSE extra)

LEMMA Monotonic == \A a, b, c \in Nat : a <= b => a * c <= b * c
OBVIOUS

LEMMA Distributes == \A a, c \in Nat : (a + 1) * c = a * c + c
OBVIOUS

LEMMA ProductNat == \A a, b \in Nat : a * b \in Nat
OBVIOUS

LEMMA StartNext ==
    ASSUME NEW i \in Nat, NEW base \in Nat, NEW extra \in Nat
    PROVE  /\ Start(i, base, extra) \in Nat
           /\ Start(i + 1, base, extra)
                 = Start(i, base, extra) + base + (IF i < extra THEN 1 ELSE 0)
<1>1. PICK x : x = i * base
  OBVIOUS
<1>2. x \in Nat /\ (i + 1) * base = x + base
  BY <1>1, ProductNat, Distributes
<1>3. /\ Start(i, base, extra) = x + (IF i < extra THEN i ELSE extra)
      /\ Start(i + 1, base, extra) = x + base + (IF i + 1 < extra THEN i + 1 ELSE extra)
  BY <1>1, <1>2 DEF Start
<1> QED BY <1>2, <1>3

LEMMA StartMonotonic ==
    ASSUME NEW i \in Nat, NEW j \in Nat, NEW base \in Nat, NEW extra \in Nat, i <= j
    PROVE  Start(i, base, extra) <= Start(j, base, extra)
<1>1. PICK x, y : x = i * base /\ y = j * base
  OBVIOUS
<1>2. x \in Nat /\ y \in Nat /\ x <= y
  BY <1>1, ProductNat, Monotonic
<1>3. /\ Start(i, base, extra) = x + (IF i < extra THEN i ELSE extra)
      /\ Start(j, base, extra) = y + (IF j < extra THEN j ELSE extra)
  BY <1>1 DEF Start
<1> QED BY <1>2, <1>3

LEMMA Division ==
    ASSUME NEW p \in Nat, NEW n \in Nat, n > 0
    PROVE  /\ p \div n \in Nat /\ p % n \in Nat /\ p % n < n
           /\ n * (p \div n) + (p % n) = p
<1>1. \A x, y \in Nat : y > 0 => y * (x \div y) + (x % y) = x
  OBVIOUS
<1>2. \A x, y \in Nat : y > 0 => x \div y \in Nat
  OBVIOUS
<1>3. \A x, y \in Nat : y > 0 => x % y \in 0 .. y - 1
  OBVIOUS
<1>4. p % n \in 0 .. n - 1
  BY <1>3
<1> QED BY <1>1, <1>2, <1>4

LEMMA StartLast ==
    ASSUME NEW p \in Nat, NEW n \in Nat, n > 0
    PROVE  Start(n, p \div n, p % n) = p
BY Division DEF Start

NatLess == {p \in Nat \X Nat : p[1] < p[2]}

LEMMA NatLessWellFounded == IsWellFoundedOn(NatLess, Nat)
BY NatLessThanWellFounded DEF OpToRel, NatLess

LEMMA LeastElement ==
    ASSUME NEW S, S \subseteq Nat, S # {}
    PROVE  \E x \in S : \A y \in S : x <= y
<1>1. PICK x \in S : \A y \in S : <<y, x>> \notin NatLess
  BY NatLessWellFounded, WFMin
<1>2. ASSUME NEW y \in S PROVE x <= y
  <2>a. y \in Nat /\ x \in Nat
    OBVIOUS
  <2>b. ~(y < x)
    BY <1>1, <2>a DEF NatLess
  <2> QED BY <2>a, <2>b
<1> QED BY <1>2

\* Every partition lies in the run of some position.
LEMMA RunOf ==
    ASSUME NEW n \in Nat, n > 0, NEW base \in Nat, NEW extra \in Nat,
           NEW q \in Nat, q < Start(n, base, extra)
    PROVE  \E i \in 0 .. n - 1 : /\ Start(i, base, extra) <= q
                                 /\ q < Start(i + 1, base, extra)
<1> DEFINE S == {k \in Nat : q < Start(k, base, extra)}
<1>1. PICK k \in S : \A l \in S : k <= l
  BY LeastElement
<1>2. n \in S
  OBVIOUS
<1>3. Start(0, base, extra) = 0
  BY DEF Start
<1>4. k # 0
  BY <1>1, <1>3
<1>5. k \in Nat /\ q < Start(k, base, extra) /\ k <= n
  BY <1>1, <1>2
<1>6. k - 1 \in 0 .. n - 1 /\ (k - 1) + 1 = k /\ k - 1 \in Nat /\ ~(k <= k - 1)
  BY <1>4, <1>5
<1>7. k - 1 \notin S
  BY <1>1, <1>6
<1>8. Start(k - 1, base, extra) \in Nat
  BY <1>6, StartNext
<1>9. Start(k - 1, base, extra) <= q
  BY <1>6, <1>7, <1>8
<1> QED BY <1>5, <1>6, <1>9

----------------------------------------
(* The positions of the members *)

\* The positions in the map are 0 to n - 1, one for each member.
LEMMA Positions ==
    ASSUME NEW S \in SUBSET MemberIds, S # {}
    PROVE  /\ IsFiniteSet(S) /\ Cardinality(S) \in Nat /\ Cardinality(S) > 0
           /\ \A m \in S : MemberIndex(m, S) \in 0 .. Cardinality(S) - 1
           /\ \A m, n \in S : MemberIndex(m, S) = MemberIndex(n, S) => m = n
           /\ \A i \in 0 .. Cardinality(S) - 1 : \E m \in S : MemberIndex(m, S) = i
<1> DEFINE Before(m) == {n \in S : IdRank[n] < IdRank[m]}
           N == Cardinality(S)
<1>1. IsFiniteSet(S) /\ N \in Nat /\ N > 0
  <2>a. MaxMembers \in Nat
    BY CoordinatorAssumption
  <2>b. IsFiniteSet(MemberIds)
    BY <2>a, FS_Interval DEF MemberIds
  <2>c. IsFiniteSet(S)
    BY <2>b, FS_Subset
  <2>d. N \in Nat /\ N # 0
    BY <2>c, FS_CardinalityType, FS_EmptySet
  <2> QED BY <2>c, <2>d
<1>2. \A m \in S : IdRank[m] \in Nat
  BY CoordinatorAssumption
<1>3. \A m \in S : /\ IsFiniteSet(Before(m)) /\ Before(m) \in SUBSET S
                   /\ Cardinality(Before(m)) \in Nat
                   /\ MemberIndex(m, S) = Cardinality(Before(m))
  BY <1>1, FS_Subset, FS_CardinalityType DEF MemberIndex
<1>4. ASSUME NEW m \in S PROVE MemberIndex(m, S) \in 0 .. N - 1
  <2>a. m \notin Before(m)
    BY <1>2
  <2>b. Cardinality(Before(m)) <= N /\ (N = Cardinality(Before(m)) => S = Before(m))
    BY <1>1, <1>3, FS_Subset
  <2>c. Cardinality(Before(m)) # N
    BY <2>a, <2>b
  <2>d. Cardinality(Before(m)) \in Nat /\ MemberIndex(m, S) = Cardinality(Before(m))
    BY <1>3
  <2> HIDE DEF N, Before
  <2> QED BY <1>1, <2>b, <2>c, <2>d
<1>5. ASSUME NEW m \in S, NEW n \in S, IdRank[m] < IdRank[n]
      PROVE  MemberIndex(m, S) < MemberIndex(n, S)
  <2>a. \A k \in S : IdRank[k] \in Nat
    BY <1>2
  <2>b. m \in Before(n) /\ m \notin Before(m)
    BY <1>5, <2>a
  <2>c. Before(m) \subseteq Before(n)
    BY <1>5, <2>a
  <2>d. /\ Cardinality(Before(m)) <= Cardinality(Before(n))
        /\ Cardinality(Before(n)) = Cardinality(Before(m)) => Before(n) = Before(m)
    BY <1>3, <2>c, FS_Subset
  <2>e. Cardinality(Before(n)) # Cardinality(Before(m))
    BY <2>b, <2>d
  <2>f. /\ Cardinality(Before(m)) \in Nat /\ Cardinality(Before(n)) \in Nat
        /\ MemberIndex(m, S) = Cardinality(Before(m))
        /\ MemberIndex(n, S) = Cardinality(Before(n))
    BY <1>3
  <2> HIDE DEF Before
  <2> QED BY <2>d, <2>e, <2>f
<1>6. ASSUME NEW m \in S, NEW n \in S, MemberIndex(m, S) = MemberIndex(n, S)
      PROVE  m = n
  <2>a. IdRank[m] \in Nat /\ IdRank[n] \in Nat
    BY <1>2
  <2>b. MemberIndex(m, S) \in Nat /\ MemberIndex(n, S) \in Nat
    BY <1>4
  <2>c. ~(IdRank[m] < IdRank[n]) /\ ~(IdRank[n] < IdRank[m])
    BY <1>5, <1>6, <2>b
  <2>d. IdRank[m] = IdRank[n]
    BY <2>a, <2>c
  <2> QED BY <2>d, CoordinatorAssumption
<1>7. \A i \in 0 .. N - 1 : \E m \in S : MemberIndex(m, S) = i
  <2> DEFINE f == [m \in S |-> MemberIndex(m, S)]
             T == 0 .. N - 1
  <2>a. f \in Injection(S, T)
    BY <1>4, <1>6 DEF Injection, IsInjective
  <2>b. IsFiniteSet(T) /\ Cardinality(T) = N
    <3>1. 0 \in Int /\ N - 1 \in Int /\ ~(0 > N - 1) /\ (N - 1) - 0 + 1 = N
      BY <1>1
    <3> QED BY <3>1, FS_Interval
  <2>c. f \in Surjection(S, T)
    <3> HIDE DEF f, T
    <3> QED BY <1>1, <2>a, <2>b, FS_Injection
  <2> QED BY <2>c DEF Surjection
<1> QED BY <1>1, <1>4, <1>6, <1>7

----------------------------------------
(* The assignment *)

DividedAmong(S, part, partitions) ==
    /\ UNION {part[m] : m \in S} = 0 .. partitions - 1
    /\ \A m, n \in S : /\ m # n => part[m] \cap part[n] = {}
                       /\ Cardinality(part[m]) <= Cardinality(part[n]) + 1

LEMMA AssignorDivides ==
    ASSUME NEW S \in SUBSET MemberIds, S # {}, NEW partitions \in Nat
    PROVE  DividedAmong(S, [m \in S |-> AssignedRun(m, S, partitions)], partitions)
<1> DEFINE N == Cardinality(S)
           base == partitions \div N
           extra == partitions % N
           at(m) == MemberIndex(m, S)
           first(i) == Start(i, base, extra)
           part == [m \in S |-> AssignedRun(m, S, partitions)]
<1>1. /\ N \in Nat /\ N > 0
      /\ \A m \in S : at(m) \in 0 .. N - 1
      /\ \A m, n \in S : at(m) = at(n) => m = n
      /\ \A i \in 0 .. N - 1 : \E m \in S : at(m) = i
  BY Positions
<1>2. base \in Nat /\ extra \in Nat /\ first(N) = partitions
  BY <1>1, Division, StartLast
<1>3. \A m \in S : part[m] = first(at(m))
                                .. first(at(m)) + base + (IF at(m) < extra THEN 1 ELSE 0) - 1
  BY DEF AssignedRun, Start
<1> HIDE DEF N, base, extra, at, part
<1>4. \A m \in S : at(m) \in Nat /\ at(m) + 1 \in Nat /\ at(m) + 1 <= N
  BY <1>1
<1>5. \A i \in Nat : first(i) \in Nat /\ first(i + 1) \in Nat
                     /\ first(i + 1) = first(i) + base + (IF i < extra THEN 1 ELSE 0)
  <2> SUFFICES ASSUME NEW i \in Nat
               PROVE  /\ first(i) \in Nat /\ first(i + 1) \in Nat
                      /\ first(i + 1) = first(i) + base + (IF i < extra THEN 1 ELSE 0)
    OBVIOUS
  <2>a. i + 1 \in Nat
    OBVIOUS
  <2> QED BY <1>2, <2>a, StartNext
<1>6. \A i, j \in Nat : i <= j => first(i) <= first(j)
  BY <1>2, StartMonotonic
<1> HIDE DEF first
<1>7. \A m \in S : part[m] = first(at(m)) .. first(at(m) + 1) - 1
  <2> SUFFICES ASSUME NEW m \in S
               PROVE  part[m] = first(at(m)) .. first(at(m) + 1) - 1
    OBVIOUS
  <2>a. first(at(m) + 1) = first(at(m)) + base + (IF at(m) < extra THEN 1 ELSE 0)
    BY <1>4, <1>5
  <2>b. part[m] = first(at(m)) .. first(at(m)) + base + (IF at(m) < extra THEN 1 ELSE 0) - 1
    BY <1>3
  <2>c. PICK a, z : a = first(at(m)) /\ z = (IF at(m) < extra THEN 1 ELSE 0)
    OBVIOUS
  <2>d. a \in Nat /\ z \in Nat /\ first(at(m) + 1) = a + base + z
    BY <1>4, <1>5, <2>a, <2>c
  <2>e. first(at(m) + 1) - 1 = a + base + z - 1
    BY <1>2, <2>d
  <2> QED BY <2>b, <2>c, <2>e
<1>8. ASSUME NEW m \in S, NEW n \in S, m # n PROVE part[m] \cap part[n] = {}
  <2>a. \A k, l \in S : at(k) < at(l) => first(at(k) + 1) <= first(at(l))
    BY <1>4, <1>6
  <2>b. at(m) < at(n) \/ at(n) < at(m)
    BY <1>1, <1>4, <1>8
  <2>c. /\ first(at(m)) \in Nat /\ first(at(m) + 1) \in Nat
        /\ first(at(n)) \in Nat /\ first(at(n) + 1) \in Nat
    BY <1>4, <1>5
  <2>d. first(at(m) + 1) <= first(at(n)) \/ first(at(n) + 1) <= first(at(m))
    BY <2>a, <2>b
  <2> QED BY <1>7, <2>c, <2>d
<1>9. ASSUME NEW m \in S, NEW n \in S
      PROVE  Cardinality(part[m]) <= Cardinality(part[n]) + 1
  <2>a. ASSUME NEW k \in S
        PROVE  Cardinality(part[k]) = base \/ Cardinality(part[k]) = base + 1
    <3>1. PICK a, e : a = first(at(k)) /\ e = first(at(k) + 1) - 1
      OBVIOUS
    <3>2. a \in Int /\ e \in Int /\ (e = a + base - 1 \/ e = a + base)
      <4>1. /\ first(at(k)) \in Nat
            /\ first(at(k) + 1) = first(at(k)) + base + (IF at(k) < extra THEN 1 ELSE 0)
        BY <1>4, <1>5
      <4>2. e = a + base - 1 \/ e = a + base + 1 - 1
        BY <1>2, <3>1, <4>1
      <4> QED BY <1>2, <3>1, <4>1, <4>2
    <3>3. Cardinality(part[k]) = IF a > e THEN 0 ELSE e - a + 1
      BY <1>7, <3>1, <3>2, FS_Interval
    <3> QED BY <1>2, <3>2, <3>3
  <2> QED BY <1>2, <2>a
<1>10. UNION {part[m] : m \in S} = 0 .. partitions - 1
  <2>a. ASSUME NEW m \in S, NEW q \in part[m] PROVE q \in 0 .. partitions - 1
    <3>1. first(at(m)) \in Nat /\ first(at(m) + 1) \in Nat /\ first(at(m) + 1) <= partitions
      BY <1>1, <1>2, <1>4, <1>5, <1>6
    <3> QED BY <1>7, <2>a, <3>1
  <2>b. ASSUME NEW q \in 0 .. partitions - 1 PROVE \E m \in S : q \in part[m]
    <3>1. PICK i \in 0 .. N - 1 : first(i) <= q /\ q < first(i + 1)
      <4>1. q \in Nat /\ q < first(N)
        BY <1>2
      <4> QED BY <1>1, <1>2, <4>1, RunOf DEF first
    <3>2. PICK m \in S : at(m) = i
      BY <1>1
    <3>3. first(i) \in Nat /\ first(i + 1) \in Nat
      BY <1>1, <1>5
    <3>4. q \in first(i) .. first(i + 1) - 1
      BY <3>1, <3>3
    <3> QED BY <1>7, <3>2, <3>4
  <2> QED BY <2>a, <2>b
<1>11. DividedAmong(S, part, partitions)
  BY <1>8, <1>9, <1>10 DEF DividedAmong
<1> QED BY <1>11 DEF part

----------------------------------------
(* The invariant *)

Groups ==
    [topic : Topics \cup {""}, generation : 0 .. MaxGeneration, next_seq : 0 .. MaxMembers + 1,
     leader : MemberIds \cup {NoMember}, members : SUBSET MemberIds,
     heartbeat : UNION {[S -> Nat] : S \in SUBSET MemberIds},
     assignment : UNION {[S -> SUBSET Int] : S \in SUBSET MemberIds}]

\* A group as groups_ may hold it: every member has a heartbeat and an assignment.
WellFormed(g) ==
    /\ g \in Groups
    /\ g.heartbeat \in [g.members -> 0 .. clock]
    /\ g.assignment \in [g.members -> SUBSET Int]
    /\ \A m \in g.members : m < g.next_seq
    /\ g # NoGroup => g.topic \in Topics /\ g.next_seq >= 1

\* What JoinGroup, LeaveGroup and the scanner have done to it: a group with members
\* has a generation, and short of the last one its partitions are divided.
Assigned(g) ==
    /\ g.members # {} => g.generation >= 1
    /\ g.members # {} /\ g.generation < MaxGeneration =>
          /\ DividedAmong(g.members, g.assignment, PartitionCount[g.topic])
          /\ g.leader \in g.members

Types ==
    /\ clock \in 0 .. MaxTime
    /\ incarnation \in 0 .. MaxIncarnation
    /\ scan \in Idle .. clock
    /\ joins \in [Clients -> [member : MemberIds \cup {NoMember}, topic : Topics \cup {""},
                              now : Idle .. clock]]
    /\ token \in [Clients -> [member : MemberIds \cup {NoMember}, generation : Nat,
                              incarnation : Nat]]
    /\ owned \in [Clients -> SUBSET Int]

\* A request on its way offers the id of the client's token, if it still has one.
Requests ==
    \A c \in Clients :
        /\ joins[c] # NoJoin => joins[c].topic \in Topics /\ joins[c].now \in 0 .. clock
        /\ joins[c].member # NoMember =>
              token[c] = NoToken \/ joins[c].member = token[c].member

\* A token of the group as it exists now.
Present(c) == group # NoGroup /\ token[c].incarnation = incarnation

\* Tokens of the group as it exists now: ids handed out once, generations not ahead,
\* and what is owned under the generation of the group is what it assigned.
Tokens ==
    /\ group # NoGroup => incarnation >= 1
    /\ \A c \in Clients : token[c].incarnation <= incarnation
    /\ \A c \in Clients : Present(c) =>
          /\ token[c].member < group.next_seq
          /\ token[c].generation <= group.generation
          /\ /\ token[c].member \in group.members
             /\ token[c].generation = group.generation
             /\ group.generation < MaxGeneration
             => owned[c] \subseteq group.assignment[token[c].member]
    /\ \A c, d \in Clients : c # d /\ Present(c) /\ Present(d) =>
          token[c].member # token[d].member

Inv == Types /\ WellFormed(group) /\ Assigned(group) /\ Requests /\ Tokens

----------------------------------------
(* The operations on a group *)

\* A group that exists.
Live(g) == g.topic \in Topics /\ g.next_seq >= 1

\* From g to h: ids are not handed out again, the generation does not go back, and
\* within a generation neither the members nor the assignment change.
Moves(g, h) ==
    /\ h.next_seq >= g.next_seq
    /\ h.generation >= g.generation
    /\ h.generation = g.generation /\ g.generation < MaxGeneration =>
          h.members = g.members /\ h.assignment = g.assignment

LEMMA Constants ==
    /\ MaxGeneration \in Nat /\ MaxGeneration >= 1
    /\ MaxMembers \in Nat /\ MaxTime \in Nat /\ MaxIncarnation \in Nat
    /\ \A m \in MemberIds : m \in Nat /\ m # NoMember /\ m <= MaxMembers
    /\ \A t \in Topics : PartitionCount[t] \in Nat
BY CoordinatorAssumption DEF MemberIds, NoMember

LEMMA NoGroupOk == clock \in Nat => WellFormed(NoGroup) /\ Assigned(NoGroup)
<1> SUFFICES ASSUME clock \in Nat PROVE WellFormed(NoGroup) /\ Assigned(NoGroup)
  OBVIOUS
<1>1. /\ NoGroup.members = {} /\ NoGroup.heartbeat = <<>> /\ NoGroup.assignment = <<>>
      /\ NoGroup.topic = "" /\ NoGroup.generation = 0 /\ NoGroup.next_seq = 0
      /\ NoGroup.leader = NoMember
  BY DEF NoGroup
<1>2. <<>> \in [{} -> Nat] /\ <<>> \in [{} -> SUBSET Int] /\ <<>> \in [{} -> 0 .. clock]
  OBVIOUS
<1>3. {} \in SUBSET MemberIds
  OBVIOUS
<1>4. /\ <<>> \in UNION {[S -> Nat] : S \in SUBSET MemberIds}
      /\ <<>> \in UNION {[S -> SUBSET Int] : S \in SUBSET MemberIds}
  BY <1>2, <1>3
<1>5. 0 \in 0 .. MaxGeneration /\ 0 \in 0 .. MaxMembers + 1
  BY Constants
<1>6. NoGroup \in Groups
  BY <1>4, <1>5 DEF NoGroup, Groups
<1> QED BY <1>1, <1>2, <1>6 DEF WellFormed, Assigned

\* AssignLocked divides the partitions among the members and picks a leader.
LEMMA AssignLockedOk ==
    ASSUME NEW g, WellFormed(g), Live(g)
    PROVE  LET h == AssignLocked(g)
           IN  /\ WellFormed(h) /\ Live(h)
               /\ h.generation = g.generation /\ h.next_seq = g.next_seq
               /\ h.members = g.members
               /\ g.members # {} => /\ DividedAmong(h.members, h.assignment, PartitionCount[h.topic])
                                    /\ h.leader \in h.members
<1> DEFINE h == AssignLocked(g)
           part == [m \in g.members |-> AssignedRun(m, g.members, PartitionCount[g.topic])]
           leader == IF g.members = {} THEN NoMember
                     ELSE CHOOSE m \in g.members : MemberIndex(m, g.members) = 0
<1>1. /\ g \in Groups /\ g.members \in SUBSET MemberIds
  BY DEF WellFormed, Groups
<1>2. h = [g EXCEPT !.leader = leader, !.assignment = part]
  BY DEF AssignLocked
<1>3. g.members # {} => /\ DividedAmong(g.members, part, PartitionCount[g.topic])
                        /\ leader \in g.members
  <2> SUFFICES ASSUME g.members # {}
               PROVE  /\ DividedAmong(g.members, part, PartitionCount[g.topic])
                      /\ leader \in g.members
    OBVIOUS
  <2>a. DividedAmong(g.members, part, PartitionCount[g.topic])
    BY <1>1, Constants, AssignorDivides DEF Live
  <2>b. \E m \in g.members : MemberIndex(m, g.members) = 0
    <3>1. Cardinality(g.members) \in Nat /\ Cardinality(g.members) > 0
      BY <1>1, Positions
    <3>2. 0 \in 0 .. Cardinality(g.members) - 1
      BY <3>1
    <3> QED BY <1>1, <3>2, Positions
  <2> QED BY <2>a, <2>b
<1>4. leader \in MemberIds \cup {NoMember}
  BY <1>1, <1>3
<1>5. part \in [g.members -> SUBSET Int]
  <2>a. ASSUME NEW m \in g.members
        PROVE  AssignedRun(m, g.members, PartitionCount[g.topic]) \in SUBSET Int
    BY DEF AssignedRun
  <2> QED BY <2>a
<1>6. part \in UNION {[S -> SUBSET Int] : S \in SUBSET MemberIds}
  BY <1>1, <1>5
<1> HIDE DEF part, leader
<1>7. /\ h \in Groups
      /\ h.topic = g.topic /\ h.generation = g.generation /\ h.next_seq = g.next_seq
      /\ h.members = g.members /\ h.heartbeat = g.heartbeat
      /\ h.leader = leader /\ h.assignment = part
  BY <1>1, <1>2, <1>4, <1>6 DEF Groups
<1> HIDE DEF h
<1>8. WellFormed(h) /\ Live(h)
  BY <1>5, <1>7 DEF WellFormed, Live
<1>9. /\ h.generation = g.generation /\ h.next_seq = g.next_seq
      /\ h.members = g.members
      /\ g.members # {} => /\ DividedAmong(h.members, h.assignment, PartitionCount[h.topic])
                           /\ h.leader \in h.members
  BY <1>3, <1>7
<1> QED BY <1>8, <1>9 DEF h

LEMMA GenerationType ==
    ASSUME NEW g, WellFormed(g)
    PROVE  g.generation \in Nat /\ g.generation <= MaxGeneration
<1>1. g.generation \in 0 .. MaxGeneration
  BY DEF WellFormed, Groups
<1> QED BY <1>1, Constants

\* A group that is reassigned in generation k.
LEMMA NextGeneration ==
    ASSUME NEW g, WellFormed(g), Live(g), NEW k \in 1 .. MaxGeneration
    PROVE  LET h == AssignLocked([g EXCEPT !.generation = k])
           IN  /\ WellFormed(h) /\ Assigned(h) /\ Live(h)
               /\ h.generation = k /\ h.next_seq = g.next_seq
               /\ h.members = g.members
<1> DEFINE f == [g EXCEPT !.generation = k]
           h == AssignLocked(f)
<1>1. g \in Groups /\ k \in 0 .. MaxGeneration /\ k >= 1
  BY DEF WellFormed
<1>2. /\ f \in Groups
      /\ f.topic = g.topic /\ f.generation = k /\ f.next_seq = g.next_seq
      /\ f.members = g.members /\ f.heartbeat = g.heartbeat /\ f.assignment = g.assignment
  BY <1>1 DEF Groups
<1> HIDE DEF f
<1>3. WellFormed(f) /\ Live(f)
  BY <1>2 DEF WellFormed, Live
<1>4. /\ WellFormed(h) /\ Live(h)
      /\ h.generation = f.generation /\ h.next_seq = f.next_seq
      /\ h.members = f.members
      /\ f.members # {} => /\ DividedAmong(h.members, h.assignment, PartitionCount[h.topic])
                           /\ h.leader \in h.members
  BY <1>3, AssignLockedOk
<1> HIDE DEF h
<1>5. Assigned(h)
  BY <1>1, <1>2, <1>4 DEF Assigned
<1> QED BY <1>2, <1>4, <1>5 DEF f, h

LEMMA RebalanceOk ==
    ASSUME NEW g, WellFormed(g), Live(g)
    PROVE  LET h == Rebalance(g)
           IN  /\ WellFormed(h) /\ Assigned(h) /\ Live(h)
               /\ h.next_seq = g.next_seq /\ h.members = g.members
               /\ h.generation = (IF g.generation = MaxGeneration THEN MaxGeneration
                                  ELSE g.generation + 1)
<1>1. g.generation \in Nat /\ g.generation <= MaxGeneration
  BY GenerationType
<1>2. CASE g.generation = MaxGeneration
  <2>a. Rebalance(g) = g
    BY <1>2 DEF Rebalance
  <2>b. Assigned(g)
    BY <1>1, <1>2, Constants DEF Assigned
  <2> QED BY <1>2, <2>a, <2>b
<1>3. CASE g.generation # MaxGeneration
  <2>a. g.generation + 1 \in 1 .. MaxGeneration
    BY <1>1, <1>3, Constants
  <2>b. Rebalance(g) = AssignLocked([g EXCEPT !.generation = g.generation + 1])
    BY <1>3 DEF Rebalance
  <2> QED BY <1>3, <2>a, <2>b, NextGeneration
<1> QED BY <1>2, <1>3

LEMMA ExpiredOk ==
    ASSUME NEW g, WellFormed(g), Live(g), g.generation >= 1
    PROVE  LET h == Expired(g)
           IN  /\ WellFormed(h) /\ Assigned(h) /\ Live(h)
               /\ h.next_seq = g.next_seq /\ h.members = g.members
               /\ h.generation = (IF g.generation = MaxGeneration THEN MaxGeneration
                                  ELSE g.generation + 1)
<1> DEFINE k == IF g.generation < MaxGeneration THEN g.generation + 1 ELSE g.generation
<1>1. g.generation \in Nat /\ g.generation <= MaxGeneration
  BY GenerationType
<1>2. /\ k \in 1 .. MaxGeneration
      /\ k = IF g.generation = MaxGeneration THEN MaxGeneration ELSE g.generation + 1
  BY <1>1, Constants
<1>3. Expired(g) = AssignLocked([g EXCEPT !.generation = k])
  BY DEF Expired
<1> HIDE DEF k
<1> QED BY <1>2, <1>3, NextGeneration

\* A member that joins, members that leave.
LEMMA WithMemberOk ==
    ASSUME NEW g, WellFormed(g), Live(g), NEW now \in 0 .. clock, clock \in Nat,
           g.next_seq \in MemberIds
    PROVE  LET h == WithMember(g, g.next_seq, now)
           IN  /\ WellFormed(h) /\ Live(h)
               /\ h.next_seq = g.next_seq + 1 /\ h.members = g.members \cup {g.next_seq}
               /\ h.generation = g.generation
<1> DEFINE m == g.next_seq
           S == g.members \cup {m}
           beats == [n \in S |-> IF n = m THEN now ELSE g.heartbeat[n]]
           part == [n \in S |-> IF n = m THEN {} ELSE g.assignment[n]]
           h == WithMember(g, m, now)
<1>1. /\ g \in Groups /\ S \in SUBSET MemberIds
      /\ m \in Nat /\ m + 1 \in 0 .. MaxMembers + 1
      /\ \A n \in g.members : n \in Nat /\ n < m
  <2>a. g \in Groups /\ S \in SUBSET MemberIds
    BY DEF WellFormed, Groups
  <2>b. m \in Nat /\ m <= MaxMembers /\ \A n \in g.members : n \in Nat
    BY <2>a, Constants
  <2>c. \A n \in g.members : n < m
    BY DEF WellFormed
  <2> QED BY <2>a, <2>b, <2>c, Constants
<1>2. beats \in [S -> 0 .. clock] /\ part \in [S -> SUBSET Int]
  BY DEF WellFormed
<1>3. /\ beats \in UNION {[T -> Nat] : T \in SUBSET MemberIds}
      /\ part \in UNION {[T -> SUBSET Int] : T \in SUBSET MemberIds}
  <2>a. beats \in [S -> Nat]
    BY <1>2
  <2> QED BY <1>1, <1>2, <2>a
<1>4. h = [g EXCEPT !.next_seq = @ + 1, !.members = S, !.heartbeat = beats, !.assignment = part]
  BY <1>1 DEF WithMember, Groups
<1> HIDE DEF S, beats, part
<1>5. /\ h \in Groups
      /\ h.topic = g.topic /\ h.generation = g.generation /\ h.next_seq = m + 1
      /\ h.members = S /\ h.heartbeat = beats /\ h.assignment = part
  BY <1>1, <1>3, <1>4 DEF Groups
<1> HIDE DEF h
<1>6. \A n \in S : n < m + 1
  BY <1>1 DEF S
<1>7. WellFormed(h) /\ Live(h)
  BY <1>1, <1>2, <1>5, <1>6 DEF WellFormed, Live
<1> QED BY <1>5, <1>7 DEF h, S

LEMMA WithoutOk ==
    ASSUME NEW g, WellFormed(g), Live(g), NEW gone
    PROVE  LET h == Without(g, gone)
           IN  /\ WellFormed(h) /\ Live(h)
               /\ h.next_seq = g.next_seq /\ h.members = g.members \ gone
               /\ h.generation = g.generation
<1> DEFINE S == g.members \ gone
           beats == [n \in S |-> g.heartbeat[n]]
           part == [n \in S |-> g.assignment[n]]
           h == Without(g, gone)
<1>1. g \in Groups /\ S \in SUBSET MemberIds
  BY DEF WellFormed, Groups
<1>2. beats \in [S -> 0 .. clock] /\ beats \in [S -> Nat] /\ part \in [S -> SUBSET Int]
  BY DEF WellFormed
<1>3. /\ beats \in UNION {[T -> Nat] : T \in SUBSET MemberIds}
      /\ part \in UNION {[T -> SUBSET Int] : T \in SUBSET MemberIds}
  BY <1>1, <1>2
<1>4. h = [g EXCEPT !.members = S, !.heartbeat = beats, !.assignment = part]
  BY DEF Without
<1>5. \A n \in S : n \in g.members
  OBVIOUS
<1> HIDE DEF S, beats, part
<1>6. /\ h \in Groups
      /\ h.topic = g.topic /\ h.generation = g.generation /\ h.next_seq = g.next_seq
      /\ h.members = S /\ h.heartbeat = beats /\ h.assignment = part
  BY <1>1, <1>3, <1>4 DEF Groups
<1> HIDE DEF h
<1>7. WellFormed(h) /\ Live(h)
  BY <1>2, <1>5, <1>6 DEF WellFormed, Live
<1> QED BY <1>6, <1>7 DEF h, S

\* A heartbeat changes nothing else.
LEMMA HeartbeatOk ==
    ASSUME NEW g, WellFormed(g), Live(g), Assigned(g), NEW m \in g.members, NEW now \in 0 .. clock
    PROVE  LET h == [g EXCEPT !.heartbeat[m] = now]
           IN  /\ WellFormed(h) /\ Live(h) /\ Assigned(h)
               /\ h.next_seq = g.next_seq /\ h.members = g.members
               /\ h.generation = g.generation /\ h.assignment = g.assignment
<1> DEFINE beats == [g.heartbeat EXCEPT ![m] = now]
           h == [g EXCEPT !.heartbeat[m] = now]
<1>1. g \in Groups /\ g.members \in SUBSET MemberIds
  BY DEF WellFormed, Groups
<1>2. beats \in [g.members -> 0 .. clock] /\ beats \in [g.members -> Nat]
  BY DEF WellFormed
<1>3. beats \in UNION {[T -> Nat] : T \in SUBSET MemberIds}
  BY <1>1, <1>2
<1>4. h = [g EXCEPT !.heartbeat = beats]
  BY <1>1 DEF Groups
<1> HIDE DEF beats
<1>5. /\ h \in Groups
      /\ h.topic = g.topic /\ h.generation = g.generation /\ h.next_seq = g.next_seq
      /\ h.members = g.members /\ h.heartbeat = beats /\ h.assignment = g.assignment
      /\ h.leader = g.leader
  BY <1>1, <1>3, <1>4 DEF Groups
<1> HIDE DEF h
<1>6. WellFormed(h) /\ Live(h) /\ Assigned(h)
  BY <1>2, <1>5 DEF WellFormed, Live, Assigned
<1> QED BY <1>5, <1>6 DEF h

----------------------------------------
(* The steps *)

\* The order of generations and ids is kept by a step of the group.
Ordered == group # NoGroup /\ group' # NoGroup => Moves(group, group')

LEMMA GroupTypes ==
    ASSUME Inv
    PROVE  /\ clock \in Nat /\ incarnation \in Nat
           /\ group.generation \in Nat /\ group.next_seq \in Nat
           /\ group.members \subseteq MemberIds
           /\ group # NoGroup => Live(group)
           /\ group = NoGroup => group.members = {}
           /\ \A c \in Clients : /\ token[c].incarnation \in Nat /\ token[c].generation \in Nat
                                 /\ token[c].member \in Nat
<1>1. group \in Groups
  BY DEF Inv, WellFormed
<1>2. \A m \in MemberIds \cup {NoMember} : m \in Nat
  BY Constants DEF NoMember
<1>3. group.generation \in 0 .. MaxGeneration /\ group.next_seq \in 0 .. MaxMembers + 1
  BY <1>1 DEF Groups
<1>4. group.members \subseteq MemberIds
  BY <1>1 DEF Groups
<1>5. clock \in 0 .. MaxTime /\ incarnation \in 0 .. MaxIncarnation
  BY DEF Inv, Types
<1>6. \A c \in Clients : /\ token[c].incarnation \in Nat /\ token[c].generation \in Nat
                         /\ token[c].member \in MemberIds \cup {NoMember}
  BY DEF Inv, Types
<1>7. group = NoGroup => group.members = {}
  <2>a. NoGroup.members = {}
    BY DEF NoGroup
  <2> QED BY <2>a
<1>8. group # NoGroup => Live(group)
  BY DEF Inv, WellFormed, Live
<1> QED BY <1>2, <1>3, <1>4, <1>5, <1>6, <1>7, <1>8, Constants

\* What a client with a token of the group as it exists keeps when the group moves on.
LEMMA TokenKept ==
    ASSUME Inv, WellFormed(group)', NEW c \in Clients, Present(c), Moves(group, group'),
           token'[c].member = token[c].member,
           \/ token'[c] = token[c] /\ owned'[c] = owned[c]
           \/ token'[c] = token[c] /\ owned'[c] = group'.assignment[token[c].member]
           \/ token'[c].generation <= group'.generation /\ owned'[c] = {}
    PROVE  /\ token'[c].member < group'.next_seq
           /\ token'[c].generation <= group'.generation
           /\ /\ token'[c].member \in group'.members
              /\ token'[c].generation = group'.generation
              /\ group'.generation < MaxGeneration
              => owned'[c] \subseteq group'.assignment[token'[c].member]
<1>1. /\ token[c].member < group.next_seq
      /\ token[c].generation <= group.generation
      /\ /\ token[c].member \in group.members
         /\ token[c].generation = group.generation
         /\ group.generation < MaxGeneration
         => owned[c] \subseteq group.assignment[token[c].member]
  BY DEF Inv, Tokens
<1>2. /\ token[c].member \in Nat /\ token[c].generation \in Nat
      /\ group.generation \in Nat /\ group.next_seq \in Nat
  BY GroupTypes
<1>3. group'.generation \in Nat /\ group'.next_seq \in Nat
  <2>a. group'.generation \in 0 .. MaxGeneration /\ group'.next_seq \in 0 .. MaxMembers + 1
    BY DEF WellFormed, Groups
  <2> QED BY <2>a, Constants
<1>4. token'[c].member < group'.next_seq
  BY <1>1, <1>2, <1>3 DEF Moves
<1>5. token'[c].generation <= group'.generation
  BY <1>1, <1>2, <1>3 DEF Moves
<1>6. ASSUME token'[c].member \in group'.members, token'[c].generation = group'.generation,
             group'.generation < MaxGeneration
      PROVE  owned'[c] \subseteq group'.assignment[token'[c].member]
  <2>a. CASE token'[c] = token[c] /\ owned'[c] = owned[c]
    <3>1. group'.generation = group.generation
      BY <1>1, <1>2, <1>3, <1>6, <2>a DEF Moves
    <3>2. group'.members = group.members /\ group'.assignment = group.assignment
      BY <1>6, <3>1 DEF Moves
    <3> QED BY <1>1, <1>6, <2>a, <3>1, <3>2
  <2>b. CASE token'[c] = token[c] /\ owned'[c] = group'.assignment[token[c].member]
    BY <2>b
  <2>c. CASE owned'[c] = {}
    BY <2>c
  <2> QED BY <2>a, <2>b, <2>c
<1> QED BY <1>4, <1>5, <1>6

\* A step of the group as it exists that hands out no new id: a client keeps its token
\* and what it owns, or learns its assignment, or renews its token, or forgets it.
LEMMA SameIncarnation ==
    ASSUME Inv, Types', WellFormed(group)', Assigned(group)', Requests',
           incarnation' = incarnation,
           group = NoGroup => group' = NoGroup,
           group # NoGroup /\ group' # NoGroup => Moves(group, group'),
           \A c \in Clients :
              \/ token'[c] = token[c] /\ owned'[c] = owned[c]
              \/ token'[c] = token[c] /\ owned'[c] = group'.assignment[token[c].member]
              \/ /\ token'[c].member = token[c].member
                 /\ token'[c].incarnation = token[c].incarnation
                 /\ token'[c].generation <= group'.generation /\ owned'[c] = {}
              \/ token'[c].incarnation = 0
    PROVE  Inv'
<1>1. incarnation \in Nat
  BY GroupTypes
<1>2. group' # NoGroup => group # NoGroup /\ incarnation >= 1
  BY DEF Inv, Tokens
<1>3. \A c \in Clients : token'[c].incarnation <= incarnation'
  BY <1>1 DEF Inv, Tokens
<1>4. ASSUME NEW c \in Clients, Present(c)'
      PROVE  /\ Present(c) /\ token'[c].member = token[c].member
             /\ \/ token'[c] = token[c] /\ owned'[c] = owned[c]
                \/ token'[c] = token[c] /\ owned'[c] = group'.assignment[token[c].member]
                \/ token'[c].generation <= group'.generation /\ owned'[c] = {}
  <2>a. token'[c].incarnation # 0 /\ group # NoGroup
    BY <1>2, <1>4, <1>1 DEF Present
  <2> QED BY <1>2, <1>4, <2>a DEF Present
<1>5. ASSUME NEW c \in Clients, Present(c)'
      PROVE  /\ token'[c].member < group'.next_seq
             /\ token'[c].generation <= group'.generation
             /\ /\ token'[c].member \in group'.members
                /\ token'[c].generation = group'.generation
                /\ group'.generation < MaxGeneration
                => owned'[c] \subseteq group'.assignment[token'[c].member]
  <2>a. Present(c) /\ Moves(group, group')
    BY <1>4, <1>5 DEF Present
  <2> QED BY <1>4, <1>5, <2>a, TokenKept
<1>6. ASSUME NEW c \in Clients, NEW d \in Clients, c # d, Present(c)', Present(d)'
      PROVE  token'[c].member # token'[d].member
  BY <1>4, <1>6 DEF Inv, Tokens
<1>7. Tokens'
  BY <1>1, <1>2, <1>3, <1>5, <1>6 DEF Tokens
<1> QED BY <1>7 DEF Inv

\* The group changes, and no client notices.
LEMMA GroupStep ==
    ASSUME Inv, UNCHANGED <<clock, joins, token, owned, incarnation>>, scan' \in Idle .. clock,
           WellFormed(group'), Assigned(group'),
           group = NoGroup => group' = NoGroup, Ordered
    PROVE  Inv' /\ Ordered
<1>1. Types' /\ Requests'
  BY DEF Inv, Types, Requests
<1>2. WellFormed(group)' /\ Assigned(group)'
  BY DEF WellFormed, Assigned
<1> QED BY <1>1, <1>2, SameIncarnation DEF Ordered

LEMMA MovesRefl == ASSUME Inv PROVE Moves(group, group)
BY GroupTypes DEF Moves

LEMMA JoinArrivesInv ==
    ASSUME Inv, NEW c \in Clients, NEW topic \in Topics, NEW member \in MemberIds \cup {NoMember},
           JoinArrives(c, topic, member)
    PROVE  Inv' /\ Ordered
<1> DEFINE new == [member |-> member, topic |-> topic, now |-> clock]
<1>1. /\ UNCHANGED <<group, clock, scan, token, owned, incarnation>>
      /\ joins' = [joins EXCEPT ![c] = new]
      /\ member \in {NoMember, token[c].member}
  BY DEF JoinArrives
<1>2. /\ clock \in Nat /\ clock \in Idle .. clock /\ clock \in 0 .. clock
      /\ new \in [member : MemberIds \cup {NoMember}, topic : Topics \cup {""}, now : Idle .. clock]
      /\ new.member = member /\ new.topic = topic /\ new.now = clock
  <2>a. clock \in Nat
    BY GroupTypes
  <2>b. clock \in Idle .. clock /\ clock \in 0 .. clock
    BY <2>a DEF Idle
  <2> QED BY <2>a, <2>b
<1>3. joins \in [Clients -> [member : MemberIds \cup {NoMember}, topic : Topics \cup {""},
                             now : Idle .. clock]]
  BY DEF Inv, Types
<1>4. joins'[c] = new /\ \A d \in Clients : d # c => joins'[d] = joins[d]
  BY <1>1, <1>3
<1>5. Types'
  BY <1>1, <1>2, <1>3 DEF Inv, Types
<1> HIDE DEF new
<1>6. Requests'
  BY <1>1, <1>2, <1>4 DEF Inv, Requests
<1>7. WellFormed(group)' /\ Assigned(group)'
  BY <1>1 DEF Inv, WellFormed, Assigned
<1> QED BY <1>1, <1>5, <1>6, <1>7, SameIncarnation, MovesRefl DEF Ordered

LEMMA TickInv ==
    ASSUME Inv, Tick
    PROVE  Inv' /\ Ordered
<1>1. /\ UNCHANGED <<group, joins, scan, token, owned, incarnation>>
      /\ clock' = clock + 1 /\ clock < MaxTime
  BY DEF Tick
<1>2. clock \in Nat /\ MaxTime \in Nat
  BY GroupTypes, Constants
<1>3. clock' \in 0 .. MaxTime /\ 0 .. clock \subseteq 0 .. clock' /\ Idle .. clock \subseteq Idle .. clock'
  BY <1>1, <1>2 DEF Idle
<1>4. Types' /\ Requests'
  <2>a. joins' \in [Clients -> [member : MemberIds \cup {NoMember}, topic : Topics \cup {""},
                               now : Idle .. clock']]
    BY <1>1, <1>3 DEF Inv, Types
  <2>b. Types'
    BY <1>1, <1>3, <2>a DEF Inv, Types
  <2>c. Requests'
    BY <1>1, <1>3 DEF Inv, Requests
  <2> QED BY <2>b, <2>c
<1>5. WellFormed(group)' /\ Assigned(group)'
  BY <1>1, <1>3 DEF Inv, WellFormed, Assigned
<1> QED BY <1>1, <1>4, <1>5, SameIncarnation, MovesRefl DEF Ordered

LEMMA HeardOf ==
    ASSUME Inv, NEW c \in Clients, Accepts(token[c]),
           group' = [group EXCEPT !.heartbeat[token[c].member] = clock]
    PROVE  /\ WellFormed(group') /\ Assigned(group') /\ group' # NoGroup /\ group # NoGroup
           /\ Moves(group, group') /\ group'.assignment = group.assignment
<1>1. token[c].member \in group.members /\ clock \in 0 .. clock /\ clock \in Nat
  BY GroupTypes DEF Accepts
<1>2. group # NoGroup /\ Live(group)
  BY <1>1, GroupTypes
<1>3. /\ WellFormed(group') /\ Live(group') /\ Assigned(group')
      /\ group'.next_seq = group.next_seq /\ group'.members = group.members
      /\ group'.generation = group.generation /\ group'.assignment = group.assignment
  BY <1>1, <1>2, HeartbeatOk DEF Inv
<1>4. group' # NoGroup
  BY <1>1, <1>3 DEF NoGroup
<1> QED BY <1>2, <1>3, <1>4, GroupTypes DEF Moves

LEMMA HeartbeatInv ==
    ASSUME Inv, NEW c \in Clients, Heartbeat(c)
    PROVE  Inv' /\ Ordered
<1>1. /\ Accepts(token[c]) /\ UNCHANGED <<clock, joins, scan, token, owned, incarnation>>
      /\ group' = [group EXCEPT !.heartbeat[token[c].member] = clock]
  BY DEF Heartbeat
<1>2. scan' \in Idle .. clock
  BY <1>1 DEF Inv, Types
<1> QED BY <1>1, <1>2, HeardOf, GroupStep DEF Ordered

LEMMA SyncGroupInv ==
    ASSUME Inv, NEW c \in Clients, SyncGroup(c)
    PROVE  Inv' /\ Ordered
<1>1. /\ Accepts(token[c]) /\ UNCHANGED <<clock, joins, scan, token, incarnation>>
      /\ group' = [group EXCEPT !.heartbeat[token[c].member] = clock]
      /\ owned' = [owned EXCEPT ![c] = group.assignment[token[c].member]]
  BY DEF SyncGroup
<1>2. /\ WellFormed(group') /\ Assigned(group') /\ group' # NoGroup /\ group # NoGroup
      /\ Moves(group, group') /\ group'.assignment = group.assignment
  BY <1>1, HeardOf
<1>3. group.assignment[token[c].member] \in SUBSET Int
  BY <1>1 DEF Inv, WellFormed, Accepts
<1>4. owned \in [Clients -> SUBSET Int]
  BY DEF Inv, Types
<1>5. /\ owned' \in [Clients -> SUBSET Int]
      /\ owned'[c] = group'.assignment[token[c].member]
      /\ \A d \in Clients : d # c => owned'[d] = owned[d]
  BY <1>1, <1>2, <1>3, <1>4
<1>6. Types' /\ Requests'
  BY <1>1, <1>5 DEF Inv, Types, Requests
<1>7. WellFormed(group)' /\ Assigned(group)'
  BY <1>1, <1>2 DEF WellFormed, Assigned
<1> QED BY <1>1, <1>2, <1>5, <1>6, <1>7, SameIncarnation DEF Ordered

\* A client forgets its token.
LEMMA Forgets ==
    ASSUME Inv, NEW c \in Clients,
           token' = [token EXCEPT ![c] = NoToken], owned' = [owned EXCEPT ![c] = {}],
           UNCHANGED <<clock, joins, scan, incarnation>>
    PROVE  /\ Types' /\ Requests'
           /\ \A d \in Clients : \/ token'[d] = token[d] /\ owned'[d] = owned[d]
                                 \/ token'[d].incarnation = 0
<1>1. /\ token \in [Clients -> [member : MemberIds \cup {NoMember}, generation : Nat,
                                incarnation : Nat]]
      /\ owned \in [Clients -> SUBSET Int]
  BY DEF Inv, Types
<1>2. /\ NoToken \in [member : MemberIds \cup {NoMember}, generation : Nat, incarnation : Nat]
      /\ NoToken.incarnation = 0
  BY DEF NoToken
<1>3. /\ token' \in [Clients -> [member : MemberIds \cup {NoMember}, generation : Nat,
                                 incarnation : Nat]]
      /\ token'[c] = NoToken
      /\ \A d \in Clients : d # c => token'[d] = token[d]
  BY <1>1, <1>2
<1>4. /\ owned' \in [Clients -> SUBSET Int]
      /\ \A d \in Clients : d # c => owned'[d] = owned[d]
  BY <1>1
<1>5. Types'
  BY <1>3, <1>4 DEF Inv, Types
<1>6. Requests'
  BY <1>3 DEF Inv, Requests
<1> QED BY <1>2, <1>3, <1>4, <1>5, <1>6

LEMMA ClientStopsInv ==
    ASSUME Inv, NEW c \in Clients, ClientStops(c)
    PROVE  Inv' /\ Ordered
<1>1. /\ token' = [token EXCEPT ![c] = NoToken] /\ owned' = [owned EXCEPT ![c] = {}]
      /\ UNCHANGED <<group, clock, joins, scan, incarnation>>
  BY DEF ClientStops
<1>2. /\ Types' /\ Requests'
      /\ \A d \in Clients : \/ token'[d] = token[d] /\ owned'[d] = owned[d]
                            \/ token'[d].incarnation = 0
  BY <1>1, Forgets
<1>3. WellFormed(group)' /\ Assigned(group)'
  BY <1>1 DEF Inv, WellFormed, Assigned
<1> QED BY <1>1, <1>2, <1>3, SameIncarnation, MovesRefl DEF Ordered

LEMMA LeaveGroupInv ==
    ASSUME Inv, NEW c \in Clients, LeaveGroup(c)
    PROVE  Inv' /\ Ordered
<1> DEFINE m == token[c].member
           g == Without(group, {m})
<1>1. /\ m \in group.members
      /\ group' = IF g.generation = MaxGeneration THEN g
                  ELSE IF g.members = {} THEN NoGroup
                  ELSE Rebalance(g)
      /\ token' = [token EXCEPT ![c] = NoToken] /\ owned' = [owned EXCEPT ![c] = {}]
      /\ UNCHANGED <<clock, joins, scan, incarnation>>
  BY DEF LeaveGroup
<1>2. group # NoGroup /\ Live(group) /\ clock \in Nat
  BY <1>1, GroupTypes
<1>3. /\ WellFormed(g) /\ Live(g)
      /\ g.next_seq = group.next_seq /\ g.members = group.members \ {m}
      /\ g.generation = group.generation
  BY <1>2, WithoutOk DEF Inv
<1>4. group.generation \in Nat /\ group.generation <= MaxGeneration /\ group.next_seq \in Nat
  BY GroupTypes, GenerationType DEF Inv
<1> HIDE DEF g
<1>5. WellFormed(group') /\ Assigned(group') /\ Ordered
  <2>a. CASE g.generation = MaxGeneration
    <3>1. group' = g
      BY <1>1, <2>a
    <3>2. Assigned(g)
      BY <1>3, <1>4, <2>a, Constants DEF Assigned
    <3>3. Moves(group, g)
      BY <1>3, <1>4, <2>a, Constants DEF Moves
    <3> QED BY <1>3, <3>1, <3>2, <3>3 DEF Ordered
  <2>b. CASE g.generation # MaxGeneration /\ g.members = {}
    <3>1. group' = NoGroup
      BY <1>1, <2>b
    <3> QED BY <1>2, <3>1, NoGroupOk DEF Ordered
  <2>c. CASE g.generation # MaxGeneration /\ g.members # {}
    <3>1. group' = Rebalance(g)
      BY <1>1, <2>c
    <3>2. /\ WellFormed(group') /\ Assigned(group')
          /\ group'.next_seq = g.next_seq /\ group'.generation = g.generation + 1
      BY <1>3, <2>c, <3>1, RebalanceOk
    <3>3. Moves(group, group')
      BY <1>3, <1>4, <3>2 DEF Moves
    <3> QED BY <3>2, <3>3 DEF Ordered
  <2> QED BY <2>a, <2>b, <2>c
<1>6. /\ Types' /\ Requests'
      /\ \A d \in Clients : \/ token'[d] = token[d] /\ owned'[d] = owned[d]
                            \/ token'[d].incarnation = 0
  BY <1>1, Forgets
<1>7. WellFormed(group)' /\ Assigned(group)'
  BY <1>1, <1>5 DEF WellFormed, Assigned
<1> QED BY <1>1, <1>2, <1>5, <1>6, <1>7, SameIncarnation DEF Ordered

LEMMA ScanStartsInv ==
    ASSUME Inv, ScanStarts
    PROVE  Inv' /\ Ordered
<1>1. UNCHANGED <<group, clock, joins, token, owned, incarnation>> /\ scan' = clock
  BY DEF ScanStarts
<1>2. clock \in Nat
  BY GroupTypes
<1>3. scan' \in Idle .. clock
  BY <1>1, <1>2 DEF Idle
<1>4. WellFormed(group') /\ Assigned(group') /\ Ordered
  BY <1>1, MovesRefl DEF Inv, WellFormed, Assigned, Ordered
<1> QED BY <1>1, <1>3, <1>4, GroupStep

LEMMA ExpireInv ==
    ASSUME Inv, ExpireTimedOutMembers
    PROVE  Inv' /\ Ordered
<1> DEFINE gone == TimedOut(scan)
           g == Without(group, gone)
<1>1. /\ group' = IF gone = {} THEN group
                  ELSE IF g.members = {} THEN NoGroup
                  ELSE Expired(g)
      /\ scan' = Idle
      /\ UNCHANGED <<clock, joins, token, owned, incarnation>>
  BY DEF ExpireTimedOutMembers
<1>2. clock \in Nat /\ gone \subseteq group.members
  BY GroupTypes DEF TimedOut
<1>3. scan' \in Idle .. clock
  BY <1>1, <1>2 DEF Idle
<1> HIDE DEF gone
<1>4. CASE gone = {}
  <2>a. WellFormed(group') /\ Assigned(group') /\ Ordered /\ group' = group
    BY <1>1, <1>4, MovesRefl DEF Inv, WellFormed, Assigned, Ordered
  <2> QED BY <1>1, <1>3, <2>a, GroupStep
<1>5. CASE gone # {}
  <2>a. group # NoGroup /\ Live(group) /\ group.members # {}
    BY <1>2, <1>5, GroupTypes
  <2>b. /\ WellFormed(g) /\ Live(g)
        /\ g.next_seq = group.next_seq /\ g.members = group.members \ gone
        /\ g.generation = group.generation
    BY <2>a, WithoutOk DEF Inv
  <2>c. /\ group.generation \in Nat /\ group.generation <= MaxGeneration
        /\ group.next_seq \in Nat /\ group.generation >= 1
    BY <2>a, GroupTypes, GenerationType DEF Inv, Assigned
  <2> HIDE DEF g
  <2>d. CASE g.members = {}
    <3>1. group' = NoGroup
      BY <1>1, <1>5, <2>d
    <3>2. WellFormed(group') /\ Assigned(group') /\ Ordered
      BY <1>2, <3>1, NoGroupOk DEF Ordered
    <3> QED BY <1>1, <1>3, <2>a, <3>2, GroupStep
  <2>e. CASE g.members # {}
    <3>1. group' = Expired(g)
      BY <1>1, <1>5, <2>e
    <3>2. /\ WellFormed(group') /\ Assigned(group') /\ group'.next_seq = g.next_seq
          /\ group'.generation = (IF g.generation = MaxGeneration THEN MaxGeneration
                                  ELSE g.generation + 1)
      BY <2>b, <2>c, <3>1, ExpiredOk
    <3>3. Moves(group, group')
      BY <2>b, <2>c, <3>2, Constants DEF Moves
    <3> QED BY <1>1, <1>3, <2>a, <3>2, <3>3, GroupStep DEF Ordered
  <2> QED BY <2>d, <2>e
<1> QED BY <1>4, <1>5

LEMMA RestartInv ==
    ASSUME Inv, Restart
    PROVE  Inv' /\ Ordered
<1>1. /\ group' = NoGroup /\ joins' = [c \in Clients |-> NoJoin] /\ scan' = Idle
      /\ UNCHANGED <<clock, token, owned, incarnation>>
  BY DEF Restart
<1>2. clock \in Nat
  BY GroupTypes
<1>3. Idle \in Idle .. clock
  BY <1>2 DEF Idle
<1>4. NoJoin \in [member : MemberIds \cup {NoMember}, topic : Topics \cup {""}, now : Idle .. clock]
  BY <1>3 DEF NoJoin
<1>5. NoJoin.member = NoMember
  BY DEF NoJoin
<1>6. Types'
  BY <1>1, <1>3, <1>4 DEF Inv, Types
<1>7. Requests'
  BY <1>1, <1>5 DEF Requests
<1>8. WellFormed(group)' /\ Assigned(group)'
  BY <1>1, <1>2, NoGroupOk DEF WellFormed, Assigned
<1> QED BY <1>1, <1>6, <1>7, <1>8, SameIncarnation DEF Ordered

----------------------------------------
(* JoinGroup *)

NewToken(g, m, inc) == [member |-> m, generation |-> g.generation, incarnation |-> inc]

\* The request is answered, and the response arrives or is lost.
LEMMA RespondOk ==
    ASSUME Inv, NEW c \in Clients, NEW g, WellFormed(g), NEW m \in MemberIds, NEW inc \in Nat,
           NEW delivered, Respond(c, g, m, inc, delivered),
           joins' = [joins EXCEPT ![c] = NoJoin], UNCHANGED <<clock, scan>>,
           incarnation' \in 0 .. MaxIncarnation
    PROVE  /\ Types' /\ Requests'
           /\ \A d \in Clients : d # c => token'[d] = token[d] /\ owned'[d] = owned[d]
           /\ \/ token'[c] = token[c] /\ owned'[c] = owned[c]
              \/ delivered /\ token'[c] = NewToken(g, m, inc) /\ owned'[c] = {}
<1>1. /\ token \in [Clients -> [member : MemberIds \cup {NoMember}, generation : Nat,
                                incarnation : Nat]]
      /\ owned \in [Clients -> SUBSET Int]
      /\ joins \in [Clients -> [member : MemberIds \cup {NoMember}, topic : Topics \cup {""},
                                now : Idle .. clock]]
  BY DEF Inv, Types
<1>2. NewToken(g, m, inc) \in [member : MemberIds \cup {NoMember}, generation : Nat,
                               incarnation : Nat]
  BY GenerationType DEF NewToken
<1>3. /\ token' \in [Clients -> [member : MemberIds \cup {NoMember}, generation : Nat,
                                 incarnation : Nat]]
      /\ owned' \in [Clients -> SUBSET Int]
      /\ \A d \in Clients : d # c => token'[d] = token[d] /\ owned'[d] = owned[d]
      /\ \/ token'[c] = token[c] /\ owned'[c] = owned[c]
         \/ delivered /\ token'[c] = NewToken(g, m, inc) /\ owned'[c] = {}
  <2>a. CASE delivered
    <3>1. /\ token' = [token EXCEPT ![c] = NewToken(g, m, inc)]
          /\ owned' = [owned EXCEPT ![c] = {}]
      BY <2>a DEF Respond, NewToken
    <3> QED BY <1>1, <1>2, <2>a, <3>1
  <2>b. CASE ~delivered
    BY <1>1, <2>b DEF Respond
  <2> QED BY <2>a, <2>b
<1>4. /\ NoJoin \in [member : MemberIds \cup {NoMember}, topic : Topics \cup {""},
                     now : Idle .. clock]
      /\ NoJoin.member = NoMember
  <2>a. clock \in Nat
    BY GroupTypes
  <2>b. Idle \in Idle .. clock
    BY <2>a DEF Idle
  <2> QED BY <2>b DEF NoJoin
<1>5. /\ joins' \in [Clients -> [member : MemberIds \cup {NoMember}, topic : Topics \cup {""},
                                 now : Idle .. clock]]
      /\ joins'[c] = NoJoin
      /\ \A d \in Clients : d # c => joins'[d] = joins[d]
  BY <1>1, <1>4
<1>6. Types'
  BY <1>3, <1>5 DEF Inv, Types
<1>7. Requests'
  BY <1>3, <1>4, <1>5, ZenonT(40) DEF Inv, Requests
<1> QED BY <1>3, <1>6, <1>7

\* A group that has just been created is well formed, and no token is of this group.
LEMMA Created ==
    ASSUME NEW topic \in Topics, clock \in Nat
    PROVE  LET g == [NoGroup EXCEPT !.topic = topic, !.next_seq = 1]
           IN  /\ WellFormed(g) /\ Live(g) /\ Assigned(g)
               /\ g.members = {} /\ g.next_seq = 1 /\ g.generation = 0
<1> DEFINE g == [NoGroup EXCEPT !.topic = topic, !.next_seq = 1]
<1>1. WellFormed(NoGroup)
  BY NoGroupOk
<1>2. 1 \in 0 .. MaxMembers + 1
  BY Constants
<1>3. NoGroup \in Groups /\ NoGroup.members = {} /\ NoGroup.generation = 0
  BY <1>1 DEF WellFormed, NoGroup
<1>4. /\ g \in Groups
      /\ g.topic = topic /\ g.generation = NoGroup.generation /\ g.next_seq = 1
      /\ g.members = NoGroup.members /\ g.heartbeat = NoGroup.heartbeat
      /\ g.assignment = NoGroup.assignment
  BY <1>2, <1>3 DEF Groups
<1> HIDE DEF g
<1>5. WellFormed(g) /\ Live(g) /\ Assigned(g)
  BY <1>1, <1>3, <1>4 DEF WellFormed, Live, Assigned
<1> QED BY <1>3, <1>4, <1>5 DEF g

\* The first request creates the group.
LEMMA CreatesInv ==
    ASSUME Inv, group = NoGroup, incarnation' = incarnation + 1, Types', Requests',
           WellFormed(group)', Assigned(group)', NEW c \in Clients,
           \A d \in Clients : d # c => token'[d] = token[d],
           \/ token'[c] = token[c]
           \/ /\ token'[c].member < group'.next_seq
              /\ token'[c].generation <= group'.generation /\ owned'[c] = {}
              /\ token'[c].incarnation = incarnation'
    PROVE  Inv'
<1>1. incarnation \in Nat /\ \A d \in Clients : token[d].incarnation \in Nat
  BY GroupTypes
<1>2. \A d \in Clients : token[d].incarnation <= incarnation
  BY DEF Inv, Tokens
<1>3. \A d \in Clients : token'[d] = token[d] =>
         token'[d].incarnation <= incarnation' /\ ~Present(d)'
  BY <1>1, <1>2 DEF Present
<1>4. \A d \in Clients : token'[d].incarnation <= incarnation'
  BY <1>1, <1>3
<1>5. incarnation' >= 1
  BY <1>1
<1>6. Tokens'
  BY <1>3, <1>4, <1>5 DEF Tokens
<1> QED BY <1>6 DEF Inv

\* A new member joins the group as it exists.
LEMMA NewMemberInv ==
    ASSUME Inv, group # NoGroup, incarnation' = incarnation, Types', Requests',
           WellFormed(group)', Assigned(group)', Moves(group, group'), NEW c \in Clients,
           \A d \in Clients : d # c => token'[d] = token[d] /\ owned'[d] = owned[d],
           \/ token'[c] = token[c] /\ owned'[c] = owned[c]
           \/ /\ token'[c].member = group.next_seq /\ group.next_seq < group'.next_seq
              /\ token'[c].generation <= group'.generation /\ owned'[c] = {}
              /\ token'[c].incarnation = incarnation
    PROVE  Inv'
<1>1. incarnation \in Nat /\ incarnation >= 1 /\ group.next_seq \in Nat
  BY GroupTypes DEF Inv, Tokens
<1>2. \A d \in Clients : token'[d].incarnation <= incarnation'
  BY <1>1 DEF Inv, Tokens
<1>3. \A d \in Clients : token'[d] = token[d] /\ owned'[d] = owned[d] /\ Present(d)' => Present(d)
  BY DEF Present
<1>4. ASSUME NEW d \in Clients, Present(d)'
      PROVE  /\ token'[d].member < group'.next_seq
             /\ token'[d].generation <= group'.generation
             /\ /\ token'[d].member \in group'.members
                /\ token'[d].generation = group'.generation
                /\ group'.generation < MaxGeneration
                => owned'[d] \subseteq group'.assignment[token'[d].member]
  <2>a. CASE token'[d] = token[d] /\ owned'[d] = owned[d]
    BY <1>3, <1>4, <2>a, TokenKept
  <2>b. CASE ~(token'[d] = token[d] /\ owned'[d] = owned[d])
    BY <2>b
  <2> QED BY <2>a, <2>b
<1>5. \A d \in Clients : Present(d) => token[d].member < group.next_seq /\ token[d].member \in Nat
  BY GroupTypes DEF Inv, Tokens
<1>6. ASSUME NEW d \in Clients, NEW e \in Clients, d # e, Present(d)', Present(e)'
      PROVE  token'[d].member # token'[e].member
  <2>a. CASE token'[c] = token[c] /\ owned'[c] = owned[c]
    BY <1>3, <1>6, <2>a DEF Inv, Tokens
  <2>b. CASE token'[c].member = group.next_seq
    <3>1. \A u \in Clients : u # c /\ Present(u)' => token'[u].member # group.next_seq
      BY <1>1, <1>3, <1>5
    <3>2. CASE d = c
      BY <1>6, <2>b, <3>1, <3>2
    <3>3. CASE e = c
      BY <1>6, <2>b, <3>1, <3>3
    <3>4. CASE d # c /\ e # c
      BY <1>3, <1>6, <3>4 DEF Inv, Tokens
    <3> QED BY <3>2, <3>3, <3>4
  <2> QED BY <2>a, <2>b
<1>7. Tokens'
  BY <1>1, <1>2, <1>4, <1>6 DEF Tokens
<1> QED BY <1>7 DEF Inv

LEMMA JoinLockedInv ==
    ASSUME Inv, NEW c \in Clients, NEW delivered \in BOOLEAN, JoinLocked(c, delivered)
    PROVE  Inv' /\ Ordered
<1> DEFINE req == joins[c]
           g == GroupFor(req.topic)
           m == g.next_seq
           with == WithMember(g, m, req.now)
           grown == Rebalance(with)
           known == [g EXCEPT !.heartbeat[req.member] = req.now]
           alive == IF g.generation = 0 THEN Rebalance(known) ELSE known
           inc == IF group = NoGroup THEN incarnation + 1 ELSE incarnation
           Joined == /\ m \in MemberIds /\ group' = grown
                     /\ Respond(c, grown, m, inc, delivered /\ g.generation # MaxGeneration)
           Known == /\ req.member \in g.members /\ group' = alive
                    /\ Respond(c, alive, req.member, token[c].incarnation, delivered)
           Refused == group' = g /\ UNCHANGED <<token, owned>>
<1>1. /\ req # NoJoin /\ joins' = [joins EXCEPT ![c] = NoJoin]
      /\ group = NoGroup => incarnation < MaxIncarnation
      /\ incarnation' = inc /\ UNCHANGED <<clock, scan>>
      /\ Joined \/ Known \/ Refused
  BY DEF JoinLocked
<1>2. /\ clock \in Nat /\ incarnation \in Nat /\ req.topic \in Topics /\ req.now \in 0 .. clock
      /\ group.generation \in Nat /\ group.next_seq \in Nat
      /\ token[c].incarnation \in Nat
  BY <1>1, GroupTypes DEF Inv, Requests
<1>3. incarnation' \in 0 .. MaxIncarnation
  <2>a. incarnation \in 0 .. MaxIncarnation /\ MaxIncarnation \in Nat
    BY Constants DEF Inv, Types
  <2>b. incarnation' = inc /\ (group = NoGroup => incarnation < MaxIncarnation)
    BY <1>1
  <2> QED BY <2>a, <2>b
<1>4. /\ WellFormed(g) /\ Live(g) /\ Assigned(g)
      /\ group # NoGroup => g = group
      /\ group = NoGroup => g.members = {} /\ g.generation = 0
  <2>a. CASE group = NoGroup
    <3>1. g = [NoGroup EXCEPT !.topic = req.topic, !.next_seq = 1]
      BY <2>a DEF GroupFor
    <3> QED BY <1>2, <2>a, <3>1, Created
  <2>b. CASE group # NoGroup
    <3>1. g = group
      BY <2>b DEF GroupFor
    <3> QED BY <2>b, <3>1, GroupTypes DEF Inv
  <2> QED BY <2>a, <2>b
<1>5. g.generation \in Nat /\ g.generation <= MaxGeneration /\ g.next_seq \in Nat
  <2>a. g.next_seq \in 0 .. MaxMembers + 1
    BY <1>4 DEF WellFormed, Groups
  <2> QED BY <1>4, <2>a, GenerationType, Constants
<1> HIDE DEF g, inc
<1>6. CASE Joined
  <2>a. /\ WellFormed(with) /\ Live(with)
        /\ with.next_seq = m + 1 /\ with.generation = g.generation
    BY <1>2, <1>4, <1>6, WithMemberOk
  <2>b. /\ WellFormed(grown) /\ Assigned(grown) /\ Live(grown)
        /\ grown.next_seq = m + 1
        /\ grown.generation = (IF g.generation = MaxGeneration THEN MaxGeneration
                               ELSE g.generation + 1)
    BY <2>a, RebalanceOk
  <2> HIDE DEF grown, with
  <2>c. WellFormed(group)' /\ Assigned(group)'
    BY <1>1, <1>6, <2>b DEF WellFormed, Assigned
  <2>d. inc \in Nat /\ incarnation' = inc
    BY <1>1, <1>2 DEF inc
  <2>e. /\ Types' /\ Requests'
        /\ \A d \in Clients : d # c => token'[d] = token[d] /\ owned'[d] = owned[d]
        /\ \/ token'[c] = token[c] /\ owned'[c] = owned[c]
           \/ token'[c] = NewToken(grown, m, inc) /\ owned'[c] = {}
    BY <1>1, <1>3, <1>6, <2>b, <2>d, RespondOk
  <2>f. \/ token'[c] = token[c] /\ owned'[c] = owned[c]
        \/ /\ token'[c].member = m /\ token'[c].generation <= group'.generation
           /\ owned'[c] = {} /\ token'[c].incarnation = incarnation'
    <3>1. grown.generation \in Nat
      BY <2>b, GenerationType
    <3> QED BY <1>6, <2>d, <2>e, <3>1 DEF NewToken
  <2>g. m < group'.next_seq
    BY <1>5, <1>6, <2>b
  <2>h. CASE group = NoGroup
    <3>1. incarnation' = incarnation + 1
      BY <1>1, <2>h DEF inc
    <3> QED BY <2>c, <2>e, <2>f, <2>g, <2>h, <3>1, CreatesInv DEF Ordered
  <2>i. CASE group # NoGroup
    <3>1. incarnation' = incarnation /\ g = group
      BY <1>1, <1>4, <2>i DEF inc
    <3>2. Moves(group, group')
      BY <1>5, <1>6, <2>b, <3>1, Constants DEF Moves
    <3> QED BY <2>c, <2>e, <2>f, <2>g, <2>i, <3>1, <3>2, NewMemberInv DEF Ordered
  <2> QED BY <2>h, <2>i
<1>7. CASE Known
  <2>a. group # NoGroup /\ g = group /\ g.members # {} /\ req.member \in MemberIds
    <3>1. g.members \in SUBSET MemberIds
      BY <1>4 DEF WellFormed, Groups
    <3> QED BY <1>4, <1>7, <3>1
  <2>b. g.generation # 0
    BY <1>4, <1>5, <2>a DEF Assigned
  <2>c. group' = known
    BY <1>7, <2>b
  <2>d. /\ WellFormed(known) /\ Live(known) /\ Assigned(known)
        /\ known.next_seq = g.next_seq /\ known.members = g.members
        /\ known.generation = g.generation /\ known.assignment = g.assignment
    BY <1>2, <1>4, <1>7, HeartbeatOk
  <2>e. Respond(c, known, req.member, token[c].incarnation, delivered)
    BY <1>7, <2>b
  <2> HIDE DEF known
  <2>f. WellFormed(group)' /\ Assigned(group)'
    BY <1>1, <2>c, <2>d DEF WellFormed, Assigned
  <2>g. /\ Types' /\ Requests'
        /\ \A d \in Clients : d # c => token'[d] = token[d] /\ owned'[d] = owned[d]
        /\ \/ token'[c] = token[c] /\ owned'[c] = owned[c]
           \/ token'[c] = NewToken(known, req.member, token[c].incarnation) /\ owned'[c] = {}
    BY <1>1, <1>2, <1>3, <2>a, <2>d, <2>e, RespondOk, ZenonT(40)
  <2>h. \/ token'[c] = token[c] /\ owned'[c] = owned[c]
        \/ /\ token'[c].member = token[c].member
           /\ token'[c].incarnation = token[c].incarnation
           /\ token'[c].generation <= group'.generation /\ owned'[c] = {}
        \/ token'[c].incarnation = 0
    <3>1. token[c] = NoToken \/ req.member = token[c].member
      BY <2>a, Constants DEF Inv, Requests
    <3>2. NoToken.incarnation = 0
      BY DEF NoToken
    <3>3. known.generation <= known.generation
      BY <1>5, <2>d
    <3> QED BY <2>c, <2>g, <3>1, <3>2, <3>3 DEF NewToken
  <2>i. Moves(group, group')
    BY <1>2, <2>a, <2>c, <2>d DEF Moves
  <2>j. incarnation' = incarnation
    BY <1>1, <2>a DEF inc
  <2> QED BY <2>a, <2>f, <2>g, <2>h, <2>i, <2>j, SameIncarnation DEF Ordered
<1>8. CASE Refused
  <2>a. WellFormed(group)' /\ Assigned(group)'
    BY <1>1, <1>4, <1>8 DEF WellFormed, Assigned
  <2>b. Types' /\ Requests'
    <3>1. joins'[c] = NoJoin /\ \A d \in Clients : d # c => joins'[d] = joins[d]
      BY <1>1 DEF Inv, Types
    <3>2. /\ NoJoin \in [member : MemberIds \cup {NoMember}, topic : Topics \cup {""},
                         now : Idle .. clock]
          /\ NoJoin.member = NoMember
      <4>1. Idle \in Idle .. clock
        BY <1>2 DEF Idle
      <4> QED BY <4>1 DEF NoJoin
    <3>3. Types'
      BY <1>1, <1>3, <1>8, <3>2 DEF Inv, Types
    <3>4. Requests'
      BY <1>1, <1>8, <3>1, <3>2 DEF Inv, Requests
    <3> QED BY <3>3, <3>4
  <2>c. CASE group = NoGroup
    <3>1. incarnation' = incarnation + 1
      BY <1>1, <2>c DEF inc
    <3> QED BY <1>8, <2>a, <2>b, <2>c, <3>1, CreatesInv DEF Ordered
  <2>d. CASE group # NoGroup
    <3>1. incarnation' = incarnation /\ group' = group
      BY <1>1, <1>4, <1>8, <2>d DEF inc
    <3> QED BY <1>8, <2>a, <2>b, <2>d, <3>1, SameIncarnation, MovesRefl DEF Ordered
  <2> QED BY <2>c, <2>d
<1> QED BY <1>1, <1>6, <1>7, <1>8

----------------------------------------
(* The theorems *)

LEMMA InitInv == Init => Inv
<1> SUFFICES ASSUME Init PROVE Inv
  OBVIOUS
<1>1. clock = 0 /\ group = NoGroup /\ incarnation = 0
  BY DEF Init
<1>2. WellFormed(group) /\ Assigned(group)
  BY <1>1, NoGroupOk
<1>3. /\ NoJoin \in [member : MemberIds \cup {NoMember}, topic : Topics \cup {""},
                     now : Idle .. clock]
      /\ NoJoin.member = NoMember
  <2>a. Idle \in Idle .. clock
    BY <1>1 DEF Idle
  <2> QED BY <2>a DEF NoJoin
<1>4. NoToken \in [member : MemberIds \cup {NoMember}, generation : Nat, incarnation : Nat]
  BY DEF NoToken
<1>5. /\ scan \in Idle .. clock /\ clock \in 0 .. MaxTime
      /\ incarnation \in 0 .. MaxIncarnation
  BY <1>1, Constants DEF Init, Idle
<1>6. Types
  BY <1>3, <1>4, <1>5 DEF Init, Types
<1>7. Requests
  BY <1>3 DEF Init, Requests
<1>8. Tokens
  BY <1>1 DEF Init, Tokens, Present, NoToken
<1> QED BY <1>2, <1>6, <1>7, <1>8 DEF Inv

LEMMA NextInv == Inv /\ [Next]_vars => Inv' /\ Ordered
<1> SUFFICES ASSUME Inv, [Next]_vars PROVE Inv' /\ Ordered
  OBVIOUS
<1>1. CASE UNCHANGED vars
  <2>a. /\ UNCHANGED <<clock, joins, token, owned, incarnation>> /\ group' = group
        /\ scan' \in Idle .. clock
    BY <1>1 DEF vars, Inv, Types
  <2>b. WellFormed(group') /\ Assigned(group')
    BY <2>a DEF Inv, WellFormed, Assigned
  <2> QED BY <2>a, <2>b, MovesRefl, GroupStep DEF Ordered
<1> QED BY <1>1, JoinArrivesInv, JoinLockedInv, SyncGroupInv, HeartbeatInv, LeaveGroupInv,
           ClientStopsInv, ScanStartsInv, ExpireInv, TickInv, RestartInv DEF Next

LEMMA Invariance == Spec => []Inv
BY InitInv, NextInv, PTL DEF Spec

\* The types of the variables; heartbeats are never in the future.
THEOREM TypeCorrect == Spec => []TypeOK
<1>1. Inv => TypeOK
  <2> SUFFICES ASSUME Inv PROVE TypeOK
    OBVIOUS
  <2>a. /\ group.topic \in Topics \cup {""} /\ group.generation \in 0 .. MaxGeneration
        /\ group.next_seq \in 0 .. MaxMembers + 1 /\ group.leader \in MemberIds \cup {NoMember}
        /\ group.members \subseteq MemberIds
    BY DEF Inv, WellFormed, Groups
  <2>b. \A c \in Clients : joins[c].now \in Idle .. clock
    BY DEF Inv, Types
  <2>c. /\ group.heartbeat \in [group.members -> 0 .. clock]
        /\ DOMAIN group.assignment = group.members
    BY DEF Inv, WellFormed
  <2> QED BY <2>a, <2>b, <2>c DEF TypeOK, Inv, Types
<1> QED BY <1>1, Invariance, PTL

\* However members join, leave and expire, for any number of members and partitions:
\* AssignLocked gives each partition one owner and balances the runs.
THEOREM AlwaysDivided == Spec => []PartitionsDivided
<1>1. Inv => PartitionsDivided
  BY DEF Inv, Assigned, DividedAmong, PartitionsDivided, Divided
<1> QED BY <1>1, Invariance, PTL

\* Two clients with accepted tokens of one incarnation never own a partition together.
THEOREM OwnersExclusive == Spec => []ExclusiveInIncarnation
<1>1. Inv => ExclusiveInIncarnation
  <2> SUFFICES ASSUME Inv, NEW c \in Clients, NEW d \in Clients, c # d,
                      Accepts(token[c]), Accepts(token[d]),
                      token[c].incarnation = incarnation, token[d].incarnation = incarnation,
                      group.generation < MaxGeneration
               PROVE  owned[c] \cap owned[d] = {}
    BY DEF ExclusiveInIncarnation
  <2>a. /\ token[c].member \in group.members /\ token[c].generation = group.generation
        /\ token[d].member \in group.members /\ token[d].generation = group.generation
    BY DEF Accepts
  <2>b. Present(c) /\ Present(d)
    BY <2>a, GroupTypes DEF Present
  <2>c. /\ owned[c] \subseteq group.assignment[token[c].member]
        /\ owned[d] \subseteq group.assignment[token[d].member]
        /\ token[c].member # token[d].member
    BY <2>a, <2>b DEF Inv, Tokens
  <2>d. group.assignment[token[c].member] \cap group.assignment[token[d].member] = {}
    BY <2>a, <2>c DEF Inv, Assigned, DividedAmong
  <2> QED BY <2>c, <2>d
<1> QED BY <1>1, Invariance, PTL

\* While the group exists its generation never goes back, and within a generation
\* neither the members nor their assignments change.
THEOREM GenerationsFence == Spec => GenerationFences
<1>1. Inv /\ [Next]_vars =>
         [group # NoGroup /\ group' # NoGroup =>
            /\ group'.generation >= group.generation
            /\ group'.generation = group.generation /\ group.generation < MaxGeneration =>
                  group'.members = group.members /\ group'.assignment = group.assignment]_vars
  BY NextInv DEF Ordered, Moves
<1> QED BY <1>1, Invariance, PTL DEF Spec, GenerationFences
================================================================================
