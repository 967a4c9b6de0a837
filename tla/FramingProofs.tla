------------------------------ MODULE FramingProofs -----------------------------
(***************************************************************************)
(* Proofs about Codec and Framing, for every byte width, frame limit,      *)
(* script and way the streams are cut, in three parts: what the encoders   *)
(* write the decoders read, field by field, body by body and frame by      *)
(* frame; FrameDecoder takes whole frames off a stream however it is cut   *)
(* into reads; and, with these two, the requests, the replies and the      *)
(* answers of a connection, with the inductive invariant IInv.             *)
(***************************************************************************)
EXTENDS Framing, SequenceTheorems, WellFoundedInduction, TLAPS

----------------------------------------
(* Induction *)

NatLess == {p \in Nat \X Nat : p[1] < p[2]}

LEMMA NatLessWellFounded == IsWellFoundedOn(NatLess, Nat)
BY NatLessThanWellFounded DEF OpToRel, NatLess

\* A set of naturals with 0 that has n + 1 with each of its elements n < m has all up to m.
LEMMA InductionUpTo ==
    ASSUME NEW m \in Nat, NEW S, 0 \in S, \A n \in 0 .. m - 1 : n \in S => n + 1 \in S
    PROVE  \A n \in 0 .. m : n \in S
<1> DEFINE T == {n \in 0 .. m : n \notin S}
<1>1. SUFFICES ASSUME T # {} PROVE FALSE
  OBVIOUS
<1>2. T \subseteq Nat
  OBVIOUS
<1>3. PICK x \in T : \A y \in T : <<y, x>> \notin NatLess
  BY <1>1, <1>2, NatLessWellFounded, WFMin
<1>4. x \in 0 .. m /\ x \notin S /\ x # 0
  BY <1>3
<1>5. x - 1 \in 0 .. m - 1 /\ x - 1 \in Nat /\ x \in Nat
  BY <1>4
<1>6. <<x - 1, x>> \in NatLess
  BY <1>5 DEF NatLess
<1>7. x - 1 \in S
  BY <1>3, <1>5, <1>6
<1> QED BY <1>4, <1>5, <1>7

----------------------------------------
(* Sequences *)

LEMMA Prefixed ==
    ASSUME NEW S, NEW s \in Seq(S), NEW t \in Seq(S)
    PROVE  /\ s \o t \in Seq(S) /\ Len(s \o t) = Len(s) + Len(t)
           /\ Len(s) \in Nat /\ Len(t) \in Nat
           /\ SubSeq(s \o t, 1, Len(s)) = s
           /\ SubSeq(s \o t, Len(s) + 1, Len(s \o t)) = t
OBVIOUS

LEMMA Cutting ==
    ASSUME NEW S, NEW s \in Seq(S), NEW n \in 0 .. Len(s)
    PROVE  /\ SubSeq(s, 1, n) \in Seq(S) /\ Len(SubSeq(s, 1, n)) = n
           /\ SubSeq(s, n + 1, Len(s)) \in Seq(S) /\ Len(SubSeq(s, n + 1, Len(s))) = Len(s) - n
           /\ SubSeq(s, 1, n) \o SubSeq(s, n + 1, Len(s)) = s
<1>1. SubSeq(s, 1, n) \in Seq(S) /\ Len(SubSeq(s, 1, n)) = n
  OBVIOUS
<1>2. SubSeq(s, n + 1, Len(s)) \in Seq(S) /\ Len(SubSeq(s, n + 1, Len(s))) = Len(s) - n
  OBVIOUS
<1>3. SubSeq(s, 1, n) \o SubSeq(s, n + 1, Len(s)) = SubSeq(s, 1, Len(s))
  <2>a. 1 \in 1 .. Len(s) + 1 /\ n \in 1 - 1 .. Len(s) /\ Len(s) \in n .. Len(s)
    BY LenProperties
  <2> QED BY <2>a, ConcatAdjacentSubSeq
<1> QED BY <1>1, <1>2, <1>3, SubSeqFull

\* Of s \o t, no more than s is cut off.
LEMMA CuttingConcat ==
    ASSUME NEW S, NEW s \in Seq(S), NEW t \in Seq(S), NEW n \in 0 .. Len(s)
    PROVE  /\ SubSeq(s \o t, 1, n) = SubSeq(s, 1, n)
           /\ SubSeq(s \o t, n + 1, Len(s \o t)) = SubSeq(s, n + 1, Len(s)) \o t
<1> DEFINE a == SubSeq(s, 1, n)
           b == SubSeq(s, n + 1, Len(s))
<1>1. a \in Seq(S) /\ b \in Seq(S) /\ Len(a) = n /\ s = a \o b
  BY Cutting
<1> HIDE DEF a, b
<1> DEFINE c == b \o t
<1>2. s \o t = a \o c /\ c \in Seq(S)
  <2>a. (a \o b) \o t = a \o (b \o t)
    BY <1>1, ConcatAssociative
  <2>b. c \in Seq(S)
    BY <1>1, ConcatProperties
  <2> QED BY <1>1, <2>a, <2>b
<1> HIDE DEF c
<1>3. SubSeq(a \o c, 1, n) = a /\ SubSeq(a \o c, n + 1, Len(a \o c)) = c
  BY <1>1, <1>2, Prefixed
<1> QED BY <1>2, <1>3 DEF a, b, c

LEMMA TextEmpty == <<>> \in Text /\ Len(<<>>) = 0 /\ \A s \in Text : Len(s) = 0 => s = <<>>
BY EmptySeq DEF Text

LEMMA TextConcat ==
    ASSUME NEW a \in Text, NEW b \in Text
    PROVE  /\ a \o b \in Text /\ Len(a \o b) = Len(a) + Len(b)
           /\ Len(a) \in Nat /\ Len(b) \in Nat
           /\ SubSeq(a \o b, 1, Len(a)) = a
           /\ SubSeq(a \o b, Len(a) + 1, Len(a \o b)) = b
BY Prefixed DEF Text

LEMMA TextAssoc ==
    ASSUME NEW a \in Text, NEW b \in Text, NEW c \in Text
    PROVE  (a \o b) \o c = a \o (b \o c)
BY ConcatAssociative DEF Text

----------------------------------------
(* Integers of the wire *)

LEMMA PowerDef == Power = [n \in 0 .. 8 |-> IF n = 0 THEN 1 ELSE Radix * Power[n - 1]]
<1> DEFINE P(g, m) == g = [n \in 0 .. m |-> IF n = 0 THEN 1 ELSE Radix * g[n - 1]]
           S == {m \in Nat : \E g : P(g, m)}
<1>1. 0 \in S
  <2>a. P([n \in 0 .. 0 |-> 1], 0)
    OBVIOUS
  <2> QED BY <2>a
<1>2. ASSUME NEW m \in 0 .. 7, m \in S PROVE m + 1 \in S
  <2>a. PICK g : P(g, m)
    BY <1>2
  <2> DEFINE h == [n \in 0 .. m + 1 |-> IF n = m + 1 THEN Radix * g[m] ELSE g[n]]
  <2>b. P(h, m + 1)
    BY <2>a
  <2>c. m + 1 \in Nat
    OBVIOUS
  <2> HIDE DEF P, h
  <2> QED BY <2>b, <2>c
<1>3. 8 \in S
  BY <1>1, <1>2, InductionUpTo, 8 \in Nat
<1> DEFINE Q(g) == P(g, 8)
<1>4. Power = CHOOSE g : Q(g)
  BY DEF Power
<1>5. \E g : Q(g)
  BY <1>3
<1> HIDE DEF Q
<1>6. Q(Power)
  BY <1>4, <1>5, Zenon
<1> QED BY <1>6 DEF Q

LEMMA RadixType == Radix \in Nat /\ Radix > 3
BY CodecAssumption

LEMMA Product == ASSUME NEW a \in Nat, NEW b \in Nat, a > 0, b > 0 PROVE a * b \in Nat /\ a * b > 0
OBVIOUS

LEMMA PowerType ==
    /\ Power[0] = 1
    /\ \A n \in 0 .. 7 : Power[n + 1] = Radix * Power[n]
    /\ \A n \in 0 .. 8 : Power[n] \in Nat /\ Power[n] > 0
<1> DEFINE S == {n \in 0 .. 8 : Power[n] \in Nat /\ Power[n] > 0}
<1>1. Power[0] = 1
  BY PowerDef
<1>2. ASSUME NEW n \in 0 .. 7 PROVE Power[n + 1] = Radix * Power[n]
  <2>a. n + 1 \in 0 .. 8 /\ n + 1 # 0 /\ n + 1 - 1 = n
    OBVIOUS
  <2> QED BY <2>a, PowerDef
<1>3. ASSUME NEW n \in 0 .. 8 - 1, n \in S PROVE n + 1 \in S
  <2>a. Power[n + 1] = Radix * Power[n] /\ n + 1 \in 0 .. 8
    BY <1>2
  <2> QED BY <2>a, <1>3, RadixType, Product
<1>4. 0 \in S
  BY <1>1
<1> HIDE DEF S
<1>5. \A n \in 0 .. 8 : n \in S
  BY <1>3, <1>4, InductionUpTo, 8 \in Nat
<1> QED BY <1>1, <1>2, <1>5 DEF S

LEMMA Division ==
    ASSUME NEW u \in Nat, NEW k \in Nat, k > 0
    PROVE  /\ u \div k \in Nat /\ k * (u \div k) <= u /\ u < k * (u \div k) + k
           /\ u % k \in 0 .. k - 1
BY Z3

LEMMA Remainder ==
    ASSUME NEW u \in Nat, NEW k \in Nat, k > 0
    PROVE  u % k = u - (u \div k) * k
BY Z3T(40)

LEMMA Quotient ==
    ASSUME NEW u \in Nat, NEW k \in Nat, k > 0, NEW b \in Nat, k * b <= u, u < k * b + k
    PROVE  u \div k = b
BY Division, Z3

\* Dividing twice.
LEMMA DivideTwice ==
    ASSUME NEW u \in Nat, NEW k \in Nat, NEW r \in Nat, k > 0, r > 0
    PROVE  u \div (r * k) = (u \div k) \div r
<1> DEFINE a == u \div k
           b == a \div r
<1>1. a \in Nat /\ k * a <= u /\ u < k * a + k
  BY Division
<1> HIDE DEF a
<1>2. b \in Nat /\ r * b <= a /\ a < r * b + r
  BY <1>1, Division
<1> HIDE DEF b
<1>3. k * (r * b) <= k * a /\ k * (a + 1) <= k * (r * b + r)
  BY <1>1, <1>2, Z3
<1>4. r * k \in Nat /\ r * k > 0
  BY Product
<1>5. (r * k) * b <= u /\ u < (r * k) * b + r * k
  BY <1>1, <1>2, <1>3, Z3
<1>6. u \div (r * k) = b
  BY <1>2, <1>4, <1>5, Quotient
<1> QED BY <1>6 DEF a, b

LEMMA ModuloType ==
    ASSUME NEW v \in Int, NEW w \in 1 .. 8
    PROVE  v % Power[w] \in Nat /\ v % Power[w] < Power[w]
<1>1. Power[w] \in Nat /\ Power[w] > 0
  BY PowerType
<1> QED BY <1>1, Z3

LEMMA AppendBigEndianType ==
    ASSUME NEW v \in Int, NEW w \in 1 .. 8
    PROVE  AppendBigEndian(v, w) \in Seq(Byte) /\ Len(AppendBigEndian(v, w)) = w
<1> DEFINE u == v % Power[w]
           e(i) == (u \div Power[w - i]) % Radix
<1>1. u \in Nat
  BY ModuloType
<1> HIDE DEF u
<1>2. ASSUME NEW i \in 1 .. w PROVE e(i) \in Byte
  <2>a. w - i \in 0 .. 8
    OBVIOUS
  <2>b. u \div Power[w - i] \in Nat
    BY <1>1, <2>a, PowerType, Division
  <2> QED BY <2>b, RadixType, Division DEF Byte
<1> HIDE DEF e
<1>3. AppendBigEndian(v, w) = [i \in 1 .. w |-> e(i)]
  BY DEF AppendBigEndian, e, u
<1> QED BY <1>2, <1>3

\* The recursion of ReadBigEndian has a solution.
LEMMA ReadBigEndianDef ==
    ASSUME NEW bytes \in Seq(Byte)
    PROVE  \E h : /\ h = [n \in 0 .. Len(bytes) |-> IF n = 0 THEN 0 ELSE h[n - 1] * Radix + bytes[n]]
                 /\ ReadBigEndian(bytes) = h[Len(bytes)]
<1> DEFINE P(g, m) == g = [n \in 0 .. m |-> IF n = 0 THEN 0 ELSE g[n - 1] * Radix + bytes[n]]
           S == {m \in Nat : \E g : P(g, m)}
           Q(g) == P(g, Len(bytes))
<1>1. 0 \in S
  <2>a. P([n \in 0 .. 0 |-> 0], 0)
    OBVIOUS
  <2> QED BY <2>a
<1>2. ASSUME NEW m \in 0 .. Len(bytes) - 1, m \in S PROVE m + 1 \in S
  <2>a. PICK g : P(g, m)
    BY <1>2
  <2> DEFINE h == [n \in 0 .. m + 1 |-> IF n = m + 1 THEN g[m] * Radix + bytes[m + 1] ELSE g[n]]
  <2>b. P(h, m + 1)
    BY <2>a
  <2>c. m + 1 \in Nat
    OBVIOUS
  <2> HIDE DEF P, h
  <2> QED BY <2>b, <2>c
<1>3. Len(bytes) \in S
  <2>a. Len(bytes) \in Nat /\ Len(bytes) \in 0 .. Len(bytes)
    BY LenProperties
  <2> HIDE DEF S
  <2> QED BY <1>1, <1>2, <2>a, InductionUpTo
<1>4. ReadBigEndian(bytes) = (CHOOSE g : Q(g))[Len(bytes)]
  BY DEF ReadBigEndian
<1>5. \E g : Q(g)
  BY <1>3
<1> HIDE DEF Q
<1>6. Q(CHOOSE g : Q(g))
  BY <1>5, Zenon
<1> QED BY <1>4, <1>6 DEF Q

\* What AppendBigEndian has written is read as the value modulo the width.
LEMMA ReadsWritten ==
    ASSUME NEW v \in Int, NEW w \in 1 .. 8
    PROVE  ReadBigEndian(AppendBigEndian(v, w)) = v % Power[w]
<1> DEFINE u == v % Power[w]
           bytes == AppendBigEndian(v, w)
<1>1. u \in Nat /\ u < Power[w]
  BY ModuloType
<1>2. \A i \in 1 .. w : bytes[i] = (u \div Power[w - i]) % Radix
  BY DEF AppendBigEndian
<1>3. bytes \in Seq(Byte) /\ Len(bytes) = w
  BY AppendBigEndianType
<1> HIDE DEF u, bytes
<1>4. PICK h : /\ h = [n \in 0 .. w |-> IF n = 0 THEN 0 ELSE h[n - 1] * Radix + bytes[n]]
               /\ ReadBigEndian(bytes) = h[w]
  BY <1>3, ReadBigEndianDef
<1> DEFINE S == {n \in 0 .. w : h[n] = u \div Power[w - n]}
<1>5. 0 \in S
  <2>a. Power[w] \in Nat /\ Power[w] > 0
    BY PowerType
  <2>b. Power[w] * 0 <= u /\ u < Power[w] * 0 + Power[w]
    BY <1>1, <2>a
  <2>c. u \div Power[w] = 0
    BY <1>1, <2>a, <2>b, Quotient
  <2> QED BY <1>4, <2>c
<1>6. ASSUME NEW n \in 0 .. w - 1, n \in S PROVE n + 1 \in S
  <2> DEFINE k == Power[w - (n + 1)]
             a == u \div k
  <2>a. w - (n + 1) \in 0 .. 7 /\ w - n = w - (n + 1) + 1 /\ n + 1 \in 1 .. w
    OBVIOUS
  <2>b. k \in Nat /\ k > 0 /\ Power[w - n] = Radix * k
    BY <2>a, PowerType
  <2>c. h[n + 1] = h[n] * Radix + bytes[n + 1]
    BY <1>4, <2>a
  <2>d. h[n] = u \div (Radix * k)
    BY <1>6, <2>b
  <2>e. bytes[n + 1] = a % Radix
    BY <1>2, <2>a
  <2> HIDE DEF k
  <2>f. h[n] = a \div Radix /\ a \in Nat
    BY <1>1, <2>b, <2>d, RadixType, DivideTwice, Division
  <2> HIDE DEF a
  <2>g. a % Radix = a - (a \div Radix) * Radix /\ a \div Radix \in Nat
    BY <2>f, RadixType, Remainder, Division
  <2>h. (a \div Radix) * Radix \in Nat
    BY <2>g, RadixType
  <2>i. h[n + 1] = a
    BY <2>c, <2>e, <2>f, <2>g, <2>h
  <2> QED BY <2>a, <2>i DEF a, k
<1>7. w \in S
  <2>a. w \in Nat /\ w \in 0 .. w
    OBVIOUS
  <2> HIDE DEF S
  <2> QED BY <1>5, <1>6, <2>a, InductionUpTo
<1>8. Power[w - w] = 1
  BY PowerType
<1>9. u \div 1 = u
  BY <1>1
<1> QED BY <1>4, <1>7, <1>8, <1>9 DEF u, bytes

LEMMA PowerEven ==
    ASSUME NEW w \in 1 .. 8
    PROVE  /\ MaxSigned(w) \in Nat /\ Power[w] = 2 * MaxSigned(w) + 2 /\ Power[w] \in Nat
<1>1. PICK n \in 0 .. 7 : w = n + 1
  <2>a. w - 1 \in 0 .. 7 /\ w = (w - 1) + 1
    OBVIOUS
  <2> QED BY <2>a
<1>2. Power[w] = Radix * Power[n] /\ Power[n] \in Nat /\ Power[n] > 0
  <2>a. n \in 0 .. 8
    OBVIOUS
  <2> QED BY <1>1, <2>a, PowerType
<1> DEFINE k == Radix \div 2
<1>3. Radix = 2 * k /\ k \in Nat /\ k > 0
  BY CodecAssumption
<1> DEFINE m == k * Power[n]
<1>4. m \in Nat /\ m > 0
  BY <1>2, <1>3, Product
<1>5. (2 * k) * Power[n] = 2 * m
  BY <1>2, <1>3, Z3
<1>6. Power[w] = 2 * m
  BY <1>2, <1>3, <1>5
<1> HIDE DEF m, k
<1>7. (2 * m) \div 2 = m
  BY <1>4
<1> QED BY <1>4, <1>6, <1>7 DEF MaxSigned

\* Two's complement there and back.
LEMMA TwosComplement ==
    ASSUME NEW w \in 1 .. 8, NEW v \in Signed(w)
    PROVE  /\ v \in Int
           /\ v >= 0 => v % Power[w] = v /\ v <= MaxSigned(w)
           /\ v < 0 => v % Power[w] = v + Power[w] /\ v + Power[w] > MaxSigned(w)
<1>1. MaxSigned(w) \in Nat /\ Power[w] = 2 * MaxSigned(w) + 2 /\ Power[w] \in Nat /\ Power[w] > 0
  BY PowerEven
<1>2. v \in Int /\ v <= MaxSigned(w) /\ v >= -MaxSigned(w) - 1
  BY <1>1 DEF Signed
<1>3. ASSUME v >= 0 PROVE v % Power[w] = v
  BY <1>1, <1>2, <1>3, Z3
<1>4. ASSUME v < 0 PROVE v % Power[w] = v + Power[w]
  BY <1>1, <1>2, <1>4, Z3
<1> QED BY <1>1, <1>2, <1>3, <1>4

LEMMA UnsignedValue ==
    ASSUME NEW w \in 1 .. 8, NEW v \in Unsigned(w)
    PROVE  v \in Int /\ v \in Nat /\ v % Power[w] = v
<1>1. Power[w] \in Nat /\ Power[w] > 0
  BY PowerType
<1> QED BY <1>1, Z3 DEF Unsigned

----------------------------------------
(* Fields *)

LEMMA Advanced ==
    ASSUME NEW a \in Text, NEW tail \in Text, NEW val, NEW name, NEW v
    PROVE  Advance(Reader(a \o tail, val), Len(a), name, v) = Reader(tail, Put(val, name, v))
<1> DEFINE c == a \o tail
           p == Put(val, name, v)
<1>1. SubSeq(c, Len(a) + 1, Len(c)) = tail
  BY TextConcat
<1>2. Reader(c, val).rest = c /\ Reader(c, val).val = val
  BY DEF Reader
<1> HIDE DEF c
<1>3. Advance(Reader(c, val), Len(a), name, v) = Reader(SubSeq(c, Len(a) + 1, Len(c)), p)
  BY <1>2 DEF Advance
<1> QED BY <1>1, <1>3 DEF c

\* An integer of the field's width is read and handed on to be converted.
LEMMA ReadsInteger ==
    ASSUME NEW w \in 1 .. 8, NEW v \in Int, NEW tail \in Text, NEW val, NEW f, Width[f.kind] = w
    PROVE  LET r == Reader(AppendBigEndian(v, w) \o tail, val)
           IN  r ** f = Converted(r, f, w, v % Power[w])
<1> DEFINE a == AppendBigEndian(v, w)
           r == Reader(a \o tail, val)
<1>1. a \in Text /\ Len(a) = w /\ ReadBigEndian(a) = v % Power[w]
  BY AppendBigEndianType, ReadsWritten DEF Text
<1> HIDE DEF a
<1>2. Len(a \o tail) >= w /\ SubSeq(a \o tail, 1, w) = a /\ Len(a \o tail) \in Nat
  BY <1>1, Prefixed DEF Text
<1>3. r.ok /\ r.rest = a \o tail
  BY DEF Reader
<1> HIDE DEF r
<1>4. ReadField(r, f) = Converted(r, f, w, ReadBigEndian(SubSeq(r.rest, 1, w)))
  BY <1>2, <1>3 DEF ReadField
<1> QED BY <1>1, <1>2, <1>3, <1>4 DEF **, r, a

\* AdvanceBy: the same with the width known.
LEMMA AdvancedInteger ==
    ASSUME NEW w \in 1 .. 8, NEW u \in Int, NEW tail \in Text, NEW val, NEW name, NEW v
    PROVE  Advance(Reader(AppendBigEndian(u, w) \o tail, val), w, name, v)
              = Reader(tail, Put(val, name, v))
<1>1. AppendBigEndian(u, w) \in Text /\ Len(AppendBigEndian(u, w)) = w
  BY AppendBigEndianType DEF Text
<1> QED BY <1>1, Advanced

LEMMA ReadsUnsigned ==
    ASSUME NEW w \in 1 .. 8, NEW kind \in {"u8", "u16", "u32", "u64"}, Width[kind] = w,
           NEW v \in Unsigned(w), NEW tail \in Text, NEW val, NEW name
    PROVE  Reader(AppendBigEndian(v, w) \o tail, val) ** Field(name, kind)
              = Reader(tail, Put(val, name, v))
<1> DEFINE f == Field(name, kind)
           r == Reader(AppendBigEndian(v, w) \o tail, val)
<1>1. v \in Int /\ v % Power[w] = v
  BY UnsignedValue
<1>2. f.kind = kind /\ f.name = name
  BY DEF Field
<1> HIDE DEF f
<1>3. r ** f = Converted(r, f, w, v)
  BY <1>1, <1>2, ReadsInteger
<1>4. Converted(r, f, w, v) = Advance(r, w, name, v)
  BY <1>2 DEF Converted
<1> QED BY <1>1, <1>3, <1>4, AdvancedInteger DEF f

LEMMA ReadsPartition ==
    ASSUME NEW v \in Signed(4), NEW tail \in Text, NEW val, NEW name
    PROVE  Reader(AppendPartitionId(v) \o tail, val) ** Field(name, "partition")
              = Reader(tail, Put(val, name, v))
<1> DEFINE f == Field(name, "partition")
           r == Reader(AppendBigEndian(v, 4) \o tail, val)
<1>1. v \in Int /\ DecodePartitionId(v % Power[4]) = v /\ v % Power[4] \in Int
  <2>a. Power[4] \in Nat /\ MaxSigned(4) \in Nat
    BY PowerEven
  <2> QED BY <2>a, TwosComplement DEF DecodePartitionId
<1>2. f.kind = "partition" /\ f.name = name /\ Width[f.kind] = 4
  BY DEF Field, Width
<1> HIDE DEF f
<1>3. r ** f = Converted(r, f, 4, v % Power[4])
  BY <1>1, <1>2, ReadsInteger
<1>4. Converted(r, f, 4, v % Power[4]) = Advance(r, 4, name, v)
  BY <1>1, <1>2 DEF Converted
<1> QED BY <1>1, <1>3, <1>4, AdvancedInteger DEF f, AppendPartitionId, U32

LEMMA ReadsOffset ==
    ASSUME NEW v \in Signed(8), NEW tail \in Text, NEW val, NEW name
    PROVE  Reader(U64(v) \o tail, val) ** OffsetField(name) = Reader(tail, Put(val, name, v))
<1> DEFINE f == OffsetField(name)
           r == Reader(AppendBigEndian(v, 8) \o tail, val)
<1>1. v \in Int /\ DecodeOffset(v % Power[8]) = v /\ v % Power[8] \in Int
  <2>a. Power[8] \in Nat /\ MaxSigned(8) \in Nat
    BY PowerEven
  <2> QED BY <2>a, TwosComplement DEF DecodeOffset
<1>2. f.kind = "offset" /\ f.name = name /\ Width[f.kind] = 8
  BY DEF OffsetField, Field, Width
<1> HIDE DEF f
<1>3. r ** f = Converted(r, f, 8, v % Power[8])
  BY <1>1, <1>2, ReadsInteger
<1>4. Converted(r, f, 8, v % Power[8]) = Advance(r, 8, name, v)
  BY <1>1, <1>2 DEF Converted
<1> QED BY <1>1, <1>3, <1>4, AdvancedInteger DEF f, U64

LEMMA ReadsGeneration ==
    ASSUME NEW v \in Signed(4), v >= 0, NEW tail \in Text, NEW val
    PROVE  Reader(U32(v) \o tail, val) ** Generation = Reader(tail, Put(val, "generation_id", v))
<1> DEFINE r == Reader(AppendBigEndian(v, 4) \o tail, val)
<1>1. v \in Int /\ v % Power[4] = v /\ v <= MaxSigned(4) /\ MaxSigned(4) \in Nat
  BY TwosComplement, PowerEven
<1>2. Generation.kind = "generation" /\ Generation.name = "generation_id" /\ Width[Generation.kind] = 4
  BY DEF Generation, Field, Width
<1>3. r ** Generation = Converted(r, Generation, 4, v)
  BY <1>1, <1>2, ReadsInteger
<1>4. Converted(r, Generation, 4, v) = Advance(r, 4, "generation_id", v)
  BY <1>1, <1>2 DEF Converted
<1> QED BY <1>1, <1>3, <1>4, AdvancedInteger DEF U32

LEMMA ReadsFlag ==
    ASSUME NEW b \in BOOLEAN, NEW w \in 1 .. 8, NEW kind \in {"bool8", "bool32"}, Width[kind] = w,
           NEW tail \in Text, NEW val, NEW name
    PROVE  Reader(AppendBigEndian(IF b THEN 1 ELSE 0, w) \o tail, val) ** Field(name, kind)
              = Reader(tail, Put(val, name, b))
<1> DEFINE f == Field(name, kind)
           v == IF b THEN 1 ELSE 0
           r == Reader(AppendBigEndian(v, w) \o tail, val)
<1>1. v \in Unsigned(w) /\ v \in 0 .. 1 /\ (v = 1) = b
  <2>a. MaxSigned(w) \in Nat /\ Power[w] = 2 * MaxSigned(w) + 2
    BY PowerEven
  <2> QED BY <2>a DEF Unsigned
<1>2. f.kind = kind /\ f.name = name
  BY DEF Field
<1> HIDE DEF f, v
<1>3. v % Power[w] = v /\ v \in Int
  BY <1>1, UnsignedValue
<1>4. r ** f = Converted(r, f, w, v)
  BY <1>2, <1>3, ReadsInteger
<1>5. Converted(r, f, w, v) = Advance(r, w, name, b)
  BY <1>1, <1>2 DEF Converted
<1> QED BY <1>3, <1>4, <1>5, AdvancedInteger DEF f, v

LEMMA ReadsText ==
    ASSUME NEW s \in Text, Len(s) < Power[4], NEW tail \in Text, NEW val, NEW name
    PROVE  Reader(AppendString(s) \o tail, val) ** Str(name) = Reader(tail, Put(val, name, s))
<1> DEFINE f == Str(name)
           a == AppendBigEndian(Len(s), 4)
           r == Reader(a \o (s \o tail), val)
<1>1. a \in Text /\ Len(a) = 4 /\ Len(s) \in Nat /\ Len(s) \in Unsigned(4)
  <2>a. Len(s) \in Nat /\ Len(s) \in Int /\ Power[4] \in Nat
    BY LenProperties, PowerType DEF Text
  <2>b. AppendBigEndian(Len(s), 4) \in Text /\ Len(AppendBigEndian(Len(s), 4)) = 4
    BY <2>a, AppendBigEndianType DEF Text
  <2> QED BY <2>a, <2>b DEF Unsigned
<1>2. f.kind = "string" /\ f.name = name /\ Width[f.kind] = 4
  BY DEF Str, Field, Width
<1>3. AppendString(s) \o tail = a \o (s \o tail) /\ s \o tail \in Text /\ a \o s \in Text
      /\ a \o (s \o tail) = (a \o s) \o tail /\ Len(a \o s) = 4 + Len(s)
  <2> HIDE DEF a
  <2>a. (a \o s) \o tail = a \o (s \o tail)
    BY <1>1, TextAssoc
  <2>b. a \o s \in Text /\ Len(a \o s) = Len(a) + Len(s) /\ s \o tail \in Text
    BY <1>1, TextConcat
  <2>c. AppendString(s) = a \o s
    BY DEF AppendString, U32, a
  <2> QED BY <1>1, <2>a, <2>b, <2>c
<1>4. Len(s) % Power[4] = Len(s)
  BY <1>1, UnsignedValue
<1> HIDE DEF f
<1>5. r ** f = Converted(r, f, 4, Len(s))
  BY <1>1, <1>2, <1>3, <1>4, ReadsInteger
<1> HIDE DEF a
<1>6. Len(a \o (s \o tail)) = 4 + (Len(s) + Len(tail)) /\ Len(tail) \in Nat
  BY <1>1, <1>3, ConcatProperties DEF Text
<1>7. SubSeq(a \o (s \o tail), 4 + 1, 4 + Len(s)) = s
  <2>a. SubSeq(s \o tail, 1, Len(s)) = s /\ Len(s \o tail) = Len(s) + Len(tail)
    BY Prefixed DEF Text
  <2>b. CASE Len(s) = 0
    <3>1. SubSeq(a \o (s \o tail), 4 + 1, 4 + Len(s)) = <<>>
      BY <2>b, SubSeqEmpty
    <3>2. s = <<>>
      BY <2>b, EmptySeq DEF Text
    <3> QED BY <3>1, <3>2
  <2>c. CASE Len(s) > 0
    <3> DEFINE t == s \o tail
    <3> HIDE DEF t
    <3>1. t \in Seq(Byte) /\ a \in Seq(Byte) /\ Len(t) = Len(s) + Len(tail)
      BY <1>1, <1>3, <2>a DEF Text, t
    <3>2. 4 + 1 \in Len(a) + 1 .. Len(a) + Len(t) /\ 4 + Len(s) \in Len(a) + 1 .. Len(a) + Len(t)
      BY <1>1, <1>6, <2>c, <3>1
    <3>3. SubSeq(a \o t, 4 + 1, 4 + Len(s)) = SubSeq(t, 4 + 1 - Len(a), 4 + Len(s) - Len(a))
      BY <3>1, <3>2, SubSeqOfConcat2
    <3>4. 4 + 1 - Len(a) = 1 /\ 4 + Len(s) - Len(a) = Len(s)
      BY <1>1
    <3> QED BY <2>a, <3>3, <3>4 DEF t
  <2>d. Len(s) = 0 \/ Len(s) > 0
    BY <1>1
  <2> QED BY <2>b, <2>c, <2>d
<1>8. Converted(r, f, 4, Len(s)) = Advance(r, 4 + Len(s), name, s)
  <2>a. r.rest = a \o (s \o tail)
    BY DEF Reader
  <2> HIDE DEF r
  <2>b. ~(Len(s) > Len(r.rest) - 4)
    BY <1>1, <1>6, <2>a
  <2> QED BY <1>2, <1>7, <2>a, <2>b DEF Converted
<1>9. Advance(r, 4 + Len(s), name, s) = Reader(tail, Put(val, name, s))
  <2> DEFINE c == a \o s
  <2>a. c \in Text /\ Len(c) = 4 + Len(s) /\ r = Reader(c \o tail, val)
    BY <1>3
  <2> HIDE DEF c, r
  <2> QED BY <2>a, Advanced
<1> QED BY <1>3, <1>5, <1>8, <1>9 DEF f

\* A frame that says how long it is.
WellDelimited(f) ==
    f \in Text /\ Len(f) \in kFrameHeaderBytes .. kMaxFrameBytes /\ PeekFrameLength(f) = Len(f)

----------------------------------------
(* Streams of frames *)

\* s is the frames f[m + 1] to f[n], one after the other, and then `rest`: tail[k] is
\* what is left after frame k.
Cut(s, f, m, n, rest) ==
    \E tail \in [m .. n -> Text] :
       /\ tail[m] = s /\ tail[n] = rest
       /\ \A k \in m + 1 .. n : tail[k - 1] = f[k] \o tail[k]

LEMMA CutNone ==
    ASSUME NEW s \in Text, NEW f, NEW m \in Nat
    PROVE  Cut(s, f, m, m, s)
<1> DEFINE u == [k \in m .. m |-> s]
<1>1. u \in [m .. m -> Text] /\ u[m] = s
  OBVIOUS
<1>2. \A k \in m + 1 .. m : FALSE
  OBVIOUS
<1> HIDE DEF u
<1> QED BY <1>1, <1>2 DEF Cut

LEMMA CutEmpty ==
    ASSUME NEW s, NEW f, NEW m \in Nat, NEW rest, Cut(s, f, m, m, rest)
    PROVE  s = rest
BY DEF Cut

LEMMA CutType ==
    ASSUME NEW s, NEW f, NEW m \in Nat, NEW n \in Nat, m <= n, NEW rest, Cut(s, f, m, n, rest)
    PROVE  s \in Text /\ rest \in Text
BY DEF Cut

LEMMA CutSame ==
    ASSUME NEW s, NEW f, NEW g, NEW m \in Nat, NEW n \in Nat, NEW rest, Cut(s, f, m, n, rest),
           \A k \in m + 1 .. n : g[k] = f[k]
    PROVE  Cut(s, g, m, n, rest)
BY DEF Cut

\* The first frame is taken off.
LEMMA CutFirst ==
    ASSUME NEW s, NEW f, NEW m \in Nat, NEW n \in Nat, m < n, NEW rest, Cut(s, f, m, n, rest)
    PROVE  \E t \in Text : s = f[m + 1] \o t /\ Cut(t, f, m + 1, n, rest)
<1>1. PICK tail \in [m .. n -> Text] :
         /\ tail[m] = s /\ tail[n] = rest
         /\ \A k \in m + 1 .. n : tail[k - 1] = f[k] \o tail[k]
  BY DEF Cut
<1> DEFINE u == [k \in m + 1 .. n |-> tail[k]]
<1>2. u \in [m + 1 .. n -> Text] /\ u[m + 1] = tail[m + 1] /\ u[n] = rest
  BY <1>1
<1>3. ASSUME NEW k \in (m + 1) + 1 .. n PROVE u[k - 1] = f[k] \o u[k]
  <2>a. k \in m + 1 .. n /\ k - 1 \in m + 1 .. n
    OBVIOUS
  <2>b. u[k - 1] = tail[k - 1] /\ u[k] = tail[k]
    BY <2>a
  <2> HIDE DEF u
  <2> QED BY <1>1, <2>a, <2>b
<1> HIDE DEF u
<1>4. Cut(tail[m + 1], f, m + 1, n, rest)
  BY <1>2, <1>3 DEF Cut
<1>5. m + 1 \in m + 1 .. n /\ m + 1 \in m .. n /\ (m + 1) - 1 = m
  OBVIOUS
<1>6. s = f[m + 1] \o tail[m + 1] /\ tail[m + 1] \in Text
  BY <1>1, <1>5
<1> QED BY <1>4, <1>6

\* Bytes are added at the end.
LEMMA CutMore ==
    ASSUME NEW s, NEW f, NEW m \in Nat, NEW n \in Nat, m <= n, NEW rest, Cut(s, f, m, n, rest),
           NEW x \in Text, \A k \in m + 1 .. n : f[k] \in Text
    PROVE  Cut(s \o x, f, m, n, rest \o x)
<1>1. PICK tail \in [m .. n -> Text] :
         /\ tail[m] = s /\ tail[n] = rest
         /\ \A k \in m + 1 .. n : tail[k - 1] = f[k] \o tail[k]
  BY DEF Cut
<1> DEFINE u == [k \in m .. n |-> tail[k] \o x]
<1>2. u \in [m .. n -> Text]
  BY <1>1, TextConcat
<1>3. u[m] = s \o x /\ u[n] = rest \o x
  BY <1>1
<1>4. ASSUME NEW k \in m + 1 .. n PROVE u[k - 1] = f[k] \o u[k]
  <2>a. k \in m .. n /\ k - 1 \in m .. n
    OBVIOUS
  <2>b. u[k - 1] = (f[k] \o tail[k]) \o x /\ u[k] = tail[k] \o x
    BY <1>1, <2>a
  <2>c. f[k] \in Text /\ tail[k] \in Text
    BY <1>1, <2>a
  <2>d. (f[k] \o tail[k]) \o x = f[k] \o (tail[k] \o x)
    BY <2>c, TextAssoc
  <2> QED BY <2>b, <2>d
<1> HIDE DEF u
<1> QED BY <1>2, <1>3, <1>4 DEF Cut

\* What follows begins with the next frame.
LEMMA CutNext ==
    ASSUME NEW s, NEW f, NEW m \in Nat, NEW n \in Nat, m <= n, NEW t, Cut(s, f, m, n, t),
           NEW rest \in Text, t = f[n + 1] \o rest
    PROVE  Cut(s, f, m, n + 1, rest)
<1>1. PICK tail \in [m .. n -> Text] :
         /\ tail[m] = s /\ tail[n] = f[n + 1] \o rest
         /\ \A k \in m + 1 .. n : tail[k - 1] = f[k] \o tail[k]
  BY DEF Cut
<1> DEFINE u == [k \in m .. n + 1 |-> IF k = n + 1 THEN rest ELSE tail[k]]
<1>2. u \in [m .. n + 1 -> Text]
  BY <1>1
<1>3. u[m] = s /\ u[n + 1] = rest
  BY <1>1
<1>4. ASSUME NEW k \in m + 1 .. n + 1 PROVE u[k - 1] = f[k] \o u[k]
  <2>a. CASE k = n + 1
    <3>1. k - 1 = n /\ n # n + 1 /\ n \in m .. n + 1 /\ n + 1 \in m .. n + 1
      BY <2>a
    <3>2. u[n] = tail[n] /\ u[n + 1] = rest
      BY <3>1
    <3> HIDE DEF u
    <3> QED BY <1>1, <2>a, <3>1, <3>2
  <2>b. CASE k # n + 1
    <3>1. k \in m + 1 .. n /\ k - 1 \in m .. n /\ k \in m .. n /\ k - 1 # n + 1
      BY <2>b
    <3>2. u[k] = tail[k] /\ u[k - 1] = tail[k - 1]
      BY <2>b, <3>1
    <3> HIDE DEF u
    <3> QED BY <1>1, <3>1, <3>2
  <2> QED BY <2>a, <2>b
<1> HIDE DEF u
<1> QED BY <1>2, <1>3, <1>4 DEF Cut

\* A whole frame more, at the end of a stream of whole frames.
LEMMA CutAppend ==
    ASSUME NEW s, NEW f, NEW g, NEW m \in Nat, NEW n \in Nat, m <= n, Cut(s, f, m, n, <<>>),
           \A k \in m + 1 .. n : f[k] \in Text /\ g[k] = f[k], g[n + 1] \in Text
    PROVE  Cut(s \o g[n + 1], g, m, n + 1, <<>>)
<1>1. Cut(s \o g[n + 1], f, m, n, <<>> \o g[n + 1])
  BY CutMore
<1>2. <<>> \o g[n + 1] = g[n + 1] \o <<>> /\ <<>> \in Text
  BY TextEmpty, ConcatEmptySeq DEF Text
<1>3. Cut(s \o g[n + 1], g, m, n, g[n + 1] \o <<>>)
  BY <1>1, <1>2, CutSame
<1> QED BY <1>2, <1>3, CutNext

----------------------------------------
(* A frame at the head of what has been read of a stream *)

Split(s, a, b) == a \in Text /\ b \in Text /\ s = a \o b

\* a has been read of a stream that begins with f.
LEMMA SamePrefix ==
    ASSUME NEW s, NEW a, NEW b, NEW f, NEW d, Split(s, a, b), Split(s, f, d),
           NEW n \in 0 .. Len(a), n <= Len(f)
    PROVE  SubSeq(a, 1, n) = SubSeq(f, 1, n)
<1> USE DEF Split
<1>1. n \in 0 .. Len(f)
  BY LenProperties DEF Text
<1>2. SubSeq(a \o b, 1, n) = SubSeq(a, 1, n)
  BY CuttingConcat DEF Text
<1>3. SubSeq(f \o d, 1, n) = SubSeq(f, 1, n)
  BY <1>1, CuttingConcat DEF Text
<1> QED BY <1>2, <1>3

LEMMA PeekPrefix ==
    ASSUME NEW s, NEW a, NEW b, NEW f, NEW d, Split(s, a, b), Split(s, f, d),
           Len(a) >= 4, Len(f) >= 4
    PROVE  PeekFrameLength(a) = PeekFrameLength(f)
<1>1. 4 \in 0 .. Len(a)
  BY LenProperties DEF Text, Split
<1>2. SubSeq(a, 1, 4) = SubSeq(f, 1, 4)
  BY <1>1, SamePrefix
<1> QED BY <1>2 DEF PeekFrameLength

LEMMA TakeFrame ==
    ASSUME NEW s, NEW a, NEW b, NEW f, NEW d, Split(s, a, b), Split(s, f, d),
           Len(a) >= Len(f)
    PROVE  /\ SubSeq(a, 1, Len(f)) = f
           /\ SubSeq(a, Len(f) + 1, Len(a)) \o b = d
           /\ SubSeq(a, Len(f) + 1, Len(a)) \in Text
           /\ Len(SubSeq(a, Len(f) + 1, Len(a))) = Len(a) - Len(f)
<1>0. a \in Text /\ b \in Text /\ f \in Text /\ d \in Text /\ a \o b = f \o d
  BY DEF Split
<1>1. Len(f) \in 0 .. Len(a) /\ Len(f) \in 0 .. Len(f) /\ Len(a) \in Nat /\ Len(f) \in Nat
  BY <1>0, LenProperties DEF Text
<1>2. SubSeq(f, 1, Len(f)) = f
  BY <1>0, SubSeqFull DEF Text
<1>3. SubSeq(a \o b, Len(f) + 1, Len(a \o b)) = SubSeq(a, Len(f) + 1, Len(a)) \o b
  BY <1>0, <1>1, CuttingConcat DEF Text
<1>4. SubSeq(f \o d, Len(f) + 1, Len(f \o d)) = d
  BY <1>0, Prefixed DEF Text
<1>5. SubSeq(a, 1, Len(f)) = f
  BY <1>1, <1>2, SamePrefix
<1>6. SubSeq(a, Len(f) + 1, Len(a)) \in Seq(Byte)
      /\ Len(SubSeq(a, Len(f) + 1, Len(a))) = Len(a) - Len(f)
  BY <1>0, <1>1, Cutting DEF Text
<1> QED BY <1>0, <1>3, <1>4, <1>5, <1>6 DEF Text

----------------------------------------
(* FrameDecoder *)

Turns(buf) == Len(buf) \div kFrameHeaderBytes + 1

\* h[i] is the state of the loop after i turns.
PushLoops(buf, max) ==
    \E h :
       /\ h[0] = [ok |-> TRUE, buffer |-> buf, requests |-> <<>>]
       /\ \A i \in 1 .. Turns(buf) :
             h[i] = PushTurn(h[i - 1], PeekFrameLength(h[i - 1].buffer), max)
       /\ Push(buf, max) = h[Turns(buf)]

\* The recursion of Push has a solution.
LEMMA PushDef ==
    ASSUME NEW buf \in Text, NEW max
    PROVE  PushLoops(buf, max)
<1> DEFINE turns == Turns(buf)
           first == [ok |-> TRUE, buffer |-> buf, requests |-> <<>>]
           turn(d) == PushTurn(d, PeekFrameLength(d.buffer), max)
           P(g, m) == g = [i \in 0 .. m |-> IF i = 0 THEN first ELSE turn(g[i - 1])]
           S == {m \in Nat : \E g : P(g, m)}
           Q(g) == P(g, turns)
<1>0. turns \in Nat
  <2>a. Len(buf) \in Nat
    BY LenProperties DEF Text
  <2> QED BY <2>a DEF kFrameHeaderBytes, Turns
<1>4. Push(buf, max) = (CHOOSE g : Q(g))[turns]
  BY DEF Push, Turns
<1> HIDE DEF turn, first, turns
<1>1. 0 \in S
  <2>a. P([i \in 0 .. 0 |-> first], 0)
    OBVIOUS
  <2> QED BY <2>a
<1>2. ASSUME NEW m \in 0 .. turns - 1, m \in S PROVE m + 1 \in S
  <2>a. PICK g : P(g, m)
    BY <1>2
  <2> DEFINE h == [i \in 0 .. m + 1 |-> IF i = m + 1 THEN turn(g[m]) ELSE g[i]]
  <2>b. P(h, m + 1)
    BY <2>a, <1>0
  <2>c. m + 1 \in Nat
    BY <1>0
  <2> HIDE DEF P, h
  <2> QED BY <2>b, <2>c
<1>3. turns \in S
  <2>a. turns \in 0 .. turns
    BY <1>0
  <2> HIDE DEF S
  <2> QED BY <1>0, <1>1, <1>2, <2>a, InductionUpTo
<1>5. \E g : Q(g)
  BY <1>3
<1> HIDE DEF Q
<1>6. PICK g : Q(g) /\ Push(buf, max) = g[turns]
  BY <1>4, <1>5, Zenon
<1>7. g[0] = first /\ \A i \in 1 .. turns : g[i] = turn(g[i - 1])
  BY <1>0, <1>6 DEF Q
<1> QED BY <1>6, <1>7 DEF turn, first, turns, PushLoops

\* No whole frame is in b.
Incomplete(b) == Len(b) < 4 \/ Len(b) < PeekFrameLength(b)

\* One turn on a stream of frames: nothing is taken, or the first frame.
LEMMA PushTakes ==
    ASSUME NEW buf \in Text, NEW rest \in Text, NEW reqs, NEW f, NEW m \in Nat, NEW n \in Nat,
           m <= n, Cut(buf \o rest, f, m, n, <<>>),
           \A k \in m + 1 .. n : WellDelimited(f[k])
    PROVE  LET d == [ok |-> TRUE, buffer |-> buf, requests |-> reqs]
               next == PushTurn(d, PeekFrameLength(buf), kMaxFrameBytes)
           IN  \/ Incomplete(buf) /\ next = d
               \/ /\ m < n /\ ~DecodeRequest(f[m + 1]).ok /\ ~next.ok
               \/ /\ m < n /\ DecodeRequest(f[m + 1]).ok
                  /\ \E b \in Text :
                        /\ next = [ok |-> TRUE, buffer |-> b,
                                   requests |-> Append(reqs, DecodeRequest(f[m + 1]).value)]
                        /\ Cut(b \o rest, f, m + 1, n, <<>>)
                        /\ Len(b) <= Len(buf) - kFrameHeaderBytes
<1> DEFINE d == [ok |-> TRUE, buffer |-> buf, requests |-> reqs]
           len == PeekFrameLength(buf)
           next == PushTurn(d, len, kMaxFrameBytes)
<1>1. CASE Len(buf) < 4
  BY <1>1 DEF PushTurn, Incomplete
<1>2. CASE ~(Len(buf) < 4)
  <2>a. Len(buf) \in Nat /\ Len(buf) >= 4
    BY <1>2, LenProperties DEF Text
  <2>b. m < n
    <3>1. SUFFICES ASSUME m = n PROVE FALSE
      OBVIOUS
    <3>2. buf \o rest = <<>>
      BY <3>1, CutEmpty
    <3>3. Len(buf \o rest) = Len(buf) + Len(rest) /\ Len(rest) \in Nat
      BY TextConcat
    <3> QED BY <2>a, <3>2, <3>3, TextEmpty
  <2> DEFINE g == f[m + 1]
  <2>c. PICK t \in Text : buf \o rest = g \o t /\ Cut(t, f, m + 1, n, <<>>)
    BY <2>b, CutFirst
  <2>d. WellDelimited(g)
    BY <2>b
  <2> HIDE DEF g
  <2>s. Split(buf \o rest, buf, rest) /\ Split(buf \o rest, g, t)
    BY <2>c, <2>d DEF Split, WellDelimited
  <2>e. g \in Text /\ Len(g) \in 16 .. kMaxFrameBytes /\ len = Len(g) /\ len \in Nat
    <3>1. g \in Text /\ Len(g) \in 16 .. kMaxFrameBytes /\ PeekFrameLength(g) = Len(g) /\ Len(g) \in Nat
      BY <2>d, LenProperties DEF WellDelimited, kFrameHeaderBytes, Text
    <3>2. Len(g) >= 4
      BY <3>1
    <3>3. PeekFrameLength(buf) = PeekFrameLength(g)
      BY <2>a, <2>s, <3>2, PeekPrefix
    <3> QED BY <3>1, <3>3
  <2>f. kMaxFrameBytes \in Int
    BY CodecAssumption, PowerType
  <2>g. ~(len < kFrameHeaderBytes \/ len > kMaxFrameBytes)
    BY <2>e, <2>f DEF kFrameHeaderBytes
  <2>h. CASE Len(buf) < len
    BY <1>2, <2>g, <2>h DEF PushTurn, Incomplete
  <2>i. CASE ~(Len(buf) < len)
    <3> DEFINE b == SubSeq(buf, len + 1, Len(buf))
    <3>1. SubSeq(buf, 1, len) = g /\ b \o rest = t /\ b \in Text /\ Len(b) = Len(buf) - len
      <4>1. Len(buf) >= Len(g)
        BY <2>a, <2>e, <2>i
      <4>2. /\ SubSeq(buf, 1, Len(g)) = g
            /\ SubSeq(buf, Len(g) + 1, Len(buf)) \o rest = t
            /\ SubSeq(buf, Len(g) + 1, Len(buf)) \in Text
            /\ Len(SubSeq(buf, Len(g) + 1, Len(buf))) = Len(buf) - Len(g)
        BY <2>s, <4>1, TakeFrame
      <4> QED BY <2>e, <4>2
    <3>2. next = IF ~DecodeRequest(g).ok THEN Fails(d)
                 ELSE [ok |-> TRUE, buffer |-> b, requests |-> Append(reqs, DecodeRequest(g).value)]
      BY <1>2, <2>g, <2>i, <3>1 DEF PushTurn
    <3> HIDE DEF b, next
    <3>3. CASE ~DecodeRequest(g).ok
      <4>1. ~Fails(d).ok
        BY DEF Fails
      <4> QED BY <2>b, <3>2, <3>3, <4>1 DEF g, next
    <3>4. CASE DecodeRequest(g).ok
      <4>1. Len(b) <= Len(buf) - kFrameHeaderBytes
        BY <2>a, <2>e, <3>1 DEF kFrameHeaderBytes
      <4>2. Cut(b \o rest, f, m + 1, n, <<>>)
        BY <2>c, <3>1
      <4>3. next = [ok |-> TRUE, buffer |-> b, requests |-> Append(reqs, DecodeRequest(g).value)]
        BY <3>2, <3>4
      <4> QED BY <2>b, <3>1, <3>4, <4>1, <4>2, <4>3 DEF g, next
    <3> QED BY <3>3, <3>4
  <2> QED BY <2>h, <2>i
<1> QED BY <1>1, <1>2

\* What Push makes of a part of a stream of frames, of which `rest` was not yet read:
\* the requests of the first frames, and what is left without a whole frame; it fails
\* only at a frame that does not decode.
Pushed(d, rest, f, m, n) ==
    /\ d.ok => \E j \in m .. n :
          /\ \A k \in m + 1 .. j : DecodeRequest(f[k]).ok
          /\ d.buffer \in Text /\ Cut(d.buffer \o rest, f, j, n, <<>>)
          /\ d.requests = [k \in 1 .. j - m |-> DecodeRequest(f[m + k]).value]
          /\ Incomplete(d.buffer)
    /\ ~d.ok => \E k \in m + 1 .. n : ~DecodeRequest(f[k]).ok

LEMMA AppendIs ==
    ASSUME NEW T, NEW s \in Seq(T), NEW e
    PROVE  Append(s, e) = [k \in 1 .. Len(s) + 1 |-> IF k = Len(s) + 1 THEN e ELSE s[k]]
<1> DEFINE S == T \cup {e}
<1>1. s \in Seq(S) /\ e \in S
  <2>a. Len(s) \in Nat /\ s \in [1 .. Len(s) -> T]
    BY LenProperties
  <2>b. s \in [1 .. Len(s) -> S]
    BY <2>a
  <2> HIDE DEF S
  <2>c. s \in Seq(S)
    BY <2>a, <2>b, SeqDef
  <2> QED BY <2>c DEF S
<1> HIDE DEF S
<1>2. /\ Append(s, e) \in Seq(S) /\ Len(Append(s, e)) = Len(s) + 1
      /\ \A k \in 1 .. Len(s) : Append(s, e)[k] = s[k]
      /\ Append(s, e)[Len(s) + 1] = e
  BY <1>1, AppendProperties
<1> DEFINE p == Append(s, e)
<1>3. p \in [1 .. Len(s) + 1 -> S] /\ Len(s) \in Nat
  <2> HIDE DEF p
  <2>a. p \in Seq(S) /\ Len(p) = Len(s) + 1
    BY <1>2 DEF p
  <2>b. p \in [1 .. Len(p) -> S]
    BY <2>a, LenProperties
  <2> QED BY <2>a, <2>b, LenProperties
<1>4. ASSUME NEW k \in 1 .. Len(s) + 1 PROVE p[k] = IF k = Len(s) + 1 THEN e ELSE s[k]
  BY <1>2, <1>3
<1> HIDE DEF p
<1>5. p = [k \in 1 .. Len(s) + 1 |-> IF k = Len(s) + 1 THEN e ELSE s[k]]
  BY <1>3, <1>4
<1> QED BY <1>5 DEF p

LEMMA PushCuts ==
    ASSUME NEW s, NEW buf, NEW rest, Split(s, buf, rest), NEW f, NEW m \in Nat, NEW n \in Nat,
           m <= n, Cut(s, f, m, n, <<>>),
           \A k \in m + 1 .. n : WellDelimited(f[k])
    PROVE  Pushed(Push(buf, kMaxFrameBytes), rest, f, m, n)
<1> DEFINE turns == Turns(buf)
           value(k) == DecodeRequest(f[k]).value
           Taken(d, j) == /\ d = [ok |-> TRUE, buffer |-> d.buffer, requests |-> d.requests]
                          /\ \A k \in m + 1 .. j : DecodeRequest(f[k]).ok
                          /\ d.buffer \in Text /\ Cut(d.buffer \o rest, f, j, n, <<>>)
                          /\ d.requests = [k \in 1 .. j - m |-> value(m + k)]
           Fine(d, i) == \E j \in m .. n : Taken(d, j) /\ (\/ Incomplete(d.buffer)
                                                          \/ Len(d.buffer) + 16 * i <= Len(buf))
           Failed(d) == ~d.ok /\ \E k \in m + 1 .. n : ~DecodeRequest(f[k]).ok
<1>a. buf \in Text /\ rest \in Text /\ Cut(buf \o rest, f, m, n, <<>>)
  BY DEF Split
<1>0. PushLoops(buf, kMaxFrameBytes)
  BY <1>a, PushDef
<1>1. PICK h : /\ h[0] = [ok |-> TRUE, buffer |-> buf, requests |-> <<>>]
               /\ \A i \in 1 .. turns :
                     h[i] = PushTurn(h[i - 1], PeekFrameLength(h[i - 1].buffer), kMaxFrameBytes)
               /\ Push(buf, kMaxFrameBytes) = h[turns]
  BY <1>0 DEF PushLoops
<1>2. Len(buf) \in Nat /\ turns \in Nat /\ 16 * turns > Len(buf)
  <2>a. Len(buf) \in Nat
    BY <1>a, LenProperties DEF Text
  <2> QED BY <2>a DEF kFrameHeaderBytes, Turns
<1> DEFINE S == {i \in 0 .. turns : Fine(h[i], i) \/ Failed(h[i])}
<1> HIDE DEF turns, value
<1>3. 0 \in S
  <2>a. m \in m .. n /\ (\A k \in m + 1 .. m : DecodeRequest(f[k]).ok)
    OBVIOUS
  <2>b. <<>> = [k \in 1 .. m - m |-> value(m + k)]
    OBVIOUS
  <2>c. h[0].buffer = buf /\ h[0].requests = <<>>
        /\ h[0] = [ok |-> TRUE, buffer |-> h[0].buffer, requests |-> h[0].requests]
    BY <1>1
  <2>d. Taken(h[0], m)
    BY <1>a, <2>a, <2>b, <2>c
  <2>e. Len(h[0].buffer) + 16 * 0 <= Len(buf)
    BY <1>2, <2>c
  <2> HIDE DEF Taken
  <2> QED BY <1>2, <2>a, <2>d, <2>e
<1>4. ASSUME NEW i \in 0 .. turns - 1, i \in S PROVE i + 1 \in S
  <2> DEFINE d == h[i]
             next == h[i + 1]
  <2>a. next = PushTurn(d, PeekFrameLength(d.buffer), kMaxFrameBytes) /\ i + 1 \in 0 .. turns
        /\ i \in Nat
    <3>1. i + 1 \in 1 .. turns /\ i + 1 - 1 = i /\ i + 1 \in 0 .. turns /\ i \in Nat
      BY <1>2
    <3> QED BY <1>1, <3>1
  <2> HIDE DEF d, next
  <2>b. CASE Failed(d)
    <3>1. next = d
      BY <2>a, <2>b DEF PushTurn
    <3>2. Failed(next)
      BY <2>b, <3>1
    <3> HIDE DEF Failed, Fine
    <3> QED BY <2>a, <3>2 DEF next
  <2>c. CASE Fine(d, i)
    <3>1. PICK j \in m .. n : Taken(d, j) /\ (\/ Incomplete(d.buffer)
                                             \/ Len(d.buffer) + 16 * i <= Len(buf))
      BY <2>c
    <3> DEFINE b == d.buffer
               reqs == d.requests
               r == [ok |-> TRUE, buffer |-> b, requests |-> reqs]
    <3>2. /\ d = r /\ b \in Text /\ Cut(b \o rest, f, j, n, <<>>)
          /\ reqs = [k \in 1 .. j - m |-> value(m + k)]
          /\ \A k \in m + 1 .. j : DecodeRequest(f[k]).ok
      BY <3>1
    <3>3. j \in Nat /\ j <= n /\ \A k \in j + 1 .. n : WellDelimited(f[k])
      OBVIOUS
    <3> HIDE DEF b, reqs
    <3>4. next = PushTurn(r, PeekFrameLength(b), kMaxFrameBytes)
      BY <2>a, <3>2 DEF b
    <3>5. \/ Incomplete(b) /\ next = r
          \/ /\ j < n /\ ~DecodeRequest(f[j + 1]).ok /\ ~next.ok
          \/ /\ j < n /\ DecodeRequest(f[j + 1]).ok
             /\ \E c \in Text :
                   /\ next = [ok |-> TRUE, buffer |-> c, requests |-> Append(reqs, value(j + 1))]
                   /\ Cut(c \o rest, f, j + 1, n, <<>>)
                   /\ Len(c) <= Len(b) - kFrameHeaderBytes
      BY <1>a, <3>2, <3>3, <3>4, PushTakes DEF value
    <3>6. CASE Incomplete(b) /\ next = r
      <4>1. Fine(next, i + 1)
        BY <3>1, <3>2, <3>6 DEF b
      <4> HIDE DEF Fine, Failed
      <4> QED BY <2>a, <4>1 DEF next
    <3>7. CASE j < n /\ ~DecodeRequest(f[j + 1]).ok /\ ~next.ok
      <4>1. j + 1 \in m + 1 .. n
        BY <3>7
      <4>2. Failed(next)
        BY <3>7, <4>1
      <4> HIDE DEF Fine, Failed
      <4> QED BY <2>a, <4>2 DEF next
    <3>8. CASE /\ j < n /\ DecodeRequest(f[j + 1]).ok
               /\ \E c \in Text :
                     /\ next = [ok |-> TRUE, buffer |-> c, requests |-> Append(reqs, value(j + 1))]
                     /\ Cut(c \o rest, f, j + 1, n, <<>>)
                     /\ Len(c) <= Len(b) - kFrameHeaderBytes
      <4>1. PICK c \in Text :
                     /\ next = [ok |-> TRUE, buffer |-> c, requests |-> Append(reqs, value(j + 1))]
                     /\ Cut(c \o rest, f, j + 1, n, <<>>)
                     /\ Len(c) <= Len(b) - kFrameHeaderBytes
        BY <3>8
      <4>2. Append(reqs, value(j + 1)) = [k \in 1 .. (j + 1) - m |-> value(m + k)]
        <5>1. j - m \in Nat /\ (j + 1) - m = (j - m) + 1 /\ m + ((j - m) + 1) = j + 1
          OBVIOUS
        <5>2. reqs \in Seq({value(m + k) : k \in 1 .. j - m}) /\ Len(reqs) = j - m
          <6>1. \A k \in 1 .. j - m : value(m + k) \in {value(m + i_) : i_ \in 1 .. j - m}
            OBVIOUS
          <6> HIDE DEF reqs
          <6> DEFINE T == {value(m + i_) : i_ \in 1 .. j - m}
          <6>2. reqs \in [1 .. j - m -> T]
            BY <3>2, <6>1
          <6> HIDE DEF T
          <6>3. reqs \in Seq(T) /\ Len(reqs) = j - m
            BY <5>1, <6>2
          <6> QED BY <6>3 DEF T
        <5>3. Append(reqs, value(j + 1)) = [k \in 1 .. (j - m) + 1 |->
                                               IF k = (j - m) + 1 THEN value(j + 1) ELSE reqs[k]]
          <6> DEFINE last == value(j + 1)
                     T == {value(m + k) : k \in 1 .. j - m}
                     len == j - m
          <6>1. reqs \in Seq(T) /\ Len(reqs) = len
            BY <5>2
          <6>2. len \in Nat
            BY <5>1
          <6> HIDE DEF last, T, len, reqs
          <6>3. Append(reqs, last) = [k \in 1 .. len + 1 |-> IF k = len + 1 THEN last ELSE reqs[k]]
            BY <6>1, <6>2, AppendIs
          <6> QED BY <6>3 DEF last, len
        <5>4. ASSUME NEW k \in 1 .. (j - m) + 1
              PROVE  (IF k = (j - m) + 1 THEN value(j + 1) ELSE reqs[k]) = value(m + k)
          <6>1. k = (j - m) + 1 \/ k \in 1 .. j - m
            BY <5>1
          <6> QED BY <3>2, <5>1, <6>1
        <5> QED BY <5>1, <5>3, <5>4
      <4>3. next.buffer = c /\ next.requests = Append(reqs, value(j + 1))
            /\ next = [ok |-> TRUE, buffer |-> next.buffer, requests |-> next.requests]
        BY <4>1
      <4>4. j + 1 \in m .. n /\ \A k \in m + 1 .. j + 1 : DecodeRequest(f[k]).ok
        <5>1. \A k \in m + 1 .. j + 1 : k = j + 1 \/ k \in m + 1 .. j
          BY <3>3
        <5>2. j + 1 \in m .. n
          BY <3>3, <3>8
        <5> QED BY <3>2, <3>8, <5>1, <5>2
      <4>5. Taken(next, j + 1)
        BY <4>1, <4>2, <4>3, <4>4
      <4>6. \/ Incomplete(b) /\ Len(c) + 16 <= Len(b)
            \/ Len(c) + 16 * (i + 1) <= Len(buf)
        <5>1. Len(c) \in Nat /\ Len(b) \in Nat
          BY <3>2, LenProperties DEF Text
        <5>2. Len(c) + 16 <= Len(b)
          BY <4>1, <5>1 DEF kFrameHeaderBytes
        <5>3. Incomplete(b) \/ Len(b) + 16 * i <= Len(buf)
          BY <3>1 DEF b
        <5> QED BY <1>2, <2>a, <5>1, <5>2, <5>3
      <4>7. ~Incomplete(b)
        <5>1. SUFFICES ASSUME Incomplete(b) PROVE FALSE
          OBVIOUS
        <5>2. r.ok /\ r.buffer = b
          OBVIOUS
        <5>3. next = r \/ ~next.ok
          BY <3>4, <5>1, <5>2 DEF PushTurn, Incomplete, Fails
        <5>4. c = b
          BY <4>3, <4>1, <5>2, <5>3
        <5>5. Len(c) \in Nat /\ Len(b) \in Nat
          BY <3>2, LenProperties DEF Text
        <5> QED BY <4>1, <5>4, <5>5 DEF kFrameHeaderBytes
      <4>8. Fine(next, i + 1)
        <5> HIDE DEF Taken
        <5> QED BY <4>3, <4>4, <4>5, <4>6, <4>7
      <4> HIDE DEF Fine, Failed
      <4> QED BY <2>a, <4>8 DEF next
    <3> QED BY <3>5, <3>6, <3>7, <3>8
  <2> HIDE DEF Fine, Failed
  <2> QED BY <1>4, <2>b, <2>c DEF d
<1>5. turns \in S
  <2>a. turns \in 0 .. turns
    BY <1>2
  <2> HIDE DEF S
  <2> QED BY <1>2, <1>3, <1>4, <2>a, InductionUpTo
<1> DEFINE d == h[turns]
<1>6. Fine(d, turns) \/ Failed(d)
  BY <1>5
<1> HIDE DEF d
<1>7. CASE Failed(d)
  BY <1>1, <1>7 DEF d, Pushed
<1>8. CASE Fine(d, turns)
  <2>a. PICK j \in m .. n : Taken(d, j) /\ (\/ Incomplete(d.buffer)
                                           \/ Len(d.buffer) + 16 * turns <= Len(buf))
    BY <1>8
  <2>b. d.buffer \in Text /\ d.ok
    BY <2>a
  <2>c. Len(d.buffer) \in Nat
    BY <2>b, LenProperties DEF Text
  <2>d. Incomplete(d.buffer)
    BY <1>2, <2>a, <2>c
  <2>e. Push(buf, kMaxFrameBytes) = d
    BY <1>1 DEF d
  <2> QED BY <2>a, <2>b, <2>d, <2>e DEF value, Pushed
<1> QED BY <1>6, <1>7, <1>8

----------------------------------------
(* Headers *)

\* b between a and c.
LEMMA Slice ==
    ASSUME NEW s, NEW a, NEW b, NEW c, NEW t, Split(s, a, t), Split(t, b, c), Len(b) > 0
    PROVE  SubSeq(s, Len(a) + 1, Len(a) + Len(b)) = b
<1>0. a \in Text /\ b \in Text /\ c \in Text /\ t = b \o c /\ s = a \o t /\ t \in Text
  BY DEF Split
<1>1. SubSeq(t, 1, Len(b)) = b /\ Len(t) = Len(b) + Len(c)
      /\ Len(a) \in Nat /\ Len(b) \in Nat /\ Len(c) \in Nat
  BY <1>0, TextConcat
<1>3. Len(a) + 1 \in Len(a) + 1 .. Len(a) + Len(t) /\ Len(a) + Len(b) \in Len(a) + 1 .. Len(a) + Len(t)
  BY <1>1
<1>4. SubSeq(a \o t, Len(a) + 1, Len(a) + Len(b)) = SubSeq(t, Len(a) + 1 - Len(a), Len(a) + Len(b) - Len(a))
  BY <1>0, <1>3, SubSeqOfConcat2 DEF Text
<1>5. Len(a) + 1 - Len(a) = 1 /\ Len(a) + Len(b) - Len(a) = Len(b)
  BY <1>1
<1> QED BY <1>0, <1>1, <1>4, <1>5

LEMMA SplitParts ==
    ASSUME NEW s, NEW a, NEW b, Split(s, a, b)
    PROVE  /\ s \in Text /\ a \in Text /\ b \in Text /\ Len(s) = Len(a) + Len(b)
           /\ Len(a) \in Nat /\ Len(b) \in Nat /\ Len(s) \in Nat
           /\ SubSeq(s, 1, Len(a)) = a /\ SubSeq(s, Len(a) + 1, Len(s)) = b
<1>1. a \in Text /\ b \in Text /\ s = a \o b
  BY DEF Split
<1>2. a \o b \in Text /\ Len(a \o b) = Len(a) + Len(b) /\ Len(a) \in Nat /\ Len(b) \in Nat
      /\ SubSeq(a \o b, 1, Len(a)) = a /\ SubSeq(a \o b, Len(a) + 1, Len(a \o b)) = b
  BY <1>1, TextConcat
<1> QED BY <1>1, <1>2

\* The boundary between the parts of s is moved over b.
LEMMA SplitFurther ==
    ASSUME NEW a \in Text, NEW b \in Text, NEW c \in Text
    PROVE  /\ Split((a \o b) \o c, a \o b, c)
           /\ Split((a \o b) \o c, a, b \o c)
           /\ Split(b \o c, b, c)
<1>1. a \o b \in Text /\ b \o c \in Text
  BY TextConcat
<1>2. (a \o b) \o c = a \o (b \o c)
  BY TextAssoc
<1> QED BY <1>1, <1>2 DEF Split

LEMMA Written ==
    ASSUME NEW w \in 1 .. 8, NEW v \in Unsigned(w)
    PROVE  /\ AppendBigEndian(v, w) \in Text /\ Len(AppendBigEndian(v, w)) = w
           /\ ReadBigEndian(AppendBigEndian(v, w)) = v
BY UnsignedValue, AppendBigEndianType, ReadsWritten DEF Text

LEMMA SizesFit ==
    ASSUME NEW n \in Nat, n <= kMaxFrameBytes
    PROVE  n \in Unsigned(4) /\ n < Power[4]
<1>1. Power[4] \in Nat
  BY PowerType
<1>2. kMaxFrameBytes \in Nat /\ kMaxFrameBytes < Power[4]
  BY <1>1, CodecAssumption
<1> QED BY <1>1, <1>2 DEF Unsigned

LEMMA FrameParts ==
    ASSUME NEW k \in Unsigned(2), NEW v \in Unsigned(2), NEW id \in Unsigned(8), NEW body \in Text,
           Len(body) <= kMaxFrameBytes - kFrameHeaderBytes
    PROVE  LET f == Frame(k, v, id, body)
           IN  /\ WellDelimited(f) /\ ValidateFrame(f)
               /\ ApiKeyOf(f) = k /\ VersionOf(f) = v /\ RequestIdOf(f) = id /\ BodyOf(f) = body
<1> DEFINE n == kFrameHeaderBytes + Len(body)
           a == AppendBigEndian(n, 4)
           b == AppendBigEndian(k, 2)
           c == AppendBigEndian(v, 2)
           d == AppendBigEndian(id, 8)
           f == Frame(k, v, id, body)
<1>1. Len(body) \in Nat /\ n \in Nat /\ n \in kFrameHeaderBytes .. kMaxFrameBytes /\ kMaxFrameBytes \in Nat
      /\ n = 16 + Len(body) /\ n \in Unsigned(4)
  <2>a. Len(body) \in Nat
    BY LenProperties DEF Text
  <2>b. Power[4] \in Nat
    BY PowerType
  <2>c. kMaxFrameBytes \in Nat /\ kMaxFrameBytes < Power[4]
    BY <2>b, CodecAssumption
  <2> QED BY <2>a, <2>b, <2>c DEF kFrameHeaderBytes, Unsigned
<1>2. a \in Text /\ Len(a) = 4 /\ ReadBigEndian(a) = n
  <2> HIDE DEF n
  <2> QED BY <1>1, Written
<1>3. b \in Text /\ Len(b) = 2 /\ ReadBigEndian(b) = k
  BY Written
<1>4. c \in Text /\ Len(c) = 2 /\ ReadBigEndian(c) = v
  BY Written
<1>5. d \in Text /\ Len(d) = 8 /\ ReadBigEndian(d) = id
  BY Written
<1>6. f = (((a \o b) \o c) \o d) \o body
  BY DEF Frame, U16, U32, U64
<1> HIDE DEF n, a, b, c, d, f
<1> DEFINE ab == a \o b
           abc == ab \o c
           abcd == abc \o d
<1>7. ab \in Text /\ Len(ab) = 6
  <2>a. ab \in Text /\ Len(ab) = Len(a) + Len(b)
    BY <1>2, <1>3, TextConcat
  <2> QED BY <1>2, <1>3, <2>a
<1>8. abc \in Text /\ Len(abc) = 8
  <2>a. abc \in Text /\ Len(abc) = Len(ab) + Len(c)
    BY <1>4, <1>7, TextConcat
  <2> QED BY <1>4, <1>7, <2>a
<1>9. abcd \in Text /\ Len(abcd) = 16
  <2>a. abcd \in Text /\ Len(abcd) = Len(abc) + Len(d)
    BY <1>5, <1>8, TextConcat
  <2> QED BY <1>5, <1>8, <2>a
<1> DEFINE dt == d \o body
           ct == c \o dt
           bt == b \o ct
<1>10. Split(f, abcd, body) /\ Split(f, abc, dt) /\ Split(dt, d, body)
  <2> HIDE DEF abc
  <2>a. f = (abc \o d) \o body
    BY <1>6 DEF abc
  <2> QED BY <2>a, <1>5, <1>8, SplitFurther
<1>11. Split(f, ab, ct) /\ Split(ct, c, dt)
  <2> HIDE DEF ab, dt
  <2>a. f = (ab \o c) \o dt /\ dt \in Text
    BY <1>10 DEF Split
  <2> QED BY <2>a, <1>4, <1>7, SplitFurther
<1>12. Split(f, a, bt) /\ Split(bt, b, ct)
  <2> HIDE DEF ct
  <2>a. f = (a \o b) \o ct /\ ct \in Text
    BY <1>11 DEF Split
  <2> QED BY <2>a, <1>2, <1>3, SplitFurther
<1> HIDE DEF ab, abc, abcd, bt, ct, dt
<1>13. f \in Text /\ Len(f) = n /\ BodyOf(f) = body
  <2>a. f \in Text /\ Len(f) = Len(abcd) + Len(body) /\ SubSeq(f, Len(abcd) + 1, Len(f)) = body
    BY <1>10, SplitParts
  <2> QED BY <2>a, <1>1, <1>9 DEF BodyOf, kFrameHeaderBytes
<1>14. SubSeq(f, 1, 4) = a
  <2>a. SubSeq(f, 1, Len(a)) = a
    BY <1>12, SplitParts
  <2> QED BY <2>a, <1>2
<1>15. SubSeq(f, 5, 6) = b
  <2>a. Len(b) > 0
    BY <1>3
  <2>b. SubSeq(f, Len(a) + 1, Len(a) + Len(b)) = b
    BY <2>a, <1>12, Slice
  <2> QED BY <2>b, <1>2, <1>3
<1>16. SubSeq(f, 7, 8) = c
  <2>a. Len(c) > 0
    BY <1>4
  <2>b. SubSeq(f, Len(ab) + 1, Len(ab) + Len(c)) = c
    BY <2>a, <1>11, Slice
  <2> QED BY <2>b, <1>4, <1>7
<1>17. SubSeq(f, 9, 16) = d
  <2>a. Len(d) > 0
    BY <1>5
  <2>b. SubSeq(f, Len(abc) + 1, Len(abc) + Len(d)) = d
    BY <2>a, <1>10, Slice
  <2> QED BY <2>b, <1>5, <1>8
<1>18. PeekFrameLength(f) = Len(f) /\ Len(f) >= kFrameHeaderBytes
  <2>a. PeekFrameLength(f) = n
    BY <1>2, <1>14 DEF PeekFrameLength
  <2> QED BY <1>1, <1>13, <2>a DEF kFrameHeaderBytes
<1>19. ApiKeyOf(f) = k /\ VersionOf(f) = v /\ RequestIdOf(f) = id
  BY <1>3, <1>4, <1>5, <1>15, <1>16, <1>17 DEF ApiKeyOf, VersionOf, RequestIdOf
<1>20. WellDelimited(f) /\ ValidateFrame(f)
  BY <1>1, <1>13, <1>18 DEF WellDelimited, ValidateFrame
<1> QED BY <1>13, <1>19, <1>20 DEF f

\* The numbers of the enumerators and back.
LEMMA ApiKeyNumber ==
    ASSUME NEW k \in Range(ApiKeys)
    PROVE  /\ ApiKeyValue(k) \in DOMAIN ApiKeys /\ ApiKeys[ApiKeyValue(k)] = k
           /\ ApiKeyValue(k) \in Unsigned(2)
<1>1. PICK i \in DOMAIN ApiKeys : ApiKeys[i] = k
  BY DEF Range
<1>2. ApiKeyValue(k) \in DOMAIN ApiKeys /\ ApiKeys[ApiKeyValue(k)] = k
  BY <1>1 DEF ApiKeyValue
<1>3. DOMAIN ApiKeys = 1 .. 11
  BY DEF ApiKeys
<1>4. Power[2] = Radix * Radix
  BY PowerType, RadixType
<1>5. Power[2] > 11 /\ Power[2] \in Nat
  BY <1>4, CodecAssumption, PowerType
<1> QED BY <1>2, <1>3, <1>5 DEF Unsigned

LEMMA ErrorCodeNumber ==
    ASSUME NEW c \in Range(ErrorCodes)
    PROVE  /\ ErrorCodeValue(c) \in Unsigned(2) /\ ParseProtocolErrorCode(ErrorCodeValue(c))
           /\ ErrorCodes[ErrorCodeValue(c) + 1] = c
<1> DEFINE x == CHOOSE k \in DOMAIN ErrorCodes : ErrorCodes[k] = c
<1>1. PICK i \in DOMAIN ErrorCodes : ErrorCodes[i] = c
  BY DEF Range
<1>2. x \in DOMAIN ErrorCodes /\ ErrorCodes[x] = c
  BY <1>1
<1>3. DOMAIN ErrorCodes = 1 .. 8
  BY DEF ErrorCodes
<1>4. ErrorCodeValue(c) = x - 1
  BY DEF ErrorCodeValue
<1> HIDE DEF x
<1>5. Power[2] = Radix * Radix
  BY PowerType, RadixType
<1>6. Power[2] > 11 /\ Power[2] \in Nat
  BY <1>5, CodecAssumption, PowerType
<1>7. x \in Nat /\ x >= 1 /\ x <= 8 /\ (x - 1) + 1 = x
  BY <1>2, <1>3
<1> QED BY <1>2, <1>3, <1>4, <1>6, <1>7 DEF Unsigned, ParseProtocolErrorCode

LEMMA Versions == ASSUME NEW v, SupportedProtocolVersion(v) PROVE v \in Unsigned(2) /\ v \in {1, 2}
<1>1. Power[2] = Radix * Radix
  BY PowerType, RadixType
<1>2. Power[2] > 11 /\ Power[2] \in Nat
  BY <1>1, CodecAssumption, PowerType
<1> QED BY <1>2 DEF Unsigned, SupportedProtocolVersion, kProtocolVersion, kRetryProtocolVersion

\* A frame with a header the decoders accept.
LEMMA FrameHeader ==
    ASSUME NEW k \in Range(ApiKeys), NEW v, SupportedProtocolVersion(v), NEW id \in Unsigned(8),
           NEW body \in Text, AppendFrameHeader(k, v, id, body).ok
    PROVE  LET f == AppendFrameHeader(k, v, id, body).value
           IN  /\ WellDelimited(f) /\ HeaderOk(f)
               /\ ApiKeys[ApiKeyOf(f)] = k /\ VersionOf(f) = v /\ RequestIdOf(f) = id
               /\ BodyOf(f) = body /\ Len(body) <= kMaxFrameBytes - kFrameHeaderBytes
<1> DEFINE f == Frame(ApiKeyValue(k), v, id, body)
<1>1. Len(body) <= kMaxFrameBytes - kFrameHeaderBytes /\ AppendFrameHeader(k, v, id, body).value = f
  BY DEF AppendFrameHeader, When, Ok, Err
<1>2. ApiKeyValue(k) \in Unsigned(2) /\ v \in Unsigned(2)
  BY ApiKeyNumber, Versions
<1>3. /\ WellDelimited(f) /\ ValidateFrame(f)
      /\ ApiKeyOf(f) = ApiKeyValue(k) /\ VersionOf(f) = v /\ RequestIdOf(f) = id /\ BodyOf(f) = body
  BY <1>1, <1>2, FrameParts
<1> HIDE DEF f
<1>4. HeaderOk(f)
  BY <1>3, ApiKeyNumber DEF HeaderOk, ParseApiKey
<1> QED BY <1>1, <1>3, <1>4, ApiKeyNumber

----------------------------------------
(* The error envelope of a response *)

LEMMA Readers ==
    ASSUME NEW rest, NEW val
    PROVE  Reader(rest, val).ok = TRUE /\ Reader(rest, val).rest = rest /\ Reader(rest, val).val = val
BY DEF Reader

LEMMA AllReaders == \A p, q : Reader(p, q).ok /\ Reader(p, q).rest = p /\ Reader(p, q).val = q
BY DEF Reader

LEMMA PutOnce ==
    ASSUME NEW val, NEW name, NEW v
    PROVE  /\ Put(val, name, v)[name] = v
           /\ \A n \in DOMAIN val : n # name => Put(val, name, v)[n] = val[n]
           /\ DOMAIN Put(val, name, v) = DOMAIN val \cup {name}
BY DEF Put

LEMMA Results ==
    ASSUME NEW v
    PROVE  Ok(v).ok = TRUE /\ Ok(v).value = v /\ Err.ok = FALSE
BY DEF Ok, Err

LEMMA Strings ==
    ASSUME NEW s \in Text
    PROVE  /\ AppendString(s) \in Text /\ Len(AppendString(s)) = 4 + Len(s)
           /\ Len(s) \in Nat
<1> DEFINE a == AppendBigEndian(Len(s), 4)
<1>1. Len(s) \in Nat /\ Len(s) \in Int
  BY LenProperties DEF Text
<1>2. a \in Text /\ Len(a) = 4
  BY <1>1, AppendBigEndianType DEF Text
<1>3. AppendString(s) = a \o s
  BY DEF AppendString, U32
<1> HIDE DEF a
<1>4. a \o s \in Text /\ Len(a \o s) = Len(a) + Len(s)
  BY <1>2, TextConcat
<1> QED BY <1>1, <1>2, <1>3, <1>4

Envelope(code, message) == Put(Put(<<>>, "code", ErrorCodeValue(code)), "message", message)

LEMMA ReadsEnvelope ==
    ASSUME NEW code \in Range(ErrorCodes), NEW message \in Text, Len(message) < Power[4],
           NEW rest \in Text
    PROVE  /\ ErrorEnvelope(code, message) \in Text
           /\ Len(ErrorEnvelope(code, message)) = 6 + Len(message)
           /\ BodyReader(ErrorEnvelope(code, message) \o rest) ** Field("code", "u16") ** Str("message")
                 = Reader(rest, Envelope(code, message))
<1> DEFINE n == ErrorCodeValue(code)
           a == AppendBigEndian(n, 2)
           b == AppendString(message)
           t == b \o rest
           v1 == Put(<<>>, "code", n)
<1>1. n \in Unsigned(2)
  BY ErrorCodeNumber
<1>2. a \in Text /\ Len(a) = 2
  BY <1>1, Written
<1>3. b \in Text /\ Len(b) = 4 + Len(message) /\ Len(message) \in Nat
  BY Strings
<1>4. ErrorEnvelope(code, message) = a \o b
  BY DEF ErrorEnvelope, U16
<1>5. Reader(t, v1) ** Str("message") = Reader(rest, Put(v1, "message", message))
  BY ReadsText
<1>6. t \in Text
  BY <1>3, TextConcat
<1> HIDE DEF n, b, t, v1
<1>7. Reader(a \o t, <<>>) ** Field("code", "u16") = Reader(t, Put(<<>>, "code", n))
  <2>a. Width["u16"] = 2
    BY DEF Width
  <2> QED BY <1>1, <1>6, <2>a, ReadsUnsigned
<1> HIDE DEF a
<1>8. (a \o b) \o rest = a \o t
  BY <1>2, <1>3, TextAssoc DEF t
<1>9. a \o b \in Text /\ Len(a \o b) = Len(a) + Len(b)
  BY <1>2, <1>3, TextConcat
<1>10. Len(a \o b) = 6 + Len(message)
  BY <1>2, <1>3, <1>9
<1> QED BY <1>4, <1>5, <1>7, <1>8, <1>9, <1>10 DEF BodyReader, Envelope, v1, n

LEMMA EnvelopeFields ==
    ASSUME NEW code, NEW message
    PROVE  /\ Envelope(code, message)["code"] = ErrorCodeValue(code)
           /\ Envelope(code, message)["message"] = message
BY DEF Envelope, Put

\* The bytes after the envelope decode to val.
ContentsDecode(k, v, code, bytes, val) ==
    IF code = "None" THEN DecodeResponseBody(k, Reader(bytes, <<>>), v) = Reader(<<>>, val)
    ELSE bytes = <<>> /\ val = EmptyResponseBodyFor(k)

\* A response is decoded once its body is.
LEMMA ResponseDecodes ==
    ASSUME NEW k \in Range(ApiKeys), NEW v, SupportedProtocolVersion(v), NEW id \in Unsigned(8),
           NEW code \in Range(ErrorCodes), NEW message \in Text, NEW bytes \in Text,
           NEW r, r = AppendFrameHeader(k, v, id, ErrorEnvelope(code, message) \o bytes), r.ok,
           NEW val, ContentsDecode(k, v, code, bytes, val)
    PROVE  /\ WellDelimited(r.value)
           /\ DecodeResponse(r.value) = Ok([api_key |-> k, version |-> v, request_id |-> id,
                                            error_code |-> code, message |-> message, body |-> val])
<1> DEFINE f == r.value
           e == ErrorEnvelope(code, message)
           body == e \o bytes
           env == Envelope(code, message)
           envelope == Reader(bytes, env)
           result == [api_key |-> k, version |-> v, request_id |-> id,
                      error_code |-> code, message |-> message, body |-> val]
<1>1. Len(message) \in Nat
  BY LenProperties DEF Text
<1>2. e \in Text
  <2>a. ErrorCodeValue(code) \in Unsigned(2)
    BY ErrorCodeNumber
  <2>b. U16(ErrorCodeValue(code)) \in Text
    BY <2>a, Written DEF U16
  <2> QED BY <2>b, Strings, TextConcat DEF ErrorEnvelope
<1>3. body \in Text /\ Len(body) = Len(e) + Len(bytes) /\ Len(e) \in Nat /\ Len(bytes) \in Nat
  BY <1>2, TextConcat
<1>4. /\ WellDelimited(f) /\ HeaderOk(f)
      /\ ApiKeys[ApiKeyOf(f)] = k /\ VersionOf(f) = v /\ RequestIdOf(f) = id
      /\ BodyOf(f) = body /\ Len(body) <= kMaxFrameBytes - kFrameHeaderBytes
  <2>a. r = AppendFrameHeader(k, v, id, body) /\ body \in Text
    BY <1>3
  <2> HIDE DEF body
  <2> QED BY <2>a, FrameHeader
<1>5. Len(message) < Power[4]
  <2>a. Len(e) >= Len(message)
    <3>1. ErrorCodeValue(code) \in Unsigned(2)
      BY ErrorCodeNumber
    <3>2. U16(ErrorCodeValue(code)) \in Text /\ Len(U16(ErrorCodeValue(code))) = 2
      BY <3>1, Written DEF U16
    <3>3. AppendString(message) \in Text /\ Len(AppendString(message)) = 4 + Len(message)
      BY Strings
    <3>4. Len(e) = Len(U16(ErrorCodeValue(code))) + Len(AppendString(message))
      BY <3>2, <3>3, TextConcat DEF ErrorEnvelope
    <3> QED BY <1>1, <3>2, <3>3, <3>4
  <2>b. kMaxFrameBytes \in Nat
    BY CodecAssumption, PowerType
  <2>c. Len(message) <= kMaxFrameBytes
    BY <1>1, <1>3, <1>4, <2>a, <2>b DEF kFrameHeaderBytes
  <2> QED BY <1>1, <2>c, SizesFit
<1>6. BodyReader(body) ** Field("code", "u16") ** Str("message") = envelope
  BY <1>5, ReadsEnvelope
<1> HIDE DEF f, body, e
<1>7. DecodeResponse(f) = DecodeResponseAfter(f, k, envelope)
  BY <1>4, <1>6 DEF DecodeResponse
<1>8. /\ envelope.ok /\ envelope.rest = bytes /\ envelope.val["code"] = ErrorCodeValue(code)
      /\ envelope.val["message"] = message
  <2>a. envelope.ok /\ envelope.rest = bytes /\ envelope.val = env
    BY Readers
  <2> HIDE DEF envelope
  <2> QED BY <2>a, EnvelopeFields
<1>9. ErrorCodes[envelope.val["code"] + 1] = code /\ ParseProtocolErrorCode(envelope.val["code"])
  BY <1>8, ErrorCodeNumber
<1> DEFINE contents == IF code = "None"
                       THEN DecodeResponseBody(k, BodyReader(bytes), v)
                       ELSE Having(envelope, EmptyResponseBodyFor(k))
<1>10. contents = Reader(<<>>, val)
  <2>a. CASE code = "None"
    BY <2>a DEF BodyReader, ContentsDecode
  <2>b. CASE code # "None"
    BY <2>b, <1>8 DEF Having, ContentsDecode
  <2> QED BY <2>a, <2>b
<1> HIDE DEF contents, envelope
<1>11. DecodeResponseAfter(f, k, envelope)
          = When(Require(contents, consumed).ok,
                 [api_key |-> k, version |-> VersionOf(f), request_id |-> RequestIdOf(f),
                  error_code |-> code, message |-> envelope.val["message"],
                  body |-> Require(contents, consumed).val])
  BY <1>4, <1>8, <1>9 DEF DecodeResponseAfter, contents
<1>12. Require(contents, consumed).ok /\ Require(contents, consumed).val = val
  <2>a. contents.ok /\ contents.rest = <<>> /\ contents.val = val
    BY <1>10, Readers
  <2> QED BY <2>a DEF Require, consumed
<1>13. DecodeResponseAfter(f, k, envelope) = Ok(result)
  BY <1>4, <1>8, <1>11, <1>12 DEF When
<1> QED BY <1>4, <1>7, <1>13 DEF f

\* An error reply of one character has an encoding.
LEMMA ErrorFrame ==
    ASSUME NEW k \in Range(ApiKeys), NEW id \in Unsigned(8), NEW code \in Range(ErrorCodes),
           code # "None", NEW c \in Byte
    PROVE  LET e == EncodeErrorResponse(k, kProtocolVersion, id, code, <<c>>)
           IN  /\ e.ok /\ WellDelimited(e.value)
               /\ DecodeResponse(e.value) =
                     Ok([api_key |-> k, version |-> kProtocolVersion, request_id |-> id,
                         error_code |-> code, message |-> <<c>>,
                         body |-> EmptyResponseBodyFor(k)])
<1> DEFINE m == <<c>>
           e == ErrorEnvelope(code, m)
           r == AppendFrameHeader(k, kProtocolVersion, id, e)
<1>1. SupportedProtocolVersion(kProtocolVersion)
  BY DEF SupportedProtocolVersion
<1>2. EncodeErrorResponse(k, kProtocolVersion, id, code, m) = r
  BY <1>1 DEF EncodeErrorResponse
<1>3. m \in Text /\ Len(m) = 1
  BY DEF Text
<1> HIDE DEF m
<1>4. Len(m) < Power[4]
  BY <1>3, SizesFit, CodecAssumption, PowerType
<1>5. e \in Text /\ Len(e) = 7
  <2>a. e \in Text /\ Len(e) = 6 + Len(m)
    BY <1>3, <1>4, TextEmpty, ReadsEnvelope
  <2> QED BY <1>3, <2>a
<1> DEFINE z == <<>>
<1>6. e \o z = e
  BY <1>5, ConcatEmptySeq DEF Text
<1>7. Len(e) <= kMaxFrameBytes - kFrameHeaderBytes
  BY <1>5, CodecAssumption, PowerType DEF kFrameHeaderBytes
<1>8. r.ok
  BY <1>7 DEF AppendFrameHeader, When, Ok
<1>9. r = AppendFrameHeader(k, kProtocolVersion, id, e \o z)
  BY <1>6
<1>10. z \in Text
  BY TextEmpty
<1> DEFINE val == EmptyResponseBodyFor(k)
<1>11. /\ WellDelimited(r.value)
       /\ DecodeResponse(r.value) = Ok([api_key |-> k, version |-> kProtocolVersion, request_id |-> id,
                                        error_code |-> code, message |-> m, body |-> val])
  <2>a. ContentsDecode(k, kProtocolVersion, code, z, val)
    BY DEF ContentsDecode
  <2> HIDE DEF val, r, z
  <2> QED BY <1>1, <1>3, <1>8, <1>9, <1>10, <2>a, ResponseDecodes
<1> QED BY <1>2, <1>8, <1>11 DEF m

----------------------------------------
(* Fields one after the other *)

\* Field f is read from the bytes a, and the field `name` of the struct becomes v.
Takes(a, f, name, v) ==
    /\ a \in Text
    /\ \A t \in Text : \A val : Reader(a \o t, val) ** f = Reader(t, Put(val, name, v))

LEMMA TakesText ==
    ASSUME NEW s \in Text, Len(s) < Power[4], NEW name
    PROVE  Takes(AppendString(s), Str(name), name, s)
<1> QED BY Strings, ReadsText DEF Takes

LEMMA TakesPartition ==
    ASSUME NEW v \in Signed(4), NEW name
    PROVE  Takes(AppendPartitionId(v), Field(name, "partition"), name, v)
<1>2. AppendPartitionId(v) \in Text
  BY TwosComplement, AppendBigEndianType DEF AppendPartitionId, U32, Text
<1> QED BY <1>2, ReadsPartition DEF Takes

LEMMA TakesOffset ==
    ASSUME NEW v \in Signed(8), NEW name
    PROVE  Takes(U64(v), OffsetField(name), name, v)
<1>2. U64(v) \in Text
  BY TwosComplement, AppendBigEndianType DEF U64, Text
<1> QED BY <1>2, ReadsOffset DEF Takes

LEMMA TakesGeneration ==
    ASSUME NEW v \in Signed(4), v >= 0
    PROVE  Takes(U32(v), Generation, "generation_id", v)
<1>2. U32(v) \in Text
  BY TwosComplement, AppendBigEndianType DEF U32, Text
<1> QED BY <1>2, ReadsGeneration DEF Takes

LEMMA TakesUnsigned ==
    ASSUME NEW name
    PROVE  /\ \A v \in Unsigned(2) : Takes(U16(v), Field(name, "u16"), name, v)
           /\ \A v \in Unsigned(4) : Takes(U32(v), Field(name, "u32"), name, v)
           /\ \A v \in Unsigned(8) : Takes(U64(v), Field(name, "u64"), name, v)
<1>1. ASSUME NEW w \in 1 .. 8, NEW kind \in {"u16", "u32", "u64"}, Width[kind] = w,
             NEW v \in Unsigned(w)
      PROVE  Takes(AppendBigEndian(v, w), Field(name, kind), name, v)
  <2>b. AppendBigEndian(v, w) \in Text
    BY Written
  <2> QED BY <1>1, <2>b, ReadsUnsigned DEF Takes
<1>2. Width["u16"] = 2 /\ Width["u32"] = 4 /\ Width["u64"] = 8
  BY DEF Width
<1> QED BY <1>1, <1>2 DEF U16, U32, U64

LEMMA TakesFlag ==
    ASSUME NEW b \in BOOLEAN, NEW name
    PROVE  /\ Takes(U8(IF b THEN 1 ELSE 0), Field(name, "bool8"), name, b)
           /\ Takes(U32(IF b THEN 1 ELSE 0), Field(name, "bool32"), name, b)
<1>1. ASSUME NEW w \in 1 .. 8, NEW kind \in {"bool8", "bool32"}, Width[kind] = w
      PROVE  Takes(AppendBigEndian(IF b THEN 1 ELSE 0, w), Field(name, kind), name, b)
  <2>b. (IF b THEN 1 ELSE 0) \in Int
    OBVIOUS
  <2>c. AppendBigEndian(IF b THEN 1 ELSE 0, w) \in Text
    BY <2>b, AppendBigEndianType DEF Text
  <2> QED BY <1>1, <2>c, ReadsFlag DEF Takes
<1>2. Width["bool8"] = 1 /\ Width["bool32"] = 4
  BY DEF Width
<1> QED BY <1>1, <1>2 DEF U8, U32

LEMMA Chain1 ==
    ASSUME NEW tail \in Text, NEW val, NEW a1, NEW f1, NEW n1, NEW v1, Takes(a1, f1, n1, v1)
    PROVE  /\ a1 \in Text /\ Len(a1) \in Nat
           /\ Reader(a1 \o tail, val) ** f1 = Reader(tail, Put(val, n1, v1))
BY LenProperties DEF Takes, Text

LEMMA Chain2 ==
    ASSUME NEW tail \in Text, NEW val,
           NEW a1, NEW f1, NEW n1, NEW v1, Takes(a1, f1, n1, v1),
           NEW a2, NEW f2, NEW n2, NEW v2, Takes(a2, f2, n2, v2)
    PROVE  /\ a1 \o a2 \in Text
           /\ Reader((a1 \o a2) \o tail, val) ** f1 ** f2
                 = Reader(tail, Put(Put(val, n1, v1), n2, v2))
<1> DEFINE t == a2 \o tail
           z == Put(val, n1, v1)
           p == a1
<1>1. a2 \in Text /\ t \in Text
  BY TextConcat DEF Takes
<1>2. Reader(t, z) ** f2 = Reader(tail, Put(z, n2, v2))
  BY Chain1
<1> HIDE DEF t
<1>3. p \in Text /\ Reader(p \o t, val) ** f1 = Reader(t, z)
  BY <1>1, Chain1
<1> HIDE DEF p, z
<1>4. p \o a2 \in Text /\ (p \o a2) \o tail = p \o t
  BY <1>1, <1>3, TextConcat, TextAssoc DEF t
<1> QED BY <1>2, <1>3, <1>4 DEF z, p

LEMMA Chain3 ==
    ASSUME NEW tail \in Text, NEW val,
           NEW a1, NEW f1, NEW n1, NEW v1, Takes(a1, f1, n1, v1),
           NEW a2, NEW f2, NEW n2, NEW v2, Takes(a2, f2, n2, v2),
           NEW a3, NEW f3, NEW n3, NEW v3, Takes(a3, f3, n3, v3)
    PROVE  /\ a1 \o a2 \o a3 \in Text
           /\ Reader((a1 \o a2 \o a3) \o tail, val) ** f1 ** f2 ** f3
                 = Reader(tail, Put(Put(Put(val, n1, v1), n2, v2), n3, v3))
<1> DEFINE t == a3 \o tail
           z == Put(Put(val, n1, v1), n2, v2)
           p == a1 \o a2
<1>1. a3 \in Text /\ t \in Text
  BY TextConcat DEF Takes
<1>2. Reader(t, z) ** f3 = Reader(tail, Put(z, n3, v3))
  BY Chain1
<1> HIDE DEF t
<1>3. p \in Text /\ Reader(p \o t, val) ** f1 ** f2 = Reader(t, z)
  BY <1>1, Chain2
<1> HIDE DEF p, z
<1>4. p \o a3 \in Text /\ (p \o a3) \o tail = p \o t
  BY <1>1, <1>3, TextConcat, TextAssoc DEF t
<1> QED BY <1>2, <1>3, <1>4 DEF z, p

LEMMA Chain4 ==
    ASSUME NEW tail \in Text, NEW val,
           NEW a1, NEW f1, NEW n1, NEW v1, Takes(a1, f1, n1, v1),
           NEW a2, NEW f2, NEW n2, NEW v2, Takes(a2, f2, n2, v2),
           NEW a3, NEW f3, NEW n3, NEW v3, Takes(a3, f3, n3, v3),
           NEW a4, NEW f4, NEW n4, NEW v4, Takes(a4, f4, n4, v4)
    PROVE  /\ a1 \o a2 \o a3 \o a4 \in Text
           /\ Reader((a1 \o a2 \o a3 \o a4) \o tail, val) ** f1 ** f2 ** f3 ** f4
                 = Reader(tail, Put(Put(Put(Put(val, n1, v1), n2, v2), n3, v3), n4, v4))
<1> DEFINE t == a4 \o tail
           z == Put(Put(Put(val, n1, v1), n2, v2), n3, v3)
           p == a1 \o a2 \o a3
<1>1. a4 \in Text /\ t \in Text
  BY TextConcat DEF Takes
<1>2. Reader(t, z) ** f4 = Reader(tail, Put(z, n4, v4))
  BY Chain1
<1> HIDE DEF t
<1>3. p \in Text /\ Reader(p \o t, val) ** f1 ** f2 ** f3 = Reader(t, z)
  BY <1>1, Chain3
<1> HIDE DEF p, z
<1>4. p \o a4 \in Text /\ (p \o a4) \o tail = p \o t
  BY <1>1, <1>3, TextConcat, TextAssoc DEF t
<1> QED BY <1>2, <1>3, <1>4 DEF z, p

LEMMA Chain5 ==
    ASSUME NEW tail \in Text, NEW val,
           NEW a1, NEW f1, NEW n1, NEW v1, Takes(a1, f1, n1, v1),
           NEW a2, NEW f2, NEW n2, NEW v2, Takes(a2, f2, n2, v2),
           NEW a3, NEW f3, NEW n3, NEW v3, Takes(a3, f3, n3, v3),
           NEW a4, NEW f4, NEW n4, NEW v4, Takes(a4, f4, n4, v4),
           NEW a5, NEW f5, NEW n5, NEW v5, Takes(a5, f5, n5, v5)
    PROVE  /\ a1 \o a2 \o a3 \o a4 \o a5 \in Text
           /\ Reader((a1 \o a2 \o a3 \o a4 \o a5) \o tail, val) ** f1 ** f2 ** f3 ** f4 ** f5
                 = Reader(tail, Put(Put(Put(Put(Put(val, n1, v1), n2, v2), n3, v3), n4, v4), n5, v5))
<1> DEFINE t == a5 \o tail
           z == Put(Put(Put(Put(val, n1, v1), n2, v2), n3, v3), n4, v4)
           p == a1 \o a2 \o a3 \o a4
<1>1. a5 \in Text /\ t \in Text
  BY TextConcat DEF Takes
<1>2. Reader(t, z) ** f5 = Reader(tail, Put(z, n5, v5))
  BY Chain1
<1> HIDE DEF t
<1>3. p \in Text /\ Reader(p \o t, val) ** f1 ** f2 ** f3 ** f4 = Reader(t, z)
  BY <1>1, Chain4
<1> HIDE DEF p, z
<1>4. p \o a5 \in Text /\ (p \o a5) \o tail = p \o t
  BY <1>1, <1>3, TextConcat, TextAssoc DEF t
<1> QED BY <1>2, <1>3, <1>4 DEF z, p

LEMMA Chain6 ==
    ASSUME NEW tail \in Text, NEW val,
           NEW a1, NEW f1, NEW n1, NEW v1, Takes(a1, f1, n1, v1),
           NEW a2, NEW f2, NEW n2, NEW v2, Takes(a2, f2, n2, v2),
           NEW a3, NEW f3, NEW n3, NEW v3, Takes(a3, f3, n3, v3),
           NEW a4, NEW f4, NEW n4, NEW v4, Takes(a4, f4, n4, v4),
           NEW a5, NEW f5, NEW n5, NEW v5, Takes(a5, f5, n5, v5),
           NEW a6, NEW f6, NEW n6, NEW v6, Takes(a6, f6, n6, v6)
    PROVE  /\ a1 \o a2 \o a3 \o a4 \o a5 \o a6 \in Text
           /\ Reader((a1 \o a2 \o a3 \o a4 \o a5 \o a6) \o tail, val) ** f1 ** f2 ** f3 ** f4 ** f5 ** f6
                 = Reader(tail, Put(Put(Put(Put(Put(Put(val, n1, v1), n2, v2), n3, v3), n4, v4), n5, v5), n6, v6))
<1> DEFINE t == a6 \o tail
           z == Put(Put(Put(Put(Put(val, n1, v1), n2, v2), n3, v3), n4, v4), n5, v5)
           p == a1 \o a2 \o a3 \o a4 \o a5
<1>1. a6 \in Text /\ t \in Text
  BY TextConcat DEF Takes
<1>2. Reader(t, z) ** f6 = Reader(tail, Put(z, n6, v6))
  BY Chain1
<1> HIDE DEF t
<1>3. p \in Text /\ Reader(p \o t, val) ** f1 ** f2 ** f3 ** f4 ** f5 = Reader(t, z)
  BY <1>1, Chain5
<1> HIDE DEF p, z
<1>4. p \o a6 \in Text /\ (p \o a6) \o tail = p \o t
  BY <1>1, <1>3, TextConcat, TextAssoc DEF t
<1> QED BY <1>2, <1>3, <1>4 DEF z, p

----------------------------------------
(* Bodies without lists *)

\* Bytes that fit in a frame.
Short(s) == s \in Text /\ Len(s) <= kMaxFrameBytes

\* r has read everything, and what it has read is the struct q.
Rebuilds(r, q) == \E val : r = Reader(<<>>, val) /\ Put(val, "type", q.type) = q

LEMMA ShortParts ==
    ASSUME NEW a \in Text, NEW b \in Text, Short(a \o b)
    PROVE  Short(a) /\ Short(b)
<1>1. Len(a \o b) = Len(a) + Len(b) /\ Len(a) \in Nat /\ Len(b) \in Nat
  BY TextConcat
<1>2. kMaxFrameBytes \in Nat
  BY CodecAssumption, PowerType
<1> QED BY <1>1, <1>2 DEF Short

LEMMA ShortString ==
    ASSUME NEW s \in Text, Short(AppendString(s))
    PROVE  Len(s) < Power[4] /\ Short(s)
<1>1. Len(AppendString(s)) = 4 + Len(s) /\ Len(s) \in Nat
  BY Strings
<1>2. kMaxFrameBytes \in Nat
  BY CodecAssumption, PowerType
<1>3. Len(s) <= kMaxFrameBytes
  BY <1>1, <1>2 DEF Short
<1> QED BY <1>1, <1>3, SizesFit DEF Short

LEMMA WholeReader ==
    ASSUME NEW val
    PROVE  Whole(Reader(<<>>, val)) = Reader(<<>>, val)
<1> DEFINE r == Reader(<<>>, val)
<1>1. r.ok /\ r.rest = <<>>
  BY Readers
<1> HIDE DEF r
<1>2. Whole(r) = r
  BY <1>1 DEF Whole, Require, consumed
<1> QED BY <1>2 DEF r

\* The types of the encoded fields.
LEMMA Encoded ==
    /\ \A s \in Text : AppendString(s) \in Text
    /\ \A v \in Signed(4) : AppendPartitionId(v) \in Text /\ U32(v) \in Text
    /\ \A v \in Signed(8) : U64(v) \in Text
    /\ \A v \in Unsigned(4) : U32(v) \in Text
    /\ \A v \in Unsigned(8) : U64(v) \in Text
    /\ \A b \in BOOLEAN : U32(IF b THEN 1 ELSE 0) \in Text /\ U8(IF b THEN 1 ELSE 0) \in Text
<1>1. \A v \in Signed(4) : v \in Int
  BY TwosComplement
<1>2. \A v \in Signed(8) : v \in Int
  BY TwosComplement
<1>3. \A w \in 1 .. 8 : \A v \in Unsigned(w) : v \in Int
  BY UnsignedValue
<1>4. \A b \in BOOLEAN : (IF b THEN 1 ELSE 0) \in Int
  OBVIOUS
<1>5. \A w \in 1 .. 8 : \A v \in Int : AppendBigEndian(v, w) \in Text
  BY AppendBigEndianType DEF Text
<1>6. \A s \in Text : AppendString(s) \in Text
  BY Strings
<1>7. \A v \in Int : U32(v) \in Text /\ U64(v) \in Text /\ U8(v) \in Text /\ AppendPartitionId(v) \in Text
  BY <1>5 DEF U32, U64, U8, AppendPartitionId
<1>8. (\A v \in Unsigned(4) : v \in Int) /\ (\A v \in Unsigned(8) : v \in Int)
  BY <1>3
<1> QED BY <1>1, <1>2, <1>4, <1>6, <1>7, <1>8

LEMMA FetchBody ==
    ASSUME NEW q \in [type : {"Fetch"}, topic : Text, partition_id : Signed(4)
                       , offset : Signed(8), max_bytes : Unsigned(4)],
           EncodeFetchBody(q).ok
    PROVE  LET bytes == EncodeFetchBody(q).value
           IN  bytes \in Text /\ (Short(bytes) => Rebuilds(DecodeFetchBody(bytes), q))
<1> DEFINE a == AppendString(q.topic)
           b == AppendPartitionId(q.partition_id)
           c == U64(q.offset)
           d == U32(q.max_bytes)
           bytes == a \o b \o c \o d
           z == <<>>
<1>1. EncodeFetchBody(q).value = bytes
  BY DEF EncodeFetchBody, When, Ok, Err
<1>2. a \in Text /\ b \in Text /\ c \in Text /\ d \in Text
  BY <1>1, Encoded
<1> HIDE DEF a, b, c, d
<1>3. a \o b \in Text /\ a \o b \o c \in Text /\ a \o b \o c \o d \in Text
  BY <1>2, TextConcat
<1>4. SUFFICES ASSUME Short(bytes) PROVE Rebuilds(DecodeFetchBody(bytes), q)
  BY <1>1, <1>3
<1>5. Short(a) /\ Short(b) /\ Short(c) /\ Short(d)
  BY <1>2, <1>3, <1>4, ShortParts
<1>6. Takes(a, Str("topic"), "topic", q.topic)
  <2>a. Len(q.topic) < Power[4]
    BY <1>5, ShortString DEF a
  <2> QED BY <2>a, TakesText DEF a
<1>7. Takes(b, Partition, "partition_id", q.partition_id)
  BY TakesPartition DEF Partition, b
<1>8. Takes(c, OffsetField("offset"), "offset", q.offset)
  BY TakesOffset DEF c
<1>9. Takes(d, Field("max_bytes", "u32"), "max_bytes", q.max_bytes)
  BY TakesUnsigned DEF d
<1> DEFINE val == Put(Put(Put(Put(z, "topic", q.topic), "partition_id", q.partition_id), "offset", q.offset), "max_bytes", q.max_bytes)
<1>10. z \in Text
  BY TextEmpty
<1> HIDE DEF z
<1>11. Reader(bytes \o z, z) ** Str("topic") ** Partition ** OffsetField("offset") ** Field("max_bytes", "u32")
         = Reader(z, val)
  BY <1>6, <1>7, <1>8, <1>9, <1>10, Chain4
<1>12. bytes \o z = bytes
  BY <1>3, ConcatEmptySeq DEF z, Text
<1>13. Put(val, "type", q.type) = q
  BY SMT DEF Put, z
<1> HIDE DEF val, bytes
<1>14. DecodeFetchBody(bytes) = Whole(Reader(z, val))
  BY <1>11, <1>12 DEF DecodeFetchBody, BodyReader, z
<1> QED BY <1>13, <1>14, WholeReader DEF Rebuilds, z

LEMMA MetadataBody ==
    ASSUME NEW q \in [type : {"Metadata"}, topic : Text],
           EncodeMetadataBody(q).ok
    PROVE  LET bytes == EncodeMetadataBody(q).value
           IN  bytes \in Text /\ (Short(bytes) => Rebuilds(DecodeMetadataBody(bytes), q))
<1> DEFINE a == AppendString(q.topic)
           bytes == a
           z == <<>>
<1>1. EncodeMetadataBody(q).value = bytes
  BY DEF EncodeMetadataBody, When, Ok, Err
<1>2. a \in Text
  BY <1>1, Encoded
<1> HIDE DEF a
<1>3. bytes \in Text
  BY <1>2
<1>4. SUFFICES ASSUME Short(bytes) PROVE Rebuilds(DecodeMetadataBody(bytes), q)
  BY <1>1, <1>3
<1>5. Short(a)
  BY <1>4
<1>6. Takes(a, Str("topic"), "topic", q.topic)
  <2>a. Len(q.topic) < Power[4]
    BY <1>5, ShortString DEF a
  <2> QED BY <2>a, TakesText DEF a
<1> DEFINE val == Put(z, "topic", q.topic)
<1>7. z \in Text
  BY TextEmpty
<1> HIDE DEF z
<1>8. Reader(bytes \o z, z) ** Str("topic")
         = Reader(z, val)
  BY <1>6, <1>7, Chain1
<1>9. bytes \o z = bytes
  BY <1>3, ConcatEmptySeq DEF z, Text
<1>10. Put(val, "type", q.type) = q
  BY SMT DEF Put, z
<1> HIDE DEF val, bytes
<1>11. DecodeMetadataBody(bytes) = Whole(Reader(z, val))
  BY <1>8, <1>9 DEF DecodeMetadataBody, BodyReader, z
<1> QED BY <1>10, <1>11, WholeReader DEF Rebuilds, z

LEMMA CreateTopicBody ==
    ASSUME NEW q \in [type : {"CreateTopic"}, topic : Text, partition_count : Unsigned(4)],
           EncodeCreateTopicBody(q).ok
    PROVE  LET bytes == EncodeCreateTopicBody(q).value
           IN  bytes \in Text /\ (Short(bytes) => Rebuilds(DecodeCreateTopicBody(bytes), q))
<1> DEFINE a == AppendString(q.topic)
           b == U32(q.partition_count)
           bytes == a \o b
           z == <<>>
<1>1. EncodeCreateTopicBody(q).value = bytes
  BY DEF EncodeCreateTopicBody, When, Ok, Err
<1>2. a \in Text /\ b \in Text
  BY <1>1, Encoded
<1> HIDE DEF a, b
<1>3. a \o b \in Text
  BY <1>2, TextConcat
<1>4. SUFFICES ASSUME Short(bytes) PROVE Rebuilds(DecodeCreateTopicBody(bytes), q)
  BY <1>1, <1>3
<1>5. Short(a) /\ Short(b)
  BY <1>2, <1>3, <1>4, ShortParts
<1>6. Takes(a, Str("topic"), "topic", q.topic)
  <2>a. Len(q.topic) < Power[4]
    BY <1>5, ShortString DEF a
  <2> QED BY <2>a, TakesText DEF a
<1>7. Takes(b, Field("partition_count", "u32"), "partition_count", q.partition_count)
  BY TakesUnsigned DEF b
<1> DEFINE val == Put(Put(z, "topic", q.topic), "partition_count", q.partition_count)
<1>8. z \in Text
  BY TextEmpty
<1> HIDE DEF z
<1>9. Reader(bytes \o z, z) ** Str("topic") ** Field("partition_count", "u32")
         = Reader(z, val)
  BY <1>6, <1>7, <1>8, Chain2
<1>10. bytes \o z = bytes
  BY <1>3, ConcatEmptySeq DEF z, Text
<1>11. Put(val, "type", q.type) = q
  BY SMT DEF Put, z
<1> HIDE DEF val, bytes
<1>12. DecodeCreateTopicBody(bytes) = Whole(Reader(z, val))
  BY <1>9, <1>10 DEF DecodeCreateTopicBody, BodyReader, z
<1> QED BY <1>11, <1>12, WholeReader DEF Rebuilds, z

LEMMA CommitOffsetBody ==
    ASSUME NEW q \in [type : {"CommitOffset"}, group_id : Text, topic : Text
                       , partition_id : Signed(4), offset : Signed(8)],
           EncodeCommitOffsetBody(q).ok
    PROVE  LET bytes == EncodeCommitOffsetBody(q).value
           IN  bytes \in Text /\ (Short(bytes) => Rebuilds(DecodeCommitOffsetBody(bytes), q))
<1> DEFINE a == AppendString(q.group_id)
           b == AppendString(q.topic)
           c == AppendPartitionId(q.partition_id)
           d == U64(q.offset)
           bytes == a \o b \o c \o d
           z == <<>>
<1>1. EncodeCommitOffsetBody(q).value = bytes
  BY DEF EncodeCommitOffsetBody, When, Ok, Err
<1>2. a \in Text /\ b \in Text /\ c \in Text /\ d \in Text
  BY <1>1, Encoded
<1> HIDE DEF a, b, c, d
<1>3. a \o b \in Text /\ a \o b \o c \in Text /\ a \o b \o c \o d \in Text
  BY <1>2, TextConcat
<1>4. SUFFICES ASSUME Short(bytes) PROVE Rebuilds(DecodeCommitOffsetBody(bytes), q)
  BY <1>1, <1>3
<1>5. Short(a) /\ Short(b) /\ Short(c) /\ Short(d)
  BY <1>2, <1>3, <1>4, ShortParts
<1>6. Takes(a, Str("group_id"), "group_id", q.group_id)
  <2>a. Len(q.group_id) < Power[4]
    BY <1>5, ShortString DEF a
  <2> QED BY <2>a, TakesText DEF a
<1>7. Takes(b, Str("topic"), "topic", q.topic)
  <2>a. Len(q.topic) < Power[4]
    BY <1>5, ShortString DEF b
  <2> QED BY <2>a, TakesText DEF b
<1>8. Takes(c, Partition, "partition_id", q.partition_id)
  BY TakesPartition DEF Partition, c
<1>9. Takes(d, OffsetField("offset"), "offset", q.offset)
  BY TakesOffset DEF d
<1> DEFINE val == Put(Put(Put(Put(z, "group_id", q.group_id), "topic", q.topic), "partition_id", q.partition_id), "offset", q.offset)
<1>10. z \in Text
  BY TextEmpty
<1> HIDE DEF z
<1>11. Reader(bytes \o z, z) ** Str("group_id") ** Str("topic") ** Partition ** OffsetField("offset")
         = Reader(z, val)
  BY <1>6, <1>7, <1>8, <1>9, <1>10, Chain4
<1>12. bytes \o z = bytes
  BY <1>3, ConcatEmptySeq DEF z, Text
<1>13. Put(val, "type", q.type) = q
  BY SMT DEF Put, z
<1> HIDE DEF val, bytes
<1>14. DecodeCommitOffsetBody(bytes) = Whole(Reader(z, val))
  BY <1>11, <1>12 DEF DecodeCommitOffsetBody, BodyReader, z
<1> QED BY <1>13, <1>14, WholeReader DEF Rebuilds, z

LEMMA FetchCommittedOffsetBody ==
    ASSUME NEW q \in [type : {"FetchCommittedOffset"}, group_id : Text, topic : Text
                       , partition_id : Signed(4)],
           EncodeFetchCommittedOffsetBody(q).ok
    PROVE  LET bytes == EncodeFetchCommittedOffsetBody(q).value
           IN  bytes \in Text /\ (Short(bytes) => Rebuilds(DecodeFetchCommittedOffsetBody(bytes), q))
<1> DEFINE a == AppendString(q.group_id)
           b == AppendString(q.topic)
           c == AppendPartitionId(q.partition_id)
           bytes == a \o b \o c
           z == <<>>
<1>1. EncodeFetchCommittedOffsetBody(q).value = bytes
  BY DEF EncodeFetchCommittedOffsetBody, When, Ok, Err
<1>2. a \in Text /\ b \in Text /\ c \in Text
  BY <1>1, Encoded
<1> HIDE DEF a, b, c
<1>3. a \o b \in Text /\ a \o b \o c \in Text
  BY <1>2, TextConcat
<1>4. SUFFICES ASSUME Short(bytes) PROVE Rebuilds(DecodeFetchCommittedOffsetBody(bytes), q)
  BY <1>1, <1>3
<1>5. Short(a) /\ Short(b) /\ Short(c)
  BY <1>2, <1>3, <1>4, ShortParts
<1>6. Takes(a, Str("group_id"), "group_id", q.group_id)
  <2>a. Len(q.group_id) < Power[4]
    BY <1>5, ShortString DEF a
  <2> QED BY <2>a, TakesText DEF a
<1>7. Takes(b, Str("topic"), "topic", q.topic)
  <2>a. Len(q.topic) < Power[4]
    BY <1>5, ShortString DEF b
  <2> QED BY <2>a, TakesText DEF b
<1>8. Takes(c, Partition, "partition_id", q.partition_id)
  BY TakesPartition DEF Partition, c
<1> DEFINE val == Put(Put(Put(z, "group_id", q.group_id), "topic", q.topic), "partition_id", q.partition_id)
<1>9. z \in Text
  BY TextEmpty
<1> HIDE DEF z
<1>10. Reader(bytes \o z, z) ** Str("group_id") ** Str("topic") ** Partition
         = Reader(z, val)
  BY <1>6, <1>7, <1>8, <1>9, Chain3
<1>11. bytes \o z = bytes
  BY <1>3, ConcatEmptySeq DEF z, Text
<1>12. Put(val, "type", q.type) = q
  BY SMT DEF Put, z
<1> HIDE DEF val, bytes
<1>13. DecodeFetchCommittedOffsetBody(bytes) = Whole(Reader(z, val))
  BY <1>10, <1>11 DEF DecodeFetchCommittedOffsetBody, BodyReader, z
<1> QED BY <1>12, <1>13, WholeReader DEF Rebuilds, z

LEMMA JoinGroupBody ==
    ASSUME NEW q \in [type : {"JoinGroup"}, group_id : Text, member_id : Text, topic : Text],
           EncodeJoinGroupBody(q).ok
    PROVE  LET bytes == EncodeJoinGroupBody(q).value
           IN  bytes \in Text /\ (Short(bytes) => Rebuilds(DecodeJoinGroupBody(bytes), q))
<1> DEFINE a == AppendString(q.group_id)
           b == AppendString(q.member_id)
           c == AppendString(q.topic)
           bytes == a \o b \o c
           z == <<>>
<1>1. EncodeJoinGroupBody(q).value = bytes
  BY DEF EncodeJoinGroupBody, When, Ok, Err
<1>2. a \in Text /\ b \in Text /\ c \in Text
  BY <1>1, Encoded
<1> HIDE DEF a, b, c
<1>3. a \o b \in Text /\ a \o b \o c \in Text
  BY <1>2, TextConcat
<1>4. SUFFICES ASSUME Short(bytes) PROVE Rebuilds(DecodeJoinGroupBody(bytes), q)
  BY <1>1, <1>3
<1>5. Short(a) /\ Short(b) /\ Short(c)
  BY <1>2, <1>3, <1>4, ShortParts
<1>6. Takes(a, Str("group_id"), "group_id", q.group_id)
  <2>a. Len(q.group_id) < Power[4]
    BY <1>5, ShortString DEF a
  <2> QED BY <2>a, TakesText DEF a
<1>7. Takes(b, Str("member_id"), "member_id", q.member_id)
  <2>a. Len(q.member_id) < Power[4]
    BY <1>5, ShortString DEF b
  <2> QED BY <2>a, TakesText DEF b
<1>8. Takes(c, Str("topic"), "topic", q.topic)
  <2>a. Len(q.topic) < Power[4]
    BY <1>5, ShortString DEF c
  <2> QED BY <2>a, TakesText DEF c
<1> DEFINE val == Put(Put(Put(z, "group_id", q.group_id), "member_id", q.member_id), "topic", q.topic)
<1>9. z \in Text
  BY TextEmpty
<1> HIDE DEF z
<1>10. Reader(bytes \o z, z) ** Str("group_id") ** Str("member_id") ** Str("topic")
         = Reader(z, val)
  BY <1>6, <1>7, <1>8, <1>9, Chain3
<1>11. bytes \o z = bytes
  BY <1>3, ConcatEmptySeq DEF z, Text
<1>12. Put(val, "type", q.type) = q
  BY SMT DEF Put, z
<1> HIDE DEF val, bytes
<1>13. DecodeJoinGroupBody(bytes) = Whole(Reader(z, val))
  BY <1>10, <1>11 DEF DecodeJoinGroupBody, BodyReader, z
<1> QED BY <1>12, <1>13, WholeReader DEF Rebuilds, z

LEMMA SyncGroupBody ==
    ASSUME NEW q \in [type : {"SyncGroup"}, group_id : Text, member_id : Text
                       , generation_id : Signed(4)],
           EncodeSyncGroupBody(q).ok
    PROVE  LET bytes == EncodeSyncGroupBody(q).value
           IN  bytes \in Text /\ (Short(bytes) => Rebuilds(DecodeSyncGroupBody(bytes), q))
<1> DEFINE a == AppendString(q.group_id)
           b == AppendString(q.member_id)
           c == U32(q.generation_id)
           bytes == a \o b \o c
           z == <<>>
<1>1. EncodeSyncGroupBody(q).value = bytes /\ q.generation_id >= 0
  BY DEF EncodeSyncGroupBody, When, Ok, Err
<1>2. a \in Text /\ b \in Text /\ c \in Text
  BY <1>1, Encoded
<1> HIDE DEF a, b, c
<1>3. a \o b \in Text /\ a \o b \o c \in Text
  BY <1>2, TextConcat
<1>4. SUFFICES ASSUME Short(bytes) PROVE Rebuilds(DecodeSyncGroupBody(bytes), q)
  BY <1>1, <1>3
<1>5. Short(a) /\ Short(b) /\ Short(c)
  BY <1>2, <1>3, <1>4, ShortParts
<1>6. Takes(a, Str("group_id"), "group_id", q.group_id)
  <2>a. Len(q.group_id) < Power[4]
    BY <1>5, ShortString DEF a
  <2> QED BY <2>a, TakesText DEF a
<1>7. Takes(b, Str("member_id"), "member_id", q.member_id)
  <2>a. Len(q.member_id) < Power[4]
    BY <1>5, ShortString DEF b
  <2> QED BY <2>a, TakesText DEF b
<1>8. Takes(c, Generation, "generation_id", q.generation_id)
  BY <1>1, TakesGeneration DEF c
<1> DEFINE val == Put(Put(Put(z, "group_id", q.group_id), "member_id", q.member_id), "generation_id", q.generation_id)
<1>9. z \in Text
  BY TextEmpty
<1> HIDE DEF z
<1>10. Reader(bytes \o z, z) ** Str("group_id") ** Str("member_id") ** Generation
         = Reader(z, val)
  BY <1>6, <1>7, <1>8, <1>9, Chain3
<1>11. bytes \o z = bytes
  BY <1>3, ConcatEmptySeq DEF z, Text
<1>12. Put(val, "type", q.type) = q
  BY SMT DEF Put, z
<1> HIDE DEF val, bytes
<1>13. DecodeSyncGroupBody(bytes) = Whole(Reader(z, val))
  BY <1>10, <1>11 DEF DecodeSyncGroupBody, BodyReader, z
<1> QED BY <1>12, <1>13, WholeReader DEF Rebuilds, z

LEMMA HeartbeatBody ==
    ASSUME NEW q \in [type : {"Heartbeat"}, group_id : Text, member_id : Text
                       , generation_id : Signed(4)],
           EncodeHeartbeatBody(q).ok
    PROVE  LET bytes == EncodeHeartbeatBody(q).value
           IN  bytes \in Text /\ (Short(bytes) => Rebuilds(DecodeHeartbeatBody(bytes), q))
<1> DEFINE a == AppendString(q.group_id)
           b == AppendString(q.member_id)
           c == U32(q.generation_id)
           bytes == a \o b \o c
           z == <<>>
<1>1. EncodeHeartbeatBody(q).value = bytes /\ q.generation_id >= 0
  BY DEF EncodeHeartbeatBody, When, Ok, Err
<1>2. a \in Text /\ b \in Text /\ c \in Text
  BY <1>1, Encoded
<1> HIDE DEF a, b, c
<1>3. a \o b \in Text /\ a \o b \o c \in Text
  BY <1>2, TextConcat
<1>4. SUFFICES ASSUME Short(bytes) PROVE Rebuilds(DecodeHeartbeatBody(bytes), q)
  BY <1>1, <1>3
<1>5. Short(a) /\ Short(b) /\ Short(c)
  BY <1>2, <1>3, <1>4, ShortParts
<1>6. Takes(a, Str("group_id"), "group_id", q.group_id)
  <2>a. Len(q.group_id) < Power[4]
    BY <1>5, ShortString DEF a
  <2> QED BY <2>a, TakesText DEF a
<1>7. Takes(b, Str("member_id"), "member_id", q.member_id)
  <2>a. Len(q.member_id) < Power[4]
    BY <1>5, ShortString DEF b
  <2> QED BY <2>a, TakesText DEF b
<1>8. Takes(c, Generation, "generation_id", q.generation_id)
  BY <1>1, TakesGeneration DEF c
<1> DEFINE val == Put(Put(Put(z, "group_id", q.group_id), "member_id", q.member_id), "generation_id", q.generation_id)
<1>9. z \in Text
  BY TextEmpty
<1> HIDE DEF z
<1>10. Reader(bytes \o z, z) ** Str("group_id") ** Str("member_id") ** Generation
         = Reader(z, val)
  BY <1>6, <1>7, <1>8, <1>9, Chain3
<1>11. bytes \o z = bytes
  BY <1>3, ConcatEmptySeq DEF z, Text
<1>12. Put(val, "type", q.type) = q
  BY SMT DEF Put, z
<1> HIDE DEF val, bytes
<1>13. DecodeHeartbeatBody(bytes) = Whole(Reader(z, val))
  BY <1>10, <1>11 DEF DecodeHeartbeatBody, BodyReader, z
<1> QED BY <1>12, <1>13, WholeReader DEF Rebuilds, z

LEMMA LeaveGroupBody ==
    ASSUME NEW q \in [type : {"LeaveGroup"}, group_id : Text, member_id : Text],
           EncodeLeaveGroupBody(q).ok
    PROVE  LET bytes == EncodeLeaveGroupBody(q).value
           IN  bytes \in Text /\ (Short(bytes) => Rebuilds(DecodeLeaveGroupBody(bytes), q))
<1> DEFINE a == AppendString(q.group_id)
           b == AppendString(q.member_id)
           bytes == a \o b
           z == <<>>
<1>1. EncodeLeaveGroupBody(q).value = bytes
  BY DEF EncodeLeaveGroupBody, When, Ok, Err
<1>2. a \in Text /\ b \in Text
  BY <1>1, Encoded
<1> HIDE DEF a, b
<1>3. a \o b \in Text
  BY <1>2, TextConcat
<1>4. SUFFICES ASSUME Short(bytes) PROVE Rebuilds(DecodeLeaveGroupBody(bytes), q)
  BY <1>1, <1>3
<1>5. Short(a) /\ Short(b)
  BY <1>2, <1>3, <1>4, ShortParts
<1>6. Takes(a, Str("group_id"), "group_id", q.group_id)
  <2>a. Len(q.group_id) < Power[4]
    BY <1>5, ShortString DEF a
  <2> QED BY <2>a, TakesText DEF a
<1>7. Takes(b, Str("member_id"), "member_id", q.member_id)
  <2>a. Len(q.member_id) < Power[4]
    BY <1>5, ShortString DEF b
  <2> QED BY <2>a, TakesText DEF b
<1> DEFINE val == Put(Put(z, "group_id", q.group_id), "member_id", q.member_id)
<1>8. z \in Text
  BY TextEmpty
<1> HIDE DEF z
<1>9. Reader(bytes \o z, z) ** Str("group_id") ** Str("member_id")
         = Reader(z, val)
  BY <1>6, <1>7, <1>8, Chain2
<1>10. bytes \o z = bytes
  BY <1>3, ConcatEmptySeq DEF z, Text
<1>11. Put(val, "type", q.type) = q
  BY SMT DEF Put, z
<1> HIDE DEF val, bytes
<1>12. DecodeLeaveGroupBody(bytes) = Whole(Reader(z, val))
  BY <1>9, <1>10 DEF DecodeLeaveGroupBody, BodyReader, z
<1> QED BY <1>11, <1>12, WholeReader DEF Rebuilds, z

LEMMA NackBody ==
    ASSUME NEW q \in [type : {"Nack"}, topic : Text, partition_id : Signed(4)
                       , offset : Signed(8), reason : Text],
           EncodeNackBody(q).ok
    PROVE  LET bytes == EncodeNackBody(q).value
           IN  bytes \in Text /\ (Short(bytes) => Rebuilds(DecodeNackBody(bytes), q))
<1> DEFINE a == AppendString(q.topic)
           b == AppendPartitionId(q.partition_id)
           c == U64(q.offset)
           d == AppendString(q.reason)
           bytes == a \o b \o c \o d
           z == <<>>
<1>1. EncodeNackBody(q).value = bytes /\ NackValid(q)
  BY DEF EncodeNackBody, When, Ok, Err
<1>2. a \in Text /\ b \in Text /\ c \in Text /\ d \in Text
  BY <1>1, Encoded
<1> HIDE DEF a, b, c, d
<1>3. a \o b \in Text /\ a \o b \o c \in Text /\ a \o b \o c \o d \in Text
  BY <1>2, TextConcat
<1>4. SUFFICES ASSUME Short(bytes) PROVE Rebuilds(DecodeNackBody(bytes), q)
  BY <1>1, <1>3
<1>5. Short(a) /\ Short(b) /\ Short(c) /\ Short(d)
  BY <1>2, <1>3, <1>4, ShortParts
<1>6. Takes(a, Str("topic"), "topic", q.topic)
  <2>a. Len(q.topic) < Power[4]
    BY <1>5, ShortString DEF a
  <2> QED BY <2>a, TakesText DEF a
<1>7. Takes(b, Partition, "partition_id", q.partition_id)
  BY TakesPartition DEF Partition, b
<1>8. Takes(c, OffsetField("offset"), "offset", q.offset)
  BY TakesOffset DEF c
<1>9. Takes(d, Str("reason"), "reason", q.reason)
  <2>a. Len(q.reason) < Power[4]
    BY <1>5, ShortString DEF d
  <2> QED BY <2>a, TakesText DEF d
<1> DEFINE val == Put(Put(Put(Put(z, "topic", q.topic), "partition_id", q.partition_id), "offset", q.offset), "reason", q.reason)
<1>10. z \in Text
  BY TextEmpty
<1> HIDE DEF z
<1>11. Reader(bytes \o z, z) ** Str("topic") ** Partition ** OffsetField("offset") ** Str("reason")
         = Reader(z, val)
  BY <1>6, <1>7, <1>8, <1>9, <1>10, Chain4
<1>12. bytes \o z = bytes
  BY <1>3, ConcatEmptySeq DEF z, Text
<1>13. Put(val, "type", q.type) = q
  BY SMT DEF Put, z
<1> HIDE DEF val, bytes
<1>14. DecodeNackBody(bytes) = Require(Whole(Reader(z, val)), LAMBDA r : NackValid(r.val))
  BY <1>11, <1>12 DEF DecodeNackBody, BodyReader, z
<1>15. Whole(Reader(z, val)) = Reader(z, val)
  BY WholeReader DEF z
<1>16. NackValid(val)
  BY <1>1 DEF NackValid, val, Put, z
<1>17. DecodeNackBody(bytes) = Reader(z, val)
  <2> DEFINE r == Reader(z, val)
  <2>a. r.ok /\ r.val = val
    BY AllReaders
  <2> HIDE DEF r
  <2>b. DecodeNackBody(bytes) = Require(r, LAMBDA x : NackValid(x.val))
    BY <1>14, <1>15 DEF r
  <2>c. DecodeNackBody(bytes) = r
    BY <1>16, <2>a, <2>b DEF Require
  <2> QED BY <2>c DEF r
<1> QED BY <1>13, <1>17 DEF Rebuilds, z

LEMMA ProduceResponseBody ==
    ASSUME NEW q \in [type : {"Produce"}, partition_id : Signed(4), base_offset : Signed(8)
                       , record_count : Unsigned(4)],
           EncodeProduceResponseBody(q).ok
    PROVE  LET bytes == EncodeProduceResponseBody(q).value
           IN  bytes \in Text /\ (Short(bytes) => Rebuilds(DecodeProduceResponseBody(Reader(bytes, <<>>)), q))
<1> DEFINE a == AppendPartitionId(q.partition_id)
           b == U64(q.base_offset)
           c == U32(q.record_count)
           bytes == a \o b \o c
           z == <<>>
<1>1. EncodeProduceResponseBody(q).value = bytes
  BY DEF EncodeProduceResponseBody, When, Ok, Err
<1>2. a \in Text /\ b \in Text /\ c \in Text
  BY <1>1, Encoded
<1> HIDE DEF a, b, c
<1>3. a \o b \in Text /\ a \o b \o c \in Text
  BY <1>2, TextConcat
<1>4. SUFFICES ASSUME Short(bytes) PROVE Rebuilds(DecodeProduceResponseBody(Reader(bytes, <<>>)), q)
  BY <1>1, <1>3
<1>5. Short(a) /\ Short(b) /\ Short(c)
  BY <1>2, <1>3, <1>4, ShortParts
<1>6. Takes(a, Partition, "partition_id", q.partition_id)
  BY TakesPartition DEF Partition, a
<1>7. Takes(b, OffsetField("base_offset"), "base_offset", q.base_offset)
  BY TakesOffset DEF b
<1>8. Takes(c, Field("record_count", "u32"), "record_count", q.record_count)
  BY TakesUnsigned DEF c
<1> DEFINE val == Put(Put(Put(z, "partition_id", q.partition_id), "base_offset", q.base_offset), "record_count", q.record_count)
<1>9. z \in Text
  BY TextEmpty
<1> HIDE DEF z
<1>10. Reader(bytes \o z, z) ** Partition ** OffsetField("base_offset") ** Field("record_count", "u32")
         = Reader(z, val)
  BY <1>6, <1>7, <1>8, <1>9, Chain3
<1>11. bytes \o z = bytes
  BY <1>3, ConcatEmptySeq DEF z, Text
<1>12. Put(val, "type", q.type) = q
  BY SMT DEF Put, z
<1> HIDE DEF val, bytes
<1>13. DecodeProduceResponseBody(Reader(bytes, z)) = Reader(z, val)
  BY <1>10, <1>11 DEF DecodeProduceResponseBody
<1> QED BY <1>12, <1>13 DEF Rebuilds, z

LEMMA CreateTopicResponseBody ==
    ASSUME NEW q \in [type : {"CreateTopic"}, topic : Text, partition_count : Unsigned(4)],
           EncodeCreateTopicResponseBody(q).ok
    PROVE  LET bytes == EncodeCreateTopicResponseBody(q).value
           IN  bytes \in Text /\ (Short(bytes) => Rebuilds(DecodeCreateTopicResponseBody(Reader(bytes, <<>>)), q))
<1> DEFINE a == AppendString(q.topic)
           b == U32(q.partition_count)
           bytes == a \o b
           z == <<>>
<1>1. EncodeCreateTopicResponseBody(q).value = bytes
  BY DEF EncodeCreateTopicResponseBody, When, Ok, Err
<1>2. a \in Text /\ b \in Text
  BY <1>1, Encoded
<1> HIDE DEF a, b
<1>3. a \o b \in Text
  BY <1>2, TextConcat
<1>4. SUFFICES ASSUME Short(bytes) PROVE Rebuilds(DecodeCreateTopicResponseBody(Reader(bytes, <<>>)), q)
  BY <1>1, <1>3
<1>5. Short(a) /\ Short(b)
  BY <1>2, <1>3, <1>4, ShortParts
<1>6. Takes(a, Str("topic"), "topic", q.topic)
  <2>a. Len(q.topic) < Power[4]
    BY <1>5, ShortString DEF a
  <2> QED BY <2>a, TakesText DEF a
<1>7. Takes(b, Field("partition_count", "u32"), "partition_count", q.partition_count)
  BY TakesUnsigned DEF b
<1> DEFINE val == Put(Put(z, "topic", q.topic), "partition_count", q.partition_count)
<1>8. z \in Text
  BY TextEmpty
<1> HIDE DEF z
<1>9. Reader(bytes \o z, z) ** Str("topic") ** Field("partition_count", "u32")
         = Reader(z, val)
  BY <1>6, <1>7, <1>8, Chain2
<1>10. bytes \o z = bytes
  BY <1>3, ConcatEmptySeq DEF z, Text
<1>11. Put(val, "type", q.type) = q
  BY SMT DEF Put, z
<1> HIDE DEF val, bytes
<1>12. DecodeCreateTopicResponseBody(Reader(bytes, z)) = Reader(z, val)
  BY <1>9, <1>10 DEF DecodeCreateTopicResponseBody
<1> QED BY <1>11, <1>12 DEF Rebuilds, z

LEMMA CommitOffsetResponseBody ==
    ASSUME NEW q \in [type : {"CommitOffset"}, group_id : Text, topic : Text
                       , partition_id : Signed(4), offset : Signed(8)],
           EncodeCommitOffsetResponseBody(q).ok
    PROVE  LET bytes == EncodeCommitOffsetResponseBody(q).value
           IN  bytes \in Text /\ (Short(bytes) => Rebuilds(DecodeCommitOffsetResponseBody(Reader(bytes, <<>>)), q))
<1> DEFINE a == AppendString(q.group_id)
           b == AppendString(q.topic)
           c == AppendPartitionId(q.partition_id)
           d == U64(q.offset)
           bytes == a \o b \o c \o d
           z == <<>>
<1>1. EncodeCommitOffsetResponseBody(q).value = bytes
  BY DEF EncodeCommitOffsetResponseBody, When, Ok, Err
<1>2. a \in Text /\ b \in Text /\ c \in Text /\ d \in Text
  BY <1>1, Encoded
<1> HIDE DEF a, b, c, d
<1>3. a \o b \in Text /\ a \o b \o c \in Text /\ a \o b \o c \o d \in Text
  BY <1>2, TextConcat
<1>4. SUFFICES ASSUME Short(bytes) PROVE Rebuilds(DecodeCommitOffsetResponseBody(Reader(bytes, <<>>)), q)
  BY <1>1, <1>3
<1>5. Short(a) /\ Short(b) /\ Short(c) /\ Short(d)
  BY <1>2, <1>3, <1>4, ShortParts
<1>6. Takes(a, Str("group_id"), "group_id", q.group_id)
  <2>a. Len(q.group_id) < Power[4]
    BY <1>5, ShortString DEF a
  <2> QED BY <2>a, TakesText DEF a
<1>7. Takes(b, Str("topic"), "topic", q.topic)
  <2>a. Len(q.topic) < Power[4]
    BY <1>5, ShortString DEF b
  <2> QED BY <2>a, TakesText DEF b
<1>8. Takes(c, Partition, "partition_id", q.partition_id)
  BY TakesPartition DEF Partition, c
<1>9. Takes(d, OffsetField("offset"), "offset", q.offset)
  BY TakesOffset DEF d
<1> DEFINE val == Put(Put(Put(Put(z, "group_id", q.group_id), "topic", q.topic), "partition_id", q.partition_id), "offset", q.offset)
<1>10. z \in Text
  BY TextEmpty
<1> HIDE DEF z
<1>11. Reader(bytes \o z, z) ** Str("group_id") ** Str("topic") ** Partition ** OffsetField("offset")
         = Reader(z, val)
  BY <1>6, <1>7, <1>8, <1>9, <1>10, Chain4
<1>12. bytes \o z = bytes
  BY <1>3, ConcatEmptySeq DEF z, Text
<1>13. Put(val, "type", q.type) = q
  BY SMT DEF Put, z
<1> HIDE DEF val, bytes
<1>14. DecodeCommitOffsetResponseBody(Reader(bytes, z)) = Reader(z, val)
  BY <1>11, <1>12 DEF DecodeCommitOffsetResponseBody
<1> QED BY <1>13, <1>14 DEF Rebuilds, z

LEMMA FetchCommittedOffsetResponseBody ==
    ASSUME NEW q \in [type : {"FetchCommittedOffset"}, group_id : Text, topic : Text
                       , partition_id : Signed(4), committed : BOOLEAN, offset : Signed(8)],
           EncodeFetchCommittedOffsetResponseBody(q).ok
    PROVE  LET bytes == EncodeFetchCommittedOffsetResponseBody(q).value
           IN  bytes \in Text /\ (Short(bytes) => Rebuilds(DecodeFetchCommittedOffsetResponseBody(Reader(bytes, <<>>)), q))
<1> DEFINE a == AppendString(q.group_id)
           b == AppendString(q.topic)
           c == AppendPartitionId(q.partition_id)
           d == U32(IF q.committed THEN 1 ELSE 0)
           e == U64(q.offset)
           bytes == a \o b \o c \o d \o e
           z == <<>>
<1>1. EncodeFetchCommittedOffsetResponseBody(q).value = bytes
  BY DEF EncodeFetchCommittedOffsetResponseBody, When, Ok, Err
<1>2. a \in Text /\ b \in Text /\ c \in Text /\ d \in Text /\ e \in Text
  BY <1>1, Encoded
<1> HIDE DEF a, b, c, d, e
<1>3. a \o b \in Text /\ a \o b \o c \in Text /\ a \o b \o c \o d \in Text /\ a \o b \o c \o d \o e \in Text
  BY <1>2, TextConcat
<1>4. SUFFICES ASSUME Short(bytes) PROVE Rebuilds(DecodeFetchCommittedOffsetResponseBody(Reader(bytes, <<>>)), q)
  BY <1>1, <1>3
<1>5. Short(a) /\ Short(b) /\ Short(c) /\ Short(d) /\ Short(e)
  BY <1>2, <1>3, <1>4, ShortParts
<1>6. Takes(a, Str("group_id"), "group_id", q.group_id)
  <2>a. Len(q.group_id) < Power[4]
    BY <1>5, ShortString DEF a
  <2> QED BY <2>a, TakesText DEF a
<1>7. Takes(b, Str("topic"), "topic", q.topic)
  <2>a. Len(q.topic) < Power[4]
    BY <1>5, ShortString DEF b
  <2> QED BY <2>a, TakesText DEF b
<1>8. Takes(c, Partition, "partition_id", q.partition_id)
  BY TakesPartition DEF Partition, c
<1>9. Takes(d, Field("committed", "bool32"), "committed", q.committed)
  BY TakesFlag DEF d
<1>10. Takes(e, OffsetField("offset"), "offset", q.offset)
  BY TakesOffset DEF e
<1> DEFINE val == Put(Put(Put(Put(Put(z, "group_id", q.group_id), "topic", q.topic), "partition_id", q.partition_id), "committed", q.committed), "offset", q.offset)
<1>11. z \in Text
  BY TextEmpty
<1> HIDE DEF z
<1>12. Reader(bytes \o z, z) ** Str("group_id") ** Str("topic") ** Partition ** Field("committed", "bool32") ** OffsetField("offset")
         = Reader(z, val)
  BY <1>6, <1>7, <1>8, <1>9, <1>10, <1>11, Chain5
<1>13. bytes \o z = bytes
  BY <1>3, ConcatEmptySeq DEF z, Text
<1>14. Put(val, "type", q.type) = q
  BY SMT DEF Put, z
<1> HIDE DEF val, bytes
<1>15. DecodeFetchCommittedOffsetResponseBody(Reader(bytes, z)) = Reader(z, val)
  BY <1>12, <1>13 DEF DecodeFetchCommittedOffsetResponseBody
<1> QED BY <1>14, <1>15 DEF Rebuilds, z

LEMMA JoinGroupResponseBody ==
    ASSUME NEW q \in [type : {"JoinGroup"}, group_id : Text, member_id : Text
                       , generation_id : Signed(4), leader_id : Text],
           EncodeJoinGroupResponseBody(q).ok
    PROVE  LET bytes == EncodeJoinGroupResponseBody(q).value
           IN  bytes \in Text /\ (Short(bytes) => Rebuilds(DecodeJoinGroupResponseBody(Reader(bytes, <<>>)), q))
<1> DEFINE a == AppendString(q.group_id)
           b == AppendString(q.member_id)
           c == U32(q.generation_id)
           d == AppendString(q.leader_id)
           bytes == a \o b \o c \o d
           z == <<>>
<1>1. EncodeJoinGroupResponseBody(q).value = bytes /\ q.generation_id >= 0
  BY DEF EncodeJoinGroupResponseBody, When, Ok, Err
<1>2. a \in Text /\ b \in Text /\ c \in Text /\ d \in Text
  BY <1>1, Encoded
<1> HIDE DEF a, b, c, d
<1>3. a \o b \in Text /\ a \o b \o c \in Text /\ a \o b \o c \o d \in Text
  BY <1>2, TextConcat
<1>4. SUFFICES ASSUME Short(bytes) PROVE Rebuilds(DecodeJoinGroupResponseBody(Reader(bytes, <<>>)), q)
  BY <1>1, <1>3
<1>5. Short(a) /\ Short(b) /\ Short(c) /\ Short(d)
  BY <1>2, <1>3, <1>4, ShortParts
<1>6. Takes(a, Str("group_id"), "group_id", q.group_id)
  <2>a. Len(q.group_id) < Power[4]
    BY <1>5, ShortString DEF a
  <2> QED BY <2>a, TakesText DEF a
<1>7. Takes(b, Str("member_id"), "member_id", q.member_id)
  <2>a. Len(q.member_id) < Power[4]
    BY <1>5, ShortString DEF b
  <2> QED BY <2>a, TakesText DEF b
<1>8. Takes(c, Generation, "generation_id", q.generation_id)
  BY <1>1, TakesGeneration DEF c
<1>9. Takes(d, Str("leader_id"), "leader_id", q.leader_id)
  <2>a. Len(q.leader_id) < Power[4]
    BY <1>5, ShortString DEF d
  <2> QED BY <2>a, TakesText DEF d
<1> DEFINE val == Put(Put(Put(Put(z, "group_id", q.group_id), "member_id", q.member_id), "generation_id", q.generation_id), "leader_id", q.leader_id)
<1>10. z \in Text
  BY TextEmpty
<1> HIDE DEF z
<1>11. Reader(bytes \o z, z) ** Str("group_id") ** Str("member_id") ** Generation ** Str("leader_id")
         = Reader(z, val)
  BY <1>6, <1>7, <1>8, <1>9, <1>10, Chain4
<1>12. bytes \o z = bytes
  BY <1>3, ConcatEmptySeq DEF z, Text
<1>13. Put(val, "type", q.type) = q
  BY SMT DEF Put, z
<1> HIDE DEF val, bytes
<1>14. DecodeJoinGroupResponseBody(Reader(bytes, z)) = Reader(z, val)
  BY <1>11, <1>12 DEF DecodeJoinGroupResponseBody
<1> QED BY <1>13, <1>14 DEF Rebuilds, z

LEMMA HeartbeatResponseBody ==
    ASSUME NEW q \in [type : {"Heartbeat"}, group_id : Text, member_id : Text
                       , generation_id : Signed(4)],
           EncodeHeartbeatResponseBody(q).ok
    PROVE  LET bytes == EncodeHeartbeatResponseBody(q).value
           IN  bytes \in Text /\ (Short(bytes) => Rebuilds(DecodeHeartbeatResponseBody(Reader(bytes, <<>>)), q))
<1> DEFINE a == AppendString(q.group_id)
           b == AppendString(q.member_id)
           c == U32(q.generation_id)
           bytes == a \o b \o c
           z == <<>>
<1>1. EncodeHeartbeatResponseBody(q).value = bytes /\ q.generation_id >= 0
  BY DEF EncodeHeartbeatResponseBody, When, Ok, Err
<1>2. a \in Text /\ b \in Text /\ c \in Text
  BY <1>1, Encoded
<1> HIDE DEF a, b, c
<1>3. a \o b \in Text /\ a \o b \o c \in Text
  BY <1>2, TextConcat
<1>4. SUFFICES ASSUME Short(bytes) PROVE Rebuilds(DecodeHeartbeatResponseBody(Reader(bytes, <<>>)), q)
  BY <1>1, <1>3
<1>5. Short(a) /\ Short(b) /\ Short(c)
  BY <1>2, <1>3, <1>4, ShortParts
<1>6. Takes(a, Str("group_id"), "group_id", q.group_id)
  <2>a. Len(q.group_id) < Power[4]
    BY <1>5, ShortString DEF a
  <2> QED BY <2>a, TakesText DEF a
<1>7. Takes(b, Str("member_id"), "member_id", q.member_id)
  <2>a. Len(q.member_id) < Power[4]
    BY <1>5, ShortString DEF b
  <2> QED BY <2>a, TakesText DEF b
<1>8. Takes(c, Generation, "generation_id", q.generation_id)
  BY <1>1, TakesGeneration DEF c
<1> DEFINE val == Put(Put(Put(z, "group_id", q.group_id), "member_id", q.member_id), "generation_id", q.generation_id)
<1>9. z \in Text
  BY TextEmpty
<1> HIDE DEF z
<1>10. Reader(bytes \o z, z) ** Str("group_id") ** Str("member_id") ** Generation
         = Reader(z, val)
  BY <1>6, <1>7, <1>8, <1>9, Chain3
<1>11. bytes \o z = bytes
  BY <1>3, ConcatEmptySeq DEF z, Text
<1>12. Put(val, "type", q.type) = q
  BY SMT DEF Put, z
<1> HIDE DEF val, bytes
<1>13. DecodeHeartbeatResponseBody(Reader(bytes, z)) = Reader(z, val)
  BY <1>10, <1>11 DEF DecodeHeartbeatResponseBody
<1> QED BY <1>12, <1>13 DEF Rebuilds, z

LEMMA LeaveGroupResponseBody ==
    ASSUME NEW q \in [type : {"LeaveGroup"}, group_id : Text, member_id : Text
                       , generation_id : Signed(4)],
           EncodeLeaveGroupResponseBody(q).ok
    PROVE  LET bytes == EncodeLeaveGroupResponseBody(q).value
           IN  bytes \in Text /\ (Short(bytes) => Rebuilds(DecodeLeaveGroupResponseBody(Reader(bytes, <<>>)), q))
<1> DEFINE a == AppendString(q.group_id)
           b == AppendString(q.member_id)
           c == U32(q.generation_id)
           bytes == a \o b \o c
           z == <<>>
<1>1. EncodeLeaveGroupResponseBody(q).value = bytes /\ q.generation_id >= 0
  BY DEF EncodeLeaveGroupResponseBody, When, Ok, Err
<1>2. a \in Text /\ b \in Text /\ c \in Text
  BY <1>1, Encoded
<1> HIDE DEF a, b, c
<1>3. a \o b \in Text /\ a \o b \o c \in Text
  BY <1>2, TextConcat
<1>4. SUFFICES ASSUME Short(bytes) PROVE Rebuilds(DecodeLeaveGroupResponseBody(Reader(bytes, <<>>)), q)
  BY <1>1, <1>3
<1>5. Short(a) /\ Short(b) /\ Short(c)
  BY <1>2, <1>3, <1>4, ShortParts
<1>6. Takes(a, Str("group_id"), "group_id", q.group_id)
  <2>a. Len(q.group_id) < Power[4]
    BY <1>5, ShortString DEF a
  <2> QED BY <2>a, TakesText DEF a
<1>7. Takes(b, Str("member_id"), "member_id", q.member_id)
  <2>a. Len(q.member_id) < Power[4]
    BY <1>5, ShortString DEF b
  <2> QED BY <2>a, TakesText DEF b
<1>8. Takes(c, Generation, "generation_id", q.generation_id)
  BY <1>1, TakesGeneration DEF c
<1> DEFINE val == Put(Put(Put(z, "group_id", q.group_id), "member_id", q.member_id), "generation_id", q.generation_id)
<1>9. z \in Text
  BY TextEmpty
<1> HIDE DEF z
<1>10. Reader(bytes \o z, z) ** Str("group_id") ** Str("member_id") ** Generation
         = Reader(z, val)
  BY <1>6, <1>7, <1>8, <1>9, Chain3
<1>11. bytes \o z = bytes
  BY <1>3, ConcatEmptySeq DEF z, Text
<1>12. Put(val, "type", q.type) = q
  BY SMT DEF Put, z
<1> HIDE DEF val, bytes
<1>13. DecodeLeaveGroupResponseBody(Reader(bytes, z)) = Reader(z, val)
  BY <1>10, <1>11 DEF DecodeLeaveGroupResponseBody
<1> QED BY <1>12, <1>13 DEF Rebuilds, z

----------------------------------------
(* Lists *)

\* h[i] is the concatenation of the first i of the sequences b.
Flattens(b) ==
    \E h : /\ h[1] = b[1]
           /\ \A i \in 2 .. Len(b) : h[i] = h[i - 1] \o b[i]
           /\ FlattenSeq(b) = h[Len(b)]

\* The recursion of FlattenSeq has a solution.
LEMMA FlattenDef ==
    ASSUME NEW b \in Seq(Text), Len(b) # 0
    PROVE  Flattens(b)
<1> DEFINE n == Len(b)
           join(x, i) == x \o b[i]
           P(g, m) == g = [i \in 1 .. m |-> IF i = 1 THEN b[i] ELSE join(g[i - 1], i)]
           S == {m \in Nat : \E g : P(g, m)}
           Q(g) == P(g, n)
<1>0. n \in Nat /\ n >= 1
  BY LenProperties
<1>4. FlattenSeq(b) = (CHOOSE g : Q(g))[n]
  BY DEF FlattenSeq
<1> HIDE DEF n, join
<1>1. 0 \in S
  <2>a. P([i \in 1 .. 0 |-> b[1]], 0)
    OBVIOUS
  <2> QED BY <2>a
<1>2. ASSUME NEW m \in 0 .. n - 1, m \in S PROVE m + 1 \in S
  <2>a. PICK g : P(g, m)
    BY <1>2
  <2> DEFINE h == [i \in 1 .. m + 1 |-> IF i = m + 1 THEN IF i = 1 THEN b[i] ELSE join(g[m], i)
                                        ELSE g[i]]
  <2>b. P(h, m + 1)
    BY <2>a, <1>0
  <2>c. m + 1 \in Nat
    BY <1>0
  <2> HIDE DEF P, h
  <2> QED BY <2>b, <2>c
<1>3. n \in S
  <2>a. n \in 0 .. n
    BY <1>0
  <2> HIDE DEF S
  <2> QED BY <1>0, <1>1, <1>2, <2>a, InductionUpTo
<1>5. \E g : Q(g)
  BY <1>3
<1> HIDE DEF Q
<1>6. PICK g : Q(g) /\ FlattenSeq(b) = g[n]
  BY <1>4, <1>5, Zenon
<1>7. g[1] = b[1] /\ \A i \in 2 .. n : g[i] = join(g[i - 1], i)
  BY <1>0, <1>6 DEF Q
<1> QED BY <1>6, <1>7 DEF n, join, Flattens

\* The bytes of a list are those of its items, one after the other.
LEMMA FlattenCut ==
    ASSUME NEW b \in Seq(Text)
    PROVE  Cut(FlattenSeq(b), b, 0, Len(b), <<>>)
<1>0. Len(b) \in Nat /\ \A i \in 1 .. Len(b) : b[i] \in Text
  BY LenProperties
<1>1. CASE Len(b) = 0
  <2>a. FlattenSeq(b) = <<>>
    BY <1>1, EmptySeq DEF FlattenSeq
  <2> QED BY <1>1, <2>a, CutNone, TextEmpty
<1>2. CASE Len(b) # 0
  <2>z. Flattens(b)
    BY <1>2, FlattenDef
  <2>a. PICK h : /\ h[1] = b[1]
                 /\ \A i \in 2 .. Len(b) : h[i] = h[i - 1] \o b[i]
                 /\ FlattenSeq(b) = h[Len(b)]
    BY <2>z DEF Flattens
  <2> DEFINE n == Len(b)
             S == {m \in 0 .. n : m = 0 \/ Cut(h[m], b, 0, m, <<>>)}
  <2> HIDE DEF n
  <2>b. n \in Nat /\ n >= 1
    BY <1>0, <1>2 DEF n
  <2>c. 0 \in S
    BY <2>b
  <2>d. ASSUME NEW m \in 0 .. n - 1, m \in S PROVE m + 1 \in S
    <3>1. m + 1 \in 0 .. n /\ m + 1 \in 1 .. n /\ m \in Nat /\ 0 <= m
      BY <2>b
    <3>2. /\ \A k \in 0 + 1 .. m : b[k] \in Text
          /\ b[m + 1] \in Text
      <4>1. \A k \in 0 + 1 .. m : k \in 1 .. n
        BY <2>b, <3>1
      <4> QED BY <1>0, <3>1, <4>1 DEF n
    <3>3. CASE m = 0
      <4>1. <<>> \o b[1] = b[1]
        BY <3>2, <3>3, ConcatEmptySeq DEF Text
      <4>2. Cut(<<>> \o b[m + 1], b, 0, m + 1, <<>>)
        <5>1. Cut(<<>>, b, 0, m, <<>>)
          BY <3>3, CutNone, TextEmpty
        <5> QED BY <3>1, <3>2, <5>1, CutAppend
      <4> QED BY <2>a, <3>1, <3>3, <4>1, <4>2
    <3>4. CASE m # 0
      <4>1. Cut(h[m], b, 0, m, <<>>)
        BY <2>d, <3>4
      <4>2. Cut(h[m] \o b[m + 1], b, 0, m + 1, <<>>)
        BY <3>1, <3>2, <4>1, CutAppend
      <4>3. m + 1 \in 2 .. n /\ (m + 1) - 1 = m
        BY <2>b, <3>4
      <4>4. h[m + 1] = h[m] \o b[m + 1]
        BY <2>a, <4>3 DEF n
      <4> QED BY <3>1, <4>2, <4>4
    <3> QED BY <3>3, <3>4
  <2>e. n \in S
    <3>1. n \in 0 .. n
      BY <2>b
    <3> HIDE DEF S
    <3> QED BY <2>b, <2>c, <2>d, <3>1, InductionUpTo
  <2> QED BY <2>a, <2>b, <2>e DEF n
<1> QED BY <1>1, <1>2

\* Every item is a part of the whole, and together they are as long as it is.
LEMMA CutSizes ==
    ASSUME NEW s, NEW f, NEW n \in Nat, NEW rest, Cut(s, f, 0, n, rest), NEW w \in Nat,
           \A k \in 1 .. n : f[k] \in Text /\ Len(f[k]) >= w
    PROVE  /\ s \in Text /\ Len(s) \in Nat /\ Len(s) >= w * n
           /\ \A k \in 1 .. n : Len(f[k]) <= Len(s)
<1>1. PICK tail \in [0 .. n -> Text] :
         /\ tail[0] = s /\ tail[n] = rest
         /\ \A k \in 0 + 1 .. n : tail[k - 1] = f[k] \o tail[k]
  BY DEF Cut
<1>2. \A k \in 0 .. n : tail[k] \in Text /\ Len(tail[k]) \in Nat
  BY <1>1, LenProperties DEF Text
<1>3. \A k \in 1 .. n : Len(f[k]) \in Nat /\ f[k] \in Text /\ Len(f[k]) >= w
  BY LenProperties DEF Text
<1>4. s \in Text /\ Len(s) \in Nat
  BY <1>1, <1>2
<1>5. ASSUME NEW k \in 1 .. n
      PROVE  k - 1 \in 0 .. n /\ k \in 0 .. n /\ Len(tail[k - 1]) = Len(f[k]) + Len(tail[k])
  <2>a. k - 1 \in 0 .. n /\ k \in 0 .. n /\ k \in 0 + 1 .. n
    OBVIOUS
  <2>b. tail[k - 1] = f[k] \o tail[k]
    BY <1>1, <2>a
  <2>c. Len(f[k] \o tail[k]) = Len(f[k]) + Len(tail[k])
    BY <1>2, <1>3, <2>a, TextConcat
  <2> QED BY <2>a, <2>b, <2>c
<1> DEFINE S == {k \in 0 .. n : w * k + Len(tail[k]) <= Len(s)}
<1>6. 0 \in S
  BY <1>1, <1>4
<1>7. ASSUME NEW k \in 0 .. n - 1, k \in S PROVE k + 1 \in S
  <2>a. k + 1 \in 1 .. n /\ (k + 1) - 1 = k /\ k \in 0 .. n /\ k + 1 \in 0 .. n /\ k \in Nat
    OBVIOUS
  <2>b. Len(tail[k]) = Len(f[k + 1]) + Len(tail[k + 1])
    BY <1>5, <2>a
  <2>c. Len(tail[k]) \in Nat /\ Len(tail[k + 1]) \in Nat /\ Len(f[k + 1]) \in Nat /\ Len(f[k + 1]) >= w
    BY <1>2, <1>3, <2>a
  <2>d. w * (k + 1) = w * k + w /\ w * k \in Nat
    BY <2>a
  <2>e. w * k + Len(tail[k]) <= Len(s)
    BY <1>7
  <2> DEFINE x == w * k
             y == w * (k + 1)
  <2> HIDE DEF S, x, y
  <2>g. y = x + w /\ x \in Nat /\ x + Len(tail[k]) <= Len(s)
    BY <2>d, <2>e DEF x, y
  <2>h. y + Len(tail[k + 1]) <= Len(s)
    <3> DEFINE p == Len(tail[k])
               q == Len(tail[k + 1])
               m == Len(f[k + 1])
               l == Len(s)
    <3>1. y = x + w /\ x \in Nat /\ x + p <= l /\ p = m + q /\ m >= w
          /\ p \in Nat /\ q \in Nat /\ m \in Nat /\ l \in Nat
      BY <1>4, <2>b, <2>c, <2>g
    <3> HIDE DEF p, q, m, l
    <3>2. y + q <= l
      BY <3>1
    <3> QED BY <3>2 DEF q, l
  <2>f. w * (k + 1) + Len(tail[k + 1]) <= Len(s)
    BY <2>h DEF y
  <2> QED BY <2>a, <2>f DEF S
<1>8. \A k \in 0 .. n : k \in S
  <2> HIDE DEF S
  <2> QED BY <1>6, <1>7, InductionUpTo
<1>9. \A k \in 0 .. n : w * k + Len(tail[k]) <= Len(s) /\ w * k \in Nat
  BY <1>8
<1> HIDE DEF S
<1>10. n \in 0 .. n
  OBVIOUS
<1>11. Len(s) >= w * n
  BY <1>2, <1>4, <1>9, <1>10
<1>12. ASSUME NEW k \in 1 .. n PROVE Len(f[k]) <= Len(s)
  <2>a. k - 1 \in 0 .. n /\ k \in 0 .. n /\ Len(tail[k - 1]) = Len(f[k]) + Len(tail[k])
    BY <1>5
  <2>b. Len(tail[k - 1]) \in Nat /\ Len(tail[k]) \in Nat /\ Len(f[k]) \in Nat
    BY <1>2, <1>3, <2>a
  <2>c. w * (k - 1) \in Nat /\ w * (k - 1) + Len(tail[k - 1]) <= Len(s)
    BY <1>9, <2>a
  <2> DEFINE x == w * (k - 1)
  <2>d. x \in Nat /\ x + Len(tail[k - 1]) <= Len(s)
    BY <2>c
  <2> HIDE DEF x
  <2> QED BY <1>4, <2>a, <2>b, <2>d
<1> QED BY <1>4, <1>11, <1>12

\* One item of a list: v is read from the bytes b.
Item(item, b, v) ==
    /\ b \in Text /\ Len(b) >= 4
    /\ \A t \in Text : ReadItem(item, Reader(b \o t, <<>>)) = Reader(t, v)

\* The number of turns the loop of ReadList takes at most.
ListTurns(r, n) == IF n > Len(r.rest) \div 4 THEN Len(r.rest) \div 4 + 1 ELSE n

\* The state of the loop of ReadList after each of its turns.
ListLoops(r, name, n, item, last) ==
    \E h :
       /\ h[0] = Reader(r.rest, <<>>)
       /\ \A i \in 1 .. last :
             LET one == ReadItem(item, Reader(h[i - 1].rest, <<>>))
             IN  h[i] = IF h[i - 1].ok THEN Having(one, Append(h[i - 1].val, one.val)) ELSE h[i - 1]
       /\ ReadList(r, name, n, item)
             = IF r.ok THEN Having(h[last], Put(r.val, name, h[last].val)) ELSE r

\* The recursion of ReadList has a solution.
LEMMA ListDef ==
    ASSUME NEW r, NEW name, NEW n \in Nat, NEW item, Len(r.rest) \in Nat
    PROVE  ListTurns(r, n) \in Nat /\ ListLoops(r, name, n, item, ListTurns(r, n))
<1> DEFINE most == Len(r.rest) \div 4
           last == IF n > most THEN most + 1 ELSE n
           first == Reader(r.rest, <<>>)
           turn(d) == LET one == ReadItem(item, Reader(d.rest, <<>>))
                      IN  IF d.ok THEN Having(one, Append(d.val, one.val)) ELSE d
           P(g, m) == g = [i \in 0 .. m |-> IF i = 0 THEN first ELSE turn(g[i - 1])]
           S == {m \in Nat : \E g : P(g, m)}
           Q(g) == P(g, last)
           list == (CHOOSE g : Q(g))[last]
<1>4. ReadList(r, name, n, item) = IF r.ok THEN Having(list, Put(r.val, name, list.val)) ELSE r
  <2>a. CASE n > Len(r.rest) \div 4
    BY <2>a DEF ReadList
  <2>b. CASE ~(n > Len(r.rest) \div 4)
    BY <2>b DEF ReadList
  <2> QED BY <2>a, <2>b
<1>8. last \in Nat
  <2>a. most \in Nat
    <3> DEFINE k == Len(r.rest)
    <3> HIDE DEF k
    <3>1. k \in Nat
      BY DEF k
    <3>2. k \div 4 \in Nat
      BY <3>1, Division
    <3> QED BY <3>2 DEF k
  <2> HIDE DEF most
  <2> QED BY <2>a
<1> HIDE DEF turn, first, last
<1>1. 0 \in S
  <2>a. P([i \in 0 .. 0 |-> first], 0)
    OBVIOUS
  <2> QED BY <2>a
<1>2. ASSUME NEW m \in 0 .. last - 1, m \in S PROVE m + 1 \in S
  <2>a. PICK g : P(g, m)
    BY <1>2
  <2> DEFINE h == [i \in 0 .. m + 1 |-> IF i = m + 1 THEN turn(g[m]) ELSE g[i]]
  <2>b. P(h, m + 1)
    BY <1>8, <2>a
  <2>c. m + 1 \in Nat
    BY <1>8
  <2> HIDE DEF P, h
  <2> QED BY <2>b, <2>c
<1>3. last \in S
  <2>a. last \in 0 .. last
    BY <1>8
  <2> HIDE DEF S
  <2> QED BY <1>1, <1>2, <1>8, <2>a, InductionUpTo
<1>5. \E g : Q(g)
  BY <1>3
<1> HIDE DEF Q
<1>6. PICK g : Q(g) /\ list = g[last]
  BY <1>5, Zenon
<1>7. g[0] = first /\ \A i \in 1 .. last : g[i] = turn(g[i - 1])
  BY <1>6, <1>8 DEF Q
<1> HIDE DEF list
<1>9. ListLoops(r, name, n, item, last)
  BY <1>4, <1>6, <1>7 DEF turn, first, ListLoops
<1> QED BY <1>8, <1>9 DEF last, ListTurns

\* A list is read back item by item.
LEMMA ReadsList ==
    ASSUME NEW s, NEW b, NEW n \in Nat, NEW rest, Cut(s, b, 0, n, rest), NEW item,
           NEW S, NEW v \in Seq(S), Len(v) = n, \A k \in 1 .. n : Item(item, b[k], v[k]),
           NEW val, NEW name
    PROVE  ReadList(Reader(s, val), name, n, item) = Reader(rest, Put(val, name, v))
<1> DEFINE r == Reader(s, val)
           part(i) == [k \in 1 .. i |-> v[k]]
<1>1. r.ok /\ r.rest = s /\ r.val = val
  BY Readers
<1> HIDE DEF r
<1>2. s \in Text /\ Len(s) \in Nat /\ Len(s) >= 4 * n
  <2>a. \A k \in 1 .. n : b[k] \in Text /\ Len(b[k]) >= 4
    BY DEF Item
  <2> QED BY <2>a, CutSizes
<1>3. ~(n > Len(r.rest) \div 4)
  BY <1>1, <1>2
<1>4. ListLoops(r, name, n, item, n)
  <2>a. ListTurns(r, n) = n
    BY <1>3 DEF ListTurns
  <2> QED BY <1>1, <1>2, <2>a, ListDef
<1>5. PICK h :
       /\ h[0] = Reader(r.rest, <<>>)
       /\ \A i \in 1 .. n :
             LET one == ReadItem(item, Reader(h[i - 1].rest, <<>>))
             IN  h[i] = IF h[i - 1].ok THEN Having(one, Append(h[i - 1].val, one.val)) ELSE h[i - 1]
       /\ ReadList(r, name, n, item) = IF r.ok THEN Having(h[n], Put(r.val, name, h[n].val)) ELSE r
  BY <1>4 DEF ListLoops
<1>6. PICK tail \in [0 .. n -> Text] :
         /\ tail[0] = s /\ tail[n] = rest
         /\ \A k \in 0 + 1 .. n : tail[k - 1] = b[k] \o tail[k]
  BY DEF Cut
<1>7. \A k \in 1 .. n : v[k] \in S
  BY LenProperties
<1> DEFINE T == {i \in 0 .. n : h[i] = Reader(tail[i], part(i))}
<1>8. 0 \in T
  <2>a. part(0) = <<>>
    OBVIOUS
  <2> HIDE DEF part
  <2> QED BY <1>1, <1>5, <1>6, <2>a
<1>9. ASSUME NEW i \in 0 .. n - 1, i \in T PROVE i + 1 \in T
  <2>a. i + 1 \in 1 .. n /\ (i + 1) - 1 = i /\ i \in Nat /\ i + 1 \in 0 .. n /\ i + 1 \in 0 + 1 .. n
    OBVIOUS
  <2>b. h[i] = Reader(tail[i], part(i))
    BY <1>9
  <2> HIDE DEF T
  <2>c. h[i].ok /\ h[i].rest = tail[i] /\ h[i].val = part(i)
    <3>1. \A p, q : Reader(p, q).ok /\ Reader(p, q).rest = p /\ Reader(p, q).val = q
      BY Readers
    <3> HIDE DEF part
    <3> QED BY <2>b, <3>1
  <2>d. tail[i] = b[i + 1] \o tail[i + 1] /\ tail[i + 1] \in Text
    BY <1>6, <2>a
  <2> DEFINE one == ReadItem(item, Reader(h[i].rest, <<>>))
  <2>e. one = Reader(tail[i + 1], v[i + 1])
    <3>1. Item(item, b[i + 1], v[i + 1])
      BY <2>a
    <3> QED BY <2>c, <2>d, <3>1 DEF Item
  <2>f. h[i + 1] = Having(one, Append(part(i), one.val))
    <3> HIDE DEF part
    <3> QED BY <1>5, <2>a, <2>c
  <2>g. one.ok /\ one.rest = tail[i + 1] /\ one.val = v[i + 1]
    <3>1. \A p, q : Reader(p, q).ok /\ Reader(p, q).rest = p /\ Reader(p, q).val = q
      BY Readers
    <3> HIDE DEF one
    <3> QED BY <2>e, <3>1
  <2>h. Append(part(i), v[i + 1]) = part(i + 1)
    <3>1. \A k \in 1 .. i : v[k] \in S
      BY <1>7, <2>a
    <3>2. part(i) \in Seq(S) /\ Len(part(i)) = i
      BY <2>a, <3>1
    <3>3. Append(part(i), v[i + 1]) = [k \in 1 .. i + 1 |-> IF k = i + 1 THEN v[i + 1] ELSE part(i)[k]]
      <4> HIDE DEF part
      <4> QED BY <3>2
    <3>4. \A k \in 1 .. i + 1 : (IF k = i + 1 THEN v[i + 1] ELSE part(i)[k]) = v[k]
      BY <2>a
    <3> QED BY <3>3, <3>4
  <2> HIDE DEF one, part
  <2>i. h[i + 1] = Reader(tail[i + 1], part(i + 1))
    BY <2>f, <2>g, <2>h DEF Having
  <2> QED BY <2>a, <2>i DEF T
<1>10. n \in T
  <2>a. n \in 0 .. n
    OBVIOUS
  <2> HIDE DEF T
  <2> QED BY <1>8, <1>9, <2>a, InductionUpTo
<1>11. part(n) = v
  OBVIOUS
<1>12. h[n] = Reader(rest, v)
  BY <1>6, <1>10, <1>11
<1>13. h[n].ok /\ h[n].rest = rest /\ h[n].val = v
  <2>a. \A p, q : Reader(p, q).ok /\ Reader(p, q).rest = p /\ Reader(p, q).val = q
    BY Readers
  <2> QED BY <1>12, <2>a
<1>14. ReadList(r, name, n, item) = Reader(rest, Put(val, name, v))
  BY <1>1, <1>5, <1>13 DEF Having
<1> QED BY <1>14 DEF r

LEMMA WithReader ==
    ASSUME NEW t, NEW val, NEW name, NEW v
    PROVE  With(Reader(t, val), name, v) = Reader(t, Put(val, name, v))
<1> DEFINE r == Reader(t, val)
<1>1. r.ok /\ r.rest = t /\ r.val = val
  BY AllReaders
<1> HIDE DEF r
<1>2. With(r, name, v) = Reader(t, Put(val, name, v))
  BY <1>1 DEF With, Having
<1> QED BY <1>2 DEF r

\* The fields of a struct without some.
Dropped(val, names) == [n \in DOMAIN val \ names |-> val[n]]

LEMMA WithoutReader ==
    ASSUME NEW t, NEW val, NEW names
    PROVE  Without(Reader(t, val), names) = Reader(t, Dropped(val, names))
<1> DEFINE r == Reader(t, val)
<1>1. r.ok /\ r.rest = t /\ r.val = val
  BY AllReaders
<1> HIDE DEF r
<1>2. Without(r, names) = Reader(t, Dropped(val, names))
  BY <1>1 DEF Without, Having, Dropped
<1> QED BY <1>2 DEF r

\* The bytes b of items, and the items v read from them.
Listed(item, b, v) ==
    /\ b \in Seq(Text) /\ Len(v) = Len(b) /\ \E S : v \in Seq(S)
    /\ \A k \in 1 .. Len(b) : Len(b[k]) >= 4 /\ (Short(b[k]) => Item(item, b[k], v[k]))

LEMMA ReadsCounted ==
    ASSUME NEW item, NEW b, NEW v, Listed(item, b, v), Short(FlattenSeq(b)),
           NEW val, "count" \notin DOMAIN val, NEW name, name # "count"
    PROVE  /\ Len(b) \in Unsigned(4)
           /\ ReadCounted(Reader(FlattenSeq(b), Put(val, "count", Len(b))), name, item)
                 = Reader(<<>>, Put(val, name, v))
<1> DEFINE n == Len(b)
           s == FlattenSeq(b)
           z == <<>>
           head == Put(val, "count", n)
<1>1. b \in Seq(Text) /\ Len(v) = n /\ n \in Nat
      /\ \A k \in 1 .. n : b[k] \in Text /\ Len(b[k]) >= 4 /\ (Short(b[k]) => Item(item, b[k], v[k]))
  BY LenProperties DEF Listed
<1>2. PICK S : v \in Seq(S)
  BY DEF Listed
<1>3. Cut(s, b, 0, n, z)
  BY <1>1, FlattenCut
<1> HIDE DEF n, s, z
<1>4. s \in Text /\ Len(s) \in Nat /\ Len(s) >= 4 * n /\ \A k \in 1 .. n : Len(b[k]) <= Len(s)
  BY <1>1, <1>3, CutSizes
<1>5. Len(s) <= kMaxFrameBytes /\ kMaxFrameBytes \in Nat
  BY CodecAssumption, PowerType DEF Short, s
<1>6. n \in Unsigned(4)
  <2>a. n <= kMaxFrameBytes
    BY <1>1, <1>4, <1>5
  <2> QED BY <1>1, <2>a, SizesFit
<1>7. \A k \in 1 .. n : Item(item, b[k], v[k])
  <2>a. SUFFICES ASSUME NEW k \in 1 .. n PROVE Short(b[k])
    BY <1>1
  <2>b. Len(b[k]) \in Nat /\ b[k] \in Text
    BY <1>1, LenProperties DEF Text
  <2>c. Len(b[k]) <= Len(s)
    BY <1>4
  <2> QED BY <1>4, <1>5, <2>b, <2>c DEF Short
<1> HIDE DEF head
<1>8. ReadList(Reader(s, head), name, n, item) = Reader(z, Put(head, name, v))
  BY <1>1, <1>2, <1>3, <1>7, ReadsList
<1>9. head["count"] = n
  BY DEF Put, head
<1>10. ReadCounted(Reader(s, head), name, item) = Without(Reader(z, Put(head, name, v)), {"count"})
  <2> DEFINE r == Reader(s, head)
  <2>a. r.val = head
    BY AllReaders
  <2> HIDE DEF r
  <2>b. ReadList(r, name, r.val["count"], item) = Reader(z, Put(head, name, v))
    BY <1>8, <1>9, <2>a DEF r
  <2>c. ReadCounted(r, name, item) = Without(Reader(z, Put(head, name, v)), {"count"})
    BY <2>b DEF ReadCounted
  <2> QED BY <2>c DEF r
<1> DEFINE all == Put(head, name, v)
<1>11. Dropped(all, {"count"}) = Put(val, name, v)
  <2>a. DOMAIN all \ {"count"} = DOMAIN val \cup {name}
    BY DEF Put, head
  <2>b. \A m \in DOMAIN val \cup {name} : all[m] = IF m = name THEN v ELSE val[m]
    BY DEF Put, head
  <2> HIDE DEF all
  <2> QED BY <2>a, <2>b DEF Put, Dropped
<1> HIDE DEF all
<1>12. Without(Reader(z, all), {"count"}) = Reader(z, Put(val, name, v))
  BY <1>11, WithoutReader
<1> QED BY <1>6, <1>10, <1>12 DEF all, head, n, s, z

----------------------------------------
(* Items of lists *)

LEMMA TopicItem ==
    ASSUME NEW x \in [topic : Text, partition_count : Unsigned(4)]
    PROVE  LET b == AppendString(x.topic) \o U32(x.partition_count)
           IN  b \in Text /\ Len(b) >= 4 /\ (Short(b) => Item("topic", b, x))
<1> DEFINE p == AppendString(x.topic)
           q == U32(x.partition_count)
           b == p \o q
<1>1. p \in Text /\ q \in Text /\ Len(p) = 4 + Len(x.topic) /\ Len(x.topic) \in Nat
  BY Encoded, Strings
<1> HIDE DEF p, q
<1>2. b \in Text /\ Len(b) = Len(p) + Len(q) /\ Len(p) \in Nat /\ Len(q) \in Nat
  BY <1>1, TextConcat
<1>3. Len(b) >= 4
  BY <1>1, <1>2
<1>4. ASSUME Short(b), NEW t \in Text
      PROVE  ReadItem("topic", Reader(b \o t, <<>>)) = Reader(t, x)
  <2> DEFINE z == <<>>
             val == Put(Put(z, "topic", x.topic), "partition_count", x.partition_count)
  <2>a. Len(x.topic) < Power[4]
    <3>1. Short(p)
      BY <1>1, <1>4, ShortParts
    <3> QED BY <3>1, ShortString DEF p
  <2>b. Takes(p, Str("topic"), "topic", x.topic)
    BY <2>a, TakesText DEF p
  <2>c. Takes(q, Field("partition_count", "u32"), "partition_count", x.partition_count)
    BY TakesUnsigned DEF q
  <2>d. val = x
    BY SMT DEF Put
  <2> HIDE DEF z
  <2>e. Reader(b \o t, z) ** Str("topic") ** Field("partition_count", "u32") = Reader(t, val)
    BY <2>b, <2>c, Chain2
  <2> HIDE DEF val, b
  <2> QED BY <2>d, <2>e DEF ReadItem, DecodeTopicMetadata, z
<1> QED BY <1>2, <1>3, <1>4 DEF Item, p, q

LEMMA PartitionItem ==
    ASSUME NEW x \in Signed(4), x >= 0
    PROVE  LET b == AppendPartitionId(x)
           IN  b \in Text /\ Len(b) >= 4 /\ Item("partition", b, x)
<1> DEFINE b == AppendPartitionId(x)
<1>1. b \in Text /\ Len(b) = 4
  <2>a. x \in Int
    BY TwosComplement
  <2> QED BY <2>a, AppendBigEndianType DEF AppendPartitionId, U32, Text
<1>2. ASSUME NEW t \in Text
      PROVE  ReadItem("partition", Reader(b \o t, <<>>)) = Reader(t, x)
  <2> DEFINE z == <<>>
             val == Put(z, "partition_id", x)
             id == Reader(t, val)
             p == Reader(t, x)
  <2>a. Takes(b, Partition, "partition_id", x)
    BY TakesPartition DEF Partition
  <2>b. val["partition_id"] = x
    BY DEF Put
  <2> HIDE DEF z, b
  <2>c. Reader(b \o t, z) ** Partition = id
    BY <2>a, Chain1
  <2> HIDE DEF val
  <2>d. id.ok /\ id.rest = t /\ id.val = val /\ p.ok /\ p.val = x
    BY AllReaders
  <2>e. Having(id, id.val["partition_id"]) = p
    <3> HIDE DEF id
    <3> QED BY <2>b, <2>d DEF Having
  <2> HIDE DEF id, p
  <2>f. DecodeAssignedPartition(Reader(b \o t, z)) = Require(p, LAMBDA y : y.val >= 0)
    BY <2>c, <2>e DEF DecodeAssignedPartition
  <2>g. DecodeAssignedPartition(Reader(b \o t, z)) = p
    BY <2>d, <2>f DEF Require
  <2> QED BY <2>g DEF ReadItem, p, z
<1> QED BY <1>1, <1>2 DEF Item

----------------------------------------
(* Records *)

LEMMA RecordBytes ==
    ASSUME NEW retry, NEW x \in Record(retry)
    PROVE  /\ AppendProtocolRecord(x) \in Text /\ Len(AppendProtocolRecord(x)) \in Nat
           /\ Len(AppendProtocolRecord(x)) >= 16
           /\ Short(AppendProtocolRecord(x)) =>
                 \A t \in Text :
                    DecodeProtocolRecord(Reader(AppendProtocolRecord(x) \o t, <<>>))
                       = Reader(t, WithoutRetry(x))
<1> DEFINE a == U64(x.timestamp)
           b == AppendString(x.key)
           c == AppendString(x.value)
           ab == a \o b
           bytes == ab \o c
<1>0. x.timestamp \in Unsigned(8) /\ x.key \in Text /\ x.value \in Text
  BY DEF Record
<1>1. a \in Text /\ b \in Text /\ c \in Text /\ Len(a) = 8 /\ Len(b) = 4 + Len(x.key)
      /\ Len(c) = 4 + Len(x.value) /\ Len(x.key) \in Nat /\ Len(x.value) \in Nat
  <2>a. a \in Text /\ Len(a) = 8
    BY <1>0, Written DEF U64
  <2> QED BY <1>0, <2>a, Strings
<1>2. AppendProtocolRecord(x) = bytes
  BY DEF AppendProtocolRecord
<1> HIDE DEF a, b, c
<1>3. ab \in Text /\ Len(ab) = Len(a) + Len(b)
  BY <1>1, TextConcat
<1>4. bytes \in Text /\ Len(bytes) = Len(ab) + Len(c)
  <2> HIDE DEF ab
  <2> QED BY <1>1, <1>3, TextConcat
<1>5. Len(bytes) \in Nat /\ Len(bytes) >= 16
  <2> DEFINE k == Len(x.key)
             v == Len(x.value)
             n == Len(bytes)
  <2>a. n = (8 + (4 + k)) + (4 + v) /\ k \in Nat /\ v \in Nat
    <3> HIDE DEF ab, bytes
    <3> QED BY <1>1, <1>3, <1>4
  <2> HIDE DEF k, v, n
  <2>b. n \in Nat /\ n >= 16
    BY <2>a
  <2> QED BY <2>b DEF n
<1>6. ASSUME Short(bytes), NEW t \in Text
      PROVE  DecodeProtocolRecord(Reader(bytes \o t, <<>>)) = Reader(t, WithoutRetry(x))
  <2> DEFINE z == <<>>
             val == Put(Put(Put(z, "timestamp", x.timestamp), "key", x.key), "value", x.value)
  <2>a. Short(b) /\ Short(c)
    <3>1. Short(ab) /\ Short(c)
      <4> HIDE DEF ab
      <4> QED BY <1>1, <1>3, <1>6, ShortParts
    <3> QED BY <1>1, <3>1, ShortParts
  <2>b. Len(x.key) < Power[4] /\ Len(x.value) < Power[4]
    BY <1>0, <2>a, ShortString DEF b, c
  <2>c. Takes(a, Field("timestamp", "u64"), "timestamp", x.timestamp)
    BY <1>0, TakesUnsigned DEF a
  <2>d. Takes(b, Str("key"), "key", x.key)
    BY <1>0, <2>b, TakesText DEF b
  <2>e. Takes(c, Str("value"), "value", x.value)
    BY <1>0, <2>b, TakesText DEF c
  <2>f. Put(val, "retry", {}) = WithoutRetry(x)
    BY SMT DEF Put, WithoutRetry
  <2> HIDE DEF z
  <2>g. Reader(bytes \o t, z) ** Field("timestamp", "u64") ** Str("key") ** Str("value") = Reader(t, val)
    BY <2>c, <2>d, <2>e, Chain3
  <2> HIDE DEF val, bytes
  <2>h. DecodeProtocolRecord(Reader(bytes \o t, z)) = With(Reader(t, val), "retry", {})
    BY <2>g DEF DecodeProtocolRecord
  <2> QED BY <2>f, <2>h, WithReader DEF z
<1> HIDE DEF bytes
<1> QED BY <1>2, <1>4, <1>5, <1>6

LEMMA RecordItem ==
    ASSUME NEW retry, NEW x \in Record(retry)
    PROVE  LET b == AppendProtocolRecord(x)
           IN  b \in Text /\ Len(b) >= 16 /\ Len(b) >= 4 /\ (Short(b) => Item("record", b, WithoutRetry(x)))
<1> DEFINE b == AppendProtocolRecord(x)
<1>1. b \in Text /\ Len(b) \in Nat /\ Len(b) >= 16
  BY RecordBytes
<1>2. Len(b) >= 4
  BY <1>1
<1>3. ASSUME Short(b), NEW t \in Text
      PROVE  ReadItem("record", Reader(b \o t, <<>>)) = Reader(t, WithoutRetry(x))
  BY <1>3, RecordBytes DEF ReadItem
<1> QED BY <1>1, <1>2, <1>3 DEF Item

LEMMA RetryBytes ==
    ASSUME NEW m \in RetryMetadata, RetryMetadataValid(m)
    PROVE  /\ AppendRetryMetadata(m) \in Text
           /\ Short(AppendRetryMetadata(m)) =>
                 \A t \in Text :
                    DecodeRetryMetadata(Reader(AppendRetryMetadata(m) \o t, <<>>)) = Reader(t, m)
<1> DEFINE a == U32(m.retry_count)
           b == U64(m.next_visible_time)
           c == AppendString(m.original_topic)
           d == AppendString(m.failure_reason)
           e == AppendPartitionId(m.original_partition)
           f == U64(m.original_offset)
           bytes == a \o b \o c \o d \o e \o f
<1>1. /\ m.retry_count \in Unsigned(4) /\ m.next_visible_time \in Unsigned(8)
      /\ m.original_topic \in Text /\ m.failure_reason \in Text
      /\ m.original_partition \in Signed(4) /\ m.original_offset \in Signed(8)
  BY DEF RetryMetadata
<1>2. a \in Text /\ b \in Text /\ c \in Text /\ d \in Text /\ e \in Text /\ f \in Text
  BY <1>1, Encoded
<1>3. AppendRetryMetadata(m) = bytes
  BY DEF AppendRetryMetadata
<1> HIDE DEF a, b, c, d, e, f
<1>4. /\ a \o b \in Text /\ a \o b \o c \in Text /\ a \o b \o c \o d \in Text
      /\ a \o b \o c \o d \o e \in Text /\ bytes \in Text
  BY <1>2, TextConcat
<1>5. ASSUME Short(bytes), NEW t \in Text
      PROVE  DecodeRetryMetadata(Reader(bytes \o t, <<>>)) = Reader(t, m)
  <2> DEFINE z == <<>>
             val == Put(Put(Put(Put(Put(Put(z, "retry_count", m.retry_count),
                        "next_visible_time", m.next_visible_time), "original_topic", m.original_topic),
                        "failure_reason", m.failure_reason), "original_partition", m.original_partition),
                        "original_offset", m.original_offset)
             r == Reader(t, val)
  <2>a. Short(c) /\ Short(d)
    BY <1>2, <1>4, <1>5, ShortParts
  <2>b. Len(m.original_topic) < Power[4] /\ Len(m.failure_reason) < Power[4]
    BY <1>1, <2>a, ShortString DEF c, d
  <2>c. Takes(a, Field("retry_count", "u32"), "retry_count", m.retry_count)
    BY <1>1, TakesUnsigned DEF a
  <2>d. Takes(b, Field("next_visible_time", "u64"), "next_visible_time", m.next_visible_time)
    BY <1>1, TakesUnsigned DEF b
  <2>e. Takes(c, Str("original_topic"), "original_topic", m.original_topic)
    BY <1>1, <2>b, TakesText DEF c
  <2>f. Takes(d, Str("failure_reason"), "failure_reason", m.failure_reason)
    BY <1>1, <2>b, TakesText DEF d
  <2>g. Takes(e, Field("original_partition", "partition"), "original_partition", m.original_partition)
    BY <1>1, TakesPartition DEF e
  <2>h. Takes(f, OffsetField("original_offset"), "original_offset", m.original_offset)
    BY <1>1, TakesOffset DEF f
  <2>i. val = m
    BY SMT DEF Put, RetryMetadata
  <2> HIDE DEF z
  <2>j. Reader(bytes \o t, z) ** Field("retry_count", "u32") ** Field("next_visible_time", "u64")
              ** Str("original_topic") ** Str("failure_reason")
              ** Field("original_partition", "partition") ** OffsetField("original_offset") = r
    BY <2>c, <2>d, <2>e, <2>f, <2>g, <2>h, Chain6
  <2> HIDE DEF val, bytes
  <2>k. r.ok /\ r.val = m
    BY <2>i, AllReaders
  <2> HIDE DEF r
  <2>l. DecodeRetryMetadata(Reader(bytes \o t, z)) = r
    BY <2>j, <2>k DEF DecodeRetryMetadata, Require
  <2> QED BY <2>i, <2>l DEF r, z
<1> HIDE DEF bytes
<1> QED BY <1>3, <1>4, <1>5

LEMMA ReadsRetry ==
    ASSUME NEW m \in RetryMetadata, RetryMetadataValid(m), Short(AppendRetryMetadata(m)),
           NEW t \in Text, NEW val, NEW name
    PROVE  ReadStruct(Reader(AppendRetryMetadata(m) \o t, val), name, DecodeRetryMetadata)
              = Reader(t, Put(val, name, m))
<1> DEFINE s == AppendRetryMetadata(m) \o t
           r == Reader(s, val)
           one == Reader(t, m)
<1>1. DecodeRetryMetadata(Reader(s, <<>>)) = one
  BY RetryBytes
<1> HIDE DEF s
<1>2. r.ok /\ r.rest = s /\ r.val = val /\ one.ok /\ one.rest = t /\ one.val = m
  BY AllReaders
<1> HIDE DEF r, one
<1>3. ReadStruct(r, name, DecodeRetryMetadata) = Reader(t, Put(val, name, m))
  BY <1>1, <1>2 DEF ReadStruct, Having
<1> QED BY <1>3 DEF r, s

\* A fetched record up to the flag that says whether it is a retry copy.
LEMMA FetchedFlag ==
    ASSUME NEW x \in Record(OptionalRetry), Short(AppendProtocolRecord(x)),
           NEW flag \in BOOLEAN, NEW t \in Text
    PROVE  LET s == AppendProtocolRecord(x) \o (U8(IF flag THEN 1 ELSE 0) \o t)
           IN  DecodeFetchedRecord(Reader(s, <<>>))
                  = DecodeOptionalRetry(
                       Reader(t, Put(Dropped(WithoutRetry(x), {"retry"}), "present", flag)))
<1> DEFINE u == U8(IF flag THEN 1 ELSE 0)
           w == u \o t
           s == AppendProtocolRecord(x) \o w
           core == Dropped(WithoutRetry(x), {"retry"})
<1>1. Takes(u, Field("present", "bool8"), "present", flag)
  BY TakesFlag
<1>2. u \in Text
  BY Encoded
<1> HIDE DEF u
<1>3. w \in Text
  BY <1>2, TextConcat
<1>4. Reader(w, core) ** Field("present", "bool8") = Reader(t, Put(core, "present", flag))
  <2> HIDE DEF core
  <2> QED BY <1>1, Chain1
<1> HIDE DEF w
<1>5. DecodeProtocolRecord(Reader(s, <<>>)) = Reader(w, WithoutRetry(x))
  BY <1>3, RecordBytes
<1>6. Without(Reader(w, WithoutRetry(x)), {"retry"}) = Reader(w, core)
  BY WithoutReader
<1> HIDE DEF core, s
<1>7. DecodeFetchedRecord(Reader(s, <<>>)) = DecodeOptionalRetry(Reader(t, Put(core, "present", flag)))
  BY <1>4, <1>5, <1>6 DEF DecodeFetchedRecord
<1> QED BY <1>7 DEF s, w, u, core

\* The fields of a fetched record, without the flag, are the record.
LEMMA FetchedFields ==
    ASSUME NEW R, NEW x \in Record(R), NEW flag, NEW w
    PROVE  LET val == Put(Dropped(WithoutRetry(x), {"retry"}), "present", flag)
           IN  /\ Dropped(Put(val, "retry", x.retry), {"present"}) = x
               /\ Dropped(Put(Put(val, "retry", w), "retry", x.retry), {"present"}) = x
<1> DEFINE core == Dropped(WithoutRetry(x), {"retry"})
           val == Put(core, "present", flag)
           F == {"timestamp", "key", "value"}
           Full(f) == /\ DOMAIN f = F \cup {"present", "retry"}
                      /\ f["timestamp"] = x.timestamp /\ f["key"] = x.key /\ f["value"] = x.value
                      /\ f["retry"] = x.retry
<1>1. DOMAIN core = F /\ core["timestamp"] = x.timestamp /\ core["key"] = x.key /\ core["value"] = x.value
  BY DEF Dropped, WithoutRetry
<1> HIDE DEF core
<1>2. /\ DOMAIN val = F \cup {"present"} /\ val["timestamp"] = x.timestamp /\ val["key"] = x.key
      /\ val["value"] = x.value
  BY <1>1 DEF Put
<1> HIDE DEF val
<1>3. Full(Put(val, "retry", x.retry))
  BY <1>2 DEF Put
<1>4. Full(Put(Put(val, "retry", w), "retry", x.retry))
  BY <1>2 DEF Put
<1>5. ASSUME NEW f, Full(f) PROVE Dropped(f, {"present"}) = x
  <2>a. DOMAIN f \ {"present"} = {"timestamp", "key", "value", "retry"}
    BY <1>5
  <2>b. x = [n \in {"timestamp", "key", "value", "retry"} |-> x[n]]
    BY DEF Record
  <2>c. \A n \in {"timestamp", "key", "value", "retry"} : f[n] = x[n]
    BY <1>5
  <2> QED BY <2>a, <2>b, <2>c DEF Dropped
<1> HIDE DEF Full
<1> QED BY <1>3, <1>4, <1>5 DEF val, core

LEMMA FetchedItem ==
    ASSUME NEW x \in Record(OptionalRetry), \A m \in x.retry : RetryMetadataValid(m)
    PROVE  LET b == FetchedRecord(x, kRetryProtocolVersion)
           IN  /\ b \in Text /\ Len(b) >= 16 /\ Len(b) >= 4
               /\ Short(b) => Item("fetched", b, x)
<1> DEFINE b == FetchedRecord(x, kRetryProtocolVersion)
           p == AppendProtocolRecord(x)
           core == Dropped(WithoutRetry(x), {"retry"})
           z == <<>>
<1>1. p \in Text /\ Len(p) \in Nat /\ Len(p) >= 16
  BY RecordBytes
<1>2. x.retry \in SUBSET RetryMetadata /\ \A m, n \in x.retry : m = n
  BY DEF Record, OptionalRetry
<1>3. U8(0) = U8(IF FALSE THEN 1 ELSE 0) /\ U8(1) = U8(IF TRUE THEN 1 ELSE 0)
  OBVIOUS
<1>4. U8(0) \in Text /\ U8(1) \in Text
  BY <1>3, Encoded
<1>5. CASE x.retry = {}
  <2> DEFINE u == U8(0)
  <2>a. b = p \o u
    BY <1>5 DEF FetchedRecord
  <2>b. u \in Text
    BY <1>4
  <2> HIDE DEF p, b, u
  <2>c. b \in Text /\ Len(b) = Len(p) + Len(u) /\ Len(u) \in Nat
    BY <1>1, <2>a, <2>b, TextConcat
  <2>d. Len(b) >= 16 /\ Len(b) >= 4
    BY <1>1, <2>c
  <2>e. ASSUME Short(b), NEW t \in Text PROVE ReadItem("fetched", Reader(b \o t, <<>>)) = Reader(t, x)
    <3>1. b \o t = p \o (u \o t)
      BY <1>1, <2>a, <2>b, TextAssoc
    <3>2. Short(p)
      BY <1>1, <2>a, <2>b, <2>e, ShortParts
    <3> DEFINE val == Put(core, "present", FALSE)
               r == Reader(t, val)
    <3>3. DecodeFetchedRecord(Reader(b \o t, <<>>)) = DecodeOptionalRetry(r)
      BY <1>3, <3>1, <3>2, FetchedFlag DEF p, u
    <3>4. r.ok /\ r.val = val
      <4> HIDE DEF val
      <4> QED BY AllReaders
    <3>5. val["present"] = FALSE
      BY DEF Put
    <3>6. Dropped(Put(val, "retry", {}), {"present"}) = x
      BY <1>5, FetchedFields
    <3> HIDE DEF val
    <3>7. With(r, "retry", {}) = Reader(t, Put(val, "retry", {}))
      BY WithReader
    <3> HIDE DEF r
    <3>8. DecodeOptionalRetry(r) = Without(Reader(t, Put(val, "retry", {})), {"present"})
      BY <3>4, <3>5, <3>7 DEF DecodeOptionalRetry
    <3> QED BY <3>3, <3>6, <3>8, WithoutReader DEF ReadItem
  <2> QED BY <2>c, <2>d, <2>e DEF Item, b
<1>6. CASE x.retry # {}
  <2> DEFINE m == CHOOSE y \in x.retry : TRUE
             q == AppendRetryMetadata(m)
             u == U8(1)
             v == u \o q
  <2>m. m \in x.retry
    BY <1>6
  <2>n. m \in RetryMetadata /\ RetryMetadataValid(m) /\ x.retry = {m}
    BY <1>2, <2>m
  <2>a. b = p \o v
    BY <1>6 DEF FetchedRecord
  <2> HIDE DEF m
  <2>b. u \in Text /\ q \in Text
    BY <1>4, <2>n, RetryBytes
  <2> HIDE DEF p, b, u, q
  <2>o. v \in Text
    BY <2>b, TextConcat
  <2> HIDE DEF v
  <2>c. b \in Text /\ Len(b) = Len(p) + Len(v) /\ Len(v) \in Nat
    BY <1>1, <2>a, <2>o, TextConcat
  <2>d. Len(b) >= 16 /\ Len(b) >= 4
    BY <1>1, <2>c
  <2>e. ASSUME Short(b), NEW t \in Text PROVE ReadItem("fetched", Reader(b \o t, <<>>)) = Reader(t, x)
    <3> DEFINE w == q \o t
               val == Put(core, "present", TRUE)
               r == Reader(w, val)
               read == Reader(t, Put(val, "retry", m))
    <3>0. w \in Text
      BY <2>b, TextConcat
    <3>1. b \o t = p \o (u \o w)
      <4>1. b \o t = p \o (v \o t)
        BY <1>1, <2>a, <2>o, TextAssoc
      <4>2. v \o t = u \o (q \o t)
        BY <2>b, TextAssoc DEF v
      <4> QED BY <4>1, <4>2
    <3>2. Short(p) /\ Short(q)
      <4>1. Short(p) /\ Short(v)
        BY <1>1, <2>a, <2>o, <2>e, ShortParts
      <4> QED BY <2>b, <4>1, ShortParts DEF v
    <3>9. ReadStruct(r, "retry", DecodeRetryMetadata) = read
      <4> HIDE DEF val
      <4> QED BY <2>n, <3>2, ReadsRetry DEF q
    <3> HIDE DEF w
    <3>3. DecodeFetchedRecord(Reader(b \o t, <<>>)) = DecodeOptionalRetry(r)
      BY <1>3, <3>0, <3>1, <3>2, FetchedFlag DEF p, u
    <3>4. r.ok /\ r.val = val
      <4> HIDE DEF val
      <4> QED BY AllReaders
    <3>5. val["present"] = TRUE
      BY DEF Put
    <3> DEFINE all == Put(Put(val, "retry", m), "retry", {m})
    <3>6. Dropped(all, {"present"}) = x
      BY <2>n, FetchedFields
    <3>10. Put(val, "retry", m)["retry"] = m
      BY DEF Put
    <3> HIDE DEF val
    <3>11. read.ok /\ read.val["retry"] = m
      <4>1. read.val = Put(val, "retry", m) /\ read.ok
        BY AllReaders
      <4> HIDE DEF read
      <4> QED BY <3>10, <4>1
    <3>7. With(read, "retry", {m}) = Reader(t, all)
      BY WithReader
    <3> HIDE DEF r, read, all
    <3>8. DecodeOptionalRetry(r) = Without(Reader(t, all), {"present"})
      BY <3>4, <3>5, <3>7, <3>9, <3>11 DEF DecodeOptionalRetry
    <3> QED BY <3>3, <3>6, <3>8, WithoutReader DEF ReadItem
  <2> QED BY <2>c, <2>d, <2>e DEF Item, b
<1> QED BY <1>5, <1>6

----------------------------------------
(* Bodies with lists *)

\* A list of bytes, from a sequence of items.
LEMMA ListType ==
    ASSUME NEW S, NEW v \in Seq(S), NEW b, b = [i \in DOMAIN v |-> b[i]],
           \A i \in DOMAIN v : b[i] \in Text
    PROVE  /\ b \in Seq(Text) /\ Len(b) = Len(v) /\ Len(v) \in Nat /\ FlattenSeq(b) \in Text
           /\ DOMAIN v = 1 .. Len(v)
           /\ Cut(FlattenSeq(b), b, 0, Len(b), <<>>)
<1>1. DOMAIN v = 1 .. Len(v) /\ Len(v) \in Nat
  BY LenProperties
<1>2. b \in Seq(Text) /\ Len(b) = Len(v)
  <2>a. b \in [1 .. Len(v) -> Text]
    BY <1>1
  <2> QED BY <1>1, <2>a
<1>3. Cut(FlattenSeq(b), b, 0, Len(b), <<>>)
  BY <1>2, FlattenCut
<1>4. FlattenSeq(b) \in Text
  BY <1>1, <1>2, <1>3, CutType
<1> QED BY <1>1, <1>2, <1>3, <1>4

LEMMA RequireReader ==
    ASSUME NEW t, NEW val
    PROVE  Require(Reader(t, val), consumed) = IF t = <<>> THEN Reader(t, val) ELSE Fails(Reader(t, val))
<1> DEFINE r == Reader(t, val)
<1>1. r.ok /\ r.rest = t
  BY AllReaders
<1> HIDE DEF r
<1>2. Require(r, consumed) = IF t = <<>> THEN r ELSE Fails(r)
  BY <1>1 DEF Require, consumed
<1> QED BY <1>2 DEF r

LEMMA ProduceBody ==
    ASSUME NEW q \in [type : {"Produce"}, topic : Text, partition_id : Signed(4),
                      records : Seq(Record({{}}))],
           EncodeProduceBody(q).ok
    PROVE  LET bytes == EncodeProduceBody(q).value
           IN  bytes \in Text /\ (Short(bytes) => Rebuilds(DecodeProduceBody(bytes), q))
<1> DEFINE items == [i \in DOMAIN q.records |-> AppendProtocolRecord(q.records[i])]
           n == Len(q.records)
           a == AppendString(q.topic)
           b == AppendPartitionId(q.partition_id)
           c == U32(n)
           s == FlattenSeq(items)
           bytes == a \o b \o c \o s
           z == <<>>
<1>1. EncodeProduceBody(q).value = bytes /\ q.records # <<>>
  BY DEF EncodeProduceBody, When, Ok, Err, Each
<1>2. /\ DOMAIN q.records = 1 .. n /\ n \in Nat
      /\ \A i \in 1 .. n : q.records[i] \in Record({{}})
  BY LenProperties
<1>3. \A i \in 1 .. n : AppendProtocolRecord(q.records[i]) \in Text /\ Len(AppendProtocolRecord(q.records[i])) >= 4
  BY <1>2, RecordItem
<1>4. /\ items \in Seq(Text) /\ Len(items) = n /\ s \in Text
      /\ \A i \in 1 .. n : items[i] = AppendProtocolRecord(q.records[i])
  <2>a. \A i \in 1 .. n : items[i] = AppendProtocolRecord(q.records[i])
    BY <1>2
  <2>b. items = [i \in DOMAIN q.records |-> items[i]] /\ q.records \in Seq(Record({{}}))
    OBVIOUS
  <2> HIDE DEF items
  <2> QED BY <1>2, <1>3, <2>a, <2>b, ListType
<1>5. a \in Text /\ b \in Text /\ c \in Text
  <2>a. c \in Text
    <3>1. n \in Int
      BY <1>2
    <3> QED BY <3>1, AppendBigEndianType DEF U32, Text
  <2> QED BY <2>a, Encoded
<1>6. Listed("record", items, q.records)
  <2>a. \A i \in 1 .. n : WithoutRetry(q.records[i]) = q.records[i]
    BY <1>2 DEF Record, WithoutRetry
  <2>b. \A i \in 1 .. n : Len(items[i]) >= 4 /\ (Short(items[i]) => Item("record", items[i], q.records[i]))
    BY <1>2, <1>4, <2>a, RecordItem
  <2> HIDE DEF items
  <2> QED BY <1>4, <2>b DEF Listed
<1> HIDE DEF items, a, b, c, s
<1>7. a \o b \in Text /\ a \o b \o c \in Text /\ bytes \in Text
  BY <1>4, <1>5, TextConcat
<1>8. SUFFICES ASSUME Short(bytes) PROVE Rebuilds(DecodeProduceBody(bytes), q)
  BY <1>1, <1>7
<1>9. Short(a) /\ Short(s)
  BY <1>4, <1>5, <1>7, <1>8, ShortParts
<1> DEFINE head == Put(Put(z, "topic", q.topic), "partition_id", q.partition_id)
<1>10. "count" \notin DOMAIN head
  BY DEF Put
<1> HIDE DEF head
<1>11. /\ n \in Unsigned(4)
       /\ ReadCounted(Reader(s, Put(head, "count", n)), "records", "record")
             = Reader(<<>>, Put(head, "records", q.records))
  BY <1>4, <1>6, <1>9, <1>10, ReadsCounted DEF s
<1>12. Takes(a, Str("topic"), "topic", q.topic)
  <2>a. Len(q.topic) < Power[4]
    BY <1>9, ShortString DEF a
  <2> QED BY <2>a, TakesText DEF a
<1>13. Takes(b, Partition, "partition_id", q.partition_id)
  BY TakesPartition DEF Partition, b
<1> HIDE DEF n
<1>14. Takes(c, Field("count", "u32"), "count", n)
  BY <1>11, TakesUnsigned DEF c
<1>15. Put(Put(head, "records", q.records), "type", q.type) = q
  BY SMT DEF Put, head
<1> DEFINE counted == Put(head, "count", n)
           r == Reader(s, counted)
<1> HIDE DEF z
<1>16. Reader(bytes, z) ** Str("topic") ** Partition ** Field("count", "u32") = r
  BY <1>4, <1>12, <1>13, <1>14, Chain3 DEF head
<1>17. counted["count"] = n /\ n # 0
  <2>a. n # 0
    BY <1>1, EmptySeq DEF n
  <2> QED BY <2>a DEF Put
<1> HIDE DEF counted
<1>18. r.ok /\ r.val = counted
  BY AllReaders
<1> HIDE DEF r, bytes
<1>19. Require(r, LAMBDA x : x.val["count"] # 0) = r
  BY <1>17, <1>18 DEF Require
<1>20. DecodeProduceBody(bytes) = Require(ReadCounted(r, "records", "record"), consumed)
  BY <1>16, <1>19 DEF DecodeProduceBody, BodyReader, z
<1>21. DecodeProduceBody(bytes) = Reader(<<>>, Put(head, "records", q.records))
  BY <1>11, <1>20, RequireReader DEF r, counted
<1> QED BY <1>15, <1>21 DEF Rebuilds

LEMMA MetadataResponseBody ==
    ASSUME NEW q \in [type : {"Metadata"}, topics : Seq([topic : Text, partition_count : Unsigned(4)])],
           EncodeMetadataResponseBody(q).ok
    PROVE  LET bytes == EncodeMetadataResponseBody(q).value
           IN  bytes \in Text /\ (Short(bytes) => Rebuilds(DecodeMetadataResponseBody(Reader(bytes, <<>>)), q))
<1> DEFINE enc(x) == AppendString(x.topic) \o U32(x.partition_count)
           items == [i \in DOMAIN q.topics |-> enc(q.topics[i])]
           T == [topic : Text, partition_count : Unsigned(4)]
           n == Len(q.topics)
           c == U32(n)
           s == FlattenSeq(items)
           bytes == c \o s
           z == <<>>
<1>1. EncodeMetadataResponseBody(q).value = bytes
  BY DEF EncodeMetadataResponseBody, Ok, Each
<1>2. /\ DOMAIN q.topics = 1 .. n /\ n \in Nat /\ q.topics \in Seq(T)
      /\ \A i \in 1 .. n : q.topics[i] \in T
  <2>a. q.topics \in Seq(T)
    OBVIOUS
  <2> HIDE DEF T
  <2> QED BY <2>a, LenProperties
<1>3. \A x \in T : enc(x) \in Text /\ Len(enc(x)) >= 4 /\ (Short(enc(x)) => Item("topic", enc(x), x))
  BY TopicItem
<1> HIDE DEF enc, T
<1>4. /\ items \in Seq(Text) /\ Len(items) = n /\ s \in Text
      /\ \A i \in 1 .. n : items[i] = enc(q.topics[i])
  <2>a. \A i \in 1 .. n : items[i] = enc(q.topics[i])
    BY <1>2
  <2>b. items = [i \in DOMAIN q.topics |-> items[i]]
    OBVIOUS
  <2> HIDE DEF items
  <2>c. \A i \in DOMAIN q.topics : items[i] \in Text
    BY <1>2, <1>3, <2>a
  <2> QED BY <1>2, <2>a, <2>b, <2>c, ListType
<1>5. c \in Text
  <2>a. n \in Int
    BY <1>2
  <2> QED BY <2>a, AppendBigEndianType DEF U32, Text
<1>6. Listed("topic", items, q.topics)
  <2>b. \A i \in 1 .. n : Len(items[i]) >= 4 /\ (Short(items[i]) => Item("topic", items[i], q.topics[i]))
    BY <1>2, <1>3, <1>4
  <2> HIDE DEF items
  <2> QED BY <1>2, <1>4, <2>b DEF Listed
<1> HIDE DEF items, c, s
<1>7. bytes \in Text
  BY <1>4, <1>5, TextConcat
<1>8. SUFFICES ASSUME Short(bytes) PROVE Rebuilds(DecodeMetadataResponseBody(Reader(bytes, <<>>)), q)
  BY <1>1, <1>7
<1>9. Short(s)
  BY <1>4, <1>5, <1>7, <1>8, ShortParts
<1>10. "count" \notin DOMAIN z
  OBVIOUS
<1>15. Put(Put(z, "topics", q.topics), "type", q.type) = q
  BY SMT DEF Put
<1> HIDE DEF z
<1>11. /\ n \in Unsigned(4)
       /\ ReadCounted(Reader(s, Put(z, "count", n)), "topics", "topic")
             = Reader(<<>>, Put(z, "topics", q.topics))
  BY <1>4, <1>6, <1>9, <1>10, ReadsCounted DEF s
<1> HIDE DEF n
<1>14. Takes(c, Field("count", "u32"), "count", n)
  BY <1>11, TakesUnsigned DEF c
<1>16. Reader(bytes, z) ** Field("count", "u32") = Reader(s, Put(z, "count", n))
  BY <1>4, <1>14, Chain1
<1> HIDE DEF bytes
<1>21. DecodeMetadataResponseBody(Reader(bytes, z)) = Reader(<<>>, Put(z, "topics", q.topics))
  BY <1>11, <1>16 DEF DecodeMetadataResponseBody
<1> QED BY <1>15, <1>21 DEF Rebuilds, z

Assignment == [topic : Text, partition_ids : Seq(Signed(4))]

LEMMA AssignmentBytes ==
    ASSUME NEW x \in Assignment, \A i \in DOMAIN x.partition_ids : x.partition_ids[i] >= 0
    PROVE  /\ AppendPartitionAssignment(x) \in Text
           /\ Short(AppendPartitionAssignment(x)) =>
                 DecodePartitionAssignment(Reader(AppendPartitionAssignment(x), <<>>)) = Reader(<<>>, x)
<1> DEFINE v == x.partition_ids
           items == [i \in DOMAIN v |-> AppendPartitionId(v[i])]
           n == Len(v)
           a == AppendString(x.topic)
           c == U32(n)
           s == FlattenSeq(items)
           bytes == a \o c \o s
           z == <<>>
<1>1. AppendPartitionAssignment(x) = bytes
  BY DEF AppendPartitionAssignment, Each
<1>2. /\ DOMAIN v = 1 .. n /\ n \in Nat /\ v \in Seq(Signed(4)) /\ x.topic \in Text
      /\ \A i \in 1 .. n : v[i] \in Signed(4) /\ v[i] >= 0
  <2>a. v \in Seq(Signed(4)) /\ x.topic \in Text
    BY DEF Assignment
  <2>b. \A i \in DOMAIN v : v[i] >= 0
    OBVIOUS
  <2> HIDE DEF v
  <2> QED BY <2>a, <2>b, LenProperties
<1>15. Put(Put(z, "topic", x.topic), "partition_ids", v) = x
  BY SMT DEF Put, Assignment
<1> HIDE DEF v
<1>4. /\ items \in Seq(Text) /\ Len(items) = n /\ s \in Text
      /\ \A i \in 1 .. n : items[i] = AppendPartitionId(v[i])
  <2>a. \A i \in 1 .. n : items[i] = AppendPartitionId(v[i])
    BY <1>2
  <2>b. items = [i \in DOMAIN v |-> items[i]]
    OBVIOUS
  <2> HIDE DEF items
  <2>c. \A i \in DOMAIN v : items[i] \in Text
    BY <1>2, <2>a, Encoded
  <2> QED BY <1>2, <2>a, <2>b, <2>c, ListType
<1>5. a \in Text /\ c \in Text
  <2>a. a \in Text
    BY <1>2, Encoded
  <2>b. n \in Int /\ 4 \in Nat
    BY <1>2
  <2> HIDE DEF n
  <2>c. c \in Text
    BY <2>b, AppendBigEndianType DEF U32, Text
  <2> QED BY <2>a, <2>c
<1>6. Listed("partition", items, v)
  <2>b. \A i \in 1 .. n : Len(items[i]) >= 4 /\ (Short(items[i]) => Item("partition", items[i], v[i]))
    BY <1>2, <1>4, PartitionItem
  <2> HIDE DEF items
  <2> QED BY <1>2, <1>4, <2>b DEF Listed
<1> HIDE DEF items, a, c, s
<1>7. a \o c \in Text /\ bytes \in Text
  BY <1>4, <1>5, TextConcat
<1>8. ASSUME Short(bytes) PROVE DecodePartitionAssignment(Reader(bytes, z)) = Reader(<<>>, x)
  <2> DEFINE head == Put(z, "topic", x.topic)
  <2>a. Short(a) /\ Short(s)
    BY <1>4, <1>5, <1>7, <1>8, ShortParts
  <2>b. "count" \notin DOMAIN head
    BY DEF Put
  <2> HIDE DEF head
  <2>c. /\ n \in Unsigned(4)
        /\ ReadCounted(Reader(s, Put(head, "count", n)), "partition_ids", "partition")
             = Reader(<<>>, Put(head, "partition_ids", v))
    BY <1>4, <1>6, <2>a, <2>b, ReadsCounted DEF s
  <2>d. Takes(a, Str("topic"), "topic", x.topic)
    <3>1. Len(x.topic) < Power[4]
      BY <1>2, <2>a, ShortString DEF a
    <3> QED BY <1>2, <3>1, TakesText DEF a
  <2> HIDE DEF n
  <2>e. Takes(c, Field("count", "u32"), "count", n)
    BY <2>c, TakesUnsigned DEF c
  <2> HIDE DEF z
  <2>f. Reader(bytes, z) ** Str("topic") ** Field("count", "u32") = Reader(s, Put(head, "count", n))
    BY <1>4, <2>d, <2>e, Chain2 DEF head
  <2> HIDE DEF bytes
  <2>g. DecodePartitionAssignment(Reader(bytes, z)) = Reader(<<>>, Put(head, "partition_ids", v))
    BY <2>c, <2>f DEF DecodePartitionAssignment
  <2> QED BY <1>15, <2>g DEF head
<1> HIDE DEF bytes
<1> QED BY <1>1, <1>7, <1>8

LEMMA SyncGroupResponseBody ==
    ASSUME NEW q \in [type : {"SyncGroup"}, group_id : Text, member_id : Text,
                      generation_id : Signed(4), assignment : Assignment],
           EncodeSyncGroupResponseBody(q).ok
    PROVE  LET bytes == EncodeSyncGroupResponseBody(q).value
           IN  bytes \in Text /\ (Short(bytes) => Rebuilds(DecodeSyncGroupResponseBody(Reader(bytes, <<>>)), q))
<1> DEFINE a == AppendString(q.group_id)
           b == AppendString(q.member_id)
           c == U32(q.generation_id)
           s == AppendPartitionAssignment(q.assignment)
           bytes == a \o b \o c \o s
           z == <<>>
<1>1. /\ EncodeSyncGroupResponseBody(q).value = bytes /\ q.generation_id >= 0
      /\ \A i \in DOMAIN q.assignment.partition_ids : q.assignment.partition_ids[i] >= 0
  BY DEF EncodeSyncGroupResponseBody, When, Ok, Err
<1>2. a \in Text /\ b \in Text /\ c \in Text /\ s \in Text
  <2>a. s \in Text
    BY <1>1, AssignmentBytes
  <2> QED BY <2>a, Encoded
<1> HIDE DEF a, b, c, s
<1>3. a \o b \in Text /\ a \o b \o c \in Text /\ bytes \in Text
  BY <1>2, TextConcat
<1>4. SUFFICES ASSUME Short(bytes) PROVE Rebuilds(DecodeSyncGroupResponseBody(Reader(bytes, <<>>)), q)
  BY <1>1, <1>3
<1>5. Short(a) /\ Short(b) /\ Short(s)
  BY <1>2, <1>3, <1>4, ShortParts
<1>6. Takes(a, Str("group_id"), "group_id", q.group_id)
  <2>a. Len(q.group_id) < Power[4]
    BY <1>5, ShortString DEF a
  <2> QED BY <2>a, TakesText DEF a
<1>7. Takes(b, Str("member_id"), "member_id", q.member_id)
  <2>a. Len(q.member_id) < Power[4]
    BY <1>5, ShortString DEF b
  <2> QED BY <2>a, TakesText DEF b
<1>8. Takes(c, Generation, "generation_id", q.generation_id)
  BY <1>1, TakesGeneration DEF c
<1>9. DecodePartitionAssignment(Reader(s, <<>>)) = Reader(<<>>, q.assignment)
  BY <1>1, <1>5, AssignmentBytes DEF s
<1> DEFINE val == Put(Put(Put(z, "group_id", q.group_id), "member_id", q.member_id),
                      "generation_id", q.generation_id)
           r == Reader(s, val)
           one == Reader(<<>>, q.assignment)
<1>10. Put(Put(val, "assignment", q.assignment), "type", q.type) = q
  BY SMT DEF Put
<1> HIDE DEF z
<1>11. Reader(bytes, z) ** Str("group_id") ** Str("member_id") ** Generation = r
  BY <1>2, <1>6, <1>7, <1>8, Chain3
<1> HIDE DEF val, bytes
<1>12. r.ok /\ r.rest = s /\ r.val = val /\ one.ok /\ one.rest = <<>> /\ one.val = q.assignment
  BY AllReaders
<1> HIDE DEF r, one
<1>13. ReadStruct(r, "assignment", DecodePartitionAssignment)
          = Reader(<<>>, Put(val, "assignment", q.assignment))
  BY <1>9, <1>12 DEF ReadStruct, Having, one
<1>14. DecodeSyncGroupResponseBody(Reader(bytes, z)) = Reader(<<>>, Put(val, "assignment", q.assignment))
  BY <1>11, <1>13 DEF DecodeSyncGroupResponseBody
<1> QED BY <1>10, <1>14 DEF Rebuilds, z

LEMMA NackResponseBody ==
    ASSUME NEW q \in [type : {"Nack"}, topic : Text, partition_id : Signed(4), offset : Signed(8),
                      retry : RetryMetadata, dead_letter : BOOLEAN],
           EncodeNackResponseBody(q).ok
    PROVE  LET bytes == EncodeNackResponseBody(q).value
           IN  bytes \in Text /\ (Short(bytes) => Rebuilds(DecodeNackResponseBody(Reader(bytes, <<>>)), q))
<1> DEFINE z == <<>>
           place == [topic |-> q.topic, partition_id |-> q.partition_id, offset |-> q.offset, reason |-> z]
           a == AppendString(q.topic)
           b == AppendPartitionId(q.partition_id)
           c == U64(q.offset)
           d == AppendString(z)
           location == a \o b \o c \o d
           m == AppendRetryMetadata(q.retry)
           u == U8(IF q.dead_letter THEN 1 ELSE 0)
           bytes == location \o m \o u
<1>1. EncodeNackResponseBody(q).value = bytes /\ NackValid(q) /\ RetryMetadataValid(q.retry)
  <2>a. place.topic = q.topic /\ place.partition_id = q.partition_id /\ place.offset = q.offset /\ place.reason = z
    OBVIOUS
  <2> HIDE DEF place, z
  <2>c. EncodeNackBody(place).ok => NackValid(q) /\ EncodeNackBody(place).value = location
    BY <2>a DEF EncodeNackBody, NackValid, When, Ok, Err
  <2>d. EncodeNackResponseBody(q) = IF EncodeNackBody(place).ok
           THEN When(RetryMetadataValid(q.retry), EncodeNackBody(place).value \o m \o u) ELSE Err
    BY DEF EncodeNackResponseBody, Then, place, z
  <2>e. EncodeNackBody(place).ok
    BY <2>d DEF Err
  <2> HIDE DEF location, m, u
  <2>f. EncodeNackResponseBody(q) = When(RetryMetadataValid(q.retry), bytes)
    BY <2>c, <2>d, <2>e
  <2> HIDE DEF bytes
  <2>g. RetryMetadataValid(q.retry) /\ EncodeNackResponseBody(q).value = bytes
    BY <2>f DEF When, Ok, Err
  <2> QED BY <2>c, <2>e, <2>g
<1>2. a \in Text /\ b \in Text /\ c \in Text /\ d \in Text /\ m \in Text /\ u \in Text /\ z \in Text
  <2>a. z \in Text
    BY TextEmpty
  <2> HIDE DEF z
  <2>b. m \in Text
    BY <1>1, RetryBytes
  <2> QED BY <2>a, <2>b, Encoded
<1> HIDE DEF a, b, c, d, m, u, z
<1>3. /\ a \o b \in Text /\ a \o b \o c \in Text /\ location \in Text /\ location \o m \in Text
      /\ bytes \in Text /\ m \o u \in Text
  <2>a. a \o b \in Text /\ a \o b \o c \in Text /\ location \in Text
    BY <1>2, TextConcat
  <2> HIDE DEF location
  <2> QED BY <1>2, <2>a, TextConcat
<1>4. SUFFICES ASSUME Short(bytes) PROVE Rebuilds(DecodeNackResponseBody(Reader(bytes, z)), q)
  BY <1>1, <1>3 DEF z
<1>5. Short(a) /\ Short(d) /\ Short(m)
  <2>a. Short(location) /\ Short(m)
    <3> HIDE DEF location
    <3> QED BY <1>2, <1>3, <1>4, ShortParts
  <2> QED BY <1>2, <1>3, <2>a, ShortParts
<1>6. Takes(a, Str("topic"), "topic", q.topic)
  <2>a. Len(q.topic) < Power[4]
    BY <1>5, ShortString DEF a
  <2> QED BY <2>a, TakesText DEF a
<1>7. Takes(b, Partition, "partition_id", q.partition_id)
  BY TakesPartition DEF Partition, b
<1>8. Takes(c, OffsetField("offset"), "offset", q.offset)
  BY TakesOffset DEF c
<1>9. Takes(d, Str("reason"), "reason", z)
  <2>a. Len(z) < Power[4]
    BY <1>2, <1>5, ShortString DEF d
  <2> QED BY <1>2, <2>a, TakesText DEF d
<1>10. Takes(u, Field("dead_letter", "bool8"), "dead_letter", q.dead_letter)
  <2> DEFINE flag == q.dead_letter
  <2>a. flag \in BOOLEAN /\ u = U8(IF flag THEN 1 ELSE 0)
    BY DEF u
  <2> HIDE DEF flag
  <2>b. Takes(u, Field("dead_letter", "bool8"), "dead_letter", flag)
    BY <2>a, TakesFlag, Zenon
  <2> QED BY <2>b DEF flag
<1> DEFINE val == Put(Put(Put(Put(z, "topic", q.topic), "partition_id", q.partition_id),
                          "offset", q.offset), "reason", z)
           all == Put(Put(val, "retry", q.retry), "dead_letter", q.dead_letter)
           t == m \o u
<1>11. /\ all["topic"] = q.topic /\ all["partition_id"] = q.partition_id /\ all["offset"] = q.offset
       /\ all["reason"] = z
       /\ DOMAIN all = {"topic", "partition_id", "offset", "reason", "retry", "dead_letter"}
       /\ all["retry"] = q.retry /\ all["dead_letter"] = q.dead_letter
  BY DEF Put, z
<1>12. NackValid(all) /\ all.reason = <<>>
  <2> HIDE DEF all
  <2> QED BY <1>1, <1>11 DEF NackValid, z
<1>13. Put(Dropped(all, {"reason"}), "type", q.type) = q
  <2> HIDE DEF all
  <2> DEFINE N == {"type", "topic", "partition_id", "offset", "retry", "dead_letter"}
             p == Put(Dropped(all, {"reason"}), "type", q.type)
  <2>a. DOMAIN p = N
    BY <1>11 DEF Put, Dropped
  <2>b. \A k \in N : p[k] = q[k]
    BY <1>11 DEF Put, Dropped
  <2>c. q = [k \in N |-> q[k]]
    OBVIOUS
  <2>d. p = [k \in N |-> p[k]]
    BY <2>a DEF Put
  <2> HIDE DEF N, p
  <2>e. p = q
    BY <2>b, <2>c, <2>d
  <2> QED BY <2>e DEF p
<1>14. Reader(location \o t, z) ** Str("topic") ** Partition ** OffsetField("offset") ** Str("reason")
          = Reader(t, val)
  <2>a. t \in Text
    BY <1>3
  <2> HIDE DEF t
  <2> QED BY <1>6, <1>7, <1>8, <1>9, <2>a, Chain4
<1> HIDE DEF val, location
<1>15. ReadStruct(Reader(t, val), "retry", DecodeRetryMetadata) = Reader(u, Put(val, "retry", q.retry))
  BY <1>1, <1>2, <1>5, ReadsRetry DEF m
<1>16. Reader(u, Put(val, "retry", q.retry)) ** Field("dead_letter", "bool8") = Reader(z, all)
  <2> DEFINE w == Put(val, "retry", q.retry)
  <2> HIDE DEF w
  <2>a. Reader(u \o z, w) ** Field("dead_letter", "bool8") = Reader(z, Put(w, "dead_letter", q.dead_letter))
    BY <1>2, <1>10, Chain1
  <2>b. u \o z = u
    BY <1>2, ConcatEmptySeq DEF z, Text
  <2> QED BY <2>a, <2>b DEF w
<1>17. bytes = location \o t
  <2>a. m \in Text /\ u \in Text /\ location \in Text
    BY <1>2, <1>3
  <2> QED BY <2>a, TextAssoc
<1> HIDE DEF all, t, bytes
<1> DEFINE whole == Reader(z, all)
<1>18. whole.ok /\ whole.val = all
  BY AllReaders
<1> HIDE DEF whole
<1>19. Require(whole, LAMBDA x : NackValid(x.val) /\ x.val.reason = <<>>) = whole
  BY <1>12, <1>18 DEF Require
<1>20. DecodeNackResponseBody(Reader(bytes, z)) = Without(whole, {"reason"})
  BY <1>14, <1>15, <1>16, <1>17, <1>19 DEF DecodeNackResponseBody, whole
<1>21. Without(whole, {"reason"}) = Reader(z, Dropped(all, {"reason"}))
  BY WithoutReader DEF whole
<1> QED BY <1>13, <1>20, <1>21 DEF Rebuilds, z

\* What a record of a Fetch response of that version becomes, and how it is read.
Seen(x, version) == IF version = kRetryProtocolVersion THEN x ELSE WithoutRetry(x)
ItemOf(version) == IF version = kRetryProtocolVersion THEN "fetched" ELSE "record"

LEMMA SeenItem ==
    ASSUME NEW version \in {1, 2}, NEW x \in Record(OptionalRetry),
           version = kRetryProtocolVersion => \A m \in x.retry : RetryMetadataValid(m)
    PROVE  LET b == FetchedRecord(x, version)
           IN  /\ b \in Text /\ Len(b) >= 16 /\ Len(b) >= 4
               /\ Short(b) => Item(ItemOf(version), b, Seen(x, version))
<1>1. CASE version = kRetryProtocolVersion
  BY <1>1, FetchedItem DEF Seen, ItemOf
<1>2. CASE version # kRetryProtocolVersion
  <2> DEFINE b == AppendProtocolRecord(x)
  <2>a. b \in Text /\ Len(b) >= 16 /\ Len(b) >= 4 /\ (Short(b) => Item("record", b, WithoutRetry(x)))
    BY RecordItem
  <2>b. FetchedRecord(x, version) = b \o <<>>
    BY <1>2 DEF FetchedRecord
  <2>c. b \o <<>> = b
    BY <2>a, ConcatEmptySeq DEF Text
  <2> HIDE DEF b
  <2> QED BY <1>2, <2>a, <2>b, <2>c DEF Seen, ItemOf
<1> QED BY <1>1, <1>2

LEMMA FetchResponseBody ==
    ASSUME NEW version \in {1, 2},
           NEW q \in [type : {"Fetch"}, base_offset : Signed(8), high_watermark : Signed(8),
                      records : Seq(Record(OptionalRetry))],
           EncodeFetchResponseBody(q, version).ok
    PROVE  LET bytes == EncodeFetchResponseBody(q, version).value
               seen == [type |-> "Fetch", base_offset |-> q.base_offset,
                        high_watermark |-> q.high_watermark,
                        records |-> [i \in DOMAIN q.records |-> Seen(q.records[i], version)]]
           IN  /\ bytes \in Text
               /\ Short(bytes) => Rebuilds(DecodeFetchResponseBody(Reader(bytes, <<>>), version), seen)
<1> DEFINE T == Record(OptionalRetry)
           enc(x) == FetchedRecord(x, version)
           items == [i \in DOMAIN q.records |-> enc(q.records[i])]
           v == [i \in DOMAIN q.records |-> Seen(q.records[i], version)]
           n == Len(q.records)
           a == U64(q.base_offset)
           b == U64(q.high_watermark)
           c == U32(n)
           s == FlattenSeq(items)
           bytes == a \o b \o c \o s
           z == <<>>
           seen == [type |-> "Fetch", base_offset |-> q.base_offset,
                    high_watermark |-> q.high_watermark, records |-> v]
<1>1. /\ EncodeFetchResponseBody(q, version).value = bytes
      /\ version = kRetryProtocolVersion =>
            \A i \in DOMAIN q.records : \A m \in q.records[i].retry : RetryMetadataValid(m)
  BY DEF EncodeFetchResponseBody, When, Ok, Err, Each
<1>2. /\ DOMAIN q.records = 1 .. n /\ n \in Nat /\ q.records \in Seq(T)
      /\ \A i \in 1 .. n : q.records[i] \in T
  <2>a. q.records \in Seq(T)
    OBVIOUS
  <2> HIDE DEF T
  <2> QED BY <2>a, LenProperties
<1>3. ASSUME NEW i \in 1 .. n
      PROVE  LET e == enc(q.records[i])
             IN  /\ e \in Text /\ Len(e) >= 16 /\ Len(e) >= 4
                 /\ Short(e) => Item(ItemOf(version), e, Seen(q.records[i], version))
  BY <1>1, <1>2, SeenItem
<1> HIDE DEF enc, T
<1>4. /\ items \in Seq(Text) /\ Len(items) = n /\ s \in Text
      /\ Cut(s, items, 0, n, z)
      /\ \A i \in 1 .. n : items[i] = enc(q.records[i])
  <2>a. \A i \in 1 .. n : items[i] = enc(q.records[i])
    BY <1>2
  <2>b. items = [i \in DOMAIN q.records |-> items[i]]
    OBVIOUS
  <2> HIDE DEF items
  <2>c. \A i \in DOMAIN q.records : items[i] \in Text
    BY <1>2, <1>3, <2>a
  <2>d. /\ items \in Seq(Text) /\ Len(items) = Len(q.records) /\ FlattenSeq(items) \in Text
        /\ Cut(FlattenSeq(items), items, 0, Len(items), <<>>)
    BY <1>2, <2>b, <2>c, ListType
  <2> QED BY <2>a, <2>d
<1>5. a \in Text /\ b \in Text /\ c \in Text
  <2>a. n \in Int
    BY <1>2
  <2> QED BY <2>a, AppendBigEndianType, Encoded DEF U32, Text
<1>6. v \in Seq({v[i] : i \in 1 .. n}) /\ Len(v) = n /\ \A i \in 1 .. n : v[i] = Seen(q.records[i], version)
  <2> DEFINE S == {v[i] : i \in 1 .. n}
  <2>a. \A i \in 1 .. n : v[i] \in S
    OBVIOUS
  <2>b. \A i \in 1 .. n : v[i] = Seen(q.records[i], version)
    BY <1>2
  <2>c. v = [i \in 1 .. n |-> v[i]]
    BY <1>2
  <2> HIDE DEF S, v
  <2>d. v \in [1 .. n -> S]
    BY <2>a, <2>c
  <2>e. v \in Seq(S) /\ Len(v) = n
    BY <1>2, <2>d
  <2> QED BY <2>b, <2>e DEF S
<1> HIDE DEF v
<1>7. Listed(ItemOf(version), items, v)
  <2>a. \A i \in 1 .. n : Len(items[i]) >= 4 /\ (Short(items[i]) => Item(ItemOf(version), items[i], v[i]))
    BY <1>3, <1>4, <1>6
  <2> HIDE DEF items
  <2> QED BY <1>4, <1>6, <2>a DEF Listed
<1>8. Len(s) \in Nat /\ Len(s) >= 16 * n
  <2>a. \A i \in 1 .. n : items[i] \in Text /\ Len(items[i]) >= 16
    BY <1>3, <1>4
  <2> HIDE DEF items, s
  <2> QED BY <1>2, <1>4, <2>a, CutSizes
<1> HIDE DEF items, a, b, c, s
<1>9. a \o b \in Text /\ a \o b \o c \in Text /\ bytes \in Text
  BY <1>4, <1>5, TextConcat
<1>10. SUFFICES ASSUME Short(bytes)
                PROVE  Rebuilds(DecodeFetchResponseBody(Reader(bytes, <<>>), version), seen)
  BY <1>1, <1>9 DEF v
<1>11. Short(s)
  BY <1>4, <1>5, <1>9, <1>10, ShortParts
<1> DEFINE head == Put(Put(z, "base_offset", q.base_offset), "high_watermark", q.high_watermark)
<1>12. "count" \notin DOMAIN head
  BY DEF Put
<1> HIDE DEF head
<1>13. /\ n \in Unsigned(4)
       /\ ReadCounted(Reader(s, Put(head, "count", n)), "records", ItemOf(version))
             = Reader(<<>>, Put(head, "records", v))
  BY <1>4, <1>7, <1>11, <1>12, ReadsCounted DEF s
<1>14. Takes(a, OffsetField("base_offset"), "base_offset", q.base_offset)
  BY TakesOffset DEF a
<1>15. Takes(b, OffsetField("high_watermark"), "high_watermark", q.high_watermark)
  BY TakesOffset DEF b
<1> HIDE DEF n
<1>16. Takes(c, Field("count", "u32"), "count", n)
  BY <1>13, TakesUnsigned DEF c
<1>17. Put(Put(head, "records", v), "type", seen.type) = seen
  BY SMT DEF Put, head
<1> DEFINE counted == Put(head, "count", n)
           r == Reader(s, counted)
<1> HIDE DEF z
<1>18. Reader(bytes, z) ** OffsetField("base_offset") ** OffsetField("high_watermark") ** Field("count", "u32") = r
  BY <1>4, <1>14, <1>15, <1>16, Chain3 DEF head
<1>19. counted["count"] = n
  BY DEF Put
<1> HIDE DEF counted
<1>20. r.ok /\ r.val = counted /\ r.rest = s
  BY AllReaders
<1>21. n <= Len(s) \div 16
  BY <1>2, <1>8
<1> HIDE DEF r, bytes, seen
<1>22. Require(r, LAMBDA h : h.val["count"] <= Len(h.rest) \div 16) = r
  BY <1>19, <1>20, <1>21 DEF Require
<1>23. DecodeFetchResponseBody(Reader(bytes, z), version) = ReadCounted(r, "records", ItemOf(version))
  BY <1>18, <1>22 DEF DecodeFetchResponseBody, ItemOf
<1>24. DecodeFetchResponseBody(Reader(bytes, z), version) = Reader(<<>>, Put(head, "records", v))
  BY <1>13, <1>23 DEF r, counted
<1> QED BY <1>17, <1>24 DEF Rebuilds, z

----------------------------------------
(* Requests *)

LEMMA CompletedBody ==
    ASSUME NEW r, NEW q, Rebuilds(r, q)
    PROVE  CompleteBody(q.type, r) = Ok(q)
<1>1. PICK val : r = Reader(<<>>, val) /\ Put(val, "type", q.type) = q
  BY DEF Rebuilds
<1>2. With(r, "type", q.type) = Reader(<<>>, q)
  BY <1>1, WithReader
<1>3. r.ok /\ With(r, "type", q.type).val = q
  BY <1>1, <1>2, AllReaders
<1> QED BY <1>3 DEF CompleteBody, When

\* A body that can be encoded is decoded to itself.
LEMMA RequestBodyDecodes ==
    ASSUME NEW q \in Request, EncodeRequestBody(q).ok
    PROVE  LET bytes == EncodeRequestBody(q).value
           IN  bytes \in Text /\ (Short(bytes) => DecodeRequestBody(q.api_key, bytes) = Ok(q.body))
<1> DEFINE k == q.api_key
           b == q.body
           bytes == EncodeRequestBody(q).value
<1>1. b.type = k /\ b \in RequestBody
  BY DEF EncodeRequestBody, Err, Request
<1>2. k \in {"Produce", "Fetch", "Metadata", "CreateTopic", "CommitOffset", "FetchCommittedOffset",
             "JoinGroup", "SyncGroup", "Heartbeat", "LeaveGroup", "Nack"}
  <2>a. k \in Range(ApiKeys)
    BY DEF Request
  <2> HIDE DEF k
  <2>b. PICK i \in DOMAIN ApiKeys : k = ApiKeys[i]
    BY <2>a DEF Range
  <2> QED BY <2>b DEF ApiKeys
<1> HIDE DEF b
<1>3. CASE k = "Produce"
  <2>a. EncodeRequestBody(q) = EncodeProduceBody(b)
    BY <1>1, <1>3 DEF EncodeRequestBody, b
  <2>b. DecodeRequestBody(k, bytes) = CompleteBody(b.type, DecodeProduceBody(bytes))
    BY <1>1, <1>3 DEF DecodeRequestBody
  <2>c. b \in [type : {"Produce"}, topic : Text, partition_id : Signed(4), records : Seq(Record({{}}))]
    BY <1>1, <1>3 DEF RequestBody
  <2> QED BY <2>a, <2>b, <2>c, ProduceBody, CompletedBody DEF b
<1>4. CASE k = "Fetch"
  <2>a. EncodeRequestBody(q) = EncodeFetchBody(b)
    BY <1>1, <1>4 DEF EncodeRequestBody, b
  <2>b. DecodeRequestBody(k, bytes) = CompleteBody(b.type, DecodeFetchBody(bytes))
    BY <1>1, <1>4 DEF DecodeRequestBody
  <2>c. b \in [type : {"Fetch"}, topic : Text, partition_id : Signed(4), offset : Signed(8), max_bytes : Unsigned(4)]
    BY <1>1, <1>4 DEF RequestBody
  <2> QED BY <2>a, <2>b, <2>c, FetchBody, CompletedBody DEF b
<1>5. CASE k = "Metadata"
  <2>a. EncodeRequestBody(q) = EncodeMetadataBody(b)
    BY <1>1, <1>5 DEF EncodeRequestBody, b
  <2>b. DecodeRequestBody(k, bytes) = CompleteBody(b.type, DecodeMetadataBody(bytes))
    BY <1>1, <1>5 DEF DecodeRequestBody
  <2>c. b \in [type : {"Metadata"}, topic : Text]
    BY <1>1, <1>5 DEF RequestBody
  <2> QED BY <2>a, <2>b, <2>c, MetadataBody, CompletedBody DEF b
<1>6. CASE k = "CreateTopic"
  <2>a. EncodeRequestBody(q) = EncodeCreateTopicBody(b)
    BY <1>1, <1>6 DEF EncodeRequestBody, b
  <2>b. DecodeRequestBody(k, bytes) = CompleteBody(b.type, DecodeCreateTopicBody(bytes))
    BY <1>1, <1>6 DEF DecodeRequestBody
  <2>c. b \in [type : {"CreateTopic"}, topic : Text, partition_count : Unsigned(4)]
    BY <1>1, <1>6 DEF RequestBody
  <2> QED BY <2>a, <2>b, <2>c, CreateTopicBody, CompletedBody DEF b
<1>7. CASE k = "CommitOffset"
  <2>a. EncodeRequestBody(q) = EncodeCommitOffsetBody(b)
    BY <1>1, <1>7 DEF EncodeRequestBody, b
  <2>b. DecodeRequestBody(k, bytes) = CompleteBody(b.type, DecodeCommitOffsetBody(bytes))
    BY <1>1, <1>7 DEF DecodeRequestBody
  <2>c. b \in [type : {"CommitOffset"}, group_id : Text, topic : Text, partition_id : Signed(4), offset : Signed(8)]
    BY <1>1, <1>7 DEF RequestBody
  <2> QED BY <2>a, <2>b, <2>c, CommitOffsetBody, CompletedBody DEF b
<1>8. CASE k = "FetchCommittedOffset"
  <2>a. EncodeRequestBody(q) = EncodeFetchCommittedOffsetBody(b)
    BY <1>1, <1>8 DEF EncodeRequestBody, b
  <2>b. DecodeRequestBody(k, bytes) = CompleteBody(b.type, DecodeFetchCommittedOffsetBody(bytes))
    BY <1>1, <1>8 DEF DecodeRequestBody
  <2>c. b \in [type : {"FetchCommittedOffset"}, group_id : Text, topic : Text, partition_id : Signed(4)]
    BY <1>1, <1>8 DEF RequestBody
  <2> QED BY <2>a, <2>b, <2>c, FetchCommittedOffsetBody, CompletedBody DEF b
<1>9. CASE k = "JoinGroup"
  <2>a. EncodeRequestBody(q) = EncodeJoinGroupBody(b)
    BY <1>1, <1>9 DEF EncodeRequestBody, b
  <2>b. DecodeRequestBody(k, bytes) = CompleteBody(b.type, DecodeJoinGroupBody(bytes))
    BY <1>1, <1>9 DEF DecodeRequestBody
  <2>c. b \in [type : {"JoinGroup"}, group_id : Text, member_id : Text, topic : Text]
    BY <1>1, <1>9 DEF RequestBody
  <2> QED BY <2>a, <2>b, <2>c, JoinGroupBody, CompletedBody DEF b
<1>10. CASE k = "SyncGroup"
  <2>a. EncodeRequestBody(q) = EncodeSyncGroupBody(b)
    BY <1>1, <1>10 DEF EncodeRequestBody, b
  <2>b. DecodeRequestBody(k, bytes) = CompleteBody(b.type, DecodeSyncGroupBody(bytes))
    BY <1>1, <1>10 DEF DecodeRequestBody
  <2>c. b \in [type : {"SyncGroup"}, group_id : Text, member_id : Text, generation_id : Signed(4)]
    BY <1>1, <1>10 DEF RequestBody
  <2> QED BY <2>a, <2>b, <2>c, SyncGroupBody, CompletedBody DEF b
<1>11. CASE k = "Heartbeat"
  <2>a. EncodeRequestBody(q) = EncodeHeartbeatBody(b)
    BY <1>1, <1>11 DEF EncodeRequestBody, b
  <2>b. DecodeRequestBody(k, bytes) = CompleteBody(b.type, DecodeHeartbeatBody(bytes))
    BY <1>1, <1>11 DEF DecodeRequestBody
  <2>c. b \in [type : {"Heartbeat"}, group_id : Text, member_id : Text, generation_id : Signed(4)]
    BY <1>1, <1>11 DEF RequestBody
  <2> QED BY <2>a, <2>b, <2>c, HeartbeatBody, CompletedBody DEF b
<1>12. CASE k = "LeaveGroup"
  <2>a. EncodeRequestBody(q) = EncodeLeaveGroupBody(b)
    BY <1>1, <1>12 DEF EncodeRequestBody, b
  <2>b. DecodeRequestBody(k, bytes) = CompleteBody(b.type, DecodeLeaveGroupBody(bytes))
    BY <1>1, <1>12 DEF DecodeRequestBody
  <2>c. b \in [type : {"LeaveGroup"}, group_id : Text, member_id : Text]
    BY <1>1, <1>12 DEF RequestBody
  <2> QED BY <2>a, <2>b, <2>c, LeaveGroupBody, CompletedBody DEF b
<1>13. CASE k = "Nack"
  <2>a. EncodeRequestBody(q) = EncodeNackBody(b)
    BY <1>1, <1>13 DEF EncodeRequestBody, b
  <2>b. DecodeRequestBody(k, bytes) = CompleteBody(b.type, DecodeNackBody(bytes))
    BY <1>1, <1>13 DEF DecodeRequestBody
  <2>c. b \in [type : {"Nack"}, topic : Text, partition_id : Signed(4), offset : Signed(8), reason : Text]
    BY <1>1, <1>13 DEF RequestBody
  <2> QED BY <2>a, <2>b, <2>c, NackBody, CompletedBody DEF b
<1> QED BY <1>2, <1>3, <1>4, <1>5, <1>6, <1>7, <1>8, <1>9, <1>10, <1>11, <1>12, <1>13

LEMMA ShortBody ==
    ASSUME NEW a \in Text, NEW b \in Text, Len(a \o b) <= kMaxFrameBytes - kFrameHeaderBytes
    PROVE  Short(a) /\ Short(b)
<1>1. a \o b \in Text /\ Len(a \o b) \in Nat
  BY TextConcat, LenProperties DEF Text
<1>2. kMaxFrameBytes \in Nat
  BY CodecAssumption, PowerType
<1>3. Short(a \o b)
  BY <1>1, <1>2 DEF Short, kFrameHeaderBytes
<1> QED BY <1>3, ShortParts

\* A request that can be encoded: its frame says how long it is and is decoded to it.
THEOREM RequestFrame ==
    ASSUME NEW q \in Request, EncodeRequest(q).ok
    PROVE  /\ WellDelimited(EncodeRequest(q).value)
           /\ DecodeRequest(EncodeRequest(q).value) = Ok(q)
<1> DEFINE k == q.api_key
           v == q.version
           id == q.request_id
           e == EncodeRequestBody(q)
           body == e.value
           r == AppendFrameHeader(k, v, id, body)
           f == r.value
<1>1. k \in Range(ApiKeys) /\ id \in Unsigned(8)
      /\ q = [api_key |-> k, version |-> v, request_id |-> id, body |-> q.body]
  BY DEF Request
<1>2. SupportedProtocolVersion(v) /\ e.ok /\ EncodeRequest(q) = r
  BY DEF EncodeRequest, Then, Err
<1>3. body \in Text /\ (Short(body) => DecodeRequestBody(k, body) = Ok(q.body))
  BY <1>2, RequestBodyDecodes
<1> HIDE DEF e, body, k, v, id
<1>4. /\ WellDelimited(f) /\ HeaderOk(f)
      /\ ApiKeys[ApiKeyOf(f)] = k /\ VersionOf(f) = v /\ RequestIdOf(f) = id
      /\ BodyOf(f) = body /\ Len(body) <= kMaxFrameBytes - kFrameHeaderBytes
  BY <1>1, <1>2, <1>3, FrameHeader
<1>5. Short(body)
  <2>a. Len(body) \in Nat /\ kMaxFrameBytes \in Nat
    BY <1>3, LenProperties, CodecAssumption, PowerType DEF Text
  <2> QED BY <1>3, <1>4, <2>a DEF Short, kFrameHeaderBytes
<1> HIDE DEF f
<1>6. DecodeRequestBody(k, body) = Ok(q.body)
  BY <1>3, <1>5
<1>7. DecodeRequestBody(k, body).ok /\ DecodeRequestBody(k, body).value = q.body
  BY <1>6, Results
<1>8. DecodeRequest(f) = Ok([api_key |-> k, version |-> v, request_id |-> id, body |-> q.body])
  BY <1>4, <1>7 DEF DecodeRequest, Then
<1> QED BY <1>1, <1>2, <1>4, <1>8 DEF f

----------------------------------------
(* Responses *)

LEMMA CompletedResponse ==
    ASSUME NEW r, NEW q, Rebuilds(r, q)
    PROVE  With(r, "type", q.type) = Reader(<<>>, q)
<1>1. PICK val : r = Reader(<<>>, val) /\ Put(val, "type", q.type) = q
  BY DEF Rebuilds
<1> QED BY <1>1, WithReader

\* A body that can be encoded is decoded to what the version can carry of it.
LEMMA ResponseBodyDecodes ==
    ASSUME NEW p \in Response, p.error_code = "None", p.body \in ResponseBody,
           SupportedProtocolVersion(p.version), EncodeResponseBody(p).ok
    PROVE  LET bytes == EncodeResponseBody(p).value
           IN  /\ bytes \in Text
               /\ Short(bytes) => DecodeResponseBody(p.api_key, Reader(bytes, <<>>), p.version)
                                     = Reader(<<>>, BodyOnTheWire(p))
<1> DEFINE k == p.api_key
           b == p.body
           v == p.version
           bytes == EncodeResponseBody(p).value
           in == Reader(bytes, <<>>)
<1>1. b.type = k /\ b \in ResponseBody
  BY DEF EncodeResponseBody, Err
<1>2. k \in {"Produce", "Fetch", "Metadata", "CreateTopic", "CommitOffset", "FetchCommittedOffset",
             "JoinGroup", "SyncGroup", "Heartbeat", "LeaveGroup", "Nack"}
  <2>a. k \in Range(ApiKeys)
    BY DEF Response
  <2> HIDE DEF k
  <2>b. PICK i \in DOMAIN ApiKeys : k = ApiKeys[i]
    BY <2>a DEF Range
  <2> QED BY <2>b DEF ApiKeys
<1>3. k # "Fetch" => BodyOnTheWire(p) = b
  BY DEF BodyOnTheWire
<1>4. v \in {1, 2}
  BY Versions
<1> HIDE DEF b, in
<1>5. CASE k = "Produce"
  <2>a. EncodeResponseBody(p) = EncodeProduceResponseBody(b)
    BY <1>1, <1>5 DEF EncodeResponseBody, b
  <2>b. DecodeResponseBody(k, in, v) = With(DecodeProduceResponseBody(in), "type", b.type)
    BY <1>1, <1>5 DEF DecodeResponseBody
  <2>c. b \in [type : {"Produce"}, partition_id : Signed(4), base_offset : Signed(8), record_count : Unsigned(4)]
    BY <1>1, <1>5 DEF ResponseBody
  <2>d. bytes \in Text /\ (Short(bytes) => Rebuilds(DecodeProduceResponseBody(in), b))
    BY <2>a, <2>c, ProduceResponseBody DEF in
  <2> QED BY <1>3, <1>5, <2>b, <2>d, CompletedResponse DEF in
<1>6. CASE k = "Metadata"
  <2>a. EncodeResponseBody(p) = EncodeMetadataResponseBody(b)
    BY <1>1, <1>6 DEF EncodeResponseBody, b
  <2>b. DecodeResponseBody(k, in, v) = With(DecodeMetadataResponseBody(in), "type", b.type)
    BY <1>1, <1>6 DEF DecodeResponseBody
  <2>c. b \in [type : {"Metadata"}, topics : Seq([topic : Text, partition_count : Unsigned(4)])]
    BY <1>1, <1>6 DEF ResponseBody
  <2>d. bytes \in Text /\ (Short(bytes) => Rebuilds(DecodeMetadataResponseBody(in), b))
    BY <2>a, <2>c, MetadataResponseBody DEF in
  <2> QED BY <1>3, <1>6, <2>b, <2>d, CompletedResponse DEF in
<1>7. CASE k = "CreateTopic"
  <2>a. EncodeResponseBody(p) = EncodeCreateTopicResponseBody(b)
    BY <1>1, <1>7 DEF EncodeResponseBody, b
  <2>b. DecodeResponseBody(k, in, v) = With(DecodeCreateTopicResponseBody(in), "type", b.type)
    BY <1>1, <1>7 DEF DecodeResponseBody
  <2>c. b \in [type : {"CreateTopic"}, topic : Text, partition_count : Unsigned(4)]
    BY <1>1, <1>7 DEF ResponseBody
  <2>d. bytes \in Text /\ (Short(bytes) => Rebuilds(DecodeCreateTopicResponseBody(in), b))
    BY <2>a, <2>c, CreateTopicResponseBody DEF in
  <2> QED BY <1>3, <1>7, <2>b, <2>d, CompletedResponse DEF in
<1>8. CASE k = "CommitOffset"
  <2>a. EncodeResponseBody(p) = EncodeCommitOffsetResponseBody(b)
    BY <1>1, <1>8 DEF EncodeResponseBody, b
  <2>b. DecodeResponseBody(k, in, v) = With(DecodeCommitOffsetResponseBody(in), "type", b.type)
    BY <1>1, <1>8 DEF DecodeResponseBody
  <2>c. b \in [type : {"CommitOffset"}, group_id : Text, topic : Text, partition_id : Signed(4), offset : Signed(8)]
    BY <1>1, <1>8 DEF ResponseBody
  <2>d. bytes \in Text /\ (Short(bytes) => Rebuilds(DecodeCommitOffsetResponseBody(in), b))
    BY <2>a, <2>c, CommitOffsetResponseBody DEF in
  <2> QED BY <1>3, <1>8, <2>b, <2>d, CompletedResponse DEF in
<1>9. CASE k = "FetchCommittedOffset"
  <2>a. EncodeResponseBody(p) = EncodeFetchCommittedOffsetResponseBody(b)
    BY <1>1, <1>9 DEF EncodeResponseBody, b
  <2>b. DecodeResponseBody(k, in, v) = With(DecodeFetchCommittedOffsetResponseBody(in), "type", b.type)
    BY <1>1, <1>9 DEF DecodeResponseBody
  <2>c. b \in [type : {"FetchCommittedOffset"}, group_id : Text, topic : Text, partition_id : Signed(4), committed : BOOLEAN, offset : Signed(8)]
    BY <1>1, <1>9 DEF ResponseBody
  <2>d. bytes \in Text /\ (Short(bytes) => Rebuilds(DecodeFetchCommittedOffsetResponseBody(in), b))
    BY <2>a, <2>c, FetchCommittedOffsetResponseBody DEF in
  <2> QED BY <1>3, <1>9, <2>b, <2>d, CompletedResponse DEF in
<1>10. CASE k = "JoinGroup"
  <2>a. EncodeResponseBody(p) = EncodeJoinGroupResponseBody(b)
    BY <1>1, <1>10 DEF EncodeResponseBody, b
  <2>b. DecodeResponseBody(k, in, v) = With(DecodeJoinGroupResponseBody(in), "type", b.type)
    BY <1>1, <1>10 DEF DecodeResponseBody
  <2>c. b \in [type : {"JoinGroup"}, group_id : Text, member_id : Text, generation_id : Signed(4), leader_id : Text]
    BY <1>1, <1>10 DEF ResponseBody
  <2>d. bytes \in Text /\ (Short(bytes) => Rebuilds(DecodeJoinGroupResponseBody(in), b))
    BY <2>a, <2>c, JoinGroupResponseBody DEF in
  <2> QED BY <1>3, <1>10, <2>b, <2>d, CompletedResponse DEF in
<1>11. CASE k = "SyncGroup"
  <2>a. EncodeResponseBody(p) = EncodeSyncGroupResponseBody(b)
    BY <1>1, <1>11 DEF EncodeResponseBody, b
  <2>b. DecodeResponseBody(k, in, v) = With(DecodeSyncGroupResponseBody(in), "type", b.type)
    BY <1>1, <1>11 DEF DecodeResponseBody
  <2>c. b \in [type : {"SyncGroup"}, group_id : Text, member_id : Text, generation_id : Signed(4), assignment : Assignment]
    BY <1>1, <1>11 DEF ResponseBody, Assignment
  <2>d. bytes \in Text /\ (Short(bytes) => Rebuilds(DecodeSyncGroupResponseBody(in), b))
    BY <2>a, <2>c, SyncGroupResponseBody DEF in
  <2> QED BY <1>3, <1>11, <2>b, <2>d, CompletedResponse DEF in
<1>12. CASE k = "Heartbeat"
  <2>a. EncodeResponseBody(p) = EncodeHeartbeatResponseBody(b)
    BY <1>1, <1>12 DEF EncodeResponseBody, b
  <2>b. DecodeResponseBody(k, in, v) = With(DecodeHeartbeatResponseBody(in), "type", b.type)
    BY <1>1, <1>12 DEF DecodeResponseBody
  <2>c. b \in [type : {"Heartbeat"}, group_id : Text, member_id : Text, generation_id : Signed(4)]
    BY <1>1, <1>12 DEF ResponseBody
  <2>d. bytes \in Text /\ (Short(bytes) => Rebuilds(DecodeHeartbeatResponseBody(in), b))
    BY <2>a, <2>c, HeartbeatResponseBody DEF in
  <2> QED BY <1>3, <1>12, <2>b, <2>d, CompletedResponse DEF in
<1>13. CASE k = "LeaveGroup"
  <2>a. EncodeResponseBody(p) = EncodeLeaveGroupResponseBody(b)
    BY <1>1, <1>13 DEF EncodeResponseBody, b
  <2>b. DecodeResponseBody(k, in, v) = With(DecodeLeaveGroupResponseBody(in), "type", b.type)
    BY <1>1, <1>13 DEF DecodeResponseBody
  <2>c. b \in [type : {"LeaveGroup"}, group_id : Text, member_id : Text, generation_id : Signed(4)]
    BY <1>1, <1>13 DEF ResponseBody
  <2>d. bytes \in Text /\ (Short(bytes) => Rebuilds(DecodeLeaveGroupResponseBody(in), b))
    BY <2>a, <2>c, LeaveGroupResponseBody DEF in
  <2> QED BY <1>3, <1>13, <2>b, <2>d, CompletedResponse DEF in
<1>14. CASE k = "Nack"
  <2>a. EncodeResponseBody(p) = EncodeNackResponseBody(b)
    BY <1>1, <1>14 DEF EncodeResponseBody, b
  <2>b. DecodeResponseBody(k, in, v) = With(DecodeNackResponseBody(in), "type", b.type)
    BY <1>1, <1>14 DEF DecodeResponseBody
  <2>c. b \in [type : {"Nack"}, topic : Text, partition_id : Signed(4), offset : Signed(8), retry : RetryMetadata, dead_letter : BOOLEAN]
    BY <1>1, <1>14 DEF ResponseBody
  <2>d. bytes \in Text /\ (Short(bytes) => Rebuilds(DecodeNackResponseBody(in), b))
    BY <2>a, <2>c, NackResponseBody DEF in
  <2> QED BY <1>3, <1>14, <2>b, <2>d, CompletedResponse DEF in
<1>15. CASE k = "Fetch"
  <2> DEFINE F == [type : {"Fetch"}, base_offset : Signed(8), high_watermark : Signed(8),
                   records : Seq(Record(OptionalRetry))]
             seen == [type |-> "Fetch", base_offset |-> b.base_offset,
                      high_watermark |-> b.high_watermark,
                      records |-> [i \in DOMAIN b.records |-> Seen(b.records[i], v)]]
  <2>a. EncodeResponseBody(p) = EncodeFetchResponseBody(b, v)
    BY <1>1, <1>15 DEF EncodeResponseBody, b
  <2>b. DecodeResponseBody(k, in, v) = With(DecodeFetchResponseBody(in, v), "type", "Fetch")
    BY <1>15 DEF DecodeResponseBody
  <2>c. b \in F
    BY <1>1, <1>15 DEF ResponseBody
  <2>d. seen = BodyOnTheWire(p)
    <3>1. CASE v = 1
      <4>1. ~(1 = kRetryProtocolVersion) /\ kProtocolVersion = 1
        BY DEF kRetryProtocolVersion, kProtocolVersion
      <4>2. [i \in DOMAIN b.records |-> Seen(b.records[i], v)]
               = [i \in DOMAIN b.records |-> WithoutRetry(b.records[i])]
        BY <3>1, <4>1 DEF Seen
      <4>3. BodyOnTheWire(p) = [type |-> "Fetch", base_offset |-> b.base_offset,
                                high_watermark |-> b.high_watermark,
                                records |-> [i \in DOMAIN b.records |-> WithoutRetry(b.records[i])]]
        BY <1>15, <3>1, <4>1 DEF BodyOnTheWire, b
      <4> QED BY <4>2, <4>3
    <3>2. CASE v = 2
      <4>1. 2 = kRetryProtocolVersion /\ kProtocolVersion # 2
        BY DEF kRetryProtocolVersion, kProtocolVersion
      <4> DEFINE l == b.records
      <4>2. [i \in DOMAIN l |-> Seen(l[i], v)] = l
        <5>1. l = [i \in DOMAIN l |-> l[i]]
          <6>1. l \in Seq(Record(OptionalRetry))
            BY <2>c
          <6> HIDE DEF l
          <6>2. l \in [1 .. Len(l) -> Record(OptionalRetry)]
            BY <6>1, LenProperties
          <6> QED BY <6>2
        <5> HIDE DEF l
        <5>2. \A i \in DOMAIN l : Seen(l[i], v) = l[i]
          BY <3>2, <4>1 DEF Seen
        <5> QED BY <5>1, <5>2
      <4>3. BodyOnTheWire(p) = b
        BY <1>15, <3>2, <4>1 DEF BodyOnTheWire, b
      <4>4. b = [type |-> "Fetch", base_offset |-> b.base_offset,
                 high_watermark |-> b.high_watermark, records |-> l]
        BY <2>c
      <4> QED BY <4>2, <4>3, <4>4
    <3> QED BY <1>4, <3>1, <3>2
  <2>e. bytes \in Text /\ (Short(bytes) => Rebuilds(DecodeFetchResponseBody(in, v), seen))
    BY <1>4, <2>a, <2>c, FetchResponseBody DEF in
  <2>f. seen.type = "Fetch"
    OBVIOUS
  <2> HIDE DEF seen
  <2>g. Short(bytes) => With(DecodeFetchResponseBody(in, v), "type", "Fetch") = Reader(<<>>, seen)
    BY <2>e, <2>f, CompletedResponse
  <2> QED BY <2>b, <2>d, <2>e, <2>g DEF in
<1> QED BY <1>2, <1>15, <1>5, <1>6, <1>7, <1>8, <1>9, <1>10, <1>11, <1>12, <1>13, <1>14

\* A response that can be encoded: its frame says how long it is and is decoded to what
\* its version can carry.
THEOREM ResponseFrame ==
    ASSUME NEW p \in Response, p.error_code = "None" => p.body \in ResponseBody,
           EncodeResponse(p).ok
    PROVE  /\ WellDelimited(EncodeResponse(p).value)
           /\ DecodeResponse(EncodeResponse(p).value) = Ok(OnTheWire(p))
<1> DEFINE k == p.api_key
           v == p.version
           id == p.request_id
           code == p.error_code
           message == p.message
           e == IF code = "None" THEN EncodeResponseBody(p) ELSE Ok(<<>>)
           bytes == e.value
           env == ErrorEnvelope(code, message)
           r == AppendFrameHeader(k, v, id, env \o bytes)
           val == BodyOnTheWire(p)
<1>1. k \in Range(ApiKeys) /\ id \in Unsigned(8) /\ code \in Range(ErrorCodes) /\ message \in Text
  BY DEF Response
<1>2. SupportedProtocolVersion(v) /\ e.ok /\ EncodeResponse(p) = r /\ r.ok
  BY DEF EncodeResponse, Then, Err
<1>3. bytes \in Text /\ (Short(bytes) => ContentsDecode(k, v, code, bytes, val))
  <2>a. CASE code = "None"
    <3>1. e = EncodeResponseBody(p)
      BY <2>a
    <3> HIDE DEF e
    <3> QED BY <1>2, <2>a, <3>1, ResponseBodyDecodes DEF ContentsDecode
  <2>b. CASE code # "None"
    <3>1. e = Ok(<<>>)
      BY <2>b
    <3>2. bytes = <<>>
      BY <3>1, Results
    <3>3. val = EmptyResponseBodyFor(k)
      BY <2>b DEF BodyOnTheWire
    <3> HIDE DEF bytes, val
    <3> QED BY <2>b, <3>2, <3>3, TextEmpty DEF ContentsDecode
  <2> QED BY <2>a, <2>b
<1>4. env \in Text
  <2>a. ErrorCodeValue(code) \in Unsigned(2)
    BY <1>1, ErrorCodeNumber
  <2>b. U16(ErrorCodeValue(code)) \in Text
    BY <2>a, Written DEF U16
  <2> QED BY <1>1, <2>b, Strings, TextConcat DEF ErrorEnvelope
<1> HIDE DEF bytes, e, val
<1>5. Len(env \o bytes) <= kMaxFrameBytes - kFrameHeaderBytes
  BY <1>2 DEF AppendFrameHeader, When, Err
<1>6. Short(bytes)
  <2> HIDE DEF env
  <2> QED BY <1>3, <1>4, <1>5, ShortBody
<1>7. ContentsDecode(k, v, code, bytes, val)
  BY <1>3, <1>6
<1> HIDE DEF k, v, id, code, message
<1>8. /\ WellDelimited(r.value)
      /\ DecodeResponse(r.value) = Ok([api_key |-> k, version |-> v, request_id |-> id,
                                       error_code |-> code, message |-> message, body |-> val])
  <2>a. \A s : s = AppendFrameHeader(k, v, id, ErrorEnvelope(code, message) \o bytes) /\ s.ok =>
          /\ WellDelimited(s.value)
          /\ DecodeResponse(s.value) = Ok([api_key |-> k, version |-> v, request_id |-> id,
                                           error_code |-> code, message |-> message, body |-> val])
    BY <1>1, <1>2, <1>3, <1>7, ResponseDecodes
  <2> QED BY <1>2, <2>a
<1> QED BY <1>2, <1>8 DEF OnTheWire, k, v, id, code, message, val

----------------------------------------
(* What a script says of its exchanges *)

Sendable(x) == IsForeign(x) \/ EncodeRequest(x.request).ok
FrameOf(x) == IF IsForeign(x) THEN x.foreign ELSE EncodeRequest(x.request).value
ReplyOf(x) == IF EncodeResponse(x.response).ok THEN EncodeResponse(x.response).value
              ELSE InternalReply(x.request, NoEncoding)
ErrorReply == EncodeErrorResponse("Produce", kProtocolVersion, 0, "InvalidRequest", <<1>>).value

LEMMA ScriptFacts ==
    ASSUME NEW s \in Scripts, NEW i \in DOMAIN s
    PROVE  /\ s[i] \in Exchange
           /\ s[i].response.request_id = s[i].request.request_id
           /\ s[i].response.api_key = s[i].request.api_key
           /\ s[i].response.error_code = "None" => s[i].response.body \in ResponseBody
           /\ s[i].request.request_id # 0
           /\ \A j \in DOMAIN s : s[i].request = s[j].request => i = j
           /\ IsForeign(s[i]) => Refused(s[i].foreign)
<1>1. s \in Seq(Exchange)
  BY ScriptsAssumption
<1>2. s[i] \in Exchange
  BY <1>1
<1> QED BY <1>2, ScriptsAssumption

LEMMA FrameFacts ==
    ASSUME NEW s \in Scripts, NEW i \in DOMAIN s, Sendable(s[i])
    PROVE  /\ WellDelimited(FrameOf(s[i]))
           /\ IsForeign(s[i]) => ~DecodeRequest(FrameOf(s[i])).ok
           /\ ~IsForeign(s[i]) => DecodeRequest(FrameOf(s[i])) = Ok(s[i].request)
<1> DEFINE x == s[i]
<1>1. x \in Exchange /\ (IsForeign(x) => Refused(x.foreign))
  BY ScriptFacts
<1> HIDE DEF x
<1>2. x.request \in Request /\ x.foreign \in Text
  BY <1>1 DEF Exchange, Text
<1>3. CASE IsForeign(x)
  BY <1>1, <1>2, <1>3 DEF FrameOf, Refused, WellDelimited, x
<1>4. CASE ~IsForeign(x)
  <2>a. EncodeRequest(x.request).ok
    BY <1>4 DEF Sendable, x
  <2> QED BY <1>2, <1>4, <2>a, RequestFrame DEF FrameOf, x
<1> QED BY <1>3, <1>4

LEMMA RequestParts ==
    ASSUME NEW q \in Request
    PROVE  q.api_key \in Range(ApiKeys) /\ q.request_id \in Unsigned(8)
BY DEF Request

LEMMA ErrorNames == {"InvalidRequest", "Internal"} \subseteq Range(ErrorCodes)
                    /\ "Produce" \in Range(ApiKeys)
<1>1. ErrorCodes[2] = "InvalidRequest" /\ ErrorCodes[5] = "Internal" /\ DOMAIN ErrorCodes = 1 .. 8
  BY DEF ErrorCodes
<1>2. ApiKeys[1] = "Produce" /\ DOMAIN ApiKeys = 1 .. 11
  BY DEF ApiKeys
<1> QED BY <1>1, <1>2 DEF Range

LEMMA InternalReplyFacts ==
    ASSUME NEW q \in Request, NEW message \in {NoEncoding, QueueFull}
    PROVE  /\ WellDelimited(InternalReply(q, message))
           /\ DecodeResponse(InternalReply(q, message)) = Ok(InternalError(q, message))
<1>1. "Internal" \in Range(ErrorCodes) /\ "Internal" # "None"
  BY ErrorNames
<1>2. PICK c \in Byte : message = <<c>>
  <2>a. 2 \in Byte /\ 3 \in Byte
    BY RadixType DEF Byte
  <2> QED BY <2>a DEF NoEncoding, QueueFull
<1> DEFINE e == EncodeErrorResponse(q.api_key, kProtocolVersion, q.request_id, "Internal", <<c>>)
<1>3. /\ e.ok /\ WellDelimited(e.value)
      /\ DecodeResponse(e.value) = Ok(InternalError(q, <<c>>))
  BY <1>1, <1>2, RequestParts, ErrorFrame DEF InternalError
<1>4. InternalReply(q, message) = e.value
  BY <1>2, <1>3 DEF InternalReply, OrElse
<1> QED BY <1>2, <1>3, <1>4

LEMMA ErrorReplyFacts ==
    /\ WellDelimited(ErrorReply) /\ DecodeResponse(ErrorReply).ok
    /\ DecodeResponse(ErrorReply).value.request_id = 0
<1>1. "InvalidRequest" \in Range(ErrorCodes) /\ "InvalidRequest" # "None" /\ "Produce" \in Range(ApiKeys)
  BY ErrorNames
<1>2. 1 \in Byte /\ 0 \in Unsigned(8)
  <2>a. Power[8] \in Nat /\ Power[8] > 0
    BY PowerType
  <2> QED BY <2>a, RadixType DEF Byte, Unsigned
<1>3. /\ WellDelimited(ErrorReply)
      /\ DecodeResponse(ErrorReply) =
            Ok([api_key |-> "Produce", version |-> kProtocolVersion, request_id |-> 0,
                error_code |-> "InvalidRequest", message |-> <<1>>,
                body |-> EmptyResponseBodyFor("Produce")])
  BY <1>1, <1>2, ErrorFrame DEF ErrorReply
<1> QED BY <1>3 DEF Ok

LEMMA ReplyFacts ==
    ASSUME NEW s \in Scripts, NEW i \in DOMAIN s
    PROVE  /\ WellDelimited(ReplyOf(s[i]))
           /\ DecodeResponse(ReplyOf(s[i])) = Ok(Expected(s[i]))
           /\ Matches(Expected(s[i]), s[i].request)
           /\ ~Matches(DecodeResponse(ErrorReply).value, s[i].request)
<1> DEFINE x == s[i]
<1>1. /\ x \in Exchange
      /\ x.response.request_id = x.request.request_id /\ x.response.api_key = x.request.api_key
      /\ x.response.error_code = "None" => x.response.body \in ResponseBody
      /\ x.request.request_id # 0
  BY ScriptFacts
<1> HIDE DEF x
<1>2. x.request \in Request /\ x.response \in Response
  BY <1>1 DEF Exchange
<1>3. ~Matches(DecodeResponse(ErrorReply).value, x.request)
  BY <1>1, ErrorReplyFacts DEF Matches
<1>4. CASE EncodeResponse(x.response).ok
  <2>a. Expected(x) = OnTheWire(x.response) /\ ReplyOf(x) = EncodeResponse(x.response).value
    BY <1>4 DEF Expected, ReplyOf
  <2>b. WellDelimited(ReplyOf(x)) /\ DecodeResponse(ReplyOf(x)) = Ok(Expected(x))
    BY <1>1, <1>2, <1>4, <2>a, ResponseFrame
  <2>c. Matches(OnTheWire(x.response), x.request)
    BY <1>1 DEF Matches, OnTheWire
  <2> QED BY <1>3, <2>a, <2>b, <2>c DEF x
<1>5. CASE ~EncodeResponse(x.response).ok
  <2>a. ReplyOf(x) = InternalReply(x.request, NoEncoding)
    BY <1>5 DEF ReplyOf
  <2>b. Expected(x) = InternalError(x.request, NoEncoding)
    BY <1>5 DEF Expected
  <2>c. WellDelimited(ReplyOf(x)) /\ DecodeResponse(ReplyOf(x)) = Ok(Expected(x))
    BY <1>2, <2>a, <2>b, InternalReplyFacts
  <2>d. Matches(Expected(x), x.request)
    BY <2>b DEF Matches, InternalError
  <2> QED BY <1>3, <2>c, <2>d DEF x
<1> QED BY <1>4, <1>5

----------------------------------------
(* The inductive invariant *)

On == [k \in 1 .. Len(wire) |-> script[wire[k]]]
Frames == [k \in 1 .. Len(wire) |-> FrameOf(On[k])]
AnswerTo(x) == IF x.request \in rejected THEN InternalReply(x.request, QueueFull) ELSE ReplyOf(x)
Replies == [k \in 1 .. Len(wire) |-> AnswerTo(On[k])]
Unread == SubSeq(output.data, output.reader_index + 1, Len(output.data))

Typed ==
    /\ script \in Scripts
    /\ sent \in 0 .. Len(script)
    /\ answers = [i \in DOMAIN script |-> answers[i]]
    /\ connected \in BOOLEAN /\ open \in BOOLEAN /\ reading \in BOOLEAN /\ closing \in BOOLEAN
    /\ stopped \in BOOLEAN
    /\ to_server \in Text /\ to_client \in Text
    /\ output \in [data : Text, reader_index : Nat] /\ output.reader_index <= Len(output.data)

\* What was sent is exchanges of the script in their order.
Ordered ==
    /\ wire \in Seq(DOMAIN script)
    /\ \A k \in 1 .. Len(wire) : wire[k] <= sent /\ Sendable(On[k])
    /\ \A j, k \in 1 .. Len(wire) : j < k => wire[j] < wire[k]

\* The worker has the request after those that were executed.
Held ==
    current # {} => /\ Len(executed) < Len(wire)
                    /\ current = {On[Len(executed) + 1].request}
                    /\ ~IsForeign(On[Len(executed) + 1])

\* A request that was turned away is the one after those, and the last that was taken.
TurnedAway ==
    rejected # {} => /\ closing /\ current = {}
                     /\ Len(executed) < Len(wire)
                     /\ rejected = {On[Len(executed) + 1].request}
                     /\ ~IsForeign(On[Len(executed) + 1])

Done == Len(executed) + (IF rejected = {} THEN 0 ELSE 1)
Taken == Done + (IF current = {} THEN 0 ELSE 1)

\* As long as no frame was refused, requests_ continues what was taken up to frame j,
\* and the bytes read and not read are the frames after j.
Decoding ==
    ~closing \/ Clean =>
        \E j \in Taken .. Len(wire) :
           /\ requests = [k \in 1 .. j - Taken |-> On[Taken + k].request]
           /\ \A k \in 1 .. j : ~IsForeign(On[k])
           /\ buffer \in Text /\ Incomplete(buffer)
           /\ Cut(buffer \o to_server, Frames, j, Len(wire), <<>>)

\* The calls of a client that is connected; one that is not waits for nothing.
Calling ==
    /\ connected =>
        \A i \in DOMAIN script :
           /\ i > sent => answers[i].code = "none"
           /\ i <= sent => answers[i].code \in {"waiting", "answered", "refused"}
           /\ answers[i].code \in {"waiting", "answered"} => \E k \in 1 .. Len(wire) : wire[k] = i
    /\ ~connected => \A i \in DOMAIN script : answers[i].code # "waiting"

\* s is the replies after the m-th up to the d-th, or up to an error reply.
Streams(s, f, m, d, errors) ==
    \E k \in m .. d, rest \in Text :
       /\ Cut(s, f, m, k, rest)
       /\ \/ k = d /\ rest = <<>>
          \/ errors /\ \E r \in Text : rest = ErrorReply \o r

\* The bytes on their way to it.
RepliesFrom(m) == Streams(to_client \o Unread, Replies, m, Done, closing /\ ~Clean)
Replying ==
    connected =>
        \E m \in 0 .. Done :
           /\ \A k \in 1 .. Len(wire) :
                 answers[wire[k]].code = IF k <= m THEN "answered" ELSE "waiting"
           /\ RepliesFrom(m)

Untroubled == ~stopped /\ Clean /\ rejected = {} => ~closing /\ open /\ connected

Idle == open /\ ~reading /\ ~closing /\ current = {} => requests = <<>>

\* A connection that is to be closed has bytes to write before, and has written them
\* when it was closed on account of a full queue.
Flushing ==
    /\ closing /\ open => Unread # <<>>
    /\ rejected # {} /\ ~stopped /\ Clean /\ connected /\ ~open => Unread = <<>>

IInv ==
    /\ Typed /\ Ordered /\ executed \in Seq(Request) /\ RequestsIntact /\ Held /\ Decoding
    /\ Calling /\ Replying /\ AnswersMatch /\ Untroubled /\ Idle /\ TurnedAway /\ Flushing

----------------------------------------
(* Facts about a state of the invariant *)

LEMMA WireFacts ==
    ASSUME Typed, Ordered
    PROVE  /\ Len(wire) \in Nat /\ sent \in Nat /\ Len(script) \in Nat
           /\ DOMAIN script = 1 .. Len(script)
           /\ \A k \in 1 .. Len(wire) :
                 /\ wire[k] \in DOMAIN script /\ wire[k] \in Nat
                 /\ On[k] \in Exchange /\ On[k].request \in Request
                 /\ WellDelimited(Frames[k]) /\ Frames[k] \in Text
                 /\ IsForeign(On[k]) => ~DecodeRequest(Frames[k]).ok
                 /\ ~IsForeign(On[k]) => DecodeRequest(Frames[k]) = Ok(On[k].request)
                 /\ WellDelimited(Replies[k]) /\ Replies[k] \in Text
                 /\ DecodeResponse(Replies[k]) = Ok(Given(On[k]))
                 /\ Matches(Given(On[k]), On[k].request)
<1>1. script \in Seq(Exchange)
  BY ScriptsAssumption DEF Typed
<1>2. Len(wire) \in Nat /\ sent \in Nat /\ Len(script) \in Nat /\ DOMAIN script = 1 .. Len(script)
  BY <1>1 DEF Typed, Ordered
<1>3. ASSUME NEW k \in 1 .. Len(wire)
      PROVE  /\ wire[k] \in DOMAIN script /\ wire[k] \in Nat
             /\ On[k] \in Exchange /\ On[k].request \in Request
             /\ WellDelimited(Frames[k]) /\ Frames[k] \in Text
             /\ IsForeign(On[k]) => ~DecodeRequest(Frames[k]).ok
             /\ ~IsForeign(On[k]) => DecodeRequest(Frames[k]) = Ok(On[k].request)
             /\ WellDelimited(Replies[k]) /\ Replies[k] \in Text
             /\ DecodeResponse(Replies[k]) = Ok(Given(On[k]))
             /\ Matches(Given(On[k]), On[k].request)
  <2>a. wire[k] \in DOMAIN script /\ wire[k] \in Nat
    BY <1>2 DEF Ordered
  <2>b. script \in Scripts /\ Sendable(On[k]) /\ On[k] = script[wire[k]]
    BY DEF Typed, Ordered, On
  <2>c. Frames[k] = FrameOf(On[k]) /\ Replies[k] = AnswerTo(On[k])
    BY DEF Frames, Replies
  <2>d. On[k] \in Exchange /\ On[k].request \in Request
    <3>1. On[k] \in Exchange
      BY <1>1, <2>a, <2>b
    <3> QED BY <3>1 DEF Exchange
  <2>e. /\ WellDelimited(Frames[k]) /\ (IsForeign(On[k]) => ~DecodeRequest(Frames[k]).ok)
        /\ ~IsForeign(On[k]) => DecodeRequest(Frames[k]) = Ok(On[k].request)
    BY <2>a, <2>b, <2>c, FrameFacts
  <2>f. /\ WellDelimited(Replies[k]) /\ DecodeResponse(Replies[k]) = Ok(Given(On[k]))
        /\ Matches(Given(On[k]), On[k].request)
    <3>1. CASE On[k].request \in rejected
      <4>1. Replies[k] = InternalReply(On[k].request, QueueFull)
            /\ Given(On[k]) = InternalError(On[k].request, QueueFull)
        BY <2>c, <3>1 DEF AnswerTo, Given
      <4>2. Matches(Given(On[k]), On[k].request)
        BY <4>1 DEF Matches, InternalError
      <4> QED BY <2>d, <4>1, <4>2, InternalReplyFacts
    <3>2. CASE On[k].request \notin rejected
      <4>1. Replies[k] = ReplyOf(On[k]) /\ Given(On[k]) = Expected(On[k])
        BY <2>c, <3>2 DEF AnswerTo, Given
      <4> QED BY <2>a, <2>b, <4>1, ReplyFacts
    <3> QED BY <3>1, <3>2
  <2>g. Frames[k] \in Text /\ Replies[k] \in Text
    BY <2>e, <2>f DEF WellDelimited
  <2> QED BY <2>a, <2>d, <2>e, <2>f, <2>g
<1> QED BY <1>2, <1>3

\* Everything sent and everything the service does keeps its place.
LEMMA SameOn ==
    ASSUME UNCHANGED <<script, wire>>
    PROVE  /\ Frames' = Frames /\ On' = On /\ (rejected' = rejected => Replies' = Replies)
BY DEF Frames, Replies, On, AnswerTo

\* No request was sent twice, and the service has run the first ones.
LEMMA Distinct ==
    ASSUME Typed, Ordered, executed \in Seq(Request), RequestsIntact
    PROVE  /\ \A j, k \in 1 .. Len(wire) : On[j].request = On[k].request => j = k
           /\ \A k \in 1 .. Len(wire) : Ran(On[k].request) <=> k <= Len(executed)
<1>1. /\ Len(wire) \in Nat /\ Len(executed) \in Nat /\ DOMAIN executed = 1 .. Len(executed)
      /\ script \in Scripts /\ Len(executed) <= Len(wire)
      /\ \A k \in 1 .. Len(wire) : wire[k] \in DOMAIN script /\ wire[k] \in Nat
                                    /\ On[k] = script[wire[k]]
  BY WireFacts DEF Typed, RequestsIntact, On
<1>2. ASSUME NEW j \in 1 .. Len(wire), NEW k \in 1 .. Len(wire), On[j].request = On[k].request
      PROVE  j = k
  <2>a. wire[j] = wire[k]
    BY <1>1, <1>2, ScriptFacts
  <2>b. j < k => wire[j] < wire[k]
    BY DEF Ordered
  <2>c. k < j => wire[k] < wire[j]
    BY DEF Ordered
  <2>d. wire[j] \in Nat /\ wire[k] \in Nat
    BY <1>1
  <2>e. ~(j < k) /\ ~(k < j)
    BY <2>a, <2>b, <2>c, <2>d
  <2> QED BY <2>e
<1>3. ASSUME NEW k \in 1 .. Len(wire)
      PROVE  Ran(On[k].request) <=> k <= Len(executed)
  <2>a. \A j \in 1 .. Len(executed) : j \in 1 .. Len(wire) /\ executed[j] = On[j].request
    BY <1>1 DEF RequestsIntact
  <2>b. k <= Len(executed) => k \in 1 .. Len(executed)
    BY <1>1
  <2>c. ASSUME NEW j \in 1 .. Len(executed), executed[j] = On[k].request PROVE k <= Len(executed)
    <3>1. j \in 1 .. Len(wire) /\ On[j].request = On[k].request
      BY <2>a, <2>c
    <3>2. j = k
      BY <1>2, <3>1
    <3> QED BY <1>1, <3>2
  <2> QED BY <1>1, <2>a, <2>b, <2>c DEF Ran
<1> QED BY <1>2, <1>3

\* A request that has its reply was run, or it was turned away.
LEMMA Settled ==
    ASSUME Typed, Ordered, executed \in Seq(Request), RequestsIntact, TurnedAway
    PROVE  /\ Len(executed) \in Nat /\ Done \in Nat /\ Len(executed) <= Done /\ Done <= Len(wire)
           /\ \A k \in 1 .. Done :
                 /\ k \in 1 .. Len(wire) /\ ~IsForeign(On[k])
                 /\ On[k].request \in rejected <=> ~Ran(On[k].request)
<1> DEFINE e == Len(executed)
           w == Len(wire)
<1>0. DOMAIN executed = 1 .. e /\ \A k \in 1 .. w : On[k] = script[wire[k]]
  BY WireFacts DEF RequestsIntact, On
<1>1. w \in Nat /\ e \in Nat /\ e <= w
  BY WireFacts DEF RequestsIntact
<1>2. rejected # {} => rejected = {On[e + 1].request} /\ ~IsForeign(On[e + 1])
  BY DEF TurnedAway
<1>5. rejected # {} => e < w
  BY DEF TurnedAway
<1>6. (rejected = {} => Done = e + 0) /\ (rejected # {} => Done = e + 1)
  BY Zenon DEF Done
<1> HIDE DEF e, w
<1>3. Done \in Nat /\ e <= Done /\ Done <= w /\ (Done = e \/ (rejected # {} /\ Done = e + 1))
  BY <1>1, <1>5, <1>6
<1>4. ASSUME NEW k \in 1 .. Done
      PROVE  /\ k \in 1 .. w /\ ~IsForeign(On[k])
             /\ On[k].request \in rejected <=> ~Ran(On[k].request)
  <2>a. k \in 1 .. w
    BY <1>1, <1>3
  <2>b. Ran(On[k].request) <=> k <= e
    BY <2>a, Distinct DEF e, w
  <2>c. CASE k <= e
    <3>1. ~IsForeign(On[k])
      <4>1. k \in DOMAIN executed /\ k \in 1 .. k
        BY <1>0, <1>1, <2>c
      <4> QED BY <1>0, <2>a, <4>1 DEF RequestsIntact
    <3>2. ASSUME rejected # {} PROVE On[k].request # On[e + 1].request
      <4>1. e + 1 \in 1 .. w /\ k # e + 1
        BY <1>1, <1>5, <2>c, <3>2
      <4> QED BY <2>a, <4>1, Distinct DEF w
    <3> QED BY <1>2, <2>a, <2>b, <2>c, <3>1, <3>2
  <2>d. CASE ~(k <= e)
    <3>1. rejected # {} /\ k = e + 1
      BY <1>1, <1>3, <2>d
    <3> QED BY <1>2, <2>a, <2>b, <2>d, <3>1
  <2> QED BY <2>c, <2>d
<1> QED BY <1>1, <1>3, <1>4 DEF e, w

LEMMA OutputFacts ==
    ASSUME Typed
    PROVE  /\ output.data \in Text /\ output.reader_index \in Nat /\ Len(output.data) \in Nat
           /\ output.reader_index \in 0 .. Len(output.data)
           /\ Unread \in Text /\ Len(Unread) = readable_bytes(output)
           /\ readable_bytes(output) \in Nat
<1>1. output.data \in Text /\ output.reader_index \in Nat /\ output.reader_index <= Len(output.data)
  BY DEF Typed
<1>2. Len(output.data) \in Nat
  BY <1>1, LenProperties DEF Text
<1>3. output.reader_index \in 0 .. Len(output.data)
  BY <1>1, <1>2
<1>4. Unread \in Text /\ Len(Unread) = Len(output.data) - output.reader_index
  BY <1>1, <1>3, Cutting DEF Text, Unread
<1> QED BY <1>1, <1>2, <1>3, <1>4 DEF readable_bytes

\* Bytes appended to output_ follow those that are to be written.
LEMMA Appending ==
    ASSUME Typed, NEW x \in Text, output' = Appended(output, x)
    PROVE  /\ output' \in [data : Text, reader_index : Nat]
           /\ output'.reader_index <= Len(output'.data)
           /\ Unread' = Unread \o x
<1>1. /\ output.data \in Text /\ output.reader_index \in 0 .. Len(output.data)
      /\ Len(output.data) \in Nat
  BY OutputFacts
<1>2. output' = [data |-> output.data \o x, reader_index |-> output.reader_index]
  BY DEF Appended
<1>3. output.data \o x \in Text /\ Len(output.data \o x) = Len(output.data) + Len(x) /\ Len(x) \in Nat
  BY <1>1, TextConcat
<1>4. SubSeq(output.data \o x, output.reader_index + 1, Len(output.data \o x))
        = SubSeq(output.data, output.reader_index + 1, Len(output.data)) \o x
  BY <1>1, CuttingConcat DEF Text
<1>5. Unread' = Unread \o x
  <2>a. output'.data = output.data \o x /\ output'.reader_index = output.reader_index
    BY <1>2
  <2> QED BY <1>4, <2>a DEF Unread
<1>6. output'.reader_index <= Len(output'.data)
  BY <1>1, <1>2, <1>3
<1>7. output' \in [data : Text, reader_index : Nat]
  BY <1>1, <1>2, <1>3
<1> QED BY <1>5, <1>6, <1>7

LEMMA AppendedTwice ==
    ASSUME Typed, NEW a \in Text, NEW b \in Text
    PROVE  Appended(Appended(output, a), b) = Appended(output, a \o b)
<1>1. (output.data \o a) \o b = output.data \o (a \o b)
  BY OutputFacts, TextAssoc
<1> QED BY <1>1 DEF Appended

LEMMA NotEmpty ==
    ASSUME NEW a \in Text, NEW b \in Text, a # <<>> \/ b # <<>>
    PROVE  a \o b # <<>>
<1>1. Len(a) # 0 \/ Len(b) # 0
  BY TextEmpty
<1>2. Len(a \o b) = Len(a) + Len(b) /\ Len(a) \in Nat /\ Len(b) \in Nat
  BY TextConcat
<1>3. Len(a \o b) # 0
  BY <1>1, <1>2
<1> QED BY <1>3, TextEmpty

\* Consume forgets n bytes, whether or not it moves the others.
LEMMA Consuming ==
    ASSUME Typed, NEW n \in 0 .. readable_bytes(output), output' = Consume(output, n)
    PROVE  /\ output' \in [data : Text, reader_index : Nat]
           /\ output'.reader_index <= Len(output'.data)
           /\ Unread = SubSeq(output.data, output.reader_index + 1, output.reader_index + n) \o Unread'
           /\ SubSeq(output.data, output.reader_index + 1, output.reader_index + n) \in Text
           /\ Unread' \in Text
<1> DEFINE d == output.data
           i == output.reader_index
           moved == [data |-> d, reader_index |-> i + n]
<1>1. /\ d \in Text /\ d \in Seq(Byte) /\ i \in 0 .. Len(d) /\ Len(d) \in Nat /\ i \in Nat
      /\ Unread \in Text /\ Len(Unread) = Len(d) - i /\ n \in Nat /\ n <= Len(d) - i
  BY OutputFacts DEF readable_bytes, Text
<1>3. i + n \in 0 .. Len(d) /\ i + n \in Nat
  BY <1>1
<1>4. SubSeq(d, i + n + 1, Len(d)) \in Text
  BY <1>1, <1>3, Cutting DEF Text
<1>5. \/ output' = moved
      \/ output' = [data |-> SubSeq(d, i + n + 1, Len(d)), reader_index |-> 0]
  BY DEF Consume, CompactIfNeeded
<1>6. /\ Unread' = SubSeq(d, i + n + 1, Len(d))
      /\ output' \in [data : Text, reader_index : Nat] /\ output'.reader_index <= Len(output'.data)
  <2>a. CASE output' = moved
    <3>1. output'.data = d /\ output'.reader_index = i + n
      BY <2>a
    <3>2. output' \in [data : Text, reader_index : Nat]
      BY <1>1, <1>3, <2>a
    <3> QED BY <1>3, <3>1, <3>2 DEF Unread
  <2>b. CASE output' = [data |-> SubSeq(d, i + n + 1, Len(d)), reader_index |-> 0]
    <3> DEFINE e == SubSeq(d, i + n + 1, Len(d))
    <3>1. e \in Text /\ Len(e) \in Nat
      BY <1>4, LenProperties DEF Text
    <3>2. output' = [data |-> e, reader_index |-> 0]
      BY <2>b
    <3> HIDE DEF e
    <3>3. SubSeq(e, 0 + 1, Len(e)) = e
      BY <3>1, SubSeqFull DEF Text
    <3>4. output'.data = e /\ output'.reader_index = 0
      BY <3>2
    <3>5. output' \in [data : Text, reader_index : Nat]
      BY <3>1, <3>2
    <3>6. Unread' = e
      BY <3>3, <3>4 DEF Unread
    <3>7. output'.reader_index <= Len(output'.data)
      BY <3>1, <3>4
    <3> QED BY <3>5, <3>6, <3>7 DEF e
  <2> QED BY <1>5, <2>a, <2>b
<1>7. /\ SubSeq(d, i + 1, i + n) \o SubSeq(d, i + n + 1, Len(d)) = SubSeq(d, i + 1, Len(d))
      /\ SubSeq(d, i + 1, i + n) \in Text
  <2>b. SubSeq(d, i + 1, i + n) \in Seq(Byte)
    BY <1>1, <1>3
  <2>c. d \in Seq(Byte)
    BY <1>1
  <2>d. SubSeq(d, i + 1, i + n) \o SubSeq(d, i + n + 1, Len(d)) = SubSeq(d, i + 1, Len(d))
    <3> DEFINE a == i + 1
               b == i + n
    <3>1. a \in 1 .. Len(d) + 1 /\ b \in a - 1 .. Len(d) /\ Len(d) \in b .. Len(d)
      BY <1>1, <1>3
    <3> HIDE DEF a, b
    <3>2. SubSeq(d, a, b) \o SubSeq(d, b + 1, Len(d)) = SubSeq(d, a, Len(d))
      BY <2>c, <3>1, ConcatAdjacentSubSeq
    <3> QED BY <3>2 DEF a, b
  <2> QED BY <2>b, <2>d DEF Text
<1> QED BY <1>4, <1>6, <1>7 DEF Unread

----------------------------------------
(* Initial states *)

LEMMA InitIInv == Init => IInv
<1> SUFFICES ASSUME Init PROVE IInv
  OBVIOUS
<1> USE DEF Init
<1>0. <<>> \in Text /\ Len(<<>>) = 0 /\ <<>> \o <<>> = <<>>
  <2>a. <<>> \in Seq(Byte) /\ <<>> \in Seq(Byte)
    OBVIOUS
  <2> QED BY <2>a, TextEmpty, ConcatEmptySeq
<1>1. script \in Seq(Exchange) /\ Len(script) \in Nat /\ DOMAIN script = 1 .. Len(script)
  BY ScriptsAssumption
<1>2. Typed
  <2>a. output \in [data : Text, reader_index : Nat] /\ output.reader_index <= Len(output.data)
    BY <1>0
  <2>b. answers = [i \in DOMAIN script |-> answers[i]]
    BY Zenon
  <2>c. sent \in 0 .. Len(script)
    BY <1>1
  <2> QED BY <1>0, <2>a, <2>b, <2>c DEF Typed
<1>3. Ordered /\ executed \in Seq(Request) /\ Len(executed) = 0 /\ Len(wire) = 0
  BY <1>0, <1>1 DEF Ordered
<1>4. RequestsIntact /\ Held /\ Untroubled /\ Idle /\ TurnedAway /\ Flushing
      /\ Done = 0
  BY <1>0, <1>3 DEF RequestsIntact, Held, Untroubled, Idle, TurnedAway, Flushing, Unread, Done
<1>5. Decoding
  <2>a. Taken = 0
    BY <1>4 DEF Taken
  <2>b. Cut(<<>>, Frames, 0, 0, <<>>)
    BY <1>0, CutNone
  <2>c. requests = [k \in 1 .. 0 - 0 |-> On[0 + k].request]
    OBVIOUS
  <2>d. Incomplete(<<>>)
    BY <1>0 DEF Incomplete
  <2> QED BY <1>0, <1>3, <2>a, <2>b, <2>c, <2>d DEF Decoding
<1>6. \A i \in DOMAIN script : answers[i].code = "none"
  BY DEF Answer
<1>7. Calling
  BY <1>1, <1>6 DEF Calling
<1>8. AnswersMatch
  BY <1>6 DEF AnswersMatch
<1>9. Replying
  <2>a. Unread = <<>>
    BY <1>0 DEF Unread
  <2>b. Cut(<<>>, Replies, 0, 0, <<>>)
    BY <1>0, CutNone
  <2>c. RepliesFrom(0)
    BY <1>0, <1>4, <2>a, <2>b DEF RepliesFrom, Streams
  <2> QED BY <1>3, <1>4, <2>c DEF Replying
<1> QED BY <1>2, <1>3, <1>4, <1>5, <1>7, <1>8, <1>9 DEF IInv

----------------------------------------
(* SendRequest *)

\* What has been sent stays as it is when another exchange is begun.
LEMMA SendKeeps ==
    ASSUME Typed, Ordered, UNCHANGED <<script, rejected>>, wire' = Append(wire, sent + 1)
    PROVE  /\ Len(wire') = Len(wire) + 1 /\ wire'[Len(wire) + 1] = sent + 1
           /\ \A k \in 1 .. Len(wire) :
                 /\ wire'[k] = wire[k] /\ On'[k] = On[k]
                 /\ Frames'[k] = Frames[k] /\ Replies'[k] = Replies[k]
           /\ On'[Len(wire) + 1] = script[sent + 1]
           /\ Frames'[Len(wire) + 1] = FrameOf(script[sent + 1])
<1>1. wire \in Seq(DOMAIN script) /\ Len(wire) \in Nat
  BY DEF Ordered
<1>2. /\ Len(wire') = Len(wire) + 1 /\ wire'[Len(wire) + 1] = sent + 1
      /\ \A k \in 1 .. Len(wire) : wire'[k] = wire[k]
  BY <1>1
<1>3. /\ \A k \in 1 .. Len(wire) : On'[k] = On[k]
      /\ On'[Len(wire) + 1] = script[sent + 1]
  BY <1>2 DEF On
<1>4. /\ \A k \in 1 .. Len(wire) + 1 : Frames'[k] = FrameOf(On'[k]) /\ Replies'[k] = AnswerTo(On'[k])
      /\ \A k \in 1 .. Len(wire) : Frames[k] = FrameOf(On[k]) /\ Replies[k] = AnswerTo(On[k])
  BY <1>2 DEF Frames, Replies, AnswerTo
<1> QED BY <1>1, <1>2, <1>3, <1>4

LEMMA SendRequestIInv == IInv /\ SendRequest => IInv'
<1> SUFFICES ASSUME IInv, SendRequest PROVE IInv'
  OBVIOUS
<1> DEFINE x == script[sent + 1]
           bytes == IF IsForeign(x) THEN Ok(x.foreign) ELSE EncodeRequest(x.request)
           n == Len(wire)
<1>1. /\ Typed /\ Ordered /\ executed \in Seq(Request) /\ RequestsIntact /\ Held /\ Decoding
      /\ Calling /\ Replying /\ AnswersMatch /\ Untroubled /\ Idle /\ TurnedAway /\ Flushing
  BY DEF IInv
<1>2. /\ connected /\ sent < Len(script) /\ sent' = sent + 1
      /\ to_server' = IF bytes.ok THEN to_server \o bytes.value ELSE to_server
      /\ wire' = IF bytes.ok THEN Append(wire, sent + 1) ELSE wire
      /\ answers' = [answers EXCEPT ![sent + 1] =
                        Answer(IF bytes.ok THEN "waiting" ELSE "refused", {})]
      /\ UNCHANGED <<script, connected, to_client, server>>
  BY DEF SendRequest
<1>3. /\ UNCHANGED <<script, connected, to_client, open, reading, buffer, requests, current>>
      /\ UNCHANGED <<rejected, closing, output, stopped, executed>>
      /\ Done' = Done /\ Taken' = Taken /\ Unread' = Unread /\ (Clean <=> Clean')
  BY <1>2 DEF server, Done, Taken, Unread, Clean
<1>4. /\ n \in Nat /\ sent \in Nat /\ Len(script) \in Nat /\ DOMAIN script = 1 .. Len(script)
      /\ \A k \in 1 .. n : wire[k] \in Nat /\ wire[k] <= sent /\ wire[k] \in DOMAIN script
  BY <1>1, WireFacts DEF Ordered
<1>5. sent + 1 \in DOMAIN script /\ sent + 1 \in 0 .. Len(script)
  BY <1>2, <1>4
<1>6. bytes.ok <=> Sendable(x)
  BY DEF Sendable, Ok
<1>7. Sendable(x) => bytes.value = FrameOf(x) /\ FrameOf(x) \in Text
  <2>a. bytes.value = FrameOf(x)
    BY DEF FrameOf, Ok
  <2>b. script \in Scripts
    BY <1>1 DEF Typed
  <2>c. Sendable(x) => WellDelimited(FrameOf(x))
    BY <1>5, <2>b, FrameFacts
  <2> QED BY <2>a, <2>c DEF WellDelimited
<1> HIDE DEF x, bytes, n
<1>8. /\ answers' = [i \in DOMAIN script |-> answers'[i]]
      /\ answers'[sent + 1].code = IF bytes.ok THEN "waiting" ELSE "refused"
      /\ \A i \in DOMAIN script : i # sent + 1 => answers'[i] = answers[i]
  <2> DEFINE a == Answer(IF bytes.ok THEN "waiting" ELSE "refused", {})
  <2>a. a.code = IF bytes.ok THEN "waiting" ELSE "refused"
    BY DEF Answer
  <2>b. answers = [i \in DOMAIN script |-> answers[i]] /\ answers' = [answers EXCEPT ![sent + 1] = a]
    BY <1>1, <1>2 DEF Typed
  <2> HIDE DEF a
  <2>c. answers' = [i \in DOMAIN script |-> IF i = sent + 1 THEN a ELSE answers[i]]
    BY <2>b
  <2> QED BY <1>5, <2>a, <2>c
<1>9. Typed'
  <2>a. to_server' \in Text
    BY <1>1, <1>2, <1>6, <1>7, TextConcat DEF Typed
  <2> QED BY <1>1, <1>2, <1>3, <1>5, <1>8, <2>a DEF Typed
<1>10. \A i \in DOMAIN script : \A k \in 1 .. n : wire[k] = i => i # sent + 1
  BY <1>4
<1>11. AnswersMatch' /\ Untroubled' /\ Idle' /\ Flushing'
  <2>a. AnswersMatch'
    <3>1. \A i \in DOMAIN script : answers'[i].code = "answered" => answers'[i] = answers[i]
      BY <1>8
    <3> QED BY <1>1, <1>3, <3>1 DEF AnswersMatch, Given, Ran
  <2>b. Untroubled' /\ Idle' /\ Flushing'
    BY <1>1, <1>3 DEF Untroubled, Idle, Flushing
  <2> QED BY <2>a, <2>b
<1>12. /\ executed' \in Seq(Request) /\ Len(executed) \in Nat
       /\ Done \in Nat /\ Len(executed) <= Done /\ Done <= n
  BY <1>1, <1>3, Settled DEF n
<1>13. CASE ~bytes.ok
  <2>a. wire' = wire /\ to_server' = to_server
    BY <1>2, <1>13
  <2>b. Frames' = Frames /\ Replies' = Replies /\ On' = On
    BY <1>3, <2>a, SameOn
  <2>c. Ordered'
    BY <1>1, <1>2, <1>3, <1>4, <2>a, <2>b DEF Ordered
  <2>d. RequestsIntact' /\ Held' /\ TurnedAway'
    BY <1>1, <1>3, <2>a, <2>b DEF RequestsIntact, Held, TurnedAway, On
  <2>e. Decoding'
    BY <1>1, <1>3, <2>a, <2>b DEF Decoding
  <2>f. Calling'
    <3>1. ASSUME NEW i \in DOMAIN script, i # sent + 1
          PROVE  /\ i > sent' => answers'[i].code = "none"
                 /\ i <= sent' => answers'[i].code \in {"waiting", "answered", "refused"}
                 /\ answers'[i].code \in {"waiting", "answered"} => \E k \in 1 .. n : wire[k] = i
      <4>1. answers'[i] = answers[i] /\ (i > sent' => i > sent) /\ (i <= sent' => i <= sent)
        BY <1>2, <1>4, <1>8, <3>1
      <4>2. /\ i > sent => answers[i].code = "none"
            /\ i <= sent => answers[i].code \in {"waiting", "answered", "refused"}
            /\ answers[i].code \in {"waiting", "answered"} => \E k \in 1 .. n : wire[k] = i
        BY <1>1, <1>2 DEF Calling, n
      <4> QED BY <4>1, <4>2
    <3>2. answers'[sent + 1].code = "refused" /\ ~(sent + 1 > sent')
      BY <1>2, <1>4, <1>8, <1>13
    <3>3. ASSUME NEW i \in DOMAIN script
          PROVE  /\ i > sent' => answers'[i].code = "none"
                 /\ i <= sent' => answers'[i].code \in {"waiting", "answered", "refused"}
                 /\ answers'[i].code \in {"waiting", "answered"} => \E k \in 1 .. n : wire[k] = i
      BY <3>1, <3>2
    <3> QED BY <1>2, <1>3, <2>a, <3>3 DEF Calling, n
  <2>g. Replying'
    <3>1. PICK m \in 0 .. Done :
             /\ \A k \in 1 .. n : answers[wire[k]].code = IF k <= m THEN "answered" ELSE "waiting"
             /\ RepliesFrom(m)
      BY <1>1, <1>2 DEF Replying, n
    <3>2. RepliesFrom(m)'
      BY <1>3, <2>b, <3>1 DEF RepliesFrom
    <3>3. \A k \in 1 .. n : answers'[wire'[k]] = answers[wire[k]]
      BY <1>4, <1>8, <1>10, <2>a
    <3> QED BY <1>3, <2>a, <3>1, <3>2, <3>3 DEF Replying, n
  <2> QED BY <1>9, <1>11, <1>12, <2>c, <2>d, <2>e, <2>f, <2>g DEF IInv
<1>14. CASE bytes.ok
  <2>a. wire' = Append(wire, sent + 1) /\ to_server' = to_server \o FrameOf(x) /\ FrameOf(x) \in Text
    BY <1>2, <1>6, <1>7, <1>14
  <2>b. /\ Len(wire') = n + 1 /\ wire'[n + 1] = sent + 1
        /\ \A k \in 1 .. n : /\ wire'[k] = wire[k] /\ On'[k] = On[k]
                             /\ Frames'[k] = Frames[k] /\ Replies'[k] = Replies[k]
        /\ On'[n + 1] = x /\ Frames'[n + 1] = FrameOf(x)
    BY <1>1, <1>3, <2>a, SendKeeps DEF n, x
  <2>c. \A k \in 1 .. n + 1 : k \in 1 .. n \/ k = n + 1
    BY <1>4
  <2>d. \A k \in 1 .. n : Frames[k] \in Text /\ Replies[k] \in Text
    BY <1>1, WireFacts DEF n
  <2>e. Ordered'
    <3>1. wire' \in Seq(DOMAIN script')
      BY <1>1, <1>3, <1>5, <2>a DEF Ordered
    <3>2. ASSUME NEW k \in 1 .. n + 1 PROVE wire'[k] <= sent' /\ Sendable(On'[k])
      <4>1. CASE k \in 1 .. n
        BY <1>1, <1>2, <1>4, <2>b, <4>1 DEF Ordered, n
      <4>2. CASE k = n + 1
        BY <1>2, <1>4, <1>6, <1>14, <2>b, <4>2
      <4> QED BY <2>c, <4>1, <4>2
    <3>3. ASSUME NEW j \in 1 .. n + 1, NEW k \in 1 .. n + 1, j < k PROVE wire'[j] < wire'[k]
      <4>1. j \in 1 .. n
        BY <1>4, <3>3
      <4>2. CASE k \in 1 .. n
        BY <1>1, <2>b, <3>3, <4>1, <4>2 DEF Ordered, n
      <4>3. CASE k = n + 1
        BY <1>4, <2>b, <4>1, <4>3
      <4> QED BY <2>c, <4>2, <4>3
    <3> QED BY <2>b, <3>1, <3>2, <3>3 DEF Ordered
  <2>f. RequestsIntact' /\ Held' /\ TurnedAway'
    <3>1. Len(executed) <= n /\ DOMAIN executed = 1 .. Len(executed)
      BY <1>1, <1>12 DEF RequestsIntact, n
    <3>2. \A k \in DOMAIN executed : k \in 1 .. n /\ \A j \in 1 .. k : j \in 1 .. n
      BY <1>4, <1>12, <3>1
    <3>3. RequestsIntact'
      <4>1. /\ Len(executed) <= n + 1
            /\ \A k \in DOMAIN executed :
                  /\ executed[k] = script[wire[k]].request /\ wire'[k] = wire[k]
                  /\ \A j \in 1 .. k : ~IsForeign(script[wire[j]]) /\ wire'[j] = wire[j]
        BY <1>1, <1>4, <1>12, <2>b, <3>1, <3>2 DEF RequestsIntact
      <4> QED BY <1>3, <2>b, <4>1 DEF RequestsIntact
    <3>4. Len(executed) < n => Len(executed) + 1 \in 1 .. n
      BY <1>4, <1>12
    <3>5. Held'
      BY <1>1, <1>3, <1>4, <1>12, <2>b, <3>4 DEF Held, n
    <3>6. TurnedAway'
      BY <1>1, <1>3, <1>4, <1>12, <2>b, <3>4 DEF TurnedAway, n
    <3> QED BY <3>3, <3>5, <3>6
  <2>g. Decoding'
    <3>1. SUFFICES ASSUME ~closing \/ Clean PROVE Decoding'
      BY <1>3 DEF Decoding
    <3>2. PICK j \in Taken .. n :
             /\ requests = [k \in 1 .. j - Taken |-> On[Taken + k].request]
             /\ \A k \in 1 .. j : ~IsForeign(On[k])
             /\ buffer \in Text /\ Incomplete(buffer)
             /\ Cut(buffer \o to_server, Frames, j, n, <<>>)
      BY <1>1, <3>1 DEF Decoding, n
    <3>3. Taken \in Nat /\ j \in Nat /\ j <= n
      BY <1>4, <1>12 DEF Taken
    <3>4. j \in Taken .. n + 1 /\ (\A k \in 1 .. j : k \in 1 .. n)
          /\ \A k \in 1 .. j - Taken : Taken + k \in 1 .. n
      BY <1>4, <3>3
    <3>5. requests' = [k \in 1 .. j - Taken |-> On'[Taken + k].request]
      BY <1>3, <2>b, <3>2, <3>4
    <3>6. \A k \in 1 .. j : ~IsForeign(On'[k])
      BY <2>b, <3>2, <3>4
    <3>7. Cut((buffer \o to_server) \o Frames'[n + 1], Frames', j, n + 1, <<>>)
      <4>1. \A k \in j + 1 .. n : k \in 1 .. n
        BY <3>3
      <4>2. \A k \in j + 1 .. n : Frames[k] \in Text /\ Frames'[k] = Frames[k]
        BY <2>b, <2>d, <4>1
      <4>3. Frames'[n + 1] \in Text
        BY <2>a, <2>b
      <4> QED BY <1>4, <3>2, <3>3, <4>2, <4>3, CutAppend
    <3>8. (buffer \o to_server) \o FrameOf(x) = buffer' \o to_server'
      <4>1. to_server \in Text
        BY <1>1 DEF Typed
      <4> QED BY <1>3, <2>a, <3>2, <4>1, TextAssoc
    <3>9. Cut(buffer' \o to_server', Frames', j, n + 1, <<>>)
      BY <2>b, <3>7, <3>8
    <3> QED BY <1>3, <2>b, <3>2, <3>3, <3>4, <3>5, <3>6, <3>9 DEF Decoding
  <2>h. Calling'
    <3>1. ASSUME NEW i \in DOMAIN script
          PROVE  /\ i > sent' => answers'[i].code = "none"
                 /\ i <= sent' => answers'[i].code \in {"waiting", "answered", "refused"}
                 /\ answers'[i].code \in {"waiting", "answered"} => \E k \in 1 .. n + 1 : wire'[k] = i
      <4>1. CASE i = sent + 1
        <5>1. n + 1 \in 1 .. n + 1 /\ wire'[n + 1] = i
          BY <1>4, <2>b, <4>1
        <5>2. answers'[i].code = "waiting" /\ ~(i > sent')
          BY <1>2, <1>4, <1>8, <1>14, <4>1
        <5> QED BY <5>1, <5>2
      <4>2. CASE i # sent + 1
        <5>1. /\ i > sent => answers[i].code = "none"
              /\ i <= sent => answers[i].code \in {"waiting", "answered", "refused"}
              /\ answers[i].code \in {"waiting", "answered"} => \E k \in 1 .. n : wire[k] = i
          BY <1>1, <1>2 DEF Calling, n
        <5>2. answers'[i] = answers[i]
          BY <1>8, <4>2
        <5>3. i > sent' => i > sent
          BY <1>2, <1>4
        <5>4. i <= sent' => i <= sent
          BY <1>2, <1>4, <4>2
        <5>5. (\E k \in 1 .. n : wire[k] = i) => \E k \in 1 .. n + 1 : wire'[k] = i
          BY <1>4, <2>b
        <5> QED BY <5>1, <5>2, <5>3, <5>4, <5>5
      <4> QED BY <4>1, <4>2
    <3> QED BY <1>2, <1>3, <2>b, <3>1 DEF Calling
  <2>i. Replying'
    <3>1. PICK m \in 0 .. Done :
             /\ \A k \in 1 .. n : answers[wire[k]].code = IF k <= m THEN "answered" ELSE "waiting"
             /\ RepliesFrom(m)
      BY <1>1, <1>2 DEF Replying, n
    <3>2. m \in Nat /\ m <= n
      BY <1>4, <1>12
    <3>3. RepliesFrom(m)'
      <4>1. PICK k \in m .. Done, rest \in Text :
               /\ Cut(to_client \o Unread, Replies, m, k, rest)
               /\ \/ k = Done /\ rest = <<>>
                  \/ closing /\ ~Clean /\ \E r \in Text : rest = ErrorReply \o r
        BY <3>1 DEF RepliesFrom, Streams
      <4>2. \A j \in m + 1 .. k : j \in 1 .. n
        BY <1>4, <1>12, <3>2
      <4>3. Cut(to_client \o Unread, Replies', m, k, rest)
        <5>1. k \in Nat /\ \A j \in m + 1 .. k : Replies'[j] = Replies[j]
          BY <1>12, <2>b, <3>2, <4>2
        <5> QED BY <3>2, <4>1, <5>1, CutSame
      <4> QED BY <1>3, <4>1, <4>3 DEF RepliesFrom, Streams
    <3>4. ASSUME NEW k \in 1 .. n + 1
          PROVE  answers'[wire'[k]].code = IF k <= m THEN "answered" ELSE "waiting"
      <4>1. CASE k \in 1 .. n
        <5>1. answers'[wire'[k]] = answers[wire[k]]
          BY <1>4, <1>8, <1>10, <2>b, <4>1
        <5> QED BY <3>1, <4>1, <5>1
      <4>2. CASE k = n + 1
        <5>1. ~(k <= m)
          BY <1>4, <3>2, <4>2
        <5> QED BY <1>8, <1>14, <2>b, <4>2, <5>1
      <4> QED BY <2>c, <4>1, <4>2
    <3> QED BY <1>3, <2>b, <3>1, <3>3, <3>4 DEF Replying
  <2> QED BY <1>9, <1>11, <1>12, <2>e, <2>f, <2>g, <2>h, <2>i DEF IInv
<1> QED BY <1>13, <1>14

----------------------------------------
(* ReadResponse and ReadEof *)

LEMMA DisconnectIInv ==
    ASSUME IInv, Disconnect, UNCHANGED <<script, wire, to_server, to_client, server>>,
           stopped \/ ~Clean \/ rejected # {}
    PROVE  IInv'
<1>1. /\ Typed /\ Ordered /\ executed \in Seq(Request) /\ RequestsIntact /\ Held /\ Decoding
      /\ Calling /\ Replying /\ AnswersMatch /\ Untroubled /\ Idle /\ TurnedAway /\ Flushing
  BY DEF IInv
<1>2. /\ UNCHANGED <<script, wire, to_server, to_client, open, reading, buffer, requests>>
      /\ UNCHANGED <<current, rejected, closing, output, stopped, executed>>
      /\ Done' = Done /\ Taken' = Taken /\ Unread' = Unread /\ (Clean <=> Clean')
  BY DEF server, Done, Taken, Unread, Clean
<1>3. /\ ~connected' /\ connected' \in BOOLEAN /\ sent' = Len(script)
      /\ answers' = [i \in DOMAIN answers |->
                        IF answers[i].code \in {"none", "waiting"} THEN Answer("failed", {})
                        ELSE answers[i]]
  BY DEF Disconnect
<1>4. Frames' = Frames /\ On' = On
  BY <1>2, SameOn
<1>5. Len(script) \in Nat /\ DOMAIN script = 1 .. Len(script)
      /\ \A k \in 1 .. Len(wire) : wire[k] \in DOMAIN script
  BY <1>1, WireFacts
<1>6. DOMAIN answers = DOMAIN script
  BY <1>1 DEF Typed
<1>7. Typed'
  <2>a. answers' = [i \in DOMAIN script |-> answers'[i]]
    BY <1>3, <1>6
  <2>b. sent' \in 0 .. Len(script)
    BY <1>3, <1>5
  <2> QED BY <1>1, <1>2, <1>3, <2>a, <2>b DEF Typed
<1>8. Ordered'
  BY <1>1, <1>2, <1>3, <1>4, <1>5 DEF Ordered
<1>9. executed' \in Seq(Request) /\ RequestsIntact' /\ Held' /\ Idle' /\ TurnedAway' /\ Flushing'
  BY <1>1, <1>2, <1>3, <1>4 DEF RequestsIntact, Held, Idle, TurnedAway, Flushing
<1>10. Decoding'
  BY <1>1, <1>2, <1>4 DEF Decoding
<1>11. Calling' /\ Replying'
  <2>a. ASSUME NEW i \in DOMAIN script PROVE answers'[i].code # "waiting"
    BY <1>3, <1>6 DEF Answer
  <2> QED BY <1>2, <1>3, <2>a DEF Calling, Replying
<1>12. AnswersMatch'
  <2>a. ASSUME NEW i \in DOMAIN script, answers'[i].code = "answered"
        PROVE  answers'[i] = answers[i]
    BY <1>3, <1>6, <2>a DEF Answer
  <2> QED BY <1>1, <1>2, <2>a DEF AnswersMatch, Given, Ran
<1>13. Untroubled'
  BY <1>2 DEF Untroubled
<1> QED BY <1>7, <1>8, <1>9, <1>10, <1>11, <1>12, <1>13 DEF IInv

LEMMA ReadEofIInv == IInv /\ ReadEof => IInv'
<1> SUFFICES ASSUME IInv, ReadEof PROVE IInv'
  OBVIOUS
<1>1. stopped \/ ~Clean \/ rejected # {}
  BY DEF IInv, Untroubled, ReadEof
<1> QED BY <1>1, DisconnectIInv DEF ReadEof

\* The call that ReadResponse completes.
First == CHOOSE i \in Waiting : \A j \in Waiting : i <= j

\* It is the first that has no answer.
LEMMA FirstIs ==
    ASSUME Typed, Ordered, Calling, connected, Waiting # {}, NEW m \in Nat,
           \A k \in 1 .. Len(wire) : answers[wire[k]].code = IF k <= m THEN "answered" ELSE "waiting"
    PROVE  m + 1 \in 1 .. Len(wire) /\ First = wire[m + 1]
<1>1. /\ Len(wire) \in Nat /\ sent \in Nat /\ Len(script) \in Nat /\ DOMAIN script = 1 .. Len(script)
      /\ \A k \in 1 .. Len(wire) : wire[k] \in DOMAIN script /\ wire[k] \in Nat /\ wire[k] <= sent
  BY WireFacts DEF Ordered
<1>2. ASSUME NEW j \in Waiting
      PROVE  j \in Nat /\ \E k \in 1 .. Len(wire) : wire[k] = j /\ k >= m + 1
  <2>a. j \in 1 .. sent /\ answers[j].code = "waiting"
    BY DEF Waiting
  <2>b. j \in DOMAIN script
    BY <1>1, <2>a DEF Typed
  <2>c. PICK k \in 1 .. Len(wire) : wire[k] = j
    BY <2>a, <2>b DEF Calling
  <2>d. ~(k <= m)
    BY <2>a, <2>c
  <2>e. k >= m + 1
    BY <1>1, <2>d
  <2> QED BY <1>1, <2>a, <2>c, <2>e
<1>3. PICK i0 \in Waiting : TRUE
  OBVIOUS
<1>4. m + 1 \in 1 .. Len(wire)
  BY <1>1, <1>2, <1>3
<1>5. wire[m + 1] \in Waiting
  <2>a. ~(m + 1 <= m)
    OBVIOUS
  <2>b. answers[wire[m + 1]].code = "waiting"
    BY <1>4, <2>a
  <2>c. wire[m + 1] \in 1 .. sent
    BY <1>1, <1>4
  <2> QED BY <2>b, <2>c DEF Waiting
<1>6. ASSUME NEW j \in Waiting PROVE wire[m + 1] <= j
  <2>a. PICK k \in 1 .. Len(wire) : wire[k] = j /\ k >= m + 1
    BY <1>2
  <2>b. k = m + 1 \/ m + 1 < k
    BY <1>1, <2>a
  <2>c. m + 1 < k => wire[m + 1] < wire[k]
    BY <1>4 DEF Ordered
  <2> QED BY <1>1, <1>4, <2>a, <2>b, <2>c
<1>7. First \in Waiting /\ \A j \in Waiting : First <= j
  BY <1>5, <1>6 DEF First
<1>8. First \in Nat /\ wire[m + 1] \in Nat
  BY <1>2, <1>5, <1>7
<1>9. First <= wire[m + 1] /\ wire[m + 1] <= First
  BY <1>5, <1>6, <1>7
<1> QED BY <1>4, <1>8, <1>9

\* A frame that the bytes on their way begin with is what ReadExact returns.
LEMMA FrameArrives ==
    ASSUME Typed, ResponseArrived, NEW g, NEW t \in Text, WellDelimited(g),
           to_client \o Unread = g \o t
    PROVE  /\ PeekFrameLength(to_client) = Len(g) /\ ValidLength(Len(g))
           /\ SubSeq(to_client, 1, Len(g)) = g
           /\ SubSeq(to_client, Len(g) + 1, Len(to_client)) \o Unread = t
           /\ SubSeq(to_client, Len(g) + 1, Len(to_client)) \in Text
<1>1. to_client \in Text /\ Unread \in Text /\ Len(to_client) >= 4
  BY OutputFacts DEF Typed, ResponseArrived
<1>2. /\ g \in Text /\ Len(g) \in kFrameHeaderBytes .. kMaxFrameBytes
      /\ PeekFrameLength(g) = Len(g)
  BY DEF WellDelimited
<1>3. Len(g) >= 4
  <2>a. Len(g) \in Nat
    BY <1>2, LenProperties DEF Text
  <2> QED BY <1>2, <2>a, CodecAssumption, PowerType DEF kFrameHeaderBytes
<1>4. Split(to_client \o Unread, to_client, Unread) /\ Split(to_client \o Unread, g, t)
  BY <1>1, <1>2 DEF Split
<1>5. PeekFrameLength(to_client) = Len(g)
  BY <1>1, <1>2, <1>3, <1>4, PeekPrefix
<1>6. ValidLength(Len(g)) /\ Len(to_client) >= Len(g)
  BY <1>2, <1>5 DEF ValidLength, ResponseArrived
<1> QED BY <1>4, <1>5, <1>6, TakeFrame

LEMMA ReadResponseIInv == IInv /\ ReadResponse => IInv'
<1> SUFFICES ASSUME IInv, ReadResponse PROVE IInv'
  OBVIOUS
<1> DEFINE len == PeekFrameLength(to_client)
           p == IF ValidLength(len) THEN DecodeResponse(SubSeq(to_client, 1, len)) ELSE Err
<1>1. /\ Typed /\ Ordered /\ executed \in Seq(Request) /\ RequestsIntact /\ Held /\ Decoding
      /\ Calling /\ Replying /\ AnswersMatch /\ Untroubled /\ Idle /\ TurnedAway /\ Flushing
  BY DEF IInv
<1>2. /\ connected /\ Waiting # {} /\ ResponseArrived
      /\ IF p.ok /\ Matches(p.value, script[First].request)
         THEN /\ answers' = [answers EXCEPT ![First] = Answer("answered", {p.value})]
              /\ to_client' = SubSeq(to_client, len + 1, Len(to_client))
              /\ UNCHANGED <<sent, connected>>
         ELSE Disconnect /\ UNCHANGED to_client
      /\ UNCHANGED <<script, wire, to_server, server>>
  BY DEF ReadResponse, First
<1>3. PICK m \in 0 .. Done :
         /\ \A k \in 1 .. Len(wire) :
               answers[wire[k]].code = IF k <= m THEN "answered" ELSE "waiting"
         /\ RepliesFrom(m)
  BY <1>1, <1>2 DEF Replying
<1>4. PICK k \in m .. Done, rest \in Text :
         /\ Cut(to_client \o Unread, Replies, m, k, rest)
         /\ \/ k = Done /\ rest = <<>>
            \/ closing /\ ~Clean /\ \E r \in Text : rest = ErrorReply \o r
  BY <1>3 DEF RepliesFrom, Streams
<1>5. /\ Done \in Nat /\ m \in Nat /\ k \in Nat /\ m <= k /\ k <= Done
  BY <1>1, Settled
<1>6. m + 1 \in 1 .. Len(wire) /\ First = wire[m + 1]
  BY <1>1, <1>2, <1>3, <1>5, FirstIs
<1>7. First \in DOMAIN script /\ On[m + 1] = script[First] /\ script \in Scripts
  BY <1>1, <1>6, WireFacts DEF On, Typed
<1>8. CASE m < k
  <2> DEFINE g == Replies[m + 1]
  <2>a. WellDelimited(g) /\ DecodeResponse(g) = Ok(Given(script[First]))
        /\ Matches(Given(script[First]), script[First].request)
    <3> DEFINE at == m + 1
    <3>1. at \in 1 .. Len(wire) /\ On[at] = script[First]
      BY <1>6, <1>7
    <3> HIDE DEF at
    <3>2. WellDelimited(Replies[at]) /\ DecodeResponse(Replies[at]) = Ok(Given(On[at]))
          /\ Matches(Given(On[at]), On[at].request)
      BY <1>1, <3>1, WireFacts, Zenon
    <3> QED BY <3>1, <3>2 DEF at
  <2>b. PICK t \in Text : to_client \o Unread = g \o t /\ Cut(t, Replies, m + 1, k, rest)
    <3> DEFINE s == to_client \o Unread
               f == Replies
    <3>1. Cut(s, f, m, k, rest) /\ m \in Nat /\ k \in Nat /\ m < k
      BY <1>4, <1>5, <1>8
    <3> HIDE DEF s, f
    <3>2. \E t \in Text : s = f[m + 1] \o t /\ Cut(t, f, m + 1, k, rest)
      BY <3>1, CutFirst
    <3> QED BY <3>2 DEF s, f
  <2> HIDE DEF g
  <2>c. /\ len = Len(g) /\ ValidLength(Len(g)) /\ SubSeq(to_client, 1, Len(g)) = g
        /\ SubSeq(to_client, Len(g) + 1, Len(to_client)) \o Unread = t
        /\ SubSeq(to_client, Len(g) + 1, Len(to_client)) \in Text
    BY <1>1, <1>2, <2>a, <2>b, FrameArrives
  <2>d. p = Ok(Given(script[First]))
    BY <2>a, <2>c
  <2> DEFINE a == Answer("answered", {Given(script[First])})
  <2>e. p.ok /\ p.value = Given(script[First])
    BY <2>d DEF Ok
  <2> HIDE DEF p, len
  <2>f. /\ answers' = [answers EXCEPT ![First] = a]
        /\ to_client' \o Unread = t /\ to_client' \in Text
        /\ UNCHANGED <<sent, connected>>
    BY <1>2, <2>a, <2>c, <2>e
  <2>g. /\ UNCHANGED <<script, wire, to_server, open, reading, buffer, requests>>
        /\ UNCHANGED <<current, rejected, closing, output, stopped, executed, sent, connected>>
    BY <1>2, <2>f DEF server
  <2>h. /\ Frames' = Frames /\ Replies' = Replies /\ On' = On /\ Unread' = Unread
        /\ Done' = Done /\ Taken' = Taken /\ (Clean <=> Clean')
    BY <2>g, SameOn DEF Unread, Done, Taken, Clean
  <2>i. /\ answers' = [i \in DOMAIN script |-> answers'[i]]
        /\ answers'[First].code = "answered" /\ answers'[First].response = {Given(script[First])}
        /\ \A i \in DOMAIN script : i # First => answers'[i] = answers[i]
    <3>1. a.code = "answered" /\ a.response = {Given(script[First])}
      BY DEF Answer
    <3> HIDE DEF a
    <3>2. answers = [i \in DOMAIN script |-> answers[i]]
      BY <1>1 DEF Typed
    <3>3. answers' = [i \in DOMAIN script |-> IF i = First THEN a ELSE answers[i]]
      BY <2>f, <3>2
    <3> QED BY <1>7, <3>1, <3>3
  <2>j. Typed'
    BY <1>1, <2>f, <2>g, <2>i DEF Typed
  <2>k. Ordered'
    BY <1>1, <2>g, <2>h DEF Ordered
  <2>l. /\ executed' \in Seq(Request) /\ RequestsIntact' /\ Held' /\ Idle' /\ Untroubled'
        /\ TurnedAway' /\ Flushing'
    BY <1>1, <2>g, <2>h DEF RequestsIntact, Held, Idle, Untroubled, TurnedAway, Flushing
  <2>m. Decoding'
    BY <1>1, <2>g, <2>h DEF Decoding
  <2>n. Calling'
    <3>1. First <= sent
      BY <1>1, <1>6 DEF Ordered
    <3>2. First \in Nat /\ sent \in Nat
      BY <1>1, <1>6, WireFacts
    <3>3. \E j \in 1 .. Len(wire) : wire[j] = First
      BY <1>6
    <3>4. ASSUME NEW i \in DOMAIN script
          PROVE  /\ i > sent => answers'[i].code = "none"
                 /\ i <= sent => answers'[i].code \in {"waiting", "answered", "refused"}
                 /\ answers'[i].code \in {"waiting", "answered"} => \E j \in 1 .. Len(wire) : wire[j] = i
      <4>1. CASE i = First
        <5>1. ~(First > sent)
          BY <3>1, <3>2
        <5> QED BY <2>i, <3>3, <4>1, <5>1
      <4>2. CASE i # First
        <5>1. answers'[i] = answers[i]
          BY <2>i, <4>2
        <5> QED BY <1>1, <1>2, <5>1 DEF Calling
      <4> QED BY <4>1, <4>2
    <3> QED BY <1>2, <2>g, <3>4 DEF Calling
  <2>o. Replying'
    <3>1. m + 1 \in 0 .. Done /\ k \in m + 1 .. Done
      BY <1>5, <1>8
    <3>2. RepliesFrom(m + 1)'
      <4>1. Cut(to_client' \o Unread', Replies', m + 1, k, rest)
        BY <2>b, <2>f, <2>h
      <4> QED BY <1>4, <2>g, <2>h, <3>1, <4>1 DEF RepliesFrom, Streams
    <3>3. ASSUME NEW j \in 1 .. Len(wire)
          PROVE  answers'[wire[j]].code = IF j <= m + 1 THEN "answered" ELSE "waiting"
      <4>1. CASE j = m + 1
        BY <1>5, <1>6, <2>i, <4>1
      <4>2. CASE j # m + 1
        <5>1. wire[j] # First /\ wire[j] \in DOMAIN script
          <6>1. j < m + 1 \/ m + 1 < j
            BY <1>5, <4>2
          <6>2. wire[j] < wire[m + 1] \/ wire[m + 1] < wire[j]
            BY <1>1, <1>6, <6>1 DEF Ordered
          <6>3. wire[j] \in Nat /\ wire[m + 1] \in Nat /\ wire[j] \in DOMAIN script
            BY <1>1, <1>6, WireFacts
          <6> QED BY <1>6, <6>2, <6>3
        <5>2. j <= m + 1 <=> j <= m
          BY <1>5, <4>2
        <5>3. answers'[wire[j]] = answers[wire[j]]
          BY <2>i, <5>1
        <5> QED BY <1>3, <5>2, <5>3
      <4> QED BY <4>1, <4>2
    <3> QED BY <2>g, <2>h, <3>1, <3>2, <3>3 DEF Replying
  <2>p. AnswersMatch'
    <3>1. /\ ~IsForeign(script[First])
          /\ script[First].request \in rejected <=> ~Ran(script[First].request)
      <4>1. m + 1 \in 1 .. Done
        BY <1>5, <1>8
      <4> QED BY <1>1, <1>7, <4>1, Settled
    <3>2. ASSUME NEW i \in DOMAIN script, answers'[i].code = "answered"
          PROVE  /\ ~IsForeign(script[i]) /\ answers'[i].response = {Given(script[i])}
                 /\ script[i].request \in rejected <=> ~Ran(script[i].request)
      <4>1. CASE i = First
        BY <2>i, <3>1, <4>1
      <4>2. CASE i # First
        BY <1>1, <2>i, <3>2, <4>2 DEF AnswersMatch
      <4> QED BY <4>1, <4>2
    <3> QED BY <2>g, <3>2 DEF AnswersMatch, Given, Ran
  <2> QED BY <2>j, <2>k, <2>l, <2>m, <2>n, <2>o, <2>p DEF IInv
<1>9. CASE ~(m < k)
  <2>a. to_client \o Unread = rest
    <3>1. k = m
      BY <1>5, <1>9
    <3> QED BY <1>4, <1>5, <3>1, CutEmpty
  <2>b. rest # <<>>
    <3>1. to_client \in Text /\ Unread \in Text /\ Len(to_client) >= 4
      BY <1>1, <1>2, OutputFacts DEF Typed, ResponseArrived
    <3>2. Len(to_client \o Unread) = Len(to_client) + Len(Unread)
          /\ Len(to_client) \in Nat /\ Len(Unread) \in Nat
      BY <3>1, TextConcat
    <3> QED BY <2>a, <3>1, <3>2, TextEmpty
  <2>c. ~Clean /\ \E r \in Text : rest = ErrorReply \o r
    BY <1>4, <2>b
  <2>d. PICK r \in Text : to_client \o Unread = ErrorReply \o r
    BY <2>a, <2>c
  <2>e. WellDelimited(ErrorReply) /\ DecodeResponse(ErrorReply).ok
    BY ErrorReplyFacts
  <2>f. len = Len(ErrorReply) /\ ValidLength(Len(ErrorReply))
        /\ SubSeq(to_client, 1, Len(ErrorReply)) = ErrorReply
    BY <1>1, <1>2, <2>d, <2>e, FrameArrives
  <2>g. p = DecodeResponse(ErrorReply)
    BY <2>f
  <2>h. ~Matches(p.value, script[First].request)
    BY <1>7, <2>g, ReplyFacts
  <2> HIDE DEF p, len
  <2>i. Disconnect /\ UNCHANGED <<script, wire, to_server, to_client, server>>
    BY <1>2, <2>h
  <2>j. IInv
    OBVIOUS
  <2> QED BY <2>c, <2>i, <2>j, DisconnectIInv, Zenon
<1> QED BY <1>8, <1>9

----------------------------------------
(* TcpConnection *)

\* A step of the server leaves the client's side of the invariant.
LEMMA ServerSteps ==
    ASSUME IInv, UNCHANGED <<script, client>>,
           open' \in BOOLEAN, reading' \in BOOLEAN, closing' \in BOOLEAN, stopped' \in BOOLEAN,
           to_server' \in Text, to_client' \in Text,
           output' \in [data : Text, reader_index : Nat], output'.reader_index <= Len(output'.data)
    PROVE  /\ Typed' /\ Ordered' /\ Calling'
           /\ UNCHANGED <<script, wire, sent, answers, connected>>
           /\ Frames' = Frames /\ On' = On /\ (Clean <=> Clean')
           /\ UNCHANGED <<executed, rejected>> => /\ AnswersMatch' /\ RequestsIntact'
                                                 /\ Done' = Done /\ Replies' = Replies
<1>1. UNCHANGED <<script, wire, sent, answers, connected>> /\ (Clean <=> Clean')
  BY DEF client, Clean
<1>2. Frames' = Frames /\ On' = On /\ (rejected' = rejected => Replies' = Replies)
  BY <1>1, SameOn
<1>3. Typed /\ Ordered /\ Calling /\ AnswersMatch /\ RequestsIntact
  BY DEF IInv
<1>4. Typed'
  BY <1>1, <1>3 DEF Typed
<1>5. Ordered' /\ Calling'
  BY <1>1, <1>2, <1>3 DEF Ordered, Calling
<1>6. ASSUME UNCHANGED <<executed, rejected>>
      PROVE  AnswersMatch' /\ RequestsIntact' /\ Done' = Done /\ Replies' = Replies
  BY <1>1, <1>2, <1>3, <1>6 DEF AnswersMatch, Given, Ran, RequestsIntact, Done
<1> QED BY <1>1, <1>2, <1>4, <1>5, <1>6

\* One reply more at the end of the replies.
LEMMA StreamsMore ==
    ASSUME NEW s, NEW f, NEW g, NEW m \in Nat, NEW d \in Nat, m <= d,
           NEW c \in BOOLEAN, NEW c2 \in BOOLEAN, Streams(s, f, m, d, c), c => c2,
           \A k \in m + 1 .. d : f[k] \in Text /\ g[k] = f[k], g[d + 1] \in Text
    PROVE  Streams(s \o g[d + 1], g, m, d + 1, c2)
<1> DEFINE x == g[d + 1]
<1>1. PICK k \in m .. d, rest \in Text :
         /\ Cut(s, f, m, k, rest)
         /\ \/ k = d /\ rest = <<>>
            \/ c /\ \E r \in Text : rest = ErrorReply \o r
  BY DEF Streams
<1>2. k \in Nat /\ m <= k /\ k <= d /\ \A i \in m + 1 .. k : i \in m + 1 .. d
  OBVIOUS
<1>3. CASE k = d /\ rest = <<>>
  <2>a. Cut(s, f, m, d, <<>>)
    BY <1>1, <1>3
  <2>b. Cut(s \o x, g, m, d + 1, <<>>)
    BY <2>a, CutAppend
  <2>c. d + 1 \in m .. d + 1 /\ <<>> \in Text
    BY TextEmpty
  <2> QED BY <2>b, <2>c DEF Streams
<1>4. CASE c /\ \E r \in Text : rest = ErrorReply \o r
  <2> HIDE DEF x
  <2>a. PICK r \in Text : rest = ErrorReply \o r
    BY <1>4
  <2>b. x \in Text /\ ErrorReply \in Text
    BY ErrorReplyFacts DEF WellDelimited, x
  <2>c. rest \o x = ErrorReply \o (r \o x) /\ r \o x \in Text /\ rest \o x \in Text
    <3>1. (ErrorReply \o r) \o x = ErrorReply \o (r \o x)
      BY <2>b, TextAssoc, Zenon
    <3>2. r \o x \in Text /\ rest \o x \in Text
      BY <2>b, TextConcat
    <3> QED BY <2>a, <3>1, <3>2
  <2>d. Cut(s \o x, f, m, k, rest \o x)
    BY <1>1, <1>2, <2>b, CutMore
  <2>e. Cut(s \o x, g, m, k, rest \o x)
    BY <1>2, <2>d, CutSame
  <2>f. k \in m .. d + 1
    BY <1>2
  <2>g. c2 /\ \E r_ \in Text : rest \o x = ErrorReply \o r_
    BY <1>4, <2>c
  <2>h. Streams(s \o x, g, m, d + 1, c2)
    BY <2>c, <2>e, <2>f, <2>g DEF Streams
  <2> QED BY <2>h DEF x
<1> QED BY <1>1, <1>3, <1>4

\* The error reply, which nothing that matters follows.
LEMMA StreamsError ==
    ASSUME NEW s, NEW f, NEW m \in Nat, NEW d \in Nat, m <= d, NEW c \in BOOLEAN,
           Streams(s, f, m, d, c), \A k \in m + 1 .. d : f[k] \in Text
    PROVE  Streams(s \o ErrorReply, f, m, d, TRUE)
<1>1. PICK k \in m .. d, rest \in Text :
         /\ Cut(s, f, m, k, rest)
         /\ \/ k = d /\ rest = <<>>
            \/ c /\ \E r \in Text : rest = ErrorReply \o r
  BY DEF Streams
<1>2. k \in Nat /\ m <= k /\ k <= d /\ \A i \in m + 1 .. k : i \in m + 1 .. d
  OBVIOUS
<1>3. ErrorReply \in Text
  BY ErrorReplyFacts DEF WellDelimited
<1> DEFINE t == rest \o ErrorReply
<1>4. Cut(s \o ErrorReply, f, m, k, t) /\ t \in Text
  BY <1>1, <1>2, <1>3, CutMore, TextConcat
<1>5. \E r \in Text : t = ErrorReply \o r
  <2>a. CASE rest = <<>>
    <3>1. t = ErrorReply \o <<>> /\ <<>> \in Text
      BY <1>3, <2>a, TextEmpty, ConcatEmptySeq DEF Text
    <3> QED BY <3>1
  <2>b. CASE \E r \in Text : rest = ErrorReply \o r
    <3>1. PICK r \in Text : rest = ErrorReply \o r
      BY <2>b
    <3>2. t = ErrorReply \o (r \o ErrorReply) /\ r \o ErrorReply \in Text
      BY <1>3, <3>1, TextAssoc, TextConcat
    <3> QED BY <3>2
  <2> QED BY <1>1, <2>a, <2>b
<1> HIDE DEF t
<1> QED BY <1>4, <1>5 DEF Streams

\* When the bytes on their way to the client are the same, so are its answers.
LEMMA RepliesSame ==
    ASSUME Replying, UNCHANGED <<script, wire, answers, connected, executed, rejected>>,
           closing => closing', to_client' \o Unread' = to_client \o Unread
    PROVE  Replying'
<1>1. SUFFICES ASSUME connected PROVE Replying'
  BY DEF Replying
<1>2. PICK m \in 0 .. Done :
         /\ \A k \in 1 .. Len(wire) :
               answers[wire[k]].code = IF k <= m THEN "answered" ELSE "waiting"
         /\ RepliesFrom(m)
  BY <1>1 DEF Replying
<1>3. Replies' = Replies /\ Done' = Done /\ (Clean <=> Clean')
  BY SameOn DEF Done, Clean
<1>4. RepliesFrom(m)'
  BY <1>2, <1>3 DEF RepliesFrom, Streams
<1> QED BY <1>2, <1>3, <1>4 DEF Replying

\* Replies have places of their own in the stream.
LEMMA RepliesText ==
    ASSUME Typed, Ordered, NEW m \in Nat, NEW d \in Nat, d <= Len(wire)
    PROVE  \A k \in m + 1 .. d : k \in 1 .. Len(wire) /\ Replies[k] \in Text
<1>1. \A k \in m + 1 .. d : k \in 1 .. Len(wire)
  BY WireFacts
<1> QED BY <1>1, WireFacts

LEMMA PeerClosedIInv == IInv /\ PeerClosed => IInv'
<1> SUFFICES ASSUME IInv, PeerClosed PROVE IInv'
  OBVIOUS
<1>1. /\ Typed /\ Ordered /\ executed \in Seq(Request) /\ RequestsIntact /\ Held /\ Decoding
      /\ Calling /\ Replying /\ AnswersMatch /\ Untroubled /\ Idle /\ TurnedAway /\ Flushing
  BY DEF IInv
<1>2. /\ open' = FALSE /\ reading' = FALSE /\ ~connected
      /\ UNCHANGED <<script, client, to_server, to_client, buffer, requests, current, closing>>
      /\ UNCHANGED <<rejected, output, stopped, executed>>
  BY DEF PeerClosed, HandleClose
<1>3. /\ Typed' /\ Ordered' /\ Calling' /\ AnswersMatch' /\ RequestsIntact' /\ Done' = Done
      /\ UNCHANGED <<script, wire, sent, answers, connected>> /\ Frames' = Frames /\ On' = On
      /\ Clean <=> Clean'
  <2>a. /\ open' \in BOOLEAN /\ reading' \in BOOLEAN /\ closing' \in BOOLEAN /\ stopped' \in BOOLEAN
        /\ to_server' \in Text /\ to_client' \in Text
        /\ output' \in [data : Text, reader_index : Nat]
        /\ output'.reader_index <= Len(output'.data)
    BY <1>1, <1>2 DEF Typed
  <2> QED BY <1>2, <2>a, ServerSteps
<1>4. /\ executed' \in Seq(Request) /\ Held' /\ Idle' /\ Untroubled' /\ TurnedAway' /\ Flushing'
  BY <1>1, <1>2, <1>3 DEF Held, Idle, Untroubled, TurnedAway, Flushing
<1>5. Decoding'
  BY <1>1, <1>2, <1>3 DEF Decoding, Taken
<1>6. Replying'
  BY <1>2, <1>3 DEF Replying
<1> QED BY <1>3, <1>4, <1>5, <1>6 DEF IInv

LEMMA ShutdownIInv == IInv /\ Shutdown => IInv'
<1> SUFFICES ASSUME IInv, Shutdown PROVE IInv'
  OBVIOUS
<1>1. /\ Typed /\ Ordered /\ executed \in Seq(Request) /\ RequestsIntact /\ Held /\ Decoding
      /\ Calling /\ Replying /\ AnswersMatch /\ Untroubled /\ Idle /\ TurnedAway /\ Flushing
  BY DEF IInv
<1>2. /\ stopped' = TRUE /\ closing' = TRUE
      /\ UNCHANGED <<script, client, to_server, to_client, buffer, requests, current>>
      /\ UNCHANGED <<rejected, output, executed>>
      /\ \/ open' = FALSE /\ reading' = FALSE
         \/ UNCHANGED <<open, reading>> /\ readable_bytes(output) # 0
  BY DEF Shutdown, HandleClose
<1>3. /\ Typed' /\ Ordered' /\ Calling' /\ AnswersMatch' /\ RequestsIntact' /\ Done' = Done
      /\ UNCHANGED <<script, wire, sent, answers, connected>> /\ Frames' = Frames /\ On' = On
      /\ Clean <=> Clean'
  <2>a. /\ open' \in BOOLEAN /\ reading' \in BOOLEAN /\ closing' \in BOOLEAN /\ stopped' \in BOOLEAN
        /\ to_server' \in Text /\ to_client' \in Text
        /\ output' \in [data : Text, reader_index : Nat]
        /\ output'.reader_index <= Len(output'.data)
    BY <1>1, <1>2 DEF Typed
  <2> QED BY <1>2, <2>a, ServerSteps
<1>4. executed' \in Seq(Request) /\ Held' /\ Idle' /\ Untroubled' /\ TurnedAway' /\ Flushing'
  <2>a. Unread' = Unread /\ Len(Unread) = readable_bytes(output) /\ Len(<<>>) = 0
    BY <1>1, <1>2, OutputFacts, TextEmpty DEF Unread
  <2>b. Flushing'
    BY <1>2, <2>a DEF Flushing
  <2> QED BY <1>1, <1>2, <1>3, <2>b DEF Held, Idle, Untroubled, TurnedAway
<1>5. Decoding'
  BY <1>1, <1>2, <1>3 DEF Decoding, Taken
<1>6. Replying'
  <2>a. to_client' \o Unread' = to_client \o Unread
    BY <1>2 DEF Unread
  <2> QED BY <1>1, <1>2, <1>3, <2>a, RepliesSame
<1> QED BY <1>3, <1>4, <1>5, <1>6 DEF IInv

LEMMA HandleWriteIInv == IInv /\ Writes => IInv'
<1> SUFFICES ASSUME IInv, Writes PROVE IInv'
  OBVIOUS
<1>1. /\ Typed /\ Ordered /\ executed \in Seq(Request) /\ RequestsIntact /\ Held /\ Decoding
      /\ Calling /\ Replying /\ AnswersMatch /\ Untroubled /\ Idle /\ TurnedAway /\ Flushing
  BY DEF IInv
<1>2. PICK n : HandleWrite(n)
  BY DEF Writes
<1> DEFINE part == SubSeq(output.data, output.reader_index + 1, output.reader_index + n)
<1>3. /\ n \in 0 .. readable_bytes(output) /\ open /\ ~reading
      /\ to_client' = to_client \o part
      /\ output' = Consume(output, n)
      /\ \/ closing /\ open' = FALSE /\ reading' = FALSE /\ n = readable_bytes(output)
         \/ UNCHANGED <<open, reading>> /\ (closing => n # readable_bytes(output))
      /\ UNCHANGED <<script, client, to_server, buffer, requests, current, closing, stopped>>
      /\ UNCHANGED <<rejected, executed>>
  <2>a. /\ n \in 1 .. readable_bytes(output) /\ readable_bytes(output) \in Nat
    BY <1>1, <1>2, OutputFacts DEF HandleWrite
  <2>b. n \in 0 .. readable_bytes(output)
    BY <2>a
  <2> QED BY <1>2, <2>b DEF HandleWrite, HandleClose
<1>4. /\ output' \in [data : Text, reader_index : Nat] /\ output'.reader_index <= Len(output'.data)
      /\ Unread = part \o Unread' /\ part \in Text /\ Unread' \in Text
  BY <1>1, <1>3, Consuming
<1> HIDE DEF part
<1>5. to_client \in Text /\ to_client' \in Text
  BY <1>1, <1>3, <1>4, TextConcat DEF Typed
<1>6. to_client' \o Unread' = to_client \o Unread
  <2>a. (to_client \o part) \o Unread' = to_client \o (part \o Unread')
    <3>1. part \in Text /\ Unread' \in Text /\ to_client \in Text
      BY <1>4, <1>5
    <3> QED BY <3>1, TextAssoc
  <2> QED BY <1>3, <1>4, <2>a
<1>7. /\ Typed' /\ Ordered' /\ Calling' /\ AnswersMatch' /\ RequestsIntact' /\ Done' = Done
      /\ UNCHANGED <<script, wire, sent, answers, connected>> /\ Frames' = Frames /\ On' = On
      /\ Clean <=> Clean'
  <2>a. /\ open' \in BOOLEAN /\ reading' \in BOOLEAN /\ closing' \in BOOLEAN /\ stopped' \in BOOLEAN
        /\ to_server' \in Text
    BY <1>1, <1>3 DEF Typed
  <2> QED BY <1>3, <1>4, <1>5, <2>a, ServerSteps
<1>8. executed' \in Seq(Request) /\ Held' /\ Idle' /\ Untroubled' /\ TurnedAway' /\ Flushing'
  <2>a. n \in Nat /\ readable_bytes(output) \in Nat /\ Len(Unread) = readable_bytes(output)
    BY <1>1, <1>3, OutputFacts
  <2>b. Len(part) = n
    <3>1. /\ output.data \in Text /\ output.reader_index \in Nat /\ Len(output.data) \in Nat
          /\ n <= Len(output.data) - output.reader_index
      BY <1>1, <1>3, <2>a, OutputFacts DEF readable_bytes
    <3>2. output.reader_index + n \in 0 .. Len(output.data) /\ output.reader_index + 1 \in Nat
      BY <2>a, <3>1
    <3> QED BY <2>a, <3>1, <3>2 DEF part, Text
  <2>c. Len(Unread) = n + Len(Unread') /\ Len(Unread') \in Nat
    BY <1>4, <2>b, TextConcat
  <2>d. Unread' = <<>> <=> n = readable_bytes(output)
    BY <1>4, <2>a, <2>c, TextEmpty
  <2>e. Flushing'
    BY <1>1, <1>3, <1>7, <2>d DEF Flushing
  <2> QED BY <1>1, <1>3, <1>7, <2>e DEF Held, Idle, Untroubled, TurnedAway
<1>9. Decoding'
  BY <1>1, <1>3, <1>7 DEF Decoding, Taken
<1>10. Replying'
  BY <1>1, <1>3, <1>6, <1>7, RepliesSame
<1> QED BY <1>7, <1>8, <1>9, <1>10 DEF IInv

\* The service answers a request of the script with the response of its exchange.
LEMMA ReplyBytesIs ==
    ASSUME script \in Scripts, NEW i \in DOMAIN script
    PROVE  ReplyBytes(script[i].request) = ReplyOf(script[i])
<1> DEFINE q == script[i].request
           same == {j \in DOMAIN script : script[j].request = q}
<1>1. same = {i}
  BY ScriptFacts
<1>2. (CHOOSE j \in same : TRUE) = i
  BY <1>1
<1>3. Handle(q) = script[i].response
  BY <1>1, <1>2 DEF Handle
<1> QED BY <1>3 DEF ReplyBytes, ReplyOf, OrElse

HeldBy(busy, e) ==
    busy # {} => /\ e < Len(wire)
                 /\ busy = {On[e + 1].request}
                 /\ ~IsForeign(On[e + 1])
TakenBy(busy, e) == e + (IF busy = {} THEN 0 ELSE 1)
Queued(queue, t, j) == queue = [k \in 1 .. j - t |-> On[t + k].request]

\* The pool does not take request e + 1.
TurnsAway(e, out) ==
    /\ current' = {} /\ closing' = TRUE
    /\ rejected' = rejected \cup {On[e + 1].request}
    /\ output' = Appended(out, InternalReply(On[e + 1].request, QueueFull))

\* SubmitNext moves the head of requests_ to the worker, or turns it away.
LEMMA SubmitNextMoves ==
    ASSUME Len(wire) \in Nat, NEW e \in Nat, NEW busy, NEW out, HeldBy(busy, e),
           SubmitNext(requests, busy, out), ~closing, UNCHANGED <<script, wire>>,
           NEW j \in TakenBy(busy, e) .. Len(wire), Queued(requests, TakenBy(busy, e), j),
           \A k \in 1 .. j : ~IsForeign(On[k])
    PROVE  \/ /\ HeldBy(current', e) /\ j \in TakenBy(current', e) .. Len(wire)
              /\ Queued(requests', TakenBy(current', e), j)
              /\ current' = {} => requests' = <<>>
              /\ output' = out /\ UNCHANGED <<rejected, closing>>
           \/ /\ TurnsAway(e, out)
              /\ e < Len(wire) /\ ~IsForeign(On[e + 1])
              /\ j \in e + 1 .. Len(wire) /\ Queued(requests', e + 1, j)
<1>1. CASE busy # {} \/ requests = <<>>
  BY <1>1 DEF SubmitNext
<1>2. CASE ~(busy # {} \/ requests = <<>>)
  <2>a. busy = {} /\ requests # <<>> /\ requests' = Tail(requests) /\ Submit(Head(requests), out)
    BY <1>2 DEF SubmitNext
  <2>b. TakenBy(busy, e) = e /\ j \in Nat /\ e <= j /\ j <= Len(wire)
    BY <2>a DEF TakenBy
  <2>c. requests = [k \in 1 .. j - e |-> On[e + k].request]
    BY <2>b DEF Queued
  <2>d. j > e
    <3>1. SUFFICES ASSUME j = e PROVE FALSE
      BY <2>b
    <3>2. requests = <<>>
      BY <2>c, <3>1
    <3> QED BY <2>a, <3>2
  <2>e. e + 1 \in 1 .. j /\ j - e \in Nat /\ j - e >= 1 /\ j - (e + 1) = (j - e) - 1
    BY <2>b, <2>d
  <2> DEFINE T == {On[e + k].request : k \in 1 .. j - e}
  <2>f. requests \in [1 .. j - e -> T]
    BY <2>c
  <2> HIDE DEF T
  <2>g. requests \in Seq(T) /\ Len(requests) = j - e
    BY <2>e, <2>f
  <2>h. Head(requests) = On[e + 1].request
    <3>1. Head(requests) = requests[1]
      BY <2>a, <2>g
    <3>2. requests[1] = On[e + 1].request
      BY <2>c, <2>e
    <3> QED BY <3>1, <3>2
  <2>i. Tail(requests) = [k \in 1 .. j - (e + 1) |-> On[(e + 1) + k].request]
    <3>1. Tail(requests) = [k \in 1 .. (j - e) - 1 |-> requests[k + 1]]
      <4>1. /\ Tail(requests) \in Seq(T) /\ Len(Tail(requests)) = (j - e) - 1
            /\ \A k \in 1 .. Len(Tail(requests)) : Tail(requests)[k] = requests[k + 1]
        BY <2>a, <2>g, HeadTailProperties
      <4>2. Tail(requests) = [k \in 1 .. (j - e) - 1 |-> Tail(requests)[k]]
        <5>1. Tail(requests) \in [1 .. (j - e) - 1 -> T]
          BY <4>1, LenProperties
        <5> QED BY <5>1
      <4> QED BY <4>1, <4>2
    <3>2. ASSUME NEW k \in 1 .. (j - e) - 1 PROVE requests[k + 1] = On[(e + 1) + k].request
      <4>1. k + 1 \in 1 .. j - e /\ e + (k + 1) = (e + 1) + k
        BY <2>b, <2>e
      <4> QED BY <2>c, <4>1
    <3> QED BY <2>e, <3>1, <3>2
  <2>j. j \in e + 1 .. Len(wire) /\ e < Len(wire) /\ ~IsForeign(On[e + 1])
    BY <2>b, <2>d, <2>e
  <2>k. Queued(requests', e + 1, j)
    BY <2>a, <2>i DEF Queued
  <2>l. CASE current' = {Head(requests)} /\ output' = out /\ UNCHANGED <<rejected, closing>>
    <3>1. TakenBy(current', e) = e + 1 /\ current' # {}
      BY <2>l DEF TakenBy
    <3>2. HeldBy(current', e)
      BY <2>h, <2>j, <2>l DEF HeldBy
    <3> QED BY <2>j, <2>k, <2>l, <3>1, <3>2
  <2>m. CASE /\ current' = {} /\ output' = Appended(out, InternalReply(Head(requests), QueueFull))
             /\ rejected' = rejected \cup {Head(requests)} /\ closing' = TRUE
    BY <2>h, <2>j, <2>k, <2>m DEF TurnsAway
  <2> QED BY <2>a, <2>l, <2>m DEF Submit
<1> QED BY <1>1, <1>2

LEMMA SubmitNextClosing ==
    ASSUME NEW queue, NEW busy, NEW out, SubmitNext(queue, busy, out), closing
    PROVE  requests' = queue /\ current' = busy /\ output' = out /\ UNCHANGED <<rejected, closing>>
BY DEF SubmitNext

\* The replies of those before it stay what they were when a request is turned away.
LEMMA RefusalReplies ==
    ASSUME Typed, Ordered, executed \in Seq(Request), RequestsIntact, rejected = {},
           UNCHANGED <<script, wire>>, NEW e \in Nat, e < Len(wire),
           rejected' = {On[e + 1].request}
    PROVE  /\ \A k \in 1 .. e : Replies'[k] = Replies[k]
           /\ Replies'[e + 1] = InternalReply(On[e + 1].request, QueueFull)
           /\ Replies'[e + 1] \in Text /\ Replies'[e + 1] # <<>>
<1>1. Len(wire) \in Nat /\ e + 1 \in 1 .. Len(wire) /\ On' = On /\ On[e + 1].request \in Request
  <2>a. Len(wire) \in Nat
    BY WireFacts
  <2>b. e + 1 \in 1 .. Len(wire)
    BY <2>a
  <2> QED BY <2>a, <2>b, WireFacts, SameOn
<1>2. ASSUME NEW k \in 1 .. Len(wire)
      PROVE  /\ Replies[k] = ReplyOf(On[k])
             /\ Replies'[k] = IF On[k].request = On[e + 1].request
                              THEN InternalReply(On[k].request, QueueFull) ELSE ReplyOf(On[k])
  BY <1>1 DEF Replies, AnswerTo
<1>3. ASSUME NEW k \in 1 .. e PROVE Replies'[k] = Replies[k]
  <2>a. k \in 1 .. Len(wire) /\ k # e + 1
    BY <1>1
  <2>b. On[k].request # On[e + 1].request
    BY <1>1, <2>a, Distinct
  <2> QED BY <1>2, <2>a, <2>b
<1>4. Replies'[e + 1] = InternalReply(On[e + 1].request, QueueFull)
  BY <1>1, <1>2
<1>5. WellDelimited(InternalReply(On[e + 1].request, QueueFull))
  BY <1>1, InternalReplyFacts
<1>6. Replies'[e + 1] \in Text /\ Replies'[e + 1] # <<>>
  <2> DEFINE g == Replies'[e + 1]
  <2>a. g \in Text /\ Len(g) \in 16 .. kMaxFrameBytes
    BY <1>4, <1>5 DEF WellDelimited, kFrameHeaderBytes
  <2> HIDE DEF g
  <2>b. Len(g) # 0
    BY <2>a, LenProperties DEF Text
  <2>c. g # <<>>
    BY <2>b, TextEmpty
  <2> QED BY <2>a, <2>c DEF g
<1> QED BY <1>3, <1>4, <1>6

\* An answer stays right while the service goes on and turns the next request away.
LEMMA AnswersKept ==
    ASSUME Typed, Ordered, executed \in Seq(Request), RequestsIntact, AnswersMatch,
           rejected = {}, UNCHANGED <<script, wire, answers>>,
           Typed', Ordered', executed' \in Seq(Request), RequestsIntact', TurnedAway',
           \A q : Ran(q) => Ran(q)'
    PROVE  AnswersMatch'
<1>1. On' = On
  BY SameOn
<1>2. ASSUME NEW i \in DOMAIN script, answers[i].code = "answered"
      PROVE  /\ ~IsForeign(script[i]) /\ answers[i].response = {Expected(script[i])}
             /\ Ran(script[i].request)'
  BY <1>2 DEF AnswersMatch, Given
<1>3. ASSUME NEW q, Ran(q)' PROVE q \notin rejected'
  <2> DEFINE e == Len(executed')
  <2>a. PICK k \in DOMAIN executed' : executed'[k] = q
    BY <1>3 DEF Ran
  <2>b. e \in Nat /\ DOMAIN executed' = 1 .. e /\ Len(wire) \in Nat /\ e <= Len(wire)
    BY WireFacts DEF RequestsIntact
  <2>c. k \in 1 .. Len(wire) /\ q = On[k].request /\ k <= e
    <3>1. k \in 1 .. Len(wire) /\ k <= e
      BY <2>a, <2>b
    <3> QED BY <2>a, <3>1 DEF RequestsIntact, On
  <2>d. rejected' # {} => e < Len(wire) /\ rejected' = {On[e + 1].request}
    BY <1>1 DEF TurnedAway
  <2>e. SUFFICES ASSUME rejected' # {} PROVE q # On[e + 1].request
    BY <2>d
  <2>f. e + 1 \in 1 .. Len(wire) /\ k # e + 1
    BY <2>b, <2>c, <2>d, <2>e
  <2>g. \A a, b \in 1 .. Len(wire) : On[a].request = On[b].request => a = b
    BY Distinct
  <2> HIDE DEF e
  <2> QED BY <2>c, <2>f, <2>g
<1>4. ASSUME NEW i \in DOMAIN script, answers[i].code = "answered"
      PROVE  /\ ~IsForeign(script[i]) /\ answers[i].response = {Given(script[i])'}
             /\ script[i].request \in rejected' <=> ~Ran(script[i].request)'
  <2>a. ~IsForeign(script[i]) /\ answers[i].response = {Expected(script[i])}
        /\ Ran(script[i].request)'
    BY <1>2, <1>4
  <2>b. script[i].request \notin rejected'
    BY <1>3, <2>a
  <2>c. Given(script[i])' = Expected(script[i])
    BY <2>b DEF Given
  <2> QED BY <2>a, <2>b, <2>c
<1> QED BY <1>4 DEF AnswersMatch

\* SubmitNext after x was appended to output_, with the requests in executed' run.
LEMMA SubmitNextIInv ==
    ASSUME IInv, ~closing, NEW busy, NEW x \in Text,
           SubmitNext(requests, busy, Appended(output, x)),
           UNCHANGED <<script, client, to_server, to_client, open, buffer, stopped>>,
           reading' \in BOOLEAN, executed' \in Seq(Request), RequestsIntact',
           \A q : Ran(q) => Ran(q)',
           HeldBy(busy, Len(executed')), Taken = TakenBy(busy, Len(executed')),
           connected => \E m \in 0 .. Len(executed') :
              /\ \A k \in 1 .. Len(wire) :
                    answers[wire[k]].code = IF k <= m THEN "answered" ELSE "waiting"
              /\ Streams((to_client \o Unread) \o x, Replies, m, Len(executed'), FALSE)
    PROVE  IInv'
<1> DEFINE e == Len(executed')
           s == (to_client \o Unread) \o x
<1>1. /\ Typed /\ Ordered /\ executed \in Seq(Request) /\ RequestsIntact /\ Held /\ Decoding
      /\ Calling /\ Replying /\ AnswersMatch /\ Untroubled /\ Idle /\ TurnedAway /\ Flushing
  BY DEF IInv
<1>2. /\ rejected = {} /\ e \in Nat /\ Len(wire) \in Nat /\ e <= Len(wire)
      /\ to_client \in Text /\ Unread \in Text /\ to_client \o Unread \in Text
      /\ UNCHANGED <<script, wire, answers, connected, to_server, to_client, open, buffer, stopped>>
      /\ On' = On /\ Frames' = Frames /\ (Clean <=> Clean')
  <2>a. UNCHANGED <<script, wire, answers, connected, to_server, to_client, open, buffer, stopped>>
    BY DEF client
  <2>b. to_client \in Text /\ Unread \in Text
    BY <1>1, OutputFacts DEF Typed
  <2>c. On' = On /\ Frames' = Frames /\ (Clean <=> Clean')
    BY <2>a, SameOn DEF Clean
  <2>d. e \in Nat /\ Len(wire) \in Nat /\ e <= Len(wire)
    BY <1>1, <2>a, WireFacts DEF RequestsIntact
  <2>e. rejected = {}
    BY <1>1 DEF TurnedAway
  <2> QED BY <2>a, <2>b, <2>c, <2>d, <2>e, TextConcat
<1>3. PICK j \in Taken .. Len(wire) :
         /\ requests = [k \in 1 .. j - Taken |-> On[Taken + k].request]
         /\ \A k \in 1 .. j : ~IsForeign(On[k])
         /\ buffer \in Text /\ Incomplete(buffer)
         /\ Cut(buffer \o to_server, Frames, j, Len(wire), <<>>)
  BY <1>1 DEF Decoding
<1>4. Queued(requests, TakenBy(busy, e), j) /\ j \in TakenBy(busy, e) .. Len(wire)
  BY <1>3 DEF Queued
<1> DEFINE out == Appended(output, x)
<1>5. \/ /\ HeldBy(current', e) /\ j \in TakenBy(current', e) .. Len(wire)
         /\ Queued(requests', TakenBy(current', e), j)
         /\ current' = {} => requests' = <<>>
         /\ output' = out /\ UNCHANGED <<rejected, closing>>
      \/ /\ TurnsAway(e, out)
         /\ e < Len(wire) /\ ~IsForeign(On[e + 1])
         /\ j \in e + 1 .. Len(wire) /\ Queued(requests', e + 1, j)
  <2> HIDE DEF out, e
  <2>a. SubmitNext(requests, busy, out) /\ HeldBy(busy, e)
    BY DEF out, e
  <2> QED BY <1>2, <1>3, <1>4, <2>a, SubmitNextMoves
\* What the step does to a stream of replies.
<1>6. ASSUME NEW y \in Text, output' = Appended(output, y), closing' \in BOOLEAN
      PROVE  /\ Typed' /\ Ordered' /\ Calling' /\ Unread' = Unread \o y
             /\ to_client' \o Unread' = (to_client \o Unread) \o y
  <2>a. /\ output' \in [data : Text, reader_index : Nat] /\ output'.reader_index <= Len(output'.data)
        /\ Unread' = Unread \o y
    BY <1>1, <1>6, Appending
  <2>b. open' \in BOOLEAN /\ stopped' \in BOOLEAN /\ to_server' \in Text /\ to_client' \in Text
    BY <1>1, <1>2 DEF Typed
  <2>c. Typed' /\ Ordered' /\ Calling'
    BY <1>6, <2>a, <2>b, ServerSteps
  <2>d. (to_client \o Unread) \o y = to_client \o (Unread \o y)
    <3>1. to_client \in Text /\ Unread \in Text
      BY <1>1, OutputFacts DEF Typed
    <3> QED BY <1>6, <3>1, TextAssoc
  <2> QED BY <1>2, <2>a, <2>c, <2>d
<1>7. CASE /\ HeldBy(current', e) /\ j \in TakenBy(current', e) .. Len(wire)
           /\ Queued(requests', TakenBy(current', e), j)
           /\ current' = {} => requests' = <<>>
           /\ output' = out /\ UNCHANGED <<rejected, closing>>
  <2>a. closing' \in BOOLEAN /\ ~closing' /\ rejected' = {} /\ Replies' = Replies
    BY <1>1, <1>2, <1>7, SameOn DEF Typed
  <2>b. /\ Typed' /\ Ordered' /\ Calling' /\ to_client' \o Unread' = s
    BY <1>6, <1>7, <2>a
  <2>c. Done' = e /\ Taken' = TakenBy(current', e)
    BY <1>2, <2>a DEF Done, Taken, TakenBy
  <2>d. Held' /\ Idle' /\ TurnedAway' /\ Flushing' /\ Untroubled'
    BY <1>1, <1>2, <1>7, <2>a DEF HeldBy, Held, Idle, TurnedAway, Flushing, Untroubled
  <2>e. AnswersMatch'
    BY <1>1, <1>2, <2>b, <2>d, AnswersKept
  <2>f. Decoding'
    <3>1. requests' = [k \in 1 .. j - Taken' |-> On'[Taken' + k].request]
      BY <1>2, <1>7, <2>c DEF Queued
    <3> QED BY <1>2, <1>3, <1>7, <2>c, <3>1 DEF Decoding
  <2>g. Replying'
    <3>1. SUFFICES ASSUME connected PROVE Replying'
      BY <1>2 DEF Replying
    <3>2. PICK m \in 0 .. e :
             /\ \A k \in 1 .. Len(wire) :
                   answers[wire[k]].code = IF k <= m THEN "answered" ELSE "waiting"
             /\ Streams(s, Replies, m, e, FALSE)
      BY <3>1
    <3>3. RepliesFrom(m)'
      BY <2>a, <2>b, <2>c, <3>2 DEF RepliesFrom, Streams
    <3> QED BY <1>2, <2>c, <3>2, <3>3 DEF Replying
  <2> QED BY <2>b, <2>d, <2>e, <2>f, <2>g DEF IInv
<1>8. CASE /\ TurnsAway(e, out)
           /\ e < Len(wire) /\ ~IsForeign(On[e + 1])
           /\ j \in e + 1 .. Len(wire) /\ Queued(requests', e + 1, j)
  <2> DEFINE z == Replies'[e + 1]
  <2>a. /\ current' = {} /\ closing' = TRUE /\ rejected' = {On[e + 1].request}
        /\ output' = Appended(out, InternalReply(On[e + 1].request, QueueFull))
    BY <1>2, <1>8 DEF TurnsAway
  <2>b. /\ \A k \in 1 .. e : Replies'[k] = Replies[k]
        /\ z = InternalReply(On[e + 1].request, QueueFull) /\ z \in Text /\ z # <<>>
    <3> HIDE DEF e
    <3> QED BY <1>1, <1>2, <1>8, <2>a, RefusalReplies DEF z
  <2> HIDE DEF z
  <2>c. output' = Appended(output, x \o z) /\ x \o z \in Text
    BY <1>1, <2>a, <2>b, AppendedTwice, TextConcat
  <2>d. /\ Typed' /\ Ordered' /\ Calling' /\ Unread' = Unread \o (x \o z)
        /\ to_client' \o Unread' = (to_client \o Unread) \o (x \o z)
    BY <1>6, <2>a, <2>c
  <2>e. to_client' \o Unread' = s \o z
    <3> DEFINE before == to_client \o Unread
    <3>1. before \in Text
      BY <1>1, OutputFacts, TextConcat DEF Typed
    <3>2. s = before \o x
      OBVIOUS
    <3>3. to_client' \o Unread' = before \o (x \o z)
      BY <2>d
    <3> HIDE DEF before, s
    <3>4. (before \o x) \o z = before \o (x \o z)
      BY <2>b, <3>1, TextAssoc
    <3> QED BY <3>2, <3>3, <3>4
  <2>f. Unread' # <<>>
    BY <1>2, <2>b, <2>c, <2>d, NotEmpty
  <2>g. Done' = e + 1 /\ Taken' = e + 1
    <3>1. rejected' # {} /\ current' = {}
      BY <2>a
    <3>2. Done' = e + 1 /\ Taken' = Done' + 0
      BY <3>1, Zenon DEF Done, Taken
    <3> HIDE DEF e
    <3> QED BY <1>2, <3>2
  <2>h. Held' /\ Idle' /\ TurnedAway' /\ Untroubled'
    BY <1>2, <1>8, <2>a DEF Held, Idle, TurnedAway, Untroubled
  <2>i. Flushing'
    BY <1>1, <1>2, <2>f DEF Flushing, Untroubled
  <2>j. AnswersMatch'
    BY <1>1, <1>2, <2>d, <2>h, AnswersKept
  <2>k. Decoding'
    <3>1. requests' = [k \in 1 .. j - Taken' |-> On'[Taken' + k].request]
      BY <1>2, <1>8, <2>g DEF Queued
    <3>2. j \in Taken' .. Len(wire)
      BY <1>8, <2>g
    <3> QED BY <1>2, <1>3, <3>1, <3>2 DEF Decoding
  <2>l. Replying'
    <3>1. SUFFICES ASSUME connected PROVE Replying'
      BY <1>2 DEF Replying
    <3>2. PICK m \in 0 .. e :
             /\ \A k \in 1 .. Len(wire) :
                   answers[wire[k]].code = IF k <= m THEN "answered" ELSE "waiting"
             /\ Streams(s, Replies, m, e, FALSE)
      BY <3>1
    <3>3. m \in Nat /\ m <= e /\ \A k \in m + 1 .. e : k \in 1 .. e
      BY <1>2
    <3>4. \A k \in m + 1 .. e : Replies[k] \in Text /\ Replies'[k] = Replies[k]
      BY <1>1, <1>2, <2>b, <3>3, RepliesText
    <3> DEFINE f == Replies
               g == Replies'
               c == (closing /\ ~Clean)'
    <3>5. c \in BOOLEAN
      OBVIOUS
    <3>6. Streams(s, f, m, e, FALSE) /\ g[e + 1] = z
          /\ \A k \in m + 1 .. e : f[k] \in Text /\ g[k] = f[k]
      BY <3>2, <3>4 DEF z
    <3>7. RepliesFrom(m)' <=> Streams(s \o z, g, m, e + 1, c)
      BY <2>e, <2>g DEF RepliesFrom
    <3> HIDE DEF f, g, c, e, s
    <3>8. Streams(s \o g[e + 1], g, m, e + 1, c)
      <4> DEFINE no == FALSE
      <4>1. no \in BOOLEAN /\ (no => c) /\ Streams(s, f, m, e, no) /\ g[e + 1] \in Text /\ e \in Nat
        BY <1>2, <2>b, <3>6
      <4> HIDE DEF no
      <4> QED BY <3>3, <3>5, <3>6, <4>1, StreamsMore
    <3>9. m \in 0 .. e + 1
      BY <1>2
    <3> QED BY <1>2, <2>g, <3>2, <3>6, <3>7, <3>8, <3>9 DEF Replying, e
  <2> QED BY <2>d, <2>h, <2>i, <2>j, <2>k, <2>l DEF IInv
<1> QED BY <1>5, <1>7, <1>8

LEMMA HandleReadEndsIInv == IInv /\ HandleReadEnds => IInv'
<1> SUFFICES ASSUME IInv, HandleReadEnds PROVE IInv'
  OBVIOUS
<1>1. /\ Typed /\ Ordered /\ executed \in Seq(Request) /\ RequestsIntact /\ Held /\ Decoding
      /\ Calling /\ Replying /\ AnswersMatch /\ Untroubled /\ Idle /\ TurnedAway /\ Flushing
  BY DEF IInv
<1>2. /\ reading' = FALSE /\ SubmitNext(requests, current, output)
      /\ UNCHANGED <<script, client, to_server, to_client, open, buffer, stopped>>
      /\ executed' = executed
  BY DEF HandleReadEnds
<1>3. CASE closing
  <2>a. UNCHANGED <<requests, current, output, rejected, closing>>
    <3> DEFINE queue == requests
               busy == current
               out == output
    <3>1. SubmitNext(queue, busy, out)
      BY <1>2
    <3> HIDE DEF queue, busy, out
    <3>2. requests' = queue /\ current' = busy /\ output' = out /\ UNCHANGED <<rejected, closing>>
      BY <1>3, <3>1, SubmitNextClosing, Zenon
    <3> QED BY <3>2 DEF queue, busy, out
  <2>b. /\ Typed' /\ Ordered' /\ Calling' /\ AnswersMatch' /\ RequestsIntact' /\ Done' = Done
        /\ UNCHANGED <<script, wire, sent, answers, connected>> /\ Frames' = Frames /\ On' = On
        /\ Clean <=> Clean'
    <3>1. /\ open' \in BOOLEAN /\ reading' \in BOOLEAN /\ closing' \in BOOLEAN
          /\ stopped' \in BOOLEAN /\ to_server' \in Text /\ to_client' \in Text
          /\ output' \in [data : Text, reader_index : Nat]
          /\ output'.reader_index <= Len(output'.data)
      BY <1>1, <1>2, <2>a DEF Typed
    <3> QED BY <1>2, <2>a, <3>1, ServerSteps
  <2>c. Unread' = Unread /\ Taken' = Taken
    BY <1>2, <2>a, <2>b DEF Unread, Taken
  <2>d. Held' /\ Idle' /\ TurnedAway' /\ Flushing' /\ Untroubled'
    BY <1>1, <1>2, <1>3, <2>a, <2>b, <2>c DEF Held, Idle, TurnedAway, Flushing, Untroubled
  <2>e. Decoding'
    BY <1>1, <1>2, <2>a, <2>b, <2>c DEF Decoding
  <2>f. Replying'
    BY <1>1, <1>2, <2>a, <2>b, <2>c, RepliesSame
  <2> QED BY <1>1, <1>2, <2>b, <2>d, <2>e, <2>f DEF IInv
<1>4. CASE ~closing
  <2> DEFINE x == <<>>
  <2>a. rejected = {} /\ Done = Len(executed)
    <3>1. rejected = {}
      BY <1>1, <1>4 DEF TurnedAway
    <3> QED BY <1>1, <3>1 DEF Done
  <2>b. x \in Text /\ Appended(output, x) = output
    <3>1. output \in [data : Text, reader_index : Nat] /\ output.data \o x = output.data
      BY <1>1, ConcatEmptySeq DEF Typed, Text
    <3> QED BY <3>1, TextEmpty DEF Appended
  <2>c. HeldBy(current, Len(executed')) /\ Taken = TakenBy(current, Len(executed'))
    BY <1>1, <1>2, <2>a DEF HeldBy, Held, TakenBy, Taken
  <2>d. (to_client \o Unread) \o x = to_client \o Unread
    <3>1. to_client \o Unread \in Text
      BY <1>1, OutputFacts, TextConcat DEF Typed
    <3> QED BY <3>1, ConcatEmptySeq DEF Text
  <2>e. executed' \in Seq(Request) /\ RequestsIntact' /\ (\A q : Ran(q) => Ran(q)')
        /\ reading' \in BOOLEAN
    BY <1>1, <1>2 DEF RequestsIntact, Ran, client
  <2>f. connected => \E m \in 0 .. Len(executed') :
              /\ \A k \in 1 .. Len(wire) :
                    answers[wire[k]].code = IF k <= m THEN "answered" ELSE "waiting"
              /\ Streams((to_client \o Unread) \o x, Replies, m, Len(executed'), FALSE)
    BY <1>1, <1>2, <1>4, <2>a, <2>d DEF Replying, RepliesFrom, Streams
  <2> HIDE DEF x
  <2>g. IInv /\ SubmitNext(requests, current, Appended(output, x))
    BY <1>2, <2>b
  <2> QED BY <1>2, <1>4, <2>b, <2>c, <2>e, <2>f, <2>g, SubmitNextIInv
<1> QED BY <1>3, <1>4

LEMMA OnResponseIInv == IInv /\ OnResponse => IInv'
<1> SUFFICES ASSUME IInv, OnResponse PROVE IInv'
  OBVIOUS
<1> DEFINE e == Len(executed)
<1>1. /\ Typed /\ Ordered /\ executed \in Seq(Request) /\ RequestsIntact /\ Held /\ Decoding
      /\ Calling /\ Replying /\ AnswersMatch /\ Untroubled /\ Idle /\ TurnedAway /\ Flushing
  BY DEF IInv
<1>2. PICK q \in current : /\ executed' = Append(executed, q)
                           /\ SubmitNext(requests, {}, Appended(output, ReplyBytes(q)))
  BY DEF OnResponse
<1>3. UNCHANGED <<script, client, to_server, to_client, open, reading, buffer, stopped>>
  BY DEF OnResponse
<1>4. /\ e \in Nat /\ Len(wire) \in Nat /\ e < Len(wire) /\ q = On[e + 1].request
      /\ ~IsForeign(On[e + 1]) /\ e + 1 \in 1 .. Len(wire)
      /\ DOMAIN executed = 1 .. e /\ rejected = {} /\ Done = e /\ Taken = e + 1
  <2>a. /\ e \in Nat /\ Len(wire) \in Nat /\ e < Len(wire) /\ q = On[e + 1].request
        /\ ~IsForeign(On[e + 1]) /\ DOMAIN executed = 1 .. e
    BY <1>1, <1>2, WireFacts DEF Held
  <2>b. rejected = {} /\ current # {}
    BY <1>1, <1>2 DEF TurnedAway
  <2>c. Done = e + 0 /\ Taken = Done + 1
    BY <2>b, Zenon DEF Done, Taken
  <2> HIDE DEF e
  <2>d. Done = e /\ Taken = e + 1 /\ e + 1 \in 1 .. Len(wire)
    BY <2>a, <2>c
  <2> QED BY <2>a, <2>b, <2>d
<1> DEFINE x == Replies[e + 1]
<1>5. /\ On[e + 1] = script[wire[e + 1]] /\ wire[e + 1] \in DOMAIN script
      /\ q \in Request /\ x = ReplyOf(On[e + 1]) /\ x \in Text
  BY <1>1, <1>4, WireFacts DEF On, Replies, AnswerTo
<1>6. ReplyBytes(q) = x
  BY <1>1, <1>4, <1>5, ReplyBytesIs DEF Typed
<1>7. /\ executed' \in Seq(Request) /\ Len(executed') = e + 1 /\ executed'[e + 1] = q
      /\ \A k \in 1 .. e : executed'[k] = executed[k]
      /\ DOMAIN executed' = 1 .. e + 1
  BY <1>1, <1>2, <1>5
<1>8. UNCHANGED <<wire, sent, answers, connected>> /\ (\A r : Ran(r) => Ran(r)')
  <2>a. \A r : Ran(r) => Ran(r)'
    BY <1>4, <1>7 DEF Ran
  <2> QED BY <1>3, <2>a DEF client
<1>9. RequestsIntact'
  <2>a. ASSUME NEW j \in 1 .. e + 1 PROVE ~IsForeign(script[wire[j]])
    <3>1. CASE j = e + 1
      BY <1>4, <1>5, <3>1
    <3>2. CASE j # e + 1
      <4>1. e \in DOMAIN executed /\ j \in 1 .. e
        BY <1>4, <3>2
      <4> QED BY <1>1, <4>1 DEF RequestsIntact
    <3> QED BY <3>1, <3>2
  <2>b. ASSUME NEW k \in 1 .. e + 1 PROVE executed'[k] = script[wire[k]].request
    <3>1. CASE k = e + 1
      BY <1>4, <1>5, <1>7, <3>1
    <3>2. CASE k # e + 1
      <4>1. k \in 1 .. e
        BY <1>4, <3>2
      <4> QED BY <1>1, <1>4, <1>7, <4>1 DEF RequestsIntact
    <3> QED BY <3>1, <3>2
  <2>c. \A k \in 1 .. e + 1 : \A j \in 1 .. k : j \in 1 .. e + 1
    BY <1>4
  <2>d. e + 1 <= Len(wire)
    BY <1>4
  <2> QED BY <1>3, <1>7, <1>8, <2>a, <2>b, <2>c, <2>d DEF RequestsIntact
\* The reply follows those before it.
<1>10. ASSUME connected, NEW c \in BOOLEAN, c <=> closing /\ ~Clean
       PROVE  \E m \in 0 .. e + 1 :
                 /\ \A k \in 1 .. Len(wire) :
                       answers[wire[k]].code = IF k <= m THEN "answered" ELSE "waiting"
                 /\ Streams((to_client \o Unread) \o x, Replies, m, e + 1, c)
  <2>a. PICK m \in 0 .. e :
           /\ \A k \in 1 .. Len(wire) :
                 answers[wire[k]].code = IF k <= m THEN "answered" ELSE "waiting"
           /\ RepliesFrom(m)
    <3>1. Replying /\ connected
      BY <1>1, <1>10, Zenon
    <3> QED BY <1>4, <3>1 DEF Replying
  <2> DEFINE s == to_client \o Unread
             f == Replies
  <2>b. Streams(s, f, m, e, c)
    BY <1>4, <1>10, <2>a DEF RepliesFrom, Streams
  <2>c. m \in Nat /\ m <= e /\ e <= Len(wire) /\ m \in 0 .. e + 1
    BY <1>4
  <2>d. \A k \in m + 1 .. e : f[k] \in Text /\ f[k] = f[k]
    BY <1>1, <1>4, <2>c, RepliesText
  <2>e. f[e + 1] \in Text
    BY <1>5
  <2> HIDE DEF s, f, e
  <2>f. Streams(s \o f[e + 1], f, m, e + 1, c)
    BY <1>4, <2>b, <2>c, <2>d, <2>e, StreamsMore
  <2> QED BY <2>a, <2>c, <2>f DEF s, f
<1>11. CASE closing
  <2> HIDE DEF x
  <2>a. /\ requests' = requests /\ current' = {} /\ output' = Appended(output, x)
        /\ UNCHANGED <<rejected, closing>>
    BY <1>2, <1>6, <1>11, SubmitNextClosing
  <2>b. /\ output' \in [data : Text, reader_index : Nat] /\ output'.reader_index <= Len(output'.data)
        /\ Unread' = Unread \o x /\ Unread \in Text /\ to_client \in Text
    BY <1>1, <1>5, <2>a, Appending, OutputFacts DEF Typed
  <2>c. /\ Typed' /\ Ordered' /\ Calling' /\ Frames' = Frames /\ On' = On /\ (Clean <=> Clean')
    <3>1. /\ open' \in BOOLEAN /\ reading' \in BOOLEAN /\ closing' \in BOOLEAN
          /\ stopped' \in BOOLEAN /\ to_server' \in Text /\ to_client' \in Text
      BY <1>1, <1>3, <2>a DEF Typed
    <3> QED BY <1>3, <2>b, <3>1, ServerSteps
  <2>d. Done' = e + 1 /\ Taken' = Taken /\ Replies' = Replies
    BY <1>3, <1>4, <1>7, <1>8, <2>a, SameOn DEF Done, Taken
  <2>e. Held' /\ Idle' /\ TurnedAway' /\ Untroubled'
    BY <1>1, <1>3, <1>4, <1>8, <1>11, <2>a, <2>c DEF Held, Idle, TurnedAway, Untroubled
  <2>f. Flushing'
    BY <1>1, <1>3, <1>4, <1>5, <1>11, <2>a, <2>b, NotEmpty DEF Flushing
  <2>g. AnswersMatch'
    BY <1>1, <1>3, <1>4, <1>7, <1>8, <1>9, <2>c, <2>e, AnswersKept
  <2>h. Decoding'
    BY <1>1, <1>3, <1>8, <2>a, <2>c, <2>d DEF Decoding
  <2>i. Replying'
    <3>1. SUFFICES ASSUME connected PROVE Replying'
      BY <1>8 DEF Replying
    <3> DEFINE c == closing /\ ~Clean
    <3>2. c \in BOOLEAN /\ (c <=> closing /\ ~Clean) /\ (c <=> (closing /\ ~Clean)')
      BY <2>a, <2>c
    <3> HIDE DEF c
    <3>3. PICK m \in 0 .. e + 1 :
             /\ \A k \in 1 .. Len(wire) :
                   answers[wire[k]].code = IF k <= m THEN "answered" ELSE "waiting"
             /\ Streams((to_client \o Unread) \o x, Replies, m, e + 1, c)
      BY <1>10, <3>1, <3>2 DEF x
    <3>4. to_client' \o Unread' = (to_client \o Unread) \o x
      BY <1>3, <1>5, <2>b, TextAssoc
    <3>5. RepliesFrom(m)'
      BY <2>d, <3>2, <3>3, <3>4 DEF RepliesFrom, Streams
    <3> QED BY <1>8, <2>d, <3>3, <3>5 DEF Replying
  <2> QED BY <1>7, <1>9, <2>c, <2>e, <2>f, <2>g, <2>h, <2>i DEF IInv
<1>12. CASE ~closing
  <2> HIDE DEF x
  <2> DEFINE busy == {}
  <2>a. HeldBy(busy, Len(executed')) /\ Taken = TakenBy(busy, Len(executed'))
    BY <1>4, <1>7 DEF HeldBy, TakenBy
  <2>b. connected => \E m \in 0 .. Len(executed') :
              /\ \A k \in 1 .. Len(wire) :
                    answers[wire[k]].code = IF k <= m THEN "answered" ELSE "waiting"
              /\ Streams((to_client \o Unread) \o x, Replies, m, Len(executed'), FALSE)
    <3>1. FALSE <=> closing /\ ~Clean
      BY <1>12
    <3> QED BY <1>7, <1>10, <3>1 DEF x
  <2>c. SubmitNext(requests, busy, Appended(output, x)) /\ reading' \in BOOLEAN
    BY <1>1, <1>2, <1>3, <1>6 DEF Typed
  <2> HIDE DEF busy
  <2>d. IInv
    OBVIOUS
  <2> QED BY <1>3, <1>5, <1>7, <1>8, <1>9, <1>12, <2>a, <2>b, <2>c, <2>d, SubmitNextIInv
<1> QED BY <1>11, <1>12

LEMMA HandleReadIInv == IInv /\ Reads => IInv'
<1> SUFFICES ASSUME IInv, Reads PROVE IInv'
  OBVIOUS
<1> DEFINE e == Len(executed)
           w == Len(wire)
<1>1. /\ Typed /\ Ordered /\ executed \in Seq(Request) /\ RequestsIntact /\ Held /\ Decoding
      /\ Calling /\ Replying /\ AnswersMatch /\ Untroubled /\ Idle /\ TurnedAway /\ Flushing
  BY DEF IInv
<1>2. PICK n : HandleRead(n)
  BY DEF Reads
<1> DEFINE a == SubSeq(to_server, 1, n)
           d == Push(buffer \o a, kMaxFrameBytes)
<1>3. /\ n \in 1 .. Len(to_server)
      /\ to_server' = SubSeq(to_server, n + 1, Len(to_server))
      /\ \/ /\ d.ok /\ buffer' = d.buffer /\ requests' = requests \o d.requests /\ reading' = TRUE
            /\ UNCHANGED <<current, closing, output>>
         \/ ~d.ok /\ QueueErrorAndClose
      /\ UNCHANGED <<script, client, to_client, open, rejected, stopped, executed>>
  BY <1>2 DEF HandleRead
<1>4. to_server \in Text /\ a \in Text /\ to_server' \in Text /\ to_server = a \o to_server'
  <2>a. to_server \in Seq(Byte) /\ Len(to_server) \in Nat
    BY <1>1, LenProperties DEF Typed, Text
  <2>b. n \in 0 .. Len(to_server)
    BY <1>3, <2>a
  <2> QED BY <1>3, <2>a, <2>b, Cutting DEF Text
<1>5. /\ e \in Nat /\ w \in Nat /\ e <= w
      /\ \A k \in 1 .. w :
            /\ WellDelimited(Frames[k])
            /\ IsForeign(On[k]) => ~DecodeRequest(Frames[k]).ok
            /\ ~IsForeign(On[k]) => DecodeRequest(Frames[k]) = Ok(On[k].request)
            /\ On[k] = script[wire[k]] /\ wire[k] \in DOMAIN script
  BY <1>1, WireFacts DEF RequestsIntact, On
<1>6. executed' \in Seq(Request) /\ Done \in Nat /\ Done <= w /\ e <= Done
  BY <1>1, <1>3, Settled
\* What Push does with the stream, when no frame was refused before.
<1>7. ASSUME ~closing \/ Clean
      PROVE  \E j \in Taken .. w :
                /\ j \in Nat /\ Taken \in Nat
                /\ requests = [k \in 1 .. j - Taken |-> On[Taken + k].request]
                /\ \A k \in 1 .. j : ~IsForeign(On[k])
                /\ Pushed(d, to_server', Frames, j, w)
  <2>a. PICK j \in Taken .. w :
           /\ requests = [k \in 1 .. j - Taken |-> On[Taken + k].request]
           /\ \A k \in 1 .. j : ~IsForeign(On[k])
           /\ buffer \in Text /\ Incomplete(buffer)
           /\ Cut(buffer \o to_server, Frames, j, w, <<>>)
    BY <1>1, <1>7 DEF Decoding
  <2>b. Taken \in Nat /\ j \in Nat /\ j <= w
    BY <1>5, <1>6 DEF Taken
  <2> DEFINE b == buffer \o a
  <2>c. b \in Text /\ b \o to_server' = buffer \o to_server
    <3>1. (buffer \o a) \o to_server' = buffer \o (a \o to_server')
      BY <1>4, <2>a, TextAssoc
    <3> QED BY <1>4, <2>a, <3>1, TextConcat
  <2>d. \A k \in j + 1 .. w : WellDelimited(Frames[k])
    BY <1>5, <2>b
  <2>e. Split(buffer \o to_server, b, to_server')
    BY <1>4, <2>c DEF Split
  <2>f. d = Push(b, kMaxFrameBytes)
    OBVIOUS
  <2> HIDE DEF b, d, w
  <2>g. Pushed(d, to_server', Frames, j, w)
    BY <1>5, <2>a, <2>b, <2>d, <2>e, <2>f, PushCuts
  <2> QED BY <2>a, <2>b, <2>g
<1> HIDE DEF d, a, w
<1>8. CASE /\ d.ok /\ buffer' = d.buffer /\ requests' = requests \o d.requests /\ reading' = TRUE
           /\ UNCHANGED <<current, closing, output>>
  <2>a. /\ Typed' /\ Ordered' /\ Calling' /\ AnswersMatch' /\ RequestsIntact' /\ Done' = Done
        /\ UNCHANGED <<script, wire, sent, answers, connected>> /\ Frames' = Frames /\ On' = On
        /\ Clean <=> Clean'
    <3>1. /\ open' \in BOOLEAN /\ reading' \in BOOLEAN /\ closing' \in BOOLEAN
          /\ stopped' \in BOOLEAN /\ to_client' \in Text
          /\ output' \in [data : Text, reader_index : Nat]
          /\ output'.reader_index <= Len(output'.data)
      BY <1>1, <1>3, <1>8 DEF Typed
    <3> QED BY <1>3, <1>4, <3>1, ServerSteps
  <2>b. Held' /\ Untroubled' /\ Idle' /\ TurnedAway' /\ Flushing'
    BY <1>1, <1>3, <1>8, <2>a DEF Held, Untroubled, Idle, TurnedAway, Flushing, Unread
  <2>c. Replying'
    <3>1. to_client' \o Unread' = to_client \o Unread
      BY <1>3, <1>8 DEF Unread
    <3> QED BY <1>1, <1>3, <1>8, <2>a, <3>1, RepliesSame
  <2>d. Decoding'
    <3>1. SUFFICES ASSUME ~closing \/ Clean PROVE Decoding'
      BY <1>8, <2>a DEF Decoding
    <3>2. PICK j \in Taken .. w :
                /\ j \in Nat /\ Taken \in Nat
                /\ requests = [k \in 1 .. j - Taken |-> On[Taken + k].request]
                /\ \A k \in 1 .. j : ~IsForeign(On[k])
                /\ Pushed(d, to_server', Frames, j, w)
      BY <1>7, <3>1
    <3>3. PICK i \in j .. w :
                      /\ \A k \in j + 1 .. i : DecodeRequest(Frames[k]).ok
                      /\ d.buffer \in Text /\ Cut(d.buffer \o to_server', Frames, i, w, <<>>)
                      /\ d.requests = [k \in 1 .. i - j |-> DecodeRequest(Frames[j + k]).value]
                      /\ Incomplete(d.buffer)
      BY <1>8, <3>2 DEF Pushed
    <3>4. i \in Nat /\ w \in Nat /\ Taken <= j /\ j <= i /\ i <= w /\ j \in Nat /\ Taken \in Nat
          /\ i \in Taken .. w
      BY <1>5, <3>2
    <3>5. \A k \in 1 .. i : ~IsForeign(On[k])
      <4>1. \A k \in 1 .. i : k \in 1 .. w /\ (k \in 1 .. j \/ k \in j + 1 .. i)
        BY <3>4
      <4> QED BY <1>5, <3>2, <3>3, <4>1
    <3>6. requests' = [k \in 1 .. i - Taken |-> On[Taken + k].request]
      <4> DEFINE r == [k \in 1 .. i - j |-> On[j + k].request]
                 T == {On[k].request : k \in 1 .. w}
      <4>1. ASSUME NEW k \in 1 .. i - j PROVE DecodeRequest(Frames[j + k]).value = On[j + k].request
        <5>1. j + k \in 1 .. w /\ j + k \in 1 .. i
          BY <3>4
        <5>2. DecodeRequest(Frames[j + k]) = Ok(On[j + k].request)
          BY <1>5, <3>5, <5>1
        <5> QED BY <5>2 DEF Ok
      <4>2. d.requests = r
        BY <3>3, <4>1
      <4>3. r \in [1 .. i - j -> T]
        <5>1. \A k \in 1 .. i - j : j + k \in 1 .. w
          BY <3>4
        <5> QED BY <5>1
      <4>4. requests \in [1 .. j - Taken -> T]
        <5>1. \A k \in 1 .. j - Taken : Taken + k \in 1 .. w
          BY <3>4
        <5> QED BY <3>2, <5>1
      <4>5. j - Taken \in Nat /\ i - j \in Nat /\ (j - Taken) + (i - j) = i - Taken
        BY <3>4
      <4>6. \A k \in 1 .. i - j : r[k] = On[j + k].request
        OBVIOUS
      <4> HIDE DEF T, r
      <4>7. r \in Seq(T) /\ Len(r) = i - j /\ requests \in Seq(T) /\ Len(requests) = j - Taken
        <5>1. r \in Seq(T) /\ Len(r) = i - j
          BY <4>3, <4>5
        <5>2. requests \in Seq(T) /\ Len(requests) = j - Taken
          BY <4>4, <4>5
        <5> QED BY <5>1, <5>2
      <4>8. requests \o r = [k \in 1 .. i - Taken |->
                                IF k <= j - Taken THEN requests[k] ELSE r[k - (j - Taken)]]
        <5>1. /\ requests \o r \in Seq(T) /\ Len(requests \o r) = i - Taken
              /\ \A k \in 1 .. i - Taken :
                    (requests \o r)[k] = IF k <= j - Taken THEN requests[k] ELSE r[k - (j - Taken)]
          <6>1. /\ requests \o r \in Seq(T) /\ Len(requests \o r) = Len(requests) + Len(r)
                /\ \A k \in 1 .. Len(requests) + Len(r) :
                      (requests \o r)[k] = IF k <= Len(requests) THEN requests[k]
                                           ELSE r[k - Len(requests)]
            BY <4>7, ConcatProperties
          <6> QED BY <4>5, <4>7, <6>1
        <5>2. requests \o r \in [1 .. i - Taken -> T]
          BY <5>1, LenProperties
        <5> QED BY <5>1, <5>2
      <4>9. ASSUME NEW k \in 1 .. i - Taken
            PROVE  (IF k <= j - Taken THEN requests[k] ELSE r[k - (j - Taken)]) = On[Taken + k].request
        <5>1. CASE k <= j - Taken
          <6>1. k \in 1 .. j - Taken
            BY <3>4, <5>1
          <6> QED BY <3>2, <5>1, <6>1
        <5>2. CASE ~(k <= j - Taken)
          <6>1. k - (j - Taken) \in 1 .. i - j /\ j + (k - (j - Taken)) = Taken + k
            BY <3>4, <5>2
          <6>2. r[k - (j - Taken)] = On[j + (k - (j - Taken))].request
            BY <4>6, <6>1
          <6> QED BY <5>2, <6>1, <6>2
        <5> QED BY <5>1, <5>2
      <4> QED BY <1>8, <4>2, <4>8, <4>9
    <3>7. Taken' = Taken
      BY <1>3, <1>8, <2>a DEF Taken
    <3> QED BY <1>8, <2>a, <3>3, <3>4, <3>5, <3>6, <3>7 DEF Decoding, w
  <2> QED BY <1>6, <2>a, <2>b, <2>c, <2>d DEF IInv
<1>9. CASE ~d.ok /\ QueueErrorAndClose
  <2>a. /\ output' = Appended(output, ErrorReply) /\ closing' = TRUE /\ reading' = FALSE
        /\ current' = current
    BY <1>9 DEF QueueErrorAndClose, ErrorReply
  <2>b. ErrorReply \in Text
    BY ErrorReplyFacts DEF WellDelimited
  <2>c. output' \in [data : Text, reader_index : Nat] /\ output'.reader_index <= Len(output'.data)
    BY <1>1, <2>a, <2>b, Appending
  <2>d. /\ Typed' /\ Ordered' /\ Calling' /\ AnswersMatch' /\ RequestsIntact' /\ Done' = Done
        /\ UNCHANGED <<script, wire, sent, answers, connected>> /\ Frames' = Frames /\ On' = On
        /\ Replies' = Replies /\ (Clean <=> Clean')
    <3>1. /\ open' \in BOOLEAN /\ reading' \in BOOLEAN /\ closing' \in BOOLEAN
          /\ stopped' \in BOOLEAN /\ to_client' \in Text
      BY <1>1, <1>3, <2>a DEF Typed
    <3> QED BY <1>3, <1>4, <2>c, <3>1, ServerSteps
  <2>e. Held' /\ Idle' /\ TurnedAway'
    BY <1>1, <1>3, <2>a, <2>d DEF Held, Idle, TurnedAway
  <2>f. ~Clean
    <3>1. SUFFICES ASSUME Clean PROVE FALSE
      OBVIOUS
    <3>2. PICK j \in Taken .. w : j \in Nat /\ \E k \in j + 1 .. w : ~DecodeRequest(Frames[k]).ok
      BY <1>7, <1>9, <3>1 DEF Pushed
    <3>3. PICK k \in j + 1 .. w : ~DecodeRequest(Frames[k]).ok
      BY <3>2
    <3>4. k \in 1 .. w
      BY <1>5, <3>2
    <3>5. IsForeign(script[wire[k]]) /\ wire[k] \in DOMAIN script
      <4>1. ~IsForeign(On[k]) => DecodeRequest(Frames[k]).ok
        <5>1. Ok(On[k].request).ok
          BY DEF Ok
        <5> QED BY <1>5, <3>4, <5>1
      <4> QED BY <1>5, <3>3, <3>4, <4>1
    <3> QED BY <3>1, <3>5 DEF Clean
  <2>g. Untroubled' /\ Decoding'
    BY <2>a, <2>d, <2>f DEF Untroubled, Decoding
  <2>h. Unread' = Unread \o ErrorReply /\ Unread \in Text /\ to_client \in Text
    BY <1>1, <2>a, <2>b, Appending, OutputFacts DEF Typed
  <2>i. Flushing'
    <3>1. ErrorReply # <<>>
      <4>1. Len(ErrorReply) \in 16 .. kMaxFrameBytes /\ Len(ErrorReply) \in Nat
        BY <2>b, ErrorReplyFacts, LenProperties DEF WellDelimited, kFrameHeaderBytes, Text
      <4>2. Len(ErrorReply) # 0
        BY <4>1
      <4> QED BY <4>2, TextEmpty
    <3>2. Unread' # <<>>
      BY <2>b, <2>h, <3>1, NotEmpty
    <3> QED BY <2>d, <2>f, <3>2 DEF Flushing
  <2>j. Replying'
    <3>1. SUFFICES ASSUME connected PROVE Replying'
      BY <2>d DEF Replying
    <3>2. PICK m \in 0 .. Done :
             /\ \A k \in 1 .. Len(wire) :
                   answers[wire[k]].code = IF k <= m THEN "answered" ELSE "waiting"
             /\ RepliesFrom(m)
      BY <1>1, <3>1 DEF Replying
    <3> DEFINE s == to_client \o Unread
               f == Replies
               c == closing /\ ~Clean
    <3>3. m \in Nat /\ m <= Done /\ c \in BOOLEAN /\ Streams(s, f, m, Done, c)
      BY <1>6, <3>2 DEF RepliesFrom
    <3>4. \A k \in m + 1 .. Done : f[k] \in Text
      BY <1>1, <1>6, <3>3, RepliesText DEF w
    <3> HIDE DEF s, f, c
    <3>5. Streams(s \o ErrorReply, f, m, Done, TRUE)
      BY <1>6, <3>3, <3>4, StreamsError
    <3>6. to_client' \o Unread' = s \o ErrorReply
      BY <1>3, <2>b, <2>h, TextAssoc DEF s
    <3>7. RepliesFrom(m)'
      BY <2>a, <2>d, <2>f, <3>5, <3>6 DEF RepliesFrom, Streams, f
    <3> QED BY <2>d, <3>2, <3>7 DEF Replying
  <2> QED BY <1>6, <2>d, <2>e, <2>g, <2>i, <2>j DEF IInv
<1> QED BY <1>3, <1>8, <1>9

----------------------------------------
(* Theorems *)

LEMMA NextIInv == IInv /\ [Next]_vars => IInv'
<1> SUFFICES ASSUME IInv, [Next]_vars PROVE IInv'
  OBVIOUS
<1>1. CASE UNCHANGED vars
  <2>a. /\ UNCHANGED <<script, sent, answers, connected, wire, to_server, to_client>>
        /\ UNCHANGED <<open, reading, buffer, requests, current, rejected, closing, output>>
        /\ UNCHANGED <<stopped, executed>>
    BY <1>1 DEF vars, client, server
  <2>b. /\ Frames' = Frames /\ Replies' = Replies /\ On' = On /\ Unread' = Unread
        /\ Done' = Done /\ Taken' = Taken /\ (Clean <=> Clean')
    BY <2>a, SameOn DEF Unread, Done, Taken, Clean
  <2>c. Typed' /\ Ordered' /\ executed' \in Seq(Request) /\ RequestsIntact' /\ Held' /\ Calling'
        /\ Untroubled' /\ Idle' /\ TurnedAway' /\ Flushing'
    BY <2>a, <2>b DEF IInv, Typed, Ordered, RequestsIntact, Held, Calling, Untroubled, Idle,
                      TurnedAway, Flushing
  <2>f. AnswersMatch'
    BY <2>a DEF IInv, AnswersMatch, Given, Ran
  <2>d. Decoding'
    BY <2>a, <2>b DEF IInv, Decoding
  <2>e. Replying'
    BY <2>a, <2>b DEF IInv, Replying, RepliesFrom
  <2> QED BY <2>c, <2>d, <2>e, <2>f DEF IInv
<1> QED BY <1>1, SendRequestIInv, ReadResponseIInv, ReadEofIInv, HandleReadIInv, HandleReadEndsIInv,
           PeerClosedIInv, ShutdownIInv, OnResponseIInv, HandleWriteIInv DEF Next

\* However the stream is cut into reads, the service runs the requests that were sent,
\* unchanged, in order and none after a frame that does not decode.
THEOREM SpecRequestsIntact == Spec => []RequestsIntact
<1>1. IInv => RequestsIntact
  BY DEF IInv
<1> QED BY <1>1, InitIInv, NextIInv, PTL DEF Spec

\* However the replies are cut into writes, an answered call has the response of the
\* service to that very request, which it ran; or it is told that the queue was full,
\* if and only if its request was turned away and never run.
THEOREM SpecAnswersMatch == Spec => []AnswersMatch
<1>1. IInv => AnswersMatch
  BY DEF IInv
<1> QED BY <1>1, InitIInv, NextIInv, PTL DEF Spec

\* A server that has read everything and is not closing has taken every request.
LEMMA AllTaken ==
    ASSUME IInv, open, ~reading, ~closing, current = {}, to_server = <<>>
    PROVE  Done = Len(wire) /\ rejected = {}
<1> DEFINE e == Len(executed)
           w == Len(wire)
<1>1. /\ Typed /\ Ordered /\ executed \in Seq(Request) /\ RequestsIntact /\ Decoding /\ Idle
      /\ TurnedAway
  BY DEF IInv
<1>2. rejected = {} /\ Done = e
  BY <1>1 DEF TurnedAway, Done
<1>3. e \in Nat /\ w \in Nat /\ e <= w /\ Taken = e /\ requests = <<>>
  BY <1>1, <1>2, WireFacts DEF RequestsIntact, Taken, Idle
<1>4. e = w
  <2>a. PICK j \in e .. w : /\ requests = [k \in 1 .. j - e |-> On[e + k].request]
                            /\ buffer \in Text /\ Incomplete(buffer)
                            /\ Cut(buffer \o to_server, Frames, j, w, <<>>)
    BY <1>1, <1>3 DEF Decoding
  <2>b. j = e
    <3>1. SUFFICES ASSUME j > e PROVE FALSE
      BY <1>3
    <3>2. 1 \in 1 .. j - e /\ DOMAIN requests = 1 .. j - e
      BY <1>3, <2>a, <3>1
    <3> QED BY <1>3, <3>2
  <2>c. SUFFICES ASSUME e < w PROVE FALSE
    BY <1>3
  <2> DEFINE g == Frames[e + 1]
  <2>d. PICK t \in Text : buffer \o to_server = g \o t /\ Cut(t, Frames, e + 1, w, <<>>)
    <3>1. Cut(buffer \o to_server, Frames, e, w, <<>>)
      BY <2>a, <2>b
    <3> QED BY <1>3, <2>c, <3>1, CutFirst
  <2>e. WellDelimited(g)
    <3>1. e + 1 \in 1 .. w
      BY <1>3, <2>c
    <3> QED BY <1>1, <3>1, WireFacts
  <2> HIDE DEF g
  <2>f. /\ g \in Text /\ Len(g) \in 16 .. kMaxFrameBytes /\ PeekFrameLength(g) = Len(g)
        /\ Len(g) \in Nat
    BY <2>e, LenProperties DEF WellDelimited, kFrameHeaderBytes, Text
  <2>g. buffer \o to_server = buffer
    BY <2>a, ConcatEmptySeq DEF Text
  <2>h. Len(buffer) = Len(g) + Len(t) /\ Len(t) \in Nat
    <3>1. Len(g \o t) = Len(g) + Len(t) /\ Len(t) \in Nat
      BY <2>f, TextConcat
    <3> QED BY <2>d, <2>g, <3>1
  <2>i. Split(buffer, buffer, <<>>) /\ Split(buffer, g, t)
    BY <2>a, <2>d, <2>f, <2>g, TextEmpty DEF Split
  <2>j. PeekFrameLength(buffer) = Len(g)
    <3>1. Len(buffer) >= 4 /\ Len(g) >= 4
      BY <2>f, <2>h
    <3> QED BY <2>f, <2>i, <3>1, PeekPrefix
  <2> QED BY <2>a, <2>f, <2>h, <2>j DEF Incomplete
<1> QED BY <1>2, <1>4

\* When all bytes have arrived, the first reply that was not read would have.
LEMMA AllRead ==
    ASSUME IInv, connected, Unread = <<>>, ~closing \/ Clean, ~(Waiting # {} /\ ResponseArrived)
    PROVE  \A k \in 1 .. Done : answers[wire[k]].code = "answered"
<1> DEFINE w == Done
<1>1. /\ Typed /\ Ordered /\ executed \in Seq(Request) /\ RequestsIntact /\ Replying /\ TurnedAway
  BY DEF IInv
<1>2. w \in Nat /\ w <= Len(wire) /\ Len(wire) \in Nat /\ \A k \in 1 .. w : k \in 1 .. Len(wire)
  BY <1>1, Settled, WireFacts
<1>3. PICK m \in 0 .. w :
         /\ \A k \in 1 .. Len(wire) :
               answers[wire[k]].code = IF k <= m THEN "answered" ELSE "waiting"
         /\ RepliesFrom(m)
  BY <1>1 DEF Replying
<1>4. m = w
  <2>a. SUFFICES ASSUME m < w PROVE FALSE
    BY <1>2
  <2> DEFINE g == Replies[m + 1]
  <2>b. Cut(to_client \o Unread, Replies, m, w, <<>>)
    BY <1>3 DEF RepliesFrom, Streams
  <2>c. m \in Nat /\ m + 1 \in 1 .. w /\ m + 1 \in 1 .. Len(wire)
    BY <1>2, <2>a
  <2>d. PICK t \in Text : to_client \o Unread = g \o t /\ Cut(t, Replies, m + 1, w, <<>>)
    BY <1>2, <2>a, <2>b, <2>c, CutFirst
  <2>e. WellDelimited(g)
    <3> DEFINE at == m + 1
    <3>1. at \in 1 .. Len(wire)
      BY <2>c
    <3> HIDE DEF at
    <3>2. WellDelimited(Replies[at])
      BY <1>1, <3>1, WireFacts, Zenon
    <3> QED BY <3>2 DEF at
  <2> HIDE DEF g
  <2>f. to_client \in Text /\ Unread = <<>>
    <3>1. Unread \in Text /\ Len(Unread) = 0
      BY <1>1, <1>3, OutputFacts
    <3> QED BY <1>1, <3>1, TextEmpty DEF Typed
  <2>g. /\ g \in Text /\ Len(g) \in 16 .. kMaxFrameBytes /\ PeekFrameLength(g) = Len(g)
        /\ Len(g) \in Nat
    BY <2>e, LenProperties DEF WellDelimited, kFrameHeaderBytes, Text
  <2>h. to_client \o Unread = to_client
    BY <2>f, ConcatEmptySeq DEF Text
  <2>i. Len(to_client) = Len(g) + Len(t) /\ Len(t) \in Nat
    <3>1. Len(g \o t) = Len(g) + Len(t) /\ Len(t) \in Nat
      BY <2>g, TextConcat
    <3> QED BY <2>d, <2>h, <3>1
  <2>j. Split(to_client, to_client, <<>>) /\ Split(to_client, g, t)
    BY <2>d, <2>f, <2>g, <2>h, TextEmpty DEF Split
  <2>k. PeekFrameLength(to_client) = Len(g)
    <3>1. Len(to_client) >= 4 /\ Len(g) >= 4
      BY <2>g, <2>i
    <3> QED BY <2>g, <2>j, <3>1, PeekPrefix
  <2>l. ResponseArrived
    BY <2>g, <2>i, <2>k DEF ResponseArrived
  <2>m. wire[m + 1] \in Waiting
    <3>1. ~(m + 1 <= m)
      BY <2>c
    <3>2. answers[wire[m + 1]].code = "waiting"
      BY <1>3, <2>c, <3>1
    <3>3. wire[m + 1] \in 1 .. sent
      <4> DEFINE at == m + 1
      <4>1. at \in 1 .. Len(wire)
        BY <2>c
      <4> HIDE DEF at
      <4>2. wire[at] \in DOMAIN script /\ DOMAIN script = 1 .. Len(script) /\ sent \in Nat
            /\ Len(script) \in Nat
        BY <1>1, <4>1, WireFacts, Zenon
      <4>3. wire[at] <= sent
        BY <1>1, <4>1 DEF Ordered
      <4>4. wire[at] \in 1 .. sent
        BY <4>2, <4>3
      <4> QED BY <4>4 DEF at
    <3> QED BY <3>2, <3>3 DEF Waiting
  <2> QED BY <1>3, <2>l, <2>m
<1>5. \A k \in 1 .. w : k <= m
  BY <1>2, <1>4
<1> QED BY <1>2, <1>3, <1>5

LEMMA AllAnswered == IInv => CallsAnswered
<1> SUFFICES ASSUME IInv, NothingInFlight
             PROVE  /\ Waiting # {} => ~open
                    /\ ~stopped /\ Clean => \A i \in DOMAIN script :
                          \/ answers[i].code \in {"answered", "refused"}
                          \/ \E j \in DOMAIN script :
                                script[j].request \in rejected /\ (j < i \/ ~connected)
  BY DEF CallsAnswered
<1>1. /\ Typed /\ Ordered /\ executed \in Seq(Request) /\ RequestsIntact /\ Calling
      /\ Untroubled /\ TurnedAway /\ Flushing
  BY DEF IInv
<1>2. /\ sent = Len(script) /\ ~reading /\ current = {} /\ ~(Waiting # {} /\ ResponseArrived)
      /\ open => to_server = <<>> /\ readable_bytes(output) = 0
  BY DEF NothingInFlight
<1>3. /\ Len(script) \in Nat /\ DOMAIN script = 1 .. Len(script) /\ Len(wire) \in Nat
      /\ \A k \in 1 .. Len(wire) : wire[k] \in DOMAIN script /\ wire[k] \in Nat
  BY <1>1, WireFacts
<1>4. open => Unread = <<>>
  BY <1>1, <1>2, OutputFacts, TextEmpty
<1>5. ASSUME connected, NEW i \in DOMAIN script, answers[i].code \notin {"answered", "refused"}
      PROVE  \E k \in 1 .. Len(wire) : wire[k] = i /\ answers[i].code # "answered"
  <2>a. answers[i].code = "waiting"
    BY <1>1, <1>2, <1>3, <1>5 DEF Calling
  <2> QED BY <1>1, <1>5, <2>a DEF Calling
<1>6. ASSUME open, ~closing, connected, NEW i \in DOMAIN script
      PROVE  answers[i].code \in {"answered", "refused"}
  <2>a. Done = Len(wire)
    BY <1>2, <1>6, AllTaken
  <2>b. \A k \in 1 .. Len(wire) : answers[wire[k]].code = "answered"
    BY <1>2, <1>4, <1>6, <2>a, AllRead
  <2> QED BY <1>5, <1>6, <2>b
<1>7. Waiting # {} => ~open
  <2>a. SUFFICES ASSUME NEW i \in Waiting, open PROVE FALSE
    OBVIOUS
  <2>b. i \in DOMAIN script /\ answers[i].code = "waiting"
    BY <1>2, <1>3, <2>a DEF Waiting
  <2>c. connected
    BY <1>1, <2>b DEF Calling
  <2>d. ~closing
    BY <1>1, <1>4, <2>a DEF Flushing
  <2> QED BY <1>6, <2>a, <2>b, <2>c, <2>d
<1>8. ASSUME ~stopped, Clean, NEW i \in DOMAIN script, answers[i].code \notin {"answered", "refused"}
      PROVE  \E j \in DOMAIN script : script[j].request \in rejected /\ (j < i \/ ~connected)
  <2>a. rejected # {}
    BY <1>1, <1>6, <1>8 DEF Untroubled
  <2> DEFINE d == Len(executed) + 1
             j == wire[d]
  <2>b. /\ d = Done /\ d \in 1 .. Len(wire) /\ j \in DOMAIN script /\ j \in Nat
        /\ script[j].request \in rejected
    <3>1. d = Done /\ Len(executed) \in Nat /\ Len(executed) < Len(wire)
      BY <1>1, <2>a DEF Done, TurnedAway
    <3>2. d \in 1 .. Len(wire)
      BY <1>3, <3>1
    <3>3. On[d] = script[j]
      BY <3>2 DEF On
    <3> QED BY <1>1, <1>3, <2>a, <3>1, <3>2, <3>3 DEF TurnedAway
  <2>c. CASE ~connected
    BY <2>b, <2>c
  <2>d. CASE connected
    <3>1. Unread = <<>>
      BY <1>1, <1>4, <1>8, <2>a, <2>d DEF Flushing
    <3>2. \A k \in 1 .. Done : answers[wire[k]].code = "answered"
      BY <1>2, <1>8, <2>d, <3>1, AllRead
    <3>3. PICK k \in 1 .. Len(wire) : wire[k] = i /\ answers[i].code # "answered"
      BY <1>5, <1>8, <2>d
    <3> HIDE DEF d
    <3>4. d < k
      BY <2>b, <3>2, <3>3
    <3>5. j < i
      BY <1>1, <2>b, <3>3, <3>4 DEF Ordered
    <3> QED BY <2>b, <3>5
  <2> QED BY <2>c, <2>d
<1> QED BY <1>7, <1>8

\* Once everything in flight has arrived, no call waits at an open socket, and every
\* call of a client whose frames the server understands has its answer or was refused,
\* unless the server was stopped, or a call before it was turned away.
THEOREM SpecCallsAnswered == Spec => []CallsAnswered
<1> QED BY AllAnswered, InitIInv, NextIInv, PTL DEF Spec

----------------------------------------
(* From the bytes back: what a decoder accepts is what the encoder writes. *)

\* The digits of a number, and a last one behind them.
LEMMA LastDigit ==
    ASSUME NEW x \in Nat, NEW d \in Byte
    PROVE  /\ x * Radix + d \in Nat
           /\ (x * Radix + d) \div Radix = x /\ (x * Radix + d) % Radix = d
<1> DEFINE p == x * Radix
           u == p + d
<1>1. p \in Nat /\ d \in Nat /\ d < Radix /\ Radix \in Nat /\ Radix > 0 /\ p = Radix * x
  BY RadixType DEF Byte
<1> HIDE DEF p
<1>2. u \in Nat /\ Radix * x <= u /\ u < Radix * x + Radix
  BY <1>1
<1> HIDE DEF u
<1>3. u \div Radix = x
  BY <1>1, <1>2, Quotient
<1>4. u % Radix = u - x * Radix
  BY <1>1, <1>2, <1>3, Remainder
<1>5. u - p = d
  BY <1>1 DEF u
<1> QED BY <1>2, <1>3, <1>4, <1>5 DEF u, p

\* Bytes that are read as a number are what AppendBigEndian writes for it.
LEMMA WritesRead ==
    ASSUME NEW w \in 1 .. 8, NEW bytes \in Text, Len(bytes) = w
    PROVE  /\ ReadBigEndian(bytes) \in Unsigned(w)
           /\ AppendBigEndian(ReadBigEndian(bytes), w) = bytes
<1>1. PICK h : /\ h = [n \in 0 .. w |-> IF n = 0 THEN 0 ELSE h[n - 1] * Radix + bytes[n]]
               /\ ReadBigEndian(bytes) = h[w]
  BY ReadBigEndianDef DEF Text
<1> DEFINE Digits(n) == /\ h[n] \in Nat /\ h[n] < Power[n]
                        /\ \A i \in 1 .. n : (h[n] \div Power[n - i]) % Radix = bytes[i]
           S == {n \in 0 .. w : Digits(n)}
<1>2. \A i \in 1 .. w : bytes[i] \in Byte
  BY DEF Text
<1>3. 0 \in S
  <2>a. h[0] = 0
    BY <1>1
  <2> QED BY <2>a, PowerType
<1>4. ASSUME NEW n \in 0 .. w - 1, n \in S PROVE n + 1 \in S
  <2> DEFINE x == h[n]
             d == bytes[n + 1]
             u == h[n + 1]
  <2>a. Digits(n) /\ n + 1 \in 1 .. w /\ n \in 0 .. 7 /\ n + 1 \in 0 .. w
    BY <1>4
  <2>b. x \in Nat /\ x < Power[n]
    BY <2>a
  <2>c. d \in Byte
    BY <1>2, <2>a
  <2>d. u = x * Radix + d
    BY <1>1, <2>a
  <2>e. Power[n + 1] = Radix * Power[n] /\ Power[n] \in Nat /\ Power[n] > 0
    <3>1. n \in 0 .. 8
      BY <2>a
    <3> QED BY <2>a, <3>1, PowerType
  <2>f. ASSUME NEW i \in 1 .. n PROVE (x \div Power[n - i]) % Radix = bytes[i]
    BY <2>a
  <2> HIDE DEF x, d, u
  <2>g. u \in Nat /\ u \div Radix = x /\ u % Radix = d
    BY <2>b, <2>c, <2>d, LastDigit
  <2>h. u < Power[n + 1]
    <3>1. x + 1 <= Power[n] /\ d < Radix /\ d \in Nat /\ Radix \in Nat
      BY <2>b, <2>c, <2>e, RadixType DEF Byte
    <3> DEFINE k == Power[n]
    <3> HIDE DEF k
    <3>2. k \in Nat /\ x + 1 <= k
      BY <2>e, <3>1 DEF k
    <3>3. Radix * (x + 1) <= Radix * k
      BY <2>b, <3>1, <3>2, Z3
    <3>4. Radix * (x + 1) = x * Radix + Radix
      BY <2>b, <3>1, Z3
    <3>5. x * Radix \in Nat /\ Radix * k \in Nat
      BY <2>b, <3>1, <3>2
    <3> QED BY <2>d, <2>e, <3>1, <3>3, <3>4, <3>5 DEF k
  <2>i. ASSUME NEW i \in 1 .. n + 1 PROVE (u \div Power[n + 1 - i]) % Radix = bytes[i]
    <3>1. CASE i = n + 1
      <4>1. n + 1 - i = 0 /\ u \div 1 = u
        BY <2>g, <3>1
      <4>2. Power[n + 1 - i] = 1
        BY <4>1, PowerType
      <4> QED BY <2>g, <3>1, <4>1, <4>2 DEF d
    <3>2. CASE i # n + 1
      <4> DEFINE k == Power[n - i]
      <4>1. i \in 1 .. n /\ n - i \in 0 .. 7 /\ n + 1 - i = (n - i) + 1
        BY <2>a, <3>2
      <4>2. k \in Nat /\ k > 0 /\ Power[n + 1 - i] = Radix * k
        <5>1. n - i \in 0 .. 8
          BY <4>1
        <5>2. k \in Nat /\ k > 0
          BY <5>1, PowerType
        <5>3. Power[(n - i) + 1] = Radix * k
          BY <4>1, PowerType
        <5> QED BY <4>1, <5>2, <5>3
      <4>3. (x \div k) % Radix = bytes[i]
        BY <2>f, <4>1
      <4> HIDE DEF k
      <4>4. u \div (k * Radix) = (u \div Radix) \div k
        <5>1. u \in Nat /\ k \in Nat /\ k > 0 /\ Radix \in Nat /\ Radix > 0
          BY <2>g, <4>2, RadixType
        <5> QED BY <5>1, DivideTwice
      <4>5. k * Radix = Radix * k
        BY <4>2, RadixType
      <4> QED BY <2>g, <4>2, <4>3, <4>4, <4>5
    <3> QED BY <3>1, <3>2
  <2> QED BY <2>a, <2>g, <2>h, <2>i DEF u
<1>5. w \in S
  <2>a. w \in Nat /\ w \in 0 .. w
    OBVIOUS
  <2> HIDE DEF S
  <2> QED BY <1>3, <1>4, <2>a, InductionUpTo
<1> DEFINE u == h[w]
<1>6. u \in Nat /\ u < Power[w] /\ \A i \in 1 .. w : (u \div Power[w - i]) % Radix = bytes[i]
  BY <1>5
<1>7. u \in Unsigned(w)
  <2> HIDE DEF u
  <2>a. Power[w] \in Nat
    BY PowerEven
  <2> QED BY <1>6, <2>a DEF Unsigned
<1>8. ReadBigEndian(bytes) = u
  BY <1>1
<1> HIDE DEF u
<1>9. u % Power[w] = u
  BY <1>7, UnsignedValue
<1>10. AppendBigEndian(u, w) = [i \in 1 .. w |-> bytes[i]]
  BY <1>6, <1>9 DEF AppendBigEndian
<1>11. bytes = [i \in 1 .. w |-> bytes[i]]
  BY LenProperties DEF Text
<1> QED BY <1>7, <1>8, <1>10, <1>11

\* The bytes of a field of a request, by its kind.
FieldBytes(f, v) ==
    CASE f.kind = "string" -> AppendString(v)
      [] f.kind = "partition" -> AppendPartitionId(v)
      [] f.kind \in {"offset", "u64"} -> U64(v)
      [] f.kind \in {"generation", "u32"} -> U32(v)

\* The bytes of f are at the head of what is to be read.
Undone(rest, f, v, t) ==
    Split(rest, FieldBytes(f, v), t) /\ (f.kind = "u32" => v \in Unsigned(4))

\* When f is read, the bytes that are gone are those of the value it has got.
Undoable(f) ==
    \A rest \in Text : \A val :
        (Reader(rest, val) ** f).ok =>
            \E v, t : /\ Undone(rest, f, v, t)
                      /\ Reader(rest, val) ** f = Reader(t, Put(val, f.name, v))

\* A reader that has failed stays so.
HasOk(r) == "ok" \in DOMAIN r

LEMMA Failing ==
    ASSUME NEW r, HasOk(r)
    PROVE  HasOk(Fails(r)) /\ ~Fails(r).ok
BY DEF HasOk, Fails

LEMMA ReaderHasOk == \A p, q : HasOk(Reader(p, q))
BY DEF HasOk, Reader

LEMMA FieldRead ==
    ASSUME NEW r, HasOk(r), NEW f
    PROVE  /\ HasOk(r ** f)
           /\ (r ** f).ok => /\ r.ok /\ ~(Len(r.rest) < Width[f.kind])
                             /\ r ** f = Converted(r, f, Width[f.kind],
                                                   ReadBigEndian(SubSeq(r.rest, 1, Width[f.kind])))
<1> DEFINE w == Width[f.kind]
           u == ReadBigEndian(SubSeq(r.rest, 1, w))
           c == Converted(r, f, w, u)
<1>1. r ** f = IF ~r.ok \/ Len(r.rest) < w THEN Fails(r) ELSE c
  BY DEF **, ReadField
<1>2. HasOk(c)
  <2>a. \A n, x : HasOk(Advance(r, n, f.name, x))
    BY ReaderHasOk DEF Advance
  <2>b. HasOk(Fails(r))
    BY Failing
  <2> HIDE DEF w, u
  <2> QED BY <2>a, <2>b DEF Converted
<1> HIDE DEF c, u, w
<1>3. HasOk(Fails(r)) /\ ~Fails(r).ok
  BY Failing
<1> QED BY <1>1, <1>2, <1>3 DEF c, u, w

LEMMA ReaderRead ==
    ASSUME NEW rest, NEW val, NEW f, (Reader(rest, val) ** f).ok
    PROVE  /\ ~(Len(rest) < Width[f.kind])
           /\ Reader(rest, val) ** f = Converted(Reader(rest, val), f, Width[f.kind],
                                                 ReadBigEndian(SubSeq(rest, 1, Width[f.kind])))
<1> DEFINE r == Reader(rest, val)
<1>1. HasOk(r) /\ r.rest = rest /\ (r ** f).ok
  BY ReaderHasOk, AllReaders
<1> HIDE DEF r
<1>2. /\ ~(Len(r.rest) < Width[f.kind])
      /\ r ** f = Converted(r, f, Width[f.kind], ReadBigEndian(SubSeq(r.rest, 1, Width[f.kind])))
  BY <1>1, FieldRead
<1> QED BY <1>1, <1>2 DEF r

\* The first w bytes of what there is to read.
LEMMA FirstBytes ==
    ASSUME NEW w \in 1 .. 8, NEW rest \in Text, ~(Len(rest) < w)
    PROVE  LET u == ReadBigEndian(SubSeq(rest, 1, w))
           IN  /\ u \in Unsigned(w) /\ AppendBigEndian(u, w) \in Text
               /\ \E t \in Text : Split(rest, AppendBigEndian(u, w), t) /\ Len(rest) = w + Len(t)
<1> DEFINE a == SubSeq(rest, 1, w)
           t == SubSeq(rest, w + 1, Len(rest))
<1>1. Len(rest) \in Nat /\ w \in 0 .. Len(rest)
  BY LenProperties DEF Text
<1>2. a \in Text /\ t \in Text /\ Len(a) = w /\ Len(t) = Len(rest) - w /\ a \o t = rest
  BY <1>1, Cutting DEF Text
<1> HIDE DEF a, t
<1>3. ReadBigEndian(a) \in Unsigned(w) /\ AppendBigEndian(ReadBigEndian(a), w) = a
  BY <1>2, WritesRead
<1>4. Split(rest, a, t) /\ Len(rest) = w + Len(t)
  BY <1>1, <1>2 DEF Split
<1> QED BY <1>2, <1>3, <1>4 DEF a

LEMMA UndoUnsigned ==
    ASSUME NEW name, NEW kind \in {"u32", "u64"}
    PROVE  Undoable(Field(name, kind))
<1> DEFINE f == Field(name, kind)
           w == Width[kind]
<1>1. f.kind = kind /\ f.name = name
  BY DEF Field
<1>2. w \in 1 .. 8 /\ \A v : FieldBytes(f, v) = AppendBigEndian(v, w)
  BY <1>1 DEF Width, FieldBytes, U32, U64
<1>3. ASSUME NEW rest \in Text, NEW val, (Reader(rest, val) ** f).ok
      PROVE  \E v, t : /\ Undone(rest, f, v, t)
                       /\ Reader(rest, val) ** f = Reader(t, Put(val, f.name, v))
  <2>a. ~(Len(rest) < w)
    BY <1>1, <1>3, ReaderRead
  <2> DEFINE u == ReadBigEndian(SubSeq(rest, 1, w))
  <2>b. u \in Unsigned(w) /\ \E t \in Text : Split(rest, AppendBigEndian(u, w), t)
    BY <1>2, <2>a, FirstBytes
  <2> HIDE DEF u
  <2>c. PICK t \in Text : Split(rest, AppendBigEndian(u, w), t)
    BY <2>b
  <2>d. rest = AppendBigEndian(u, w) \o t
    BY <2>c DEF Split
  <2>e. Reader(AppendBigEndian(u, w) \o t, val) ** Field(name, kind) = Reader(t, Put(val, name, u))
    BY <1>2, <2>b, ReadsUnsigned
  <2>f. Undone(rest, f, u, t) /\ Reader(rest, val) ** f = Reader(t, Put(val, f.name, u))
    BY <1>1, <1>2, <2>b, <2>c, <2>d, <2>e DEF Undone, Width
  <2> HIDE DEF f
  <2> QED BY <2>f
<1> HIDE DEF f
<1>4. Undoable(f)
  BY <1>3 DEF Undoable
<1> QED BY <1>4 DEF f

\* A negative number has the bytes of the unsigned one.
LEMMA SignedBytes ==
    ASSUME NEW w \in 1 .. 8, NEW u \in Unsigned(w),
           NEW v, v = IF u <= MaxSigned(w) THEN u ELSE u - Power[w]
    PROVE  v \in Signed(w) /\ AppendBigEndian(v, w) = AppendBigEndian(u, w)
<1>1. MaxSigned(w) \in Nat /\ Power[w] = 2 * MaxSigned(w) + 2 /\ Power[w] \in Nat /\ Power[w] > 0
  BY PowerEven
<1>2. u \in Nat /\ u < Power[w] /\ u % Power[w] = u
  BY <1>1, UnsignedValue DEF Unsigned
<1>3. v \in Signed(w)
  BY <1>1, <1>2 DEF Signed
<1>4. v % Power[w] = u
  <2>a. CASE u <= MaxSigned(w)
    BY <1>2, <2>a
  <2>b. CASE ~(u <= MaxSigned(w))
    <3>1. v < 0 /\ v + Power[w] = u
      BY <1>1, <1>2, <2>b
    <3> QED BY <1>3, <3>1, TwosComplement
  <2> QED BY <2>a, <2>b
<1> QED BY <1>2, <1>3, <1>4 DEF AppendBigEndian

LEMMA UndoPartition == Undoable(Partition)
<1> DEFINE f == Field("partition_id", "partition")
<1>1. f.kind = "partition" /\ f.name = "partition_id" /\ Width[f.kind] = 4
  BY DEF Field, Width
<1>2. \A v : FieldBytes(f, v) = AppendPartitionId(v)
  BY <1>1 DEF FieldBytes
<1>3. ASSUME NEW rest \in Text, NEW val, (Reader(rest, val) ** f).ok
      PROVE  \E v, t : /\ Undone(rest, f, v, t)
                       /\ Reader(rest, val) ** f = Reader(t, Put(val, f.name, v))
  <2>a. ~(Len(rest) < 4)
    BY <1>1, <1>3, ReaderRead
  <2> DEFINE u == ReadBigEndian(SubSeq(rest, 1, 4))
             v == DecodePartitionId(u)
  <2>b. u \in Unsigned(4) /\ \E t \in Text : Split(rest, AppendBigEndian(u, 4), t)
    BY <2>a, FirstBytes
  <2> HIDE DEF u
  <2>c. PICK t \in Text : Split(rest, AppendBigEndian(u, 4), t)
    BY <2>b
  <2>d. v = IF u <= MaxSigned(4) THEN u ELSE u - Power[4]
    BY DEF DecodePartitionId
  <2> HIDE DEF v
  <2>e. v \in Signed(4) /\ AppendPartitionId(v) = AppendBigEndian(u, 4)
    BY <2>b, <2>d, SignedBytes DEF AppendPartitionId, U32
  <2>f. rest = AppendPartitionId(v) \o t
    BY <2>c, <2>e DEF Split
  <2>g. Reader(AppendPartitionId(v) \o t, val) ** f = Reader(t, Put(val, "partition_id", v))
    BY <2>e, ReadsPartition
  <2> HIDE DEF f
  <2>h. Undone(rest, f, v, t) /\ Reader(rest, val) ** f = Reader(t, Put(val, f.name, v))
    BY <1>1, <1>2, <2>c, <2>e, <2>f, <2>g DEF Undone
  <2> QED BY <2>h
<1> HIDE DEF f
<1>4. Undoable(f)
  BY <1>3 DEF Undoable
<1> QED BY <1>4 DEF f, Partition

LEMMA UndoOffset ==
    ASSUME NEW name
    PROVE  Undoable(OffsetField(name))
<1> DEFINE f == OffsetField(name)
<1>1. f.kind = "offset" /\ f.name = name /\ Width[f.kind] = 8
  BY DEF OffsetField, Field, Width
<1> HIDE DEF f
<1>2. \A v : FieldBytes(f, v) = U64(v)
  BY <1>1 DEF FieldBytes
<1>3. ASSUME NEW rest \in Text, NEW val, (Reader(rest, val) ** f).ok
      PROVE  \E v, t : /\ Undone(rest, f, v, t)
                       /\ Reader(rest, val) ** f = Reader(t, Put(val, f.name, v))
  <2>a. ~(Len(rest) < 8)
    BY <1>1, <1>3, ReaderRead
  <2> DEFINE u == ReadBigEndian(SubSeq(rest, 1, 8))
             v == DecodeOffset(u)
  <2>b. u \in Unsigned(8) /\ \E t \in Text : Split(rest, AppendBigEndian(u, 8), t)
    BY <2>a, FirstBytes
  <2> HIDE DEF u
  <2>c. PICK t \in Text : Split(rest, AppendBigEndian(u, 8), t)
    BY <2>b
  <2>d. v = IF u <= MaxSigned(8) THEN u ELSE u - Power[8]
    BY DEF DecodeOffset
  <2> HIDE DEF v
  <2>e. v \in Signed(8) /\ U64(v) = AppendBigEndian(u, 8)
    BY <2>b, <2>d, SignedBytes DEF U64
  <2>f. rest = U64(v) \o t
    BY <2>c, <2>e DEF Split
  <2>g. Reader(U64(v) \o t, val) ** f = Reader(t, Put(val, name, v))
    BY <2>e, ReadsOffset DEF f
  <2>h. Undone(rest, f, v, t) /\ Reader(rest, val) ** f = Reader(t, Put(val, f.name, v))
    BY <1>1, <1>2, <2>c, <2>e, <2>f, <2>g DEF Undone
  <2> QED BY <2>h
<1>4. Undoable(f)
  BY <1>3 DEF Undoable
<1> QED BY <1>4 DEF f

LEMMA UndoGeneration == Undoable(Generation)
<1> DEFINE f == Generation
<1>1. f.kind = "generation" /\ f.name = "generation_id" /\ Width[f.kind] = 4
  BY DEF Generation, Field, Width
<1> HIDE DEF f
<1>2. \A v : FieldBytes(f, v) = U32(v)
  BY <1>1 DEF FieldBytes
<1>3. ASSUME NEW rest \in Text, NEW val, (Reader(rest, val) ** f).ok
      PROVE  \E v, t : /\ Undone(rest, f, v, t)
                       /\ Reader(rest, val) ** f = Reader(t, Put(val, f.name, v))
  <2> DEFINE u == ReadBigEndian(SubSeq(rest, 1, 4))
             r == Reader(rest, val)
  <2>a. ~(Len(rest) < 4) /\ (r ** f) = Converted(r, f, 4, u)
    BY <1>1, <1>3, ReaderRead
  <2>b. u \in Unsigned(4) /\ \E t \in Text : Split(rest, AppendBigEndian(u, 4), t)
    BY <2>a, FirstBytes
  <2> HIDE DEF u
  <2>c. PICK t \in Text : Split(rest, AppendBigEndian(u, 4), t)
    BY <2>b
  <2>d. HasOk(r)
    BY ReaderHasOk
  <2> HIDE DEF r
  <2>e. ~(u > MaxSigned(4))
    <3>1. SUFFICES ASSUME u > MaxSigned(4) PROVE FALSE
      OBVIOUS
    <3>2. Converted(r, f, 4, u) = Fails(r)
      BY <1>1, <3>1 DEF Converted
    <3> QED BY <1>3, <2>a, <2>d, <3>2, Failing DEF r
  <2>f. u \in Signed(4) /\ u >= 0
    <3>1. MaxSigned(4) \in Nat /\ u \in Nat
      BY <2>b, PowerEven, UnsignedValue
    <3> QED BY <2>e, <3>1 DEF Signed
  <2>g. rest = U32(u) \o t
    BY <2>c DEF Split, U32
  <2>h. Reader(U32(u) \o t, val) ** f = Reader(t, Put(val, "generation_id", u))
    BY <2>f, ReadsGeneration DEF f
  <2>i. Undone(rest, f, u, t) /\ Reader(rest, val) ** f = Reader(t, Put(val, f.name, u))
    BY <1>1, <1>2, <2>c, <2>g, <2>h DEF U32, Undone
  <2> QED BY <2>i
<1>4. Undoable(f)
  BY <1>3 DEF Undoable
<1> QED BY <1>4 DEF f

LEMMA UndoText ==
    ASSUME NEW name
    PROVE  Undoable(Str(name))
<1> DEFINE f == Str(name)
<1>1. f.kind = "string" /\ f.name = name /\ Width[f.kind] = 4
  BY DEF Str, Field, Width
<1> HIDE DEF f
<1>2. \A v : FieldBytes(f, v) = AppendString(v)
  BY <1>1 DEF FieldBytes
<1>3. ASSUME NEW rest \in Text, NEW val, (Reader(rest, val) ** f).ok
      PROVE  \E v, t : /\ Undone(rest, f, v, t)
                       /\ Reader(rest, val) ** f = Reader(t, Put(val, f.name, v))
  <2> DEFINE u == ReadBigEndian(SubSeq(rest, 1, 4))
             r == Reader(rest, val)
             a == AppendBigEndian(u, 4)
  <2>a. ~(Len(rest) < 4) /\ (r ** f) = Converted(r, f, 4, u)
    BY <1>1, <1>3, ReaderRead
  <2>b. u \in Unsigned(4) /\ \E t \in Text : Split(rest, AppendBigEndian(u, 4), t) /\ Len(rest) = 4 + Len(t)
    BY <2>a, FirstBytes
  <2> HIDE DEF u
  <2>c. PICK t \in Text : Split(rest, a, t) /\ Len(rest) = 4 + Len(t)
    BY <2>b
  <2>d. HasOk(r) /\ r.rest = rest
    BY ReaderHasOk, AllReaders
  <2> HIDE DEF r
  <2>e. ~(u > Len(rest) - 4)
    <3>1. SUFFICES ASSUME u > Len(rest) - 4 PROVE FALSE
      OBVIOUS
    <3>2. Converted(r, f, 4, u) = Fails(r)
      BY <1>1, <2>d, <3>1 DEF Converted
    <3> QED BY <1>3, <2>a, <2>d, <3>2, Failing DEF r
  <2>f. u \in Nat /\ u < Power[4] /\ u \in 0 .. Len(t) /\ Len(t) \in Nat
    <3>1. Power[4] \in Nat /\ Len(t) \in Nat
      BY PowerType, LenProperties DEF Text
    <3>2. u \in Nat /\ u < Power[4]
      BY <2>b, <3>1 DEF Unsigned
    <3> QED BY <2>c, <2>e, <3>1, <3>2
  <2> DEFINE v == SubSeq(t, 1, u)
             d == SubSeq(t, u + 1, Len(t))
  <2>g. v \in Text /\ d \in Text /\ Len(v) = u /\ v \o d = t
    BY <2>f, Cutting DEF Text
  <2> HIDE DEF v, d
  <2>h. AppendString(v) = a \o v /\ a \in Text /\ rest = a \o t
    BY <2>c, <2>g DEF AppendString, U32, Split
  <2> HIDE DEF a
  <2>i. AppendString(v) \in Text /\ rest = AppendString(v) \o d
    <3>1. (a \o v) \o d = a \o (v \o d)
      <4>1. a \in Text /\ v \in Text /\ d \in Text
        BY <2>g, <2>h
      <4> QED BY <4>1, TextAssoc, Zenon
    <3>2. a \o v \in Text
      BY <2>g, <2>h, TextConcat
    <3> QED BY <2>g, <2>h, <3>1, <3>2
  <2>j. Reader(AppendString(v) \o d, val) ** f = Reader(d, Put(val, name, v))
    BY <2>f, <2>g, ReadsText DEF f
  <2>k. Undone(rest, f, v, d) /\ Reader(rest, val) ** f = Reader(d, Put(val, f.name, v))
    <3>1. Split(rest, AppendString(v), d)
      BY <2>g, <2>i DEF Split
    <3> QED BY <1>1, <1>2, <2>i, <2>j, <3>1 DEF Undone
  <2> QED BY <2>k
<1>4. Undoable(f)
  BY <1>3 DEF Undoable
<1> QED BY <1>4 DEF f

----------------------------------------
(* Several fields *)

LEMMA UndoNext ==
    ASSUME NEW b, NEW a, NEW t, NEW val, NEW f, Split(b, a, t), Undoable(f),
           (Reader(t, val) ** f).ok
    PROVE  \E v, s : /\ Reader(t, val) ** f = Reader(s, Put(val, f.name, v))
                     /\ Split(b, a \o FieldBytes(f, v), s)
                     /\ (f.kind = "u32" => v \in Unsigned(4))
<1>1. a \in Text /\ t \in Text /\ b = a \o t
  BY DEF Split
<1>2. PICK v, s : Undone(t, f, v, s) /\ Reader(t, val) ** f = Reader(s, Put(val, f.name, v))
  BY <1>1 DEF Undoable
<1> DEFINE c == FieldBytes(f, v)
<1>3. c \in Text /\ s \in Text /\ t = c \o s /\ (f.kind = "u32" => v \in Unsigned(4))
  BY <1>2 DEF Split, Undone
<1> HIDE DEF c
<1>4. Split(b, a \o c, s)
  <2>a. Split((a \o c) \o s, a \o c, s)
    BY <1>1, <1>3, SplitFurther
  <2>b. (a \o c) \o s = a \o (c \o s)
    BY <1>1, <1>3, TextAssoc
  <2> QED BY <1>1, <1>3, <2>a, <2>b
<1> QED BY <1>2, <1>3, <1>4 DEF c

LEMMA Undo1 ==
    ASSUME NEW b \in Text, NEW z, NEW f1, Undoable(f1)
    PROVE  LET r == Reader(b, z) ** f1
           IN  /\ HasOk(r)
               /\ r.ok => \E v1, t :
                     /\ r = Reader(t, Put(z, f1.name, v1))
                     /\ Split(b, FieldBytes(f1, v1), t)
                     /\ (f1.kind = "u32" => v1 \in Unsigned(4))
<1>1. HasOk(Reader(b, z) ** f1)
  BY FieldRead, ReaderHasOk
<1>2. ASSUME (Reader(b, z) ** f1).ok
      PROVE  \E v1, t : /\ Reader(b, z) ** f1 = Reader(t, Put(z, f1.name, v1))
                        /\ Split(b, FieldBytes(f1, v1), t)
                        /\ (f1.kind = "u32" => v1 \in Unsigned(4))
  BY <1>2 DEF Undoable, Undone
<1> QED BY <1>1, <1>2

LEMMA Undo2 ==
    ASSUME NEW b \in Text, NEW z, NEW f1, NEW f2, Undoable(f1), Undoable(f2)
    PROVE  LET r == Reader(b, z) ** f1 ** f2
           IN  /\ HasOk(r)
               /\ r.ok => \E v1, v2, t :
                     /\ r = Reader(t, Put(Put(z, f1.name, v1), f2.name, v2))
                     /\ Split(b, FieldBytes(f1, v1) \o FieldBytes(f2, v2), t)
                     /\ (f2.kind = "u32" => v2 \in Unsigned(4))
<1> DEFINE s == Reader(b, z) ** f1
           r == s ** f2
<1>1. HasOk(s) /\ (s.ok => \E v1, t : /\ s = Reader(t, Put(z, f1.name, v1))
                                    /\ Split(b, FieldBytes(f1, v1), t))
  BY Undo1
<1> HIDE DEF s
<1>2. HasOk(r) /\ (r.ok => s.ok)
  BY <1>1, FieldRead
<1>3. ASSUME r.ok
      PROVE  \E v1, v2, t : /\ r = Reader(t, Put(Put(z, f1.name, v1), f2.name, v2))
                          /\ Split(b, FieldBytes(f1, v1) \o FieldBytes(f2, v2), t)
                          /\ (f2.kind = "u32" => v2 \in Unsigned(4))
  <2>a. PICK v1, t : s = Reader(t, Put(z, f1.name, v1))
                      /\ Split(b, FieldBytes(f1, v1), t)
    BY <1>1, <1>2, <1>3
  <2> DEFINE val == Put(z, f1.name, v1)
             a == FieldBytes(f1, v1)
  <2>b. s = Reader(t, val) /\ Split(b, a, t)
    BY <2>a
  <2> HIDE DEF val, a
  <2>c. (Reader(t, val) ** f2).ok
    BY <1>3, <2>b
  <2>d. PICK v2, u : /\ Reader(t, val) ** f2 = Reader(u, Put(val, f2.name, v2))
                    /\ Split(b, a \o FieldBytes(f2, v2), u)
                    /\ (f2.kind = "u32" => v2 \in Unsigned(4))
    BY <2>b, <2>c, UndoNext
  <2>e. r = Reader(u, Put(val, f2.name, v2))
    BY <2>b, <2>d
  <2> HIDE DEF r
  <2> QED BY <2>d, <2>e DEF val, a
<1> QED BY <1>2, <1>3 DEF s

LEMMA Undo3 ==
    ASSUME NEW b \in Text, NEW z, NEW f1, NEW f2, NEW f3, Undoable(f1), Undoable(f2), Undoable(f3)
    PROVE  LET r == Reader(b, z) ** f1 ** f2 ** f3
           IN  /\ HasOk(r)
               /\ r.ok => \E v1, v2, v3, t :
                     /\ r = Reader(t, Put(Put(Put(z, f1.name, v1), f2.name, v2), f3.name, v3))
                     /\ Split(b, FieldBytes(f1, v1) \o FieldBytes(f2, v2) \o FieldBytes(f3, v3), t)
                     /\ (f3.kind = "u32" => v3 \in Unsigned(4))
<1> DEFINE s == Reader(b, z) ** f1 ** f2
           r == s ** f3
<1>1. HasOk(s) /\ (s.ok => \E v1, v2, t : /\ s = Reader(t, Put(Put(z, f1.name, v1), f2.name, v2))
                                    /\ Split(b, FieldBytes(f1, v1) \o FieldBytes(f2, v2), t))
  BY Undo2
<1> HIDE DEF s
<1>2. HasOk(r) /\ (r.ok => s.ok)
  BY <1>1, FieldRead
<1>3. ASSUME r.ok
      PROVE  \E v1, v2, v3, t : /\ r = Reader(t, Put(Put(Put(z, f1.name, v1), f2.name, v2), f3.name, v3))
                          /\ Split(b, FieldBytes(f1, v1) \o FieldBytes(f2, v2) \o FieldBytes(f3, v3), t)
                          /\ (f3.kind = "u32" => v3 \in Unsigned(4))
  <2>a. PICK v1, v2, t : s = Reader(t, Put(Put(z, f1.name, v1), f2.name, v2))
                      /\ Split(b, FieldBytes(f1, v1) \o FieldBytes(f2, v2), t)
    BY <1>1, <1>2, <1>3
  <2> DEFINE val == Put(Put(z, f1.name, v1), f2.name, v2)
             a == FieldBytes(f1, v1) \o FieldBytes(f2, v2)
  <2>b. s = Reader(t, val) /\ Split(b, a, t)
    BY <2>a
  <2> HIDE DEF val, a
  <2>c. (Reader(t, val) ** f3).ok
    BY <1>3, <2>b
  <2>d. PICK v3, u : /\ Reader(t, val) ** f3 = Reader(u, Put(val, f3.name, v3))
                    /\ Split(b, a \o FieldBytes(f3, v3), u)
                    /\ (f3.kind = "u32" => v3 \in Unsigned(4))
    BY <2>b, <2>c, UndoNext
  <2>e. r = Reader(u, Put(val, f3.name, v3))
    BY <2>b, <2>d
  <2> HIDE DEF r
  <2> QED BY <2>d, <2>e DEF val, a
<1> QED BY <1>2, <1>3 DEF s

LEMMA Undo4 ==
    ASSUME NEW b \in Text, NEW z, NEW f1, NEW f2, NEW f3, NEW f4, Undoable(f1), Undoable(f2), Undoable(f3), Undoable(f4)
    PROVE  LET r == Reader(b, z) ** f1 ** f2 ** f3 ** f4
           IN  /\ HasOk(r)
               /\ r.ok => \E v1, v2, v3, v4, t :
                     /\ r = Reader(t, Put(Put(Put(Put(z, f1.name, v1), f2.name, v2), f3.name, v3), f4.name, v4))
                     /\ Split(b, FieldBytes(f1, v1) \o FieldBytes(f2, v2) \o FieldBytes(f3, v3) \o FieldBytes(f4, v4), t)
                     /\ (f4.kind = "u32" => v4 \in Unsigned(4))
<1> DEFINE s == Reader(b, z) ** f1 ** f2 ** f3
           r == s ** f4
<1>1. HasOk(s) /\ (s.ok => \E v1, v2, v3, t : /\ s = Reader(t, Put(Put(Put(z, f1.name, v1), f2.name, v2), f3.name, v3))
                                    /\ Split(b, FieldBytes(f1, v1) \o FieldBytes(f2, v2) \o FieldBytes(f3, v3), t))
  BY Undo3
<1> HIDE DEF s
<1>2. HasOk(r) /\ (r.ok => s.ok)
  BY <1>1, FieldRead
<1>3. ASSUME r.ok
      PROVE  \E v1, v2, v3, v4, t : /\ r = Reader(t, Put(Put(Put(Put(z, f1.name, v1), f2.name, v2), f3.name, v3), f4.name, v4))
                          /\ Split(b, FieldBytes(f1, v1) \o FieldBytes(f2, v2) \o FieldBytes(f3, v3) \o FieldBytes(f4, v4), t)
                          /\ (f4.kind = "u32" => v4 \in Unsigned(4))
  <2>a. PICK v1, v2, v3, t : s = Reader(t, Put(Put(Put(z, f1.name, v1), f2.name, v2), f3.name, v3))
                      /\ Split(b, FieldBytes(f1, v1) \o FieldBytes(f2, v2) \o FieldBytes(f3, v3), t)
    BY <1>1, <1>2, <1>3
  <2> DEFINE val == Put(Put(Put(z, f1.name, v1), f2.name, v2), f3.name, v3)
             a == FieldBytes(f1, v1) \o FieldBytes(f2, v2) \o FieldBytes(f3, v3)
  <2>b. s = Reader(t, val) /\ Split(b, a, t)
    BY <2>a
  <2> HIDE DEF val, a
  <2>c. (Reader(t, val) ** f4).ok
    BY <1>3, <2>b
  <2>d. PICK v4, u : /\ Reader(t, val) ** f4 = Reader(u, Put(val, f4.name, v4))
                    /\ Split(b, a \o FieldBytes(f4, v4), u)
                    /\ (f4.kind = "u32" => v4 \in Unsigned(4))
    BY <2>b, <2>c, UndoNext
  <2>e. r = Reader(u, Put(val, f4.name, v4))
    BY <2>b, <2>d
  <2> HIDE DEF r
  <2> QED BY <2>d, <2>e DEF val, a
<1> QED BY <1>2, <1>3 DEF s

LEMMA WholeOk ==
    ASSUME NEW r, HasOk(r)
    PROVE  HasOk(Whole(r)) /\ (Whole(r).ok => Whole(r) = r /\ r.ok /\ r.rest = <<>>)
<1>1. Whole(r) = IF r.ok /\ ~(r.rest = <<>>) THEN Fails(r) ELSE r
  BY DEF Whole, Require, consumed
<1> QED BY <1>1, Failing

\* The whole of b has been read.
LEMMA SplitAll ==
    ASSUME NEW b, NEW a, NEW t, Split(b, a, t), t = <<>>
    PROVE  b = a
<1>1. a \in Seq(Byte) /\ b = a \o <<>>
  BY DEF Split, Text
<1> QED BY <1>1, ConcatEmptySeq

\* The names and the bytes of the fields of requests.
LEMMA FieldFacts ==
    /\ \A n : Str(n).name = n /\ \A v : FieldBytes(Str(n), v) = AppendString(v)
    /\ Partition.name = "partition_id" /\ \A v : FieldBytes(Partition, v) = AppendPartitionId(v)
    /\ \A n : OffsetField(n).name = n /\ \A v : FieldBytes(OffsetField(n), v) = U64(v)
    /\ Generation.name = "generation_id" /\ \A v : FieldBytes(Generation, v) = U32(v)
    /\ \A n : Field(n, "u32").name = n /\ \A v : FieldBytes(Field(n, "u32"), v) = U32(v)
    /\ \A n : Field(n, "u64").name = n /\ \A v : FieldBytes(Field(n, "u64"), v) = U64(v)
BY DEF FieldBytes, Str, Partition, OffsetField, Generation, Field

\* The fields a decoder has read, with the alternative.
LEMMA Typing ==
    ASSUME NEW t, NEW val, NEW k
    PROVE  With(Reader(t, val), "type", k).val = Put(val, "type", k)
<1> DEFINE r == Reader(t, val)
<1>1. r.ok /\ r.val = val /\ r.rest = t
  BY AllReaders
<1> HIDE DEF r
<1>2. With(r, "type", k) = Reader(t, Put(val, "type", k))
  BY <1>1 DEF With, Having
<1> QED BY <1>2, AllReaders DEF r

----------------------------------------
(* Bodies of requests *)

LEMMA FetchUndone ==
    ASSUME NEW b \in Text, DecodeFetchBody(b).ok
    PROVE  EncodeFetchBody(With(DecodeFetchBody(b), "type", "Fetch").val) \in {Ok(b), Err}
<1> DEFINE z == <<>>
           c == Reader(b, z) ** Str("topic") ** Partition ** OffsetField("offset") ** Field("max_bytes", "u32")
<1>1. Undoable(Str("topic")) /\ Undoable(Partition) /\ Undoable(OffsetField("offset")) /\ Undoable(Field("max_bytes", "u32"))
  BY UndoOffset, UndoPartition, UndoText, UndoUnsigned
<1> HIDE DEF z
<1>2. DecodeFetchBody(b) = Whole(c)
  BY DEF DecodeFetchBody, BodyReader, z
<1>3. HasOk(c) /\ (c.ok => \E v1, v2, v3, v4, t :
         /\ c = Reader(t, Put(Put(Put(Put(z, "topic", v1), "partition_id", v2), "offset", v3), "max_bytes", v4))
         /\ Split(b, FieldBytes(Str("topic"), v1) \o FieldBytes(Partition, v2) \o FieldBytes(OffsetField("offset"), v3) \o FieldBytes(Field("max_bytes", "u32"), v4), t))
  BY <1>1, FieldFacts, Undo4
<1> HIDE DEF c
<1>4. DecodeFetchBody(b) = c /\ c.ok /\ c.rest = <<>>
  BY <1>2, <1>3, WholeOk
<1>5. PICK v1, v2, v3, v4, t :
         /\ c = Reader(t, Put(Put(Put(Put(z, "topic", v1), "partition_id", v2), "offset", v3), "max_bytes", v4))
         /\ Split(b, FieldBytes(Str("topic"), v1) \o FieldBytes(Partition, v2) \o FieldBytes(OffsetField("offset"), v3) \o FieldBytes(Field("max_bytes", "u32"), v4), t)
  BY <1>3, <1>4
<1> DEFINE val == Put(Put(Put(Put(z, "topic", v1), "partition_id", v2), "offset", v3), "max_bytes", v4)
           q == Put(val, "type", "Fetch")
<1>6. t = <<>>
  BY <1>4, <1>5, AllReaders
<1>7. b = AppendString(v1) \o AppendPartitionId(v2) \o U64(v3) \o U32(v4)
  <2>a. b = FieldBytes(Str("topic"), v1) \o FieldBytes(Partition, v2) \o FieldBytes(OffsetField("offset"), v3) \o FieldBytes(Field("max_bytes", "u32"), v4)
    BY <1>5, <1>6, SplitAll
  <2> QED BY <2>a, FieldFacts
<1>8. q.topic = v1 /\ q.partition_id = v2 /\ q.offset = v3 /\ q.max_bytes = v4
  BY DEF Put, z
<1>9. With(DecodeFetchBody(b), "type", "Fetch").val = q
  <2> HIDE DEF val
  <2>a. DecodeFetchBody(b) = Reader(t, val)
    BY <1>4, <1>5 DEF val
  <2> QED BY <2>a, Typing
<1> HIDE DEF q, val
<1>10. EncodeFetchBody(q) \in {Ok(b), Err}
  BY <1>7, <1>8 DEF EncodeFetchBody, When
<1> QED BY <1>9, <1>10

LEMMA MetadataUndone ==
    ASSUME NEW b \in Text, DecodeMetadataBody(b).ok
    PROVE  EncodeMetadataBody(With(DecodeMetadataBody(b), "type", "Metadata").val) \in {Ok(b), Err}
<1> DEFINE z == <<>>
           c == Reader(b, z) ** Str("topic")
<1>1. Undoable(Str("topic"))
  BY UndoText
<1> HIDE DEF z
<1>2. DecodeMetadataBody(b) = Whole(c)
  BY DEF DecodeMetadataBody, BodyReader, z
<1>3. HasOk(c) /\ (c.ok => \E v1, t :
         /\ c = Reader(t, Put(z, "topic", v1))
         /\ Split(b, FieldBytes(Str("topic"), v1), t))
  BY <1>1, FieldFacts, Undo1
<1> HIDE DEF c
<1>4. DecodeMetadataBody(b) = c /\ c.ok /\ c.rest = <<>>
  BY <1>2, <1>3, WholeOk
<1>5. PICK v1, t :
         /\ c = Reader(t, Put(z, "topic", v1))
         /\ Split(b, FieldBytes(Str("topic"), v1), t)
  BY <1>3, <1>4
<1> DEFINE val == Put(z, "topic", v1)
           q == Put(val, "type", "Metadata")
<1>6. t = <<>>
  BY <1>4, <1>5, AllReaders
<1>7. b = AppendString(v1)
  <2>a. b = FieldBytes(Str("topic"), v1)
    BY <1>5, <1>6, SplitAll
  <2> QED BY <2>a, FieldFacts
<1>8. q.topic = v1
  BY DEF Put, z
<1>9. With(DecodeMetadataBody(b), "type", "Metadata").val = q
  <2> HIDE DEF val
  <2>a. DecodeMetadataBody(b) = Reader(t, val)
    BY <1>4, <1>5 DEF val
  <2> QED BY <2>a, Typing
<1> HIDE DEF q, val
<1>10. EncodeMetadataBody(q) \in {Ok(b), Err}
  BY <1>7, <1>8 DEF EncodeMetadataBody, When
<1> QED BY <1>9, <1>10

LEMMA CreateTopicUndone ==
    ASSUME NEW b \in Text, DecodeCreateTopicBody(b).ok
    PROVE  EncodeCreateTopicBody(With(DecodeCreateTopicBody(b), "type", "CreateTopic").val) \in {Ok(b), Err}
<1> DEFINE z == <<>>
           c == Reader(b, z) ** Str("topic") ** Field("partition_count", "u32")
<1>1. Undoable(Str("topic")) /\ Undoable(Field("partition_count", "u32"))
  BY UndoText, UndoUnsigned
<1> HIDE DEF z
<1>2. DecodeCreateTopicBody(b) = Whole(c)
  BY DEF DecodeCreateTopicBody, BodyReader, z
<1>3. HasOk(c) /\ (c.ok => \E v1, v2, t :
         /\ c = Reader(t, Put(Put(z, "topic", v1), "partition_count", v2))
         /\ Split(b, FieldBytes(Str("topic"), v1) \o FieldBytes(Field("partition_count", "u32"), v2), t))
  BY <1>1, FieldFacts, Undo2
<1> HIDE DEF c
<1>4. DecodeCreateTopicBody(b) = c /\ c.ok /\ c.rest = <<>>
  BY <1>2, <1>3, WholeOk
<1>5. PICK v1, v2, t :
         /\ c = Reader(t, Put(Put(z, "topic", v1), "partition_count", v2))
         /\ Split(b, FieldBytes(Str("topic"), v1) \o FieldBytes(Field("partition_count", "u32"), v2), t)
  BY <1>3, <1>4
<1> DEFINE val == Put(Put(z, "topic", v1), "partition_count", v2)
           q == Put(val, "type", "CreateTopic")
<1>6. t = <<>>
  BY <1>4, <1>5, AllReaders
<1>7. b = AppendString(v1) \o U32(v2)
  <2>a. b = FieldBytes(Str("topic"), v1) \o FieldBytes(Field("partition_count", "u32"), v2)
    BY <1>5, <1>6, SplitAll
  <2> QED BY <2>a, FieldFacts
<1>8. q.topic = v1 /\ q.partition_count = v2
  BY DEF Put, z
<1>9. With(DecodeCreateTopicBody(b), "type", "CreateTopic").val = q
  <2> HIDE DEF val
  <2>a. DecodeCreateTopicBody(b) = Reader(t, val)
    BY <1>4, <1>5 DEF val
  <2> QED BY <2>a, Typing
<1> HIDE DEF q, val
<1>10. EncodeCreateTopicBody(q) \in {Ok(b), Err}
  BY <1>7, <1>8 DEF EncodeCreateTopicBody, When
<1> QED BY <1>9, <1>10

LEMMA CommitOffsetUndone ==
    ASSUME NEW b \in Text, DecodeCommitOffsetBody(b).ok
    PROVE  EncodeCommitOffsetBody(With(DecodeCommitOffsetBody(b), "type", "CommitOffset").val) \in {Ok(b), Err}
<1> DEFINE z == <<>>
           c == Reader(b, z) ** Str("group_id") ** Str("topic") ** Partition ** OffsetField("offset")
<1>1. Undoable(Str("group_id")) /\ Undoable(Str("topic")) /\ Undoable(Partition) /\ Undoable(OffsetField("offset"))
  BY UndoOffset, UndoPartition, UndoText
<1> HIDE DEF z
<1>2. DecodeCommitOffsetBody(b) = Whole(c)
  BY DEF DecodeCommitOffsetBody, BodyReader, z
<1>3. HasOk(c) /\ (c.ok => \E v1, v2, v3, v4, t :
         /\ c = Reader(t, Put(Put(Put(Put(z, "group_id", v1), "topic", v2), "partition_id", v3), "offset", v4))
         /\ Split(b, FieldBytes(Str("group_id"), v1) \o FieldBytes(Str("topic"), v2) \o FieldBytes(Partition, v3) \o FieldBytes(OffsetField("offset"), v4), t))
  BY <1>1, FieldFacts, Undo4
<1> HIDE DEF c
<1>4. DecodeCommitOffsetBody(b) = c /\ c.ok /\ c.rest = <<>>
  BY <1>2, <1>3, WholeOk
<1>5. PICK v1, v2, v3, v4, t :
         /\ c = Reader(t, Put(Put(Put(Put(z, "group_id", v1), "topic", v2), "partition_id", v3), "offset", v4))
         /\ Split(b, FieldBytes(Str("group_id"), v1) \o FieldBytes(Str("topic"), v2) \o FieldBytes(Partition, v3) \o FieldBytes(OffsetField("offset"), v4), t)
  BY <1>3, <1>4
<1> DEFINE val == Put(Put(Put(Put(z, "group_id", v1), "topic", v2), "partition_id", v3), "offset", v4)
           q == Put(val, "type", "CommitOffset")
<1>6. t = <<>>
  BY <1>4, <1>5, AllReaders
<1>7. b = AppendString(v1) \o AppendString(v2) \o AppendPartitionId(v3) \o U64(v4)
  <2>a. b = FieldBytes(Str("group_id"), v1) \o FieldBytes(Str("topic"), v2) \o FieldBytes(Partition, v3) \o FieldBytes(OffsetField("offset"), v4)
    BY <1>5, <1>6, SplitAll
  <2> QED BY <2>a, FieldFacts
<1>8. q.group_id = v1 /\ q.topic = v2 /\ q.partition_id = v3 /\ q.offset = v4
  BY DEF Put, z
<1>9. With(DecodeCommitOffsetBody(b), "type", "CommitOffset").val = q
  <2> HIDE DEF val
  <2>a. DecodeCommitOffsetBody(b) = Reader(t, val)
    BY <1>4, <1>5 DEF val
  <2> QED BY <2>a, Typing
<1> HIDE DEF q, val
<1>10. EncodeCommitOffsetBody(q) \in {Ok(b), Err}
  BY <1>7, <1>8 DEF EncodeCommitOffsetBody, When
<1> QED BY <1>9, <1>10

LEMMA FetchCommittedOffsetUndone ==
    ASSUME NEW b \in Text, DecodeFetchCommittedOffsetBody(b).ok
    PROVE  EncodeFetchCommittedOffsetBody(With(DecodeFetchCommittedOffsetBody(b), "type", "FetchCommittedOffset").val) \in {Ok(b), Err}
<1> DEFINE z == <<>>
           c == Reader(b, z) ** Str("group_id") ** Str("topic") ** Partition
<1>1. Undoable(Str("group_id")) /\ Undoable(Str("topic")) /\ Undoable(Partition)
  BY UndoPartition, UndoText
<1> HIDE DEF z
<1>2. DecodeFetchCommittedOffsetBody(b) = Whole(c)
  BY DEF DecodeFetchCommittedOffsetBody, BodyReader, z
<1>3. HasOk(c) /\ (c.ok => \E v1, v2, v3, t :
         /\ c = Reader(t, Put(Put(Put(z, "group_id", v1), "topic", v2), "partition_id", v3))
         /\ Split(b, FieldBytes(Str("group_id"), v1) \o FieldBytes(Str("topic"), v2) \o FieldBytes(Partition, v3), t))
  BY <1>1, FieldFacts, Undo3
<1> HIDE DEF c
<1>4. DecodeFetchCommittedOffsetBody(b) = c /\ c.ok /\ c.rest = <<>>
  BY <1>2, <1>3, WholeOk
<1>5. PICK v1, v2, v3, t :
         /\ c = Reader(t, Put(Put(Put(z, "group_id", v1), "topic", v2), "partition_id", v3))
         /\ Split(b, FieldBytes(Str("group_id"), v1) \o FieldBytes(Str("topic"), v2) \o FieldBytes(Partition, v3), t)
  BY <1>3, <1>4
<1> DEFINE val == Put(Put(Put(z, "group_id", v1), "topic", v2), "partition_id", v3)
           q == Put(val, "type", "FetchCommittedOffset")
<1>6. t = <<>>
  BY <1>4, <1>5, AllReaders
<1>7. b = AppendString(v1) \o AppendString(v2) \o AppendPartitionId(v3)
  <2>a. b = FieldBytes(Str("group_id"), v1) \o FieldBytes(Str("topic"), v2) \o FieldBytes(Partition, v3)
    BY <1>5, <1>6, SplitAll
  <2> QED BY <2>a, FieldFacts
<1>8. q.group_id = v1 /\ q.topic = v2 /\ q.partition_id = v3
  BY DEF Put, z
<1>9. With(DecodeFetchCommittedOffsetBody(b), "type", "FetchCommittedOffset").val = q
  <2> HIDE DEF val
  <2>a. DecodeFetchCommittedOffsetBody(b) = Reader(t, val)
    BY <1>4, <1>5 DEF val
  <2> QED BY <2>a, Typing
<1> HIDE DEF q, val
<1>10. EncodeFetchCommittedOffsetBody(q) \in {Ok(b), Err}
  BY <1>7, <1>8 DEF EncodeFetchCommittedOffsetBody, When
<1> QED BY <1>9, <1>10

LEMMA JoinGroupUndone ==
    ASSUME NEW b \in Text, DecodeJoinGroupBody(b).ok
    PROVE  EncodeJoinGroupBody(With(DecodeJoinGroupBody(b), "type", "JoinGroup").val) \in {Ok(b), Err}
<1> DEFINE z == <<>>
           c == Reader(b, z) ** Str("group_id") ** Str("member_id") ** Str("topic")
<1>1. Undoable(Str("group_id")) /\ Undoable(Str("member_id")) /\ Undoable(Str("topic"))
  BY UndoText
<1> HIDE DEF z
<1>2. DecodeJoinGroupBody(b) = Whole(c)
  BY DEF DecodeJoinGroupBody, BodyReader, z
<1>3. HasOk(c) /\ (c.ok => \E v1, v2, v3, t :
         /\ c = Reader(t, Put(Put(Put(z, "group_id", v1), "member_id", v2), "topic", v3))
         /\ Split(b, FieldBytes(Str("group_id"), v1) \o FieldBytes(Str("member_id"), v2) \o FieldBytes(Str("topic"), v3), t))
  BY <1>1, FieldFacts, Undo3
<1> HIDE DEF c
<1>4. DecodeJoinGroupBody(b) = c /\ c.ok /\ c.rest = <<>>
  BY <1>2, <1>3, WholeOk
<1>5. PICK v1, v2, v3, t :
         /\ c = Reader(t, Put(Put(Put(z, "group_id", v1), "member_id", v2), "topic", v3))
         /\ Split(b, FieldBytes(Str("group_id"), v1) \o FieldBytes(Str("member_id"), v2) \o FieldBytes(Str("topic"), v3), t)
  BY <1>3, <1>4
<1> DEFINE val == Put(Put(Put(z, "group_id", v1), "member_id", v2), "topic", v3)
           q == Put(val, "type", "JoinGroup")
<1>6. t = <<>>
  BY <1>4, <1>5, AllReaders
<1>7. b = AppendString(v1) \o AppendString(v2) \o AppendString(v3)
  <2>a. b = FieldBytes(Str("group_id"), v1) \o FieldBytes(Str("member_id"), v2) \o FieldBytes(Str("topic"), v3)
    BY <1>5, <1>6, SplitAll
  <2> QED BY <2>a, FieldFacts
<1>8. q.group_id = v1 /\ q.member_id = v2 /\ q.topic = v3
  BY DEF Put, z
<1>9. With(DecodeJoinGroupBody(b), "type", "JoinGroup").val = q
  <2> HIDE DEF val
  <2>a. DecodeJoinGroupBody(b) = Reader(t, val)
    BY <1>4, <1>5 DEF val
  <2> QED BY <2>a, Typing
<1> HIDE DEF q, val
<1>10. EncodeJoinGroupBody(q) \in {Ok(b), Err}
  BY <1>7, <1>8 DEF EncodeJoinGroupBody, When
<1> QED BY <1>9, <1>10

LEMMA SyncGroupUndone ==
    ASSUME NEW b \in Text, DecodeSyncGroupBody(b).ok
    PROVE  EncodeSyncGroupBody(With(DecodeSyncGroupBody(b), "type", "SyncGroup").val) \in {Ok(b), Err}
<1> DEFINE z == <<>>
           c == Reader(b, z) ** Str("group_id") ** Str("member_id") ** Generation
<1>1. Undoable(Str("group_id")) /\ Undoable(Str("member_id")) /\ Undoable(Generation)
  BY UndoGeneration, UndoText
<1> HIDE DEF z
<1>2. DecodeSyncGroupBody(b) = Whole(c)
  BY DEF DecodeSyncGroupBody, BodyReader, z
<1>3. HasOk(c) /\ (c.ok => \E v1, v2, v3, t :
         /\ c = Reader(t, Put(Put(Put(z, "group_id", v1), "member_id", v2), "generation_id", v3))
         /\ Split(b, FieldBytes(Str("group_id"), v1) \o FieldBytes(Str("member_id"), v2) \o FieldBytes(Generation, v3), t))
  BY <1>1, FieldFacts, Undo3
<1> HIDE DEF c
<1>4. DecodeSyncGroupBody(b) = c /\ c.ok /\ c.rest = <<>>
  BY <1>2, <1>3, WholeOk
<1>5. PICK v1, v2, v3, t :
         /\ c = Reader(t, Put(Put(Put(z, "group_id", v1), "member_id", v2), "generation_id", v3))
         /\ Split(b, FieldBytes(Str("group_id"), v1) \o FieldBytes(Str("member_id"), v2) \o FieldBytes(Generation, v3), t)
  BY <1>3, <1>4
<1> DEFINE val == Put(Put(Put(z, "group_id", v1), "member_id", v2), "generation_id", v3)
           q == Put(val, "type", "SyncGroup")
<1>6. t = <<>>
  BY <1>4, <1>5, AllReaders
<1>7. b = AppendString(v1) \o AppendString(v2) \o U32(v3)
  <2>a. b = FieldBytes(Str("group_id"), v1) \o FieldBytes(Str("member_id"), v2) \o FieldBytes(Generation, v3)
    BY <1>5, <1>6, SplitAll
  <2> QED BY <2>a, FieldFacts
<1>8. q.group_id = v1 /\ q.member_id = v2 /\ q.generation_id = v3
  BY DEF Put, z
<1>9. With(DecodeSyncGroupBody(b), "type", "SyncGroup").val = q
  <2> HIDE DEF val
  <2>a. DecodeSyncGroupBody(b) = Reader(t, val)
    BY <1>4, <1>5 DEF val
  <2> QED BY <2>a, Typing
<1> HIDE DEF q, val
<1>10. EncodeSyncGroupBody(q) \in {Ok(b), Err}
  BY <1>7, <1>8 DEF EncodeSyncGroupBody, When
<1> QED BY <1>9, <1>10

LEMMA HeartbeatUndone ==
    ASSUME NEW b \in Text, DecodeHeartbeatBody(b).ok
    PROVE  EncodeHeartbeatBody(With(DecodeHeartbeatBody(b), "type", "Heartbeat").val) \in {Ok(b), Err}
<1> DEFINE z == <<>>
           c == Reader(b, z) ** Str("group_id") ** Str("member_id") ** Generation
<1>1. Undoable(Str("group_id")) /\ Undoable(Str("member_id")) /\ Undoable(Generation)
  BY UndoGeneration, UndoText
<1> HIDE DEF z
<1>2. DecodeHeartbeatBody(b) = Whole(c)
  BY DEF DecodeHeartbeatBody, BodyReader, z
<1>3. HasOk(c) /\ (c.ok => \E v1, v2, v3, t :
         /\ c = Reader(t, Put(Put(Put(z, "group_id", v1), "member_id", v2), "generation_id", v3))
         /\ Split(b, FieldBytes(Str("group_id"), v1) \o FieldBytes(Str("member_id"), v2) \o FieldBytes(Generation, v3), t))
  BY <1>1, FieldFacts, Undo3
<1> HIDE DEF c
<1>4. DecodeHeartbeatBody(b) = c /\ c.ok /\ c.rest = <<>>
  BY <1>2, <1>3, WholeOk
<1>5. PICK v1, v2, v3, t :
         /\ c = Reader(t, Put(Put(Put(z, "group_id", v1), "member_id", v2), "generation_id", v3))
         /\ Split(b, FieldBytes(Str("group_id"), v1) \o FieldBytes(Str("member_id"), v2) \o FieldBytes(Generation, v3), t)
  BY <1>3, <1>4
<1> DEFINE val == Put(Put(Put(z, "group_id", v1), "member_id", v2), "generation_id", v3)
           q == Put(val, "type", "Heartbeat")
<1>6. t = <<>>
  BY <1>4, <1>5, AllReaders
<1>7. b = AppendString(v1) \o AppendString(v2) \o U32(v3)
  <2>a. b = FieldBytes(Str("group_id"), v1) \o FieldBytes(Str("member_id"), v2) \o FieldBytes(Generation, v3)
    BY <1>5, <1>6, SplitAll
  <2> QED BY <2>a, FieldFacts
<1>8. q.group_id = v1 /\ q.member_id = v2 /\ q.generation_id = v3
  BY DEF Put, z
<1>9. With(DecodeHeartbeatBody(b), "type", "Heartbeat").val = q
  <2> HIDE DEF val
  <2>a. DecodeHeartbeatBody(b) = Reader(t, val)
    BY <1>4, <1>5 DEF val
  <2> QED BY <2>a, Typing
<1> HIDE DEF q, val
<1>10. EncodeHeartbeatBody(q) \in {Ok(b), Err}
  BY <1>7, <1>8 DEF EncodeHeartbeatBody, When
<1> QED BY <1>9, <1>10

LEMMA LeaveGroupUndone ==
    ASSUME NEW b \in Text, DecodeLeaveGroupBody(b).ok
    PROVE  EncodeLeaveGroupBody(With(DecodeLeaveGroupBody(b), "type", "LeaveGroup").val) \in {Ok(b), Err}
<1> DEFINE z == <<>>
           c == Reader(b, z) ** Str("group_id") ** Str("member_id")
<1>1. Undoable(Str("group_id")) /\ Undoable(Str("member_id"))
  BY UndoText
<1> HIDE DEF z
<1>2. DecodeLeaveGroupBody(b) = Whole(c)
  BY DEF DecodeLeaveGroupBody, BodyReader, z
<1>3. HasOk(c) /\ (c.ok => \E v1, v2, t :
         /\ c = Reader(t, Put(Put(z, "group_id", v1), "member_id", v2))
         /\ Split(b, FieldBytes(Str("group_id"), v1) \o FieldBytes(Str("member_id"), v2), t))
  BY <1>1, FieldFacts, Undo2
<1> HIDE DEF c
<1>4. DecodeLeaveGroupBody(b) = c /\ c.ok /\ c.rest = <<>>
  BY <1>2, <1>3, WholeOk
<1>5. PICK v1, v2, t :
         /\ c = Reader(t, Put(Put(z, "group_id", v1), "member_id", v2))
         /\ Split(b, FieldBytes(Str("group_id"), v1) \o FieldBytes(Str("member_id"), v2), t)
  BY <1>3, <1>4
<1> DEFINE val == Put(Put(z, "group_id", v1), "member_id", v2)
           q == Put(val, "type", "LeaveGroup")
<1>6. t = <<>>
  BY <1>4, <1>5, AllReaders
<1>7. b = AppendString(v1) \o AppendString(v2)
  <2>a. b = FieldBytes(Str("group_id"), v1) \o FieldBytes(Str("member_id"), v2)
    BY <1>5, <1>6, SplitAll
  <2> QED BY <2>a, FieldFacts
<1>8. q.group_id = v1 /\ q.member_id = v2
  BY DEF Put, z
<1>9. With(DecodeLeaveGroupBody(b), "type", "LeaveGroup").val = q
  <2> HIDE DEF val
  <2>a. DecodeLeaveGroupBody(b) = Reader(t, val)
    BY <1>4, <1>5 DEF val
  <2> QED BY <2>a, Typing
<1> HIDE DEF q, val
<1>10. EncodeLeaveGroupBody(q) \in {Ok(b), Err}
  BY <1>7, <1>8 DEF EncodeLeaveGroupBody, When
<1> QED BY <1>9, <1>10

LEMMA NackUndone ==
    ASSUME NEW b \in Text, DecodeNackBody(b).ok
    PROVE  EncodeNackBody(With(DecodeNackBody(b), "type", "Nack").val) \in {Ok(b), Err}
<1> DEFINE z == <<>>
           c == Reader(b, z) ** Str("topic") ** Partition ** OffsetField("offset") ** Str("reason")
<1>1. Undoable(Str("topic")) /\ Undoable(Partition) /\ Undoable(OffsetField("offset")) /\ Undoable(Str("reason"))
  BY UndoOffset, UndoPartition, UndoText
<1> HIDE DEF z
<1>2. DecodeNackBody(b) = Require(Whole(c), LAMBDA r : NackValid(r.val))
  BY DEF DecodeNackBody, BodyReader, z
<1>3. HasOk(c) /\ (c.ok => \E v1, v2, v3, v4, t :
         /\ c = Reader(t, Put(Put(Put(Put(z, "topic", v1), "partition_id", v2), "offset", v3), "reason", v4))
         /\ Split(b, FieldBytes(Str("topic"), v1) \o FieldBytes(Partition, v2) \o FieldBytes(OffsetField("offset"), v3) \o FieldBytes(Str("reason"), v4), t))
  BY <1>1, FieldFacts, Undo4
<1> HIDE DEF c
<1>4. DecodeNackBody(b) = c /\ c.ok /\ c.rest = <<>>
  <2> DEFINE w == Whole(c)
  <2>a. HasOk(w) /\ (w.ok => w = c /\ c.ok /\ c.rest = <<>>)
    BY <1>3, WholeOk
  <2> HIDE DEF w
  <2>b. DecodeNackBody(b) = IF w.ok /\ ~NackValid(w.val) THEN Fails(w) ELSE w
    BY <1>2 DEF Require, w
  <2>c. HasOk(Fails(w)) /\ ~Fails(w).ok
    BY <2>a, Failing
  <2> QED BY <2>a, <2>b, <2>c
<1>5. PICK v1, v2, v3, v4, t :
         /\ c = Reader(t, Put(Put(Put(Put(z, "topic", v1), "partition_id", v2), "offset", v3), "reason", v4))
         /\ Split(b, FieldBytes(Str("topic"), v1) \o FieldBytes(Partition, v2) \o FieldBytes(OffsetField("offset"), v3) \o FieldBytes(Str("reason"), v4), t)
  BY <1>3, <1>4
<1> DEFINE val == Put(Put(Put(Put(z, "topic", v1), "partition_id", v2), "offset", v3), "reason", v4)
           q == Put(val, "type", "Nack")
<1>6. t = <<>>
  BY <1>4, <1>5, AllReaders
<1>7. b = AppendString(v1) \o AppendPartitionId(v2) \o U64(v3) \o AppendString(v4)
  <2>a. b = FieldBytes(Str("topic"), v1) \o FieldBytes(Partition, v2) \o FieldBytes(OffsetField("offset"), v3) \o FieldBytes(Str("reason"), v4)
    BY <1>5, <1>6, SplitAll
  <2> QED BY <2>a, FieldFacts
<1>8. q.topic = v1 /\ q.partition_id = v2 /\ q.offset = v3 /\ q.reason = v4
  BY DEF Put, z
<1>9. With(DecodeNackBody(b), "type", "Nack").val = q
  <2> HIDE DEF val
  <2>a. DecodeNackBody(b) = Reader(t, val)
    BY <1>4, <1>5 DEF val
  <2> QED BY <2>a, Typing
<1> HIDE DEF q, val
<1>10. EncodeNackBody(q) \in {Ok(b), Err}
  BY <1>7, <1>8 DEF EncodeNackBody, When
<1> QED BY <1>9, <1>10

----------------------------------------
(* A list of records *)

LEMMA UnsignedBytes ==
    ASSUME NEW v, NEW w \in 1 .. 8, AppendBigEndian(v, w) \in Text
    PROVE  Len(AppendBigEndian(v, w)) = w
<1> DEFINE a == AppendBigEndian(v, w)
<1>1. DOMAIN a = 1 .. w
  BY DEF AppendBigEndian
<1>2. a \in Seq(Byte)
  BY DEF Text
<1> HIDE DEF a
<1>3. Len(a) \in Nat /\ DOMAIN a = 1 .. Len(a)
  BY <1>2, LenProperties
<1>4. Len(a) = w
  BY <1>1, <1>3
<1> QED BY <1>4 DEF a

\* A record that has been read: its bytes are gone, four at least.
RecordRead(rest, x, t) ==
    Split(rest, AppendProtocolRecord(x), t) /\ Len(t) + 4 <= Len(rest)

LEMMA RecordUndone ==
    ASSUME NEW rest, NEW z, z = <<>>
    PROVE  LET one == ReadItem("record", Reader(rest, z))
           IN  /\ HasOk(one)
               /\ rest \in Text /\ one.ok => \E x, t : one = Reader(t, x) /\ RecordRead(rest, x, t)
<1> DEFINE c == Reader(rest, z) ** Field("timestamp", "u64") ** Str("key") ** Str("value")
           one == ReadItem("record", Reader(rest, z))
<1>1. one = IF c.ok THEN Reader(c.rest, Put(c.val, "retry", {})) ELSE c
  BY DEF ReadItem, DecodeProtocolRecord, With, Having
<1>2. HasOk(c)
  BY FieldRead, ReaderHasOk
<1> HIDE DEF one
<1>3. HasOk(one)
  <2> HIDE DEF c
  <2> QED BY <1>1, <1>2, ReaderHasOk
<1>4. ASSUME rest \in Text, one.ok
      PROVE  \E x, t : one = Reader(t, x) /\ RecordRead(rest, x, t)
  <2>a. Undoable(Field("timestamp", "u64")) /\ Undoable(Str("key")) /\ Undoable(Str("value"))
    BY UndoText, UndoUnsigned
  <2>b. c.ok => \E v1, v2, v3, t :
           /\ c = Reader(t, Put(Put(Put(z, "timestamp", v1), "key", v2), "value", v3))
           /\ Split(rest, FieldBytes(Field("timestamp", "u64"), v1) \o FieldBytes(Str("key"), v2)
                          \o FieldBytes(Str("value"), v3), t)
    BY <1>4, <2>a, FieldFacts, Undo3
  <2> HIDE DEF c
  <2>c. c.ok
    BY <1>1, <1>4
  <2>d. PICK v1, v2, v3, t :
           /\ c = Reader(t, Put(Put(Put(z, "timestamp", v1), "key", v2), "value", v3))
           /\ Split(rest, FieldBytes(Field("timestamp", "u64"), v1) \o FieldBytes(Str("key"), v2)
                          \o FieldBytes(Str("value"), v3), t)
    BY <2>b, <2>c
  <2> DEFINE val == Put(Put(Put(z, "timestamp", v1), "key", v2), "value", v3)
             x == Put(val, "retry", {})
  <2>e. x.timestamp = v1 /\ x.key = v2 /\ x.value = v3
    BY DEF Put
  <2>f. one = Reader(t, x)
    <3> HIDE DEF val
    <3>1. c = Reader(t, val)
      BY <2>d DEF val
    <3>2. c.rest = t /\ c.val = val
      BY <3>1, AllReaders
    <3> QED BY <1>1, <2>c, <3>2
  <2> HIDE DEF x, val
  <2>g. Split(rest, AppendProtocolRecord(x), t)
    BY <2>d, <2>e, FieldFacts DEF AppendProtocolRecord
  <2>h. Len(t) + 4 <= Len(rest)
    <3> DEFINE f == Field("timestamp", "u64")
               c1 == Reader(rest, z) ** f
               c2 == c1 ** Str("key")
    <3>1. HasOk(c1) /\ HasOk(c2) /\ c = c2 ** Str("value")
      BY FieldRead, ReaderHasOk DEF c
    <3> HIDE DEF c2
    <3>2. c2.ok
      BY <2>c, <3>1, FieldRead
    <3>3. c1.ok
      <4> HIDE DEF c1
      <4> QED BY <3>1, <3>2, FieldRead DEF c2
    <3>4. PICK v, u : Undone(rest, f, v, u) /\ c1 = Reader(u, Put(z, f.name, v))
      BY <1>4, <2>a, <3>3 DEF Undoable
    <3> DEFINE w == Put(z, f.name, v)
    <3> HIDE DEF w, c1, f
    <3>5. Split(rest, U64(v), u)
      BY <3>4, FieldFacts DEF Undone, f
    <3>6. Len(rest) = 8 + Len(u) /\ u \in Text /\ Len(u) \in Nat
      <4>1. U64(v) \in Text /\ u \in Text /\ rest = U64(v) \o u
        BY <3>5 DEF Split
      <4>2. Len(U64(v)) = 8
        BY <4>1, UnsignedBytes DEF U64
      <4> QED BY <4>1, <4>2, TextConcat
    <3>7. c = Reader(u, w) ** Str("key") ** Str("value")
      BY <3>1, <3>4 DEF c2, w
    <3> DEFINE bytes(p, q) == FieldBytes(Str("key"), p) \o FieldBytes(Str("value"), q)
    <3>8. \E p, q, y : /\ c = Reader(y, Put(Put(w, "key", p), "value", q))
                       /\ Split(u, bytes(p, q), y)
      BY <2>a, <2>c, <3>6, <3>7, FieldFacts, Undo2
    <3> HIDE DEF bytes
    <3>9. PICK p, q, y : /\ c = Reader(y, Put(Put(w, "key", p), "value", q))
                         /\ Split(u, bytes(p, q), y)
      BY <3>8
    <3>10. y = t
      BY <2>d, <3>9, AllReaders
    <3> DEFINE g == bytes(p, q)
    <3>11. g \in Text /\ t \in Text /\ u = g \o t
      BY <3>9, <3>10 DEF Split
    <3> HIDE DEF g
    <3>12. Len(u) = Len(g) + Len(t) /\ Len(g) \in Nat /\ Len(t) \in Nat
      BY <3>11, TextConcat
    <3> QED BY <3>6, <3>12
  <2> QED BY <2>f, <2>g, <2>h DEF RecordRead
<1> QED BY <1>3, <1>4 DEF one

\* The bytes of the first n records of v.
BytesOfRecords(v, n) == [k \in 1 .. n |-> AppendProtocolRecord(v[k])]

\* n records have been read from s.
RecordsRead(s, v, n, t) ==
    /\ v = [k \in 1 .. n |-> v[k]] /\ Len(v) = n
    /\ Cut(s, BytesOfRecords(v, n), 0, n, t) /\ \A k \in 1 .. n : BytesOfRecords(v, n)[k] \in Text

LEMMA ListUndone ==
    ASSUME NEW s \in Text, NEW val, NEW name, NEW n \in Nat
    PROVE  LET r == ReadList(Reader(s, val), name, n, "record")
           IN  /\ HasOk(r)
               /\ r.ok => \E v, t : r = Reader(t, Put(val, name, v)) /\ RecordsRead(s, v, n, t)
<1> DEFINE r == Reader(s, val)
           last == ListTurns(r, n)
           z == <<>>
           list == ReadList(r, name, n, "record")
<1>1. r.ok /\ r.rest = s /\ r.val = val
  BY AllReaders
<1> HIDE DEF r
<1>2. Len(s) \in Nat
  BY LenProperties DEF Text
<1>3. last \in Nat /\ ListLoops(r, name, n, "record", last)
  BY <1>1, <1>2, ListDef
<1> HIDE DEF last
<1>4. PICK h :
       /\ h[0] = Reader(r.rest, z)
       /\ \A i \in 1 .. last :
             LET one == ReadItem("record", Reader(h[i - 1].rest, z))
             IN  h[i] = IF h[i - 1].ok THEN Having(one, Append(h[i - 1].val, one.val)) ELSE h[i - 1]
       /\ ReadList(r, name, n, "record")
             = IF r.ok THEN Having(h[last], Put(r.val, name, h[last].val)) ELSE r
  BY <1>3 DEF ListLoops
<1> DEFINE one(k) == ReadItem("record", Reader(h[k - 1].rest, z))
           x(k) == one(k).val
           part(i) == [k \in 1 .. i |-> x(k)]
           bytes == [k \in 1 .. last |-> AppendProtocolRecord(x(k))]
           Good(i) == /\ HasOk(h[i])
                      /\ h[i].ok => /\ h[i] = Reader(h[i].rest, part(i)) /\ h[i].rest \in Text
                                    /\ Len(h[i].rest) + 4 * i <= Len(s)
                                    /\ Cut(s, bytes, 0, i, h[i].rest)
                                    /\ \A k \in 1 .. i : bytes[k] \in Text
           T == {i \in 0 .. last : Good(i)}
<1>5. 0 \in T
  <2>a. part(0) = z
    OBVIOUS
  <2>b. h[0] = Reader(s, part(0))
    BY <1>1, <1>4, <2>a
  <2> HIDE DEF part, bytes
  <2>c. HasOk(h[0]) /\ h[0].rest = s
    BY <2>b, ReaderHasOk, AllReaders
  <2>d. Cut(s, bytes, 0, 0, s)
    BY CutNone
  <2>e. \A k \in 1 .. 0 : bytes[k] \in Text
    OBVIOUS
  <2> QED BY <1>2, <1>3, <2>b, <2>c, <2>d, <2>e
<1>6. ASSUME NEW i \in 0 .. last - 1, i \in T PROVE i + 1 \in T
  <2>a. i + 1 \in 1 .. last /\ (i + 1) - 1 = i /\ i \in Nat /\ i + 1 \in 0 .. last
    BY <1>3
  <2>b. Good(i)
    BY <1>6
  <2> DEFINE o == ReadItem("record", Reader(h[i].rest, z))
  <2>c. h[i + 1] = IF h[i].ok THEN Having(o, Append(h[i].val, o.val)) ELSE h[i]
    BY <1>4, <2>a
  <2>d. /\ HasOk(o)
        /\ h[i].rest \in Text /\ o.ok =>
              \E y, t : o = Reader(t, y) /\ RecordRead(h[i].rest, y, t)
    BY RecordUndone
  <2>e. x(i + 1) = o.val
    BY <2>a
  <2> HIDE DEF o, T
  <2>f. HasOk(h[i + 1])
    BY <2>b, <2>c, <2>d, ReaderHasOk DEF Having
  <2>g. ASSUME h[i + 1].ok
        PROVE  /\ h[i + 1] = Reader(h[i + 1].rest, part(i + 1)) /\ h[i + 1].rest \in Text
               /\ Len(h[i + 1].rest) + 4 * (i + 1) <= Len(s)
               /\ Cut(s, bytes, 0, i + 1, h[i + 1].rest)
               /\ \A k \in 1 .. i + 1 : bytes[k] \in Text
    <3>1. h[i].ok /\ o.ok
      BY <2>c, <2>g DEF Having
    <3>2. /\ h[i] = Reader(h[i].rest, part(i)) /\ h[i].rest \in Text
          /\ Len(h[i].rest) + 4 * i <= Len(s) /\ Cut(s, bytes, 0, i, h[i].rest)
          /\ \A k \in 1 .. i : bytes[k] \in Text
      BY <2>b, <3>1
    <3>3. PICK y, t : o = Reader(t, y) /\ RecordRead(h[i].rest, y, t)
      BY <2>d, <3>1, <3>2
    <3>4. o.val = y /\ o.rest = t
      BY <3>3, AllReaders
    <3>5. h[i].val = part(i)
      <4> HIDE DEF part
      <4> QED BY <3>2, AllReaders
    <3>6. h[i + 1] = Reader(t, Append(part(i), y))
      <4> HIDE DEF part
      <4> QED BY <2>c, <3>1, <3>4, <3>5 DEF Having
    <3>7. Append(part(i), y) = part(i + 1)
      <4> DEFINE S == {x(k) : k \in 1 .. i}
      <4>1. part(i) \in Seq(S) /\ Len(part(i)) = i
        <5>1. \A k \in 1 .. i : x(k) \in S
          OBVIOUS
        <5> HIDE DEF x, S
        <5> QED BY <2>a, <5>1
      <4>2. Append(part(i), y) = [k \in 1 .. i + 1 |-> IF k = i + 1 THEN y ELSE part(i)[k]]
        <5> HIDE DEF part, S
        <5> QED BY <4>1, AppendIs
      <4>3. \A k \in 1 .. i + 1 : (IF k = i + 1 THEN y ELSE part(i)[k]) = x(k)
        <5>1. x(i + 1) = y
          BY <2>e, <3>4
        <5> HIDE DEF x
        <5> QED BY <2>a, <5>1
      <4> HIDE DEF x, S
      <4> QED BY <4>2, <4>3
    <3> HIDE DEF part
    <3>8. h[i + 1] = Reader(t, part(i + 1)) /\ h[i + 1].rest = t
      BY <3>6, <3>7, AllReaders
    <3>9. bytes[i + 1] = AppendProtocolRecord(y)
      <4>1. x(i + 1) = y
        BY <2>e, <3>4
      <4> HIDE DEF x
      <4> QED BY <2>a, <4>1
    <3> HIDE DEF bytes
    <3>10. t \in Text /\ h[i].rest = bytes[i + 1] \o t /\ Len(t) + 4 <= Len(h[i].rest)
      BY <3>3, <3>9 DEF RecordRead, Split
    <3>11. Cut(s, bytes, 0, i + 1, t)
      <4> DEFINE w == h[i].rest
                 zero == 0
      <4>1. /\ zero \in Nat /\ i \in Nat /\ zero <= i /\ Cut(s, bytes, zero, i, w)
            /\ t \in Text /\ w = bytes[i + 1] \o t
        BY <2>a, <3>2, <3>10
      <4> HIDE DEF w, zero
      <4>2. Cut(s, bytes, zero, i + 1, t)
        BY <4>1, CutNext
      <4> QED BY <4>2 DEF zero
    <3>12. Len(t) + 4 * (i + 1) <= Len(s)
      <4> DEFINE a == Len(t)
                 b == Len(h[i].rest)
      <4>1. a \in Nat /\ b \in Nat
        BY <3>2, <3>10, LenProperties DEF Text
      <4>2. a + 4 <= b /\ b + 4 * i <= Len(s)
        BY <3>2, <3>10
      <4> HIDE DEF a, b
      <4>3. a + 4 * (i + 1) <= Len(s)
        BY <1>2, <2>a, <4>1, <4>2
      <4> QED BY <4>3 DEF a
    <3>13. \A k \in 1 .. i + 1 : bytes[k] \in Text
      <4>1. bytes[i + 1] \in Text
        BY <3>3, <3>9 DEF RecordRead, Split
      <4>2. \A k \in 1 .. i : bytes[k] \in Text
        BY <3>2
      <4> QED BY <2>a, <4>1, <4>2
    <3> QED BY <3>8, <3>10, <3>11, <3>12, <3>13
  <2> QED BY <2>a, <2>f, <2>g DEF T
<1>7. Good(last)
  <2>a. last \in 0 .. last
    BY <1>3
  <2>b. last \in T
    <3> HIDE DEF T
    <3> QED BY <1>3, <1>5, <1>6, <2>a, InductionUpTo
  <2> QED BY <2>b
<1>8. list = Having(h[last], Put(val, name, h[last].val))
  BY <1>1, <1>4
<1>9. HasOk(list)
  <2> HIDE DEF list
  <2> QED BY <1>7, <1>8, ReaderHasOk DEF Having
<1>10. ASSUME list.ok
       PROVE  \E v, t : list = Reader(t, Put(val, name, v)) /\ RecordsRead(s, v, n, t)
  <2> DEFINE t == h[last].rest
             v == part(last)
  <2> HIDE DEF list
  <2>a. h[last].ok
    BY <1>8, <1>10 DEF Having
  <2>b. /\ h[last] = Reader(t, v) /\ t \in Text
        /\ Len(t) + 4 * last <= Len(s) /\ Cut(s, bytes, 0, last, t)
        /\ \A k \in 1 .. last : bytes[k] \in Text
    BY <1>7, <2>a
  <2>c. h[last].val = v
    <3> HIDE DEF part, v, t
    <3> QED BY <2>b, AllReaders
  <2>d. list = Reader(t, Put(val, name, v))
    <3> HIDE DEF part, v
    <3> QED BY <1>8, <2>a, <2>c DEF Having
  <2>e. last = n
    <3> DEFINE a == Len(t)
               b == Len(s)
    <3>1. a \in Nat /\ b \in Nat /\ a + 4 * last <= b
      <4> HIDE DEF v, t, bytes
      <4>1. a \in Nat
        BY <2>b, LenProperties DEF Text
      <4> QED BY <1>2, <2>b, <4>1
    <3>2. last = IF n > b \div 4 THEN b \div 4 + 1 ELSE n
      BY <1>1 DEF last, ListTurns
    <3> HIDE DEF a, b
    <3>3. b \div 4 \in Nat /\ b < 4 * (b \div 4) + 4
      BY <3>1, Division
    <3> DEFINE d == b \div 4
    <3>4. d \in Nat /\ b < 4 * d + 4 /\ last = IF n > d THEN d + 1 ELSE n
      BY <3>2, <3>3
    <3> HIDE DEF d
    <3> QED BY <1>3, <3>1, <3>4
  <2>f. RecordsRead(s, v, n, t)
    <3>1. v = [k \in 1 .. n |-> v[k]] /\ Len(v) = n
      <4> HIDE DEF x
      <4> QED BY <1>3, <2>e
    <3>2. BytesOfRecords(v, n) = bytes
      <4> HIDE DEF x
      <4> QED BY <2>e DEF BytesOfRecords
    <3> HIDE DEF v, bytes
    <3> QED BY <2>b, <2>e, <3>1, <3>2 DEF RecordsRead
  <2> HIDE DEF v, t
  <2> QED BY <2>d, <2>f
<1> QED BY <1>9, <1>10 DEF r

\* The frames of a stream and what follows them are the stream.
LEMMA CutUnique ==
    ASSUME NEW s, NEW u, NEW f, NEW n \in Nat, NEW rest, Cut(s, f, 0, n, rest), Cut(u, f, 0, n, rest)
    PROVE  s = u
<1>1. PICK a \in [0 .. n -> Text] :
         a[0] = s /\ a[n] = rest /\ \A k \in 0 + 1 .. n : a[k - 1] = f[k] \o a[k]
  BY DEF Cut
<1>2. PICK b \in [0 .. n -> Text] :
         b[0] = u /\ b[n] = rest /\ \A k \in 0 + 1 .. n : b[k - 1] = f[k] \o b[k]
  BY DEF Cut
<1> DEFINE S == {i \in 0 .. n : a[n - i] = b[n - i]}
<1>3. 0 \in S
  BY <1>1, <1>2
<1>4. ASSUME NEW i \in 0 .. n - 1, i \in S PROVE i + 1 \in S
  <2>a. n - i \in 0 + 1 .. n /\ (n - i) - 1 = n - (i + 1) /\ i + 1 \in 0 .. n
    OBVIOUS
  <2>b. a[n - i] = b[n - i]
    BY <1>4
  <2>c. a[(n - i) - 1] = b[(n - i) - 1]
    BY <1>1, <1>2, <2>a, <2>b
  <2> QED BY <2>a, <2>c
<1>5. n \in S
  <2>a. n \in 0 .. n
    OBVIOUS
  <2> HIDE DEF S
  <2> QED BY <1>3, <1>4, <2>a, InductionUpTo
<1> QED BY <1>1, <1>2, <1>5

LEMMA HavingOk ==
    ASSUME NEW r, HasOk(r), NEW val
    PROVE  HasOk(Having(r, val)) /\ (Having(r, val).ok => r.ok)
BY ReaderHasOk DEF Having

\* As many records as the field "count" says.
LEMMA CountedUndone ==
    ASSUME NEW s \in Text, NEW val, NEW n \in Nat, "count" \notin DOMAIN val
    PROVE  LET r == ReadCounted(Reader(s, Put(val, "count", n)), "records", "record")
           IN  /\ HasOk(r)
               /\ r.ok => \E v, t : r = Reader(t, Put(val, "records", v)) /\ RecordsRead(s, v, n, t)
<1> DEFINE all == Put(val, "count", n)
           head == Reader(s, all)
           list == ReadList(Reader(s, all), "records", n, "record")
           r == ReadCounted(head, "records", "record")
<1>1. all["count"] = n
  BY DEF Put
<1>2. head.val = all
  BY AllReaders
<1>3. r = Without(list, {"count"})
  <2> HIDE DEF head, all
  <2>a. r = Without(ReadList(head, "records", head.val["count"], "record"), {"count"})
    BY DEF ReadCounted
  <2> QED BY <1>1, <1>2, <2>a DEF head
<1>4. HasOk(list) /\ (list.ok => \E v, t : list = Reader(t, Put(all, "records", v)) /\ RecordsRead(s, v, n, t))
  <2> HIDE DEF all
  <2> QED BY ListUndone
<1> HIDE DEF list, r
<1>5. HasOk(r) /\ (r.ok => list.ok)
  BY <1>3, <1>4, HavingOk DEF Without
<1>6. ASSUME r.ok
      PROVE  \E v, t : r = Reader(t, Put(val, "records", v)) /\ RecordsRead(s, v, n, t)
  <2>a. PICK v, t : list = Reader(t, Put(all, "records", v)) /\ RecordsRead(s, v, n, t)
    BY <1>4, <1>5, <1>6
  <2>b. Dropped(Put(all, "records", v), {"count"}) = Put(val, "records", v)
    BY DEF Dropped, Put
  <2> HIDE DEF all
  <2>c. r = Reader(t, Put(val, "records", v))
    BY <1>3, <2>a, <2>b, WithoutReader
  <2> QED BY <2>a, <2>c
<1> QED BY <1>5, <1>6 DEF r

LEMMA ProduceUndone ==
    ASSUME NEW b \in Text, DecodeProduceBody(b).ok
    PROVE  EncodeProduceBody(With(DecodeProduceBody(b), "type", "Produce").val) \in {Ok(b), Err}
<1> DEFINE z == <<>>
           c == Reader(b, z) ** Str("topic") ** Partition ** Field("count", "u32")
           head == IF c.ok /\ ~(c.val["count"] # 0) THEN Fails(c) ELSE c
           all == ReadCounted(head, "records", "record")
<1>1. Undoable(Str("topic")) /\ Undoable(Partition) /\ Undoable(Field("count", "u32"))
  BY UndoPartition, UndoText, UndoUnsigned
<1>2. Field("count", "u32").kind = "u32"
  BY DEF Field
<1>3. DecodeProduceBody(b) = IF all.ok /\ ~(all.rest = <<>>) THEN Fails(all) ELSE all
  BY DEF DecodeProduceBody, BodyReader, Require, consumed
<1> HIDE DEF z
<1>4. HasOk(c) /\ (c.ok => \E v1, v2, v3, t :
         /\ c = Reader(t, Put(Put(Put(z, "topic", v1), "partition_id", v2), "count", v3))
         /\ Split(b, FieldBytes(Str("topic"), v1) \o FieldBytes(Partition, v2) \o FieldBytes(Field("count", "u32"), v3), t)
         /\ v3 \in Unsigned(4))
  BY <1>1, <1>2, FieldFacts, Undo3
<1> HIDE DEF c
<1>5. HasOk(head) /\ (head.ok => head = c /\ c.ok)
  <2>a. HasOk(c)
    BY <1>4
  <2>b. HasOk(Fails(c)) /\ ~Fails(c).ok
    BY <2>a, Failing, Zenon
  <2> QED BY <2>a, <2>b
<1> HIDE DEF head
<1>6. ~head.ok => all = head
  BY DEF ReadCounted, ReadList, Without, Having
<1> HIDE DEF all
<1>7. head.ok
  <2>a. SUFFICES ASSUME ~head.ok PROVE FALSE
    OBVIOUS
  <2> QED BY <1>3, <1>5, <1>6, <2>a
<1>8. PICK v1, v2, v3, t :
         /\ c = Reader(t, Put(Put(Put(z, "topic", v1), "partition_id", v2), "count", v3))
         /\ Split(b, FieldBytes(Str("topic"), v1) \o FieldBytes(Partition, v2) \o FieldBytes(Field("count", "u32"), v3), t)
         /\ v3 \in Unsigned(4)
  BY <1>4, <1>5, <1>7
<1> DEFINE val == Put(Put(z, "topic", v1), "partition_id", v2)
           a == AppendString(v1) \o AppendPartitionId(v2) \o U32(v3)
<1>9. "count" \notin DOMAIN val
  BY DEF Put, z
<1>10. v3 \in Nat /\ Split(b, a, t) /\ t \in Text
  <2>a. v3 \in Nat
    BY <1>8, UnsignedValue
  <2>b. Split(b, a, t)
    BY <1>8, FieldFacts
  <2> HIDE DEF a
  <2> QED BY <2>a, <2>b DEF Split
<1> HIDE DEF a
<1>11. HasOk(all) /\ (all.ok => \E v, u : all = Reader(u, Put(val, "records", v)) /\ RecordsRead(t, v, v3, u))
  <2> HIDE DEF val
  <2>a. head = Reader(t, Put(val, "count", v3))
    BY <1>5, <1>7, <1>8 DEF val
  <2> QED BY <1>9, <1>10, <2>a, CountedUndone DEF all
<1>12. DecodeProduceBody(b) = all /\ all.ok /\ all.rest = <<>>
  BY <1>3, <1>11, Failing
<1>13. PICK v, u : all = Reader(u, Put(val, "records", v)) /\ RecordsRead(t, v, v3, u)
  BY <1>11, <1>12
<1> DEFINE kept == Put(val, "records", v)
           q == Put(kept, "type", "Produce")
<1>14. u = <<>>
  <2> HIDE DEF val
  <2> QED BY <1>12, <1>13, AllReaders
<1>15. q.topic = v1 /\ q.partition_id = v2 /\ q.records = v
  BY DEF Put, z
<1>16. With(DecodeProduceBody(b), "type", "Produce").val = q
  <2> HIDE DEF kept
  <2>a. DecodeProduceBody(b) = Reader(u, kept)
    BY <1>12, <1>13 DEF kept
  <2> QED BY <2>a, Typing
<1> HIDE DEF q, kept, val
<1> DEFINE items == [i \in DOMAIN v |-> AppendProtocolRecord(v[i])]
<1>17. Len(v) = v3 /\ DOMAIN v = 1 .. v3 /\ items = BytesOfRecords(v, v3)
  <2>a. v = [k \in 1 .. v3 |-> v[k]] /\ Len(v) = v3
    BY <1>13 DEF RecordsRead
  <2>b. DOMAIN v = 1 .. v3
    BY <2>a
  <2> QED BY <2>a, <2>b DEF BytesOfRecords
<1>18. Cut(t, items, 0, v3, <<>>)
  BY <1>13, <1>14, <1>17 DEF RecordsRead
<1>19. t = FlattenSeq(items)
  <2>a. items \in Seq(Text) /\ Len(items) = v3
    <3>1. items = [k \in 1 .. v3 |-> items[k]]
      BY <1>17
    <3>2. \A k \in 1 .. v3 : items[k] \in Text
      BY <1>13, <1>17 DEF RecordsRead
    <3> HIDE DEF items
    <3> QED BY <1>10, <3>1, <3>2
  <2>b. Cut(FlattenSeq(items), items, 0, v3, <<>>)
    BY <2>a, FlattenCut
  <2> HIDE DEF items
  <2> QED BY <1>10, <1>18, <2>b, CutUnique
<1> HIDE DEF items
<1>20. b = AppendString(v1) \o AppendPartitionId(v2) \o U32(Len(v)) \o Each(v, AppendProtocolRecord)
  BY <1>10, <1>17, <1>19 DEF Each, Split, items, a
<1>21. EncodeProduceBody(q) \in {Ok(b), Err}
  BY <1>15, <1>20 DEF EncodeProduceBody, When
<1> QED BY <1>16, <1>21

\* What a body decoder has accepted is what the encoder writes for it.
LEMMA RequestBodyUndone ==
    ASSUME NEW b \in Text, NEW q, q.api_key \in Range(ApiKeys),
           DecodeRequestBody(q.api_key, b).ok, q.body = DecodeRequestBody(q.api_key, b).value
    PROVE  EncodeRequestBody(q) \in {Ok(b), Err}
<1> DEFINE k == q.api_key
<1>1. SUFFICES ASSUME q.body.type = k PROVE EncodeRequestBody(q) \in {Ok(b), Err}
  BY DEF EncodeRequestBody
<1>2. \A key, r : CompleteBody(key, r).ok => r.ok /\ CompleteBody(key, r).value = With(r, "type", key).val
  BY DEF CompleteBody, When, Ok, Err
<1>3. k \in {"Produce", "Fetch", "Metadata", "CreateTopic", "CommitOffset", "FetchCommittedOffset",
             "JoinGroup", "SyncGroup", "Heartbeat", "LeaveGroup", "Nack"}
  <2> HIDE DEF k
  <2>a. k \in Range(ApiKeys)
    BY DEF k
  <2>b. PICK i \in DOMAIN ApiKeys : k = ApiKeys[i]
    BY <2>a DEF Range
  <2> QED BY <2>b DEF ApiKeys
<1>4. CASE k = "Produce"
  <2>a. EncodeRequestBody(q) = EncodeProduceBody(q.body)
    BY <1>1, <1>4 DEF EncodeRequestBody
  <2>b. DecodeRequestBody(k, b) = CompleteBody(k, DecodeProduceBody(b))
    BY <1>4 DEF DecodeRequestBody
  <2>c. DecodeProduceBody(b).ok /\ q.body = With(DecodeProduceBody(b), "type", "Produce").val
    BY <1>2, <1>4, <2>b
  <2> QED BY <2>a, <2>c, ProduceUndone
<1>5. CASE k = "Fetch"
  <2>a. EncodeRequestBody(q) = EncodeFetchBody(q.body)
    BY <1>1, <1>5 DEF EncodeRequestBody
  <2>b. DecodeRequestBody(k, b) = CompleteBody(k, DecodeFetchBody(b))
    BY <1>5 DEF DecodeRequestBody
  <2>c. DecodeFetchBody(b).ok /\ q.body = With(DecodeFetchBody(b), "type", "Fetch").val
    BY <1>2, <1>5, <2>b
  <2> QED BY <2>a, <2>c, FetchUndone
<1>6. CASE k = "Metadata"
  <2>a. EncodeRequestBody(q) = EncodeMetadataBody(q.body)
    BY <1>1, <1>6 DEF EncodeRequestBody
  <2>b. DecodeRequestBody(k, b) = CompleteBody(k, DecodeMetadataBody(b))
    BY <1>6 DEF DecodeRequestBody
  <2>c. DecodeMetadataBody(b).ok /\ q.body = With(DecodeMetadataBody(b), "type", "Metadata").val
    BY <1>2, <1>6, <2>b
  <2> QED BY <2>a, <2>c, MetadataUndone
<1>7. CASE k = "CreateTopic"
  <2>a. EncodeRequestBody(q) = EncodeCreateTopicBody(q.body)
    BY <1>1, <1>7 DEF EncodeRequestBody
  <2>b. DecodeRequestBody(k, b) = CompleteBody(k, DecodeCreateTopicBody(b))
    BY <1>7 DEF DecodeRequestBody
  <2>c. DecodeCreateTopicBody(b).ok /\ q.body = With(DecodeCreateTopicBody(b), "type", "CreateTopic").val
    BY <1>2, <1>7, <2>b
  <2> QED BY <2>a, <2>c, CreateTopicUndone
<1>8. CASE k = "CommitOffset"
  <2>a. EncodeRequestBody(q) = EncodeCommitOffsetBody(q.body)
    BY <1>1, <1>8 DEF EncodeRequestBody
  <2>b. DecodeRequestBody(k, b) = CompleteBody(k, DecodeCommitOffsetBody(b))
    BY <1>8 DEF DecodeRequestBody
  <2>c. DecodeCommitOffsetBody(b).ok /\ q.body = With(DecodeCommitOffsetBody(b), "type", "CommitOffset").val
    BY <1>2, <1>8, <2>b
  <2> QED BY <2>a, <2>c, CommitOffsetUndone
<1>9. CASE k = "FetchCommittedOffset"
  <2>a. EncodeRequestBody(q) = EncodeFetchCommittedOffsetBody(q.body)
    BY <1>1, <1>9 DEF EncodeRequestBody
  <2>b. DecodeRequestBody(k, b) = CompleteBody(k, DecodeFetchCommittedOffsetBody(b))
    BY <1>9 DEF DecodeRequestBody
  <2>c. DecodeFetchCommittedOffsetBody(b).ok /\ q.body = With(DecodeFetchCommittedOffsetBody(b), "type", "FetchCommittedOffset").val
    BY <1>2, <1>9, <2>b
  <2> QED BY <2>a, <2>c, FetchCommittedOffsetUndone
<1>10. CASE k = "JoinGroup"
  <2>a. EncodeRequestBody(q) = EncodeJoinGroupBody(q.body)
    BY <1>1, <1>10 DEF EncodeRequestBody
  <2>b. DecodeRequestBody(k, b) = CompleteBody(k, DecodeJoinGroupBody(b))
    BY <1>10 DEF DecodeRequestBody
  <2>c. DecodeJoinGroupBody(b).ok /\ q.body = With(DecodeJoinGroupBody(b), "type", "JoinGroup").val
    BY <1>2, <1>10, <2>b
  <2> QED BY <2>a, <2>c, JoinGroupUndone
<1>11. CASE k = "SyncGroup"
  <2>a. EncodeRequestBody(q) = EncodeSyncGroupBody(q.body)
    BY <1>1, <1>11 DEF EncodeRequestBody
  <2>b. DecodeRequestBody(k, b) = CompleteBody(k, DecodeSyncGroupBody(b))
    BY <1>11 DEF DecodeRequestBody
  <2>c. DecodeSyncGroupBody(b).ok /\ q.body = With(DecodeSyncGroupBody(b), "type", "SyncGroup").val
    BY <1>2, <1>11, <2>b
  <2> QED BY <2>a, <2>c, SyncGroupUndone
<1>12. CASE k = "Heartbeat"
  <2>a. EncodeRequestBody(q) = EncodeHeartbeatBody(q.body)
    BY <1>1, <1>12 DEF EncodeRequestBody
  <2>b. DecodeRequestBody(k, b) = CompleteBody(k, DecodeHeartbeatBody(b))
    BY <1>12 DEF DecodeRequestBody
  <2>c. DecodeHeartbeatBody(b).ok /\ q.body = With(DecodeHeartbeatBody(b), "type", "Heartbeat").val
    BY <1>2, <1>12, <2>b
  <2> QED BY <2>a, <2>c, HeartbeatUndone
<1>13. CASE k = "LeaveGroup"
  <2>a. EncodeRequestBody(q) = EncodeLeaveGroupBody(q.body)
    BY <1>1, <1>13 DEF EncodeRequestBody
  <2>b. DecodeRequestBody(k, b) = CompleteBody(k, DecodeLeaveGroupBody(b))
    BY <1>13 DEF DecodeRequestBody
  <2>c. DecodeLeaveGroupBody(b).ok /\ q.body = With(DecodeLeaveGroupBody(b), "type", "LeaveGroup").val
    BY <1>2, <1>13, <2>b
  <2> QED BY <2>a, <2>c, LeaveGroupUndone
<1>14. CASE k = "Nack"
  <2>a. EncodeRequestBody(q) = EncodeNackBody(q.body)
    BY <1>1, <1>14 DEF EncodeRequestBody
  <2>b. DecodeRequestBody(k, b) = CompleteBody(k, DecodeNackBody(b))
    BY <1>14 DEF DecodeRequestBody
  <2>c. DecodeNackBody(b).ok /\ q.body = With(DecodeNackBody(b), "type", "Nack").val
    BY <1>2, <1>14, <2>b
  <2> QED BY <2>a, <2>c, NackUndone
<1> QED BY <1>3, <1>4, <1>5, <1>6, <1>7, <1>8, <1>9, <1>10, <1>11, <1>12, <1>13, <1>14

----------------------------------------
(* A frame that the decoder accepts *)

LEMMA Joined ==
    ASSUME NEW s \in Text, NEW n \in 1 .. Len(s), NEW m \in 1 .. Len(s), n < m
    PROVE  /\ SubSeq(s, 1, n) \o SubSeq(s, n + 1, m) = SubSeq(s, 1, m)
           /\ SubSeq(s, n + 1, m) \in Text /\ Len(SubSeq(s, n + 1, m)) = m - n
<1>1. SubSeq(s, n + 1, m) \in Text /\ Len(SubSeq(s, n + 1, m)) = m - n
  BY DEF Text
<1>2. SubSeq(s, 1, n) \o SubSeq(s, n + 1, m) = SubSeq(s, 1, m)
  <2>a. Len(s) \in Nat
    BY LenProperties DEF Text
  <2>b. 1 \in 1 .. Len(s) + 1 /\ n \in 1 - 1 .. Len(s) /\ m \in n .. Len(s)
    BY <2>a
  <2> QED BY <2>b, ConcatAdjacentSubSeq DEF Text
<1> QED BY <1>1, <1>2

LEMMA ApiKeyBack ==
    ASSUME NEW n \in DOMAIN ApiKeys
    PROVE  ApiKeys[n] \in Range(ApiKeys) /\ ApiKeyValue(ApiKeys[n]) = n
<1>1. ApiKeys[n] \in Range(ApiKeys)
  BY DEF Range
<1>2. ApiKeyValue(ApiKeys[n]) \in DOMAIN ApiKeys /\ ApiKeys[ApiKeyValue(ApiKeys[n])] = ApiKeys[n]
  BY DEF ApiKeyValue
<1>3. \A i, j \in DOMAIN ApiKeys : ApiKeys[i] = ApiKeys[j] => i = j
  BY DEF ApiKeys
<1> QED BY <1>1, <1>2, <1>3

\* A field of the header, from byte n + 1 to byte m.
LEMMA HeaderField ==
    ASSUME NEW g \in Text, NEW n \in 1 .. Len(g), NEW m \in 1 .. Len(g), NEW w \in 1 .. 8, m = n + w
    PROVE  LET u == ReadBigEndian(SubSeq(g, n + 1, m))
           IN  u \in Unsigned(w) /\ SubSeq(g, 1, n) \o AppendBigEndian(u, w) = SubSeq(g, 1, m)
<1> DEFINE p == SubSeq(g, n + 1, m)
<1>1. n < m /\ m - n = w
  OBVIOUS
<1>2. p \in Text /\ Len(p) = w /\ SubSeq(g, 1, n) \o p = SubSeq(g, 1, m)
  BY <1>1, Joined
<1> HIDE DEF p
<1>3. ReadBigEndian(p) \in Unsigned(w) /\ AppendBigEndian(ReadBigEndian(p), w) = p
  BY <1>2, WritesRead
<1> QED BY <1>2, <1>3 DEF p

LEMMA FrameUndone ==
    ASSUME NEW g \in Text, HeaderOk(g)
    PROVE  /\ BodyOf(g) \in Text
           /\ AppendFrameHeader(ApiKeys[ApiKeyOf(g)], VersionOf(g), RequestIdOf(g), BodyOf(g)) = Ok(g)
<1> DEFINE n == Len(g)
           p == SubSeq(g, 1, 4)
           body == BodyOf(g)
           k == ApiKeyOf(g)
           v == VersionOf(g)
           id == RequestIdOf(g)
<1>1. n \in Nat /\ n >= 16 /\ n <= kMaxFrameBytes /\ kMaxFrameBytes \in Nat /\ PeekFrameLength(g) = n
  <2>a. n \in Nat
    BY LenProperties DEF Text
  <2>b. kMaxFrameBytes \in Nat
    BY CodecAssumption, PowerType
  <2>c. PeekFrameLength(g) = n /\ n \in 16 .. kMaxFrameBytes
    BY DEF HeaderOk, ValidateFrame, kFrameHeaderBytes
  <2> QED BY <2>a, <2>b, <2>c
<1>2. 4 \in 1 .. n /\ 6 \in 1 .. n /\ 8 \in 1 .. n /\ 16 \in 1 .. n /\ 4 \in 0 .. n /\ 16 \in 0 .. n
  BY <1>1
<1>3. U32(n) = p
  <2>a. p \in Text /\ Len(p) = 4
    BY <1>2, Cutting DEF Text
  <2>b. AppendBigEndian(ReadBigEndian(p), 4) = p
    <3>1. 4 \in 1 .. 8
      OBVIOUS
    <3> HIDE DEF p
    <3> QED BY <2>a, <3>1, WritesRead
  <2>c. ReadBigEndian(p) = n
    BY <1>1 DEF PeekFrameLength
  <2> QED BY <2>b, <2>c DEF U32
<1>4. p \o U16(k) = SubSeq(g, 1, 6)
  <2>a. SubSeq(g, 1, 4) \o AppendBigEndian(ReadBigEndian(SubSeq(g, 4 + 1, 6)), 2) = SubSeq(g, 1, 6)
    <3> DEFINE i == 4
               j == 6
               w == 2
    <3>1. i \in 1 .. Len(g) /\ j \in 1 .. Len(g) /\ w \in 1 .. 8 /\ j = i + w
      BY <1>2
    <3> HIDE DEF i, j, w
    <3>2. SubSeq(g, 1, i) \o AppendBigEndian(ReadBigEndian(SubSeq(g, i + 1, j)), w) = SubSeq(g, 1, j)
      BY <3>1, HeaderField
    <3> QED BY <3>2 DEF i, j, w
  <2> QED BY <2>a DEF ApiKeyOf, U16
<1>5. SubSeq(g, 1, 6) \o U16(v) = SubSeq(g, 1, 8)
  <2>a. SubSeq(g, 1, 6) \o AppendBigEndian(ReadBigEndian(SubSeq(g, 6 + 1, 8)), 2) = SubSeq(g, 1, 8)
    <3> DEFINE i == 6
               j == 8
               w == 2
    <3>1. i \in 1 .. Len(g) /\ j \in 1 .. Len(g) /\ w \in 1 .. 8 /\ j = i + w
      BY <1>2
    <3> HIDE DEF i, j, w
    <3>2. SubSeq(g, 1, i) \o AppendBigEndian(ReadBigEndian(SubSeq(g, i + 1, j)), w) = SubSeq(g, 1, j)
      BY <3>1, HeaderField
    <3> QED BY <3>2 DEF i, j, w
  <2> QED BY <2>a DEF VersionOf, U16
<1>6. SubSeq(g, 1, 8) \o U64(id) = SubSeq(g, 1, 16)
  <2>a. SubSeq(g, 1, 8) \o AppendBigEndian(ReadBigEndian(SubSeq(g, 8 + 1, 16)), 8) = SubSeq(g, 1, 16)
    <3> DEFINE i == 8
               j == 16
               w == 8
    <3>1. i \in 1 .. Len(g) /\ j \in 1 .. Len(g) /\ w \in 1 .. 8 /\ j = i + w
      BY <1>2
    <3> HIDE DEF i, j, w
    <3>2. SubSeq(g, 1, i) \o AppendBigEndian(ReadBigEndian(SubSeq(g, i + 1, j)), w) = SubSeq(g, 1, j)
      BY <3>1, HeaderField
    <3> QED BY <3>2 DEF i, j, w
  <2> QED BY <2>a DEF RequestIdOf, U64
<1>7. body \in Text /\ Len(body) = n - 16 /\ SubSeq(g, 1, 16) \o body = g
  <2>a. /\ SubSeq(g, 16 + 1, Len(g)) \in Text /\ Len(SubSeq(g, 16 + 1, Len(g))) = Len(g) - 16
        /\ SubSeq(g, 1, 16) \o SubSeq(g, 16 + 1, Len(g)) = g
    BY <1>2, Cutting DEF Text
  <2> QED BY <2>a DEF BodyOf, kFrameHeaderBytes
<1>8. k \in DOMAIN ApiKeys
  BY DEF HeaderOk, ParseApiKey
<1> HIDE DEF n, p, body, k, v, id
<1>9. kFrameHeaderBytes + Len(body) = n /\ Len(body) <= kMaxFrameBytes - kFrameHeaderBytes
  BY <1>1, <1>7 DEF kFrameHeaderBytes
<1>10. Frame(k, v, id, body) = g
  <2>a. Frame(k, v, id, body) = (((U32(n) \o U16(k)) \o U16(v)) \o U64(id)) \o body
    BY <1>9 DEF Frame
  <2> QED BY <1>3, <1>4, <1>5, <1>6, <1>7, <2>a
<1>11. ApiKeyValue(ApiKeys[k]) = k
  BY <1>8, ApiKeyBack
<1>12. AppendFrameHeader(ApiKeys[k], v, id, body) = Ok(g)
  BY <1>9, <1>10, <1>11 DEF AppendFrameHeader, When
<1> QED BY <1>7, <1>12 DEF body, k, v, id

\* A request has one encoding: bytes that DecodeRequest accepts are those that
\* EncodeRequest gives the request, unless it refuses to send it.
THEOREM RequestCanonical ==
    ASSUME NEW g \in Text, DecodeRequest(g).ok
    PROVE  EncodeRequest(DecodeRequest(g).value) \in {Ok(g), Err}
<1> DEFINE k == ApiKeys[ApiKeyOf(g)]
           v == VersionOf(g)
           id == RequestIdOf(g)
           b == BodyOf(g)
           d == DecodeRequestBody(k, b)
           q == [api_key |-> k, version |-> v, request_id |-> id, body |-> d.value]
<1>1. HeaderOk(g)
  BY DEF DecodeRequest, Err
<1>2. d.ok /\ DecodeRequest(g) = Ok(q)
  BY <1>1 DEF DecodeRequest, Then, Err
<1>3. SupportedProtocolVersion(v) /\ k \in Range(ApiKeys)
  BY <1>1, ApiKeyBack DEF HeaderOk, ParseApiKey
<1>4. b \in Text /\ AppendFrameHeader(k, v, id, b) = Ok(g)
  BY <1>1, FrameUndone
<1> HIDE DEF k, v, id, b
<1>5. q.api_key = k /\ q.version = v /\ q.request_id = id /\ q.body = d.value
  OBVIOUS
<1> HIDE DEF q
<1>6. EncodeRequestBody(q) \in {Ok(b), Err}
  BY <1>2, <1>3, <1>4, <1>5, RequestBodyUndone
<1>7. EncodeRequest(q) = IF EncodeRequestBody(q).ok
                         THEN AppendFrameHeader(k, v, id, EncodeRequestBody(q).value) ELSE Err
  BY <1>3, <1>5 DEF EncodeRequest, Then
<1>8. EncodeRequest(q) \in {Ok(g), Err}
  <2>a. CASE EncodeRequestBody(q) = Ok(b)
    BY <1>4, <1>7, <2>a, Results
  <2>b. CASE EncodeRequestBody(q) = Err
    BY <1>7, <2>b, Results
  <2> QED BY <1>6, <2>a, <2>b
<1>9. DecodeRequest(g).value = q
  BY <1>2, Results
<1> QED BY <1>8, <1>9

\* Of two beginnings of the same bytes one is a frame: the other decodes only if it
\* is as long.
LEMMA SameLength ==
    ASSUME NEW s, NEW a, NEW b, NEW f, NEW d, Split(s, a, b), Split(s, f, d), WellDelimited(f),
           DecodeRequest(a).ok
    PROVE  Len(a) = Len(f)
<1>1. ValidateFrame(a)
  BY DEF DecodeRequest, Err, HeaderOk
<1>2. a \in Text /\ Len(a) \in Nat /\ f \in Text /\ Len(f) \in Nat
  BY LenProperties DEF Split, Text
<1>3. Len(a) >= 16 /\ PeekFrameLength(a) = Len(a)
  BY <1>1 DEF ValidateFrame, kFrameHeaderBytes
<1>4. Len(f) >= 16 /\ PeekFrameLength(f) = Len(f)
  <2>a. kMaxFrameBytes \in Nat
    BY CodecAssumption, PowerType
  <2> QED BY <1>2, <2>a DEF WellDelimited, kFrameHeaderBytes
<1>5. 4 \in 0 .. Len(a) /\ 4 <= Len(f)
  BY <1>2, <1>3, <1>4
<1>6. SubSeq(a, 1, 4) = SubSeq(f, 1, 4)
  BY <1>5, SamePrefix
<1> QED BY <1>3, <1>4, <1>6 DEF PeekFrameLength

LEMMA WholeSplit == ASSUME NEW s \in Text PROVE Split(s, s, <<>>)
BY TextEmpty, ConcatEmptySeq DEF Split, Text

LEMMA FrameDelimits ==
    ASSUME NEW f, WellDelimited(f)
    PROVE  SelfDelimiting(f)
<1>1. f \in Text /\ Len(f) \in Nat
  BY LenProperties DEF WellDelimited, Text
<1>2. ASSUME NEW n \in 0 .. Len(f) - 1 PROVE ~DecodeRequest(SubSeq(f, 1, n)).ok
  <2> DEFINE a == SubSeq(f, 1, n)
             b == SubSeq(f, n + 1, Len(f))
  <2>a. n \in 0 .. Len(f) /\ n # Len(f)
    BY <1>1
  <2>b. Len(a) = n /\ Split(f, a, b)
    BY <1>1, <2>a, Cutting DEF Split, Text
  <2> HIDE DEF a, b
  <2>c. Split(f, f, <<>>)
    BY <1>1, WholeSplit
  <2>d. ~DecodeRequest(a).ok
    BY <2>a, <2>b, <2>c, SameLength
  <2> QED BY <2>d DEF a
<1>3. ~DecodeRequest(Append(f, 0)).ok
  <2> DEFINE a == Append(f, 0)
             b == <<0>>
  <2>a. b \in Text /\ Len(b) = 1
    BY RadixType DEF Text, Byte
  <2>b. a = f \o b
    BY <1>1, AppendIsConcat, RadixType DEF Text, Byte
  <2> HIDE DEF a, b
  <2>c. Split(a, f, b) /\ Len(a) = Len(f) + 1 /\ a \in Text
    BY <1>1, <2>a, <2>b, TextConcat DEF Split
  <2>d. Split(a, a, <<>>)
    BY <2>c, WholeSplit
  <2>e. Len(a) # Len(f)
    BY <1>1, <2>c
  <2>f. ~DecodeRequest(a).ok
    BY <2>c, <2>d, <2>e, SameLength
  <2> QED BY <2>f DEF a
<1>4. ASSUME NEW g \in Damaged(f), DecodeRequest(g).ok
      PROVE  EncodeRequest(DecodeRequest(g).value) \in {Ok(g), Err}
  <2>a. g \in Text
    <3>1. PICK i \in DOMAIN f, x \in 0 .. Radix - 1 : g = [f EXCEPT ![i] = x]
      BY DEF Damaged
    <3>2. x \in Byte
      BY DEF Byte
    <3>3. f \in Seq(Byte)
      BY <1>1 DEF Text
    <3>4. [f EXCEPT ![i] = x] \in Seq(Byte)
      BY <3>2, <3>3
    <3> QED BY <3>1, <3>4 DEF Text
  <2> QED BY <1>4, <2>a, RequestCanonical
<1> QED BY <1>2, <1>3, <1>4 DEF SelfDelimiting

\* Of a frame the client can send no proper prefix and no extension decodes, and a
\* frame that differs from it in a byte decodes only to a request whose own encoding
\* it is, or that the encoder refuses to send.
THEOREM SpecFramesCanonical == Spec => []FramesCanonical
<1>1. IInv => FramesCanonical
  <2>a. SUFFICES ASSUME IInv, NEW i \in DOMAIN script, EncodeRequest(script[i].request).ok
                 PROVE  SelfDelimiting(EncodeRequest(script[i].request).value)
    BY DEF FramesCanonical
  <2>b. script \in Scripts
    BY <2>a DEF IInv, Typed
  <2>c. script \in Seq(Exchange)
    BY <2>b, ScriptsAssumption
  <2>d. script[i] \in Exchange
    BY <2>a, <2>c, LenProperties
  <2>e. script[i].request \in Request
    BY <2>d DEF Exchange
  <2> QED BY <2>a, <2>e, RequestFrame, FrameDelimits
<1> QED BY <1>1, InitIInv, NextIInv, PTL DEF Spec

================================================================================
