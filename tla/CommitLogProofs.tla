---------------------------- MODULE CommitLogProofs ----------------------------
(***************************************************************************)
(* Proofs about CommitLog, for every set of payloads, every segment size,  *)
(* index interval and fault set, in four parts: the layout of files,       *)
(* memory and index, with the inductive invariant TypeOK /\ Layout; what a *)
(* flush covered is never lost, for which the invariant is strengthened by *)
(* Durable; Read finds every stored record, which follows from the layout  *)
(* alone; and the log implements OffsetLog, for which Late is added.       *)
(***************************************************************************)
EXTENDS CommitLog, SequenceTheorems, WellFoundedInduction, TLAPS

Segment == [base : Nat, wpos : Nat, closed : BOOLEAN]

Inv == TypeOK /\ Layout

----------------------------------------
(* Batches and prefixes *)

\* A batch has at least one record and its bytes at least one header: its end lies
\* behind its start, in bytes and in offsets.
LEMMA BatchEnds ==
    ASSUME NEW b \in Batch
    PROVE  /\ b.pos \in Nat /\ b.base \in Nat
           /\ Count(b) \in Nat /\ Bytes(b) \in Nat
           /\ EndPos(b) \in Nat /\ EndOffset(b) \in Nat
           /\ b.pos < EndPos(b) /\ b.base < EndOffset(b)
BY ConstantsAssumption DEF Batch, Count, Bytes, EndPos, EndOffset

\* The ends of a well-formed file are numbers, and offsets only grow in it.
LEMMA FileEnds ==
    ASSUME NEW f \in File, BatchesOk(f)
    PROVE  /\ f.base \in Nat /\ f.batches \in Seq(Batch) /\ f.synced \in Nat
           /\ FileBytes(f) \in Nat /\ FileEnd(f) \in Nat
           /\ f.base <= FileEnd(f)
           /\ f.batches # <<>> => f.base < FileEnd(f) /\ FileBytes(f) > 0
           /\ f.batches = <<>> => FileEnd(f) = f.base /\ FileBytes(f) = 0
           /\ \A j \in DOMAIN f.batches :
                 /\ f.batches[j] \in Batch
                 /\ f.base <= f.batches[j].base
                 /\ EndOffset(f.batches[j]) <= FileEnd(f)
                 /\ EndPos(f.batches[j]) <= FileBytes(f)
<1> DEFINE bs == f.batches
           n == Len(bs)
<1>0. f.base \in Nat
  BY DEF File
<1>1. f.base \in Nat /\ bs \in Seq(Batch) /\ f.synced \in Nat
  BY DEF File
<1>2. n \in Nat /\ DOMAIN bs = 1 .. n /\ \A j \in 1 .. n : bs[j] \in Batch
  BY <1>1
<1>3. \A j \in 1 .. n : /\ bs[j].pos \in Nat /\ bs[j].base \in Nat
                        /\ EndPos(bs[j]) \in Nat /\ EndOffset(bs[j]) \in Nat
                        /\ bs[j].pos < EndPos(bs[j]) /\ bs[j].base < EndOffset(bs[j])
  BY <1>2, BatchEnds
<1>4. bs = <<>> <=> n = 0
  BY <1>1
<1>5. CASE bs = <<>>
  BY <1>1, <1>2, <1>4, <1>5 DEF FileBytes, FileEnd
<1>6. CASE bs # <<>>
  <2>a. n \in 1 .. n /\ 1 \in 1 .. n
    BY <1>2, <1>4, <1>6
  <2>b. FileBytes(f) = EndPos(bs[n]) /\ FileEnd(f) = EndOffset(bs[n])
    BY <1>6 DEF FileBytes, FileEnd
  <2>c. bs[1].pos = 0 /\ bs[1].base = f.base
    BY <1>6 DEF BatchesOk
  <2>d. \A j, k \in 1 .. n :
           j < k => EndPos(bs[j]) <= bs[k].pos /\ EndOffset(bs[j]) <= bs[k].base
    BY <1>2 DEF BatchesOk
  <2>e. \A j \in 1 .. n : /\ f.base <= bs[j].base
                          /\ EndOffset(bs[j]) <= EndOffset(bs[n])
                          /\ EndPos(bs[j]) <= EndPos(bs[n])
    <3> SUFFICES ASSUME NEW j \in 1 .. n
                 PROVE  /\ f.base <= bs[j].base
                        /\ EndOffset(bs[j]) <= EndOffset(bs[n])
                        /\ EndPos(bs[j]) <= EndPos(bs[n])
      OBVIOUS
    <3> HIDE DEF bs, n
    <3>0. n \in Nat
      BY <1>2
    <3>1. f.base <= bs[j].base
      BY <3>0, <1>0, <1>3, <2>a, <2>c, <2>d
    <3>2. EndOffset(bs[j]) <= EndOffset(bs[n]) /\ EndPos(bs[j]) <= EndPos(bs[n])
      BY <3>0, <1>3, <2>a, <2>d
    <3> QED BY <3>1, <3>2
  <2> HIDE DEF bs, n
  <2>f. f.base < EndOffset(bs[n]) /\ EndPos(bs[n]) > 0
    BY <1>0, <1>3, <2>a, <2>e
  <2> QED
    BY <1>1, <1>2, <1>3, <1>6, <2>a, <2>b, <2>e, <2>f DEF bs
<1> QED BY <1>5, <1>6

\* g is f cut after some of its batches; its tail may be anything.
CutOf(g, f) ==
    /\ g \in File
    /\ g.base = f.base
    /\ \E m \in 0 .. Len(f.batches) :
          g.batches = SubSeq(f.batches, 1, m) /\ g.synced <= m

\* What a file cut after m batches holds.
LEMMA Prefix ==
    ASSUME NEW bs \in Seq(Batch), NEW m \in 0 .. Len(bs)
    PROVE  /\ SubSeq(bs, 1, m) \in Seq(Batch)
           /\ Len(SubSeq(bs, 1, m)) = m
           /\ DOMAIN SubSeq(bs, 1, m) = 1 .. m
           /\ \A j \in 1 .. m : SubSeq(bs, 1, m)[j] = bs[j]
           /\ m = Len(bs) => SubSeq(bs, 1, m) = bs
<1>1. \A i \in 1 .. m : bs[i] \in Batch
  OBVIOUS
<1>2. m \in Int /\ 1 \in Int
  OBVIOUS
<1>3. /\ SubSeq(bs, 1, m) \in Seq(Batch)
      /\ Len(SubSeq(bs, 1, m)) = IF 1 <= m THEN m - 1 + 1 ELSE 0
      /\ \A i \in 1 .. m - 1 + 1 : SubSeq(bs, 1, m)[i] = bs[1 + i - 1]
  BY <1>1, <1>2, SubSeqProperties
<1>4. Len(SubSeq(bs, 1, m)) = m
  BY <1>3
<1>5. \A j \in 1 .. m : SubSeq(bs, 1, m)[j] = bs[j]
  BY <1>3
<1> QED BY <1>3, <1>4, <1>5, LenProperties, SubSeqFull

\* Cutting a well-formed file leaves a well-formed file that ends no later.
LEMMA CutOk ==
    ASSUME NEW f \in File, BatchesOk(f), NEW g, CutOf(g, f)
    PROVE  BatchesOk(g) /\ g.base = f.base /\ FileEnd(g) <= FileEnd(f)
<1> DEFINE bs == f.batches
           cs == g.batches
<1>1. bs \in Seq(Batch) /\ g \in File /\ g.base = f.base
  BY DEF CutOf, File
<1>2. PICK m \in 0 .. Len(bs) : cs = SubSeq(bs, 1, m) /\ g.synced <= m
  BY DEF CutOf
<1>3. /\ Len(cs) = m /\ DOMAIN cs = 1 .. m
      /\ \A j \in 1 .. m : cs[j] = bs[j]
  BY <1>1, <1>2, Prefix
<1>4. DOMAIN bs = 1 .. Len(bs) /\ Len(bs) \in Nat /\ m \in Nat /\ m <= Len(bs)
  BY <1>1, <1>2
<1>5. /\ bs # <<>> => bs[1].pos = 0 /\ bs[1].base = f.base
      /\ \A j \in 1 .. Len(bs) - 1 :
            bs[j + 1].pos = EndPos(bs[j]) /\ bs[j + 1].base = EndOffset(bs[j])
      /\ \A j, k \in DOMAIN bs :
            j < k => EndPos(bs[j]) <= bs[k].pos /\ EndOffset(bs[j]) <= bs[k].base
  BY DEF BatchesOk
<1>6. cs \in Seq(Batch) /\ (cs = <<>> <=> m = 0) /\ (m > 0 => bs # <<>>)
  <2>a. cs \in Seq(Batch)
    BY <1>1, <1>2, Prefix
  <2>b. cs = <<>> <=> m = 0
    BY <2>a, <1>3, <1>4, EmptySeq
  <2>c. m > 0 => bs # <<>>
    BY <1>1, <1>4
  <2> QED BY <2>a, <2>b, <2>c
<1>7. FileEnd(g) = IF m = 0 THEN f.base ELSE EndOffset(bs[m])
  BY <1>1, <1>3, <1>4, <1>6 DEF FileEnd
<1> HIDE DEF bs, cs
<1>8. BatchesOk(g)
  <2>a. cs # <<>> => cs[1].pos = 0 /\ cs[1].base = g.base
    BY <1>1, <1>3, <1>4, <1>5, <1>6
  <2>b. \A j \in 1 .. m - 1 :
            cs[j + 1].pos = EndPos(cs[j]) /\ cs[j + 1].base = EndOffset(cs[j])
    <3> TAKE j \in 1 .. m - 1
    <3>1. j \in 1 .. m /\ j + 1 \in 1 .. m /\ j \in 1 .. Len(bs) - 1
      BY <1>4
    <3> QED BY <3>1, <1>3, <1>5
  <2>c. \A j, k \in 1 .. m :
            j < k => EndPos(cs[j]) <= cs[k].pos /\ EndOffset(cs[j]) <= cs[k].base
    <3> TAKE j, k \in 1 .. m
    <3>1. j \in DOMAIN bs /\ k \in DOMAIN bs
      BY <1>4
    <3> QED BY <3>1, <1>3, <1>5
  <2> QED BY <2>a, <2>b, <2>c, <1>2, <1>3 DEF BatchesOk, cs
<1>9. FileEnd(g) <= FileEnd(f)
  <2>a. m > 0 => m \in DOMAIN bs
    BY <1>4
  <2> QED BY <2>a, <1>7, FileEnds, <1>4 DEF bs
<1> QED BY <1>1, <1>8, <1>9

----------------------------------------
(* Lists of files *)

\* Every file cut, files at the end of the list dropped: the list is in order still.
LEMMA CutFilesOk ==
    ASSUME NEW fs \in Seq(File), FilesOk(fs),
           NEW gs \in Seq(File), Len(gs) <= Len(fs),
           \A i \in 1 .. Len(gs) : CutOf(gs[i], fs[i])
    PROVE  FilesOk(gs)
<1>1. /\ Len(gs) \in Nat /\ Len(fs) \in Nat
      /\ DOMAIN gs = 1 .. Len(gs) /\ DOMAIN fs = 1 .. Len(fs)
  BY LenProperties
<1>2. \A i \in DOMAIN gs : i \in DOMAIN fs /\ fs[i] \in File /\ gs[i] \in File
  BY <1>1
<1>3. \A i \in DOMAIN gs : /\ BatchesOk(fs[i]) /\ BatchesOk(gs[i])
                           /\ gs[i].base = fs[i].base
                           /\ FileEnd(gs[i]) <= FileEnd(fs[i])
  BY <1>1, <1>2, CutOk DEF FilesOk
<1>4. \A i \in DOMAIN gs : /\ FileEnd(fs[i]) \in Nat /\ FileEnd(gs[i]) \in Nat
                           /\ fs[i].base \in Nat
  BY <1>2, <1>3, FileEnds
<1>5. ASSUME NEW i \in DOMAIN gs, NEW k \in DOMAIN gs, i < k
      PROVE  gs[i].base < gs[k].base /\ FileEnd(gs[i]) <= gs[k].base
  <2>a. fs[i].base < fs[k].base /\ FileEnd(fs[i]) <= fs[k].base
    BY <1>2, <1>5 DEF FilesOk
  <2> QED BY <2>a, <1>3, <1>4
<1> QED BY <1>3, <1>5 DEF FilesOk

\* An empty file appended behind the end of a log whose last file is not empty.
LEMMA RollFilesOk ==
    ASSUME NEW fs \in Seq(File), FilesOk(fs), fs # <<>>,
           fs[Len(fs)].batches # <<>>
    PROVE  FilesOk(Append(fs, NewFile(FileEnd(fs[Len(fs)]))))
<1> DEFINE n == Len(fs)
           new == NewFile(FileEnd(fs[n]))
           gs == Append(fs, new)
<1>1. n \in Nat /\ n > 0 /\ DOMAIN fs = 1 .. n /\ n \in 1 .. n
  <2>a. n \in Nat /\ DOMAIN fs = 1 .. n
    BY LenProperties
  <2>b. n # 0
    BY EmptySeq
  <2> QED BY <2>a, <2>b
<1>2. \A i \in 1 .. n : fs[i] \in File /\ BatchesOk(fs[i])
  BY <1>1, ElementOfSeq DEF FilesOk
<1>3. \A i \in 1 .. n : /\ FileEnd(fs[i]) \in Nat /\ fs[i].base \in Nat
                        /\ fs[i].base <= FileEnd(fs[i])
  BY <1>2, FileEnds
<1>4. fs[n].base < FileEnd(fs[n])
  BY <1>1, <1>2, FileEnds
<1>5. /\ new \in File /\ new.base = FileEnd(fs[n]) /\ BatchesOk(new)
      /\ FileEnd(new) = FileEnd(fs[n])
  <2>a. new.base = FileEnd(fs[n]) /\ new.batches = <<>> /\ new.synced = 0
    BY DEF NewFile
  <2>b. new \in File
    BY <1>1, <1>3, EmptySeq DEF NewFile, NoTail, TailBytes, File
  <2>c. BatchesOk(new)
    BY <2>a DEF BatchesOk
  <2> QED BY <2>a, <2>b, <2>c DEF FileEnd
<1>6. /\ gs \in Seq(File) /\ Len(gs) = n + 1
      /\ \A i \in 1 .. n : gs[i] = fs[i]
      /\ gs[n + 1] = new
  BY <1>5, AppendProperties
<1>7. DOMAIN gs = 1 .. n + 1
  BY <1>6, LenProperties
<1>8. \A i \in 1 .. n : fs[i].base < new.base /\ FileEnd(fs[i]) <= new.base
  <2> TAKE i \in 1 .. n
  <2>a. i < n => fs[i].base < fs[n].base /\ FileEnd(fs[i]) <= fs[n].base
    BY <1>1 DEF FilesOk
  <2> QED BY <2>a, <1>1, <1>3, <1>4, <1>5
<1>9. \A i, k \in 1 .. n : i < k => fs[i].base < fs[k].base /\ FileEnd(fs[i]) <= fs[k].base
  BY <1>1 DEF FilesOk
<1> HIDE DEF n, new, gs
<1>10. \A i \in DOMAIN gs : BatchesOk(gs[i])
  BY <1>1, <1>2, <1>5, <1>6, <1>7
<1>11. ASSUME NEW i \in DOMAIN gs, NEW k \in DOMAIN gs, i < k
       PROVE  gs[i].base < gs[k].base /\ FileEnd(gs[i]) <= gs[k].base
  <2>a. i \in 1 .. n /\ (k \in 1 .. n \/ k = n + 1)
    BY <1>1, <1>7, <1>11
  <2> QED BY <2>a, <1>6, <1>8, <1>9, <1>11
<1> QED BY <1>10, <1>11 DEF FilesOk, gs, new, n

\* A file with one more batch, written where its batches end.
Longer(f, b, t) == [f EXCEPT !.batches = Append(@, b), !.tail = t]

\* Appending at the end of a well-formed file keeps it well-formed.
LEMMA LongerOk ==
    ASSUME NEW f \in File, BatchesOk(f), NEW b \in Batch, NEW t \in TailBytes,
           b.pos = FileBytes(f), b.base = FileEnd(f)
    PROVE  /\ Longer(f, b, t) \in File
           /\ BatchesOk(Longer(f, b, t))
           /\ Longer(f, b, t).base = f.base
           /\ Longer(f, b, t).batches = Append(f.batches, b)
           /\ FileEnd(Longer(f, b, t)) = EndOffset(b)
           /\ FileBytes(Longer(f, b, t)) = EndPos(b)
<1> DEFINE g == Longer(f, b, t)
           bs == f.batches
           n == Len(bs)
           cs == Append(bs, b)
<1>1. /\ bs \in Seq(Batch) /\ f.base \in Nat /\ f.synced \in Nat
      /\ f \in [base : Nat, batches : Seq(Batch), tail : TailBytes, synced : Nat]
  BY DEF File
<1>2. /\ cs \in Seq(Batch) /\ cs # <<>> /\ Len(cs) = n + 1
      /\ \A j \in 1 .. n : cs[j] = bs[j]
      /\ cs[n + 1] = b
  BY <1>1, AppendProperties
<1>3. n \in Nat /\ DOMAIN bs = 1 .. n /\ DOMAIN cs = 1 .. n + 1
  BY <1>1, <1>2, LenProperties
<1>4. g.base = f.base /\ g.batches = cs /\ g.synced = f.synced /\ g \in File
  <2> HIDE DEF cs
  <2>a. g = [f EXCEPT !.batches = cs, !.tail = t]
    BY DEF Longer, cs
  <2> QED BY <1>1, <1>2, <2>a DEF File
<1>5. FileEnd(g) = EndOffset(b) /\ FileBytes(g) = EndPos(b)
  BY <1>2, <1>3, <1>4 DEF FileEnd, FileBytes
<1>6. \A j \in 1 .. n : /\ EndOffset(bs[j]) <= b.base /\ EndPos(bs[j]) <= b.pos
                        /\ bs[j] \in Batch
  BY <1>3, FileEnds
<1>7. /\ n = 0 => b.pos = 0 /\ b.base = f.base
      /\ n > 0 => b.pos = EndPos(bs[n]) /\ b.base = EndOffset(bs[n])
  <2>a. bs = <<>> <=> n = 0
    BY <1>1, EmptySeq
  <2> QED BY <2>a, <1>3 DEF FileEnd, FileBytes
<1>8. /\ n > 0 => bs[1].pos = 0 /\ bs[1].base = f.base
      /\ \A j \in 1 .. n - 1 :
            bs[j + 1].pos = EndPos(bs[j]) /\ bs[j + 1].base = EndOffset(bs[j])
      /\ \A j, k \in 1 .. n :
            j < k => EndPos(bs[j]) <= bs[k].pos /\ EndOffset(bs[j]) <= bs[k].base
      /\ f.synced <= n
  <2>a. n > 0 => bs # <<>>
    BY <1>1, EmptySeq
  <2> QED BY <2>a, <1>3 DEF BatchesOk
<1> HIDE DEF bs, cs, n, g
<1>9. cs[1].pos = 0 /\ cs[1].base = f.base
  <2>a. CASE n = 0
    BY <2>a, <1>2, <1>7
  <2>b. CASE n > 0
    <3>1. 1 \in 1 .. n
      BY <2>b, <1>3
    <3> QED BY <3>1, <2>b, <1>2, <1>8
  <2> QED BY <2>a, <2>b, <1>3
<1>10. \A j \in 1 .. n :
          cs[j + 1].pos = EndPos(cs[j]) /\ cs[j + 1].base = EndOffset(cs[j])
  <2> TAKE j \in 1 .. n
  <2>a. CASE j = n
    BY <2>a, <1>2, <1>3, <1>7
  <2>b. CASE j # n
    <3>1. j \in 1 .. n - 1 /\ j + 1 \in 1 .. n
      BY <2>b, <1>3
    <3> QED BY <3>1, <1>2, <1>8
  <2> QED BY <2>a, <2>b
<1>11. \A j, k \in 1 .. n + 1 :
          j < k => EndPos(cs[j]) <= cs[k].pos /\ EndOffset(cs[j]) <= cs[k].base
  <2> SUFFICES ASSUME NEW j \in 1 .. n + 1, NEW k \in 1 .. n + 1, j < k
               PROVE  EndPos(cs[j]) <= cs[k].pos /\ EndOffset(cs[j]) <= cs[k].base
    OBVIOUS
  <2>a. j \in 1 .. n /\ (k \in 1 .. n \/ k = n + 1)
    BY <1>3
  <2> QED BY <2>a, <1>2, <1>6, <1>8
<1>12. BatchesOk(g)
  <2>a. Len(g.batches) - 1 = n
    BY <1>2, <1>3, <1>4
  <2>b. f.synced <= Len(g.batches)
    BY <1>1, <1>2, <1>3, <1>4, <1>8
  <2> QED BY <2>a, <2>b, <1>2, <1>3, <1>4, <1>9, <1>10, <1>11 DEF BatchesOk
<1> QED BY <1>4, <1>5, <1>12 DEF g, cs, bs

----------------------------------------
(* The sparse index *)

\* Whether an index is right depends only on the batches it is about.
LEMMA IndexFrame ==
    ASSUME NEW index, NEW bs, NEW cs, NEW n \in Nat,
           \A j \in 1 .. n : bs[j] = cs[j], IndexOk(index, bs, n)
    PROVE  IndexOk(index, cs, n)
BY DEF IndexOk

\* MaybeAppend accepts the next batch of a well-formed file, and the index then
\* covers that batch too, through a new entry or through the last one.
LEMMA IndexGrows ==
    ASSUME NEW index \in Seq(IndexEntry), NEW bs \in Seq(Batch),
           NEW n \in Nat, n + 1 <= Len(bs), IndexOk(index, bs, n),
           \A j \in 1 .. n : bs[j].base < bs[n + 1].base /\ bs[j].pos < bs[n + 1].pos,
           NEW base \in Nat, base <= bs[n + 1].base
    PROVE  LET b == bs[n + 1]
           IN  /\ MaybeAppendOk(index, base, b.base, b.pos)
               /\ MaybeAppend(index, base, b.base, b.pos) \in Seq(IndexEntry)
               /\ IndexOk(MaybeAppend(index, base, b.base, b.pos), bs, n + 1)
<1> DEFINE b == bs[n + 1]
           m == Len(index)
           grown == MaybeAppend(index, base, b.base, b.pos)
           entry == [offset |-> b.base, position |-> b.pos]
<1>1. b \in Batch /\ b.base \in Nat /\ b.pos \in Nat /\ IndexInterval \in Nat \ {0}
  <2>a. n + 1 \in 1 .. Len(bs)
    BY LenProperties
  <2>b. b \in Batch
    BY <2>a, ElementOfSeq
  <2>c. IndexInterval \in Nat \ {0}
    BY ConstantsAssumption
  <2> QED BY <2>b, <2>c, BatchEnds
<1>2. m \in Nat /\ DOMAIN index = 1 .. m /\ (index = <<>> <=> m = 0)
  BY LenProperties, EmptySeq
<1>3. \A k \in 1 .. m : /\ index[k] \in IndexEntry
                        /\ index[k].offset \in Nat /\ index[k].position \in Nat
  <2>a. \A k \in 1 .. m : index[k] \in IndexEntry
    BY ElementOfSeq
  <2> QED BY <2>a DEF IndexEntry
<1>4. \A k \in 1 .. m : \E j \in 1 .. n :
         index[k].offset = bs[j].base /\ index[k].position = bs[j].pos
  BY <1>2 DEF IndexOk
<1>5. \A k, l \in 1 .. m :
         k < l => index[k].offset < index[l].offset /\ index[k].position < index[l].position
  BY <1>2 DEF IndexOk
<1>6. \A j \in 1 .. n : \E k \in 1 .. m :
         /\ index[k].offset <= bs[j].base
         /\ index[k].position <= bs[j].pos
         /\ bs[j].pos < index[k].position + IndexInterval
  BY <1>2 DEF IndexOk
<1>7. \A k \in 1 .. m : index[k].offset < b.base /\ index[k].position < b.pos
  BY <1>4
<1>8. m > 0 => m \in 1 .. m
  BY <1>2
<1>9. MaybeAppendOk(index, base, b.base, b.pos)
  BY <1>1, <1>2, <1>3, <1>7, <1>8 DEF MaybeAppendOk
<1>10. CASE index # <<>> => b.pos - index[m].position >= IndexInterval
  <2>a. grown = Append(index, entry)
    BY <1>9, <1>10 DEF MaybeAppend
  <2>b. entry \in IndexEntry /\ entry.offset = b.base /\ entry.position = b.pos
    BY <1>1 DEF IndexEntry
  <2> HIDE DEF entry
  <2>c. /\ grown \in Seq(IndexEntry) /\ Len(grown) = m + 1
        /\ \A k \in 1 .. m : grown[k] = index[k]
        /\ grown[m + 1] = entry
    BY <2>a, <2>b, AppendProperties
  <2>d. DOMAIN grown = 1 .. m + 1
    BY <2>c, LenProperties
  <2> HIDE DEF grown
  <2>e. \A k \in 1 .. m + 1 : \E j \in 1 .. n + 1 :
           grown[k].offset = bs[j].base /\ grown[k].position = bs[j].pos
    <3> TAKE k \in 1 .. m + 1
    <3>1. CASE k \in 1 .. m
      <4>1. PICK j \in 1 .. n : index[k].offset = bs[j].base /\ index[k].position = bs[j].pos
        BY <1>4, <3>1
      <4>2. j \in 1 .. n + 1
        OBVIOUS
      <4> QED BY <4>1, <4>2, <3>1, <2>c
    <3>2. CASE k = m + 1
      <4>1. n + 1 \in 1 .. n + 1
        OBVIOUS
      <4> QED BY <4>1, <3>2, <2>b, <2>c
    <3> QED BY <3>1, <3>2, <1>2
  <2>f. \A k, l \in 1 .. m + 1 :
           k < l => grown[k].offset < grown[l].offset /\ grown[k].position < grown[l].position
    <3> SUFFICES ASSUME NEW k \in 1 .. m + 1, NEW l \in 1 .. m + 1, k < l
                 PROVE  grown[k].offset < grown[l].offset /\ grown[k].position < grown[l].position
      OBVIOUS
    <3>1. k \in 1 .. m /\ (l \in 1 .. m \/ l = m + 1)
      BY <1>2
    <3> QED BY <3>1, <2>b, <2>c, <1>5, <1>7
  <2>g. \A j \in 1 .. n + 1 : \E k \in 1 .. m + 1 :
           /\ grown[k].offset <= bs[j].base
           /\ grown[k].position <= bs[j].pos
           /\ bs[j].pos < grown[k].position + IndexInterval
    <3> TAKE j \in 1 .. n + 1
    <3>1. CASE j \in 1 .. n
      <4>1. PICK k \in 1 .. m : /\ index[k].offset <= bs[j].base
                                /\ index[k].position <= bs[j].pos
                                /\ bs[j].pos < index[k].position + IndexInterval
        BY <1>6, <3>1
      <4>2. k \in 1 .. m + 1
        BY <1>2
      <4> QED BY <4>1, <4>2, <2>c
    <3>2. CASE j = n + 1
      <4>1. m + 1 \in 1 .. m + 1
        BY <1>2
      <4>2. bs[j] = b /\ grown[m + 1].offset = b.base /\ grown[m + 1].position = b.pos
        BY <3>2, <2>b, <2>c
      <4>3. b.base <= b.base /\ b.pos <= b.pos /\ b.pos < b.pos + IndexInterval
        BY <1>1
      <4> HIDE DEF b
      <4> QED BY <4>1, <4>2, <4>3
    <3> QED BY <3>1, <3>2
  <2>h. IndexOk(grown, bs, n + 1)
    BY <2>d, <2>e, <2>f, <2>g DEF IndexOk
  <2> QED BY <2>c, <2>h, <1>9 DEF grown
<1>11. CASE ~(index # <<>> => b.pos - index[m].position >= IndexInterval)
  <2>a. grown = index
    BY <1>11 DEF MaybeAppend
  <2>b. m \in 1 .. m /\ b.pos < index[m].position + IndexInterval
    BY <1>1, <1>2, <1>3, <1>8, <1>11
  <2>c. \A k \in 1 .. m : \E j \in 1 .. n + 1 :
           index[k].offset = bs[j].base /\ index[k].position = bs[j].pos
    BY <1>4
  <2>d. \A j \in 1 .. n + 1 : \E k \in 1 .. m :
           /\ index[k].offset <= bs[j].base
           /\ index[k].position <= bs[j].pos
           /\ bs[j].pos < index[k].position + IndexInterval
    <3> TAKE j \in 1 .. n + 1
    <3>1. CASE j \in 1 .. n
      BY <3>1, <1>6
    <3>2. CASE j = n + 1
      <4>1. /\ index[m].offset <= bs[j].base
            /\ index[m].position <= bs[j].pos
            /\ bs[j].pos < index[m].position + IndexInterval
        BY <3>2, <2>b, <1>1, <1>3, <1>7
      <4> QED BY <4>1, <2>b
    <3> QED BY <3>1, <3>2
  <2>e. IndexOk(index, bs, n + 1)
    BY <2>c, <2>d, <1>2, <1>5 DEF IndexOk
  <2> QED BY <2>a, <2>e, <1>9
<1> QED BY <1>10, <1>11

----------------------------------------
(* States in which memory describes all the files *)

Describes(fs, ss, xs, next) ==
    /\ fs \in Seq(File) /\ ss \in Seq(Segment) /\ xs \in Seq(Seq(IndexEntry))
    /\ next \in Nat
    /\ Len(fs) > 0 /\ Len(ss) = Len(fs) /\ Len(xs) = Len(fs)
    /\ FilesOk(fs)
    /\ next = FileEnd(fs[Len(fs)])
    /\ \A i \in 1 .. Len(fs) : SegmentOk(ss[i], xs[i], fs[i])

\* While the log is open, memory describes the files ...
LEMMA OpenDescribes ==
    ASSUME Inv, phase \in {"open", "closed"}
    PROVE  Describes(files, segments, indexes, next_offset)
<1>1. /\ files \in Seq(File) /\ segments \in Seq(Segment)
      /\ indexes \in Seq(Seq(IndexEntry)) /\ next_offset \in Nat
  BY DEF Inv, TypeOK, Segment
<1>2. /\ files # <<>> /\ Len(segments) = Len(files) /\ Len(indexes) = Len(segments)
      /\ next_offset = FileEnd(files[Len(files)])
      /\ \A i \in DOMAIN segments : SegmentOk(segments[i], indexes[i], files[i])
  BY DEF Inv, Layout, MemoryOk
<1>3. Len(files) > 0
  BY <1>1, <1>2, EmptySeq, LenProperties
<1>4. DOMAIN segments = 1 .. Len(files)
  BY <1>1, <1>2, LenProperties
<1> QED BY <1>1, <1>2, <1>3, <1>4 DEF Describes, Inv, Layout

\* ... and a step to such a state keeps the invariant.
LEMMA DescribesOpen ==
    ASSUME Describes(files', segments', indexes', next_offset'),
           phase' \in {"open", "closed"}, scan' \in ScanType, flushed' \subseteq Batch
    PROVE  Inv'
<1>1. /\ files' \in Seq(File) /\ segments' \in Seq(Segment)
      /\ indexes' \in Seq(Seq(IndexEntry)) /\ next_offset' \in Nat
      /\ Len(files') > 0 /\ Len(segments') = Len(files') /\ Len(indexes') = Len(files')
      /\ FilesOk(files')
      /\ next_offset' = FileEnd(files'[Len(files')])
      /\ \A i \in 1 .. Len(files') : SegmentOk(segments'[i], indexes'[i], files'[i])
  BY DEF Describes
<1>2. TypeOK'
  BY <1>1 DEF TypeOK, Segment
<1>3. DOMAIN segments' = 1 .. Len(files') /\ files' # <<>>
  BY <1>1, LenProperties, EmptySeq
<1>4. MemoryOk'
  BY <1>1, <1>3 DEF MemoryOk
<1> QED BY <1>1, <1>2, <1>4 DEF Inv, Layout

\* After a failed Open, a crash or a power loss only the files matter.
LEMMA AbandonOk ==
    ASSUME Inv, Abandon, files' \in Seq(File), FilesOk(files')
    PROVE  Inv'
<1>1. /\ segments' = <<>> /\ indexes' = <<>> /\ next_offset' = 0
      /\ phase' = "down" /\ scan' = NoScan /\ flushed' = flushed
  BY DEF Abandon
<1>2. TypeOK'
  <2>a. NoScan \in ScanType
    BY EmptySeq DEF NoScan, ScanType
  <2> QED BY <1>1, <2>a, EmptySeq DEF TypeOK, Inv
<1>3. MemoryOk'
  <2>a. DOMAIN segments' = {} /\ Len(indexes') = Len(segments')
    BY <1>1, EmptySeq
  <2> QED BY <1>1, <2>a DEF MemoryOk
<1> QED BY <1>2, <1>3 DEF Inv, Layout

\* Tails and sync marks are no part of what memory describes.
LEMMA SameBatches ==
    ASSUME NEW fs, NEW ss, NEW xs, NEW next, Describes(fs, ss, xs, next),
           NEW gs \in Seq(File), Len(gs) = Len(fs),
           \A i \in 1 .. Len(fs) : /\ gs[i].base = fs[i].base
                                   /\ gs[i].batches = fs[i].batches
                                   /\ gs[i].synced <= Len(fs[i].batches)
    PROVE  Describes(gs, ss, xs, next)
<1>1. /\ fs \in Seq(File) /\ ss \in Seq(Segment) /\ xs \in Seq(Seq(IndexEntry))
      /\ next \in Nat /\ Len(fs) > 0 /\ Len(ss) = Len(fs) /\ Len(xs) = Len(fs)
      /\ FilesOk(fs) /\ next = FileEnd(fs[Len(fs)])
      /\ \A i \in 1 .. Len(fs) : SegmentOk(ss[i], xs[i], fs[i])
  BY DEF Describes
<1>2. /\ Len(fs) \in Nat /\ DOMAIN fs = 1 .. Len(fs)
      /\ \A i \in 1 .. Len(fs) : fs[i] \in File /\ gs[i] \in File
  BY <1>1, LenProperties, ElementOfSeq
<1>3. \A i \in 1 .. Len(fs) : CutOf(gs[i], fs[i])
  <2> TAKE i \in 1 .. Len(fs)
  <2>a. fs[i].batches \in Seq(Batch)
    BY <1>2 DEF File
  <2>b. Len(fs[i].batches) \in 0 .. Len(fs[i].batches)
    BY <2>a, LenProperties
  <2>c. SubSeq(fs[i].batches, 1, Len(fs[i].batches)) = fs[i].batches
    BY <2>a, SubSeqFull
  <2> QED BY <2>b, <2>c, <1>2 DEF CutOf
<1>4. FilesOk(gs)
  <2>a. Len(gs) <= Len(fs)
    BY <1>2
  <2> QED BY <2>a, <1>1, <1>3, CutFilesOk
<1>5. \A i \in 1 .. Len(fs) : FileEnd(gs[i]) = FileEnd(fs[i]) /\ FileBytes(gs[i]) = FileBytes(fs[i])
  BY DEF FileEnd, FileBytes
<1>6. \A i \in 1 .. Len(fs) : SegmentOk(ss[i], xs[i], gs[i])
  BY <1>1, <1>5 DEF SegmentOk
<1>7. Len(fs) \in 1 .. Len(fs)
  BY <1>1, <1>2
<1> QED BY <1>1, <1>4, <1>5, <1>6, <1>7 DEF Describes

\* Rolling to a new, empty segment at the end of the log.
LEMMA RollDescribes ==
    ASSUME Inv, NEW p \in Payloads, MayAppend(p)
    PROVE  /\ Describes(FilesFor(p), SegmentsFor(p), IndexesFor(p), next_offset)
           /\ scan \in ScanType /\ flushed \subseteq Batch
<1>0. phase = "open" /\ scan \in ScanType /\ flushed \subseteq Batch
  BY DEF MayAppend, Inv, TypeOK
<1>1. Describes(files, segments, indexes, next_offset)
  BY <1>0, OpenDescribes
<1>2. CASE ~NeedsRoll(p)
  BY <1>0, <1>1, <1>2 DEF FilesFor, SegmentsFor, IndexesFor
<1>3. CASE NeedsRoll(p)
  <2> DEFINE n == Len(files)
             new == NewFile(next_offset)
             seg == OpenSegment(next_offset, 0)
             fs == Append(files, new)
             ss == Append(segments, seg)
             xs == Append(indexes, <<>>)
  <2>a. /\ files \in Seq(File) /\ segments \in Seq(Segment)
        /\ indexes \in Seq(Seq(IndexEntry)) /\ next_offset \in Nat
        /\ n > 0 /\ Len(segments) = n /\ Len(indexes) = n /\ FilesOk(files)
        /\ next_offset = FileEnd(files[n])
        /\ \A i \in 1 .. n : SegmentOk(segments[i], indexes[i], files[i])
    BY <1>1 DEF Describes
  <2>b. n \in Nat /\ n \in 1 .. n /\ DOMAIN files = 1 .. n /\ files[n] \in File
    <3>1. n \in Nat /\ DOMAIN files = 1 .. n
      BY <2>a, LenProperties
    <3>2. n \in 1 .. n
      BY <3>1, <2>a
    <3> QED BY <3>1, <3>2, <2>a, ElementOfSeq
  <2>c. files[n].batches # <<>>
    <3>1. FileBytes(files[n]) > 0
      BY <1>3, <2>a, <2>b DEF NeedsRoll, Active, SegmentOk
    <3>2. BatchesOk(files[n])
      BY <2>a, <2>b DEF FilesOk
    <3> QED BY <3>1, <3>2, <2>b, FileEnds
  <2>d. FilesOk(fs)
    <3>1. files # <<>>
      BY <2>a, EmptySeq
    <3> QED BY <3>1, <2>a, <2>c, RollFilesOk
  <2>e. new \in File /\ new.base = next_offset /\ new.batches = <<>>
    BY <2>a, EmptySeq DEF NewFile, NoTail, TailBytes, File
  <2>f. seg \in Segment /\ seg.base = next_offset /\ seg.wpos = 0
    BY <2>a DEF OpenSegment, Segment
  <2>g. FileEnd(new) = next_offset /\ FileBytes(new) = 0
    BY <2>e DEF FileEnd, FileBytes
  <2> HIDE DEF new, seg
  <2>h. /\ fs \in Seq(File) /\ Len(fs) = n + 1 /\ fs[n + 1] = new
        /\ \A i \in 1 .. n : fs[i] = files[i]
    BY <2>a, <2>e, AppendProperties
  <2>i. /\ ss \in Seq(Segment) /\ Len(ss) = n + 1 /\ ss[n + 1] = seg
        /\ \A i \in 1 .. n : ss[i] = segments[i]
    BY <2>a, <2>f, AppendProperties
  <2>j. <<>> \in Seq(IndexEntry)
    BY EmptySeq
  <2>k. /\ xs \in Seq(Seq(IndexEntry)) /\ Len(xs) = n + 1 /\ xs[n + 1] = <<>>
         /\ \A i \in 1 .. n : xs[i] = indexes[i]
    BY <2>a, <2>j, AppendProperties
  <2>l. SegmentOk(seg, <<>>, new)
    <3>1. Len(new.batches) = 0 /\ DOMAIN <<>> = {}
      BY <2>e, EmptySeq
    <3>2. IndexOk(<<>>, new.batches, Len(new.batches))
      BY <3>1 DEF IndexOk
    <3> QED BY <3>2, <2>e, <2>f, <2>g DEF SegmentOk
  <2> HIDE DEF fs, ss, xs
  <2>m. \A i \in 1 .. n + 1 : SegmentOk(ss[i], xs[i], fs[i])
    <3> TAKE i \in 1 .. n + 1
    <3>1. i \in 1 .. n \/ i = n + 1
      BY <2>b
    <3> QED BY <3>1, <2>a, <2>h, <2>i, <2>k, <2>l
  <2>n. Describes(fs, ss, xs, next_offset)
    BY <2>a, <2>b, <2>d, <2>g, <2>h, <2>i, <2>k, <2>m DEF Describes
  <2>o. FilesFor(p) = fs /\ SegmentsFor(p) = ss /\ IndexesFor(p) = xs
    BY <1>3 DEF FilesFor, SegmentsFor, IndexesFor, fs, ss, xs, new, seg
  <2> QED BY <1>0, <2>n, <2>o
<1> QED BY <1>2, <1>3

\* The tail that a write of n bytes leaves, whole or short, is a tail.
LEMMA TailTypes ==
    ASSUME NEW t \in TailBytes, NEW k \in Nat, NEW n \in Nat
    PROVE  Overwritten(t, n) \in TailBytes /\ ShortWritten(t, k, n) \subseteq TailBytes
<1>1. t.len \in Nat /\ t.torn \in BOOLEAN
  BY DEF TailBytes
<1>2. Overwritten(t, n) \in TailBytes
  BY <1>1 DEF Overwritten, NoTail, TailBytes
<1>3. ASSUME NEW u \in ShortWritten(t, k, n)
      PROVE  u \in TailBytes
  <2>a. PICK len \in Nat : u \in [len : {len}, torn : BOOLEAN]
    BY <1>1, <1>3 DEF ShortWritten
  <2> QED BY <2>a DEF TailBytes
<1> QED BY <1>2, <1>3

\* A short write changes the tail of the active file and nothing else.
LEMMA TailDescribes ==
    ASSUME NEW fs, NEW ss, NEW xs, NEW next, Describes(fs, ss, xs, next),
           NEW t \in TailBytes
    PROVE  Describes([fs EXCEPT ![Len(ss)].tail = t], ss, xs, next)
<1> DEFINE n == Len(fs)
           g == [fs[n] EXCEPT !.tail = t]
           gs == [fs EXCEPT ![n] = g]
<1>1. fs \in Seq(File) /\ n > 0 /\ Len(ss) = n /\ FilesOk(fs)
  BY DEF Describes
<1>2. n \in Nat /\ n \in 1 .. n /\ DOMAIN fs = 1 .. n /\ \A i \in 1 .. n : fs[i] \in File
  <2>a. n \in Nat /\ DOMAIN fs = 1 .. n
    BY <1>1, LenProperties
  <2> QED BY <2>a, <1>1, ElementOfSeq
<1>3. /\ g \in File /\ g.base = fs[n].base /\ g.batches = fs[n].batches
      /\ g.synced = fs[n].synced
  BY <1>2 DEF File
<1> HIDE DEF g
<1>4. /\ gs \in Seq(File) /\ Len(gs) = n
      /\ \A i \in 1 .. n : gs[i] = IF i = n THEN g ELSE fs[i]
  BY <1>1, <1>2, <1>3, ExceptSeq
<1>5. \A i \in 1 .. n : fs[i].synced <= Len(fs[i].batches)
  BY <1>1, <1>2 DEF FilesOk, BatchesOk
<1>6. [fs EXCEPT ![Len(ss)].tail = t] = gs
  BY <1>1 DEF g
<1> HIDE DEF gs
<1>7. \A i \in 1 .. n : /\ gs[i].base = fs[i].base
                        /\ gs[i].batches = fs[i].batches
                        /\ gs[i].synced <= Len(fs[i].batches)
  BY <1>3, <1>4, <1>5
<1> QED BY <1>4, <1>6, <1>7, SameBatches

\* A whole batch written at the end of the log: MaybeAppend accepts it and memory
\* describes the longer file.
LEMMA WriteDescribes ==
    ASSUME NEW fs, NEW ss, NEW xs, NEW next, Describes(fs, ss, xs, next),
           NEW b \in Batch, b.pos = ss[Len(ss)].wpos, b.base = next,
           NEW t \in TailBytes
    PROVE  LET n == Len(ss)
               base == ss[n].base
           IN  /\ MaybeAppendOk(xs[n], base, b.base, b.pos)
               /\ Describes([fs EXCEPT ![n].batches = Append(@, b), ![n].tail = t],
                            [ss EXCEPT ![n].wpos = @ + Bytes(b)],
                            [xs EXCEPT ![n] = MaybeAppend(@, base, b.base, b.pos)],
                            next + Count(b))
<1> DEFINE n == Len(fs)
           f == fs[n]
           g == Longer(f, b, t)
           s == [ss[n] EXCEPT !.wpos = @ + Bytes(b)]
           x == MaybeAppend(xs[n], ss[n].base, b.base, b.pos)
           gs == [fs EXCEPT ![n] = g]
           sss == [ss EXCEPT ![n] = s]
           xss == [xs EXCEPT ![n] = x]
<1>1. /\ fs \in Seq(File) /\ ss \in Seq(Segment) /\ xs \in Seq(Seq(IndexEntry))
      /\ next \in Nat /\ n > 0 /\ Len(ss) = n /\ Len(xs) = n
      /\ FilesOk(fs) /\ next = FileEnd(fs[n])
      /\ \A i \in 1 .. n : SegmentOk(ss[i], xs[i], fs[i])
  BY DEF Describes
<1>2. /\ n \in Nat /\ n \in 1 .. n /\ DOMAIN fs = 1 .. n
      /\ \A i \in 1 .. n : /\ fs[i] \in File /\ ss[i] \in Segment
                           /\ xs[i] \in Seq(IndexEntry)
  <2>a. n \in Nat /\ DOMAIN fs = 1 .. n
    BY <1>1, LenProperties
  <2> QED BY <2>a, <1>1, ElementOfSeq
<1>3. /\ f \in File /\ BatchesOk(f) /\ f.batches \in Seq(Batch) /\ f.base \in Nat
      /\ ss[n].base = f.base /\ ss[n].wpos = FileBytes(f)
      /\ IndexOk(xs[n], f.batches, Len(f.batches))
  <2>a. f \in File /\ BatchesOk(f)
    BY <1>1, <1>2 DEF FilesOk
  <2>b. SegmentOk(ss[n], xs[n], f)
    BY <1>1, <1>2
  <2> QED BY <2>a, <2>b, FileEnds DEF SegmentOk
<1>4. b.pos = FileBytes(f) /\ b.base = FileEnd(f)
  BY <1>1, <1>3
<1>5. /\ g \in File /\ BatchesOk(g) /\ g.base = f.base
      /\ g.batches = Append(f.batches, b)
      /\ FileEnd(g) = EndOffset(b) /\ FileBytes(g) = EndPos(b)
  BY <1>3, <1>4, LongerOk
<1>6. /\ MaybeAppendOk(xs[n], ss[n].base, b.base, b.pos)
      /\ x \in Seq(IndexEntry)
      /\ IndexOk(x, g.batches, Len(g.batches))
  <2> DEFINE m == Len(f.batches)
             cs == g.batches
  <2>a. /\ m \in Nat /\ cs \in Seq(Batch) /\ Len(cs) = m + 1 /\ cs[m + 1] = b
        /\ \A j \in 1 .. m : cs[j] = f.batches[j]
    BY <1>3, <1>5, AppendProperties, LenProperties
  <2>b. \A j \in 1 .. m : /\ f.batches[j] \in Batch
                          /\ EndOffset(f.batches[j]) <= b.base
                          /\ EndPos(f.batches[j]) <= b.pos
    BY <1>3, <1>4, FileEnds, LenProperties
  <2>c. \A j \in 1 .. m : f.batches[j].base < b.base /\ f.batches[j].pos < b.pos
    <3> HIDE DEF m, cs, f, g, s, x, gs, sss, xss
    <3> TAKE j \in 1 .. m
    <3> DEFINE c == f.batches[j]
    <3>1. /\ c.pos \in Nat /\ c.base \in Nat /\ EndPos(c) \in Nat /\ EndOffset(c) \in Nat
          /\ c.pos < EndPos(c) /\ c.base < EndOffset(c)
      BY <2>b, BatchEnds
    <3>2. EndOffset(c) <= b.base /\ EndPos(c) <= b.pos /\ b.base \in Nat /\ b.pos \in Nat
      BY <2>b, BatchEnds
    <3> HIDE DEF c
    <3>3. c.base < b.base /\ c.pos < b.pos
      BY <3>1, <3>2
    <3> QED BY <3>3 DEF c
  <2>d. f.base <= b.base
    BY <1>3, <1>4, FileEnds
  <2> HIDE DEF m, cs, f, g
  <2>e. IndexOk(xs[n], cs, m)
    <3>1. IndexOk(xs[n], f.batches, m)
      BY <1>3 DEF m
    <3> QED BY <3>1, <2>a, IndexFrame
  <2>f. \A j \in 1 .. m : cs[j].base < cs[m + 1].base /\ cs[j].pos < cs[m + 1].pos
    BY <2>a, <2>c
  <2>g. xs[n] \in Seq(IndexEntry) /\ m + 1 <= Len(cs) /\ f.base <= cs[m + 1].base
    BY <1>2, <2>a, <2>d
  <2>h. /\ MaybeAppendOk(xs[n], f.base, cs[m + 1].base, cs[m + 1].pos)
        /\ MaybeAppend(xs[n], f.base, cs[m + 1].base, cs[m + 1].pos) \in Seq(IndexEntry)
        /\ IndexOk(MaybeAppend(xs[n], f.base, cs[m + 1].base, cs[m + 1].pos), cs, m + 1)
    BY <1>3, <2>a, <2>e, <2>f, <2>g, IndexGrows
  <2> QED BY <2>h, <2>a, <1>3 DEF cs
<1>7. s \in Segment /\ s.base = g.base /\ s.wpos = FileBytes(g)
  <2>a. Bytes(b) \in Nat
    BY BatchEnds
  <2>b. ss[n] \in Segment
    BY <1>2
  <2>c. s \in Segment /\ s.base = ss[n].base /\ s.wpos = ss[n].wpos + Bytes(b)
    BY <2>a, <2>b DEF Segment
  <2> HIDE DEF g, f, s
  <2> QED BY <2>c, <1>3, <1>4, <1>5 DEF EndPos
<1>8. SegmentOk(s, x, g)
  BY <1>6, <1>7 DEF SegmentOk
<1> HIDE DEF g, s, x
<1>9. /\ gs \in Seq(File) /\ Len(gs) = n
      /\ \A i \in 1 .. n : gs[i] = IF i = n THEN g ELSE fs[i]
  BY <1>1, <1>2, <1>5, ExceptSeq
<1>10. /\ sss \in Seq(Segment) /\ Len(sss) = n
       /\ \A i \in 1 .. n : sss[i] = IF i = n THEN s ELSE ss[i]
  BY <1>1, <1>2, <1>7, ExceptSeq
<1>11. /\ xss \in Seq(Seq(IndexEntry)) /\ Len(xss) = n
       /\ \A i \in 1 .. n : xss[i] = IF i = n THEN x ELSE xs[i]
  BY <1>1, <1>2, <1>6, ExceptSeq
<1>12. /\ gs = [fs EXCEPT ![n].batches = Append(@, b), ![n].tail = t]
       /\ sss = [ss EXCEPT ![n].wpos = @ + Bytes(b)]
       /\ xss = [xs EXCEPT ![n] = MaybeAppend(@, ss[n].base, b.base, b.pos)]
  <2>a. sss = [ss EXCEPT ![n].wpos = @ + Bytes(b)]
    BY DEF s
  <2>b. xss = [xs EXCEPT ![n] = MaybeAppend(@, ss[n].base, b.base, b.pos)]
    BY DEF x
  <2>c. gs = [fs EXCEPT ![n].batches = Append(@, b), ![n].tail = t]
    BY <1>1, <1>2 DEF g, Longer
  <2> QED BY <2>a, <2>b, <2>c
<1> HIDE DEF gs, sss, xss
<1>13. \A i \in 1 .. n : SegmentOk(sss[i], xss[i], gs[i])
  BY <1>1, <1>8, <1>9, <1>10, <1>11
<1>14. FilesOk(gs)
  <2>a. DOMAIN gs = 1 .. n
    BY <1>9, LenProperties
  <2>b. \A i \in 1 .. n : BatchesOk(gs[i])
    BY <1>1, <1>2, <1>5, <1>9 DEF FilesOk
  <2>c. ASSUME NEW i \in 1 .. n, NEW k \in 1 .. n, i < k
        PROVE  gs[i].base < gs[k].base /\ FileEnd(gs[i]) <= gs[k].base
    <3>1. fs[i].base < fs[k].base /\ FileEnd(fs[i]) <= fs[k].base
      BY <1>1, <1>2, <2>c DEF FilesOk
    <3>2. gs[i] = fs[i]
      <4> HIDE DEF n, f
      <4>0. n \in Nat
        BY <1>2
      <4>1. i # n
        BY <4>0, <2>c
      <4> QED BY <4>1, <1>9
    <3>3. gs[k].base = fs[k].base
      <4>1. CASE k = n
        <5>1. gs[k] = g /\ fs[k] = f
          BY <4>1, <1>9
        <5> QED BY <5>1, <1>5
      <4>2. CASE k # n
        BY <4>2, <1>9
      <4> QED BY <4>1, <4>2
    <3> QED BY <3>1, <3>2, <3>3
  <2> QED BY <2>a, <2>b, <2>c DEF FilesOk
<1>15. next + Count(b) \in Nat /\ next + Count(b) = FileEnd(gs[n])
  <2>a. gs[n] = g
    BY <1>2, <1>9
  <2>b. next + Count(b) = EndOffset(b) /\ Count(b) \in Nat
    BY BatchEnds DEF EndOffset
  <2> QED BY <2>a, <2>b, <1>1, <1>5
<1>16. Describes(gs, sss, xss, next + Count(b))
  BY <1>1, <1>9, <1>10, <1>11, <1>13, <1>14, <1>15 DEF Describes
<1> QED BY <1>1, <1>6, <1>12, <1>16

----------------------------------------
(* Every action keeps the invariant *)

\* The batch that Append(p) makes for the active segment.
LEMMA MadeBatch ==
    ASSUME NEW fs, NEW ss, NEW xs, Describes(fs, ss, xs, next_offset),
           NEW p \in Payloads
    PROVE  LET b == MakeRecordBatch(p, ss[Len(ss)].wpos)
           IN  /\ b \in Batch
               /\ b.pos = ss[Len(ss)].wpos /\ b.base = next_offset
               /\ Bytes(b) = HeaderBytes + PayloadBytes[p]
               /\ Bytes(b) \in Nat
               /\ fs[Len(ss)].tail \in TailBytes
               /\ Len(ss) \in 1 .. Len(fs)
<1>1. /\ fs \in Seq(File) /\ ss \in Seq(Segment) /\ next_offset \in Nat
      /\ Len(fs) > 0 /\ Len(ss) = Len(fs)
  BY DEF Describes
<1>2. Len(ss) \in Nat
  BY <1>1, LenProperties
<1>3. Len(ss) \in 1 .. Len(ss) /\ Len(ss) \in 1 .. Len(fs)
  BY <1>1, <1>2
<1>4. ss[Len(ss)] \in Segment /\ fs[Len(ss)] \in File
  BY <1>1, <1>3, ElementOfSeq
<1>5. ss[Len(ss)].wpos \in Nat /\ fs[Len(ss)].tail \in TailBytes
  BY <1>4 DEF Segment, File
<1> DEFINE w == ss[Len(ss)].wpos
           b == MakeRecordBatch(p, w)
<1> HIDE DEF w
<1>6. b \in Batch /\ b.pos = w /\ b.base = next_offset /\ b.payload = p
  BY <1>1, <1>5 DEF MakeRecordBatch, Batch, w
<1>7. Bytes(b) = HeaderBytes + PayloadBytes[p]
  BY <1>6 DEF Bytes
<1>8. Bytes(b) \in Nat
  BY <1>6, BatchEnds
<1> QED BY <1>3, <1>5, <1>6, <1>7, <1>8 DEF w

\* The update of AppendBatch and CrashInAppend, with the tail it leaves by name.
LEMMA TailNamed ==
    ASSUME NEW fs \in Seq(File), NEW n \in 1 .. Len(fs), NEW b, NEW k
    PROVE  [fs EXCEPT ![n].batches = Append(@, b), ![n].tail = Overwritten(@, k)]
           = [fs EXCEPT ![n].batches = Append(@, b), ![n].tail = Overwritten(fs[n].tail, k)]
<1>1. fs[n] \in File /\ n \in DOMAIN fs
  BY ElementOfSeq, LenProperties
<1>2. fs[n] \in [base : Nat, batches : Seq(Batch), tail : TailBytes, synced : Nat]
  BY <1>1 DEF File
<1> QED BY <1>1, <1>2

\* A successful Append (CommitLog::Append, with or without RollSegment) keeps
\* Inv: the batch lands at the end of the active file and the index follows.
LEMMA AppendBatchInv ==
    ASSUME Inv, NEW p \in Payloads, AppendBatch(p)
    PROVE  Inv'
<1> DEFINE n == Len(SegmentsFor(p))
           target == SegmentsFor(p)[n]
           b == MakeRecordBatch(p, target.wpos)
           t == Overwritten(FilesFor(p)[n].tail, Bytes(b))
<1>1. MayAppend(p) /\ phase' = phase /\ scan' = scan /\ flushed' = flushed
  BY DEF AppendBatch
<1>2. /\ Describes(FilesFor(p), SegmentsFor(p), IndexesFor(p), next_offset)
      /\ scan \in ScanType /\ flushed \subseteq Batch
  BY <1>1, RollDescribes
<1>3. /\ b \in Batch /\ b.pos = target.wpos /\ b.base = next_offset
      /\ Bytes(b) \in Nat /\ FilesFor(p)[n].tail \in TailBytes /\ n \in 1 .. Len(FilesFor(p))
  BY <1>2, MadeBatch
<1>4. t \in TailBytes
  <2> HIDE DEF n, b
  <2> QED BY <1>3, TailTypes
<1> HIDE DEF b, t
<1>5. /\ MaybeAppendOk(IndexesFor(p)[n], target.base, b.base, b.pos)
      /\ Describes([FilesFor(p) EXCEPT ![n].batches = Append(@, b), ![n].tail = t],
                   [SegmentsFor(p) EXCEPT ![n].wpos = @ + Bytes(b)],
                   [IndexesFor(p) EXCEPT ![n] = MaybeAppend(@, target.base, b.base, b.pos)],
                   next_offset + Count(b))
  BY <1>2, <1>3, <1>4, WriteDescribes
<1>6. /\ files' = [FilesFor(p) EXCEPT ![n].batches = Append(@, b),
                                      ![n].tail = Overwritten(@, Bytes(b))]
      /\ segments' = [SegmentsFor(p) EXCEPT ![n].wpos = @ + Bytes(b)]
      /\ indexes' = [IndexesFor(p) EXCEPT
                        ![n] = MaybeAppend(@, target.base, b.base, b.pos)]
      /\ next_offset' = IF MaybeAppendOk(IndexesFor(p)[n], target.base, b.base, b.pos)
                        THEN next_offset + Count(b) ELSE next_offset
  BY DEF AppendBatch, b
<1>7. [FilesFor(p) EXCEPT ![n].batches = Append(@, b), ![n].tail = Overwritten(@, Bytes(b))]
      = [FilesFor(p) EXCEPT ![n].batches = Append(@, b), ![n].tail = t]
  <2>a. FilesFor(p) \in Seq(File)
    BY <1>2 DEF Describes
  <2> QED BY <1>3, <2>a, TailNamed DEF t
<1>8. phase' \in {"open", "closed"}
  BY <1>1 DEF MayAppend
<1>9. Describes(files', segments', indexes', next_offset')
  BY <1>5, <1>6, <1>7
<1> QED BY <1>1, <1>2, <1>8, <1>9, DescribesOpen

\* An Append whose RollSegment fails may leave a new empty file behind and
\* keeps Inv.
LEMMA AppendRollFailsInv ==
    ASSUME Inv, NEW p \in Payloads, AppendRollFails(p)
    PROVE  Inv'
<1>1. /\ MayAppend(p) /\ phase' = phase /\ scan' = scan /\ flushed' = flushed
      /\ files' = FilesFor(p) /\ segments' = SegmentsFor(p) /\ indexes' = IndexesFor(p)
      /\ next_offset' = next_offset /\ phase = "open"
  BY DEF AppendRollFails, MayAppend
<1>2. /\ Describes(FilesFor(p), SegmentsFor(p), IndexesFor(p), next_offset)
      /\ scan \in ScanType /\ flushed \subseteq Batch
  BY <1>1, RollDescribes
<1> QED BY <1>1, <1>2, DescribesOpen

\* An Append whose write fails half-way leaves junk after the active file's
\* batches, past next_position_, and keeps Inv.
LEMMA AppendWriteFailsInv ==
    ASSUME Inv, NEW p \in Payloads,
           NEW k \in 1 .. HeaderBytes + PayloadBytes[p] - 1, AppendWriteFails(p, k)
    PROVE  Inv'
<1> DEFINE n == Len(SegmentsFor(p))
           size == HeaderBytes + PayloadBytes[p]
<1>1. /\ MayAppend(p) /\ phase' = phase /\ scan' = scan /\ flushed' = flushed
      /\ segments' = SegmentsFor(p) /\ indexes' = IndexesFor(p)
      /\ next_offset' = next_offset /\ phase = "open"
  BY DEF AppendWriteFails, MayAppend
<1>2. /\ Describes(FilesFor(p), SegmentsFor(p), IndexesFor(p), next_offset)
      /\ scan \in ScanType /\ flushed \subseteq Batch
  BY <1>1, RollDescribes
<1>3. FilesFor(p)[n].tail \in TailBytes /\ size \in Nat
  BY <1>2, MadeBatch
<1>4. PICK t \in ShortWritten(FilesFor(p)[n].tail, k, size) :
         files' = [FilesFor(p) EXCEPT ![n].tail = t]
  BY DEF AppendWriteFails
<1>5. k \in Nat
  OBVIOUS
<1>6. t \in TailBytes
  <2> HIDE DEF n, size
  <2> QED BY <1>3, <1>4, <1>5, TailTypes
<1>7. Describes(files', segments', indexes', next_offset')
  BY <1>1, <1>2, <1>4, <1>6, TailDescribes
<1> QED BY <1>1, <1>2, <1>7, DescribesOpen

\* A process that dies inside Append keeps Inv: memory is gone and the file ends
\* in a torn or a whole batch.
LEMMA CrashInAppendInv ==
    ASSUME Inv, NEW p \in Payloads,
           NEW k \in 0 .. HeaderBytes + PayloadBytes[p], CrashInAppend(p, k)
    PROVE  Inv'
<1> DEFINE n == Len(SegmentsFor(p))
           target == SegmentsFor(p)[n]
           b == MakeRecordBatch(p, target.wpos)
<1>1. MayAppend(p) /\ Abandon /\ phase = "open"
  BY DEF CrashInAppend, MayAppend
<1>2. Describes(FilesFor(p), SegmentsFor(p), IndexesFor(p), next_offset)
  BY <1>1, RollDescribes
<1>3. /\ b \in Batch /\ b.pos = target.wpos /\ b.base = next_offset
      /\ Bytes(b) \in Nat /\ FilesFor(p)[n].tail \in TailBytes
      /\ n \in 1 .. Len(FilesFor(p))
  BY <1>2, MadeBatch
<1>4. k \in Nat
  <2>a. HeaderBytes + PayloadBytes[p] \in Nat
    BY ConstantsAssumption
  <2> QED BY <2>a
<1>5. files' \in Seq(File) /\ FilesOk(files')
  <2>a. CASE k = Bytes(b)
    <3> DEFINE t == Overwritten(FilesFor(p)[n].tail, k)
    <3>1. t \in TailBytes
      <4> HIDE DEF n
      <4> QED BY <1>3, <1>4, TailTypes
    <3>2. files' = [FilesFor(p) EXCEPT ![n].batches = Append(@, b),
                                       ![n].tail = Overwritten(@, k)]
      BY <2>a DEF CrashInAppend
    <3> HIDE DEF b, t
    <3>3. [FilesFor(p) EXCEPT ![n].batches = Append(@, b), ![n].tail = Overwritten(@, k)]
          = [FilesFor(p) EXCEPT ![n].batches = Append(@, b), ![n].tail = t]
      <4>1. FilesFor(p) \in Seq(File)
        BY <1>2 DEF Describes
      <4> QED BY <1>3, <4>1, TailNamed DEF t
    <3>4. Describes([FilesFor(p) EXCEPT ![n].batches = Append(@, b), ![n].tail = t],
                    [SegmentsFor(p) EXCEPT ![n].wpos = @ + Bytes(b)],
                    [IndexesFor(p) EXCEPT ![n] = MaybeAppend(@, target.base, b.base, b.pos)],
                    next_offset + Count(b))
      BY <1>2, <1>3, <3>1, WriteDescribes
    <3> QED BY <3>2, <3>3, <3>4 DEF Describes
  <2>b. CASE k # Bytes(b) /\ k = 0
    <3>1. files' = FilesFor(p)
      BY <2>b DEF CrashInAppend
    <3> QED BY <3>1, <1>2 DEF Describes
  <2>c. CASE k # Bytes(b) /\ k # 0
    <3>1. PICK t \in ShortWritten(FilesFor(p)[n].tail, k, Bytes(b)) :
             files' = [FilesFor(p) EXCEPT ![n].tail = t]
      BY <2>c DEF CrashInAppend
    <3>2. t \in TailBytes
      <4> HIDE DEF n, b
      <4> QED BY <1>3, <1>4, <3>1, TailTypes
    <3>3. Describes(files', SegmentsFor(p), IndexesFor(p), next_offset)
      BY <1>2, <3>1, <3>2, TailDescribes
    <3> QED BY <3>3 DEF Describes
  <2> QED BY <2>a, <2>b, <2>c
<1> QED BY <1>1, <1>5, AbandonOk

\* Syncing the first k files only moves their sync marks, to the last batch.
LEMMA SyncedFiles ==
    ASSUME Inv, NEW k
    PROVE  /\ FirstSynced(k) \in Seq(File) /\ Len(FirstSynced(k)) = Len(files)
           /\ \A i \in 1 .. Len(files) :
                 /\ FirstSynced(k)[i].base = files[i].base
                 /\ FirstSynced(k)[i].batches = files[i].batches
                 /\ FirstSynced(k)[i].synced <= Len(files[i].batches)
<1> DEFINE n == Len(files)
           gs == FirstSynced(k)
           mark(f) == [f EXCEPT !.synced = Len(f.batches)]
<1>1. files \in Seq(File) /\ n \in Nat /\ DOMAIN files = 1 .. n
  BY LenProperties DEF Inv, TypeOK
<1>2. \A i \in 1 .. n : /\ files[i] \in File
                        /\ files[i].synced <= Len(files[i].batches)
  <2>a. \A i \in 1 .. n : files[i] \in File
    BY <1>1, ElementOfSeq
  <2> QED BY <2>a, <1>1 DEF Inv, Layout, FilesOk, BatchesOk
<1>3. ASSUME NEW f \in File
      PROVE  /\ mark(f) \in File /\ mark(f).base = f.base /\ mark(f).batches = f.batches
             /\ mark(f).synced <= Len(f.batches)
  <2>a. f.batches \in Seq(Batch)
    BY DEF File
  <2>b. Len(f.batches) \in Nat
    BY <2>a, LenProperties
  <2> QED BY <2>b DEF File
<1>4. gs = [i \in 1 .. n |-> IF i <= k THEN mark(files[i]) ELSE files[i]]
  BY <1>1 DEF FirstSynced
<1> HIDE DEF gs, mark
<1>5. \A i \in 1 .. n : /\ gs[i] \in File /\ gs[i].base = files[i].base
                        /\ gs[i].batches = files[i].batches
                        /\ gs[i].synced <= Len(files[i].batches)
  <2> TAKE i \in 1 .. n
  <2>a. gs[i] = mark(files[i]) \/ gs[i] = files[i]
    BY <1>4
  <2> QED BY <2>a, <1>2, <1>3
<1>6. gs \in [1 .. n -> File]
  BY <1>4, <1>5
<1>7. gs \in Seq(File) /\ Len(gs) = n
  BY <1>1, <1>6
<1> QED BY <1>5, <1>7 DEF gs

\* CommitLog::Flush, complete or stopped by a failing fsync, keeps Inv.
LEMMA FlushStepInv ==
    ASSUME Inv, Flush \/ \E k \in 0 .. Len(files) : FlushFails(k)
    PROVE  Inv'
<1>1. /\ phase = "open" /\ scan \in ScanType /\ flushed \subseteq Batch
  BY DEF Flush, FlushFails, Inv, TypeOK
<1>2. Describes(files, segments, indexes, next_offset)
  BY <1>1, OpenDescribes
<1>3. PICK k : files' = FirstSynced(k)
  BY DEF Flush, FlushFails
<1>4. /\ segments' = segments /\ indexes' = indexes /\ next_offset' = next_offset
      /\ phase' = phase /\ scan' = scan
  BY DEF Flush, FlushFails, memory
<1>5. Describes(files', segments', indexes', next_offset')
  <2>a. Describes(FirstSynced(k), segments, indexes, next_offset)
    BY <1>2, SyncedFiles, SameBatches
  <2> QED BY <2>a, <1>3, <1>4
<1>6. flushed' \subseteq Batch
  <2>a. StoredBatches \subseteq Batch
    <3>1. files \in Seq(File)
      BY DEF Inv, TypeOK
    <3>2. \A i \in DOMAIN files : files[i].batches \in Seq(Batch)
      <4>1. \A i \in DOMAIN files : files[i] \in File
        BY <3>1, LenProperties, ElementOfSeq
      <4> QED BY <4>1 DEF File
    <3>3. \A i \in DOMAIN files : \A j \in DOMAIN files[i].batches : files[i].batches[j] \in Batch
      BY <3>2, LenProperties, ElementOfSeq
    <3> QED BY <3>3 DEF StoredBatches
  <2>b. flushed' = StoredBatches \/ flushed' = flushed
    BY DEF Flush, FlushFails
  <2> QED BY <2>a, <2>b, <1>1
<1> QED BY <1>1, <1>4, <1>5, <1>6, DescribesOpen

\* CommitLog::Close, complete or stopped by an error, keeps Inv.
LEMMA CloseStepInv ==
    ASSUME Inv, Close \/ \E k \in 1 .. Len(segments) : CloseFails(k)
    PROVE  Inv'
<1>1. /\ phase = "open" /\ scan \in ScanType /\ flushed \subseteq Batch
      /\ files' = files /\ indexes' = indexes /\ next_offset' = next_offset
      /\ scan' = scan /\ flushed' = flushed
      /\ phase' \in {"open", "closed"}
  BY DEF Close, CloseFails, Inv, TypeOK
<1>2. /\ files \in Seq(File) /\ segments \in Seq(Segment)
      /\ indexes \in Seq(Seq(IndexEntry)) /\ next_offset \in Nat
      /\ Len(files) > 0 /\ Len(segments) = Len(files) /\ Len(indexes) = Len(files)
      /\ FilesOk(files) /\ next_offset = FileEnd(files[Len(files)])
      /\ \A i \in 1 .. Len(files) : SegmentOk(segments[i], indexes[i], files[i])
  BY <1>1, OpenDescribes DEF Describes
<1>3. /\ DOMAIN segments = 1 .. Len(files) /\ Len(files) \in Nat
      /\ \A i \in 1 .. Len(files) : segments[i] \in Segment
  BY <1>2, LenProperties, ElementOfSeq
<1>4. PICK c \in [1 .. Len(files) -> BOOLEAN] :
         segments' = [i \in DOMAIN segments |-> [segments[i] EXCEPT !.closed = c[i]]]
  <2>a. CASE Close
    <3>1. [i \in 1 .. Len(files) |-> TRUE] \in [1 .. Len(files) -> BOOLEAN]
      OBVIOUS
    <3> QED BY <2>a, <3>1, <1>3 DEF Close
  <2>b. CASE \E k \in 1 .. Len(segments) : CloseFails(k)
    <3>1. PICK k \in 1 .. Len(segments) : CloseFails(k)
      BY <2>b
    <3> DEFINE c == [i \in 1 .. Len(files) |-> segments[i].closed \/ i <= k]
    <3>2. c \in [1 .. Len(files) -> BOOLEAN]
      OBVIOUS
    <3>3. segments' = [i \in DOMAIN segments |-> [segments[i] EXCEPT !.closed = c[i]]]
      BY <3>1, <1>3 DEF CloseFails
    <3> QED BY <3>2, <3>3
  <2> QED BY <2>a, <2>b
<1>5. \A i \in 1 .. Len(files) :
         /\ segments'[i] \in Segment
         /\ segments'[i].base = segments[i].base
         /\ segments'[i].wpos = segments[i].wpos
  BY <1>3, <1>4 DEF Segment
<1>6. segments' \in Seq(Segment) /\ Len(segments') = Len(files)
  <2>a. segments' \in [1 .. Len(files) -> Segment]
    BY <1>3, <1>4, <1>5
  <2> QED BY <2>a, <1>3
<1>7. \A i \in 1 .. Len(files) : SegmentOk(segments'[i], indexes'[i], files'[i])
  BY <1>1, <1>2, <1>5 DEF SegmentOk
<1>8. Describes(files', segments', indexes', next_offset')
  BY <1>1, <1>2, <1>6, <1>7 DEF Describes
<1> QED BY <1>1, <1>8, DescribesOpen

\* The facts the invariant gives while LoadOrCreateSegments runs.
LEMMA OpeningFacts ==
    ASSUME Inv, phase = "opening"
    PROVE  LET f == files[Current]
           IN  /\ files \in Seq(File) /\ segments \in Seq(Segment)
               /\ indexes \in Seq(Seq(IndexEntry)) /\ scan \in ScanType
               /\ scan.n \in Nat /\ scan.index \in Seq(IndexEntry) /\ scan.next \in Nat
               /\ next_offset \in Nat /\ flushed \subseteq Batch
               /\ Len(segments) \in Nat /\ Len(files) \in Nat
               /\ Len(indexes) = Len(segments)
               /\ Current \in 1 .. Len(files) /\ FilesOk(files)
               /\ \A i \in 1 .. Len(segments) : SegmentOk(segments[i], indexes[i], files[i])
               /\ next_offset = IF Len(segments) = 0 THEN 0 ELSE FileEnd(files[Len(segments)])
               /\ f \in File /\ f.batches \in Seq(Batch) /\ BatchesOk(f)
               /\ Len(f.batches) \in Nat /\ f.base \in Nat
               /\ scan.n <= Len(f.batches)
               /\ IndexOk(scan.index, f.batches, scan.n)
               /\ scan.next = IF scan.n = 0 THEN f.base ELSE EndOffset(f.batches[scan.n])
<1>1. /\ files \in Seq(File) /\ segments \in Seq(Segment)
      /\ indexes \in Seq(Seq(IndexEntry)) /\ scan \in ScanType
      /\ next_offset \in Nat /\ flushed \subseteq Batch
  BY DEF Inv, TypeOK, Segment
<1>2. scan.n \in Nat /\ scan.index \in Seq(IndexEntry) /\ scan.next \in Nat
  BY <1>1 DEF ScanType
<1>3. /\ Len(segments) \in Nat /\ Len(files) \in Nat /\ DOMAIN segments = 1 .. Len(segments)
      /\ DOMAIN files = 1 .. Len(files) /\ (segments = <<>> <=> Len(segments) = 0)
  BY <1>1, LenProperties, EmptySeq
<1>4. /\ FilesOk(files) /\ Len(indexes) = Len(segments)
      /\ \A i \in DOMAIN segments : SegmentOk(segments[i], indexes[i], files[i])
      /\ Len(segments) < Len(files)
      /\ next_offset = IF segments = <<>> THEN 0 ELSE FileEnd(files[Len(segments)])
      /\ scan.n <= Len(files[Current].batches)
      /\ IndexOk(scan.index, files[Current].batches, scan.n)
      /\ scan.next = IF scan.n = 0 THEN files[Current].base
                     ELSE EndOffset(files[Current].batches[scan.n])
  BY DEF Inv, Layout, MemoryOk
<1>5. Current \in 1 .. Len(files)
  BY <1>3, <1>4 DEF Current
<1>6. files[Current] \in File /\ BatchesOk(files[Current])
  BY <1>1, <1>3, <1>4, <1>5, ElementOfSeq DEF FilesOk
<1>7. files[Current].batches \in Seq(Batch) /\ files[Current].base \in Nat
  BY <1>6, FileEnds
<1>8. Len(files[Current].batches) \in Nat
  BY <1>7, LenProperties
<1> QED BY <1>1, <1>2, <1>3, <1>4, <1>5, <1>6, <1>7, <1>8

\* LoadOrCreateSegments on an empty directory keeps Inv.
LEMMA OpenEmptyInv ==
    ASSUME Inv, OpenEmpty \/ OpenEmptyFails
    PROVE  Inv'
<1>1. /\ phase = "down" /\ files' = <<NewFile(0)>> /\ flushed' = flushed /\ scan' = scan
      /\ next_offset' = next_offset
  BY DEF OpenEmpty, OpenEmptyFails, memory
<1>2. /\ scan \in ScanType /\ flushed \subseteq Batch
      /\ segments = <<>> /\ next_offset = 0 /\ Len(indexes) = Len(segments)
      /\ segments \in Seq(Segment) /\ indexes \in Seq(Seq(IndexEntry))
  BY <1>1 DEF Inv, TypeOK, Layout, MemoryOk, Segment
<1> DEFINE new == NewFile(0)
<1>3. new \in File /\ new.base = 0 /\ new.batches = <<>> /\ new.synced = 0
  BY EmptySeq DEF NewFile, NoTail, TailBytes, File
<1>4. BatchesOk(new) /\ FileEnd(new) = 0 /\ FileBytes(new) = 0
  <2>a. Len(new.batches) = 0 /\ DOMAIN new.batches = {}
    BY <1>3, EmptySeq
  <2> QED BY <2>a, <1>3 DEF BatchesOk, FileEnd, FileBytes
<1> HIDE DEF new
<1>5. /\ <<new>> \in Seq(File) /\ Len(<<new>>) = 1 /\ <<new>>[1] = new
      /\ DOMAIN <<new>> = {1}
  BY <1>3
<1>6. files' \in Seq(File) /\ FilesOk(files') /\ files' = <<new>>
  BY <1>1, <1>4, <1>5 DEF FilesOk, new
<1>7. CASE OpenEmpty
  <2> DEFINE seg == OpenSegment(0, 0)
             none == <<>>
  <2>a. segments' = <<seg>> /\ indexes' = <<none>> /\ phase' = "open"
    BY <1>7 DEF OpenEmpty
  <2>b. seg \in Segment /\ seg.base = 0 /\ seg.wpos = 0 /\ none \in Seq(IndexEntry)
    BY EmptySeq DEF OpenSegment, Segment
  <2>c. SegmentOk(seg, none, new)
    <3>1. Len(new.batches) = 0 /\ DOMAIN none = {}
      BY <1>3, EmptySeq
    <3>2. IndexOk(none, new.batches, Len(new.batches))
      BY <3>1 DEF IndexOk
    <3> QED BY <3>2, <2>b, <1>3, <1>4 DEF SegmentOk
  <2> HIDE DEF seg, none
  <2>d. /\ <<seg>> \in Seq(Segment) /\ Len(<<seg>>) = 1 /\ <<seg>>[1] = seg
        /\ <<none>> \in Seq(Seq(IndexEntry)) /\ Len(<<none>>) = 1 /\ <<none>>[1] = none
    BY <2>b
  <2>e. \A i \in 1 .. 1 : SegmentOk(segments'[i], indexes'[i], files'[i])
    BY <2>a, <2>c, <2>d, <1>5, <1>6
  <2>f. Describes(files', segments', indexes', next_offset')
    BY <1>1, <1>2, <1>4, <1>5, <1>6, <2>a, <2>d, <2>e DEF Describes
  <2> QED BY <2>a, <2>f, <1>1, <1>2, DescribesOpen
<1>8. CASE OpenEmptyFails
  <2>a. segments' = segments /\ indexes' = indexes /\ phase' = "down"
    BY <1>1, <1>8 DEF OpenEmptyFails, memory
  <2>b. TypeOK'
    BY <1>1, <1>2, <1>6, <2>a DEF TypeOK, Segment
  <2>c. DOMAIN segments' = {}
    BY <2>a, <1>2, EmptySeq
  <2>d. MemoryOk'
    BY <1>1, <1>2, <2>a, <2>c DEF MemoryOk
  <2> QED BY <2>b, <2>d, <1>6 DEF Inv, Layout
<1> QED BY <1>7, <1>8

\* Recovery of the next file starts with an empty scan that is right for it.
LEMMA ScanStarts ==
    ASSUME NEW f \in File
    PROVE  LET s == ScanOf(f)
           IN  /\ s \in ScanType
               /\ s.n = 0 /\ s.n <= Len(f.batches)
               /\ IndexOk(s.index, f.batches, s.n)
               /\ s.next = f.base
<1>1. f.batches \in Seq(Batch) /\ f.base \in Nat
  BY DEF File
<1>2. Len(f.batches) \in Nat /\ DOMAIN <<>> = {}
  BY <1>1, LenProperties, EmptySeq
<1>3. IndexOk(<<>>, f.batches, 0)
  BY <1>2 DEF IndexOk
<1>4. ScanOf(f) \in ScanType
  BY <1>1, EmptySeq DEF ScanOf, ScanType
<1>5. ScanOf(f).n = 0 /\ ScanOf(f).index = <<>> /\ ScanOf(f).next = f.base
  BY DEF ScanOf
<1> QED BY <1>2, <1>3, <1>4, <1>5

\* LoadOrCreateSegments that finds files and starts to scan the first keeps Inv.
LEMMA OpenExistingInv ==
    ASSUME Inv, OpenExisting
    PROVE  Inv'
<1>1. /\ phase = "down" /\ files # <<>> /\ phase' = "opening" /\ scan' = ScanOf(files[1])
      /\ files' = files /\ segments' = segments /\ indexes' = indexes
      /\ next_offset' = next_offset /\ flushed' = flushed
  BY DEF OpenExisting
<1>2. /\ files \in Seq(File) /\ segments = <<>> /\ next_offset = 0
      /\ Len(indexes) = Len(segments) /\ FilesOk(files)
      /\ \A i \in DOMAIN segments : SegmentOk(segments[i], indexes[i], files[i])
  BY <1>1 DEF Inv, TypeOK, Layout, MemoryOk
<1>3. Len(files) \in Nat /\ Len(files) > 0 /\ 1 \in 1 .. Len(files)
  <2>a. Len(files) \in Nat \ {0}
    BY <1>1, <1>2, EmptySeq
  <2> QED BY <2>a
<1>4. files[1] \in File /\ Len(segments) = 0 /\ Current' = 1
  BY <1>1, <1>2, <1>3, ElementOfSeq, EmptySeq DEF Current
<1>5. LET s == scan'
      IN  /\ s \in ScanType
          /\ s.n = 0 /\ s.n <= Len(files[1].batches)
          /\ IndexOk(s.index, files[1].batches, s.n)
          /\ s.next = files[1].base
  BY <1>1, <1>4, ScanStarts
<1>6. TypeOK'
  BY <1>1, <1>5 DEF TypeOK, Inv
<1>7. MemoryOk'
  BY <1>1, <1>2, <1>3, <1>4, <1>5 DEF MemoryOk
<1> QED BY <1>1, <1>2, <1>6, <1>7 DEF Inv, Layout

\* One turn of RecoverSegment's loop, which reads one batch, keeps Inv.
LEMMA RecoverBatchInv ==
    ASSUME Inv, RecoverBatch
    PROVE  Inv'
<1> DEFINE f == files[Current]
           bs == f.batches
           n == scan.n
           b == bs[n + 1]
<1>1. phase = "opening" /\ n < Len(bs) /\ files' = files
  BY DEF RecoverBatch
<1>2. /\ files \in Seq(File) /\ FilesOk(files)
      /\ n \in Nat /\ scan.index \in Seq(IndexEntry) /\ scan.next \in Nat
      /\ f \in File /\ bs \in Seq(Batch) /\ BatchesOk(f) /\ Len(bs) \in Nat /\ f.base \in Nat
      /\ IndexOk(scan.index, bs, n)
      /\ scan.next = IF n = 0 THEN f.base ELSE EndOffset(bs[n])
  BY <1>1, OpeningFacts
<1>3. n + 1 \in 1 .. Len(bs) /\ DOMAIN bs = 1 .. Len(bs)
  BY <1>1, <1>2, LenProperties
<1>4. \A j \in 1 .. Len(bs) :
         /\ bs[j] \in Batch /\ f.base <= bs[j].base
         /\ bs[j].base \in Nat /\ bs[j].pos \in Nat
         /\ EndOffset(bs[j]) \in Nat /\ EndPos(bs[j]) \in Nat
         /\ bs[j].base < EndOffset(bs[j]) /\ bs[j].pos < EndPos(bs[j])
  BY <1>2, <1>3, FileEnds, BatchEnds
<1>5. \A j \in 1 .. n : EndPos(bs[j]) <= b.pos /\ EndOffset(bs[j]) <= b.base
  <2> TAKE j \in 1 .. n
  <2>a. j \in DOMAIN bs /\ n + 1 \in DOMAIN bs /\ j < n + 1
    BY <1>1, <1>2, <1>3
  <2> QED BY <2>a, <1>2 DEF BatchesOk
<1> HIDE DEF f, bs, n, b
<1>6. \A j \in 1 .. n : bs[j].base < b.base /\ bs[j].pos < b.pos
  <2> TAKE j \in 1 .. n
  <2>a. j \in 1 .. Len(bs)
    BY <1>1, <1>2
  <2>b. b = bs[n + 1]
    BY DEF b
  <2> QED BY <2>a, <2>b, <1>3, <1>4, <1>5
<1>7. /\ MaybeAppendOk(scan.index, f.base, b.base, b.pos)
      /\ MaybeAppend(scan.index, f.base, b.base, b.pos) \in Seq(IndexEntry)
      /\ IndexOk(MaybeAppend(scan.index, f.base, b.base, b.pos), bs, n + 1)
  <2>a. n + 1 <= Len(bs) /\ f.base <= bs[n + 1].base
    BY <1>1, <1>2, <1>3, <1>4
  <2> QED BY <2>a, <1>2, <1>6, IndexGrows DEF b
<1>8. /\ scan' = [n |-> n + 1,
                  index |-> MaybeAppend(scan.index, f.base, b.base, b.pos),
                  next |-> IF EndOffset(b) > scan.next THEN EndOffset(b) ELSE scan.next]
      /\ segments' = segments /\ indexes' = indexes /\ next_offset' = next_offset
      /\ phase' = phase /\ flushed' = flushed
  BY <1>7 DEF RecoverBatch, f, bs, n, b
<1>9. EndOffset(b) \in Nat /\ EndOffset(b) > scan.next
  <2>a. /\ b = bs[n + 1] /\ EndOffset(b) \in Nat /\ b.base < EndOffset(b)
        /\ f.base <= b.base /\ b.base \in Nat
    BY <1>3, <1>4 DEF b
  <2>b. CASE n = 0
    BY <2>a, <2>b, <1>2
  <2>c. CASE n # 0
    <3>1. n \in 1 .. n /\ n \in 1 .. Len(bs)
      BY <2>c, <1>1, <1>2
    <3>2. scan.next = EndOffset(bs[n]) /\ EndOffset(bs[n]) <= b.base
      BY <2>c, <3>1, <1>2, <1>5
    <3> QED BY <2>a, <3>2, <1>2
  <2> QED BY <2>b, <2>c
<1>10. /\ scan' \in ScanType /\ scan'.n = n + 1 /\ scan'.next = EndOffset(b)
       /\ scan'.index = MaybeAppend(scan.index, f.base, b.base, b.pos)
  <2> DEFINE x == MaybeAppend(scan.index, f.base, b.base, b.pos)
  <2> HIDE DEF x
  <2>a. scan' = [n |-> n + 1, index |-> x, next |-> EndOffset(b)]
    BY <1>8, <1>9 DEF x
  <2>b. x \in Seq(IndexEntry)
    BY <1>7 DEF x
  <2>c. scan' \in ScanType
    BY <2>a, <2>b, <1>2, <1>9 DEF ScanType
  <2> QED BY <2>a, <2>c DEF x
<1>11. TypeOK'
  BY <1>1, <1>8, <1>10 DEF TypeOK, Inv
<1>12. MemoryOk'
  <2>a. Current' = Current /\ files'[Current'] = f
    BY <1>1, <1>8 DEF Current, f
  <2>b. /\ scan'.n <= Len(bs)
        /\ IndexOk(scan'.index, bs, scan'.n)
        /\ scan'.next = IF scan'.n = 0 THEN f.base ELSE EndOffset(bs[scan'.n])
    BY <1>1, <1>2, <1>7, <1>10 DEF b
  <2> QED BY <1>1, <1>8, <2>a, <2>b DEF MemoryOk, Inv, Layout, bs
<1> QED BY <1>1, <1>2, <1>11, <1>12 DEF Inv, Layout

\* A segment cut after the scanned batches joins the log, whether or not the scan
\* reached the last batch.
LEMMA SegmentRecoveredInv ==
    ASSUME Inv, phase = "opening", SegmentRecovered
    PROVE  Inv'
<1> DEFINE c == Current
           f == files[c]
           bs == f.batches
           n == scan.n
           g == [f EXCEPT !.batches = SubSeq(bs, 1, n), !.tail = NoTail,
                          !.synced = IF @ > n THEN n ELSE @]
           w == IF n = 0 THEN 0 ELSE EndPos(bs[n])
           seg == OpenSegment(f.base, w)
<1>1. /\ files \in Seq(File) /\ segments \in Seq(Segment)
      /\ indexes \in Seq(Seq(IndexEntry)) /\ scan \in ScanType
      /\ n \in Nat /\ scan.index \in Seq(IndexEntry) /\ scan.next \in Nat
      /\ next_offset \in Nat /\ flushed \subseteq Batch
      /\ Len(segments) \in Nat /\ Len(files) \in Nat
      /\ Len(indexes) = Len(segments)
      /\ c \in 1 .. Len(files) /\ FilesOk(files) /\ c = Len(segments) + 1
      /\ \A i \in 1 .. Len(segments) : SegmentOk(segments[i], indexes[i], files[i])
      /\ next_offset = IF Len(segments) = 0 THEN 0 ELSE FileEnd(files[Len(segments)])
      /\ f \in File /\ bs \in Seq(Batch) /\ BatchesOk(f) /\ Len(bs) \in Nat /\ f.base \in Nat
      /\ n <= Len(bs)
      /\ IndexOk(scan.index, bs, n)
      /\ scan.next = IF n = 0 THEN f.base ELSE EndOffset(bs[n])
  BY OpeningFacts DEF Current
<1>2. n \in 0 .. Len(bs) /\ (n # 0 => n \in 1 .. Len(bs) /\ bs[n] \in Batch)
  BY <1>1, ElementOfSeq
<1>3. /\ SubSeq(bs, 1, n) \in Seq(Batch) /\ Len(SubSeq(bs, 1, n)) = n
      /\ \A j \in 1 .. n : SubSeq(bs, 1, n)[j] = bs[j]
  BY <1>1, <1>2, Prefix
<1>4. /\ g \in File /\ g.base = f.base /\ g.batches = SubSeq(bs, 1, n)
      /\ g.synced <= n /\ g.synced \in Nat
  <2> DEFINE cs == SubSeq(bs, 1, n)
  <2> HIDE DEF cs
  <2>a. g = [f EXCEPT !.batches = cs, !.tail = NoTail, !.synced = IF @ > n THEN n ELSE @]
    BY DEF cs
  <2>b. cs \in Seq(Batch) /\ NoTail \in TailBytes
    BY <1>3 DEF cs, NoTail, TailBytes
  <2>c. f \in [base : Nat, batches : Seq(Batch), tail : TailBytes, synced : Nat]
    BY <1>1 DEF File
  <2> DEFINE y == IF f.synced > n THEN n ELSE f.synced
  <2>d. y \in Nat /\ y <= n
    BY <1>1, <2>c
  <2>e. g = [f EXCEPT !.batches = cs, !.tail = NoTail, !.synced = y]
    BY <2>a, <2>c
  <2> HIDE DEF g, f, y, n, bs
  <2>f. g \in File /\ g.base = f.base /\ g.batches = cs /\ g.synced = y
    BY <2>b, <2>c, <2>d, <2>e DEF File
  <2> QED BY <2>d, <2>f DEF cs
<1>5. CutOf(g, f)
  BY <1>2, <1>4 DEF CutOf
<1>6. BatchesOk(g)
  BY <1>1, <1>5, CutOk
<1>7. FileBytes(g) = w /\ FileEnd(g) = scan.next /\ w \in Nat
  <2>a. g.batches = <<>> <=> n = 0
    BY <1>3, <1>4, EmptySeq
  <2>b. n # 0 => g.batches[Len(g.batches)] = bs[n]
    BY <1>1, <1>3, <1>4
  <2>c. n # 0 => EndPos(bs[n]) \in Nat
    BY <1>2, BatchEnds
  <2> HIDE DEF g, bs, n, f
  <2> QED BY <2>a, <2>b, <2>c, <1>1, <1>4 DEF FileBytes, FileEnd
<1>8. seg \in Segment /\ seg.base = g.base /\ seg.wpos = FileBytes(g)
  BY <1>1, <1>4, <1>7 DEF OpenSegment, Segment
<1>9. SegmentOk(seg, scan.index, g)
  <2> HIDE DEF g, f, n, bs
  <2>a. \A j \in 1 .. n : bs[j] = g.batches[j]
    BY <1>3, <1>4
  <2>b. n \in Nat /\ IndexOk(scan.index, bs, n)
    BY <1>1
  <2>c. IndexOk(scan.index, g.batches, n)
    BY <2>a, <2>b, IndexFrame
  <2> QED BY <2>c, <1>3, <1>4, <1>8 DEF SegmentOk
<1>10. /\ files' = [files EXCEPT ![c] = g]
       /\ segments' = Append(segments, seg)
       /\ indexes' = Append(indexes, scan.index)
       /\ next_offset' = IF scan.next > next_offset THEN scan.next ELSE next_offset
       /\ phase' = IF c = Len(files) THEN "open" ELSE "opening"
       /\ scan' = IF c = Len(files) THEN NoScan ELSE ScanOf(files[c + 1])
       /\ flushed' = flushed
  BY <1>1 DEF SegmentRecovered
<1> HIDE DEF g, seg, w
<1>11. /\ files' \in Seq(File) /\ Len(files') = Len(files)
       /\ \A i \in 1 .. Len(files) : files'[i] = IF i = c THEN g ELSE files[i]
  BY <1>1, <1>4, <1>10, ExceptSeq
<1>12. FilesOk(files')
  <2>a. \A i \in 1 .. Len(files) : CutOf(files'[i], files[i])
    <3> TAKE i \in 1 .. Len(files)
    <3>1. CASE i = c
      BY <3>1, <1>5, <1>11
    <3>2. CASE i # c
      <4>1. files'[i] = files[i] /\ files[i] \in File /\ BatchesOk(files[i])
        BY <3>2, <1>1, <1>11, ElementOfSeq, LenProperties DEF FilesOk
      <4>2. files[i].batches \in Seq(Batch) /\ files[i].synced <= Len(files[i].batches)
        BY <4>1, FileEnds DEF BatchesOk
      <4>3. /\ Len(files[i].batches) \in 0 .. Len(files[i].batches)
            /\ SubSeq(files[i].batches, 1, Len(files[i].batches)) = files[i].batches
        BY <4>2, LenProperties, SubSeqFull
      <4> QED BY <4>1, <4>2, <4>3 DEF CutOf
    <3> QED BY <3>1, <3>2
  <2>b. Len(files') <= Len(files)
    BY <1>1, <1>11
  <2> QED BY <2>a, <2>b, <1>1, <1>11, CutFilesOk
<1>13. next_offset' = scan.next /\ next_offset' = FileEnd(files'[c]) /\ next_offset' \in Nat
  <2>a. f.base <= scan.next
    <3>1. FileEnd(g) >= g.base
      BY <1>4, <1>6, FileEnds
    <3> QED BY <3>1, <1>1, <1>4, <1>7
  <2>b. next_offset <= f.base
    <3>1. CASE Len(segments) = 0
      BY <3>1, <1>1
    <3>2. CASE Len(segments) # 0
      <4>1. Len(segments) \in 1 .. Len(files) /\ Len(segments) < c /\ DOMAIN files = 1 .. Len(files)
        BY <3>2, <1>1, LenProperties
      <4>2. FileEnd(files[Len(segments)]) <= f.base
        BY <4>1, <1>1 DEF FilesOk
      <4> QED BY <4>2, <3>2, <1>1
    <3> QED BY <3>1, <3>2
  <2>c. next_offset' = scan.next
    BY <2>a, <2>b, <1>1, <1>10, SMTT(30)
  <2>d. files'[c] = g
    BY <1>1, <1>11
  <2> QED BY <2>c, <2>d, <1>1, <1>7
<1>14. /\ segments' \in Seq(Segment) /\ Len(segments') = c /\ segments'[c] = seg
       /\ \A i \in 1 .. Len(segments) : segments'[i] = segments[i]
  BY <1>1, <1>8, <1>10, AppendProperties
<1>15. /\ indexes' \in Seq(Seq(IndexEntry)) /\ Len(indexes') = c /\ indexes'[c] = scan.index
       /\ \A i \in 1 .. Len(segments) : indexes'[i] = indexes[i]
  BY <1>1, <1>10, AppendProperties
<1>16. \A i \in 1 .. c : SegmentOk(segments'[i], indexes'[i], files'[i])
  <2> HIDE DEF c, f
  <2> TAKE i \in 1 .. c
  <2>a. CASE i = c
    BY <2>a, <1>1, <1>9, <1>11, <1>14, <1>15
  <2>b. CASE i # c
    <3>1. i \in 1 .. Len(segments) /\ i \in 1 .. Len(files)
      BY <2>b, <1>1
    <3> QED BY <3>1, <2>b, <1>1, <1>11, <1>14, <1>15
  <2> QED BY <2>a, <2>b
<1>17. CASE c = Len(files)
  <2>a. Describes(files', segments', indexes', next_offset')
    BY <1>1, <1>11, <1>12, <1>13, <1>14, <1>15, <1>16, <1>17 DEF Describes
  <2>b. phase' = "open" /\ scan' = NoScan
    BY <1>10, <1>17
  <2>c. NoScan \in ScanType
    BY EmptySeq DEF NoScan, ScanType
  <2> QED BY <1>1, <1>10, <2>a, <2>b, <2>c, DescribesOpen
<1>18. CASE c # Len(files)
  <2> DEFINE h == files[c + 1]
  <2> HIDE DEF c
  <2>a. c + 1 \in 1 .. Len(files) /\ c \in Nat /\ c < Len(files)
    BY <1>1, <1>18
  <2>b. h \in File /\ files'[c + 1] = h /\ Current' = c + 1
    <3>1. h \in File
      BY <2>a, <1>1, ElementOfSeq
    <3>2. files'[c + 1] = h
      BY <2>a, <1>11
    <3>3. Current' = c + 1
      BY <1>14 DEF Current
    <3> QED BY <3>1, <3>2, <3>3
  <2>c. phase' = "opening" /\ scan' = ScanOf(h)
    BY <1>10, <1>18
  <2>d. /\ scan' \in ScanType /\ scan'.n = 0 /\ scan'.n <= Len(h.batches)
        /\ IndexOk(scan'.index, h.batches, scan'.n)
        /\ scan'.next = h.base
    BY <2>b, <2>c, ScanStarts, SMTT(30)
  <2>e. TypeOK'
    BY <1>1, <1>10, <1>11, <1>13, <1>14, <1>15, <2>c, <2>d DEF TypeOK, Segment
  <2>f. DOMAIN segments' = 1 .. c /\ segments' # <<>>
    BY <2>a, <1>1, <1>14, LenProperties, EmptySeq
  <2>g. MemoryOk'
    <3>1. /\ Len(segments') < Len(files')
          /\ next_offset' = IF segments' = <<>> THEN 0 ELSE FileEnd(files'[Len(segments')])
      BY <2>a, <2>f, <1>11, <1>13, <1>14
    <3>2. LET k == files'[Current']
          IN  /\ scan'.n <= Len(k.batches)
              /\ IndexOk(scan'.index, k.batches, scan'.n)
              /\ scan'.next = IF scan'.n = 0 THEN k.base ELSE EndOffset(k.batches[scan'.n])
      BY <2>b, <2>d
    <3> QED BY <3>1, <3>2, <2>c, <2>f, <1>14, <1>15, <1>16 DEF MemoryOk
  <2> QED BY <2>e, <2>g, <1>12 DEF Inv, Layout
<1> QED BY <1>17, <1>18

\* A RecoverSegment that fails in Truncate or in the index keeps Inv.
LEMMA RecoverIoFailsInv ==
    ASSUME Inv, RecoverIoFails
    PROVE  Inv'
<1> DEFINE c == Current
           g == [files[c] EXCEPT !.tail = NoTail]
<1>1. phase = "opening" /\ Abandon
  BY DEF RecoverIoFails
<1>2. /\ files \in Seq(File) /\ FilesOk(files) /\ c \in 1 .. Len(files)
      /\ files[c] \in File /\ Len(files) \in Nat
  BY <1>1, OpeningFacts
<1>3. CASE files' = files
  BY <1>1, <1>2, <1>3, AbandonOk
<1>4. CASE files' = [files EXCEPT ![c].tail = NoTail]
  <2>a. /\ g \in File /\ g.base = files[c].base /\ g.batches = files[c].batches
        /\ g.synced = files[c].synced
    BY <1>2 DEF File, NoTail, TailBytes
  <2>b. files' = [files EXCEPT ![c] = g]
    BY <1>4
  <2> HIDE DEF g, c
  <2>c. /\ files' \in Seq(File) /\ Len(files') = Len(files)
        /\ \A i \in 1 .. Len(files) : files'[i] = IF i = c THEN g ELSE files[i]
    BY <1>2, <2>a, <2>b, ExceptSeq
  <2>d. \A i \in 1 .. Len(files) : CutOf(files'[i], files[i])
    <3> TAKE i \in 1 .. Len(files)
    <3>1. files[i] \in File /\ BatchesOk(files[i]) /\ files'[i] \in File
      BY <1>2, <2>c, ElementOfSeq, LenProperties DEF FilesOk
    <3>2. files[i].batches \in Seq(Batch) /\ files[i].synced <= Len(files[i].batches)
      BY <3>1, FileEnds DEF BatchesOk
    <3>3. /\ Len(files[i].batches) \in 0 .. Len(files[i].batches)
          /\ SubSeq(files[i].batches, 1, Len(files[i].batches)) = files[i].batches
      BY <3>2, LenProperties, SubSeqFull
    <3>4. /\ files'[i].base = files[i].base /\ files'[i].batches = files[i].batches
          /\ files'[i].synced = files[i].synced
      BY <2>a, <2>c
    <3> QED BY <3>1, <3>2, <3>3, <3>4 DEF CutOf
  <2>e. Len(files') <= Len(files)
    BY <1>2, <2>c
  <2> QED BY <1>1, <1>2, <2>c, <2>d, <2>e, CutFilesOk, AbandonOk
<1> QED BY <1>3, <1>4 DEF RecoverIoFails

\* A file that a power loss has spared in part is a cut of that file.
LEMMA SparedIsCut ==
    ASSUME NEW f \in File, NEW m \in 0 .. Len(f.batches), NEW t \in TailBytes
    PROVE  CutOf(Spared(f, m, t), f)
<1> DEFINE cs == SubSeq(f.batches, 1, m)
           g == Spared(f, m, t)
<1>1. f.batches \in Seq(Batch)
  BY DEF File
<1>2. cs \in Seq(Batch) /\ Len(f.batches) \in Nat
  BY <1>1, Prefix, LenProperties
<1>3. m \in Nat
  BY <1>2
<1>4. f \in [base : Nat, batches : Seq(Batch), tail : TailBytes, synced : Nat]
  BY DEF File
<1>5. g = [f EXCEPT !.batches = cs, !.tail = t, !.synced = m]
  BY <1>4 DEF Spared
<1> HIDE DEF cs, g
<1>6. g \in File /\ g.base = f.base /\ g.batches = cs /\ g.synced = m
  BY <1>2, <1>3, <1>4, <1>5 DEF File
<1> QED BY <1>3, <1>6 DEF CutOf, cs, g

\* An ordered power loss cuts the file c where it struck and drops the later ones.
LEMMA PowerLossCuts ==
    ASSUME files \in Seq(File), NEW c \in DOMAIN files, NEW m, NEW t, PowerLoss(c, m, t)
    PROVE  /\ files' \in Seq(File) /\ Len(files') = c /\ c \in 1 .. Len(files)
           /\ \A i \in 1 .. c : CutOf(files'[i], files[i])
           /\ \A i \in 1 .. c : i < c => files'[i].batches = files[i].batches
<1>2. /\ Len(files) \in Nat /\ DOMAIN files = 1 .. Len(files)
      /\ \A i \in 1 .. Len(files) : files[i] \in File
  BY LenProperties, ElementOfSeq
<1>3. c \in 1 .. Len(files) /\ \A i \in 1 .. c : i \in 1 .. Len(files)
  BY <1>2
<1>4. \A i \in 1 .. Len(files) :
         /\ files[i].tail \in TailBytes /\ files[i].synced \in Nat
         /\ files[i].batches \in Seq(Batch)
         /\ files[i] \in [base : Nat, batches : Seq(Batch), tail : TailBytes, synced : Nat]
  BY <1>2 DEF File
<1>5. /\ m \in files[c].synced .. Len(files[c].batches)
      /\ t \in LostTails \cup {files[c].tail}
      /\ files' = [i \in 1 .. c |->
                     IF i < c THEN Spared(files[i], Len(files[i].batches), files[i].tail)
                     ELSE Spared(files[c], m, t)]
  <2>a. t \in IF m = Len(files[c].batches) THEN {files[c].tail, NoTail} ELSE LostTails
    BY DEF PowerLoss
  <2>b. t \in LostTails \cup {files[c].tail}
    BY <2>a DEF LostTails
  <2> QED BY <2>b DEF PowerLoss
<1>6. t \in TailBytes
  <2>a. HeaderBytes \in Nat
    BY ConstantsAssumption
  <2>b. NoTail \in TailBytes /\ [len |-> HeaderBytes, torn |-> TRUE] \in TailBytes
    BY <2>a DEF NoTail, TailBytes
  <2> QED BY <2>b, <1>3, <1>4, <1>5 DEF LostTails
<1>7. \A i \in 1 .. Len(files) : Len(files[i].batches) \in Nat
  BY <1>4, LenProperties
<1>8. m \in 0 .. Len(files[c].batches)
  BY <1>3, <1>4, <1>5, <1>7
<1>9. ASSUME NEW i \in 1 .. c
      PROVE  /\ CutOf(files'[i], files[i])
             /\ i < c => files'[i].batches = files[i].batches
  <2>a. CASE i < c
    <3>1. files'[i] = Spared(files[i], Len(files[i].batches), files[i].tail)
      BY <1>5, <2>a
    <3>2. Len(files[i].batches) \in 0 .. Len(files[i].batches)
      BY <1>3, <1>7
    <3>3. CutOf(files'[i], files[i])
      BY <3>1, <3>2, <1>2, <1>3, <1>4, SparedIsCut
    <3>4. files'[i].batches = files[i].batches
      <4> DEFINE cs == SubSeq(files[i].batches, 1, Len(files[i].batches))
      <4>1. cs = files[i].batches
        BY <1>3, <1>4, SubSeqFull
      <4>2. files'[i] = [files[i] EXCEPT !.batches = cs, !.tail = files[i].tail,
                                         !.synced = Len(files[i].batches)]
        BY <3>1, <1>3, <1>4 DEF Spared
      <4> HIDE DEF cs
      <4>3. files'[i].batches = cs
        BY <4>2, <1>3, <1>4
      <4> QED BY <4>1, <4>3
    <3> QED BY <3>3, <3>4
  <2>b. CASE i = c
    <3>1. files'[i] = Spared(files[c], m, t)
      BY <1>5, <2>b, <1>2
    <3>2. CutOf(files'[i], files[i])
      BY <3>1, <2>b, <1>2, <1>3, <1>6, <1>8, SparedIsCut
    <3> QED BY <3>2, <2>b, <1>2
  <2>c. i < c \/ i = c
    BY <1>2, <1>3
  <2> QED BY <2>a, <2>b, <2>c
<1>10. files' \in Seq(File) /\ Len(files') = c
  <2>a. files' \in [1 .. c -> File]
    BY <1>5, <1>9 DEF CutOf
  <2> QED BY <2>a, <1>2, <1>3
<1> QED BY <1>3, <1>9, <1>10

\* A reordering power loss cuts every file somewhere.
LEMMA ReorderedPowerLossCuts ==
    ASSUME files \in Seq(File), NEW kept, ReorderedPowerLoss(kept)
    PROVE  /\ files' \in Seq(File) /\ Len(files') = Len(files)
           /\ \A i \in 1 .. Len(files) : CutOf(files'[i], files[i])
<1>2. /\ Len(files) \in Nat /\ DOMAIN files = 1 .. Len(files)
      /\ \A i \in 1 .. Len(files) : files[i] \in File
  BY LenProperties, ElementOfSeq
<1>3. \A i \in 1 .. Len(files) : files[i].synced \in Nat /\ files[i].batches \in Seq(Batch)
  BY <1>2 DEF File
<1>4. \A i \in 1 .. Len(files) : Len(files[i].batches) \in Nat
  BY <1>3, LenProperties
<1>5. /\ \A i \in 1 .. Len(files) : kept[i] \in files[i].synced .. Len(files[i].batches)
      /\ files' = [i \in 1 .. Len(files) |-> Spared(files[i], kept[i], NoTail)]
  BY <1>2 DEF ReorderedPowerLoss
<1>6. \A i \in 1 .. Len(files) : CutOf(files'[i], files[i])
  <2> TAKE i \in 1 .. Len(files)
  <2>a. kept[i] \in 0 .. Len(files[i].batches)
    BY <1>3, <1>4, <1>5
  <2>b. NoTail \in TailBytes
    BY DEF NoTail, TailBytes
  <2>c. files'[i] = Spared(files[i], kept[i], NoTail)
    BY <1>5
  <2> QED BY <2>a, <2>b, <2>c, <1>2, SparedIsCut
<1>7. files' \in Seq(File) /\ Len(files') = Len(files)
  <2>a. files' \in [1 .. Len(files) -> File]
    BY <1>5, <1>6 DEF CutOf
  <2> QED BY <2>a, <1>2
<1> QED BY <1>6, <1>7

\* A power loss that keeps a prefix of what was not flushed keeps Inv.
LEMMA PowerLossInv ==
    ASSUME Inv, NEW c \in DOMAIN files, NEW m, NEW t, PowerLoss(c, m, t)
    PROVE  Inv'
<1>1. files \in Seq(File) /\ FilesOk(files) /\ Len(files) \in Nat
  BY LenProperties DEF Inv, TypeOK, Layout
<1>2. /\ files' \in Seq(File) /\ Len(files') = c /\ c \in 1 .. Len(files)
      /\ \A i \in 1 .. c : CutOf(files'[i], files[i])
  BY <1>1, PowerLossCuts
<1>3. Len(files') <= Len(files)
  BY <1>1, <1>2
<1>4. FilesOk(files')
  BY <1>1, <1>2, <1>3, CutFilesOk
<1> QED BY <1>2, <1>4, AbandonOk DEF PowerLoss

\* A power loss that keeps files in any order keeps Inv.
LEMMA ReorderedPowerLossInv ==
    ASSUME Inv, NEW kept, ReorderedPowerLoss(kept)
    PROVE  Inv'
<1>1. files \in Seq(File) /\ FilesOk(files) /\ Len(files) \in Nat
  BY LenProperties DEF Inv, TypeOK, Layout
<1>2. /\ files' \in Seq(File) /\ Len(files') = Len(files)
      /\ \A i \in 1 .. Len(files) : CutOf(files'[i], files[i])
  BY <1>1, ReorderedPowerLossCuts
<1>3. Len(files') <= Len(files)
  BY <1>1, <1>2
<1>4. FilesOk(files')
  BY <1>1, <1>2, <1>3, CutFilesOk
<1> QED BY <1>2, <1>4, AbandonOk DEF ReorderedPowerLoss

----------------------------------------
(* The invariant *)

\* The state before the first Open satisfies Inv.
LEMMA InitInv == Init => Inv
<1> SUFFICES ASSUME Init PROVE Inv
  OBVIOUS
<1>1. /\ files = <<>> /\ segments = <<>> /\ indexes = <<>> /\ next_offset = 0
      /\ phase = "down" /\ scan = NoScan /\ flushed = {}
  BY DEF Init
<1>2. TypeOK
  <2>a. NoScan \in ScanType
    BY EmptySeq DEF NoScan, ScanType
  <2> QED BY <2>a, <1>1, EmptySeq DEF TypeOK
<1>3. DOMAIN files = {} /\ DOMAIN segments = {}
  BY <1>1, EmptySeq
<1>4. Layout
  BY <1>1, <1>3 DEF Layout, FilesOk, MemoryOk
<1> QED BY <1>2, <1>4 DEF Inv

\* Every step of the commit log preserves Inv: one case per action.
LEMMA NextInv == Inv /\ [Next]_vars => Inv'
<1> SUFFICES ASSUME Inv, [Next]_vars PROVE Inv'
  OBVIOUS
<1>0. files \in Seq(File) /\ FilesOk(files)
  BY DEF Inv, TypeOK, Layout
<1>1. CASE AppendStep
  BY <1>1, AppendBatchInv, AppendRollFailsInv, AppendWriteFailsInv, CrashInAppendInv
     DEF AppendStep
<1>2. CASE FlushCloseStep
  BY <1>2, FlushStepInv, CloseStepInv DEF FlushCloseStep
<1>3. CASE OpenStep
  <2>a. CASE OpenEmpty \/ OpenEmptyFails
    BY <2>a, OpenEmptyInv
  <2>b. CASE OpenExisting
    BY <2>b, OpenExistingInv
  <2>c. CASE RecoverBatch
    BY <2>c, RecoverBatchInv
  <2>d. CASE RecoverSegment
    BY <2>d, SegmentRecoveredInv DEF RecoverSegment
  <2>e. CASE RecoverRefuses
    BY <2>e, <1>0, AbandonOk DEF RecoverRefuses
  <2>f. CASE RecoverReadFails
    BY <2>f, <1>0, AbandonOk, SegmentRecoveredInv DEF RecoverReadFails
  <2>g. CASE RecoverIoFails
    BY <2>g, RecoverIoFailsInv
  <2> QED BY <1>3, <2>a, <2>b, <2>c, <2>d, <2>e, <2>f, <2>g DEF OpenStep
<1>4. CASE CrashStep
  <2>a. CASE Crash
    BY <2>a, <1>0, AbandonOk DEF Crash
  <2>b. CASE \E c \in DOMAIN files : \E m \in 0 .. Len(files[c].batches) :
               \E t \in LostTails \cup {files[c].tail} : PowerLoss(c, m, t)
    BY <2>b, PowerLossInv
  <2>c. CASE \E kept \in [DOMAIN files -> 0 .. MaxOffset] : ReorderedPowerLoss(kept)
    BY <2>c, ReorderedPowerLossInv
  <2> QED BY <1>4, <2>a, <2>b, <2>c DEF CrashStep
<1>5. CASE UNCHANGED vars
  <2>a. /\ files' = files /\ segments' = segments /\ indexes' = indexes
        /\ next_offset' = next_offset /\ phase' = phase /\ scan' = scan
        /\ flushed' = flushed
    BY <1>5 DEF vars, memory
  <2>b. TypeOK'
    BY <2>a DEF Inv, TypeOK
  <2>c. MemoryOk'
    BY <2>a DEF Inv, Layout, MemoryOk, Current
  <2> QED BY <2>a, <2>b, <2>c, <1>0 DEF Inv, Layout
<1> QED BY <1>1, <1>2, <1>3, <1>4, <1>5 DEF Next

\* Positions, offsets and tails keep the unsigned types of the code whatever fails:
\* in particular no write of Append goes past the list of segments.
THEOREM TypeCorrect == Spec => []TypeOK
<1>1. Inv => TypeOK
  BY DEF Inv
<1> QED BY <1>1, InitInv, NextInv, PTL DEF Spec

\* Whatever writes fail, wherever the process dies and however recovery is
\* interrupted, batches lie end to end, memory describes the files and the sparse
\* index covers every batch.
THEOREM LayoutCorrect == Spec => []Layout
<1>1. Inv => Layout
  BY DEF Inv
<1> QED BY <1>1, InitInv, NextInv, PTL DEF Spec

----------------------------------------
(* Durability.  What Flush covered is never lost, provided recovery does not  *)
(* mistake a failed read for the end of the log: with strict recovery, or on  *)
(* a disk whose reads do not fail.  Durable adds to the invariant that the    *)
(* flushed batches lie below the sync marks of their files.                   *)

ReadsTrusted == Strict \/ "read_error" \notin Faults

Durable ==
    \A b \in flushed : \E i \in DOMAIN files : \E j \in 1 .. files[i].synced :
        files[i].batches[j] = b

\* Every synced batch of fs is a synced batch of gs, at the same place.
SyncedKept(fs, gs) ==
    \A i \in DOMAIN fs : \A j \in 1 .. fs[i].synced :
        /\ i \in DOMAIN gs
        /\ j \in 1 .. gs[i].synced
        /\ gs[i].batches[j] = fs[i].batches[j]

----------------------------------------
(* Steps that keep the synced batches *)

\* Durability is kept by a step that leaves every flushed batch where it is.
LEMMA KeptDurable ==
    ASSUME Durable, SyncedKept(files, files'), flushed' = flushed
    PROVE  Durable'
<1> SUFFICES ASSUME NEW b \in flushed'
             PROVE  \E i \in DOMAIN files' : \E j \in 1 .. files'[i].synced :
                       files'[i].batches[j] = b
  BY DEF Durable
<1>1. PICK i \in DOMAIN files : \E j \in 1 .. files[i].synced : files[i].batches[j] = b
  BY DEF Durable
<1>2. PICK j \in 1 .. files[i].synced : files[i].batches[j] = b
  BY <1>1
<1>3. /\ i \in DOMAIN files' /\ j \in 1 .. files'[i].synced
      /\ files'[i].batches[j] = files[i].batches[j]
  BY <1>1, <1>2 DEF SyncedKept
<1> QED BY <1>2, <1>3

\* The facts about the files that every step below rests on.
LEMMA FileFacts ==
    ASSUME NEW fs \in Seq(File), FilesOk(fs)
    PROVE  /\ Len(fs) \in Nat /\ DOMAIN fs = 1 .. Len(fs)
           /\ \A i \in DOMAIN fs :
                 /\ fs[i] \in File /\ fs[i].batches \in Seq(Batch) /\ fs[i].synced \in Nat
                 /\ fs[i] \in [base : Nat, batches : Seq(Batch), tail : TailBytes, synced : Nat]
                 /\ Len(fs[i].batches) \in Nat /\ fs[i].synced <= Len(fs[i].batches)
<1>1. Len(fs) \in Nat /\ DOMAIN fs = 1 .. Len(fs) /\ \A i \in DOMAIN fs : fs[i] \in File
  BY LenProperties, ElementOfSeq
<1>2. \A i \in DOMAIN fs :
         /\ fs[i].batches \in Seq(Batch) /\ fs[i].synced \in Nat
         /\ fs[i] \in [base : Nat, batches : Seq(Batch), tail : TailBytes, synced : Nat]
  BY <1>1 DEF File
<1>3. \A i \in DOMAIN fs : Len(fs[i].batches) \in Nat
  BY <1>2, LenProperties
<1>4. \A i \in DOMAIN fs : fs[i].synced <= Len(fs[i].batches)
  BY DEF FilesOk, BatchesOk
<1> QED BY <1>1, <1>2, <1>3, <1>4

\* Rolling adds a file and leaves the others alone.
LEMMA RollKeeps ==
    ASSUME Inv, NEW p \in Payloads, MayAppend(p)
    PROVE  SyncedKept(files, FilesFor(p))
<1>1. files \in Seq(File) /\ FilesOk(files) /\ next_offset \in Nat
  BY DEF Inv, TypeOK, Layout
<1>2. CASE ~NeedsRoll(p)
  BY <1>2 DEF FilesFor, SyncedKept
<1>3. CASE NeedsRoll(p)
  <2>a. FilesFor(p) = Append(files, NewFile(next_offset))
    BY <1>3 DEF FilesFor
  <2>b. NewFile(next_offset) \in File
    BY <1>1, EmptySeq DEF NewFile, NoTail, TailBytes, File
  <2>c. /\ FilesFor(p) \in Seq(File) /\ Len(FilesFor(p)) = Len(files) + 1
        /\ \A i \in 1 .. Len(files) : FilesFor(p)[i] = files[i]
    BY <1>1, <2>a, <2>b, AppendProperties
  <2>d. /\ DOMAIN files = 1 .. Len(files) /\ DOMAIN FilesFor(p) = 1 .. Len(files) + 1
        /\ Len(files) \in Nat
    BY <1>1, <2>c, LenProperties
  <2>e. \A i \in DOMAIN files : i \in DOMAIN FilesFor(p) /\ FilesFor(p)[i] = files[i]
    BY <2>c, <2>d
  <2> QED BY <2>e DEF SyncedKept
<1> QED BY <1>2, <1>3

\* Steps compose.
LEMMA KeptTransitive ==
    ASSUME NEW fs, NEW gs, NEW hs, SyncedKept(fs, gs), SyncedKept(gs, hs)
    PROVE  SyncedKept(fs, hs)
BY DEF SyncedKept

\* A new tail for file n.
LEMMA TailKeeps ==
    ASSUME NEW fs \in Seq(File), FilesOk(fs), NEW n \in DOMAIN fs, NEW t
    PROVE  SyncedKept(fs, [fs EXCEPT ![n].tail = t])
<1> DEFINE gs == [fs EXCEPT ![n].tail = t]
<1>1. \A i \in DOMAIN fs :
         fs[i] \in [base : Nat, batches : Seq(Batch), tail : TailBytes, synced : Nat]
  BY FileFacts
<1>2. DOMAIN gs = DOMAIN fs
  OBVIOUS
<1>3. \A i \in DOMAIN fs : gs[i].synced = fs[i].synced /\ gs[i].batches = fs[i].batches
  BY <1>1
<1> HIDE DEF gs
<1>4. SyncedKept(fs, gs)
  BY <1>2, <1>3 DEF SyncedKept
<1> QED BY <1>4 DEF gs

\* A batch behind the last one of file n.
LEMMA WriteKeeps ==
    ASSUME NEW fs \in Seq(File), FilesOk(fs), NEW n \in DOMAIN fs,
           NEW b \in Batch, NEW k
    PROVE  SyncedKept(fs, [fs EXCEPT ![n].batches = Append(@, b), ![n].tail = Overwritten(@, k)])
<1> DEFINE cs == Append(fs[n].batches, b)
           t == Overwritten(fs[n].tail, k)
           g == [fs[n] EXCEPT !.batches = cs, !.tail = t]
           gs == [fs EXCEPT ![n] = g]
<1>1. /\ fs[n] \in [base : Nat, batches : Seq(Batch), tail : TailBytes, synced : Nat]
      /\ fs[n].batches \in Seq(Batch) /\ fs[n].synced \in Nat
      /\ Len(fs[n].batches) \in Nat /\ fs[n].synced <= Len(fs[n].batches)
  BY FileFacts
<1>2. \A j \in 1 .. Len(fs[n].batches) : cs[j] = fs[n].batches[j]
  BY <1>1, AppendProperties
<1>3. gs = [fs EXCEPT ![n].batches = Append(@, b), ![n].tail = Overwritten(@, k)]
  BY <1>1
<1> HIDE DEF cs, t
<1>4. g.batches = cs /\ g.synced = fs[n].synced
  BY <1>1
<1> HIDE DEF g
<1>5. DOMAIN gs = DOMAIN fs /\ \A i \in DOMAIN fs : gs[i] = IF i = n THEN g ELSE fs[i]
  OBVIOUS
<1> HIDE DEF gs
<1>6. ASSUME NEW i \in DOMAIN fs, NEW j \in 1 .. fs[i].synced
      PROVE  i \in DOMAIN gs /\ j \in 1 .. gs[i].synced /\ gs[i].batches[j] = fs[i].batches[j]
  <2>a. CASE i = n
    <3>1. j \in 1 .. Len(fs[n].batches)
      BY <1>1, <1>6, <2>a
    <3> QED BY <3>1, <2>a, <1>2, <1>4, <1>5, <1>6
  <2>b. CASE i # n
    BY <2>b, <1>5, <1>6
  <2> QED BY <2>a, <2>b
<1>7. SyncedKept(fs, gs)
  BY <1>6 DEF SyncedKept
<1> QED BY <1>3, <1>7

\* A sync mark never moves back.
LEMMA SyncKeeps ==
    ASSUME Inv, NEW k
    PROVE  SyncedKept(files, FirstSynced(k))
<1> DEFINE gs == FirstSynced(k)
<1>1. files \in Seq(File) /\ FilesOk(files)
  BY DEF Inv, TypeOK, Layout
<1>2. \A i \in DOMAIN files :
         /\ files[i] \in [base : Nat, batches : Seq(Batch), tail : TailBytes, synced : Nat]
         /\ files[i].synced \in Nat /\ Len(files[i].batches) \in Nat
         /\ files[i].synced <= Len(files[i].batches)
  BY <1>1, FileFacts
<1>3. DOMAIN gs = DOMAIN files
  BY DEF FirstSynced
<1>4. ASSUME NEW i \in DOMAIN files
      PROVE  /\ gs[i].batches = files[i].batches
             /\ gs[i].synced \in Nat /\ files[i].synced <= gs[i].synced
  <2>a. \/ gs[i] = [files[i] EXCEPT !.synced = Len(files[i].batches)]
        \/ gs[i] = files[i]
    BY DEF FirstSynced
  <2> HIDE DEF gs
  <2>b. CASE gs[i] = files[i]
    BY <2>b, <1>2
  <2>c. CASE gs[i] = [files[i] EXCEPT !.synced = Len(files[i].batches)]
    <3>1. gs[i].batches = files[i].batches /\ gs[i].synced = Len(files[i].batches)
      BY <2>c, <1>2
    <3> QED BY <3>1, <1>2
  <2> QED BY <2>a, <2>b, <2>c
<1> HIDE DEF gs
<1>5. ASSUME NEW i \in DOMAIN files, NEW j \in 1 .. files[i].synced
      PROVE  i \in DOMAIN gs /\ j \in 1 .. gs[i].synced /\ gs[i].batches[j] = files[i].batches[j]
  BY <1>2, <1>3, <1>4
<1>6. SyncedKept(files, gs)
  BY <1>5 DEF SyncedKept
<1> QED BY <1>6 DEF gs

\* A whole scan cuts nothing but the tail.
LEMMA RecoverKeeps ==
    ASSUME Inv, phase = "opening", scan.n = Len(files[Current].batches), SegmentRecovered
    PROVE  SyncedKept(files, files')
<1> DEFINE c == Current
           f == files[c]
           n == scan.n
           y == IF f.synced > n THEN n ELSE f.synced
           g == [f EXCEPT !.batches = SubSeq(f.batches, 1, n), !.tail = NoTail, !.synced = y]
<1>1. files \in Seq(File) /\ FilesOk(files) /\ c \in 1 .. Len(files)
  BY OpeningFacts
<1>2. c \in DOMAIN files
  BY <1>1, LenProperties
<1>3. /\ f \in [base : Nat, batches : Seq(Batch), tail : TailBytes, synced : Nat]
      /\ f.batches \in Seq(Batch) /\ f.synced \in Nat
      /\ Len(f.batches) \in Nat /\ f.synced <= Len(f.batches)
  BY <1>1, <1>2, FileFacts
<1>4. SubSeq(f.batches, 1, n) = f.batches
  BY <1>3, SubSeqFull
<1>5. y = f.synced
  BY <1>3
<1>6. files' = [files EXCEPT ![c] = g]
  BY <1>3 DEF SegmentRecovered
<1>7. g.batches = f.batches /\ g.synced = f.synced
  <2> HIDE DEF f, n, y
  <2>a. g = [f EXCEPT !.batches = f.batches, !.tail = NoTail, !.synced = f.synced]
    BY <1>4, <1>5
  <2> HIDE DEF g
  <2> QED BY <2>a, <1>3
<1> HIDE DEF g
<1>8. DOMAIN files' = DOMAIN files /\ \A i \in DOMAIN files : files'[i] = IF i = c THEN g ELSE files[i]
  BY <1>6
<1>9. \A i \in DOMAIN files : files'[i].batches = files[i].batches /\ files'[i].synced = files[i].synced
  BY <1>7, <1>8
<1> QED BY <1>8, <1>9 DEF SyncedKept

\* A file cut at m batches, m not below its sync mark.
LEMMA SparedKeeps ==
    ASSUME NEW f \in File, NEW m \in f.synced .. Len(f.batches), NEW t,
           NEW j \in 1 .. f.synced
    PROVE  j \in 1 .. Spared(f, m, t).synced /\ Spared(f, m, t).batches[j] = f.batches[j]
<1> DEFINE cs == SubSeq(f.batches, 1, m)
           g == Spared(f, m, t)
<1>1. /\ f \in [base : Nat, batches : Seq(Batch), tail : TailBytes, synced : Nat]
      /\ f.batches \in Seq(Batch) /\ f.synced \in Nat
  BY DEF File
<1>2. Len(f.batches) \in Nat
  BY <1>1, LenProperties
<1>3. m \in 0 .. Len(f.batches) /\ j \in 1 .. m
  BY <1>1, <1>2
<1>4. cs[j] = f.batches[j]
  BY <1>1, <1>3, Prefix
<1>5. g = [f EXCEPT !.batches = cs, !.tail = t, !.synced = m]
  BY <1>1 DEF Spared
<1> HIDE DEF cs, g
<1>6. g.batches = cs /\ g.synced = m
  BY <1>1, <1>5
<1> QED BY <1>3, <1>4, <1>6 DEF g

----------------------------------------
(* Every step *)

\* An append, whole, refused by the disk or cut short by a crash.
LEMMA AppendKeeps ==
    ASSUME Inv, NEW p \in Payloads,
           \/ AppendBatch(p)
           \/ AppendRollFails(p)
           \/ \E k \in 1 .. HeaderBytes + PayloadBytes[p] - 1 : AppendWriteFails(p, k)
           \/ \E k \in 0 .. HeaderBytes + PayloadBytes[p] : CrashInAppend(p, k)
    PROVE  SyncedKept(files, files') /\ flushed' = flushed
<1> DEFINE fs == FilesFor(p)
           n == Len(SegmentsFor(p))
           b == MakeRecordBatch(p, SegmentsFor(p)[n].wpos)
<1>1. MayAppend(p) /\ flushed' = flushed
  BY DEF AppendBatch, AppendRollFails, AppendWriteFails, CrashInAppend, Abandon
<1>2. Describes(fs, SegmentsFor(p), IndexesFor(p), next_offset)
  BY <1>1, RollDescribes
<1>3. b \in Batch /\ n \in 1 .. Len(fs)
  BY <1>2, MadeBatch
<1>4. fs \in Seq(File) /\ FilesOk(fs)
  BY <1>2 DEF Describes
<1>5. n \in DOMAIN fs
  BY <1>3, <1>4, LenProperties
<1>6. \/ files' = fs
      \/ \E t : files' = [fs EXCEPT ![n].tail = t]
      \/ \E k : files' = [fs EXCEPT ![n].batches = Append(@, b), ![n].tail = Overwritten(@, k)]
  <2>a. CASE AppendBatch(p)
    BY <2>a DEF AppendBatch
  <2>b. CASE AppendRollFails(p)
    BY <2>b DEF AppendRollFails
  <2>c. CASE \E k \in 1 .. HeaderBytes + PayloadBytes[p] - 1 : AppendWriteFails(p, k)
    BY <2>c DEF AppendWriteFails
  <2>d. CASE \E k \in 0 .. HeaderBytes + PayloadBytes[p] : CrashInAppend(p, k)
    BY <2>d DEF CrashInAppend
  <2> QED BY <2>a, <2>b, <2>c, <2>d
<1>7. SyncedKept(files, fs)
  BY <1>1, RollKeeps
<1> HIDE DEF fs, n, b
<1>8. SyncedKept(fs, files')
  <2>a. SyncedKept(fs, fs)
    BY DEF SyncedKept
  <2>b. ASSUME NEW t, files' = [fs EXCEPT ![n].tail = t]
        PROVE  SyncedKept(fs, files')
    <3>1. SyncedKept(fs, [fs EXCEPT ![n].tail = t])
      BY <1>4, <1>5, TailKeeps
    <3> QED BY <3>1, <2>b, Zenon
  <2>c. ASSUME NEW k, files' = [fs EXCEPT ![n].batches = Append(@, b), ![n].tail = Overwritten(@, k)]
        PROVE  SyncedKept(fs, files')
    <3> DEFINE gs == [fs EXCEPT ![n].batches = Append(@, b), ![n].tail = Overwritten(@, k)]
    <3>1. SyncedKept(fs, gs)
      BY <1>3, <1>4, <1>5, WriteKeeps
    <3>2. files' = gs
      BY <2>c
    <3> HIDE DEF gs
    <3> QED BY <3>1, <3>2
  <2> QED BY <2>a, <2>b, <2>c, <1>6
<1> QED BY <1>1, <1>7, <1>8, KeptTransitive

\* A power loss, in whatever order the disk had written the unsynced data.
LEMMA PowerLossKeeps ==
    ASSUME Inv,
           \/ \E c \in DOMAIN files : \E m, t : PowerLoss(c, m, t)
           \/ \E kept : ReorderedPowerLoss(kept)
    PROVE  SyncedKept(files, files') /\ flushed' = flushed
<1>1. files \in Seq(File) /\ FilesOk(files)
  BY DEF Inv, TypeOK, Layout
<1>2. /\ Len(files) \in Nat /\ DOMAIN files = 1 .. Len(files)
      /\ \A i \in DOMAIN files :
            /\ files[i] \in File /\ files[i].synced \in Nat
            /\ Len(files[i].batches) \in Nat /\ files[i].synced <= Len(files[i].batches)
  BY <1>1, FileFacts
<1>3. flushed' = flushed
  BY DEF PowerLoss, ReorderedPowerLoss, Abandon
<1>4. ASSUME NEW c \in DOMAIN files, NEW m, NEW t, PowerLoss(c, m, t)
      PROVE  SyncedKept(files, files')
  <2>a. /\ m \in files[c].synced .. Len(files[c].batches)
        /\ \A i \in c + 1 .. Len(files) : files[i].synced = 0
        /\ files' = [i \in 1 .. c |->
                       IF i < c THEN Spared(files[i], Len(files[i].batches), files[i].tail)
                       ELSE Spared(files[c], m, t)]
    BY <1>4 DEF PowerLoss
  <2>b. ASSUME NEW i \in DOMAIN files, NEW j \in 1 .. files[i].synced
        PROVE  i \in DOMAIN files' /\ j \in 1 .. files'[i].synced
               /\ files'[i].batches[j] = files[i].batches[j]
    <3>1. i \in 1 .. c
      <4>1. files[i].synced # 0
        BY <1>2, <2>b
      <4> QED BY <4>1, <1>2, <2>a
    <3>2. DOMAIN files' = 1 .. c
      BY <2>a
    <3>3. PICK q \in files[i].synced .. Len(files[i].batches) : \E u : files'[i] = Spared(files[i], q, u)
      <4>1. CASE i < c
        <5>1. Len(files[i].batches) \in files[i].synced .. Len(files[i].batches)
          BY <1>2
        <5>2. files'[i] = Spared(files[i], Len(files[i].batches), files[i].tail)
          BY <4>1, <3>1, <2>a
        <5> QED BY <5>1, <5>2
      <4>2. CASE i = c
        <5>1. files'[i] = Spared(files[c], m, t)
          BY <4>2, <3>1, <2>a, <1>2
        <5> QED BY <5>1, <4>2, <2>a
      <4> QED BY <4>1, <4>2, <3>1, <1>2
    <3>4. PICK u : files'[i] = Spared(files[i], q, u)
      BY <3>3
    <3>5. files[i] \in File
      BY <1>2
    <3> QED BY <3>1, <3>2, <3>4, <3>5, <2>b, SparedKeeps
  <2> QED BY <2>b DEF SyncedKept
<1>5. ASSUME NEW kept, ReorderedPowerLoss(kept)
      PROVE  SyncedKept(files, files')
  <2>a. /\ \A i \in DOMAIN files : kept[i] \in files[i].synced .. Len(files[i].batches)
        /\ files' = [i \in DOMAIN files |-> Spared(files[i], kept[i], NoTail)]
    BY <1>5 DEF ReorderedPowerLoss
  <2>b. ASSUME NEW i \in DOMAIN files, NEW j \in 1 .. files[i].synced
        PROVE  i \in DOMAIN files' /\ j \in 1 .. files'[i].synced
               /\ files'[i].batches[j] = files[i].batches[j]
    <3>1. i \in DOMAIN files' /\ files'[i] = Spared(files[i], kept[i], NoTail)
      BY <2>a
    <3>2. files[i] \in File /\ kept[i] \in files[i].synced .. Len(files[i].batches)
      BY <1>2, <2>a
    <3> QED BY <3>1, <3>2, <2>b, SparedKeeps
  <2> QED BY <2>b DEF SyncedKept
<1> QED BY <1>3, <1>4, <1>5

\* A successful Flush: every stored batch is below the sync mark of its file.
LEMMA FlushDurable ==
    ASSUME Inv, Flush
    PROVE  Durable'
<1>1. files \in Seq(File) /\ FilesOk(files)
  BY DEF Inv, TypeOK, Layout
<1>2. /\ Len(files) \in Nat /\ DOMAIN files = 1 .. Len(files)
      /\ \A i \in DOMAIN files :
            /\ files[i] \in [base : Nat, batches : Seq(Batch), tail : TailBytes, synced : Nat]
            /\ files[i].batches \in Seq(Batch)
  BY <1>1, FileFacts
<1>3. files' = FirstSynced(Len(files)) /\ flushed' = StoredBatches
  BY DEF Flush
<1>4. DOMAIN files' = DOMAIN files
  BY <1>3 DEF FirstSynced
<1>5. \A i \in DOMAIN files : /\ files'[i].batches = files[i].batches
                              /\ files'[i].synced = Len(files[i].batches)
  <2> TAKE i \in DOMAIN files
  <2>a. i <= Len(files)
    BY <1>2
  <2>b. files'[i] = [files[i] EXCEPT !.synced = Len(files[i].batches)]
    BY <2>a, <1>3 DEF FirstSynced
  <2> QED BY <2>b, <1>2
<1> SUFFICES ASSUME NEW b \in flushed'
             PROVE  \E i \in DOMAIN files' : \E j \in 1 .. files'[i].synced :
                       files'[i].batches[j] = b
  BY DEF Durable
<1>6. PICK i \in DOMAIN files : \E j \in DOMAIN files[i].batches : files[i].batches[j] = b
  BY <1>3 DEF StoredBatches
<1>7. PICK j \in DOMAIN files[i].batches : files[i].batches[j] = b
  BY <1>6
<1>8. DOMAIN files[i].batches = 1 .. Len(files[i].batches)
  BY <1>2, LenProperties
<1> QED BY <1>4, <1>5, <1>7, <1>8

\* No step of Open, recovery with its truncation included, takes a flushed batch
\* away when failing reads are not mistaken for the end of the log.
LEMMA OpenKeeps ==
    ASSUME ReadsTrusted, Inv, OpenStep
    PROVE  SyncedKept(files, files') /\ flushed' = flushed
<1>0. /\ flushed' = flushed
      /\ files' = files => SyncedKept(files, files')
  BY DEF OpenStep, OpenEmpty, OpenEmptyFails, OpenExisting, RecoverBatch, RecoverSegment,
         RecoverRefuses, RecoverReadFails, RecoverIoFails, SegmentRecovered, Abandon,
         SyncedKept
<1>1. CASE OpenEmpty \/ OpenEmptyFails
  <2>a. DOMAIN files = {}
    BY <1>1, EmptySeq DEF OpenEmpty, OpenEmptyFails
  <2> QED BY <1>0, <2>a DEF SyncedKept
<1>2. CASE OpenExisting \/ RecoverBatch \/ RecoverRefuses
  <2>a. files' = files
    BY <1>2 DEF OpenExisting, RecoverBatch, RecoverRefuses
  <2> QED BY <2>a, <1>0
<1>3. CASE RecoverSegment
  BY <1>0, <1>3, RecoverKeeps DEF RecoverSegment
<1>4. CASE RecoverReadFails
  <2>a. files' = files
    BY <1>4 DEF RecoverReadFails, ReadsTrusted
  <2> QED BY <2>a, <1>0
<1>5. CASE RecoverIoFails
  <2>a. phase = "opening" /\ (files' = files \/ files' = [files EXCEPT ![Current].tail = NoTail])
    BY <1>5 DEF RecoverIoFails
  <2>b. files \in Seq(File) /\ FilesOk(files) /\ Current \in 1 .. Len(files)
    BY <2>a, OpeningFacts
  <2>c. Current \in DOMAIN files
    BY <2>b, LenProperties
  <2> DEFINE cut == [files EXCEPT ![Current].tail = NoTail]
  <2>d. SyncedKept(files, cut)
    BY <2>b, <2>c, TailKeeps
  <2>e. files' = files \/ files' = cut
    BY <2>a
  <2> HIDE DEF cut
  <2> QED BY <1>0, <2>d, <2>e
<1> QED BY <1>1, <1>2, <1>3, <1>4, <1>5 DEF OpenStep

\* Every step of the commit log preserves Durable.
LEMMA NextDurable ==
    ASSUME ReadsTrusted, Inv, Durable, [Next]_vars
    PROVE  Durable'
<1>0. files' = files /\ flushed' = flushed => Durable'
  BY DEF Durable
<1>1. CASE AppendStep
  BY <1>1, AppendKeeps, KeptDurable DEF AppendStep
<1>2. CASE FlushCloseStep
  <2>a. CASE Flush
    BY <2>a, FlushDurable
  <2>b. CASE \E k \in 0 .. Len(files) : FlushFails(k)
    BY <2>b, SyncKeeps, KeptDurable DEF FlushFails
  <2>c. CASE Close \/ \E k \in 1 .. Len(segments) : CloseFails(k)
    BY <2>c, <1>0 DEF Close, CloseFails
  <2> QED BY <1>2, <2>a, <2>b, <2>c DEF FlushCloseStep
<1>3. CASE OpenStep
  BY <1>3, OpenKeeps, KeptDurable
<1>4. CASE CrashStep
  <2>a. CASE Crash
    BY <2>a, <1>0 DEF Crash, Abandon
  <2>b. CASE \/ \E c \in DOMAIN files : \E m, t : PowerLoss(c, m, t)
             \/ \E kept : ReorderedPowerLoss(kept)
    BY <2>b, PowerLossKeeps, KeptDurable
  <2> QED BY <1>4, <2>a, <2>b DEF CrashStep
<1>5. CASE UNCHANGED vars
  BY <1>5, <1>0 DEF vars
<1> QED BY <1>1, <1>2, <1>3, <1>4, <1>5 DEF Next

\* A batch below a sync mark is a batch in the files.
LEMMA DurableStored == Inv /\ Durable => FlushedStored
<1> SUFFICES ASSUME Inv, Durable, NEW b \in flushed PROVE b \in StoredBatches
  BY DEF FlushedStored
<1>1. files \in Seq(File) /\ FilesOk(files)
  BY DEF Inv, TypeOK, Layout
<1>2. PICK i \in DOMAIN files : \E j \in 1 .. files[i].synced : files[i].batches[j] = b
  BY DEF Durable
<1>3. PICK j \in 1 .. files[i].synced : files[i].batches[j] = b
  BY <1>2
<1>4. /\ files[i].batches \in Seq(Batch) /\ files[i].synced \in Nat
      /\ Len(files[i].batches) \in Nat /\ files[i].synced <= Len(files[i].batches)
  BY <1>1, <1>2, FileFacts
<1>5. j \in DOMAIN files[i].batches
  BY <1>3, <1>4, LenProperties
<1> QED BY <1>3, <1>5 DEF StoredBatches

\* A batch that was in the log when Flush returned Ok survives every crash, power
\* loss, failed write and recovery, as long as recovery does not take a failed
\* read for the end of the log.
THEOREM FlushedNeverLost ==
    ASSUME ReadsTrusted
    PROVE  Spec => []FlushedStored
<1>1. Init => Inv /\ Durable
  BY InitInv DEF Init, Durable
<1>2. (Inv /\ Durable) /\ [Next]_vars => (Inv /\ Durable)'
  BY NextInv, NextDurable
<1> QED BY <1>1, <1>2, DurableStored, PTL DEF Spec

----------------------------------------
(* Reading.  The binary search over the segments, the floor of the sparse     *)
(* index and the walk from there lead to the batch that holds the offset.     *)

----------------------------------------
(* Least and greatest elements *)

NatLess == {p \in Nat \X Nat : p[1] < p[2]}

LEMMA NatLessWellFounded == IsWellFoundedOn(NatLess, Nat)
BY NatLessThanWellFounded DEF OpToRel, NatLess

LEMMA LeastElement ==
    ASSUME NEW S, S \subseteq Nat, S # {}
    PROVE  \E x \in S : \A y \in S : x <= y
<1>1. PICK x \in S : \A y \in S : <<y, x>> \notin NatLess
  BY NatLessWellFounded, WFMin
<1>2. ASSUME NEW y \in S PROVE x <= y
  <2>a. y \in Nat /\ x \in Nat
    OBVIOUS
  <2>b. ~(y < x)
    BY <1>1, <2>a DEF NatLess
  <2> QED BY <2>a, <2>b
<1> QED BY <1>2

\* What the CHOOSE of a largest element in FindFloor finds.
LEMMA GreatestElement ==
    ASSUME NEW S, NEW n \in Nat, \A s \in S : s \in 0 .. n, S # {}
    PROVE  \E x \in S : \A y \in S : y <= x
<1> DEFINE T == {n - s : s \in S}
<1>1. \A t \in T : t \in Nat
  OBVIOUS
<1>2. T # {} /\ T \subseteq Nat
  BY <1>1
<1>3. PICK t \in T : \A z \in T : t <= z
  BY <1>2, LeastElement
<1>4. PICK x \in S : t = n - x
  OBVIOUS
<1>5. \A y \in S : n - y \in T
  OBVIOUS
<1>6. \A y \in S : n - x <= n - y
  BY <1>3, <1>4, <1>5
<1>7. \A y \in S : y \in Int
  OBVIOUS
<1>8. \A y \in S : y <= x
  BY <1>6, <1>7
<1> QED BY <1>8

----------------------------------------
(* Arithmetic *)

LEMMA Below == \A x, y \in Int : x <= y => x < y \/ x = y
OBVIOUS

LEMMA Nearer == \A x, y, z, d \in Nat : x < z + d /\ z <= y => x < y + d
OBVIOUS

LEMMA Fits == \A p, q, s, n, d \in Nat : s <= p /\ p + n <= q /\ q < s + d => n <= d
OBVIOUS

----------------------------------------
(* The steps of Read *)

\* Where a stored batch lies, and what surrounds it.
LEMMA StoredPlace ==
    ASSUME Inv, phase = "open", NEW b \in StoredBatches
    PROVE  \E i \in 1 .. Len(files) : \E j \in 1 .. Len(files[i].batches) :
              files[i].batches[j] = b
<1>1. files \in Seq(File)
  BY DEF Inv, TypeOK
<1>2. \A i \in 1 .. Len(files) : files[i].batches \in Seq(Batch)
  <2>a. \A i \in 1 .. Len(files) : files[i] \in File
    BY <1>1, ElementOfSeq
  <2> QED BY <2>a DEF File
<1>3. DOMAIN files = 1 .. Len(files)
  BY <1>1, LenProperties
<1>4. \A i \in 1 .. Len(files) : DOMAIN files[i].batches = 1 .. Len(files[i].batches)
  BY <1>2, LenProperties
<1> QED BY <1>3, <1>4 DEF StoredBatches

\* FindFloor returns the position of a batch at or before batch j, at most one
\* interval before it.
LEMMA FloorNear ==
    ASSUME NEW f \in File, BatchesOk(f), NEW index \in Seq(IndexEntry),
           IndexOk(index, f.batches, Len(f.batches)),
           NEW j \in 1 .. Len(f.batches),
           NEW o \in Nat, Contains(f.batches[j], o)
    PROVE  \E i \in 1 .. j :
              /\ FindFloor(index, o) = f.batches[i].pos
              /\ f.batches[j].pos < f.batches[i].pos + IndexInterval
<1> DEFINE bs == f.batches
           below == {k \in DOMAIN index : index[k].offset <= o}
           top == CHOOSE k \in below : \A l \in below : l <= k
<1>1. /\ bs \in Seq(Batch) /\ Len(bs) \in Nat /\ DOMAIN bs = 1 .. Len(bs)
      /\ \A i \in 1 .. Len(bs) : bs[i] \in Batch
  BY LenProperties, ElementOfSeq DEF File
<1>2. /\ Len(index) \in Nat /\ DOMAIN index = 1 .. Len(index)
      /\ \A k \in DOMAIN index : index[k].offset \in Nat /\ index[k].position \in Nat
  <2>a. /\ Len(index) \in Nat /\ DOMAIN index = 1 .. Len(index)
        /\ \A k \in DOMAIN index : index[k] \in IndexEntry
    BY LenProperties, ElementOfSeq
  <2> QED BY <2>a DEF IndexEntry
<1>3. \A i \in 1 .. Len(bs) : /\ bs[i].pos \in Nat /\ bs[i].base \in Nat
                              /\ EndPos(bs[i]) \in Nat /\ EndOffset(bs[i]) \in Nat
                              /\ bs[i].pos < EndPos(bs[i]) /\ bs[i].base < EndOffset(bs[i])
  BY <1>1, BatchEnds
<1>4. bs[j].base <= o /\ o < EndOffset(bs[j])
  BY DEF Contains
<1>5. PICK k \in DOMAIN index : /\ index[k].offset <= bs[j].base
                                /\ index[k].position <= bs[j].pos
                                /\ bs[j].pos < index[k].position + IndexInterval
  BY DEF IndexOk
<1>6. k \in below
  BY <1>2, <1>3, <1>4, <1>5
<1>7. \E x \in below : \A y \in below : y <= x
  <2>a. \A y \in below : y \in 0 .. Len(index)
    BY <1>2
  <2> HIDE DEF below
  <2> QED BY <2>a, <1>2, <1>6, GreatestElement
<1>8. top \in below /\ \A l \in below : l <= top
  BY <1>7
<1>9. FindFloor(index, o) = index[top].position
  BY <1>6 DEF FindFloor
<1>10. PICK i \in 1 .. Len(bs) : index[top].offset = bs[i].base /\ index[top].position = bs[i].pos
  BY <1>8 DEF IndexOk
<1>11. index[k].position <= index[top].position
  <2>a. k <= top /\ k \in 1 .. Len(index) /\ top \in 1 .. Len(index)
    BY <1>2, <1>6, <1>8
  <2>b. CASE k = top
    BY <2>b, <1>2
  <2>c. CASE k < top
    <3>1. index[k].position < index[top].position
      BY <2>a, <2>c, <1>2 DEF IndexOk
    <3> QED BY <3>1, <2>a, <1>2
  <2> QED BY <2>a, <2>b, <2>c
<1>12. i <= j
  <2> SUFFICES ASSUME j < i PROVE FALSE
    OBVIOUS
  <2>a. EndOffset(bs[j]) <= bs[i].base
    BY <1>1 DEF BatchesOk
  <2>b. bs[i].base <= o
    BY <1>8, <1>10
  <2> QED BY <2>a, <2>b, <1>3, <1>4
<1>13. bs[j].pos < bs[i].pos + IndexInterval
  <2>a. bs[j].pos < index[k].position + IndexInterval /\ index[k].position <= bs[i].pos
    BY <1>5, <1>10, <1>11
  <2>b. bs[j].pos \in Nat /\ bs[i].pos \in Nat /\ index[k].position \in Nat /\ IndexInterval \in Nat
    BY <1>2, <1>3, <1>10, ConstantsAssumption
  <2> QED BY <2>a, <2>b, Nearer
<1> QED BY <1>9, <1>10, <1>12, <1>13

\* FindSegmentIndex returns the segment whose file holds the batch of the offset.
LEMMA SegmentFound ==
    ASSUME Inv, phase = "open",
           NEW i \in 1 .. Len(files), NEW j \in 1 .. Len(files[i].batches),
           NEW o \in Nat, Contains(files[i].batches[j], o)
    PROVE  FindSegmentIndex(o) = i /\ o < next_offset
<1> DEFINE below == {k \in DOMAIN segments : segments[k].base <= o}
<1>1. /\ files \in Seq(File) /\ segments \in Seq(Segment)
      /\ Len(files) \in Nat /\ DOMAIN files = 1 .. Len(files)
      /\ \A k \in 1 .. Len(files) : files[k] \in File
  BY LenProperties, ElementOfSeq DEF Inv, TypeOK, Segment
<1>2. /\ FilesOk(files) /\ Len(segments) = Len(files)
      /\ DOMAIN segments = 1 .. Len(files)
      /\ next_offset = FileEnd(files[Len(files)])
      /\ \A k \in 1 .. Len(files) : segments[k].base = files[k].base
  BY <1>1, LenProperties DEF Inv, Layout, MemoryOk, SegmentOk
<1>3. \A k \in 1 .. Len(files) :
         /\ BatchesOk(files[k])
         /\ files[k].base \in Nat /\ FileEnd(files[k]) \in Nat
         /\ files[k].base <= FileEnd(files[k])
  BY <1>1, <1>2, FileEnds DEF FilesOk
<1> DEFINE bs == files[i].batches
<1>4. /\ bs \in Seq(Batch) /\ Len(bs) \in Nat /\ DOMAIN bs = 1 .. Len(bs)
      /\ bs[1] \in Batch /\ bs[j] \in Batch /\ bs[Len(bs)] \in Batch /\ bs # <<>>
  BY <1>1, LenProperties, ElementOfSeq, EmptySeq DEF File
<1>5. /\ bs[j].base \in Nat /\ EndOffset(bs[j]) \in Nat /\ bs[j].base < EndOffset(bs[j])
      /\ bs[1].base \in Nat /\ EndOffset(bs[1]) \in Nat /\ bs[1].base < EndOffset(bs[1])
      /\ bs[Len(bs)].base \in Nat /\ EndOffset(bs[Len(bs)]) \in Nat
      /\ bs[Len(bs)].base < EndOffset(bs[Len(bs)])
  BY <1>4, BatchEnds
<1>6. files[i].base <= bs[j].base /\ EndOffset(bs[j]) <= FileEnd(files[i])
  <2>a. bs[1].base = files[i].base
    BY <1>3, <1>4 DEF BatchesOk
  <2>e. \A k, l \in 1 .. Len(bs) : k < l => EndOffset(bs[k]) <= bs[l].base
    BY <1>3, <1>4 DEF BatchesOk
  <2>f. Len(bs) \in 1 .. Len(bs) /\ 1 \in 1 .. Len(bs)
    BY <1>4
  <2>b. j # 1 => EndOffset(bs[1]) <= bs[j].base
    BY <2>e, <2>f
  <2>c. j # Len(bs) => EndOffset(bs[j]) <= bs[Len(bs)].base
    BY <2>e, <2>f
  <2>d. FileEnd(files[i]) = EndOffset(bs[Len(bs)])
    BY <1>4 DEF FileEnd
  <2>g. files[i].base <= bs[j].base
    BY <2>a, <2>b, <1>5, SMTT(30)
  <2>h. EndOffset(bs[j]) <= EndOffset(bs[Len(bs)])
    BY <2>c, <1>5
  <2> QED BY <2>d, <2>g, <2>h
<1>7. bs[j].base <= o /\ o < EndOffset(bs[j])
  BY DEF Contains
<1>8. i \in below
  <2>a. files[i].base <= o
    <3>1. files[i].base \in Nat /\ bs[j].base \in Nat /\ files[i].base <= bs[j].base /\ bs[j].base <= o
      BY <1>3, <1>5, <1>6, <1>7
    <3> QED BY <3>1
  <2> QED BY <1>2, <2>a
<1>9. ASSUME NEW k \in below PROVE k <= i
  <2> SUFFICES ASSUME i < k PROVE FALSE
    BY <1>1, <1>2
  <2>a. k \in 1 .. Len(files) /\ segments[k].base = files[k].base /\ segments[k].base <= o
    BY <1>2
  <2>b. FileEnd(files[i]) <= files[k].base
    BY <1>1, <1>2, <2>a DEF FilesOk
  <2>c. /\ files[k].base \in Nat /\ FileEnd(files[i]) \in Nat /\ EndOffset(bs[j]) \in Nat
        /\ o < EndOffset(bs[j]) /\ EndOffset(bs[j]) <= FileEnd(files[i])
        /\ FileEnd(files[i]) <= files[k].base /\ files[k].base <= o
    BY <1>3, <1>5, <1>6, <1>7, <2>a, <2>b
  <2> QED BY <2>c
<1>10. i = CHOOSE k \in below : \A l \in below : l <= k
  <2>a. \A k \in below : (\A l \in below : l <= k) => k = i
    BY <1>1, <1>2, <1>8, <1>9
  <2> QED BY <2>a, <1>8, <1>9
<1>11. o < next_offset
  <2>a. Len(files) \in 1 .. Len(files)
    BY <1>1
  <2>b. i < Len(files) => FileEnd(files[i]) <= files[Len(files)].base
    BY <2>a, <1>1, <1>2 DEF FilesOk
  <2>c. i < Len(files) \/ i = Len(files)
    <3>1. i \in Int /\ Len(files) \in Int /\ i <= Len(files)
      BY <2>a
    <3> QED BY <3>1, Below
  <2>d. FileEnd(files[i]) <= next_offset
    <3>1. CASE i = Len(files)
      BY <3>1, <2>a, <1>2, <1>3
    <3>2. CASE i < Len(files)
      <4>1. /\ FileEnd(files[i]) <= files[Len(files)].base
            /\ files[Len(files)].base <= FileEnd(files[Len(files)])
            /\ FileEnd(files[i]) \in Nat /\ files[Len(files)].base \in Nat
            /\ FileEnd(files[Len(files)]) \in Nat
        BY <3>2, <2>a, <2>b, <1>3
      <4> QED BY <4>1, <1>2
    <3> QED BY <3>1, <3>2, <2>c
  <2>e. next_offset \in Nat /\ FileEnd(files[i]) \in Nat
    BY <2>a, <1>2, <1>3
  <2> QED BY <2>d, <2>e, <1>5, <1>6, <1>7
<1> QED BY <1>8, <1>10, <1>11 DEF FindSegmentIndex

\* The walk from the floor passes over every batch before the one that holds the
\* offset: none of them holds it, and all of them fit.
LEMMA WalkStops ==
    ASSUME NEW f \in File, BatchesOk(f), NEW j \in 1 .. Len(f.batches),
           NEW i \in 1 .. j, f.batches[j].pos < f.batches[i].pos + IndexInterval,
           NEW o \in Nat, Contains(f.batches[j], o),
           NEW max \in Nat, max >= Bytes(f.batches[j]), max >= IndexInterval
    PROVE  LET bs == f.batches
               from == {l \in DOMAIN bs : bs[l].pos >= bs[i].pos}
               stops == {l \in from : Contains(bs[l], o) \/ Bytes(bs[l]) > max}
           IN  j \in stops /\ \A l \in stops : j <= l
<1> DEFINE bs == f.batches
           from == {l \in DOMAIN bs : bs[l].pos >= bs[i].pos}
           stops == {l \in from : Contains(bs[l], o) \/ Bytes(bs[l]) > max}
<1>1. /\ bs \in Seq(Batch) /\ Len(bs) \in Nat /\ DOMAIN bs = 1 .. Len(bs)
      /\ \A l \in 1 .. Len(bs) : bs[l] \in Batch
  BY LenProperties, ElementOfSeq DEF File
<1>2. \A l \in 1 .. Len(bs) :
         /\ bs[l].pos \in Nat /\ bs[l].base \in Nat /\ Bytes(bs[l]) \in Nat
         /\ EndPos(bs[l]) \in Nat /\ EndOffset(bs[l]) \in Nat
         /\ bs[l].pos < EndPos(bs[l]) /\ EndPos(bs[l]) = bs[l].pos + Bytes(bs[l])
  BY <1>1, BatchEnds DEF EndPos
<1>3. i \in 1 .. Len(bs) /\ j \in 1 .. Len(bs)
  BY <1>1
<1>4. bs[i].pos <= bs[j].pos
  <2>a. i < j => EndPos(bs[i]) <= bs[j].pos
    BY <1>1, <1>3 DEF BatchesOk
  <2>b. i < j \/ i = j
    OBVIOUS
  <2>c. bs[i].pos \in Nat /\ bs[j].pos \in Nat /\ EndPos(bs[i]) \in Nat /\ bs[i].pos < EndPos(bs[i])
    BY <1>2, <1>3
  <2> QED BY <2>a, <2>b, <2>c
<1>5. j \in stops
  BY <1>1, <1>2, <1>3, <1>4
<1>6. ASSUME NEW l \in stops, l < j PROVE FALSE
  <2>a. l \in 1 .. Len(bs) /\ bs[l].pos >= bs[i].pos
    BY <1>1
  <2>b. EndPos(bs[l]) <= bs[j].pos /\ EndOffset(bs[l]) <= bs[j].base
    BY <2>a, <1>1, <1>3, <1>6 DEF BatchesOk
  <2>e. /\ EndPos(bs[l]) = bs[l].pos + Bytes(bs[l]) /\ bs[l].pos \in Nat
        /\ Bytes(bs[l]) \in Nat /\ EndOffset(bs[l]) \in Nat
        /\ bs[j].base \in Nat /\ bs[j].pos \in Nat /\ bs[i].pos \in Nat
    BY <2>a, <1>2, <1>3
  <2>c. ~Contains(bs[l], o)
    <3>1. bs[j].base <= o
      BY DEF Contains
    <3> QED BY <3>1, <2>b, <2>e DEF Contains
  <2>d. Bytes(bs[l]) <= max
    <3>1. /\ bs[i].pos <= bs[l].pos /\ bs[l].pos + Bytes(bs[l]) <= bs[j].pos
          /\ bs[j].pos < bs[i].pos + IndexInterval
      BY <2>a, <2>b, <2>e
    <3>2. IndexInterval \in Nat
      BY ConstantsAssumption
    <3>3. Bytes(bs[l]) <= IndexInterval
      <4> DEFINE p == bs[l].pos
                 q == bs[j].pos
                 z == bs[i].pos
                 n == Bytes(bs[l])
      <4>1. p \in Nat /\ q \in Nat /\ z \in Nat /\ n \in Nat
        BY <2>e
      <4>2. z <= p /\ p + n <= q /\ q < z + IndexInterval
        BY <3>1
      <4> HIDE DEF p, q, z, n
      <4>3. n <= IndexInterval
        BY <4>1, <4>2, <3>2, Fits
      <4> QED BY <4>3 DEF n
    <3> QED BY <3>2, <3>3, <2>e
  <2> QED BY <2>a, <2>c, <2>d, <1>2
<1>7. \A l \in stops : j <= l
  BY <1>1, <1>6
<1> QED BY <1>5, <1>7

----------------------------------------
(* The theorem *)

LEMMA ReadFinds ==
    ASSUME Inv, phase = "open", \A i \in DOMAIN segments : ~segments[i].closed,
           NEW b \in StoredBatches, NEW o \in b.base .. EndOffset(b) - 1
    PROVE  Read(o, Enough(b)) = Found(b)
<1>1. PICK i \in 1 .. Len(files) : \E j \in 1 .. Len(files[i].batches) :
             files[i].batches[j] = b
  BY StoredPlace
<1>2. PICK j \in 1 .. Len(files[i].batches) : files[i].batches[j] = b
  BY <1>1
<1> DEFINE f == files[i]
           bs == f.batches
           max == Enough(b)
           start == FindFloor(indexes[i], o)
           from == {l \in DOMAIN bs : bs[l].pos >= start}
           stops == {l \in from : Contains(bs[l], o) \/ Bytes(bs[l]) > max}
           first == CHOOSE l \in stops : \A k \in stops : l <= k
<1>3. /\ files \in Seq(File) /\ f \in File /\ DOMAIN files = 1 .. Len(files)
      /\ Len(files) \in Nat
      /\ indexes \in Seq(Seq(IndexEntry)) /\ segments \in Seq(Segment)
  BY LenProperties, ElementOfSeq DEF Inv, TypeOK, Segment
<1>4. /\ BatchesOk(f) /\ Len(segments) = Len(files) /\ Len(indexes) = Len(segments)
      /\ i \in DOMAIN segments /\ indexes[i] \in Seq(IndexEntry)
      /\ IndexOk(indexes[i], bs, Len(bs))
  BY <1>3, LenProperties, ElementOfSeq DEF Inv, Layout, FilesOk, MemoryOk, SegmentOk
<1>5. /\ bs \in Seq(Batch) /\ Len(bs) \in Nat /\ DOMAIN bs = 1 .. Len(bs) /\ b \in Batch
      /\ \A l \in 1 .. Len(bs) : bs[l] \in Batch
  BY <1>2, <1>3, LenProperties, ElementOfSeq DEF File
<1>6. /\ b.base \in Nat /\ EndOffset(b) \in Nat /\ Bytes(b) \in Nat
  BY <1>5, BatchEnds
<1>7. o \in Nat /\ Contains(b, o)
  BY <1>6 DEF Contains
<1>8. /\ max \in Nat /\ max >= Bytes(b) /\ max >= IndexInterval /\ max >= HeaderBytes
      /\ ~(max < HeaderBytes) /\ ~(Bytes(b) > max)
  <2>a. Bytes(b) >= HeaderBytes
    BY <1>5, ConstantsAssumption DEF Bytes, Batch
  <2> QED BY <2>a, <1>6, ConstantsAssumption DEF Enough
<1>9. FindSegmentIndex(o) = i /\ ~(o >= next_offset) /\ i # 0
  <2>a. FindSegmentIndex(o) = i /\ o < next_offset
    BY <1>2, <1>7, SegmentFound
  <2>b. next_offset \in Nat
    BY DEF Inv, TypeOK
  <2> QED BY <2>a, <2>b, <1>7
<1>10. PICK k \in 1 .. j : start = bs[k].pos /\ bs[j].pos < bs[k].pos + IndexInterval
  BY <1>2, <1>3, <1>4, <1>7, FloorNear
<1>11. k \in DOMAIN bs
  BY <1>5
<1>12. j \in stops /\ \A l \in stops : j <= l
  <2>a. max >= Bytes(bs[j]) /\ Contains(bs[j], o)
    BY <1>2, <1>7, <1>8
  <2> QED BY <2>a, <1>3, <1>4, <1>7, <1>8, <1>10, WalkStops
<1>13. first = j
  <2>a. \A l \in stops : l \in Nat
    BY <1>5
  <2>b. \A l \in stops : (\A m \in stops : l <= m) => l = j
    BY <2>a, <1>12
  <2> QED BY <2>b, <1>12
<1>14. Read(o, max) =
          IF o >= next_offset \/ i = 0 THEN Failed("NotFound")
          ELSE IF segments[i].closed \/ max < HeaderBytes THEN Failed("InvalidArgument")
          ELSE IF start < segments[i].wpos /\ ~\E l \in DOMAIN bs : bs[l].pos = start
               THEN Failed("Corruption")
          ELSE IF stops = {} THEN Failed("NotFound")
          ELSE IF Bytes(bs[first]) > max THEN Failed("InvalidArgument")
          ELSE Found(bs[first])
  BY <1>9 DEF Read
<1>15. /\ ~segments[i].closed /\ \E l \in DOMAIN bs : bs[l].pos = start
       /\ stops # {} /\ bs[first] = b
  BY <1>2, <1>4, <1>10, <1>11, <1>12, <1>13
<1>16. ~(Bytes(bs[first]) > max)
  BY <1>8, <1>15
<1>17. Read(o, max) = Found(bs[first])
  <2> HIDE DEF first, stops, from, start, max, bs, f
  <2> QED BY <1>8, <1>9, <1>14, <1>15, <1>16
<1> QED BY <1>15, <1>17

\* From any offset of any stored batch, Read returns exactly that batch to a caller
\* that offers room for it and for one index interval, whatever appends, failures,
\* crashes and recoveries came before.
THEOREM ReadsComplete == Spec => []ReadComplete
<1>1. Inv => ReadComplete
  BY ReadFinds DEF ReadComplete
<1> QED BY <1>1, InitInv, NextInv, PTL DEF Spec

----------------------------------------
(* Refinement.  The log implements OffsetLog: its records are those of the    *)
(* stored batches, its stable prefix ends where the flushed batches end.      *)
(* Every step of CommitLog does one of four things to that log, and Late is   *)
(* what a reordering power loss needs besides Inv and Durable.                *)

\* The batches in a list of files, and the offset where the list ends.
Stored(fs) ==
    UNION {{f.batches[j] : j \in DOMAIN f.batches} : f \in {fs[i] : i \in DOMAIN fs}}
EndOf(fs) == IF fs = <<>> THEN 0 ELSE FileEnd(fs[Len(fs)])

\* The records that a set of batches holds at the offsets below e.
RecordsOf(S, e) ==
    [i \in 1 .. e |->
        IF {b \in S : Contains(b, i - 1)} = {} THEN NoRecord
        ELSE <<(CHOOSE b \in {c \in S : Contains(c, i - 1)} : TRUE).payload,
               (i - 1) - (CHOOSE b \in {c \in S : Contains(c, i - 1)} : TRUE).base>>]

\* No two batches of S share an offset, and none ends behind e.
Apart(S, e) ==
    /\ e \in Nat
    /\ \A b \in S : b \in Batch /\ EndOffset(b) <= e
    /\ \A a, b \in S : a = b \/ EndOffset(a) <= b.base \/ EndOffset(b) <= a.base

\* What the variables of OffsetLog stand for, before and after a step.
LEMMA LogMapped ==
    /\ LogRecords = RecordsOf(Stored(files), EndOf(files))
    /\ LogRecords' = RecordsOf(Stored(files'), EndOf(files'))
    /\ StoredBatches = Stored(files) /\ StoredBatches' = Stored(files')
<1>1. StoredBatches = Stored(files) /\ StoredBatches' = Stored(files')
  BY DEF StoredBatches, Stored
<1>2. LogEnd = EndOf(files) /\ LogEnd' = EndOf(files')
  BY DEF LogEnd, EndOf
<1>3. LogRecords = RecordsOf(StoredBatches, LogEnd) /\ LogRecords' = RecordsOf(StoredBatches', LogEnd')
  BY DEF LogRecords, RecordsOf
<1> QED BY <1>1, <1>2, <1>3

\* A stored batch has a place in a file.
LEMMA StoredAt ==
    ASSUME NEW fs, NEW b
    PROVE  b \in Stored(fs) <=> \E i \in DOMAIN fs : \E j \in DOMAIN fs[i].batches :
                                    b = fs[i].batches[j]
BY DEF Stored

\* The batches of well-formed files are apart.
LEMMA StoredApart ==
    ASSUME NEW fs \in Seq(File), FilesOk(fs)
    PROVE  Apart(Stored(fs), EndOf(fs))
<1>1. /\ Len(fs) \in Nat /\ DOMAIN fs = 1 .. Len(fs)
      /\ \A i \in DOMAIN fs : fs[i] \in File /\ fs[i].batches \in Seq(Batch)
  BY FileFacts
<1>2. \A i \in DOMAIN fs : BatchesOk(fs[i])
  BY DEF FilesOk
<1>3. \A i \in DOMAIN fs :
         /\ fs[i].base \in Nat /\ FileEnd(fs[i]) \in Nat /\ fs[i].base <= FileEnd(fs[i])
         /\ \A j \in DOMAIN fs[i].batches :
               /\ fs[i].batches[j] \in Batch
               /\ fs[i].base <= fs[i].batches[j].base
               /\ EndOffset(fs[i].batches[j]) <= FileEnd(fs[i])
  BY <1>1, <1>2, FileEnds
<1>4. \A i, k \in DOMAIN fs : i < k => FileEnd(fs[i]) <= fs[k].base
  BY DEF FilesOk
<1>5. \A i \in DOMAIN fs : DOMAIN fs[i].batches = 1 .. Len(fs[i].batches) /\ Len(fs[i].batches) \in Nat
  BY <1>1, LenProperties
<1>6. \A b \in Stored(fs) : /\ b \in Batch /\ b.base \in Nat /\ EndOffset(b) \in Nat
                            /\ b.base < EndOffset(b)
  BY <1>3, StoredAt, BatchEnds
<1>7. EndOf(fs) \in Nat /\ \A i \in DOMAIN fs : FileEnd(fs[i]) <= EndOf(fs)
  <2>a. CASE fs = <<>>
    BY <2>a, <1>1, EmptySeq DEF EndOf
  <2>b. CASE fs # <<>>
    <3>1. Len(fs) \in DOMAIN fs
      BY <2>b, <1>1, EmptySeq
    <3>2. EndOf(fs) = FileEnd(fs[Len(fs)])
      BY <2>b DEF EndOf
    <3>3. \A i \in DOMAIN fs : i < Len(fs) \/ i = Len(fs)
      BY <1>1
    <3> QED BY <3>1, <3>2, <3>3, <1>3, <1>4
  <2> QED BY <2>a, <2>b
<1>8. ASSUME NEW b \in Stored(fs) PROVE EndOffset(b) <= EndOf(fs)
  <2>a. PICK i \in DOMAIN fs : \E j \in DOMAIN fs[i].batches : b = fs[i].batches[j]
    BY StoredAt
  <2>b. EndOffset(b) <= FileEnd(fs[i]) /\ FileEnd(fs[i]) <= EndOf(fs)
    BY <2>a, <1>3, <1>7
  <2>c. EndOffset(b) \in Nat /\ FileEnd(fs[i]) \in Nat
    BY <1>3, <1>6
  <2> QED BY <2>b, <2>c, <1>7
<1>9. ASSUME NEW a \in Stored(fs), NEW b \in Stored(fs)
      PROVE  a = b \/ EndOffset(a) <= b.base \/ EndOffset(b) <= a.base
  <2>a. PICK i \in DOMAIN fs : \E j \in DOMAIN fs[i].batches : a = fs[i].batches[j]
    BY StoredAt
  <2>b. PICK j \in DOMAIN fs[i].batches : a = fs[i].batches[j]
    BY <2>a
  <2>c. PICK k \in DOMAIN fs : \E l \in DOMAIN fs[k].batches : b = fs[k].batches[l]
    BY StoredAt
  <2>d. PICK l \in DOMAIN fs[k].batches : b = fs[k].batches[l]
    BY <2>c
  <2>e. /\ EndOffset(a) <= FileEnd(fs[i]) /\ fs[i].base <= a.base
        /\ EndOffset(b) <= FileEnd(fs[k]) /\ fs[k].base <= b.base
        /\ FileEnd(fs[i]) \in Nat /\ FileEnd(fs[k]) \in Nat
        /\ fs[i].base \in Nat /\ fs[k].base \in Nat
    BY <2>b, <2>d, <1>3
  <2>f. CASE i < k
    <3>1. FileEnd(fs[i]) <= fs[k].base
      BY <2>f, <1>4
    <3> QED BY <3>1, <2>e, <1>6
  <2>g. CASE k < i
    <3>1. FileEnd(fs[k]) <= fs[i].base
      BY <2>g, <1>4
    <3> QED BY <3>1, <2>e, <1>6
  <2>h. CASE i = k
    <3>1. j \in Nat /\ l \in Nat
      BY <1>5, <2>b, <2>d
    <3>2. /\ j < l => EndOffset(fs[i].batches[j]) <= fs[i].batches[l].base
          /\ l < j => EndOffset(fs[i].batches[l]) <= fs[i].batches[j].base
      BY <2>b, <2>d, <2>h, <1>2 DEF BatchesOk
    <3>3. j < l \/ l < j \/ j = l
      BY <3>1
    <3> QED BY <3>2, <3>3, <2>b, <2>d, <2>h
  <2> QED BY <2>f, <2>g, <2>h, <1>1
<1> QED BY <1>6, <1>7, <1>8, <1>9 DEF Apart

\* The record at an offset is the one of the batch that holds it.
LEMMA RecordAt ==
    ASSUME NEW S, NEW e, Apart(S, e), NEW i \in 1 .. e
    PROVE  /\ \A b \in S : Contains(b, i - 1) =>
                 RecordsOf(S, e)[i] = <<b.payload, (i - 1) - b.base>>
           /\ (\A b \in S : ~Contains(b, i - 1)) => RecordsOf(S, e)[i] = NoRecord
<1> DEFINE at == {b \in S : Contains(b, i - 1)}
           c == CHOOSE b \in at : TRUE
<1>1. RecordsOf(S, e)[i] = IF at = {} THEN NoRecord ELSE <<c.payload, (i - 1) - c.base>>
  BY DEF RecordsOf
<1>2. ASSUME NEW b \in S, Contains(b, i - 1)
      PROVE  RecordsOf(S, e)[i] = <<b.payload, (i - 1) - b.base>>
  <2>a. at # {}
    BY <1>2
  <2>b. c \in S /\ Contains(c, i - 1)
    BY <2>a
  <2> HIDE DEF c
  <2>c. c = b
    <3>1. c = b \/ EndOffset(c) <= b.base \/ EndOffset(b) <= c.base
      BY <2>b DEF Apart
    <3>2. /\ b.base \in Nat /\ EndOffset(b) \in Nat /\ c.base \in Nat /\ EndOffset(c) \in Nat
      BY <2>b, BatchEnds DEF Apart
    <3>3. /\ b.base <= i - 1 /\ i - 1 < EndOffset(b)
          /\ c.base <= i - 1 /\ i - 1 < EndOffset(c)
      BY <1>2, <2>b DEF Contains
    <3> QED BY <3>1, <3>2, <3>3
  <2> QED BY <1>1, <2>a, <2>c
<1> QED BY <1>1, <1>2

\* The records form a sequence that is as long as the log.
LEMMA RecordsSeq ==
    ASSUME NEW S, NEW e \in Nat
    PROVE  /\ DOMAIN RecordsOf(S, e) = 1 .. e /\ Len(RecordsOf(S, e)) = e
           /\ \E V : RecordsOf(S, e) \in Seq(V)
<1> DEFINE R == RecordsOf(S, e)
           V == {R[i] : i \in 1 .. e}
<1>1. R = [i \in 1 .. e |-> R[i]]
  BY DEF RecordsOf
<1> HIDE DEF R
<1>2. R \in [1 .. e -> V]
  BY <1>1
<1> HIDE DEF V
<1>3. R \in Seq(V) /\ Len(R) = e
  BY <1>2
<1> QED BY <1>2, <1>3 DEF R

\* A batch put at the end of the log adds its records and moves no other.
LEMMA RecordsExtended ==
    ASSUME NEW S, NEW e, Apart(S, e), NEW p \in Payloads,
           NEW b \in Batch, b.base = e, b.payload = p, Apart(S \cup {b}, EndOffset(b))
    PROVE  RecordsOf(S \cup {b}, EndOffset(b)) =
              RecordsOf(S, e) \o [k \in 1 .. RecordCount[p] |-> <<p, k - 1>>]
<1> DEFINE n == RecordCount[p]
           chunk == [k \in 1 .. n |-> <<p, k - 1>>]
           R == RecordsOf(S, e)
           T == RecordsOf(S \cup {b}, EndOffset(b))
<1>1. e \in Nat /\ n \in Nat /\ EndOffset(b) = e + n /\ e + n \in Nat
  BY ConstantsAssumption DEF Apart, EndOffset, Count
<1>2. /\ DOMAIN R = 1 .. e /\ Len(R) = e /\ DOMAIN T = 1 .. e + n /\ Len(T) = e + n
      /\ (\E V : R \in Seq(V)) /\ \E V : T \in Seq(V)
  BY <1>1, RecordsSeq
<1>3. PICK V : R \in Seq(V)
  BY <1>2
<1>4. PICK W : T \in Seq(W)
  BY <1>2
<1> DEFINE A == V \cup W \cup {<<p, k - 1>> : k \in 1 .. n}
<1>5. R \in Seq(A) /\ T \in Seq(A)
  BY <1>3, <1>4, SeqMonotonic
<1>6. chunk \in Seq(A) /\ Len(chunk) = n /\ \A k \in 1 .. n : chunk[k] = <<p, k - 1>>
  <2>a. chunk \in [1 .. n -> A]
    OBVIOUS
  <2> HIDE DEF A
  <2>b. \A k \in 1 .. n : chunk[k] = <<p, k - 1>>
    OBVIOUS
  <2> HIDE DEF chunk
  <2> QED BY <2>a, <2>b, <1>1
<1> HIDE DEF A
<1>7. /\ R \o chunk \in Seq(A) /\ Len(R \o chunk) = e + n
      /\ \A i \in 1 .. e + n : (R \o chunk)[i] = IF i <= e THEN R[i] ELSE chunk[i - e]
  <2>a. Len(R) = e /\ Len(chunk) = n
    BY <1>2, <1>6
  <2> HIDE DEF R, chunk, n
  <2>b. /\ R \o chunk \in Seq(A) /\ Len(R \o chunk) = Len(R) + Len(chunk)
        /\ \A i \in 1 .. Len(R) + Len(chunk) :
              (R \o chunk)[i] = IF i <= Len(R) THEN R[i] ELSE chunk[i - Len(R)]
    BY <1>5, <1>6, ConcatProperties
  <2> QED BY <2>a, <2>b
<1>8. \A c \in S : c.base \in Nat /\ EndOffset(c) \in Nat /\ EndOffset(c) <= e
  BY BatchEnds DEF Apart
<1>9. ASSUME NEW i \in 1 .. e + n PROVE T[i] = (R \o chunk)[i]
  <2>z. /\ i \in 1 .. EndOffset(b) /\ i \in Int
        /\ \A c \in S \cup {b} : Contains(c, i - 1) => T[i] = <<c.payload, (i - 1) - c.base>>
        /\ (\A c \in S \cup {b} : ~Contains(c, i - 1)) => T[i] = NoRecord
    <3>1. i \in 1 .. EndOffset(b) /\ i \in Int
      BY <1>1
    <3> DEFINE U == S \cup {b}
    <3> HIDE DEF U
    <3>2. T = RecordsOf(U, EndOffset(b)) /\ Apart(U, EndOffset(b))
      BY DEF U
    <3> HIDE DEF T
    <3>3. /\ \A c \in U : Contains(c, i - 1) => T[i] = <<c.payload, (i - 1) - c.base>>
          /\ (\A c \in U : ~Contains(c, i - 1)) => T[i] = NoRecord
      BY <3>1, <3>2, RecordAt
    <3> QED BY <3>1, <3>3 DEF U
  <2> HIDE DEF T
  <2>a. CASE i <= e
    <3>1. i \in 1 .. e /\ ~Contains(b, i - 1)
      BY <2>a, <1>1 DEF Contains
    <3>2. CASE \E c \in S : Contains(c, i - 1)
      <4>1. PICK c \in S : Contains(c, i - 1)
        BY <3>2
      <4>2. R[i] = <<c.payload, (i - 1) - c.base>>
        BY <3>1, <4>1, RecordAt
      <4>3. T[i] = <<c.payload, (i - 1) - c.base>>
        BY <4>1, <2>z
      <4> QED BY <4>2, <4>3, <2>a, <1>7
    <3>3. CASE \A c \in S : ~Contains(c, i - 1)
      <4>1. R[i] = NoRecord
        BY <3>1, <3>3, RecordAt
      <4>2. T[i] = NoRecord
        <5>1. \A c \in S \cup {b} : ~Contains(c, i - 1)
          BY <3>1, <3>3
        <5> QED BY <5>1, <2>z
      <4> QED BY <4>1, <4>2, <2>a, <1>7
    <3> QED BY <3>2, <3>3
  <2>b. CASE e < i
    <3>1. Contains(b, i - 1)
      BY <2>b, <1>1 DEF Contains
    <3>2. T[i] = <<p, (i - 1) - e>>
      BY <3>1, <2>z
    <3>3. i - e \in 1 .. n /\ (i - e) - 1 = (i - 1) - e
      BY <2>b, <1>1
    <3>4. (R \o chunk)[i] = chunk[i - e]
      <4>1. ~(i <= e)
        BY <2>z, <2>b, <1>1
      <4> HIDE DEF R, chunk
      <4> QED BY <4>1, <1>7
    <3>5. chunk[i - e] = <<p, (i - e) - 1>>
      BY <1>6, <3>3
    <3> QED BY <3>2, <3>3, <3>4, <3>5
  <2>c. i <= e \/ e < i
    BY <2>z, <1>1
  <2> QED BY <2>a, <2>b, <2>c
<1> HIDE DEF R, T, chunk, n
<1>10. T = R \o chunk
  BY <1>2, <1>5, <1>7, <1>9, SeqEqual
<1> QED BY <1>10 DEF R, T, chunk, n

\* Where the flushed batches end.
LEMMA FlushedTop ==
    ASSUME NEW F, NEW S, NEW e, Apart(S, e), F \subseteq S, F # {}
    PROVE  LET top == CHOOSE b \in F : \A c \in F : c.base <= b.base
           IN  /\ top \in F
               /\ \A c \in F : EndOffset(c) <= EndOffset(top)
               /\ EndOffset(top) \in 0 .. e
<1> DEFINE B == {b.base : b \in F}
           top == CHOOSE b \in F : \A c \in F : c.base <= b.base
<1>1. /\ e \in Nat
      /\ \A b \in F : /\ b.base \in Nat /\ EndOffset(b) \in Nat /\ b.base < EndOffset(b)
                      /\ EndOffset(b) <= e
  BY BatchEnds DEF Apart
<1>2. B # {} /\ \A x \in B : x \in 0 .. e
  BY <1>1
<1>3. \E x \in B : \A y \in B : y <= x
  <2> HIDE DEF B
  <2> QED BY <1>1, <1>2, GreatestElement
<1>4. \E b \in F : \A c \in F : c.base <= b.base
  BY <1>3
<1>5. top \in F /\ \A c \in F : c.base <= top.base
  BY <1>4
<1> HIDE DEF top
<1>6. ASSUME NEW c \in F PROVE EndOffset(c) <= EndOffset(top)
  <2>a. c = top \/ EndOffset(c) <= top.base \/ EndOffset(top) <= c.base
    BY <1>5 DEF Apart
  <2> QED BY <2>a, <1>1, <1>5
<1> QED BY <1>1, <1>5, <1>6 DEF top

\* Files with the same batches at the same places hold the same log.
LEMMA SameLog ==
    ASSUME NEW fs \in Seq(File), NEW gs \in Seq(File), Len(gs) = Len(fs),
           \A i \in 1 .. Len(fs) : gs[i].base = fs[i].base /\ gs[i].batches = fs[i].batches
    PROVE  Stored(gs) = Stored(fs) /\ EndOf(gs) = EndOf(fs)
<1>1. Len(fs) \in Nat /\ DOMAIN fs = 1 .. Len(fs) /\ DOMAIN gs = 1 .. Len(fs)
  BY LenProperties
<1>2. ASSUME NEW b PROVE b \in Stored(gs) <=> b \in Stored(fs)
  BY <1>1, StoredAt
<1>3. \A i \in 1 .. Len(fs) : FileEnd(gs[i]) = FileEnd(fs[i])
  BY DEF FileEnd
<1>4. (fs = <<>> <=> Len(fs) = 0) /\ (gs = <<>> <=> Len(fs) = 0)
  BY EmptySeq
<1>5. EndOf(gs) = EndOf(fs)
  <2>a. Len(fs) # 0 => Len(fs) \in 1 .. Len(fs)
    BY <1>1
  <2> QED BY <2>a, <1>3, <1>4 DEF EndOf
<1> QED BY <1>2, <1>5

\* An empty file that starts where the log ends adds nothing to it.
LEMMA RollSameLog ==
    ASSUME NEW fs \in Seq(File), NEW base \in Nat, base = EndOf(fs)
    PROVE  Stored(Append(fs, NewFile(base))) = Stored(fs) /\ EndOf(Append(fs, NewFile(base))) = base
<1> DEFINE g == NewFile(base)
           gs == Append(fs, g)
<1>1. g \in File /\ g.batches = <<>> /\ g.base = base /\ FileEnd(g) = base
  BY EmptySeq DEF NewFile, NoTail, TailBytes, File, FileEnd
<1> HIDE DEF g
<1>2. /\ gs \in Seq(File) /\ Len(gs) = Len(fs) + 1 /\ gs[Len(fs) + 1] = g /\ gs # <<>>
      /\ \A i \in 1 .. Len(fs) : gs[i] = fs[i]
  BY <1>1, AppendProperties
<1>3. Len(fs) \in Nat /\ DOMAIN fs = 1 .. Len(fs) /\ DOMAIN gs = 1 .. Len(fs) + 1
  BY <1>2, LenProperties
<1> HIDE DEF gs
<1>4. DOMAIN g.batches = {}
  BY <1>1
<1>5. ASSUME NEW b PROVE b \in Stored(gs) <=> b \in Stored(fs)
  <2>a. \A i \in DOMAIN gs : i \in DOMAIN fs \/ i = Len(fs) + 1
    BY <1>3
  <2>b. \A i \in DOMAIN fs : i \in DOMAIN gs /\ gs[i] = fs[i]
    BY <1>2, <1>3
  <2> QED BY <2>a, <2>b, <1>2, <1>4, StoredAt
<1>6. EndOf(gs) = base
  BY <1>1, <1>2 DEF EndOf
<1> QED BY <1>5, <1>6 DEF gs, g

\* A batch written behind the last one of the last file.
LEMMA WriteLog ==
    ASSUME NEW fs \in Seq(File), FilesOk(fs), NEW n \in DOMAIN fs, n = Len(fs),
           NEW b \in Batch, NEW k
    PROVE  LET gs == [fs EXCEPT ![n].batches = Append(@, b), ![n].tail = Overwritten(@, k)]
           IN  Stored(gs) = Stored(fs) \cup {b} /\ EndOf(gs) = EndOffset(b)
<1> DEFINE bs == fs[n].batches
           cs == Append(bs, b)
           t == Overwritten(fs[n].tail, k)
           g == [fs[n] EXCEPT !.batches = cs, !.tail = t]
           gs == [fs EXCEPT ![n] = g]
<1>1. /\ fs[n] \in [base : Nat, batches : Seq(Batch), tail : TailBytes, synced : Nat]
      /\ bs \in Seq(Batch) /\ Len(bs) \in Nat /\ DOMAIN bs = 1 .. Len(bs)
      /\ Len(fs) \in Nat /\ DOMAIN fs = 1 .. Len(fs)
  BY FileFacts, LenProperties
<1>2. /\ cs \in Seq(Batch) /\ Len(cs) = Len(bs) + 1 /\ cs[Len(bs) + 1] = b
      /\ \A j \in 1 .. Len(bs) : cs[j] = bs[j]
      /\ cs # <<>>
  BY <1>1, AppendProperties
<1>3. DOMAIN cs = 1 .. Len(bs) + 1
  BY <1>2, LenProperties
<1>4. gs = [fs EXCEPT ![n].batches = Append(@, b), ![n].tail = Overwritten(@, k)]
  BY <1>1
<1> HIDE DEF bs, cs, t
<1>5. g.batches = cs
  BY <1>1
<1> HIDE DEF g
<1>6. DOMAIN gs = DOMAIN fs /\ \A i \in DOMAIN fs : gs[i] = IF i = n THEN g ELSE fs[i]
  OBVIOUS
<1>7. gs # <<>> /\ Len(gs) = n
  BY <1>1, <1>6
<1> HIDE DEF gs
<1>8. ASSUME NEW c PROVE c \in Stored(gs) <=> c \in Stored(fs) \/ c = b
  <2>a. \A i \in DOMAIN fs : i # n => gs[i].batches = fs[i].batches
    BY <1>6
  <2>b. gs[n].batches = cs /\ fs[n].batches = bs
    BY <1>5, <1>6 DEF bs
  <2>c. (\E j \in DOMAIN cs : c = cs[j]) <=> (\E j \in DOMAIN bs : c = bs[j]) \/ c = b
    <3>1. \A j \in DOMAIN bs : j \in DOMAIN cs /\ cs[j] = bs[j]
      BY <1>1, <1>2, <1>3
    <3>2. \A j \in DOMAIN cs : j \in DOMAIN bs \/ cs[j] = b
      BY <1>1, <1>2, <1>3
    <3>3. Len(bs) + 1 \in DOMAIN cs
      BY <1>1, <1>3
    <3> QED BY <3>1, <3>2, <3>3, <1>2
  <2> QED BY <2>a, <2>b, <2>c, <1>6, StoredAt
<1>9. EndOf(gs) = EndOffset(b)
  <2>a. gs[n].batches = cs /\ cs[Len(cs)] = b
    BY <1>2, <1>5, <1>6
  <2> QED BY <2>a, <1>2, <1>7 DEF EndOf, FileEnd
<1> QED BY <1>4, <1>8, <1>9

\* A new tail for file n.
LEMMA TailLog ==
    ASSUME NEW fs \in Seq(File), FilesOk(fs), NEW n \in DOMAIN fs, NEW t,
           [fs EXCEPT ![n].tail = t] \in Seq(File)
    PROVE  LET gs == [fs EXCEPT ![n].tail = t]
           IN  Stored(gs) = Stored(fs) /\ EndOf(gs) = EndOf(fs)
<1> DEFINE gs == [fs EXCEPT ![n].tail = t]
<1>1. /\ Len(fs) \in Nat /\ DOMAIN fs = 1 .. Len(fs)
      /\ \A i \in DOMAIN fs :
            fs[i] \in [base : Nat, batches : Seq(Batch), tail : TailBytes, synced : Nat]
  BY FileFacts
<1>2. DOMAIN gs = DOMAIN fs /\ DOMAIN gs = 1 .. Len(gs) /\ Len(gs) \in Nat
  BY LenProperties
<1>3. Len(gs) = Len(fs)
  BY <1>1, <1>2
<1>4. \A i \in 1 .. Len(fs) : gs[i].base = fs[i].base /\ gs[i].batches = fs[i].batches
  BY <1>1
<1>5. gs \in Seq(File)
  OBVIOUS
<1> HIDE DEF gs
<1>6. Stored(gs) = Stored(fs) /\ EndOf(gs) = EndOf(fs)
  BY <1>3, <1>4, <1>5, SameLog
<1> QED BY <1>6 DEF gs

----------------------------------------
(* What a step does to the log: nothing, one more batch, a flush or a loss *)

KeepsLog == Stored(files') = Stored(files) /\ EndOf(files') = EndOf(files)

Unseen == KeepsLog /\ flushed' = flushed

Grows ==
    \E b \in Batch :
        /\ b.base = EndOf(files)
        /\ Stored(files') = Stored(files) \cup {b}
        /\ EndOf(files') = EndOffset(b)
        /\ flushed' = flushed

Syncs == KeepsLog /\ flushed' = Stored(files)

\* Without reordering, what is lost lies behind what is kept.
Loses ==
    /\ {"power_loss", "reordering"} \cap Faults # {}
    /\ Stored(files') \subseteq Stored(files)
    /\ EndOf(files') <= EndOf(files)
    /\ \/ "reordering" \in Faults
       \/ \A b \in Stored(files) : b \in Stored(files') \/ EndOf(files') <= b.base
    /\ flushed' = flushed

\* An append, whole, refused by the disk or cut short by a crash.
LEMMA AppendSeen ==
    ASSUME Inv, Inv', NEW p \in Payloads,
           \/ AppendBatch(p)
           \/ AppendRollFails(p)
           \/ \E k \in 1 .. HeaderBytes + PayloadBytes[p] - 1 : AppendWriteFails(p, k)
           \/ \E k \in 0 .. HeaderBytes + PayloadBytes[p] : CrashInAppend(p, k)
    PROVE  Unseen \/ Grows
<1> DEFINE fs == FilesFor(p)
           n == Len(SegmentsFor(p))
           b == MakeRecordBatch(p, SegmentsFor(p)[n].wpos)
<1>1. MayAppend(p) /\ flushed' = flushed
  BY DEF AppendBatch, AppendRollFails, AppendWriteFails, CrashInAppend, Abandon
<1>2. Describes(fs, SegmentsFor(p), IndexesFor(p), next_offset)
  BY <1>1, RollDescribes
<1>3. b \in Batch /\ b.base = next_offset /\ n \in 1 .. Len(fs)
  BY <1>2, MadeBatch
<1>4. fs \in Seq(File) /\ FilesOk(fs) /\ n = Len(fs)
  BY <1>2 DEF Describes
<1>5. n \in DOMAIN fs
  BY <1>3, <1>4, LenProperties
<1>6. \/ files' = fs
      \/ \E t : files' = [fs EXCEPT ![n].tail = t]
      \/ \E k : files' = [fs EXCEPT ![n].batches = Append(@, b), ![n].tail = Overwritten(@, k)]
  <2>a. CASE AppendBatch(p)
    BY <2>a DEF AppendBatch
  <2>b. CASE AppendRollFails(p)
    BY <2>b DEF AppendRollFails
  <2>c. CASE \E k \in 1 .. HeaderBytes + PayloadBytes[p] - 1 : AppendWriteFails(p, k)
    BY <2>c DEF AppendWriteFails
  <2>d. CASE \E k \in 0 .. HeaderBytes + PayloadBytes[p] : CrashInAppend(p, k)
    BY <2>d DEF CrashInAppend
  <2> QED BY <2>a, <2>b, <2>c, <2>d
<1>7. Stored(fs) = Stored(files) /\ EndOf(fs) = EndOf(files) /\ EndOf(files) = next_offset
  <2>a. Describes(files, segments, indexes, next_offset)
    BY <1>1, OpenDescribes DEF MayAppend
  <2>b. /\ files \in Seq(File) /\ next_offset \in Nat /\ Len(files) > 0
        /\ next_offset = FileEnd(files[Len(files)])
    BY <2>a DEF Describes
  <2>c. files # <<>>
    BY <2>b, EmptySeq
  <2>d. EndOf(files) = next_offset
    BY <2>b, <2>c DEF EndOf
  <2>e. CASE NeedsRoll(p)
    <3>1. fs = Append(files, NewFile(next_offset))
      BY <2>e DEF FilesFor
    <3> HIDE DEF fs
    <3> QED BY <3>1, <2>b, <2>d, RollSameLog
  <2>f. CASE ~NeedsRoll(p)
    BY <2>d, <2>f DEF FilesFor
  <2> QED BY <2>d, <2>e, <2>f
<1>8. files' \in Seq(File)
  BY DEF Inv, TypeOK
<1> HIDE DEF fs, n, b
<1>9. CASE files' = fs
  BY <1>1, <1>7, <1>9 DEF Unseen, KeepsLog
<1>10. ASSUME NEW t, files' = [fs EXCEPT ![n].tail = t] PROVE Unseen
  <2> DEFINE gs == [fs EXCEPT ![n].tail = t]
  <2>a. files' = gs /\ gs \in Seq(File)
    BY <1>8, <1>10
  <2>b. Stored(gs) = Stored(fs) /\ EndOf(gs) = EndOf(fs)
    BY <1>4, <1>5, <2>a, TailLog, ZenonT(60)
  <2> HIDE DEF gs
  <2> QED BY <2>a, <2>b, <1>1, <1>7 DEF Unseen, KeepsLog
<1>11. ASSUME NEW k,
              files' = [fs EXCEPT ![n].batches = Append(@, b), ![n].tail = Overwritten(@, k)]
       PROVE  Grows
  <2> DEFINE gs == [fs EXCEPT ![n].batches = Append(@, b), ![n].tail = Overwritten(@, k)]
  <2>a. Stored(gs) = Stored(fs) \cup {b} /\ EndOf(gs) = EndOffset(b)
    BY <1>3, <1>4, <1>5, WriteLog
  <2>b. files' = gs
    BY <1>11
  <2> HIDE DEF gs
  <2> QED BY <2>a, <2>b, <1>1, <1>3, <1>7 DEF Grows
<1> QED BY <1>6, <1>9, <1>10, <1>11

\* Syncing and closing touch no batch; a Flush that returns Ok syncs them all.
LEMMA FlushCloseSeen ==
    ASSUME Inv, Inv', FlushCloseStep
    PROVE  Unseen \/ Syncs
<1>1. files \in Seq(File) /\ FilesOk(files) /\ files' \in Seq(File)
  BY DEF Inv, TypeOK, Layout
<1>2. /\ Len(files) \in Nat /\ DOMAIN files = 1 .. Len(files)
      /\ \A i \in DOMAIN files :
            files[i] \in [base : Nat, batches : Seq(Batch), tail : TailBytes, synced : Nat]
  BY <1>1, FileFacts
<1>3. ASSUME NEW k, files' = FirstSynced(k) PROVE KeepsLog
  <2>a. DOMAIN files' = DOMAIN files
    BY <1>3 DEF FirstSynced
  <2>b. Len(files') = Len(files)
    BY <2>a, <1>1, <1>2, LenProperties
  <2>c. ASSUME NEW i \in 1 .. Len(files)
        PROVE  files'[i].base = files[i].base /\ files'[i].batches = files[i].batches
    <3>1. \/ files'[i] = [files[i] EXCEPT !.synced = Len(files[i].batches)]
          \/ files'[i] = files[i]
      BY <1>2, <1>3 DEF FirstSynced
    <3> QED BY <3>1, <1>2
  <2> QED BY <2>b, <2>c, <1>1, SameLog DEF KeepsLog
<1>4. CASE Flush
  BY <1>3, <1>4, LogMapped DEF Flush, Syncs
<1>5. CASE \E k \in 0 .. Len(files) : FlushFails(k)
  BY <1>3, <1>5 DEF FlushFails, Unseen
<1>6. CASE Close \/ \E k \in 1 .. Len(segments) : CloseFails(k)
  BY <1>6 DEF Close, CloseFails, Unseen, KeepsLog
<1> QED BY <1>4, <1>5, <1>6 DEF FlushCloseStep

\* Recovery cuts tails only, when failing reads are not mistaken for the end of the
\* log: what was readable before Open is readable after it.
LEMMA OpenSeen ==
    ASSUME ReadsTrusted, Inv, Inv', OpenStep
    PROVE  Unseen
<1>0. flushed' = flushed
  BY DEF OpenStep, OpenEmpty, OpenEmptyFails, OpenExisting, RecoverBatch, RecoverSegment,
         RecoverRefuses, RecoverReadFails, RecoverIoFails, SegmentRecovered, Abandon
<1>1. CASE OpenEmpty \/ OpenEmptyFails
  <2>a. files = <<>> /\ files' = <<NewFile(0)>>
    BY <1>1 DEF OpenEmpty, OpenEmptyFails
  <2>b. files \in Seq(File) /\ 0 \in Nat /\ EndOf(files) = 0
    BY <2>a DEF Inv, TypeOK, EndOf
  <2>c. files' = Append(files, NewFile(0))
    BY <2>a
  <2>d. /\ Stored(Append(files, NewFile(0))) = Stored(files)
        /\ EndOf(Append(files, NewFile(0))) = 0
    BY <2>b, RollSameLog
  <2> QED BY <1>0, <2>b, <2>c, <2>d DEF Unseen, KeepsLog
<1>2. CASE files' = files
  BY <1>0, <1>2 DEF Unseen, KeepsLog
<1>3. CASE OpenExisting \/ RecoverBatch \/ RecoverRefuses \/ RecoverReadFails
  <2>a. files' = files
    BY <1>3 DEF OpenExisting, RecoverBatch, RecoverRefuses, RecoverReadFails, ReadsTrusted
  <2> QED BY <2>a, <1>2
<1>4. CASE RecoverSegment
  <2> DEFINE c == Current
             f == files[c]
             y == IF f.synced > scan.n THEN scan.n ELSE f.synced
             g == [f EXCEPT !.batches = SubSeq(f.batches, 1, scan.n), !.tail = NoTail, !.synced = y]
  <2>a. phase = "opening" /\ scan.n = Len(f.batches) /\ SegmentRecovered
    BY <1>4 DEF RecoverSegment
  <2>b. files \in Seq(File) /\ FilesOk(files) /\ c \in 1 .. Len(files) /\ files' \in Seq(File)
    BY <2>a, OpeningFacts DEF Inv, TypeOK
  <2>c. Len(files) \in Nat /\ DOMAIN files = 1 .. Len(files)
    BY <2>b, LenProperties
  <2>d. /\ f \in [base : Nat, batches : Seq(Batch), tail : TailBytes, synced : Nat]
        /\ f.batches \in Seq(Batch)
    BY <2>b, <2>c, FileFacts
  <2>e. SubSeq(f.batches, 1, scan.n) = f.batches
    BY <2>a, <2>d, SubSeqFull
  <2>f. files' = [files EXCEPT ![c] = g]
    BY <2>a, <2>d DEF SegmentRecovered
  <2>g. g.base = f.base /\ g.batches = f.batches
    <3> HIDE DEF f, y
    <3>1. g = [f EXCEPT !.batches = f.batches, !.tail = NoTail, !.synced = y]
      BY <2>e
    <3> HIDE DEF g
    <3> QED BY <3>1, <2>d
  <2> HIDE DEF g
  <2>h. DOMAIN files' = DOMAIN files /\ \A i \in DOMAIN files : files'[i] = IF i = c THEN g ELSE files[i]
    BY <2>f
  <2>i. Len(files') = Len(files)
    BY <2>b, <2>c, <2>h, LenProperties
  <2>j. \A i \in 1 .. Len(files) : /\ files'[i].base = files[i].base
                                    /\ files'[i].batches = files[i].batches
    BY <2>c, <2>g, <2>h
  <2> QED BY <1>0, <2>b, <2>i, <2>j, SameLog DEF Unseen, KeepsLog
<1>5. CASE RecoverIoFails
  <2>a. phase = "opening" /\ (files' = files \/ files' = [files EXCEPT ![Current].tail = NoTail])
    BY <1>5 DEF RecoverIoFails
  <2>b. files \in Seq(File) /\ FilesOk(files) /\ Current \in 1 .. Len(files) /\ files' \in Seq(File)
    BY <2>a, OpeningFacts DEF Inv, TypeOK
  <2>c. Current \in DOMAIN files
    BY <2>b, LenProperties
  <2>d. CASE files' = [files EXCEPT ![Current].tail = NoTail]
    <3> DEFINE gs == [files EXCEPT ![Current].tail = NoTail]
    <3>1. files' = gs /\ gs \in Seq(File)
      BY <2>b, <2>d
    <3>2. Stored(gs) = Stored(files) /\ EndOf(gs) = EndOf(files)
      BY <2>b, <2>c, <3>1, TailLog
    <3> HIDE DEF gs
    <3> QED BY <3>1, <3>2, <1>0 DEF Unseen, KeepsLog
  <2> QED BY <1>2, <2>a, <2>d
<1> QED BY <1>1, <1>3, <1>4, <1>5 DEF OpenStep

\* Cut files hold some of the batches, and the log ends no later.
LEMMA CutLog ==
    ASSUME NEW fs \in Seq(File), FilesOk(fs),
           NEW gs \in Seq(File), Len(gs) <= Len(fs),
           \A i \in 1 .. Len(gs) : CutOf(gs[i], fs[i])
    PROVE  Stored(gs) \subseteq Stored(fs) /\ EndOf(gs) <= EndOf(fs)
<1>1. /\ Len(gs) \in Nat /\ Len(fs) \in Nat
      /\ DOMAIN gs = 1 .. Len(gs) /\ DOMAIN fs = 1 .. Len(fs)
  BY LenProperties
<1>2. \A i \in 1 .. Len(gs) : i \in 1 .. Len(fs)
  BY <1>1
<1>3. \A i \in 1 .. Len(fs) : /\ fs[i] \in File /\ BatchesOk(fs[i])
                              /\ fs[i].batches \in Seq(Batch)
  BY <1>1, FileFacts DEF FilesOk
<1>4. ASSUME NEW b \in Stored(gs) PROVE b \in Stored(fs)
  <2>a. PICK i \in DOMAIN gs : \E j \in DOMAIN gs[i].batches : b = gs[i].batches[j]
    BY StoredAt
  <2>b. PICK j \in DOMAIN gs[i].batches : b = gs[i].batches[j]
    BY <2>a
  <2>c. i \in DOMAIN fs /\ fs[i].batches \in Seq(Batch)
    BY <1>1, <1>2, <1>3
  <2>d. PICK m \in 0 .. Len(fs[i].batches) : gs[i].batches = SubSeq(fs[i].batches, 1, m)
    BY <1>1 DEF CutOf
  <2>e. j \in 1 .. m /\ b = fs[i].batches[j]
    BY <2>b, <2>c, <2>d, Prefix
  <2>f. j \in DOMAIN fs[i].batches
    BY <2>c, <2>d, <2>e, LenProperties
  <2> QED BY <2>c, <2>e, <2>f, StoredAt
<1>5. EndOf(gs) <= EndOf(fs)
  <2>a. EndOf(fs) \in Nat
    BY StoredApart DEF Apart
  <2>b. CASE gs = <<>>
    BY <2>a, <2>b DEF EndOf
  <2>c. CASE gs # <<>>
    <3> DEFINE c == Len(gs)
               n == Len(fs)
    <3>1. c \in 1 .. c /\ c \in 1 .. n /\ n \in 1 .. n /\ fs # <<>>
      <4>1. c # 0
        BY <2>c, EmptySeq
      <4>2. c \in 1 .. c /\ c \in 1 .. n /\ n \in 1 .. n
        BY <4>1, <1>1
      <4> QED BY <4>2, EmptySeq
    <3>2. EndOf(gs) = FileEnd(gs[c]) /\ EndOf(fs) = FileEnd(fs[n])
      BY <2>c, <3>1 DEF EndOf
    <3>3. /\ FileEnd(gs[c]) <= FileEnd(fs[c]) /\ gs[c] \in File /\ BatchesOk(gs[c])
      <4>1. CutOf(gs[c], fs[c])
        BY <3>1
      <4> QED BY <4>1, <3>1, <1>3, CutOk DEF CutOf
    <3>4. /\ FileEnd(gs[c]) \in Nat /\ FileEnd(fs[c]) \in Nat
          /\ fs[n].base \in Nat /\ FileEnd(fs[n]) \in Nat /\ fs[n].base <= FileEnd(fs[n])
      BY <3>1, <3>3, <1>3, FileEnds
    <3>5. c < n => FileEnd(fs[c]) <= fs[n].base
      BY <3>1, <1>1 DEF FilesOk
    <3>6. c < n \/ c = n
      <4>1. c \in Int /\ n \in Int /\ c <= n
        BY <1>1
      <4> QED BY <4>1, Below
    <3> HIDE DEF c, n
    <3>7. FileEnd(gs[c]) <= FileEnd(fs[n])
      BY <3>3, <3>4, <3>5, <3>6
    <3> QED BY <3>2, <3>7
  <2> QED BY <2>b, <2>c
<1> QED BY <1>4, <1>5

\* When only the last of the remaining files was cut, everything that is gone lay
\* behind the new end of the log.
LEMMA CutEnd ==
    ASSUME NEW fs \in Seq(File), FilesOk(fs),
           NEW gs \in Seq(File), NEW c \in 1 .. Len(fs), Len(gs) = c,
           \A i \in 1 .. c : CutOf(gs[i], fs[i]),
           \A i \in 1 .. c : i < c => gs[i].batches = fs[i].batches,
           NEW b \in Stored(fs)
    PROVE  b \in Stored(gs) \/ EndOf(gs) <= b.base
<1>1. /\ Len(fs) \in Nat /\ c \in Nat /\ c \in 1 .. c
      /\ DOMAIN gs = 1 .. c /\ DOMAIN fs = 1 .. Len(fs)
  BY LenProperties
<1>2. \A i \in 1 .. Len(fs) : /\ fs[i] \in File /\ BatchesOk(fs[i])
                              /\ fs[i].batches \in Seq(Batch)
                              /\ Len(fs[i].batches) \in Nat
                              /\ DOMAIN fs[i].batches = 1 .. Len(fs[i].batches)
  BY <1>1, FileFacts, LenProperties DEF FilesOk
<1>3. gs # <<>> /\ EndOf(gs) = FileEnd(gs[c])
  BY <1>1, EmptySeq DEF EndOf
<1>4. PICK i \in 1 .. Len(fs) : \E j \in DOMAIN fs[i].batches : b = fs[i].batches[j]
  BY <1>1, StoredAt
<1>5. PICK j \in DOMAIN fs[i].batches : b = fs[i].batches[j]
  BY <1>4
<1>6. PICK m \in 0 .. Len(fs[c].batches) : gs[c].batches = SubSeq(fs[c].batches, 1, m)
  BY <1>1 DEF CutOf
<1>7. /\ gs[c].base = fs[c].base /\ FileEnd(gs[c]) <= FileEnd(fs[c])
      /\ gs[c] \in File /\ BatchesOk(gs[c])
  <2>a. CutOf(gs[c], fs[c])
    BY <1>1
  <2> QED BY <2>a, <1>2, CutOk DEF CutOf
<1>8. /\ DOMAIN gs[c].batches = 1 .. m /\ Len(gs[c].batches) = m /\ m \in Nat
      /\ \A k \in 1 .. m : gs[c].batches[k] = fs[c].batches[k]
  BY <1>2, <1>6, Prefix
<1>9. /\ FileEnd(gs[c]) \in Nat /\ FileEnd(fs[c]) \in Nat /\ fs[i].base \in Nat
      /\ b \in Batch /\ fs[i].base <= b.base /\ b.base \in Nat
  <2>a. FileEnd(gs[c]) \in Nat /\ FileEnd(fs[c]) \in Nat
    BY <1>2, <1>7, FileEnds
  <2>b. fs[i].base \in Nat /\ b \in Batch /\ fs[i].base <= b.base
    BY <1>2, <1>5, FileEnds
  <2> QED BY <2>a, <2>b, BatchEnds
<1>10. CASE i < c
  <2>a. i \in DOMAIN gs /\ gs[i].batches = fs[i].batches
    BY <1>1, <1>10
  <2> QED BY <2>a, <1>5, StoredAt
<1>11. CASE c < i
  <2>a. FileEnd(fs[c]) <= fs[i].base
    BY <1>1, <1>11 DEF FilesOk
  <2> QED BY <2>a, <1>3, <1>7, <1>9
<1>12. CASE i = c
  <2>a. j \in 1 .. Len(fs[c].batches)
    BY <1>2, <1>5, <1>12
  <2>b. CASE j \in 1 .. m
    BY <2>b, <1>1, <1>5, <1>8, <1>12, StoredAt
  <2>c. CASE j > m
    <3>1. CASE m = 0
      <4>1. gs[c].batches = <<>>
        BY <3>1, <1>6, <1>7, <1>8, EmptySeq DEF File
      <4>2. FileEnd(gs[c]) = fs[c].base
        BY <4>1, <1>7 DEF FileEnd
      <4> QED BY <4>2, <1>3, <1>9, <1>12
    <3>2. CASE m # 0
      <4>1. m \in 1 .. m /\ m \in DOMAIN fs[c].batches
        BY <3>2, <1>2, <1>6, <1>8
      <4>2. EndOffset(fs[c].batches[m]) <= fs[c].batches[j].base
        BY <4>1, <2>a, <2>c, <1>2 DEF BatchesOk
      <4>3. gs[c].batches # <<>>
        BY <3>2, <1>8
      <4>4. FileEnd(gs[c]) = EndOffset(fs[c].batches[m])
        BY <4>1, <4>3, <1>8 DEF FileEnd
      <4> QED BY <4>2, <4>4, <1>3, <1>5, <1>12
    <3> QED BY <3>1, <3>2
  <2> QED BY <2>a, <2>b, <2>c, <1>8
<1> QED BY <1>1, <1>10, <1>11, <1>12

\* A crash of the process loses nothing; a power loss, batches.
LEMMA CrashSeen ==
    ASSUME Inv, CrashStep
    PROVE  Unseen \/ Loses
<1>0. files \in Seq(File) /\ FilesOk(files) /\ Len(files) \in Nat
  BY LenProperties DEF Inv, TypeOK, Layout
<1>1. CASE Crash
  BY <1>1 DEF Crash, Abandon, Unseen, KeepsLog
<1>2. ASSUME NEW c \in DOMAIN files, NEW m, NEW t, PowerLoss(c, m, t)
      PROVE  Loses
  <2>a. /\ files' \in Seq(File) /\ Len(files') = c /\ c \in 1 .. Len(files)
        /\ \A i \in 1 .. c : CutOf(files'[i], files[i])
        /\ \A i \in 1 .. c : i < c => files'[i].batches = files[i].batches
    BY <1>0, <1>2, PowerLossCuts
  <2>b. Len(files') <= Len(files)
    BY <2>a, <1>0
  <2>c. Stored(files') \subseteq Stored(files) /\ EndOf(files') <= EndOf(files)
    BY <2>a, <2>b, <1>0, CutLog
  <2>d. \A b \in Stored(files) : b \in Stored(files') \/ EndOf(files') <= b.base
    BY <2>a, <1>0, CutEnd
  <2>e. "power_loss" \in Faults /\ flushed' = flushed
    BY <1>2 DEF PowerLoss, Abandon
  <2> QED BY <2>c, <2>d, <2>e DEF Loses
<1>3. ASSUME NEW kept, ReorderedPowerLoss(kept)
      PROVE  Loses
  <2>a. /\ files' \in Seq(File) /\ Len(files') = Len(files)
        /\ \A i \in 1 .. Len(files) : CutOf(files'[i], files[i])
    BY <1>0, <1>3, ReorderedPowerLossCuts
  <2>b. Stored(files') \subseteq Stored(files) /\ EndOf(files') <= EndOf(files)
    BY <2>a, <1>0, CutLog
  <2>c. "reordering" \in Faults /\ flushed' = flushed
    BY <1>3 DEF ReorderedPowerLoss, Abandon
  <2> QED BY <2>b, <2>c DEF Loses
<1> QED BY <1>1, <1>2, <1>3 DEF CrashStep

\* Every step is of one of the four kinds.
LEMMA StepSeen ==
    ASSUME ReadsTrusted, Inv, Inv', [Next]_vars
    PROVE  Unseen \/ Grows \/ Syncs \/ Loses
<1>1. CASE AppendStep
  BY <1>1, AppendSeen DEF AppendStep
<1>2. CASE FlushCloseStep
  BY <1>2, FlushCloseSeen
<1>3. CASE OpenStep
  BY <1>3, OpenSeen
<1>4. CASE CrashStep
  BY <1>4, CrashSeen
<1>5. CASE UNCHANGED vars
  BY <1>5 DEF vars, Unseen, KeepsLog
<1> QED BY <1>1, <1>2, <1>3, <1>4, <1>5 DEF Next

----------------------------------------
(* The refinement *)

\* What no flush covered lies behind everything that one did: a lost batch leaves
\* its hole behind the stable records.
Late == \A b \in Stored(files) : b \in flushed \/ \A c \in flushed : EndOffset(c) <= b.base

RefInv == Inv /\ Durable /\ Late

\* The invariant the refinement rests on holds in every state.
LEMMA RefInvHolds ==
    ASSUME ReadsTrusted
    PROVE  /\ Init => RefInv
           /\ RefInv /\ [Next]_vars => RefInv'
<1>1. ASSUME Init PROVE RefInv
  <2>a. files = <<>> /\ flushed = {}
    BY <1>1 DEF Init
  <2> QED BY <1>1, <2>a, InitInv DEF RefInv, Durable, Late
<1>2. ASSUME RefInv, [Next]_vars PROVE RefInv'
  <2>a. Inv /\ Durable /\ Late /\ Inv' /\ Durable'
    BY <1>2, NextInv, NextDurable DEF RefInv
  <2>b. flushed \subseteq Stored(files) /\ Apart(Stored(files), EndOf(files))
    <3>1. files \in Seq(File) /\ FilesOk(files)
      BY <2>a DEF Inv, TypeOK, Layout
    <3> QED BY <3>1, <2>a, DurableStored, LogMapped, StoredApart DEF FlushedStored
  <2>c. ASSUME Unseen \/ Loses PROVE Late'
    BY <2>a, <2>c DEF Unseen, KeepsLog, Loses, Late
  <2>d. ASSUME Syncs PROVE Late'
    BY <2>d DEF Syncs, KeepsLog, Late
  <2>e. ASSUME Grows PROVE Late'
    BY <2>a, <2>b, <2>e DEF Grows, Late, Apart
  <2>f. Late'
    BY <1>2, <2>a, <2>c, <2>d, <2>e, StepSeen
  <2> QED BY <2>a, <2>f DEF RefInv
<1> QED BY <1>1, <1>2

\* Every flushed batch ends at or before FlushedEnd, and FlushedEnd is the end of one.
LEMMA FlushedEndIs ==
    ASSUME NEW S, NEW e, Apart(S, e), flushed \subseteq S
    PROVE  /\ FlushedEnd \in 0 .. e
           /\ \A c \in flushed : EndOffset(c) <= FlushedEnd
           /\ FlushedEnd = 0 \/ \E c \in flushed : FlushedEnd = EndOffset(c)
<1>1. CASE flushed = {}
  BY <1>1 DEF FlushedEnd, Apart
<1>2. CASE flushed # {}
  <2> DEFINE top == CHOOSE b \in flushed : \A c \in flushed : c.base <= b.base
  <2>a. /\ top \in flushed /\ \A c \in flushed : EndOffset(c) <= EndOffset(top)
        /\ EndOffset(top) \in 0 .. e
    BY <1>2, FlushedTop
  <2>b. FlushedEnd = EndOffset(top)
    BY <1>2 DEF FlushedEnd
  <2> HIDE DEF top
  <2> QED BY <2>a, <2>b
<1> QED BY <1>1, <1>2

\* The initial states map to the initial state of OffsetLog.
LEMMA InitMapped == Init => Promise!Init
<1> SUFFICES ASSUME Init PROVE LogRecords = <<>> /\ FlushedEnd = 0
  BY DEF Promise!Init
<1>1. files = <<>> /\ flushed = {}
  BY DEF Init
<1>2. EndOf(files) = 0 /\ FlushedEnd = 0
  BY <1>1 DEF EndOf, FlushedEnd
<1>3. Len(LogRecords) = 0 /\ \E V : LogRecords \in Seq(V)
  BY <1>2, LogMapped, RecordsSeq
<1>4. LogRecords = <<>>
  BY <1>3, EmptySeq
<1> QED BY <1>2, <1>4

\* Every step maps to a step of OffsetLog or leaves its variables alone.
LEMMA StepMapped ==
    ASSUME ReadsTrusted, RefInv, RefInv', [Next]_vars
    PROVE  [Promise!Next]_(Promise!vars)
<1> DEFINE S == Stored(files)
           e == EndOf(files)
           T == Stored(files')
           f == EndOf(files')
<1>1. /\ LogRecords = RecordsOf(S, e) /\ LogRecords' = RecordsOf(T, f)
      /\ Unseen \/ Grows \/ Syncs \/ Loses
  BY LogMapped, StepSeen DEF RefInv
<1>2. Apart(S, e) /\ Apart(T, f) /\ flushed \subseteq S /\ flushed' \subseteq T
  <2>a. /\ files \in Seq(File) /\ FilesOk(files)
        /\ files' \in Seq(File) /\ FilesOk(files')
    BY DEF RefInv, Inv, TypeOK, Layout
  <2>b. FlushedStored /\ FlushedStored'
    <3>1. Inv /\ Durable /\ Inv' /\ Durable'
      BY DEF RefInv
    <3> QED BY <3>1, DurableStored, PTL
  <2> QED BY <2>a, <2>b, LogMapped, StoredApart DEF FlushedStored
<1>3. /\ e \in Nat /\ f \in Nat
      /\ DOMAIN LogRecords = 1 .. e /\ Len(LogRecords) = e
      /\ DOMAIN (LogRecords') = 1 .. f /\ Len(LogRecords') = f
  BY <1>1, <1>2, RecordsSeq DEF Apart
<1>4. flushed' = flushed => FlushedEnd' = FlushedEnd
  BY DEF FlushedEnd
<1>5. CASE Unseen
  BY <1>1, <1>4, <1>5 DEF Unseen, KeepsLog, Promise!vars
<1>6. CASE Grows
  <2>a. PICK b \in Batch : b.base = e /\ T = S \cup {b} /\ f = EndOffset(b) /\ flushed' = flushed
    BY <1>6 DEF Grows
  <2> DEFINE p == b.payload
  <2>b. p \in Payloads
    BY DEF Batch
  <2>c. LogRecords' = LogRecords \o [k \in 1 .. RecordCount[p] |-> <<p, k - 1>>]
    <3>1. Apart(S \cup {b}, EndOffset(b)) /\ b.payload = p
      BY <2>a, <1>2
    <3>2. RecordsOf(S \cup {b}, EndOffset(b)) =
             RecordsOf(S, e) \o [k \in 1 .. RecordCount[p] |-> <<p, k - 1>>]
      <4>1. b.base = e /\ Apart(S, e)
        BY <2>a, <1>2
      <4> HIDE DEF S, e, p
      <4> QED BY <3>1, <4>1, <2>b, RecordsExtended, Zenon
    <3> QED BY <3>2, <2>a, <1>1
  <2> HIDE DEF p
  <2> QED BY <2>a, <2>b, <2>c, <1>4 DEF Promise!Next, Promise!Extend
<1>7. CASE Syncs
  <2>a. T = S /\ f = e /\ flushed' = S
    BY <1>7 DEF Syncs, KeepsLog
  <2>b. FlushedEnd' \in 0 .. e /\ \A c \in S : EndOffset(c) <= FlushedEnd'
    <3>1. S = {} => FlushedEnd' = 0
      BY <2>a DEF FlushedEnd
    <3>2. S # {} => FlushedEnd' = EndOffset(CHOOSE b \in S : \A c \in S : c.base <= b.base)
      BY <2>a DEF FlushedEnd
    <3> HIDE DEF S, e
    <3> QED BY <3>1, <3>2, <1>2, <1>3, FlushedTop
  <2>c. ASSUME NEW i \in FlushedEnd' + 1 .. e PROVE LogRecords[i] = NoRecord
    <3>0. FlushedEnd' \in Nat /\ e \in Nat /\ i \in Int /\ FlushedEnd' < i
      <4> DEFINE g == FlushedEnd'
      <4> HIDE DEF g, e
      <4>1. g \in 0 .. e /\ e \in Nat /\ i \in g + 1 .. e
        BY <2>b, <1>3 DEF g
      <4>2. g \in Nat /\ i \in Int /\ g < i
        BY <4>1
      <4> QED BY <4>1, <4>2 DEF g
    <3>1. i \in 1 .. e
      BY <3>0
    <3>2. ASSUME NEW c \in S PROVE ~Contains(c, i - 1)
      <4>1. EndOffset(c) <= FlushedEnd' /\ EndOffset(c) \in Nat /\ FlushedEnd' \in Nat
        BY <3>0, <2>b, <1>2, BatchEnds DEF Apart
      <4> QED BY <4>1, <3>0 DEF Contains
    <3> QED BY <3>1, <3>2, <1>1, <1>2, RecordAt
  <2>d. LogRecords' = LogRecords
    BY <2>a, <1>1
  <2> QED BY <2>b, <2>c, <2>d, <1>3 DEF Promise!Next, Promise!Sync
<1>8. CASE Loses
  <2>a. /\ {"power_loss", "reordering"} \cap Faults # {}
        /\ T \subseteq S /\ f <= e /\ flushed' = flushed
        /\ "reordering" \in Faults \/ \A b \in S : b \in T \/ f <= b.base
    BY <1>8 DEF Loses
  <2>b. FlushedEnd \in Nat /\ FlushedEnd <= f
    BY <2>a, <1>2, <1>3, FlushedEndIs
  <2>c. ASSUME NEW i \in 1 .. f
        PROVE  \/ LogRecords'[i] = LogRecords[i]
               \/ "reordering" \in Faults /\ i > FlushedEnd /\ LogRecords'[i] = NoRecord
    <3>1. i \in 1 .. e
      BY <2>a, <1>3
    <3>2. CASE \E b \in T : Contains(b, i - 1)
      <4>1. PICK b \in T : Contains(b, i - 1)
        BY <3>2
      <4>2. LogRecords'[i] = <<b.payload, (i - 1) - b.base>>
        BY <4>1, <1>1, <1>2, RecordAt
      <4>3. LogRecords[i] = <<b.payload, (i - 1) - b.base>>
        BY <4>1, <3>1, <2>a, <1>1, <1>2, RecordAt
      <4> QED BY <4>2, <4>3
    <3>3. CASE \A b \in T : ~Contains(b, i - 1)
      <4>1. LogRecords'[i] = NoRecord
        BY <3>3, <1>1, <1>2, RecordAt
      <4>2. CASE \A b \in S : ~Contains(b, i - 1)
        <5>1. LogRecords[i] = NoRecord
          BY <4>2, <3>1, <1>1, <1>2, RecordAt
        <5> QED BY <4>1, <5>1
      <4>3. CASE \E b \in S : Contains(b, i - 1)
        <5>1. PICK b \in S : Contains(b, i - 1)
          BY <4>3
        <5>2. b \notin T /\ b \notin flushed /\ b.base <= i - 1 /\ b.base \in Nat
          BY <5>1, <3>3, <2>a, <1>2, BatchEnds DEF Contains, Apart
        <5>3. "reordering" \in Faults
          BY <5>2, <2>a, <1>3
        <5>4. \A c \in flushed : EndOffset(c) <= b.base
          BY <5>2 DEF RefInv, Late
        <5>5. FlushedEnd <= b.base
          <6>1. FlushedEnd = 0 \/ \E c \in flushed : FlushedEnd = EndOffset(c)
            BY <1>2, FlushedEndIs
          <6> QED BY <6>1, <5>2, <5>4
        <5>6. i > FlushedEnd
          BY <5>2, <5>5, <2>b
        <5> QED BY <4>1, <5>3, <5>6
      <4> QED BY <4>2, <4>3
    <3> QED BY <3>2, <3>3
  <2>d. Len(LogRecords') \in FlushedEnd .. Len(LogRecords)
    BY <2>a, <2>b, <1>3
  <2> QED BY <2>a, <2>c, <2>d, <1>3, <1>4 DEF Promise!Next, Promise!Lose
<1> QED BY <1>1, <1>5, <1>6, <1>7, <1>8

\* Whatever the segment size, the faults and the order of operations, the files
\* implement a log that only grows by whole appends, loses nothing when the process
\* dies and, when the machine loses power, only records that no flush covered, as
\* long as recovery does not take a failed read for the end of the log.
THEOREM LogImplementsOffsetLog ==
    ASSUME ReadsTrusted
    PROVE  Spec => ImplementsOffsetLog
<1>1. RefInv /\ RefInv' /\ [Next]_vars => [Promise!Next]_(Promise!vars)
  BY StepMapped
<1> QED BY <1>1, InitMapped, RefInvHolds, PTL DEF Spec, ImplementsOffsetLog, Promise!Spec

================================================================================
