------------------------------- MODULE CommitLog -------------------------------
(***************************************************************************)
(* The storage engine of one partition: CommitLog over Segment, OffsetIndex *)
(* and RecordBatch.  A partition is a list of segment files, each a run of *)
(* record batches; in memory the log keeps for every file the position of  *)
(* the next write and a sparse index from offsets to batch positions.      *)
(*                                                                         *)
(* Bytes are modelled by positions and lengths.  A record batch is its     *)
(* position in the file, its base offset and its payload; the bytes after  *)
(* the last batch of a file (what a failed or interrupted write left) are  *)
(* the file's tail.  Every operation runs under CommitLog::mutex_ and is   *)
(* one action; recovery, which runs alone, is one action per loop          *)
(* iteration, so that a crash may fall between any two of them.            *)
(***************************************************************************)
EXTENDS Integers, Sequences

CONSTANTS
    Payloads,       \* the record vectors a caller may append, never empty
    RecordCount,    \* payload -> number of records in it
    PayloadBytes,   \* payload -> encoded bytes of its records
    HeaderBytes,    \* kRecordBatchHeaderBytes
    SegmentBytes,   \* options_.segment_bytes
    IndexInterval,  \* options_.index_interval_bytes
    MaxOffset,      \* numeric_limits<Offset>::max()
    Strict,         \* options_.strict_recovery
    Faults          \* which failures of the machine below may happen

\* "short_write": a pwrite stores a prefix of the batch and then fails.
\* "read_error":  a pread fails while a segment is being recovered.
\* "power_loss":  unsynced data is lost, newest data first.
\* "reordering":  unsynced data is lost from any file, whatever its age.
FaultKinds == {"short_write", "read_error", "power_loss", "reordering"}

ASSUME ConstantsAssumption ==
    /\ RecordCount \in [Payloads -> Nat \ {0}]
    /\ PayloadBytes \in [Payloads -> Nat \ {0}]
    /\ HeaderBytes \in Nat \ {0}
    /\ SegmentBytes \in Nat
    /\ IndexInterval \in Nat \ {0}
    /\ MaxOffset \in Nat
    /\ Strict \in BOOLEAN
    /\ Faults \subseteq FaultKinds

VARIABLES
    files,        \* the .log files in the order of their base offsets
    segments,     \* segments_: base offset, write_position_ and closed_ of each open file
    indexes,      \* indexes_: the entries of each segment's OffsetIndex
    next_offset,  \* next_offset_
    phase,        \* "down", "opening" (LoadOrCreateSegments runs), "open" or "closed"
    scan,         \* locals of RecoverSegment: batches read, index built, next offset
    flushed       \* ghost: the batches in the log when Flush last returned Ok

memory == <<segments, indexes, next_offset, phase, scan>>
vars == <<files, memory, flushed>>

--------------------------------------------------------------------------------
(* Record batches and files *)

\* A batch as it lies in a file.
Batch == [pos : Nat, base : Nat, payload : Payloads]

Count(b) == RecordCount[b.payload]
Bytes(b) == HeaderBytes + PayloadBytes[b.payload]
EndPos(b) == b.pos + Bytes(b)
EndOffset(b) == b.base + Count(b)

\* BatchContainsOffset
Contains(b, o) == b.base <= o /\ o < EndOffset(b)

\* The bytes that follow the last batch.  `torn`: they begin with a header that
\* parses and declares more bytes than are left.
TailBytes == [len : Nat, torn : BOOLEAN]
NoTail == [len |-> 0, torn |-> FALSE]

\* Tails that strict recovery may cut: too short for a header, or torn.
Truncatable(t) == t.len < HeaderBytes \/ t.torn

\* What is left of tail t once n bytes have been written over its beginning.
Overwritten(t, n) ==
    IF n >= t.len THEN NoTail ELSE [len |-> t.len - n, torn |-> FALSE]

\* Tail t after only the first k of n bytes reached the file.  When k ends inside
\* the header, in front of older bytes, the mixed header may or may not parse.
ShortWritten(t, k, n) ==
    LET len == IF k > t.len THEN k ELSE t.len
    IN  {u \in [len : {len}, torn : BOOLEAN] :
            k >= HeaderBytes \/ k >= t.len => (u.torn <=> n > len)}

\* `synced` counts the batches a power loss cannot take away.
File == [base : Nat, batches : Seq(Batch), tail : TailBytes, synced : Nat]
NewFile(base) == [base |-> base, batches |-> <<>>, tail |-> NoTail, synced |-> 0]

--------------------------------------------------------------------------------
(* OffsetIndex *)

IndexEntry == [offset : Nat, position : Nat]

\* The checks of MaybeAppend that return an error.
MaybeAppendOk(index, base, offset, position) ==
    /\ offset >= base
    /\ index # <<>> => /\ offset > index[Len(index)].offset
                       /\ position >= index[Len(index)].position

\* The entries after MaybeAppend: sparse, one entry per IndexInterval bytes.
MaybeAppend(index, base, offset, position) ==
    IF /\ MaybeAppendOk(index, base, offset, position)
       /\ index # <<>> => position - index[Len(index)].position >= IndexInterval
    THEN Append(index, [offset |-> offset, position |-> position])
    ELSE index

\* FindFloor, and the position 0 that Read starts from when it finds none.
FindFloor(index, o) ==
    LET below == {k \in DOMAIN index : index[k].offset <= o}
    IN  IF below = {} THEN 0
        ELSE index[CHOOSE k \in below : \A l \in below : l <= k].position

--------------------------------------------------------------------------------
(* Append *)

Active == segments[Len(segments)]

MakeRecordBatch(p, position) == [pos |-> position, base |-> next_offset, payload |-> p]

\* Segment entry of a file just opened at write position w.
OpenSegment(base, w) == [base |-> base, wpos |-> w, closed |-> FALSE]

NeedsRoll(p) ==
    /\ Active.wpos > 0
    /\ Active.wpos + HeaderBytes + PayloadBytes[p] > SegmentBytes

\* The three lists after the optional RollSegment at the start of Append(p).
FilesFor(p) == IF NeedsRoll(p) THEN Append(files, NewFile(next_offset)) ELSE files
SegmentsFor(p) ==
    IF NeedsRoll(p) THEN Append(segments, OpenSegment(next_offset, 0)) ELSE segments
IndexesFor(p) == IF NeedsRoll(p) THEN Append(indexes, <<>>) ELSE indexes

\* The checks at the head of Append.
MayAppend(p) == phase = "open" /\ RecordCount[p] <= MaxOffset - next_offset

\* Append: roll if the batch does not fit, write it at the write position, index
\* it, and only when the index took it advance the next offset.
AppendBatch(p) ==
    /\ MayAppend(p)
    /\ LET n == Len(SegmentsFor(p))
           target == SegmentsFor(p)[n]
           index == IndexesFor(p)[n]
           b == MakeRecordBatch(p, target.wpos)
       IN  /\ ~target.closed
           /\ files' = [FilesFor(p) EXCEPT
                  ![n].batches = Append(@, b),
                  ![n].tail = Overwritten(@, Bytes(b))]
           /\ segments' = [SegmentsFor(p) EXCEPT ![n].wpos = @ + Bytes(b)]
           /\ indexes' = [IndexesFor(p) EXCEPT
                  ![n] = MaybeAppend(@, target.base, b.base, b.pos)]
           /\ next_offset' =
                  IF MaybeAppendOk(index, target.base, b.base, b.pos)
                  THEN next_offset + Count(b) ELSE next_offset
    /\ UNCHANGED <<phase, scan, flushed>>

\* The new segment is in place but its index file cannot be written: Append
\* returns the error and the segment stays.
AppendRollFails(p) ==
    /\ MayAppend(p)
    /\ NeedsRoll(p)
    /\ files' = FilesFor(p)
    /\ segments' = SegmentsFor(p)
    /\ indexes' = IndexesFor(p)
    /\ UNCHANGED <<next_offset, phase, scan, flushed>>

\* pwrite stores k bytes and fails (a full disk): neither write_position_ nor
\* next_offset_ moves, but the bytes are in the file.
AppendWriteFails(p, k) ==
    /\ "short_write" \in Faults
    /\ MayAppend(p)
    /\ LET n == Len(SegmentsFor(p))
       IN  /\ ~SegmentsFor(p)[n].closed
           /\ \E t \in ShortWritten(FilesFor(p)[n].tail, k, HeaderBytes + PayloadBytes[p]) :
                  files' = [FilesFor(p) EXCEPT ![n].tail = t]
    /\ segments' = SegmentsFor(p)
    /\ indexes' = IndexesFor(p)
    /\ UNCHANGED <<next_offset, phase, scan, flushed>>

--------------------------------------------------------------------------------
(* Flush and Close *)

\* Faulty variant: the loop stops before the active segment.
FirstSyncedButLast(k) ==
    [i \in DOMAIN files |->
        IF i < k THEN [files[i] EXCEPT !.synced = Len(files[i].batches)] ELSE files[i]]

\* The files after the first k of them have been fsynced.
FirstSynced(k) ==
    [i \in DOMAIN files |->
        IF i <= k THEN [files[i] EXCEPT !.synced = Len(files[i].batches)] ELSE files[i]]

\* Every batch in the files.
StoredBatches == UNION {{f.batches[j] : j \in DOMAIN f.batches} :
                          f \in {files[i] : i \in DOMAIN files}}

\* Flush: fsync every segment in order, then rewrite every index.
Flush ==
    /\ phase = "open"
    /\ \A i \in DOMAIN segments : ~segments[i].closed
    /\ files' = FirstSynced(Len(files))
    /\ flushed' = StoredBatches
    /\ UNCHANGED memory

\* An fsync, or the rewrite of an index, fails: k files have been synced.
FlushFails(k) ==
    /\ phase = "open"
    /\ \A i \in 1 .. k : ~segments[i].closed
    /\ files' = FirstSynced(k)
    /\ UNCHANGED <<memory, flushed>>

\* Close: every index is rewritten, every segment closed; nothing is synced.
Close ==
    /\ phase = "open"
    /\ segments' = [i \in DOMAIN segments |-> [segments[i] EXCEPT !.closed = TRUE]]
    /\ phase' = "closed"
    /\ UNCHANGED <<files, indexes, next_offset, scan, flushed>>

\* close(2) reports an error on segment k: the segments up to k are closed, the
\* log itself is not.
CloseFails(k) ==
    /\ phase = "open"
    /\ segments' = [i \in DOMAIN segments |->
                      [segments[i] EXCEPT !.closed = @ \/ i <= k]]
    /\ UNCHANGED <<files, indexes, next_offset, phase, scan, flushed>>

--------------------------------------------------------------------------------
(* Open: LoadOrCreateSegments and RecoverSegment *)

NoScan == [n |-> 0, index |-> <<>>, next |-> 0]

\* The locals of RecoverSegment when it starts on a file.
ScanOf(f) == [n |-> 0, index |-> <<>>, next |-> f.base]

\* An Open that fails destroys the CommitLog under construction.
Abandon ==
    /\ segments' = <<>>
    /\ indexes' = <<>>
    /\ next_offset' = 0
    /\ phase' = "down"
    /\ scan' = NoScan
    /\ UNCHANGED flushed

\* No .log file yet: RollSegment(0).
OpenEmpty ==
    /\ phase = "down"
    /\ files = <<>>
    /\ files' = <<NewFile(0)>>
    /\ segments' = <<OpenSegment(0, 0)>>
    /\ indexes' = << <<>> >>
    /\ phase' = "open"
    /\ UNCHANGED <<next_offset, scan, flushed>>

\* The first file is created but its index cannot be written.
OpenEmptyFails ==
    /\ phase = "down"
    /\ files = <<>>
    /\ files' = <<NewFile(0)>>
    /\ UNCHANGED <<memory, flushed>>

OpenExisting ==
    /\ phase = "down"
    /\ files # <<>>
    /\ phase' = "opening"
    /\ scan' = ScanOf(files[1])
    /\ UNCHANGED <<files, segments, indexes, next_offset, flushed>>

\* The file RecoverSegment is working on.
Current == Len(segments) + 1

\* One iteration of the loop: the next batch decodes.  An index that refuses it
\* makes Open fail.
RecoverBatch ==
    /\ phase = "opening"
    /\ scan.n < Len(files[Current].batches)
    /\ LET f == files[Current]
           b == f.batches[scan.n + 1]
       IN  IF MaybeAppendOk(scan.index, f.base, b.base, b.pos)
           THEN /\ scan' = [n |-> scan.n + 1,
                            index |-> MaybeAppend(scan.index, f.base, b.base, b.pos),
                            next |-> IF EndOffset(b) > scan.next THEN EndOffset(b)
                                     ELSE scan.next]
                /\ UNCHANGED <<segments, indexes, next_offset, phase, flushed>>
           ELSE Abandon
    /\ UNCHANGED files

\* Faulty variant: Truncate leaves write_position_ at the old file size.
SegmentRecoveredAtOldSize ==
    LET f == files[Current]
        read == SubSeq(f.batches, 1, scan.n)
        w == IF scan.n = 0 THEN f.tail.len ELSE EndPos(f.batches[scan.n]) + f.tail.len
        last == Current = Len(files)
    IN  /\ files' = [files EXCEPT
               ![Current].batches = read,
               ![Current].tail = NoTail,
               ![Current].synced = IF @ > scan.n THEN scan.n ELSE @]
        /\ segments' = Append(segments, OpenSegment(f.base, w))
        /\ indexes' = Append(indexes, scan.index)
        /\ next_offset' = IF scan.next > next_offset THEN scan.next ELSE next_offset
        /\ phase' = IF last THEN "open" ELSE "opening"
        /\ scan' = IF last THEN NoScan ELSE ScanOf(files[Current + 1])
        /\ UNCHANGED flushed

\* The segment is cut after the batches read so far, its index rewritten, and it
\* joins the log; after the last one the log is open.
SegmentRecovered ==
    LET f == files[Current]
        read == SubSeq(f.batches, 1, scan.n)
        w == IF scan.n = 0 THEN 0 ELSE EndPos(f.batches[scan.n])
        last == Current = Len(files)
    IN  /\ files' = [files EXCEPT
               ![Current].batches = read,
               ![Current].tail = NoTail,
               ![Current].synced = IF @ > scan.n THEN scan.n ELSE @]
        /\ segments' = Append(segments, OpenSegment(f.base, w))
        /\ indexes' = Append(indexes, scan.index)
        /\ next_offset' = IF scan.next > next_offset THEN scan.next ELSE next_offset
        /\ phase' = IF last THEN "open" ELSE "opening"
        /\ scan' = IF last THEN NoScan ELSE ScanOf(files[Current + 1])
        /\ UNCHANGED flushed

\* All batches of the file were read and what follows them, if anything, may be
\* cut: always without strict recovery, else only a torn tail of the last file.
MayCut == files[Current].tail.len > 0 =>
            (Strict => Current = Len(files) /\ Truncatable(files[Current].tail))

RecoverSegment ==
    /\ phase = "opening"
    /\ scan.n = Len(files[Current].batches)
    /\ MayCut
    /\ SegmentRecovered

\* Strict recovery meets bytes it must leave alone: Open returns the error.
RecoverRefuses ==
    /\ phase = "opening"
    /\ scan.n = Len(files[Current].batches)
    /\ ~MayCut
    /\ Abandon
    /\ UNCHANGED files

\* pread fails on a batch that is intact.  Strict recovery returns the error,
\* otherwise the loop ends as if the log ended there.
RecoverReadFails ==
    /\ "read_error" \in Faults
    /\ phase = "opening"
    /\ scan.n < Len(files[Current].batches)
    /\ IF Strict THEN Abandon /\ UNCHANGED files ELSE SegmentRecovered

\* Opening, truncating or indexing the file fails, the tail cut or not.
RecoverIoFails ==
    /\ phase = "opening"
    /\ files' \in {files} \cup
         (IF scan.n = Len(files[Current].batches) /\ MayCut
          THEN {[files EXCEPT ![Current].tail = NoTail]} ELSE {})
    /\ Abandon

--------------------------------------------------------------------------------
(* The process and the machine *)

\* The process ends, by a crash or after Close; what it wrote stays in the files.
Crash ==
    /\ phase # "down"
    /\ Abandon
    /\ UNCHANGED files

\* The process dies inside Append(p), k bytes of the batch being in the file.
CrashInAppend(p, k) ==
    /\ MayAppend(p)
    /\ LET n == Len(SegmentsFor(p))
           target == SegmentsFor(p)[n]
           b == MakeRecordBatch(p, target.wpos)
       IN  /\ ~target.closed
           /\ IF k = Bytes(b)
              THEN files' = [FilesFor(p) EXCEPT
                       ![n].batches = Append(@, b),
                       ![n].tail = Overwritten(@, k)]
              ELSE IF k = 0 THEN files' = FilesFor(p)
              ELSE \E t \in ShortWritten(FilesFor(p)[n].tail, k, Bytes(b)) :
                       files' = [FilesFor(p) EXCEPT ![n].tail = t]
    /\ Abandon

\* File f after a power loss that spared its first m batches and maybe a piece of
\* what followed; what a reboot finds on the disk is durable.
Spared(f, m, t) == [f EXCEPT !.batches = SubSeq(@, 1, m), !.tail = t, !.synced = m]

LostTails == {NoTail, [len |-> HeaderBytes, torn |-> TRUE]}

\* Unsynced data is lost newest first: the files up to c survive, file c loses its
\* newest batches, later files (none of them synced) are gone.
PowerLoss(c, m, t) ==
    /\ "power_loss" \in Faults
    /\ m \in files[c].synced .. Len(files[c].batches)
    /\ t \in IF m = Len(files[c].batches) THEN {files[c].tail, NoTail} ELSE LostTails
    /\ \A i \in c + 1 .. Len(files) : files[i].synced = 0
    /\ files' = [i \in 1 .. c |->
                    IF i < c THEN Spared(files[i], Len(files[i].batches), files[i].tail)
                    ELSE Spared(files[c], m, t)]
    /\ Abandon

\* Any file may lose any of its unsynced batches; every file name survives.
ReorderedPowerLoss(kept) ==
    /\ "reordering" \in Faults
    /\ \A i \in DOMAIN files : kept[i] \in files[i].synced .. Len(files[i].batches)
    /\ files' = [i \in DOMAIN files |-> Spared(files[i], kept[i], NoTail)]
    /\ Abandon

--------------------------------------------------------------------------------
(* Read *)

\* Result<RecordBatch>: the batch, or an error.
Found(b) == [code |-> "Ok", batch |-> {b}]
Failed(code) == [code |-> code, batch |-> {}]

\* Faulty variant: lower_bound in place of upper_bound.
FindSegmentIndexLower(o) ==
    LET below == {i \in DOMAIN segments : segments[i].base < o}
    IN  IF below = {} THEN 1 ELSE CHOOSE i \in below : \A l \in below : l <= i

\* FindSegmentIndex: the last segment whose base is not above the offset; 0 if none.
FindSegmentIndex(o) ==
    LET below == {i \in DOMAIN segments : segments[i].base <= o}
    IN  IF below = {} THEN 0 ELSE CHOOSE i \in below : \A l \in below : l <= i

\* Read(o, max): walk the batches of the segment from the floor of the index and
\* stop at the first that holds the offset or does not fit in max bytes.
Read(o, max) ==
    LET i == FindSegmentIndex(o)
        batches == files[i].batches
        start == FindFloor(indexes[i], o)
        from == {j \in DOMAIN batches : batches[j].pos >= start}
        stops == {j \in from : Contains(batches[j], o) \/ Bytes(batches[j]) > max}
        first == CHOOSE j \in stops : \A l \in stops : j <= l
    IN  IF o >= next_offset \/ i = 0 THEN Failed("NotFound")
        ELSE IF segments[i].closed \/ max < HeaderBytes THEN Failed("InvalidArgument")
        ELSE IF start < segments[i].wpos /\ ~\E j \in DOMAIN batches : batches[j].pos = start
             THEN Failed("Corruption")
        ELSE IF stops = {} THEN Failed("NotFound")
        ELSE IF Bytes(batches[first]) > max THEN Failed("InvalidArgument")
        ELSE Found(batches[first])

--------------------------------------------------------------------------------
Init ==
    /\ files = <<>>
    /\ segments = <<>>
    /\ indexes = <<>>
    /\ next_offset = 0
    /\ phase = "down"
    /\ scan = NoScan
    /\ flushed = {}

AppendStep ==
    \E p \in Payloads :
        \/ AppendBatch(p)
        \/ AppendRollFails(p)
        \/ \E k \in 1 .. HeaderBytes + PayloadBytes[p] - 1 : AppendWriteFails(p, k)
        \/ \E k \in 0 .. HeaderBytes + PayloadBytes[p] : CrashInAppend(p, k)

FlushCloseStep ==
    \/ Flush
    \/ \E k \in 0 .. Len(files) : FlushFails(k)
    \/ Close
    \/ \E k \in 1 .. Len(segments) : CloseFails(k)

OpenStep ==
    \/ OpenEmpty
    \/ OpenEmptyFails
    \/ OpenExisting
    \/ RecoverBatch
    \/ RecoverSegment
    \/ RecoverRefuses
    \/ RecoverReadFails
    \/ RecoverIoFails

CrashStep ==
    \/ Crash
    \/ \E c \in DOMAIN files :
         \E m \in 0 .. Len(files[c].batches) :
           \E t \in LostTails \cup {files[c].tail} : PowerLoss(c, m, t)
    \/ \E kept \in [DOMAIN files -> 0 .. MaxOffset] : ReorderedPowerLoss(kept)

Next == AppendStep \/ FlushCloseStep \/ OpenStep \/ CrashStep

Spec == Init /\ [][Next]_vars

--------------------------------------------------------------------------------
(* Properties *)

ScanType == [n : Nat, index : Seq(IndexEntry), next : Nat]

\* The variables hold values of the code's types; in particular no tail, position
\* or offset goes below zero (they are unsigned in the code).
TypeOK ==
    /\ files \in Seq(File)
    /\ segments \in Seq([base : Nat, wpos : Nat, closed : BOOLEAN])
    /\ indexes \in Seq(Seq(IndexEntry))
    /\ next_offset \in Nat
    /\ phase \in {"down", "opening", "open", "closed"}
    /\ scan \in ScanType
    /\ flushed \subseteq Batch

\* Where the batches of a file end, in bytes and in offsets.
FileBytes(f) == IF f.batches = <<>> THEN 0 ELSE EndPos(f.batches[Len(f.batches)])
FileEnd(f) == IF f.batches = <<>> THEN f.base ELSE EndOffset(f.batches[Len(f.batches)])

\* The batches of a file lie end to end, in bytes and in offsets.
BatchesOk(f) ==
    LET bs == f.batches
    IN  /\ bs # <<>> => bs[1].pos = 0 /\ bs[1].base = f.base
        /\ \A j \in 1 .. Len(bs) - 1 :
              bs[j + 1].pos = EndPos(bs[j]) /\ bs[j + 1].base = EndOffset(bs[j])
        /\ \A j, k \in DOMAIN bs :
              j < k => EndPos(bs[j]) <= bs[k].pos /\ EndOffset(bs[j]) <= bs[k].base
        /\ f.synced <= Len(bs)

\* Files are sorted by base offset and no two of them hold the same offset.
FilesOk(fs) ==
    /\ \A i \in DOMAIN fs : BatchesOk(fs[i])
    /\ \A i, k \in DOMAIN fs :
          i < k => fs[i].base < fs[k].base /\ FileEnd(fs[i]) <= fs[k].base

\* An index over the first n batches: its entries are batches, in order, and every
\* batch lies less than IndexInterval bytes after some entry.
IndexOk(index, bs, n) ==
    /\ \A k \in DOMAIN index : \E j \in 1 .. n :
          index[k].offset = bs[j].base /\ index[k].position = bs[j].pos
    /\ \A k, l \in DOMAIN index :
          k < l => /\ index[k].offset < index[l].offset
                   /\ index[k].position < index[l].position
    /\ \A j \in 1 .. n : \E k \in DOMAIN index :
          /\ index[k].offset <= bs[j].base
          /\ index[k].position <= bs[j].pos
          /\ bs[j].pos < index[k].position + IndexInterval

\* A segment and its index, as kept in memory, describe file f.
SegmentOk(segment, index, f) ==
    /\ segment.base = f.base
    /\ segment.wpos = FileBytes(f)
    /\ IndexOk(index, f.batches, Len(f.batches))

MemoryOk ==
    /\ Len(indexes) = Len(segments)
    /\ \A i \in DOMAIN segments : SegmentOk(segments[i], indexes[i], files[i])
    /\ phase \in {"open", "closed"} =>
          /\ files # <<>>
          /\ Len(segments) = Len(files)
          /\ next_offset = FileEnd(files[Len(files)])
    /\ phase = "opening" =>
          /\ Len(segments) < Len(files)
          /\ next_offset = IF segments = <<>> THEN 0 ELSE FileEnd(files[Len(segments)])
          /\ LET f == files[Current]
             IN  /\ scan.n <= Len(f.batches)
                 /\ IndexOk(scan.index, f.batches, scan.n)
                 /\ scan.next = IF scan.n = 0 THEN f.base ELSE EndOffset(f.batches[scan.n])
    /\ phase = "down" => segments = <<>> /\ next_offset = 0

\* Whatever writes failed, wherever the process died and however recovery was
\* interrupted, the batches lie end to end, memory describes the files and the
\* sparse index covers every batch.  In particular MaybeAppend never refuses a
\* batch that Append has just written.
Layout == FilesOk(files) /\ MemoryOk

\* Enough bytes to read batch b past whatever the sparse index makes Read skip.
Enough(b) == IF Bytes(b) > IndexInterval THEN Bytes(b) ELSE IndexInterval

\* Read finds every stored record: from any offset of a batch, a caller that
\* offers room for that batch and for one index interval gets exactly that batch.
ReadComplete ==
    (phase = "open" /\ \A i \in DOMAIN segments : ~segments[i].closed) =>
        \A b \in StoredBatches : \A o \in b.base .. EndOffset(b) - 1 :
            Read(o, Enough(b)) = Found(b)

\* A batch that was in the log when Flush returned Ok is never lost.
FlushedStored == flushed \subseteq StoredBatches

--------------------------------------------------------------------------------
(* The log implements OffsetLog *)

LogEnd == IF files = <<>> THEN 0 ELSE FileEnd(files[Len(files)])

FlushedEnd == IF flushed = {} THEN 0
              ELSE EndOffset(CHOOSE b \in flushed : \A c \in flushed : c.base <= b.base)

\* The record at every offset; a reordering power loss may have left holes.
NoRecord == <<"lost", 0>>
LogRecords ==
    LET stored == StoredBatches
        at(o) == {b \in stored : Contains(b, o)}
        record(b, o) == <<b.payload, o - b.base>>
    IN  [i \in 1 .. LogEnd |->
            IF at(i - 1) = {} THEN NoRecord ELSE record(CHOOSE b \in at(i - 1) : TRUE, i - 1)]

Promise == INSTANCE OffsetLog WITH
    log <- LogRecords,
    stable <- FlushedEnd,
    Chunks <- {[k \in 1 .. RecordCount[p] |-> <<p, k - 1>>] : p \in Payloads},
    Lost <- NoRecord,
    Lossy <- {"power_loss", "reordering"} \cap Faults # {},
    Holes <- "reordering" \in Faults

\* Appends are all or nothing and in order, nothing is lost when the process dies,
\* and a power loss, in order or not, takes only records that no flush covered.
ImplementsOffsetLog == Promise!Spec
================================================================================
