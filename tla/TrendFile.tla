----------------------------- MODULE TrendFile ------------------------------
(***************************************************************************)
(* Trend recording: TrendFileRecorder samples the register table on a      *)
(* timer, TrendFileWriter appends the samples to a .tnd file, and          *)
(* TrendFileReader answers the /api/tfile requests from the files.  All of *)
(* them run on the main thread, so a request never meets half an append;   *)
(* but an append is several writes through QFile's buffer, and the process *)
(* may end, or the disk may refuse, after any of them.                     *)
(*                                                                         *)
(* QFile passes its buffer on in flush(), close(), seek() and size(); the  *)
(* last two only if something was written since they last did (or tried):  *)
(* once one of them has been refused, what is left in the buffer goes      *)
(* wherever the next record's seek() leads.  From then on the file's       *)
(* contents are not modelled: it is "spoilt".                              *)
(*                                                                         *)
(* A file on disk is its size, the record counts of its block headers and  *)
(* its records.  A file is named by the second in which it was started;    *)
(* since the clock may be set, every name can come again.  Samples are     *)
(* told apart by numbering those of a file.                                *)
(***************************************************************************)
EXTENDS Integers, Sequences, FiniteSets, FiniteSetsExt, SequencesExt

CONSTANTS
    Name,               \* start times in seconds, as in "yyMMdd_HHmmss.tnd"
    Frequency,          \* sampling intervals in seconds
    kHeaderSize, kBlockHeaderSize, kRecordSize, kRecordsPerBlock,
    kBlockPadSize, kMaxFileSize,
    MaxFailures         \* bound: requests and samples in which the disk refuses

kBlockSize == kBlockHeaderSize + kRecordsPerBlock * kRecordSize + kBlockPadSize

ASSUME SizesAssumption ==
    /\ Name \subseteq Nat
    /\ Frequency \subseteq Nat \ {0}
    /\ {kHeaderSize, kBlockHeaderSize, kRecordSize, kRecordsPerBlock} \subseteq Nat \ {0}
    /\ {kBlockPadSize, kMaxFileSize, MaxFailures} \subseteq Nat
    /\ kHeaderSize + kBlockHeaderSize <= kMaxFileSize

VARIABLES
    disk,       \* what the files hold that are not spoilt: [name -> file]
    writer,     \* TrendFileWriter: m_blkIndex, m_dataCnt and QFile's buffer
    recording,  \* the file being recorded, a set of at most one name
    taken,      \* history: [name -> samples taken for the file]
    safe,       \* history: [name -> samples whose append was flushed]
    stuck,      \* the buffer is not empty, and seek() and size() leave it
    spoilt,     \* files in which something was written at the wrong place
    failures    \* how often the disk has refused

trendVars == <<disk, writer, recording, taken, safe, stuck, spoilt, failures>>

(* The file being recorded, unless it is spoilt. *)
Live == recording \ spoilt

EmptyFile(freq) == [freq |-> freq, size |-> 0, heads |-> <<>>, recs |-> <<>>]

Closed == [blkIndex |-> 0, dataCnt |-> 0, buffer |-> <<>>]

blockOffset(b) == kHeaderSize + b * kBlockSize

recordOffset(b, i) == blockOffset(b) + kBlockHeaderSize + i * kRecordSize
-----------------------------------------------------------------------------
(***************************************************************************)
(* A write is where it goes, how long it is and what it puts there: both   *)
(* headers of a new file, a record, the count of a block, the padding of a *)
(* full block or the header of the next one.                               *)
(***************************************************************************)
Write(kind, at, len, b, v) == [kind |-> kind, at |-> at, len |-> len, b |-> b, v |-> v]

FileHeaders == Write("head", 0, kHeaderSize + kBlockHeaderSize, 0, 0)

(* Variant: the count is written before it is raised. *)
CountBehind(w, sample) ==
    LET b == w.blkIndex
        n == w.dataCnt + 1
    IN  << Write("record", recordOffset(b, w.dataCnt), kRecordSize, b, sample),
           Write("count", blockOffset(b) + 4, 2, b, w.dataCnt) >>
        \o IF n # kRecordsPerBlock THEN <<>>
           ELSE << Write("pad", recordOffset(b, n), kBlockPadSize, b, 0),
                   Write("head", blockOffset(b + 1), kBlockHeaderSize, b + 1, 0) >>

(* The writes of appendRecord(), in its order. *)
RecordWrites(w, sample) ==
    LET b == w.blkIndex
        n == w.dataCnt + 1
    IN  << Write("record", recordOffset(b, w.dataCnt), kRecordSize, b, sample),
           Write("count", blockOffset(b) + 4, 2, b, n) >>
        \o IF n # kRecordsPerBlock THEN <<>>
           ELSE << Write("pad", recordOffset(b, n), kBlockPadSize, b, 0),
                   Write("head", blockOffset(b + 1), kBlockHeaderSize, b + 1, 0) >>

(* The count lies inside its block's header, whatever the sizes are. *)
Reaches(f, x, bytes) ==
    IF x.kind = "count" THEN f.size ELSE Max({f.size, x.at + bytes})

(* QFile passes a write on to the file. *)
Passed(f, x) ==
    [f EXCEPT !.size  = Reaches(f, x, x.len),
              !.heads = CASE x.kind = "head"  -> Append(@, 0)
                          [] x.kind = "count" -> [@ EXCEPT ![x.b + 1] = x.v]
                          [] OTHER            -> @,
              !.recs  = IF x.kind = "record" THEN Append(@, x.v) ELSE @]

(* The file before the first write, after it, and so on. *)
Stages(f, xs) ==
    LET stage[k \in 0 .. Len(xs)] == IF k = 0 THEN f ELSE Passed(stage[k - 1], xs[k])
    IN  stage

AllWritten(f, xs) == Stages(f, xs)[Len(xs)]

(* The first k - 1 writes have reached the file, and n bytes of the next. *)
CutShort(f, xs, k, n) ==
    [Stages(f, xs)[k - 1] EXCEPT !.size = Reaches(Stages(f, xs)[k - 1], xs[k], n)]

Interrupted(f, xs) ==
    UNION {{CutShort(f, xs, k, n) : n \in 0 .. (xs[k].len - 1)} : k \in DOMAIN xs}

PartlyWritten(f, xs) == {AllWritten(f, xs)} \cup Interrupted(f, xs)
-----------------------------------------------------------------------------
(***************************************************************************)
(* TrendFileReader.  Integer division rounds towards zero in C++, so a     *)
(* file shorter than its header has a block 0, which then is not there.    *)
(***************************************************************************)
LastBlock(f) == IF f.size < kHeaderSize THEN 0 ELSE (f.size - kHeaderSize) \div kBlockSize

HasHead(f, b) == blockOffset(b) + kBlockHeaderSize <= f.size

HasRecord(f, b, i) == i < f.heads[b + 1] /\ recordOffset(b, i) + kRecordSize <= f.size

RecordAt(f, b, i) == f.recs[b * kRecordsPerBlock + i + 1]

(* parseHeader(): the number of records GET /api/tfile/files reports. *)
recordCount(f) ==
    IF f.size < kHeaderSize + kBlockHeaderSize \/ ~HasHead(f, LastBlock(f)) THEN 0
    ELSE LastBlock(f) * kRecordsPerBlock + f.heads[LastBlock(f) + 1]

(* Variant: only the last block is looked at. *)
LatestOfLastBlock(f) ==
    LET b == LastBlock(f)
    IN  IF HasHead(f, b) /\ f.heads[b + 1] # 0 /\ HasRecord(f, b, f.heads[b + 1] - 1)
        THEN <<RecordAt(f, b, f.heads[b + 1] - 1)>>
        ELSE <<>>

(* readLatest(): backwards from the last block to one that has records. *)
readLatest(f) ==
    LET Usable == {b \in 0 .. LastBlock(f) :
                     /\ HasHead(f, b)
                     /\ f.heads[b + 1] # 0
                     /\ HasRecord(f, b, f.heads[b + 1] - 1)}
    IN  IF Usable = {} THEN <<>>
        ELSE <<RecordAt(f, Max(Usable), f.heads[Max(Usable) + 1] - 1)>>

(* readSample(): every step-th record from the first index to the last,    *)
(* up to the first that is not there.                                      *)
readSample(n, f, from, to, step) ==
    LET riStart == IF from >= n THEN (from - n) \div f.freq ELSE 0
        riEnd   == IF to >= n THEN (to - n) \div f.freq ELSE -1
        ri(j)   == riStart + (j - 1) * step
        There(j) == LET b == ri(j) \div kRecordsPerBlock
                        i == ri(j) % kRecordsPerBlock
                    IN  HasHead(f, b) /\ HasRecord(f, b, i)
        Ends == {j \in 1 .. Len(f.recs) + 1 : ri(j) > riEnd \/ ~There(j)}
    IN  IF f.size < kHeaderSize + kBlockHeaderSize \/ riEnd < riStart THEN <<>>
        ELSE [j \in 1 .. Min(Ends) - 1 |->
                RecordAt(f, ri(j) \div kRecordsPerBlock, ri(j) % kRecordsPerBlock)]
-----------------------------------------------------------------------------
TrendInit ==
    /\ disk = <<>>
    /\ writer = Closed
    /\ recording = {}
    /\ taken = <<>>
    /\ safe = <<>>
    /\ stuck = FALSE
    /\ spoilt = {}
    /\ failures = 0

With(f, n, v) == [m \in DOMAIN f \cup {n} |-> IF m = n THEN v ELSE f[m]]

Without(f, n) == [m \in DOMAIN f \ {n} |-> f[m]]

(***************************************************************************)
(* POST /api/tfile/start: TrendFileRecorder::start() empties the file and  *)
(* leaves its headers in the buffer; the answer asks for status(), which   *)
(* passes them on.  The disk may refuse them, unseen, and the process may  *)
(* end before they are there.                                              *)
(***************************************************************************)
Open(n, f) ==
    /\ recording = {}
    /\ disk' = With(disk, n, f)
    /\ taken' = With(taken, n, 0)
    /\ safe' = With(safe, n, 0)
    /\ spoilt' = spoilt \ {n}

Start(n, freq) ==
    /\ Open(n, AllWritten(EmptyFile(freq), <<FileHeaders>>))
    /\ writer' = Closed
    /\ recording' = {n}
    /\ UNCHANGED <<stuck, failures>>

StartRefused(n, freq) ==
    /\ failures < MaxFailures
    /\ \E f \in Interrupted(EmptyFile(freq), <<FileHeaders>>) : Open(n, f)
    /\ writer' = [Closed EXCEPT !.buffer = <<FileHeaders>>]
    /\ recording' = {n}
    /\ stuck' = TRUE
    /\ failures' = failures + 1

StartCrashes(n, freq) ==
    /\ \E f \in Interrupted(EmptyFile(freq), <<FileHeaders>>) : Open(n, f)
    /\ UNCHANGED <<writer, recording, stuck, failures>>

(* m_writer.fileSize(), as far as the disk does not refuse. *)
fileSize(n) ==
    IF stuck THEN disk[n].size ELSE AllWritten(disk[n], writer.buffer).size

(* Variant: room for the record alone. *)
RecordOnly(w) == kRecordSize

worstCase(w) ==
    IF w.dataCnt = kRecordsPerBlock - 1
    THEN kRecordSize + kBlockPadSize + kBlockHeaderSize
    ELSE kRecordSize

HasCapacity(n, w) == fileSize(n) + worstCase(w) <= kMaxFileSize

(* Every seek() passes the previous write on, flush() the last one. *)
Pending(n) == writer.buffer \o RecordWrites(writer, taken[n] + 1)

Advanced(w) ==
    IF w.dataCnt + 1 = kRecordsPerBlock
    THEN [w EXCEPT !.blkIndex = @ + 1, !.dataCnt = 0]
    ELSE [w EXCEPT !.dataCnt = @ + 1]

(* onTimer() when the record and all that goes with it is written. *)
Appended(n) ==
    /\ n \in Live
    /\ ~stuck
    /\ HasCapacity(n, writer)
    /\ disk' = [disk EXCEPT ![n] = AllWritten(@, Pending(n))]
    /\ writer' = [Advanced(writer) EXCEPT !.buffer = <<>>]
    /\ taken' = [taken EXCEPT ![n] = @ + 1]
    /\ safe' = [safe EXCEPT ![n] = taken[n] + 1]
    /\ UNCHANGED <<recording, stuck, spoilt, failures>>

(* onTimer() when the last flush() fails: nobody looks at its result, the  *)
(* write stays in the buffer and is passed on by the next append.          *)
AppendedUnflushed(n) ==
    /\ n \in Live
    /\ ~stuck
    /\ HasCapacity(n, writer)
    /\ failures < MaxFailures
    /\ \E k \in 0 .. (Last(Pending(n)).len - 1) :
         disk' = [disk EXCEPT ![n] = CutShort(@, Pending(n), Len(Pending(n)), k)]
    /\ writer' = [Advanced(writer) EXCEPT !.buffer = <<Last(Pending(n))>>]
    /\ taken' = [taken EXCEPT ![n] = @ + 1]
    /\ failures' = failures + 1
    /\ UNCHANGED <<recording, safe, stuck, spoilt>>

(* onTimer() when fileSize() has passed the buffer on and a seek() cannot  *)
(* pass on one of the record's writes: recording stops.                    *)
AppendFails(n) ==
    /\ n \in Live
    /\ ~stuck
    /\ HasCapacity(n, writer)
    /\ failures < MaxFailures
    /\ \E f \in PartlyWritten(AllWritten(disk[n], writer.buffer),
                              Front(RecordWrites(writer, taken[n] + 1))) :
         disk' = [disk EXCEPT ![n] = f]
    /\ writer' = Closed
    /\ recording' = {}
    /\ taken' = [taken EXCEPT ![n] = @ + 1]
    /\ safe' = [safe EXCEPT ![n] = taken[n]]
    /\ failures' = failures + 1
    /\ UNCHANGED <<stuck, spoilt>>

(***************************************************************************)
(* onTimer() when what is in the buffer was refused in fileSize(), now (it *)
(* returns 0, so the limit is not seen) or before: the record is put after *)
(* it in the buffer, and both are passed on at the record's offset.        *)
(* Recording goes on, unless another write fails or the process ends.      *)
(***************************************************************************)
AppendMisplaced(n) ==
    /\ n \in Live
    /\ \/ stuck /\ HasCapacity(n, writer) /\ UNCHANGED failures
       \/ /\ ~stuck /\ writer.buffer # <<>>
          /\ worstCase(writer) <= kMaxFileSize
          /\ failures < MaxFailures /\ failures' = failures + 1
    /\ disk' = Without(disk, n)
    /\ taken' = Without(taken, n)
    /\ safe' = Without(safe, n)
    /\ spoilt' = spoilt \cup {n}
    /\ recording' \in {recording, {}}
    /\ writer' = Closed
    /\ stuck' = FALSE

(* stop(), from POST /api/tfile/stop: closing the file empties the buffer, *)
(* where it belongs, even if size() was refused before.                    *)
Stop(n) ==
    /\ n \in Live
    /\ disk' = [disk EXCEPT ![n] = AllWritten(@, writer.buffer)]
    /\ writer' = Closed
    /\ recording' = {}
    /\ stuck' = FALSE
    /\ safe' = [safe EXCEPT ![n] = taken[n]]
    /\ UNCHANGED <<taken, spoilt, failures>>

StopRefused(n) ==
    /\ n \in Live
    /\ writer.buffer # <<>>
    /\ failures < MaxFailures
    /\ \E f \in Interrupted(disk[n], writer.buffer) : disk' = [disk EXCEPT ![n] = f]
    /\ writer' = Closed
    /\ recording' = {}
    /\ stuck' = FALSE
    /\ failures' = failures + 1
    /\ UNCHANGED <<taken, safe, spoilt>>

(* onTimer() at the limit stops recording. *)
CapacityExceeded(n) ==
    /\ n \in Live
    /\ ~HasCapacity(n, writer)
    /\ Stop(n) \/ (stuck /\ StopRefused(n))

(* Whatever ends the recording of a spoilt file. *)
StopSpoilt(n) ==
    /\ n \in recording \cap spoilt
    /\ recording' = {}
    /\ UNCHANGED <<disk, writer, taken, safe, stuck, spoilt, failures>>

(* GET /api/tfile/status asks for the size of the file being recorded;     *)
(* once that was refused, asking again changes nothing.                    *)
Status(n) ==
    /\ n \in Live
    /\ ~stuck
    /\ disk' = [disk EXCEPT ![n] = AllWritten(@, writer.buffer)]
    /\ writer' = [writer EXCEPT !.buffer = <<>>]
    /\ safe' = [safe EXCEPT ![n] = taken[n]]
    /\ UNCHANGED <<recording, taken, stuck, spoilt, failures>>

StatusRefused(n) ==
    /\ n \in Live
    /\ ~stuck
    /\ writer.buffer # <<>>
    /\ failures < MaxFailures
    /\ \E f \in Interrupted(disk[n], writer.buffer) : disk' = [disk EXCEPT ![n] = f]
    /\ stuck' = TRUE
    /\ failures' = failures + 1
    /\ UNCHANGED <<writer, recording, taken, safe, spoilt>>

DeleteFile(n) ==
    /\ n \in (DOMAIN disk \cup spoilt) \ recording
    /\ disk' = Without(disk, n)
    /\ taken' = Without(taken, n)
    /\ safe' = Without(safe, n)
    /\ spoilt' = spoilt \ {n}
    /\ UNCHANGED <<writer, recording, stuck, failures>>

(* The process ends, between two requests or within an append. *)
Crash ==
    /\ writer' = Closed
    /\ recording' = {}
    /\ stuck' = FALSE
    /\ \/ UNCHANGED <<disk, taken>>
       \/ \E n \in Live :
            /\ ~stuck
            /\ HasCapacity(n, writer)
            /\ \E f \in PartlyWritten(disk[n], Pending(n)) : disk' = [disk EXCEPT ![n] = f]
            /\ taken' = [taken EXCEPT ![n] = @ + 1]
    /\ UNCHANGED <<safe, spoilt, failures>>

TrendNext ==
    \/ \E n \in Name, freq \in Frequency :
         Start(n, freq) \/ StartRefused(n, freq) \/ StartCrashes(n, freq)
    \/ \E n \in Name :
         \/ Appended(n) \/ AppendedUnflushed(n) \/ AppendFails(n) \/ AppendMisplaced(n)
         \/ CapacityExceeded(n) \/ Stop(n) \/ StopRefused(n) \/ StopSpoilt(n)
         \/ Status(n) \/ StatusRefused(n) \/ DeleteFile(n)
    \/ Crash

TrendSpec == TrendInit /\ [][TrendNext]_trendVars
-----------------------------------------------------------------------------
AllRecords(n) == readSample(n, disk[n], 0, n + disk[n].freq * (Len(disk[n].recs) + 1), 1)

(***************************************************************************)
(* Whenever the process ends, and whatever write the disk refuses, a file  *)
(* that is not spoilt gives back the samples in the order in which they    *)
(* were taken, with none left out and none invented, and at least those    *)
(* whose append was flushed.  It rests on what appendRecord() writes       *)
(* before it advances to the next block and on how readSample() checks     *)
(* counts and the size.  The exception is a file to which a record is      *)
(* appended after fileSize() could not pass on what was in the buffer.     *)
(***************************************************************************)
FlushedAreKept ==
    \A n \in DOMAIN disk :
        /\ Len(AllRecords(n)) \in safe[n] .. taken[n]
        /\ AllRecords(n) = [i \in DOMAIN AllRecords(n) |-> i]

(***************************************************************************)
(* The readers agree on every file a crash, or a refused write that spoils *)
(* nothing, can leave: readLatest() returns the last record readSample()   *)
(* has, readSample() with an interval and a step has exactly the records   *)
(* at those places, and the number reported by the list of files is that   *)
(* of the records, or 0 when the process ended between the padding of a    *)
(* block and the header of the next.                                       *)
(***************************************************************************)
ReadersAgree ==
    \A n \in DOMAIN disk :
        LET f == disk[n]
            all == AllRecords(n)
        IN  /\ readLatest(f) = IF all = <<>> THEN <<>> ELSE <<Last(all)>>
            /\ \A first, last \in 0 .. Len(all), step \in 1 .. 3 :
                 LET got == readSample(n, f, n + first * f.freq, n + last * f.freq, step)
                 IN  /\ \A i, j \in DOMAIN got : i < j => got[i] < got[j]
                     /\ {got[j] : j \in DOMAIN got} =
                            {s \in 1 .. Len(all) : /\ s - 1 \in first .. last
                                                  /\ (s - 1 - first) % step = 0}
            /\ \/ recordCount(f) = Len(all)
               \/ f.size < blockOffset(LastBlock(f)) + kBlockHeaderSize /\ recordCount(f) = 0

(***************************************************************************)
(* A file that is not spoilt never outgrows kMaxFileSize, although a       *)
(* record that fills a block brings the padding and the next header with   *)
(* it: appendRecord() reserves room for them before it writes anything.    *)
(***************************************************************************)
SizeBounded == \A n \in DOMAIN disk : disk[n].size <= kMaxFileSize
=============================================================================
