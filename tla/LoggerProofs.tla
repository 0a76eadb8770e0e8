---------------------------- MODULE LoggerProofs ----------------------------
(***************************************************************************)
(* Proofs about the logger for every set of threads, every limit and any   *)
(* number of entries, starts, clears and failures: that it implements      *)
(* LogStore, flushes at exit and keeps the table within its limit.         *)
(***************************************************************************)
EXTENDS Logger, SequenceTheorems, TLAPS

(* drain() has entries in hand in its loop only, and a transaction from    *)
(* the first INSERT to the COMMIT.                                         *)
DrainInv ==
    /\ writer \notin {"insert", "count"} => batch = <<>>
    /\ writer = "insert" => batch # <<>>
    /\ writer \notin {"insert", "count", "commit"} => tx = <<>>
    /\ main = "off" => writer = "off"

(***************************************************************************)
(* Why shutdown() flushes: a writer in its loop sees m_running false only  *)
(* after the call, so the last drain() takes the queue after the call, and *)
(* what is queued from then on has a number above those before it.         *)
(***************************************************************************)
Looping == {"check", "take", "insert", "count", "commit", "trim", "closed"}
Drained == {"insert", "count", "commit", "trim", "closed"}

FlushInv ==
    /\ before <= counts.entries
    /\ writer \in Looping /\ ~m_running => main \in {"waiting", "done"}
    /\ writer \in Looping \ {"check"} /\ last => main \in {"waiting", "done"}
    /\ writer = "closed" => last
    /\ writer \in Drained /\ last => \A i \in 1 .. Len(m_queue) : m_queue[i] > before

(***************************************************************************)
(* Why the limit holds: m_rowCount falls short of the rows by no more than *)
(* those inserted while clearAll() was between DELETE and reset and those  *)
(* SELECT COUNT did not return; while clearAll() is between the two the    *)
(* table holds nothing but these.  Between the two halves of ++m_rowCount  *)
(* the value that was read takes its place.                                *)
(***************************************************************************)
Rows    == Len(logs) + Len(tx)
Counted == {"ready", "check", "take", "insert", "commit", "trim", "closed"}

RowsInv ==
    /\ main = "clearing" => Rows <= uncounted
    /\ writer \in Counted => Rows <= m_rowCount + uncounted
    /\ writer = "count" => Rows <= seen + 1 + uncounted
    /\ trimmed => writer \in Looping
    /\ writer \in {"check", "take", "closed"} /\ trimmed => Len(logs) <= MaxLogRows + uncounted

Inv ==
    /\ TypeOK
    /\ DrainInv
    /\ FlushInv
    /\ RowsInv
-----------------------------------------------------------------------------
Counts == [entries: 0 .. MaxEntries, starts: 0 .. MaxStarts,
           clears: 0 .. MaxClears, failures: 0 .. MaxFailures]

LEMMA BoundTypes ==
    /\ MaxLogRows \in Nat /\ MaxLogRows > 0 /\ MaxEntries \in Nat
    /\ MaxStarts \in Nat /\ MaxClears \in Nat /\ MaxFailures \in Nat
  BY LoggerAssumption

(* The numbers in an invariant state. *)
LEMMA NumberTypes ==
    ASSUME TypeOK
    PROVE  /\ counts \in Counts /\ counts.entries \in Nat /\ counts.entries <= MaxEntries
           /\ Len(m_queue) \in Nat /\ Len(batch) \in Nat /\ Len(tx) \in Nat /\ Len(logs) \in Nat
           /\ Rows \in Nat
           /\ \A i \in 1 .. Len(m_queue) : m_queue[i] \in Nat
<1>1. counts \in Counts
      BY DEF TypeOK, Counts
<1>2. counts.entries \in Nat /\ counts.entries <= MaxEntries
      BY <1>1, BoundTypes DEF Counts
<1>3. /\ Len(m_queue) \in Nat /\ Len(batch) \in Nat
      /\ Len(tx) \in Nat /\ Len(logs) \in Nat
      BY DEF TypeOK
<1>4. Rows \in Nat
      BY <1>3 DEF Rows
<1>5. \A i \in 1 .. Len(m_queue) : m_queue[i] \in Nat
  <2>1. \A i \in 1 .. Len(m_queue) : m_queue[i] \in Entry
        BY DEF TypeOK
  <2>2. \A e \in Entry : e \in Nat
        BY BoundTypes DEF Entry
  <2>3. QED  BY <2>1, <2>2
<1>6. QED  BY <1>1, <1>2, <1>3, <1>4, <1>5

(* The counters of entries, starts and clears below their bounds, or a failure. *)
LEMMA CountsStep ==
    ASSUME counts \in Counts
    PROVE  /\ counts.starts < MaxStarts => LET c == [counts EXCEPT !.starts = @ + 1]
                                           IN c \in Counts /\ c.entries = counts.entries
           /\ counts.clears < MaxClears => LET c == [counts EXCEPT !.clears = @ + 1]
                                           IN c \in Counts /\ c.entries = counts.entries
           /\ counts.entries < MaxEntries => LET c == [counts EXCEPT !.entries = @ + 1]
                                             IN c \in Counts /\ c.entries = counts.entries + 1
           /\ \A ok \in BOOLEAN : Statement(ok) => counts' \in Counts
                                                   /\ counts'.entries = counts.entries
<1>1. counts.starts < MaxStarts => counts.starts + 1 \in 0 .. MaxStarts
      BY BoundTypes DEF Counts
<1>2. counts.clears < MaxClears => counts.clears + 1 \in 0 .. MaxClears
      BY BoundTypes DEF Counts
<1>3. counts.entries < MaxEntries => counts.entries + 1 \in 0 .. MaxEntries
      BY BoundTypes DEF Counts
<1>4. counts.failures < MaxFailures => counts.failures + 1 \in 0 .. MaxFailures
      BY BoundTypes DEF Counts
<1>5. ASSUME NEW ok \in BOOLEAN, Statement(ok)
      PROVE  counts' \in Counts /\ counts'.entries = counts.entries
      BY <1>4, <1>5 DEF Statement, Counts
<1> QED
    BY <1>1, <1>2, <1>3, <1>5 DEF Counts

LEMMA InitInv == Init => Inv
<1> SUFFICES ASSUME Init PROVE Inv
    OBVIOUS
<1>1. TypeOK
  <2>1. counts \in [entries: 0 .. MaxEntries, starts: 0 .. MaxStarts,
                   clears: 0 .. MaxClears, failures: 0 .. MaxFailures]
        BY BoundTypes DEF Init
  <2>2. thread \in [Thread -> {"idle", "pushing"}]
        BY DEF Init
  <2>3. /\ m_queue \in Seq(Entry) /\ batch \in Seq(Entry)
        /\ tx \in Seq(Entry) /\ logs \in Seq(Entry)
        BY DEF Init
  <2> QED
      BY <2>1, <2>2, <2>3 DEF Init, TypeOK, WriterState
<1>2. Len(logs) = 0 /\ Len(tx) = 0 /\ Rows = 0
      BY DEF Init, Rows
<1>3. DrainInv /\ FlushInv
      BY DEF Init, DrainInv, FlushInv, Looping, Drained
<1>4. RowsInv
      BY <1>2 DEF Init, RowsInv, Looping, Counted
<1> QED
    BY <1>1, <1>3, <1>4 DEF Inv

LEMMA MainInv ==
    ASSUME Inv, initialize \/ ClearRows \/ ClearCount \/ shutdown \/ DeleteInstance
    PROVE  Inv'
<1> USE DEF Inv, queue
<1>0. TypeOK /\ counts \in Counts /\ counts.entries \in Nat
      BY NumberTypes
<1>1. CASE initialize
  <2>1. counts' \in Counts /\ counts'.entries = counts.entries
        BY <1>0, <1>1, CountsStep DEF initialize
  <2>2. TypeOK'
        BY <1>1, <2>1 DEF initialize, TypeOK, WriterState, Counts
  <2>3. DrainInv' /\ FlushInv'
    <3>1. /\ writer = "off" /\ main' = "run" /\ writer' = "opening"
          /\ UNCHANGED <<batch, tx, before>>
          BY <1>1 DEF initialize, DrainInv
    <3> QED
        BY <2>1, <3>1 DEF DrainInv, FlushInv, Looping, Drained
  <2>4. ~trimmed
        BY <1>1 DEF initialize, DrainInv, RowsInv, Looping
  <2> QED
      BY <1>1, <2>2, <2>3, <2>4 DEF initialize, RowsInv, Looping, Counted, Rows
<1>2. CASE ClearRows
  <2>1. counts' \in Counts /\ counts'.entries = counts.entries
        BY <1>0, <1>2, CountsStep DEF ClearRows
  <2>2. TypeOK'
        BY <1>2, <2>1 DEF ClearRows, TypeOK, Counts
  <2>3. DrainInv' /\ FlushInv'
    <3>1. /\ main = "run" /\ main' = "clearing"
          /\ UNCHANGED <<m_queue, batch, tx, writer, last, m_running, before>>
          BY <1>2 DEF ClearRows
    <3> QED
        BY <2>1, <3>1 DEF DrainInv, FlushInv
  <2>4. Rows' = 0 /\ Len(logs') = 0 /\ uncounted' = 0
        BY <1>2 DEF ClearRows, Rows
  <2>5. RowsInv'
    <3>1. m_rowCount' \in Nat /\ seen' \in Nat
          BY <2>2 DEF TypeOK
    <3>2. Rows' <= uncounted' /\ Rows' <= m_rowCount' + uncounted' /\ Rows' <= seen' + 1 + uncounted'
      <4>1. ASSUME NEW m \in Nat, NEW x, NEW y, x = 0, y = 0
            PROVE  x <= y /\ x <= m + y /\ x <= m + 1 + y
            BY <4>1
      <4> QED
          BY <2>4, <3>1, <4>1
    <3>3. Len(logs') <= MaxLogRows + uncounted'
          BY <2>4, BoundTypes
    <3>4. trimmed' => writer' \in Looping
          BY <1>2 DEF ClearRows, RowsInv
    <3> QED
        BY <3>2, <3>3, <3>4 DEF RowsInv
  <2> QED
      BY <2>2, <2>3, <2>5
<1>3. CASE ClearCount
  <2>1. TypeOK' /\ DrainInv' /\ FlushInv'
        BY <1>3 DEF ClearCount, TypeOK, DrainInv, FlushInv, Looping, Drained
  <2>2. RowsInv'
        BY <1>3, NumberTypes DEF ClearCount, RowsInv, Looping, Counted, Rows, TypeOK
  <2> QED
      BY <2>1, <2>2
<1>4. CASE shutdown
  <2>1. TypeOK' /\ DrainInv'
        BY <1>0, <1>4 DEF shutdown, TypeOK, DrainInv
  <2>2. FlushInv'
        BY <1>0, <1>4 DEF shutdown, FlushInv, Looping, Drained
  <2>3. RowsInv'
        BY <1>4 DEF shutdown, RowsInv, Rows
  <2> QED
      BY <2>1, <2>2, <2>3
<1>5. CASE DeleteInstance
  <2>1. TypeOK' /\ DrainInv' /\ FlushInv'
        BY <1>5 DEF DeleteInstance, TypeOK, DrainInv, FlushInv, Looping, Drained
  <2>2. RowsInv'
        BY <1>5 DEF DeleteInstance, RowsInv, Rows
  <2> QED
      BY <2>1, <2>2
<1> QED
    BY <1>1, <1>2, <1>3, <1>4, <1>5

LEMMA EndInv ==
    ASSUME Inv, ProcessEnds
    PROVE  Inv'
<1> USE DEF Inv
<1>1. TypeOK'
  <2>1. m_queue' \in Seq(Entry) /\ batch' \in Seq(Entry) /\ tx' \in Seq(Entry)
        BY DEF ProcessEnds
  <2>2. thread' \in [Thread -> {"idle", "pushing"}]
        BY DEF ProcessEnds
  <2> QED
      BY <2>1, <2>2 DEF ProcessEnds, TypeOK, WriterState
<1>2. counts.entries \in Nat
      BY NumberTypes
<1>3. /\ main' = "off" /\ writer' = "off" /\ batch' = <<>> /\ tx' = <<>>
      /\ before' = 0 /\ counts' = counts /\ trimmed' = FALSE
      BY DEF ProcessEnds
<1>4. DrainInv' /\ FlushInv' /\ RowsInv'
      BY <1>2, <1>3 DEF DrainInv, FlushInv, RowsInv, Looping, Drained, Counted
<1> QED
    BY <1>1, <1>4

LEMMA LogInv ==
    ASSUME Inv, NEW t \in Thread, LogStarts(t) \/ pushEntry(t)
    PROVE  Inv'
<1> USE DEF Inv
<1>0. thread' \in [Thread -> {"idle", "pushing"}]
      BY DEF LogStarts, pushEntry, TypeOK
<1>1. UNCHANGED <<batch, tx, logs, m_rowCount, seen, m_running, s_instance, writer, last,
                  main, uncounted, before, trimmed>>
      BY DEF LogStarts, pushEntry, queue
<1>2. CASE UNCHANGED <<counts, m_queue>>
  <2>1. TypeOK' /\ DrainInv'
        BY <1>0, <1>1, <1>2 DEF TypeOK, DrainInv
  <2>2. FlushInv' /\ RowsInv'
        BY <1>1, <1>2 DEF FlushInv, RowsInv, Rows
  <2> QED
      BY <2>1, <2>2
<1>3. CASE ~UNCHANGED <<counts, m_queue>>
  <2> DEFINE e == counts.entries + 1
  <2>1. /\ counts' = [counts EXCEPT !.entries = @ + 1] /\ m_queue' = Append(m_queue, e)
        /\ counts.entries < MaxEntries
        BY <1>3 DEF LogStarts, pushEntry, queue
  <2>2. /\ counts' \in Counts /\ counts'.entries = e /\ e \in Nat /\ e > before /\ before <= e
        /\ e \in Entry /\ before \in Nat
    <3>1. counts \in Counts /\ counts.entries \in Nat /\ before \in Nat /\ before <= counts.entries
          BY NumberTypes DEF TypeOK, FlushInv
    <3> QED
        BY <2>1, <3>1, CountsStep, BoundTypes DEF Entry
  <2> HIDE DEF e
  <2>3. /\ m_queue' \in Seq(Entry) /\ Len(m_queue') = Len(m_queue) + 1
        /\ \A i \in 1 .. Len(m_queue) : m_queue'[i] = m_queue[i]
        /\ m_queue'[Len(m_queue) + 1] = e /\ Len(m_queue) \in Nat
        BY <2>1, <2>2 DEF TypeOK
  <2>4. TypeOK' /\ DrainInv' /\ RowsInv'
        BY <1>0, <1>1, <2>2, <2>3 DEF TypeOK, DrainInv, RowsInv, Rows, Counts
  <2>5. FlushInv'
    <3>1. (\A i \in 1 .. Len(m_queue) : m_queue[i] > before)
             => \A i \in 1 .. Len(m_queue') : m_queue'[i] > before
      <4> SUFFICES ASSUME \A i \in 1 .. Len(m_queue) : m_queue[i] > before,
                          NEW i \in 1 .. Len(m_queue')
                   PROVE  m_queue'[i] > before
          OBVIOUS
      <4>1. i \in 1 .. Len(m_queue) \/ i = Len(m_queue) + 1
            BY <2>3
      <4> QED
          BY <2>2, <2>3, <4>1
    <3> QED
        BY <1>1, <2>2, <3>1 DEF FlushInv
  <2> QED
      BY <2>4, <2>5
<1> QED
    BY <1>2, <1>3

(* A writer that begins knows the rows there are, or none of them. *)
Outcome == {"counted", "uncounted", "failed"}

LEMMA OpenInv ==
    ASSUME Inv, NEW outcome \in Outcome, Open(outcome)
    PROVE  Inv'
<1> USE DEF Inv
<1>0. /\ writer = "opening" /\ writer' \in {"ready", "failed"}
      /\ UNCHANGED <<m_queue, batch, tx, logs, trimmed, s_instance, main, thread, before,
                     seen, m_running, last>>
      BY DEF Open, WriterOnly, queue
<1>1. counts' \in Counts /\ counts'.entries = counts.entries
  <2>1. (outcome = "counted") \in BOOLEAN /\ Statement(outcome = "counted")
        BY DEF Open
  <2> QED
      BY <2>1, NumberTypes, CountsStep
<1>2. /\ m_rowCount' \in Nat /\ uncounted' \in Nat
      /\ Len(logs) \in Nat /\ m_rowCount \in Nat /\ uncounted \in Nat
      BY NumberTypes DEF Open, TypeOK
<1>3. TypeOK'
      BY <1>0, <1>1, <1>2 DEF TypeOK, Counts, WriterState
<1>4. DrainInv' /\ FlushInv'
      BY <1>0, <1>1 DEF DrainInv, FlushInv, Looping, Drained
<1>5. RowsInv'
  <2>1. ~trimmed /\ tx = <<>> /\ Rows = Len(logs) /\ Rows' = Len(logs)
    <3>1. ~trimmed /\ tx = <<>>
          BY <1>0 DEF RowsInv, DrainInv, Looping
    <3> QED
        BY <1>0, <1>2, <3>1 DEF Rows
  <2>2. writer' = "ready" => Rows' <= m_rowCount' + uncounted'
    <3>1. CASE outcome = "counted"
          BY <1>2, <2>1, <3>1 DEF Open
    <3>2. CASE outcome = "uncounted"
          BY <1>2, <2>1, <3>2 DEF Open
    <3>3. CASE outcome = "failed"
          BY <3>3 DEF Open
    <3> QED
        BY <3>1, <3>2, <3>3 DEF Outcome
  <2>3. main' = "clearing" => Rows' <= uncounted'
    <3>1. uncounted' = uncounted \/ uncounted' = Len(logs)
          BY DEF Open
    <3> QED
        BY <1>0, <1>2, <2>1, <3>1 DEF RowsInv
  <2> QED
      BY <1>0, <2>1, <2>2, <2>3 DEF RowsInv, Looping, Counted
<1> QED
    BY <1>3, <1>4, <1>5

(* The steps of the writer thread that move no entry. *)
LEMMA LoopInv ==
    ASSUME Inv, Running \/ Check \/ Count
    PROVE  Inv'
<1> USE DEF Inv
<1>0. /\ UNCHANGED <<m_queue, batch, tx, logs, uncounted, trimmed, s_instance, main, thread, before>>
      BY DEF Running, Check, Count, WriterOnly, queue
<1>2. CASE Running
  <2>1. /\ writer = "ready" /\ writer' = "check" /\ m_running' = TRUE
        /\ UNCHANGED <<m_rowCount, seen, last, counts>>
        BY <1>2 DEF Running
  <2>2. TypeOK' /\ DrainInv' /\ FlushInv'
        BY <1>0, <2>1 DEF TypeOK, DrainInv, FlushInv, WriterState, Looping, Drained
  <2> QED
      BY <1>0, <2>1, <2>2 DEF RowsInv, Looping, Counted, Rows
<1>3. CASE Check
  <2>1. /\ writer = "check" /\ writer' = "take" /\ last' = ~m_running
        /\ UNCHANGED <<m_rowCount, seen, m_running, counts>>
        BY <1>3 DEF Check
  <2>2. TypeOK' /\ DrainInv' /\ FlushInv'
        BY <1>0, <2>1 DEF TypeOK, DrainInv, FlushInv, WriterState, Looping, Drained
  <2> QED
      BY <1>0, <2>1, <2>2 DEF RowsInv, Looping, Counted, Rows
<1>4. CASE Count
  <2>1. /\ writer = "count" /\ m_rowCount' = seen + 1
        /\ writer' = IF batch = <<>> THEN "commit" ELSE "insert"
        /\ UNCHANGED <<seen, m_running, last, counts>>
        BY <1>4 DEF Count
  <2>2. TypeOK'
        BY <1>0, <2>1 DEF TypeOK, WriterState
  <2>3. DrainInv' /\ FlushInv'
        BY <1>0, <2>1 DEF DrainInv, FlushInv, Looping, Drained
  <2>4. RowsInv'
        BY <1>0, <2>1 DEF RowsInv, Looping, Counted, Rows
  <2> QED
      BY <2>2, <2>3, <2>4
<1> QED
    BY <1>2, <1>3, <1>4

LEMMA TakeInv ==
    ASSUME Inv, Take
    PROVE  Inv'
<1> USE DEF Inv
<1>1. /\ writer = "take" /\ batch' = m_queue /\ m_queue' = <<>>
      /\ writer' = IF m_queue = <<>> THEN AfterDrain ELSE "insert"
      /\ UNCHANGED <<tx, logs, m_rowCount, seen, m_running, last, counts, uncounted, trimmed,
                     s_instance, main, thread, before>>
      BY DEF Take, WriterOnly
<1>2. /\ writer' \in {"check", "closed", "insert"}
      /\ writer' = "closed" => last
      /\ writer' = "insert" <=> m_queue # <<>>
  <2>1. AfterDrain \in {"check", "closed"} /\ (AfterDrain = "closed" => last)
        BY DEF AfterDrain
  <2> QED
      BY <1>1, <2>1
<1>3. m_queue' \in Seq(Entry) /\ Len(m_queue') = 0
      BY <1>1
<1>4. TypeOK'
      BY <1>1, <1>2, <1>3 DEF TypeOK, WriterState
<1>5. DrainInv'
      BY <1>1, <1>2 DEF DrainInv
<1>6. FlushInv'
      BY <1>1, <1>2, <1>3 DEF FlushInv, Looping, Drained
<1>7. RowsInv'
      BY <1>1, <1>2 DEF RowsInv, Looping, Counted, Rows
<1> QED
    BY <1>4, <1>5, <1>6, <1>7

LEMMA InsertInv ==
    ASSUME Inv, NEW ok \in BOOLEAN, Insert(ok)
    PROVE  Inv'
<1> USE DEF Inv
<1>1. /\ writer = "insert" /\ writer' = "count" /\ batch' = Tail(batch)
      /\ tx' = IF ok THEN Append(tx, Head(batch)) ELSE tx
      /\ uncounted' = IF ok /\ main = "clearing" THEN uncounted + 1 ELSE uncounted
      /\ seen' = m_rowCount
      /\ UNCHANGED <<m_queue, logs, m_rowCount, m_running, last, trimmed,
                     s_instance, main, thread, before>>
      BY DEF Insert, WriterOnly
<1>2. counts' \in Counts /\ counts'.entries = counts.entries
      BY NumberTypes, CountsStep DEF Insert
<1>3. batch \in Seq(Entry) /\ batch # <<>> /\ tx \in Seq(Entry)
      BY <1>1 DEF TypeOK, DrainInv
<1>4. Head(batch) \in Entry /\ batch' \in Seq(Entry)
      BY <1>1, <1>3, HeadTailProperties
<1>5. tx' \in Seq(Entry) /\ Len(tx') = IF ok THEN Len(tx) + 1 ELSE Len(tx)
      BY <1>1, <1>3, <1>4, AppendProperties
<1>6. TypeOK'
      BY <1>1, <1>2, <1>4, <1>5 DEF TypeOK, Counts, WriterState
<1>7. DrainInv' /\ FlushInv'
  <2>1. DrainInv'
        BY <1>1 DEF DrainInv
  <2>2. FlushInv'
        BY <1>1, <1>2 DEF FlushInv, Looping, Drained
  <2> QED
      BY <2>1, <2>2
<1>8. RowsInv'
  <2>1. /\ Len(logs) \in Nat /\ Len(tx) \in Nat /\ uncounted \in Nat /\ m_rowCount \in Nat
        BY NumberTypes DEF TypeOK
  <2>2. Rows' = IF ok THEN Rows + 1 ELSE Rows
        BY <1>1, <1>5, <2>1 DEF Rows
  <2>3. Rows <= m_rowCount + uncounted /\ Rows \in Nat /\ (main = "clearing" => Rows <= uncounted)
        BY <1>1, <2>1 DEF RowsInv, Looping, Counted, Rows
  <2>4. Rows' <= seen' + 1 + uncounted' /\ (main' = "clearing" => Rows' <= uncounted')
        BY <1>1, <2>1, <2>2, <2>3
  <2> QED
      BY <1>1, <2>4 DEF RowsInv, Looping, Counted
<1> QED
    BY <1>6, <1>7, <1>8

LEMMA CommitInv ==
    ASSUME Inv, NEW ok \in BOOLEAN, Commit(ok)
    PROVE  Inv'
<1> USE DEF Inv
<1>1. /\ writer = "commit" /\ writer' = "trim" /\ tx' = <<>>
      /\ logs' = IF ok THEN logs \o tx ELSE logs
      /\ UNCHANGED <<m_queue, batch, m_rowCount, seen, m_running, last, uncounted, trimmed,
                     s_instance, main, thread, before>>
      BY DEF Commit, WriterOnly
<1>2. counts' \in Counts /\ counts'.entries = counts.entries
      BY NumberTypes, CountsStep DEF Commit
<1>3. /\ tx' \in Seq(Entry) /\ Len(tx') = 0
      /\ logs' \in Seq(Entry) /\ Len(logs') \in Nat /\ Len(logs') <= Len(logs) + Len(tx)
  <2>1. tx' \in Seq(Entry) /\ Len(tx') = 0
        BY <1>1
  <2>2. /\ logs \in Seq(Entry) /\ tx \in Seq(Entry)
        /\ logs \o tx \in Seq(Entry) /\ Len(logs \o tx) = Len(logs) + Len(tx)
        BY ConcatProperties DEF TypeOK
  <2> QED
      BY <1>1, <2>1, <2>2, NumberTypes
<1>4. Rows' \in Nat /\ Rows \in Nat /\ Rows' <= Rows
      BY <1>3, NumberTypes DEF Rows
<1>5. TypeOK' /\ DrainInv'
      BY <1>1, <1>2, <1>3 DEF TypeOK, DrainInv, WriterState, Counts
<1>6. FlushInv'
      BY <1>1, <1>2 DEF FlushInv, Looping, Drained
<1>7. RowsInv'
  <2>1. m_rowCount \in Nat /\ uncounted \in Nat
        BY DEF TypeOK
  <2>2. Rows <= m_rowCount + uncounted /\ (main = "clearing" => Rows <= uncounted)
        BY <1>1 DEF RowsInv, Counted
  <2> QED
      BY <1>1, <1>4, <2>1, <2>2 DEF RowsInv, Looping, Counted
<1> QED
    BY <1>5, <1>6, <1>7

(* The newest rows are rows, and not more than the limit. *)
LEMMA NewestRows ==
    ASSUME NEW s \in Seq(Entry)
    PROVE  /\ Newest(s) \in Seq(Entry)
           /\ Len(Newest(s)) <= MaxLogRows /\ Len(Newest(s)) <= Len(s)
           /\ Len(Newest(s)) \in Nat
<1>1. CASE Len(s) <= MaxLogRows
      BY <1>1 DEF Newest
<1>2. CASE Len(s) > MaxLogRows
  <2> DEFINE m == Len(s) - MaxLogRows + 1
             n == Len(s)
  <2>1. m \in Int /\ n \in Int /\ m >= 1 /\ m <= n /\ n - m + 1 = MaxLogRows /\ MaxLogRows \in Nat
        BY <1>2, BoundTypes
  <2>2. \A i \in m .. n : s[i] \in Entry
        BY <2>1
  <2>3. Newest(s) = SubSeq(s, m, n)
        BY <1>2, BoundTypes DEF Newest
  <2> HIDE DEF m, n
  <2>4. Newest(s) \in Seq(Entry) /\ Len(Newest(s)) = MaxLogRows
        BY <2>1, <2>2, <2>3, SubSeqProperties
  <2> QED
      BY <1>2, <2>1, <2>4
<1> QED
    BY <1>1, <1>2, BoundTypes

LEMMA TrimInv ==
    ASSUME Inv, NEW ok \in BOOLEAN, trimIfNeeded(ok)
    PROVE  Inv'
<1> USE DEF Inv
<1>1. /\ writer = "trim" /\ writer' = AfterDrain /\ tx = <<>>
      /\ UNCHANGED <<m_queue, batch, tx, seen, m_running, last,
                     s_instance, main, thread, before>>
      BY DEF trimIfNeeded, WriterOnly, DrainInv, queue
<1>2. writer' \in {"check", "closed"} /\ (writer' = "closed" <=> last) /\ batch = <<>>
      BY <1>1 DEF AfterDrain, DrainInv
<1>3. counts' \in Counts /\ counts'.entries = counts.entries
      BY NumberTypes, CountsStep DEF trimIfNeeded
<1>4. /\ m_rowCount \in Nat /\ uncounted \in Nat /\ Len(logs) \in Nat /\ Len(tx) = 0
      /\ Len(logs) <= m_rowCount + uncounted
      /\ main = "clearing" => Len(logs) <= uncounted
      BY <1>1, NumberTypes DEF TypeOK, RowsInv, Rows, Looping, Counted
<1>5. /\ logs' \in Seq(Entry) /\ m_rowCount' \in Nat /\ trimmed' \in BOOLEAN
      /\ Len(logs') \in Nat /\ uncounted' \in Nat
      /\ Len(logs') <= m_rowCount' + uncounted' /\ Len(logs') <= Len(logs)
      /\ trimmed' => Len(logs') <= MaxLogRows + uncounted'
      /\ main = "clearing" => uncounted' = uncounted
  <2>1. CASE m_rowCount <= MaxLogRows
    <3>1. trimmed' = TRUE /\ UNCHANGED <<logs, m_rowCount, uncounted>>
          BY <2>1 DEF trimIfNeeded
    <3> QED
        BY <1>4, <2>1, <3>1, BoundTypes DEF TypeOK
  <2>2. CASE m_rowCount > MaxLogRows
    <3>1. /\ logs' = IF ok THEN Newest(logs) ELSE logs
          /\ m_rowCount' = IF ok THEN MaxLogRows ELSE m_rowCount
          /\ uncounted' = IF ok /\ main # "clearing" THEN 0 ELSE uncounted
          /\ trimmed' = ok
          BY <1>4, <2>2, BoundTypes DEF trimIfNeeded
    <3>2. CASE ok
          BY <1>4, <3>1, <3>2, BoundTypes, NewestRows DEF TypeOK
    <3>3. CASE ~ok
          BY <1>4, <3>1, <3>3 DEF TypeOK
    <3> QED
        BY <3>2, <3>3
  <2> QED
      BY <1>4, <2>1, <2>2, BoundTypes
<1>6. TypeOK'
      BY <1>1, <1>2, <1>3, <1>5 DEF TypeOK, Counts, WriterState
<1>7. DrainInv' /\ FlushInv'
  <2>1. DrainInv'
        BY <1>1, <1>2 DEF DrainInv
  <2>2. FlushInv'
        BY <1>1, <1>2, <1>3 DEF FlushInv, Looping, Drained
  <2> QED
      BY <2>1, <2>2
<1>8. RowsInv'
  <2>1. Rows' = Len(logs')
        BY <1>1, <1>4, <1>5 DEF Rows
  <2>2. main' = "clearing" => Rows' <= uncounted'
        BY <1>1, <1>4, <1>5, <2>1
  <2> QED
      BY <1>1, <1>2, <1>5, <2>1, <2>2 DEF RowsInv, Looping, Counted
<1> QED
    BY <1>6, <1>7, <1>8

(* Every step of the specification preserves the invariant. *)
LEMMA StepInv == Inv /\ [Next]_vars => Inv'
<1> SUFFICES ASSUME Inv, [Next]_vars PROVE Inv'
    OBVIOUS
<1>1. CASE UNCHANGED vars
      BY <1>1 DEF vars, queue, Inv, TypeOK, DrainInv, FlushInv, RowsInv, Rows
<1>2. CASE initialize \/ ClearRows \/ ClearCount \/ shutdown \/ DeleteInstance
      BY <1>2, MainInv
<1>3. CASE ProcessEnds
      BY <1>3, EndInv
<1>4. CASE \E t \in Thread : LogStarts(t) \/ pushEntry(t)
      BY <1>4, LogInv
<1>5. CASE Writer
      BY <1>5, OpenInv, LoopInv, TakeInv, InsertInv, CommitInv, TrimInv DEF Writer, Outcome
<1> QED
    BY <1>1, <1>2, <1>3, <1>4, <1>5 DEF Next

(***************************************************************************)
(* The inductive invariant holds in every interleaving of the writer with  *)
(* the threads that log and the main thread, whatever fails.               *)
(***************************************************************************)
THEOREM Invariant == Spec => []Inv
  BY InitInv, StepInv, PTL DEF Spec

(***************************************************************************)
(* After a trim the writer never goes to sleep with more rows than the     *)
(* limit, but for those that are not counted.                              *)
(***************************************************************************)
THEOREM RowsAreBounded == Spec => []RowsBounded
<1>1. Inv => RowsBounded
      BY DEF Inv, RowsInv, RowsBounded
<1> QED
    BY <1>1, Invariant, PTL

(***************************************************************************)
(* When shutdown() has returned, nothing that was logged before it was     *)
(* called is left in the queue of a writer that had opened its table.      *)
(***************************************************************************)
THEOREM ShutdownFlushes == Spec => []FlushedAtExit
<1>1. Inv => FlushedAtExit
      BY DEF Inv, FlushInv, FlushedAtExit, Drained
<1> QED
    BY <1>1, Invariant, PTL
-----------------------------------------------------------------------------
(***************************************************************************)
(* The refinement.  An entry that is pushed is appended to what is         *)
(* pending; one that goes from the batch into the transaction stays where  *)
(* it is; a failed INSERT takes out the one after the transaction; COMMIT  *)
(* takes the transaction off the front, whether it succeeds or not.        *)
(***************************************************************************)
LEMMA PushedIsLast ==
    ASSUME NEW s \in Seq(Entry), NEW q \in Seq(Entry), NEW e \in Entry
    PROVE  s \o Append(q, e) = Append(s \o q, e)
<1>1. s \o q \in Seq(Entry) /\ <<e>> \in Seq(Entry)
      BY ConcatProperties
<1>2. Append(q, e) = q \o <<e>> /\ Append(s \o q, e) = (s \o q) \o <<e>>
      BY <1>1, AppendIsConcat
<1> QED
    BY <1>1, <1>2, ConcatAssociative

LEMMA MovedStays ==
    ASSUME NEW s \in Seq(Entry), NEW t \in Seq(Entry), t # <<>>
    PROVE  Append(s, Head(t)) \o Tail(t) = s \o t
<1> DEFINE a == Append(s, Head(t))
           x == a \o Tail(t)
           y == s \o t
<1>1. /\ Len(s) \in Nat /\ Len(t) \in Nat /\ Len(t) >= 1
      /\ Head(t) \in Entry /\ Head(t) = t[1] /\ Tail(t) \in Seq(Entry) /\ Len(Tail(t)) = Len(t) - 1
      /\ \A i \in 1 .. Len(t) - 1 : Tail(t)[i] = t[i + 1]
      BY HeadTailProperties, EmptySeq
<1>2. /\ a \in Seq(Entry) /\ Len(a) = Len(s) + 1 /\ a[Len(s) + 1] = t[1]
      /\ \A i \in 1 .. Len(s) : a[i] = s[i]
      BY <1>1, AppendProperties
<1> HIDE DEF a
<1>3. /\ x \in Seq(Entry) /\ Len(x) = Len(s) + Len(t)
      /\ \A i \in 1 .. Len(s) + Len(t) :
            x[i] = IF i <= Len(s) + 1 THEN a[i] ELSE Tail(t)[i - (Len(s) + 1)]
  <2>1. /\ x \in Seq(Entry) /\ Len(x) = Len(a) + Len(Tail(t))
        /\ \A i \in 1 .. Len(a) + Len(Tail(t)) :
              x[i] = IF i <= Len(a) THEN a[i] ELSE Tail(t)[i - Len(a)]
        BY <1>1, <1>2, ConcatProperties
  <2>2. Len(a) + Len(Tail(t)) = Len(s) + Len(t)
        BY <1>1, <1>2
  <2> HIDE DEF x
  <2> QED
      BY <1>2, <2>1, <2>2
<1>4. /\ y \in Seq(Entry) /\ Len(y) = Len(s) + Len(t)
      /\ \A i \in 1 .. Len(s) + Len(t) : y[i] = IF i <= Len(s) THEN s[i] ELSE t[i - Len(s)]
      BY ConcatProperties
<1> HIDE DEF x, y
<1>5. ASSUME NEW i \in 1 .. Len(x) PROVE x[i] = y[i]
  <2>1. CASE i <= Len(s)
        BY <1>1, <1>2, <1>3, <1>4, <2>1
  <2>2. CASE i = Len(s) + 1
        BY <1>1, <1>2, <1>3, <1>4, <2>2
  <2>3. CASE i > Len(s) + 1
    <3>1. i - (Len(s) + 1) \in 1 .. Len(t) - 1 /\ i - (Len(s) + 1) + 1 = i - Len(s)
          BY <1>1, <1>3, <2>3
    <3>2. x[i] = Tail(t)[i - (Len(s) + 1)] /\ y[i] = t[i - Len(s)]
          BY <1>1, <1>3, <1>4, <2>3
    <3> QED
        BY <1>1, <3>1, <3>2
  <2> QED
      BY <1>1, <1>3, <2>1, <2>2, <2>3
<1>6. x = y
      BY <1>3, <1>4, <1>5, SeqEqual
<1> QED
    BY <1>6 DEF x, y, a

LEMMA DroppedIsRemoved ==
    ASSUME NEW s \in Seq(Entry), NEW t \in Seq(Entry), t # <<>>
    PROVE  s \o Tail(t) = SubSeq(s \o t, 1, Len(s)) \o SubSeq(s \o t, Len(s) + 2, Len(s \o t))
<1> DEFINE n == Len(s)
           y == s \o t
<1>1. /\ n \in Nat /\ Len(t) \in Nat /\ Len(t) >= 1
      /\ y \in Seq(Entry) /\ Len(y) = n + Len(t)
      /\ \A i \in 1 .. Len(y) : y[i] \in Entry
      BY ConcatProperties, EmptySeq
<1>2. SubSeq(y, 1, n) = s
      BY <1>1, SubSeqFull, SubSeqOfConcat1, SubSeqEmpty DEF y
<1>3. SubSeq(y, n + 2, Len(y)) = Tail(t)
  <2>1. Tail(t) = SubSeq(t, 2, Len(t))
        BY TailIsSubSeq
  <2>2. CASE Len(t) = 1
    <3>1. SubSeq(t, 2, Len(t)) = <<>>
          BY <2>2, SubSeqEmpty
    <3>2. SubSeq(y, n + 2, Len(y)) = <<>>
          BY <1>1, <2>2, SubSeqEmpty
    <3> QED
        BY <2>1, <3>1, <3>2
  <2>3. CASE Len(t) > 1
    <3>1. /\ n + 2 \in Len(s) + 1 .. Len(s) + Len(t)
          /\ Len(y) \in Len(s) + 1 .. Len(s) + Len(t)
          /\ n + 2 - Len(s) = 2 /\ Len(y) - Len(s) = Len(t)
          BY <1>1, <2>3
    <3> QED
        BY <2>1, <3>1, SubSeqOfConcat2 DEF y
  <2> QED
      BY <1>1, <2>2, <2>3
<1> QED
    BY <1>2, <1>3

LEMMA TailOfConcat ==
    ASSUME NEW s \in Seq(Entry), NEW t \in Seq(Entry), s # <<>>
    PROVE  /\ s \o t \in Seq(Entry) /\ s \o t # <<>>
           /\ Tail(s \o t) = Tail(s) \o t
<1> DEFINE y == s \o t
           x == Tail(s) \o t
           z == Tail(y)
<1>1. /\ Len(s) \in Nat /\ Len(s) >= 1 /\ Len(t) \in Nat
      /\ Tail(s) \in Seq(Entry) /\ Len(Tail(s)) = Len(s) - 1
      /\ \A i \in 1 .. Len(s) - 1 : Tail(s)[i] = s[i + 1]
      BY HeadTailProperties, EmptySeq
<1>2. /\ y \in Seq(Entry) /\ Len(y) = Len(s) + Len(t)
      /\ \A i \in 1 .. Len(s) + Len(t) : y[i] = IF i <= Len(s) THEN s[i] ELSE t[i - Len(s)]
      BY ConcatProperties
<1>3. /\ x \in Seq(Entry) /\ Len(x) = Len(s) - 1 + Len(t)
      /\ \A i \in 1 .. Len(s) - 1 + Len(t) :
            x[i] = IF i <= Len(s) - 1 THEN Tail(s)[i] ELSE t[i - (Len(s) - 1)]
  <2>1. /\ x \in Seq(Entry) /\ Len(x) = Len(Tail(s)) + Len(t)
        /\ \A i \in 1 .. Len(Tail(s)) + Len(t) :
              x[i] = IF i <= Len(Tail(s)) THEN Tail(s)[i] ELSE t[i - Len(Tail(s))]
        BY <1>1, ConcatProperties
  <2> HIDE DEF x
  <2> QED
      BY <1>1, <2>1
<1> HIDE DEF x, y
<1>4. y # <<>>
      BY <1>1, <1>2, EmptySeq
<1>5. /\ z \in Seq(Entry) /\ Len(z) = Len(s) - 1 + Len(t)
      /\ \A i \in 1 .. Len(s) - 1 + Len(t) : z[i] = y[i + 1]
  <2>1. /\ z \in Seq(Entry) /\ Len(z) = Len(y) - 1
        /\ \A i \in 1 .. Len(z) : z[i] = y[i + 1]
        BY <1>2, <1>4, HeadTailProperties
  <2> HIDE DEF z
  <2> QED
      BY <1>1, <1>2, <2>1
<1> HIDE DEF z
<1>6. ASSUME NEW i \in 1 .. Len(z) PROVE z[i] = x[i]
  <2>1. /\ i \in Nat /\ i + 1 \in 1 .. Len(s) + Len(t) /\ z[i] = y[i + 1]
        /\ i + 1 - Len(s) = i - (Len(s) - 1)
        BY <1>1, <1>5
  <2>2. CASE i + 1 <= Len(s)
        BY <1>1, <1>2, <1>3, <1>5, <2>1, <2>2
  <2>3. CASE i + 1 > Len(s)
    <3>1. y[i + 1] = t[i + 1 - Len(s)]
          BY <1>1, <1>2, <2>1, <2>3
    <3>2. x[i] = t[i - (Len(s) - 1)]
          BY <1>1, <1>3, <1>5, <2>1, <2>3
    <3> QED
        BY <2>1, <3>1, <3>2
  <2> QED
      BY <1>1, <2>1, <2>2, <2>3
<1>7. z = x
      BY <1>3, <1>5, <1>6, SeqEqual
<1> QED
    BY <1>2, <1>4, <1>7 DEF x, y, z

LEMMA StoredIsFirst ==
    ASSUME NEW s \in Seq(Entry), NEW t \in Seq(Entry), s # <<>>
    PROVE  /\ SubSeq(s \o t, 1, Len(s)) = s
           /\ SubSeq(s \o t, Len(s) + 1, Len(s \o t)) = t
<1>1. Len(s) \in Nat /\ Len(s) >= 1 /\ Len(t) \in Nat /\ Len(s \o t) = Len(s) + Len(t)
      BY ConcatProperties, EmptySeq
<1>2. SubSeq(s \o t, 1, Len(s)) = s
      BY <1>1, SubSeqOfConcat1, SubSeqFull
<1>3. CASE t = <<>>
      BY <1>1, <1>3, SubSeqEmpty
<1>4. CASE t # <<>>
  <2>1. Len(t) >= 1
        BY <1>4, EmptySeq
  <2>2. /\ Len(s) + 1 \in Len(s) + 1 .. Len(s) + Len(t)
        /\ Len(s) + Len(t) \in Len(s) + 1 .. Len(s) + Len(t)
        /\ Len(s) + 1 - Len(s) = 1 /\ Len(s) + Len(t) - Len(s) = Len(t)
        BY <1>1, <2>1
  <2>3. SubSeq(s \o t, Len(s) + 1, Len(s) + Len(t)) = SubSeq(t, 1, Len(t))
        BY <2>2, SubSeqOfConcat2
  <2> QED
      BY <1>1, <2>3, SubSeqFull
<1> QED
    BY <1>2, <1>3, <1>4

(* Every step of the logger is a step of LogStore, or changes neither what *)
(* is pending nor the rows.                                                *)
LEMMA PendingUnchanged ==
    ASSUME UNCHANGED <<tx, batch, m_queue, logs>>
    PROVE  UNCHANGED Store!vars
  BY DEF Store!vars

LEMMA PushStep ==
    ASSUME Inv, NEW t \in Thread, pushEntry(t)
    PROVE  [Store!Next]_(Store!vars)
<1>1. CASE s_instance /\ counts.entries < MaxEntries
  <2>1. PICK e \in Entry : m_queue' = Append(m_queue, e)
    <3>1. counts.entries + 1 \in Entry
          BY <1>1, BoundTypes DEF Inv, TypeOK, Entry
    <3> QED
        BY <1>1, <3>1 DEF pushEntry
  <2>2. UNCHANGED <<tx, batch, logs>>
        BY DEF pushEntry
  <2>3. tx \o batch \in Seq(Entry) /\ m_queue \in Seq(Entry)
        BY ConcatProperties DEF Inv, TypeOK
  <2>4. tx' \o batch' \o m_queue' = Append(tx \o batch \o m_queue, e)
        BY <2>1, <2>2, <2>3, PushedIsLast
  <2>5. Store!Log(e)
        BY <2>2, <2>4 DEF Store!Log
  <2> QED
      BY <2>5 DEF Store!Next
<1>2. CASE ~(s_instance /\ counts.entries < MaxEntries)
      BY <1>2, PendingUnchanged DEF pushEntry
<1> QED
    BY <1>1, <1>2

LEMMA TakeStep ==
    ASSUME Inv, Take
    PROVE  UNCHANGED Store!vars
<1>1. /\ batch = <<>> /\ batch' = m_queue /\ m_queue' = <<>> /\ tx' = tx /\ logs' = logs
      BY DEF Inv, DrainInv, Take
<1>2. /\ tx \o batch = tx
      /\ (tx \o m_queue) \o <<>> = tx \o m_queue
      BY <1>1, ConcatEmptySeq, ConcatProperties DEF Inv, TypeOK
<1> QED
    BY <1>1, <1>2 DEF Store!vars

LEMMA InsertStep ==
    ASSUME Inv, NEW ok \in BOOLEAN, Insert(ok)
    PROVE  [Store!Next]_(Store!vars)
<1>1. /\ tx \in Seq(Entry) /\ batch \in Seq(Entry) /\ m_queue \in Seq(Entry) /\ batch # <<>>
      BY DEF Inv, DrainInv, TypeOK, Insert
<1>2. /\ batch' = Tail(batch) /\ m_queue' = m_queue /\ logs' = logs
      /\ tx' = IF ok THEN Append(tx, Head(batch)) ELSE tx
      BY DEF Insert
<1>3. CASE ok
  <2>1. tx' \o batch' = tx \o batch
        BY <1>1, <1>2, <1>3, MovedStays
  <2> QED
      BY <1>2, <2>1 DEF Store!vars
<1>4. CASE ~ok
  <2> DEFINE b == batch \o m_queue
             p == tx \o batch \o m_queue
  <2>1. p = tx \o b
        BY <1>1, ConcatAssociative
  <2>2. /\ b \in Seq(Entry) /\ b # <<>> /\ Tail(b) = Tail(batch) \o m_queue
        BY <1>1, TailOfConcat
  <2>3. tx' \o batch' \o m_queue' = tx \o Tail(b)
    <3>1. Tail(batch) \in Seq(Entry)
          BY <1>1
    <3>2. (tx \o Tail(batch)) \o m_queue = tx \o (Tail(batch) \o m_queue)
          BY <1>1, <3>1, ConcatAssociative
    <3>3. tx' = tx /\ batch' = Tail(batch) /\ m_queue' = m_queue
          BY <1>2, <1>4
    <3> HIDE DEF b
    <3> QED
        BY <2>2, <3>2, <3>3
  <2>4. tx \o Tail(b) = SubSeq(tx \o b, 1, Len(tx)) \o SubSeq(tx \o b, Len(tx) + 2, Len(tx \o b))
        BY <1>1, <2>2, DroppedIsRemoved
  <2>5. /\ Len(tx) + 1 \in 1 .. Len(p)
        /\ Len(tx) + 1 - 1 = Len(tx) /\ Len(tx) + 1 + 1 = Len(tx) + 2
    <3>1. Len(tx) \in Nat /\ Len(b) \in Nat \ {0} /\ Len(tx \o b) = Len(tx) + Len(b)
          BY <1>1, <2>2, ConcatProperties, EmptySeq
    <3> QED
        BY <2>1, <3>1
  <2>6. Store!Drop(Len(tx) + 1, Len(tx) + 1)
    <3> DEFINE n == Len(tx) + 1
    <3>1. n - 1 = Len(tx) /\ n + 1 = Len(tx) + 2
          BY <2>5
    <3> HIDE DEF n
    <3>2. tx' \o batch' \o m_queue' = SubSeq(p, 1, n - 1) \o SubSeq(p, n + 1, Len(p))
      <4> HIDE DEF b, p
      <4> QED
          BY <2>1, <2>3, <2>4, <3>1, Zenon
    <3>3. Store!Drop(n, n)
          BY <1>2, <3>2 DEF Store!Drop
    <3> QED
        BY <3>3 DEF n
  <2>7. Len(tx) + 1 <= Len(tx) + 1
        BY <2>5
  <2> QED
      BY <2>5, <2>6, <2>7 DEF Store!Next
<1> QED
    BY <1>3, <1>4

LEMMA CommitStep ==
    ASSUME Inv, NEW ok \in BOOLEAN, Commit(ok)
    PROVE  [Store!Next]_(Store!vars)
<1>1. /\ tx \in Seq(Entry) /\ batch \in Seq(Entry) /\ m_queue \in Seq(Entry)
      /\ logs \in Seq(Entry)
      BY DEF Inv, TypeOK
<1>2. /\ batch' = batch /\ m_queue' = m_queue /\ tx' = <<>>
      /\ logs' = IF ok THEN logs \o tx ELSE logs
      BY DEF Commit
<1>3. CASE tx = <<>>
  <2>1. logs \o tx = logs
        BY <1>1, <1>3, ConcatEmptySeq
  <2> QED
      BY <1>2, <1>3, <2>1 DEF Store!vars
<1>4. CASE tx # <<>>
  <2> DEFINE b == batch \o m_queue
             p == tx \o batch \o m_queue
  <2>1. b \in Seq(Entry) /\ p = tx \o b
        BY <1>1, ConcatAssociative, ConcatProperties
  <2>2. tx' \o batch' \o m_queue' = b
        BY <1>1, <1>2, ConcatEmptySeq
  <2>3. SubSeq(p, 1, Len(tx)) = tx /\ SubSeq(p, Len(tx) + 1, Len(p)) = b
    <3> HIDE DEF b, p
    <3> QED
        BY <1>1, <1>4, <2>1, StoredIsFirst
  <2>4. Len(tx) \in 1 .. Len(p)
    <3>1. Len(tx) \in Nat \ {0} /\ Len(b) \in Nat /\ Len(tx \o b) = Len(tx) + Len(b)
          BY <1>1, <1>4, <2>1, ConcatProperties, EmptySeq
    <3> QED
        BY <2>1, <3>1
  <2>5. CASE ok
    <3>1. Store!Store(Len(tx))
          BY <1>2, <2>2, <2>3, <2>5 DEF Store!Store
    <3> QED
        BY <2>4, <3>1 DEF Store!Next
  <2>6. CASE ~ok
    <3>1. 1 - 1 = 0 /\ SubSeq(p, 1, 0) = <<>> /\ <<>> \o b = b
          BY <2>1, SubSeqEmpty, ConcatEmptySeq
    <3> HIDE DEF b, p
    <3>2. b = SubSeq(p, 1, 1 - 1) \o SubSeq(p, Len(tx) + 1, Len(p))
          BY <2>3, <3>1
    <3>3. Store!Drop(1, Len(tx))
          BY <1>2, <2>2, <2>6, <3>2 DEF Store!Drop, p
    <3>4. 1 \in 1 .. Len(p) /\ 1 <= Len(tx)
      <4>1. Len(p) \in Nat
            BY <1>1, <2>1, ConcatProperties DEF b
      <4> QED
          BY <2>4, <4>1
    <3> QED
        BY <2>4, <3>3, <3>4 DEF Store!Next, p
  <2> QED
      BY <2>5, <2>6
<1> QED
    BY <1>3, <1>4

LEMMA TrimStep ==
    ASSUME Inv, NEW ok \in BOOLEAN, trimIfNeeded(ok)
    PROVE  [Store!Next]_(Store!vars)
<1>1. UNCHANGED <<tx, batch, m_queue>>
      BY DEF trimIfNeeded, queue
<1>2. UNCHANGED (tx \o batch \o m_queue)
      BY <1>1
<1>3. CASE logs' = logs
      BY <1>1, <1>3, PendingUnchanged
<1>4. CASE logs' # logs
  <2>1. /\ Len(logs) > MaxLogRows
        /\ logs' = SubSeq(logs, Len(logs) - MaxLogRows + 1, Len(logs))
    <3>1. logs' = Newest(logs) /\ Newest(logs) # logs
          BY <1>4 DEF trimIfNeeded
    <3>2. Len(logs) \in Nat
          BY DEF Inv, TypeOK
    <3> QED
        BY <3>1, <3>2, BoundTypes DEF Newest
  <2>2. Store!Trim
        BY <1>2, <2>1 DEF Store!Trim
  <2> QED
      BY <2>2 DEF Store!Next
<1> QED
    BY <1>3, <1>4

LEMMA StoreStep == Inv /\ [Next]_vars => [Store!Next]_(Store!vars)
<1> SUFFICES ASSUME Inv, [Next]_vars PROVE [Store!Next]_(Store!vars)
    OBVIOUS
<1>1. CASE \/ UNCHANGED vars \/ initialize \/ ClearCount \/ shutdown \/ DeleteInstance
           \/ \E t \in Thread : LogStarts(t)
           \/ \E outcome \in Outcome : Open(outcome)
           \/ Running \/ Check \/ Count
  <2>1. UNCHANGED <<tx, batch, m_queue, logs>>
        BY <1>1 DEF vars, queue, initialize, ClearCount, shutdown, DeleteInstance, LogStarts,
                    Open, Running, Check, Count
  <2> QED
      BY <2>1, PendingUnchanged
<1>2. CASE ClearRows
  <2>1. Store!Clear
        BY <1>2 DEF ClearRows, queue, Store!Clear
  <2> QED
      BY <2>1 DEF Store!Next
<1>3. CASE ProcessEnds
  <2>1. <<>> \in Seq(Entry)
        OBVIOUS
  <2>2. tx' \o batch' \o m_queue' = <<>>
    <3>1. tx' = <<>> /\ batch' = <<>> /\ m_queue' = <<>>
          BY <1>3 DEF ProcessEnds
    <3> QED
        BY <2>1, <3>1, ConcatEmptySeq
  <2>3. Store!Forget
        BY <1>3, <2>2 DEF ProcessEnds, Store!Forget
  <2> QED
      BY <2>3 DEF Store!Next
<1>4. CASE \E t \in Thread : pushEntry(t)
      BY <1>4, PushStep
<1>5. CASE Take
      BY <1>5, TakeStep
<1>6. CASE \E ok \in BOOLEAN : Insert(ok)
      BY <1>6, InsertStep
<1>7. CASE \E ok \in BOOLEAN : Commit(ok)
      BY <1>7, CommitStep
<1>8. CASE \E ok \in BOOLEAN : trimIfNeeded(ok)
      BY <1>8, TrimStep
<1> QED
    BY <1>1, <1>2, <1>3, <1>4, <1>5, <1>6, <1>7, <1>8 DEF Next, Writer, Outcome

(***************************************************************************)
(* The logger keeps what LogStore promises: entries become rows in the     *)
(* order they were logged and once at most, whatever the interleaving of   *)
(* pushEntry(), drain(), trimIfNeeded() and clearAll(), and whatever fails *)
(* or crashes; rows go oldest first, or all together.                      *)
(***************************************************************************)
THEOREM ImplementsLogStore == Spec => StoreSpec
<1>1. Init => Store!Init
  <2> SUFFICES ASSUME Init PROVE Store!Init
      OBVIOUS
  <2>1. tx = <<>> /\ batch = <<>> /\ m_queue = <<>> /\ logs = <<>>
        BY DEF Init
  <2>2. <<>> \in Seq(Entry)
        OBVIOUS
  <2>3. tx \o batch \o m_queue = <<>>
        BY <2>1, <2>2, ConcatEmptySeq
  <2> QED
      BY <2>1, <2>3 DEF Store!Init
<1> QED
    BY <1>1, StoreStep, Invariant, PTL DEF Spec, StoreSpec, Store!Spec
=============================================================================
