------------------------------- MODULE Logger -------------------------------
(***************************************************************************)
(* The logger: threads put entries into a queue, a writer thread moves     *)
(* them into table logs and trims it, and the main thread starts, clears   *)
(* and shuts it down.                                                      *)
(*                                                                         *)
(* An entry is its number in the order of logging; levels, timestamps and  *)
(* debug output are left out, as are fetch() and count(), which only read. *)
(* The main thread logs like every other thread.  The process may end at   *)
(* any point and is started again.                                         *)
(***************************************************************************)
EXTENDS Naturals, Sequences, FiniteSets

CONSTANTS
    Thread,       \* threads that log
    MaxLogRows,   \* m_maxLogRows
    MaxEntries,   \* bound: entries logged
    MaxStarts,    \* bound: starts of the process
    MaxClears,    \* bound: calls of clearAll()
    MaxFailures   \* bound: statements of the writer that fail

ASSUME LoggerAssumption ==
    /\ MaxLogRows \in Nat \ {0}
    /\ {MaxEntries, MaxStarts, MaxClears, MaxFailures} \subseteq Nat

Entry == 1 .. MaxEntries

VARIABLES
    m_queue,     \* Logger::m_queue
    batch,       \* drain(): entries taken and not yet inserted
    tx,          \* drain(): entries inserted and not yet committed
    logs,        \* table logs
    m_rowCount,
    seen,        \* the value ++m_rowCount has read
    m_running,
    s_instance,  \* s_instance # nullptr
    writer,      \* where run() is
    last,        \* this drain() is the one after the loop
    main,        \* what the main thread does
    thread,      \* where log() is in each thread
    counts,      \* entries, starts, clears and failures so far
    uncounted,   \* history: rows m_rowCount may miss: those inserted between
                 \* clearAll()'s DELETE and its reset of m_rowCount, and those
                 \* of earlier starts if SELECT COUNT failed
    before,      \* history: entries logged when shutdown() was called
    trimmed      \* history: the last trim of this start succeeded

queue == <<m_queue, batch, tx>>
vars  == <<queue, logs, m_rowCount, seen, m_running, s_instance, writer, last, main,
           thread, counts, uncounted, before, trimmed>>

WriterState == {"off", "opening", "ready", "check", "take", "insert", "count", "commit",
                "trim", "closed", "failed"}

TypeOK ==
    /\ m_queue \in Seq(Entry) /\ batch \in Seq(Entry)
    /\ tx \in Seq(Entry) /\ logs \in Seq(Entry)
    /\ m_rowCount \in Nat /\ seen \in Nat
    /\ m_running \in BOOLEAN /\ s_instance \in BOOLEAN
    /\ last \in BOOLEAN /\ trimmed \in BOOLEAN
    /\ writer \in WriterState
    /\ main \in {"off", "run", "clearing", "waiting", "done"}
    /\ thread \in [Thread -> {"idle", "pushing"}]
    /\ counts \in [entries: 0 .. MaxEntries, starts: 0 .. MaxStarts,
                   clears: 0 .. MaxClears, failures: 0 .. MaxFailures]
    /\ uncounted \in Nat /\ before \in Nat

Init ==
    /\ m_queue = <<>> /\ batch = <<>> /\ tx = <<>> /\ logs = <<>>
    /\ m_rowCount = 0 /\ seen = 0
    /\ m_running = FALSE /\ s_instance = FALSE
    /\ writer = "off" /\ last = FALSE
    /\ main = "off"
    /\ thread = [t \in Thread |-> "idle"]
    /\ counts = [entries |-> 0, starts |-> 0, clears |-> 0, failures |-> 0]
    /\ uncounted = 0 /\ before = 0 /\ trimmed = FALSE
-----------------------------------------------------------------------------
(* The main thread *)

initialize ==
    /\ main = "off"
    /\ counts.starts < MaxStarts
    /\ counts' = [counts EXCEPT !.starts = @ + 1]
    /\ main' = "run"
    /\ s_instance' = TRUE
    /\ writer' = "opening"
    /\ UNCHANGED <<queue, logs, m_rowCount, seen, m_running, last, thread, uncounted, before, trimmed>>

(* clearAll(): the DELETE waits for the transaction of drain() to end. *)
ClearRows ==
    /\ main = "run"
    /\ counts.clears < MaxClears
    /\ tx = <<>>
    /\ counts' = [counts EXCEPT !.clears = @ + 1]
    /\ logs' = <<>>
    /\ uncounted' = 0
    /\ main' = "clearing"
    /\ UNCHANGED <<queue, m_rowCount, seen, m_running, s_instance, writer, last, thread, before, trimmed>>

ClearCount ==
    /\ main = "clearing"
    /\ m_rowCount' = 0
    /\ main' = "run"
    /\ UNCHANGED <<queue, logs, seen, m_running, s_instance, writer, last, thread, counts, uncounted, before, trimmed>>

shutdown ==
    /\ main = "run"
    /\ main' = "waiting"
    /\ m_running' = FALSE
    /\ before' = counts.entries
    /\ UNCHANGED <<queue, logs, m_rowCount, seen, s_instance, writer, last, thread, counts, uncounted, trimmed>>

(* wait() has returned: the object goes, and what is in its queue with it. *)
DeleteInstance ==
    /\ main = "waiting"
    /\ writer \in {"closed", "failed"}
    /\ main' = "done"
    /\ s_instance' = FALSE
    /\ UNCHANGED <<queue, logs, m_rowCount, seen, m_running, writer, last, thread, counts, uncounted, before, trimmed>>

(* The process ends, after main() or at any other point: rows remain. *)
ProcessEnds ==
    /\ main # "off"
    /\ main' = "off" /\ writer' = "off"
    /\ m_queue' = <<>> /\ batch' = <<>> /\ tx' = <<>>
    /\ m_rowCount' = 0 /\ seen' = 0
    /\ m_running' = FALSE /\ s_instance' = FALSE /\ last' = FALSE
    /\ thread' = [t \in Thread |-> "idle"]
    /\ uncounted' = 0 /\ before' = 0 /\ trimmed' = FALSE
    /\ UNCHANGED <<logs, counts>>
-----------------------------------------------------------------------------
(* log() in any thread: the instance is looked at first, without a lock.   *)

LogStarts(t) ==
    /\ thread[t] = "idle"
    /\ s_instance
    /\ counts.entries < MaxEntries
    /\ thread' = [thread EXCEPT ![t] = "pushing"]
    /\ UNCHANGED <<queue, logs, m_rowCount, seen, m_running, s_instance, writer, last, main,
                   counts, uncounted, before, trimmed>>

(* pushEntry(); on an instance that is gone its effect is undefined, and   *)
(* here it has none.                                                       *)
pushEntry(t) ==
    /\ thread[t] = "pushing"
    /\ thread' = [thread EXCEPT ![t] = "idle"]
    /\ IF s_instance /\ counts.entries < MaxEntries
       THEN /\ counts' = [counts EXCEPT !.entries = @ + 1]
            /\ m_queue' = Append(m_queue, counts.entries + 1)
       ELSE UNCHANGED <<counts, m_queue>>
    /\ UNCHANGED <<batch, tx, logs, m_rowCount, seen, m_running, s_instance, writer, last, main,
                   uncounted, before, trimmed>>
-----------------------------------------------------------------------------
(* The writer thread: run(), drain(), trimIfNeeded() *)

WriterOnly == UNCHANGED <<s_instance, main, thread, before>>

Statement(ok) ==
    /\ ok \/ counts.failures < MaxFailures
    /\ counts' = IF ok THEN counts ELSE [counts EXCEPT !.failures = @ + 1]

(* Variant: the rows of earlier starts are not counted. *)
OpenWithoutCount(outcome) ==
    /\ writer = "opening"
    /\ Statement(outcome = "counted")
    /\ writer' = IF outcome = "failed" THEN "failed" ELSE "ready"
    /\ WriterOnly
    /\ UNCHANGED <<queue, logs, m_rowCount, seen, m_running, last, uncounted, trimmed>>

(***************************************************************************)
(* run() up to the loop: a database that cannot be opened ends the thread. *)
(* A CREATE or SELECT COUNT that fails does not: m_rowCount stays 0.  (If  *)
(* there is no table then, every INSERT fails as well.)                    *)
(***************************************************************************)
Open(outcome) ==
    /\ writer = "opening"
    /\ Statement(outcome = "counted")
    /\ writer' = IF outcome = "failed" THEN "failed" ELSE "ready"
    /\ m_rowCount' = IF outcome = "counted" THEN Len(logs) ELSE m_rowCount
    /\ uncounted' = IF outcome = "uncounted" THEN Len(logs) ELSE uncounted
    /\ WriterOnly
    /\ UNCHANGED <<queue, logs, seen, m_running, last, trimmed>>

(* m_running is set whatever shutdown() may have done to it. *)
Running ==
    /\ writer = "ready"
    /\ m_running' = TRUE
    /\ writer' = "check"
    /\ WriterOnly
    /\ UNCHANGED <<queue, logs, m_rowCount, seen, last, counts, uncounted, trimmed>>

(* Variant: the thread ends with the loop. *)
CheckThenClose ==
    /\ writer = "check"
    /\ last' = FALSE
    /\ writer' = IF m_running THEN "take" ELSE "closed"
    /\ WriterOnly
    /\ UNCHANGED <<queue, logs, m_rowCount, seen, m_running, counts, uncounted, trimmed>>

(* Variant: m_running is read before the loop only. *)
CheckOnce ==
    /\ writer = "check"
    /\ last' = FALSE
    /\ writer' = "take"
    /\ WriterOnly
    /\ UNCHANGED <<queue, logs, m_rowCount, seen, m_running, counts, uncounted, trimmed>>

(* while (m_running) drain(); drain(); *)
Check ==
    /\ writer = "check"
    /\ last' = ~m_running
    /\ writer' = "take"
    /\ WriterOnly
    /\ UNCHANGED <<queue, logs, m_rowCount, seen, m_running, counts, uncounted, trimmed>>

AfterDrain == IF last THEN "closed" ELSE "check"

(* Variant: the queue is copied and not emptied. *)
TakeCopy ==
    /\ writer = "take"
    /\ batch' = m_queue
    /\ writer' = IF m_queue = <<>> THEN AfterDrain ELSE "insert"
    /\ WriterOnly
    /\ UNCHANGED <<m_queue, tx, logs, m_rowCount, seen, m_running, last, counts, uncounted, trimmed>>

(* Variant: tryLock(): the queue is left for later when it is in use. *)
TakeIfFree ==
    /\ writer = "take"
    /\ \E free \in BOOLEAN :
          /\ batch' = IF free THEN m_queue ELSE <<>>
          /\ m_queue' = IF free THEN <<>> ELSE m_queue
          /\ writer' = IF ~free \/ m_queue = <<>> THEN AfterDrain ELSE "insert"
    /\ WriterOnly
    /\ UNCHANGED <<tx, logs, m_rowCount, seen, m_running, last, counts, uncounted, trimmed>>

Take ==
    /\ writer = "take"
    /\ batch' = m_queue
    /\ m_queue' = <<>>
    /\ writer' = IF m_queue = <<>> THEN AfterDrain ELSE "insert"
    /\ WriterOnly
    /\ UNCHANGED <<tx, logs, m_rowCount, seen, m_running, last, counts, uncounted, trimmed>>

(* An INSERT that fails is not noticed; it is counted all the same. *)
Insert(ok) ==
    /\ writer = "insert"
    /\ Statement(ok)
    /\ batch' = Tail(batch)
    /\ tx' = IF ok THEN Append(tx, Head(batch)) ELSE tx
    /\ uncounted' = IF ok /\ main = "clearing" THEN uncounted + 1 ELSE uncounted
    /\ seen' = m_rowCount
    /\ writer' = "count"
    /\ WriterOnly
    /\ UNCHANGED <<m_queue, logs, m_rowCount, m_running, last, trimmed>>

Count ==
    /\ writer = "count"
    /\ m_rowCount' = seen + 1
    /\ writer' = IF batch = <<>> THEN "commit" ELSE "insert"
    /\ WriterOnly
    /\ UNCHANGED <<queue, logs, seen, m_running, last, counts, uncounted, trimmed>>

(* A COMMIT that fails is rolled back by SQLite; nobody looks, and the     *)
(* entries have been counted.                                              *)
Commit(ok) ==
    /\ writer = "commit"
    /\ Statement(ok)
    /\ logs' = IF ok THEN logs \o tx ELSE logs
    /\ tx' = <<>>
    /\ writer' = "trim"
    /\ WriterOnly
    /\ UNCHANGED <<m_queue, batch, m_rowCount, seen, m_running, last, uncounted, trimmed>>

(* The rows that are not among the newest MaxLogRows *)
Newest(s) == IF Len(s) <= MaxLogRows THEN s ELSE SubSeq(s, Len(s) - MaxLogRows + 1, Len(s))

trimIfNeeded(ok) ==
    /\ writer = "trim"
    /\ writer' = AfterDrain
    /\ IF m_rowCount <= MaxLogRows
       THEN /\ ok
            /\ trimmed' = TRUE
            /\ UNCHANGED <<logs, m_rowCount, counts, uncounted>>
       ELSE /\ Statement(ok)
            /\ logs' = IF ok THEN Newest(logs) ELSE logs
            /\ m_rowCount' = IF ok THEN MaxLogRows ELSE m_rowCount
            /\ uncounted' = IF ok /\ main # "clearing" THEN 0 ELSE uncounted
            /\ trimmed' = ok
    /\ WriterOnly
    /\ UNCHANGED <<queue, seen, m_running, last>>
-----------------------------------------------------------------------------
Writer ==
    \/ \E outcome \in {"counted", "uncounted", "failed"} : Open(outcome)
    \/ \E ok \in BOOLEAN : Insert(ok) \/ Commit(ok) \/ trimIfNeeded(ok)
    \/ Running \/ Check \/ Take \/ Count

Next ==
    \/ initialize \/ ClearRows \/ ClearCount \/ shutdown \/ DeleteInstance
    \/ ProcessEnds
    \/ \E t \in Thread : LogStarts(t) \/ pushEntry(t)
    \/ Writer

(* The writer thread is scheduled, and so is the main thread in shutdown(). *)
Spec == Init /\ [][Next]_vars /\ WF_vars(Writer) /\ WF_vars(DeleteInstance)
-----------------------------------------------------------------------------
(***************************************************************************)
(* The limit holds: once the writer has looked at the count, it never goes *)
(* to sleep with more than MaxLogRows rows, whatever INSERTs and COMMITs   *)
(* failed and however clearAll() ran against it, except for rows that are  *)
(* not counted: those inserted between the DELETE of clearAll() and its    *)
(* reset of the counter, and those of earlier starts if SELECT COUNT       *)
(* failed.  The next DELETE that succeeds removes these as well.           *)
(***************************************************************************)
RowsBounded ==
    writer = "check" /\ trimmed => Len(logs) <= MaxLogRows + uncounted

(***************************************************************************)
(* Logger.h: shutdown() flushes.  When it returns, no entry logged before  *)
(* it was called is left in the queue, if the writer could open its table. *)
(***************************************************************************)
FlushedAtExit ==
    main = "done" /\ writer = "closed" =>
        \A i \in 1 .. Len(m_queue) : m_queue[i] > before

(* The logger keeps what LogStore promises; entries between the queue and  *)
(* the table are pending.                                                  *)
Store == INSTANCE LogStore WITH pending <- tx \o batch \o m_queue, rows <- logs
StoreSpec == Store!Spec

(***************************************************************************)
(* What is logged gets written: an entry leaves the queue (for a row, or   *)
(* because its INSERT or COMMIT failed or the process ended), unless the   *)
(* writer had to give up or was gone when it was logged.                   *)
(***************************************************************************)
Queued(e) == \E i \in 1 .. Len(m_queue) : m_queue[i] = e

LoggedIsWritten ==
    \A e \in Entry : Queued(e) ~> (~Queued(e) \/ writer \in {"closed", "failed"})

(* shutdown() returns if the writer had reached its loop when it was       *)
(* called: the writer then sees m_running.  The process may end first.     *)
ShutdownReturns ==
    (main = "waiting" /\ ~m_running /\ writer \notin {"opening", "ready"})
        ~> main \in {"done", "off"}
=============================================================================
