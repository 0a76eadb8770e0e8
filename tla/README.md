# SmartRoute (swr): verification project

SmartRoute is a gateway on an embedded Linux board. It polls field devices over
RS485 and TCP (Modbus RTU, ASCII and TCP, PC-Link), keeps the last reading of
every register under a *unified address*, offers the readings over a REST API
and a Modbus TCP server, forwards writes to the devices, stores an HMI project,
records trends, and is configured through the same API. This directory holds
TLA+ specifications of the program, TLC configurations that check them on small
instances, and TLAPS proofs for every instance. Paths below are relative to
`src/`; `PROJECT.json` maps every definition to the lines it models.

## The system

Threads: the **main thread** runs the Qt event loop, and with it every HTTP
handler, the Modbus TCP server, the trend timer and the system monitor; one
**SerialWorker** thread polls all RS485 devices; one **TcpWorker** thread per
TCP device; the **Logger** has a writer thread. Handlers never run concurrently
with each other, only with the workers.

| Component | State | Operations | Talks to |
|---|---|---|---|
| PollingManager | `m_running`, the workers | `start`, `stop` (request, then join) | called by the API; makes and joins workers |
| SerialWorker, TcpWorker | copy of the configuration, `m_running`, last states and times | the polling loop | DataCollector, RegisterTable, DeviceList, Logger |
| DataCollector, RegisterExecutor | batches of a device | `buildBatches`, `collectAllFields`, `flushWrites`, `readBatch`, `writeField` | device clients, DeviceList (writes) |
| Modbus and PC-Link clients, SerialBus, client factory | socket or port and its buffer | requests, answers, timeouts | the devices |
| DeviceList | devices, registers, status, pending writes | `reset`, `add`, `update`, `remove`, `updateStatus`, `enqueueWrite`, `takeWrites` | shared, one mutex |
| RegisterTable | `m_states`: unified address → reading | `clear`, `updateState`, `state`, `states` | shared, another mutex |
| ApiServer | sessions | about 70 HTTP handlers | everything |
| ModbusTcpServer | address range | reads, `forwardWrite` | RegisterTable, DeviceList |
| DeviceDatabase | SQLite: devices, registers, users, login history, HMI | one method per handler | ApiServer |
| RestoreManager, BackupManager | the staged backup file | backup, validate, apply | database, AppConfig, SystemConfig |
| TrendFileRecorder/Writer/Reader | the open trend file | timer, append, read | RegisterTable |
| Logger | queue, table of rows and their count | push, drain, trim, clear, shutdown | everybody |
| AppConfig, SystemConfig | the configuration file, a copy of it made at start | load, save, reset | main, API, backup and restore |
| SystemMonitor, NetworkConfigurator | `/proc`, system files | read, write | API |

What is hard here:

* **Interleaving.** `stop()` may arrive at any read of `m_running` inside a
  poll; workers use a copy of the configuration, so handlers refuse edits while
  polling (`rejectIfPolling`); a poll updates two stores under two mutexes.
* **Queues and retries.** Writes are queued by the main thread while a worker
  takes the queue; a failed write goes back to the tail; a lost connection drops
  writes; `stop()` arrives between two attempts.
* **Indices computed early and used late.** Batches are built once and their
  offsets cut up every later answer.
* **Numbers and time.** Two's complement across several words, ranges, and a
  quality that depends on intervals which are themselves measured.
* **Several editors.** Optimistic locking of screens, and rows that disappear
  and come back.
* **Copies.** DeviceList copies the database and SystemConfig the configuration
  file; restore and factory reset change the original only.
* **The end of the process.** It may come inside a save of the configuration,
  between the parts of a restore, inside an append to a trend file, or with
  entries in the logger's queue.
* **Late answers.** A request that timed out may still be answered, into the
  buffer of a later request.
* **Failures nobody looks at.** UPDATEs of a login, statements of the logger,
  writes and flushes of files, the staged files of a restore, a handler that
  fails after it has changed rows.

What makes each part correct, in a sentence: a worker polls what is configured
and nothing is stored after `stop()`; an accepted write is in one place until it
is settled; a register's value is made of its own words, whatever batch it was
read in; the table shows the last reading under the configuration it was read
with; no editor overwrites what it has not seen; guessing a password is bounded
and somebody can always log in; tags follow their registers through a restore;
no handler loses another's setting; entries are written once and in order; an
answer is used for a request it fits; a trend file keeps what was flushed into
it. The list of hazards, each at its line, is in `PROJECT.json`.

## Modules

| Module | Models | Proofs |
|---|---|---|
| `Polling` | PollingManager, both workers, DeviceList's devices, ownership in RegisterTable, the polling and configuration handlers | `PollingProofs` |
| `WriteQueue` | writes from the API, the HMI and Modbus masters to the device: DeviceList's queues, `flushWrites`, `writeField` | `WriteQueueProofs` |
| `BatchRead` | DataCollector's batches and reads, RegisterExecutor's byte orders, the clients' address spaces | `BatchReadProofs` |
| `RegisterTable` | one register: `updateState`, scaling, range, quality, the workers' timing | `ReadingProofs` |
| `HmiProject` | HMI project and screens: handlers, transactions, restore, factory reset | `DatabaseProofs` |
| `Accounts` | users, sessions, login, lock-out, account handlers, the users of a backup | `AccountsProofs` |
| `Registry` | devices, registers and HMI tags in the database, their copy in DeviceList, backup, restore, factory reset | `DatabaseProofs` |
| `Configuration` | AppConfig, SystemConfig, the handlers that save a section, restore and resets of the file, program start | `FileProofs` |
| `Logger` | the logger's queue, writer thread, trimming, clearing, shutdown | `LoggerProofs` |
| `LogStore` | abstract specification of the logger; `Logger` implements it | `LoggerProofs` |
| `Transport` | the five device clients, the serial bus, sockets and late answers | `ReadingProofs` |
| `TrendFile` | TrendFileRecorder, -Writer and -Reader, files on disk | `FileProofs` |

`MC<Module>` modules hold the constants of the instances where a `.cfg` alone
cannot. Two specifications
that are proved about in one module have names of their own for what the others
call `Init`, `Next`, `Spec` and `TypeOK` (`TrendInit`, `RegistrySpec` and so on).
Definitions called *Variant* in a comment are plausible mistakes; they are not part of any
specification and show that a property can fail.

### Polling

`main` is where the main thread is (a handler that does not wait is one step;
`stop()` is several: `RequestStop` per worker, then `Join`). `dev` is DeviceList
with the published status, `table` the owner and validity of each unified
address, `log` the last message about a device. A worker has a program counter
`pc`, its flag `run`, its copy `snap`, and the locals of one poll (`cur`, `res`,
`left`, `allOk`, `prev`). Each worker action is what happens between two reads
of `m_running`: `Begin`, `Loop` or `Visit`, `Collect`, `Field` (one register
into the table), `FieldsEnd`, `Publish`. Device I/O is the choice of the set of
registers that were read well. `PostDevice` ... `DeleteRegister` are the
handlers guarded by `rejectIfPolling`; `Restart` and `ProcessRestart` are the
end and the new start of the process. `insertRegister()` that stops half-way
leaves rows without a unified address (`Bare`), which a later reload brings into
the list (`unlisted` until then): they are read like the others and count for
the device's state, but `updateState()` returns without storing them. A reload
that fails, and with it a list that differs from the database, is in `Registry`
only.

### WriteQueue

`m_writes` are DeviceList's queues, `taken` the list a flush has taken, `todo`
the addresses `forwardWrite` has still to deal with. Requests have identities; the
history variables (`state`, `tries`, `reached`) are for the properties.
`HandleWriteRegister`, `HandlePostHmiWrite` and `ForwardWrite`/`ForwardOne`
accept requests; `TakeWrites`, `ConnectFails`, `WriteSucceeds`, `WriteFails` and
`FlushEnds` are `flushWrites()`. A write that fails may have reached the device
(the answer was lost).

### BatchRead

`Init` is the constructor before `buildBatches()`. `MergeNext` and `StartBatch`
are one iteration of its loop, on an index that no other unplaced index sorts
before (`std::sort` is not stable, so equal keys come in any order). A word is
represented by the space and address it is read from, so a result shows what it
is made of. `ReadBatch(ok)` is one iteration of `collectAllFields()`.
`BatchBounded` is about the code's limit, 64; a limit of 32 words, which one
document has, is not kept (see below).

### RegisterTable

One register of one device and its entry in `m_states`. `PollBegins`, `ReadOk`
and `ReadFails` are the worker's poll, `Restart` is stop, edit and start, `Tick`
is time, also while the device is slow to answer. Words and the accumulator have
parameters for their widths; doubles are whole numbers. Powers of
two and the combination of words are recursive functions. A reading longer than
the accumulator takes an undefined shift: the model chooses among its outcomes.
A register of unknown type fails every read and needs no type of its own.

### HmiProject

The tables `hmi_screens` and `hmi_project` and one watched client's views of
them. Each handler is one SQLite transaction. A backup file is a sequence of
screens with a start screen and a revision.

### Accounts

`users` is the table (id 0 is the default admin's, 1 stands for any other),
`sessions` maps tokens to names, `maxFailedAttempts` is the limit a login reads
from the configuration file. Each handler is one step; `requireAuth` reads the
role from the table at every request, so sessions survive changes of role and
even the deletion of a user, and end only with `Logout` or `ProcessRestart`
(the session timeout of the security policy is not used by the server).
`LoginFails` and `LoginSucceeds` have an UPDATE that may fail unseen (`stored`).
`wrong` and `highest` are history for `GuessesBounded`.

### Registry

The three tables with their AUTOINCREMENT counters, the unique index on unified
addresses and ON DELETE CASCADE, and `list`, DeviceList's copy. Handlers change
both: `syncAddDevice` loads everything again, `syncAddRegister`,
`syncUpdateRegister` and `syncDeleteRegister` the registers of one device.
`PostRegisterFails` is `insertRegister()` that stops after its INSERT. The SELECT
of a reload may fail (`loaded`): the request is answered with an error, the rows
are changed and the list is not (`unsynced`). `RestoreApply` has the options for
devices, registers and HMI and changes the tables only, as `FactoryResetRows`
does; the latter may fail in its second part, and then asks for no restart.
`RestoreWithoutDevices` and `RestoreWithoutTags` are a restore from staged files
of which one is missing or cut off. `DeviceList::remove` of a device it does not
have throws, which ends the process (`up`). Polling is stopped: `Polling` has
the guard.

### Configuration

`file` is the configuration by sections, or missing, or torn; `snapshot` is
SystemConfig's copy. A save has four outcomes: saved, not opened, truncated and
not written although success is reported, or the process ends. The PUT handlers,
config reset and factory reset start from the file, restore from the copy. Any
config.json may be uploaded, one of another device, without some sections or
with a single interface too (`upload`). The directory it is staged in may be
whole, written or removed in part, or gone (`staged`), since nobody looks at the
results; it is in /tmp, so it survives the end of the process and not that of
the device. `RestoreApply` reports success also when the file could not be
saved, `RestoreConfigLost` when the staged config.json could not be read;
`RestoreRowsOnly` leaves the file alone, and `RestoreCrashes` is the end of the
process between database and file. `acked` is what users were told is saved,
`misreported` the sections a restore told them and did not save. `Boot` writes
the factory's configuration if there is no file, loads it and indexes two
interfaces.

### Logger and LogStore

The main thread, threads that log, and the writer are separate; `clearAll()` is
two steps (`ClearRows`, `ClearCount`), `++m_rowCount` a read and a write
(`Insert`, `Count`), so that their interleavings are there. Entries are in
`m_queue`, `batch` or `tx` until `Commit` makes them rows. Every statement of the
writer may fail, COMMIT too; only a database that cannot be opened ends the
thread: after a CREATE or SELECT COUNT that fails it goes on with `m_rowCount`
at 0. `uncounted` is by how many rows the count may fall short. `ProcessEnds`
may happen anywhere, and the process is started again. `LogStore` has pending
entries and rows; the mapping takes `tx \o batch \o m_queue` for the pending
ones.

### Transport

One link with one kind of client. A frame is what the clients look at; `wire`
holds answers under way, `buffer` what has arrived. `SerialSend` clears the
buffer, `TcpSend` does not. `rtuAccepts` ... `sumAccepts` say which answers the
clients accept: Modbus clients compare byte counts (`dataBytes`), so answers
for bits agree if their numbers, rounded up to bytes, do. Requests and answers
carry numbers for the properties only.

### TrendFile

A file is its size, the counts in its block headers and its records. An append
is a sequence of writes (`RecordWrites`) that reach the file in order: `Stages`
is the file after each of them, `CutShort` the file when one of them was cut off
after some bytes. `Crash` and `AppendFails` stop within an append, also within a
write; `StartCrashes` within the headers of a new file. `writer.buffer` is what
QFile has not passed on: the headers, if the disk refused them
(`StartRefused`), or the last write of an append whose flush failed
(`AppendedUnflushed`). `fileSize()`, which appends and `status()` call, tries
again. If it is refused too (`StatusRefused`, `StartRefused`), QFile no longer
flushes when it seeks (`stuck`): closing the file still puts the buffer where it
belongs, but the next record is written behind it in the buffer and both end up
at the record's offset (`AppendMisplaced`, also when the refusal happens in the
append itself, which then sees a size of 0). Such a file is `spoilt`: recording
goes on into it, its contents are not modelled any further and the properties do
not speak of it; `Live` is the file being recorded unless it is spoilt.
`readLatest`, `readSample` and `recordCount` are the readers.

## Runs

| Run | States | What it shows |
|---|---|---|
| `polling` | 5 346 533 | no stale copy, no foreign entry, status agrees with table, failures are alarmed, silence after `stop()` |
| `polling_live` | 91 839 | `stop()` returns, every device is polled |
| `write_queue` | 787 370 | requests are neither lost nor doubled, first attempts keep their order, disabled devices are not written, accepted writes settle |
| `batch_read` | 1 971 808 | batches bounded; results as if read alone; failures contained |
| `register_table` | 426 180 | the value shown is the value of the last reading; in manual mode quality needs a reading to improve |
| `hmi_project` | 179 939 | start screen valid, order total, saves overwrite only what was seen |
| `accounts` | 101 232 | the default admin survives, wrong passwords are bounded, only managers open an account again |
| `registry` | 2 317 006 | the copy in memory matches the database, a full restore reproduces it, tags follow unified addresses |
| `configuration` | 566 017 | no handler loses another's setting, the program can start from the file |
| `logger` | 263 857 | rows bounded, flushed at exit, `LogStore` implemented, entries leave the queue, `shutdown()` returns |
| `transport` | 5 399 043 | no answer older than the request on the bus; answers fit; without a timeout each request gets its own |
| `trend` | 82 074 | flushed samples are kept in order, readers agree, size bounded |

Where a property has an exception, the exception is what the code does and the
property says how far the damage goes:

* `StatusMatchesTable`: a poll cut short by `stop()`; a register without a
  unified address may put its device into Error and is not in the table.
* `NoSettingLost`: a save cut off; sections a restore sets back to the start of
  the program, or reports and does not save.
* `Bootable`: a save cut off; a request, or the backup restored by one, with a
  single interface.
* `ListMatchesDb`: until the restart after a restore or factory reset; rows
  without an address; requests answered with an error after they changed rows,
  until the whole list is loaded again.
* `RestoreReproduces`, `TagsFollowAddresses`: a staged file that was lost.
* `RowsBounded`: rows inserted inside `clearAll()`; rows of earlier starts if
  they could not be counted.
* `ShutdownReturns`: a writer that has not reached its loop.
* `OwnAnswer`: after a timeout. `AnswerFits`: up to seven bits at the end of a
  late answer to a shorter read of coils.
* `FlushedAreKept`, `ReadersAgree`, `SizeBounded`: a file that is spoilt.
  `ReadersAgree`: the count in the list of files after a process that ended
  between the padding of a block and the next header.

### Differences between code and documents

Met while modelling:

* A poll cut short by `stop()` publishes Ok and logs a recovery although nothing
  was read (SerialWorker.cpp:108; docs/architecture/logging.md:105 compares the
  state after a completed poll).
* A master's write of several registers may be applied in part
  (ModbusTcpServer.cpp:229; the comment at :216 says it never is).
* Input registers and discrete inputs are read from the holding registers and
  coils (RegisterExecutor.cpp:131; DeviceModels.h:29-31 says FC02 and FC04).
* `outOfRange` is about the value before the reading (RegisterTable.cpp:49;
  RegisterTable.md:41-45).
* Deletion and creation reset a screen's revision, so a save based on the
  deleted one passes (DeviceDatabase.cpp:2076; api-spec.md:1395).
* A read is limited to 64 words, and a longer register is read all the same
  (DataCollector.cpp:76, RegisterExecutor.h:20, agreeing with
  docs/architecture/modbus-batch-read.md:16); docs/spec/Modbus_Comm_Spec.md:145
  limits it to 32 words and wants an error for more.
* The failure of a register without a unified address puts its device into
  Error while every entry of the table is valid (RegisterTable.cpp:34).
* The answer to a read of coils is compared by its bytes, so a late answer to
  three coils is taken for five (ModbusRTUClient.cpp:52 and its like).
* A restore whose configuration could not be saved is answered with success
  (RestoreManager.cpp:404), and so is one whose config.json could not be read.
* README.md:116 has the integrity of a backup checked before it is restored. The
  uploaded bytes are checked; what is restored are the files they were written
  to, without a look at the result of either (RestoreManager.cpp:237, :411). One
  that is missing or truncated there empties its tables.
* A factory reset that fails in its second part answers with an error, with the
  tables emptied and no restart asked for (ApiServer.cpp:2600-2606); a handler
  whose reload fails leaves DeviceList behind the database.
* A backup with one interface is restored (RestoreManager.cpp:379-396) and a
  list of one is accepted by PUT; main.cpp:110 indexes two.
* A logger that cannot count its rows goes on with 0 and trims too late
  (Logger.cpp:77-80).
* The comment at TrendFileWriter.cpp:139-140 says that a failure to write the
  next block's header leaves the writer consistent with the file. The header is
  only buffered then, and the `flush()` at :160 is not looked at; if `fileSize()`
  (:95, also called by `status()`) is refused as well, what is in the buffer is
  written at the next record's offset.
* Restore without the network option writes the network section of the program's
  start into the file (RestoreManager.cpp:345; the option is described as off by
  default).
* Logger.h:28 calls the logger safe to call from any thread; `shutdown()`
  deletes it while workers live (main.cpp:268).
* The list of trend files reports 0 records for a file that ends at the padding
  of a block (`parseHeader`), while the other readers return them.
* A comment in AppConfig.h allows trend intervals 10, 30 and 60; the API allows
  1 and 5 as well.
* A recovery across a restart of polling is not logged; a master's write to a
  writable coil is acknowledged and always fails; in auto mode a failed poll can
  improve a register's quality; restore ignores `hmi.maxScreens`; a backup does
  not carry poll modes.

### Bounds

* *Polling*: two devices, two addresses and one register without an address
  (none in the liveness run), from every configuration. Two TCP
  workers, or two devices on the serial worker, or one of each, already have
  every pair of concurrent steps; two registers are needed for a poll that
  fails in part. Symmetric in devices and addresses (safety run only).
* *WriteQueue*: two requests, two devices (one serial), two addresses, two
  retries: a retry behind a newer request, a write of two registers, and a queue
  refilled during a flush all happen. Start configurations pair a plain register
  with each difficult one (`Start1`).
* *BatchRead*: all lists of up to three registers over three types, addresses
  0–2 and lengths 1, 2 and 4 with batches of at most 3: adjacent, overlapping,
  equal, apart, exactly full and oversized.
* *RegisterTable*: 2-bit words and a 6-bit accumulator, lengths 0–4 with words
  0, 1 and 2 (the sign bit alone, `AnswerWords`), so a reading fits with room,
  exactly, and not at all; intervals 1 and 2 and six ticks of the clock
  (`EndTime`), so a register goes through all qualities and through several
  polls, slow ones included.
* *HmiProject*: two screens, two contents, revisions up to 3 (`MaxRevision`,
  in the guards), files with every shape of start screen. The system may stop
  at that bound, hence no deadlock check.

* *Accounts*: the default admin and one other account, two passwords, two
  tokens (symmetric), limits 1 and 2, one UPDATE that fails (`MaxUnstored`): a
  manager acts on an account with a live session, an account acts on itself, and
  limits change while failures are counted.
* *Registry*: one automatic address and one manual one, so that the range runs
  out at once; up to four device and register ids and five requests
  (`MaxRequests`): enough to fill, back up, change and restore two devices.
* *Configuration*: two contents of three of the sections (`Changing`: the network,
  one that a backup has and one that it has not), the other sections fixed;
  uploads may lack any of those that change. Two saves by requests (`MaxSaves`):
  each relates the file to the copy made at a start, and starts, which are not
  bounded, may come in between.
* *Logger*: two threads, four entries, a limit of two rows, two starts, one
  clear and one failing statement.
* *Transport*: two stations, reads of 1, 8 and 9 (so that two of the numbers of
  bits share a number of bytes), three requests: a late answer meets the second
  request and is still there for the third.
* *TrendFile*: two names, two intervals, blocks of two records, and a limit that
  is met inside a block's end; the disk refuses in two requests or samples
  (`MaxFailures`), which a spoilt file takes. Sizes are small but keep their
  order.

`WriteQueue` may stop once all requests have been made, `Logger` once the
process has ended for the last time; the other runs check deadlock.

### Fairness

Threads are scheduled and device I/O has a timeout, so worker steps, `Join` and
the rest of a handler are weakly fair. Strong fairness is used twice: a device
in manual mode is due again and again (its interval elapses), so its visit in
state "due" is strongly fair; a worker reads `m_running` in every round, so it
cannot miss the flag for ever although it may always be between two reads.
Nobody is obliged to start, stop, edit or write. The logger's writer thread and
the rest of `shutdown()` are weakly fair.

## Proofs

TLAPS checks every proof from the assumptions named in the modules
(`ConstantsDistinct`, `BatchAssumption`, `WriteQueueAssumption`,
`HmiAssumption`, `BackupAssumption`, `AccountsAssumption`,
`ConfigurationAssumption`, `LoggerAssumption`, `TransportAssumption`,
`RegistryAssumption`, `TableAssumption`, `SizesAssumption`). They say
that bounds are natural numbers, that sizes and limits are positive where the
code's are, that model values which stand for different things differ, that the
automatic addresses lie below the manual ones and within the range there is,
that a register's range is not empty, and that the limit of a trend file has
room for its headers. The bounds
themselves are constants like the others, so a theorem holds for any number of
requests, entries, saves, restarts or failures. For each specification there is
an inductive invariant, a lemma that the initial states satisfy it, one per
action or group of actions, and the theorems that follow from it. Every
invariant and every action property of the runs is stated by a theorem.

* **PollingProofs** (any devices and addresses). `StatusMatchesTable` and the
  others are not inductive: the invariant `Inv` adds what the main thread's
  phase says of the workers (`PhaseInv`), that addresses have one owner
  (`DisjointAddresses`), that every copy is current (`SnapshotInv`), where a
  poll is (`CursorInv`, `StoringInv`), and what `allOk` knows of the results
  already stored (`MatchInv`), those of registers the table does not have
  included. There is a lemma per action or group of actions.
* **BatchReadProofs** (any registers, any batch size, overlaps included). `Inv`
  is about single batches: `GoodBatch` says that each slice leads to its
  register within the batch and that only a single register may exceed the
  limit. `MergedGood` shows that merging keeps it, `SliceValues` that cutting a
  good batch's answer gives a register what reading it alone gives; hence
  `ResultsMatch`. For `FailureContained` a second invariant (`ContainInv`) says
  that a register is in one batch only, in none while it is unplaced, and that
  the batches a poll has not come to count as failed: a failed batch would else
  have to be told from one that was read in an earlier poll.
* **WriteQueueProofs** (any devices, addresses, requests and retries). The list
  taken by a flush and the queue behind it are seen as one list `W[d]`, to which
  four things can happen whatever action does it (`Arrives`, `Leaves`,
  `Returns`, `ResetInv`); taking the queue leaves it as it is. `Inv` adds to
  `NothingLostOrDoubled` that ids are unique across devices (`OnceInv`), that
  those from `next` on are unused (`FreshInv`), that attempts and remaining
  retries add up (`PlaceInv`), that a request behind a younger one has been
  tried (`OrderInv`, the reason for `FirstAttemptsInOrder`), and that workers
  exist for enabled devices only (`WorkerInv`, for `OnlyEnabledAreWritten`).
* **AccountsProofs** (any names, passwords, tokens and limits). Guessing is
  bounded although the limit changes and an UPDATE may fail: `CountInv` says
  that the stored count misses no more wrong passwords than UPDATEs have failed,
  and that an open account's count is below the largest limit there was, and
  `LimitInv` that this limit is not exceeded by the one in force.
  `OnlyManagersReopen` is proved action by action.
* **LoggerProofs** (any threads, limit, entries and failures). `RowsInv` bounds
  how far `m_rowCount` may fall short of the rows (by `uncounted`), with the value
  read by the first half of `++m_rowCount` in its place between the halves; `FlushInv` says
  that a writer in its loop sees `m_running` false only after `shutdown()`.
  `ImplementsLogStore` is the refinement, step by step: what is pending is the
  transaction, the rest of the batch and the queue in this order, so `Take` and
  a good `Insert` change nothing (`MovedStays`), a failed one drops the entry
  behind the transaction (`DroppedIsRemoved`), and `Commit` stores the
  transaction (`StoredIsFirst`) or drops it. `DrainInv` says where entries can be.
* **DatabaseProofs**, HMI project (any screens, contents and backup files).
  `ScreenViewInv` and `ProjectViewInv` relate a client's view to the rows it
  came from: as long as they are the same rows, the stored revision is not
  smaller, and equal revisions mean equal contents.
* **DatabaseProofs**, devices, registers and tags (any ids, addresses and
  requests). `RegistryInv` adds to `ListMatchesDb` and the type (with the
  foreign keys) that no two registers have the same unified address, that the
  same is true inside a backup (`BackupInv`), and that a device of the list has
  both its parts (`ListShape`). A register's row changes in several ways, so
  the list is compared device by device (`DeviceMatches`), and a handler that
  loads one device's registers again is shown to leave the others matching. A
  handler that fails after it has changed rows ends what `ListMatchesDb` says,
  and the shape of the list and of the tables is kept all the same. For
  `RestoreReproduces` the maps from old ids to new ones are shown to be
  one-to-one (`NewId` counts the rows before), so that references can be
  followed through them; unique addresses make `Linked` find the register a
  tag had, which is `TagsFollowAddresses`.
* **ReadingProofs**, device clients (any stations, requests and registers). `PlaceInv` says
  that an answer is in one place, `OldInv` that what was thrown away before a
  request does not come back, `OwnInv` which answers there can be while nothing
  was given up, and `RequestInv` that a client reads for the request it sent
  last. That a write asks for no registers is part of it: PC-Link clients do
  not check the quantity of an acknowledgement.
* **ReadingProofs**, register table (any widths of words and accumulator, any
  lengths, scales, ranges and intervals). `TableInv` says that an entry shows
  the clamped result of `computeScaledValue()` on the words it holds and, in
  manual mode, carries the device's interval. That this result is the
  number meant, for every number of words, is induction: the library's
  induction theorems cannot be used, but that a set of numbers has a least
  element can (`LeastNumber`, from `WFMin`), and induction for a *set* of
  numbers follows (`SetInduction`, `BoundedInduction`), as do the equations of
  recursive functions (`Recursion`). `CombinedIsUnsigned` and
  `SignedIsTwosComplement` are about words that fit into the accumulator,
  `CardinalityIsOnes` about bits. `QualityNeedsReading` is proved action by
  action: time alone only makes a register older, and a failed read changes
  neither its time nor, in manual mode, the interval it is judged by.
* **FileProofs**, configuration (any contents, any sections that change, any
  uploads). Until a save is cut off, the file is missing or whole (`FileInv`),
  and so is the configuration a running process holds (`RunningInv`): "whole"
  is with two interfaces, unless a request or a restored backup had one. A save
  is dealt with once, for whatever is saved and reported (`SaveInv`), and each
  handler is shown to be such a save. It is assumed that ordinary contents are
  not the two special ones with less than two interfaces, that no configuration
  is the missing or the torn file, and no config.json the one that is not there.
* **FileProofs**, trend files (any sizes of headers, records, blocks, padding
  and file, any intervals, any number of refused writes). `TrendInv` has two
  cases and leaves spoilt files out. The file being recorded is `Recorded`: it
  has been written in full up to the writer's block and count, except for what is
  in QFile's buffer, which is nothing, the headers, a count or a block header,
  and of which a part may have reached the file (`OpenFile`). Passing the buffer
  on completes such a file (`BufferedWrite`), refusing it again leaves one of the
  same kind (`RefusedBuffer`). Every other file is `Kept`: either its headers were cut off, or it has `b` full blocks and
  counts `i` records in the next (`Shape`), between those flushed and those
  taken, whatever bytes follow. `RecordSurvives` goes through the four writes
  and the bytes of each, `AppendSurvives` puts what is in the buffer before
  them, using that the stages of a sequence of writes are those of its prefix
  (`StagesOfPrefix`) and of its rest (`StagesOfRest`), both by induction.
  `CapacityIsRoom` shows that `worstCase` is what they need. The readers are
  then evaluated on a `Shape`: `ShapeHeads` and `ShapeRecords` say which headers
  and records they find, `SampleRead` what `readSample()` returns,
  `ShapeLatest` and `ShapeCount` the other two.

A type invariant is part of every inductive invariant. `StatusNeverThrows` (a
worker never publishes the status of a device that is gone), `SliceAligned` and
`NoNeedlessSplit` are proved and are no part of a run.

Only model-checked are the liveness properties (`StopCompletes`,
`EveryDevicePolled`, `WritesSettle`, `LoggedIsWritten`, `ShutdownReturns`):
fairness and ENABLED are beyond this prover.

## Not modelled

* Frames, checksums, JSON, ZIP and SQL as formats.
* SystemMonitor, NetworkConfigurator, and the handlers of system time, time zone
  and NTP: they run commands of the operating system and nothing reads the
  result back.
* The login history, an append-only table, and handlers that only read.
* The Modbus server's reads and the range of addresses it fixes at its start:
  registers beyond it are not answered until it is started again.
* Negative register lengths (the API accepts them), a wall clock that is set
  back while polling, the rounding of doubles, and ranges whose minimum exceeds
  the maximum. A trend file started in the same second as an older one, or after
  the clock was set back, replaces it: `TrendFile` has the case and no property
  excludes it.

## What could follow

* The Modbus server's map of addresses, together with `Registry`.
* Proofs of the liveness properties, once the prover supports fairness.
