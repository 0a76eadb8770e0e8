------------------------------- MODULE Polling -------------------------------
(***************************************************************************)
(* The polling engine: PollingManager on the main thread, one SerialWorker *)
(* thread for every RS485 device and one TcpWorker thread per TCP device,  *)
(* sharing DeviceList (configuration and run-time status) and              *)
(* RegisterTable (last reading per unified address).                       *)
(*                                                                         *)
(* HTTP handlers run on the main thread only, so a handler that does not   *)
(* wait is one step; stop() waits for the workers and is several steps.    *)
(* A worker step is what it does between two reads of its atomic m_running *)
(* flag; device I/O is the choice of its outcome.  The queue of pending    *)
(* writes that the workers flush is the subject of module WriteQueue and   *)
(* touches no variable of this module.                                     *)
(***************************************************************************)
EXTENDS Naturals, FiniteSets

CONSTANTS
    Device,         \* device ids
    Addr,           \* unified register addresses
    Bare,           \* rows of registers without one: insertRegister() that
                    \* stops half-way leaves them in the database
    SerialWorker,   \* the thread that polls every RS485 device
    NoDevice        \* a worker that is polling no device

ASSUME ConstantsDistinct ==
    /\ SerialWorker \notin Device
    /\ NoDevice \notin Device
    /\ Addr \cap Bare = {}

(***************************************************************************)
(* A TcpWorker is named by the device it polls.                            *)
(***************************************************************************)
Worker == Device \cup {SerialWorker}

(* A register is named by its unified address, if it has one. *)
Reg == Addr \cup Bare

State == {"Unknown", "Ok", "Error"}

DeviceInfo == [conn: {"serial", "tcp"}, enabled: BOOLEAN,
               regs: SUBSET Reg, status: State]

VARIABLES
    \* ---- main thread ----
    main,       \* "boot", "idle" or where stop() is: "requesting"
    exiting,    \* the stop in progress was caused by a restart request
    pmRunning,  \* PollingManager::m_running
    \* ---- shared, behind mutexes ----
    dev,        \* DeviceList::m_devices: device id -> DeviceInfo
    table,      \* RegisterTable::m_states: address -> owner and validity
    log,        \* the last alarm or recovery logged for a device
    unlisted,   \* rows of a device in the database that DeviceList lacks
    \* ---- worker threads ----
    pc,         \* where each worker is
    run,        \* its m_running flag, cleared by requestStop()
    snap,       \* the devices and registers it was constructed with
    pass,       \* serial: devices still to visit in this pass
    cur,        \* the device being polled
    res,        \* collectAllFields(): the registers that were read well
    left,       \* registers of cur whose result is still to be stored
    allOk,      \* no stored result has failed so far
    prev        \* prevStates: the state last published in this session

mainVars   == <<main, exiting, pmRunning>>
workerVars == <<pc, run, snap, pass, cur, res, left, allOk, prev>>
vars       == <<mainVars, dev, table, log, unlisted, workerVars>>

Entry(d, ok) == [owner |-> d, ok |-> ok]
NoEntry      == [owner |-> NoDevice, ok |-> FALSE]

Alive(w) == pc[w] \notin {"none", "done"}

TypeOK ==
    /\ main \in {"boot", "idle", "requesting"}
    /\ exiting \in BOOLEAN
    /\ pmRunning \in BOOLEAN
    /\ DOMAIN dev \subseteq Device
    /\ dev \in [DOMAIN dev -> DeviceInfo]
    /\ table \in [Addr -> [owner: Device \cup {NoDevice}, ok: BOOLEAN]]
    /\ log \in [Device -> {"none", "alarm", "recovery"}]
    /\ unlisted \in [Device -> SUBSET Bare]
    /\ pc \in [Worker -> {"none", "begin", "loop", "next", "collect",
                          "fields", "publish", "done"}]
    /\ run \in [Worker -> BOOLEAN]
    /\ DOMAIN snap = Worker
    /\ \A w \in Worker : /\ DOMAIN snap[w] \subseteq Device
                         /\ snap[w] \in [DOMAIN snap[w] -> SUBSET Reg]
    /\ pass \in [Worker -> SUBSET Device]
    /\ cur \in [Worker -> Device \cup {NoDevice}]
    /\ res \in [Worker -> SUBSET Reg]
    /\ left \in [Worker -> SUBSET Reg]
    /\ allOk \in [Worker -> BOOLEAN]
    /\ prev \in [Device -> State]
-----------------------------------------------------------------------------
(***************************************************************************)
(* Process start: main.cpp loads the devices, whose unified addresses are  *)
(* unique (the database index on registers), and no worker exists yet.     *)
(***************************************************************************)
Configurations ==
    UNION {[S -> [conn: {"serial", "tcp"}, enabled: BOOLEAN,
                  regs: SUBSET Reg, status: {"Unknown"}]] : S \in SUBSET Device}

DisjointRegisters(devices) ==
    \A d, e \in DOMAIN devices : d # e => devices[d].regs \cap devices[e].regs = {}

NoWorkers ==
    /\ pc    = [w \in Worker |-> "none"]
    /\ run   = [w \in Worker |-> FALSE]
    /\ snap  = [w \in Worker |-> [d \in {} |-> {}]]
    /\ pass  = [w \in Worker |-> {}]
    /\ cur   = [w \in Worker |-> NoDevice]
    /\ res   = [w \in Worker |-> {}]
    /\ left  = [w \in Worker |-> {}]
    /\ allOk = [w \in Worker |-> TRUE]
    /\ prev  = [d \in Device |-> "Unknown"]

Init ==
    /\ main = "boot"
    /\ exiting = FALSE
    /\ pmRunning = FALSE
    /\ dev \in Configurations
    /\ DisjointRegisters(dev)
    /\ table = [a \in Addr |-> NoEntry]
    /\ log = [d \in Device |-> "none"]
    /\ unlisted = [d \in Device |-> {}]
    /\ NoWorkers

(***************************************************************************)
(* PollingManager::start(): clear the table, copy the enabled devices out  *)
(* of DeviceList, hand the serial ones to one worker and every TCP one to  *)
(* a worker of its own.  A worker without a device is not created.         *)
(***************************************************************************)
Assigned(w) ==
    {d \in DOMAIN dev : /\ dev[d].enabled
                        /\ w = IF dev[d].conn = "serial" THEN SerialWorker ELSE d}

(* Variant: the readings of the previous session are kept. *)
StartWithoutClear ==
    /\ UNCHANGED table
    /\ snap' = [w \in Worker |-> [d \in Assigned(w) |-> dev[d].regs]]
    /\ pc' = [w \in Worker |-> IF Assigned(w) = {} THEN "none" ELSE "begin"]
    /\ run' = [w \in Worker |-> TRUE]
    /\ pmRunning' = TRUE
    /\ UNCHANGED <<pass, cur, res, left, allOk, prev>>

StartWorkers ==
    /\ table' = [a \in Addr |-> NoEntry]
    /\ snap' = [w \in Worker |-> [d \in Assigned(w) |-> dev[d].regs]]
    /\ pc' = [w \in Worker |-> IF Assigned(w) = {} THEN "none" ELSE "begin"]
    /\ run' = [w \in Worker |-> TRUE]
    /\ pass' = [w \in Worker |-> {}]
    /\ cur' = [w \in Worker |-> NoDevice]
    /\ res' = [w \in Worker |-> {}]
    /\ left' = [w \in Worker |-> {}]
    /\ allOk' = [w \in Worker |-> TRUE]
    /\ prev' = [d \in Device |-> "Unknown"]
    /\ pmRunning' = TRUE

(* main.cpp: the list is loaded, polling starts, then the event loop runs. *)
Boot ==
    /\ main = "boot"
    /\ StartWorkers
    /\ main' = "idle"
    /\ UNCHANGED <<exiting, dev, log, unlisted>>

(* POST /api/polling/start; answered 409 without effect when running. *)
Start ==
    /\ main = "idle"
    /\ ~pmRunning
    /\ StartWorkers
    /\ UNCHANGED <<main, exiting, dev, log, unlisted>>

(* POST /api/polling/stop: the handler enters PollingManager::stop(). *)
Stop ==
    /\ main = "idle"
    /\ pmRunning
    /\ main' = "requesting"
    /\ UNCHANGED <<exiting, pmRunning, dev, table, log, unlisted, workerVars>>

(* requestStop() on one worker; the serial worker is signalled first. *)
RequestStop(w) ==
    /\ main = "requesting"
    /\ pc[w] # "none"
    /\ run[w]
    /\ w # SerialWorker => (pc[SerialWorker] = "none" \/ ~run[SerialWorker])
    /\ run' = [run EXCEPT ![w] = FALSE]
    /\ UNCHANGED <<mainVars, dev, table, log, unlisted, pc, snap, pass, cur, res, left,
                   allOk, prev>>

(***************************************************************************)
(* wait() on every worker, once all are signalled; the workers are then    *)
(* deleted.  After a restart request the process ends here, and the next   *)
(* one loads the configuration from the database with no status.           *)
(***************************************************************************)
AllJoined ==
    \A w \in Worker : pc[w] = "none" \/ (pc[w] = "done" /\ ~run[w])

ClearWorkers ==
    /\ pc' = [w \in Worker |-> "none"]
    /\ run' = [w \in Worker |-> FALSE]
    /\ snap' = [w \in Worker |-> [d \in {} |-> {}]]
    /\ pass' = [w \in Worker |-> {}]
    /\ cur' = [w \in Worker |-> NoDevice]
    /\ res' = [w \in Worker |-> {}]
    /\ left' = [w \in Worker |-> {}]
    /\ allOk' = [w \in Worker |-> TRUE]
    /\ prev' = [d \in Device |-> "Unknown"]

(* Loaded from the database: with the rows the list lacked, and no status. *)
Loaded(d) == [dev[d] EXCEPT !.regs = @ \cup unlisted[d], !.status = "Unknown"]

NoneUnlisted == unlisted' = [d \in Device |-> {}]

ProcessRestart ==
    /\ main' = "boot"
    /\ exiting' = FALSE
    /\ dev' = [d \in DOMAIN dev |-> Loaded(d)]
    /\ NoneUnlisted
    /\ table' = [a \in Addr |-> NoEntry]

(* Variant: stop() returns without waiting for the threads. *)
JoinDetached ==
    /\ main = "requesting"
    /\ pmRunning' = FALSE
    /\ main' = "idle"
    /\ UNCHANGED <<exiting, dev, table, log, unlisted, workerVars>>

Join ==
    /\ main = "requesting"
    /\ AllJoined
    /\ ClearWorkers
    /\ pmRunning' = FALSE
    /\ IF exiting THEN ProcessRestart
                  ELSE main' = "idle" /\ UNCHANGED <<exiting, dev, unlisted, table>>
    /\ UNCHANGED log

(***************************************************************************)
(* POST /api/system/restart: the event loop ends and the PollingManager    *)
(* destructor calls stop().                                                *)
(***************************************************************************)
Restart ==
    /\ main = "idle"
    /\ IF pmRunning
       THEN /\ main' = "requesting"
            /\ exiting' = TRUE
            /\ UNCHANGED <<dev, unlisted, table>>
       ELSE ProcessRestart
    /\ UNCHANGED <<pmRunning, log, workerVars>>
-----------------------------------------------------------------------------
(***************************************************************************)
(* Configuration handlers.  rejectIfPolling() answers 409 while polling.   *)
(* A SELECT that fails after the write, which leaves an older DeviceList,  *)
(* is in module Registry and left out here.                                *)
(***************************************************************************)
(* Variant: the check is forgotten. *)
NeverRejects == FALSE

rejectIfPolling == pmRunning

CanEdit == main = "idle" /\ ~rejectIfPolling

FreeAddr == Addr \ UNION {dev[d].regs : d \in DOMAIN dev}
FreeBare == Bare \ UNION {dev[d].regs \cup unlisted[d] : d \in DOMAIN dev}

EditOnly(devices, rows) ==
    /\ dev' = devices
    /\ unlisted' = rows
    /\ UNCHANGED <<mainVars, table, log, workerVars>>

(* The registers of one device are loaded again, with what the list lacked. *)
EditRegisters(d, regs) ==
    EditOnly([dev EXCEPT ![d].regs = regs \cup unlisted[d]], [unlisted EXCEPT ![d] = {}])

(* The database assigns the id, the whole list is loaded again and reset.  *)
PostDevice(d, conn, enabled) ==
    /\ CanEdit
    /\ d \notin DOMAIN dev
    /\ EditOnly([e \in DOMAIN dev \cup {d} |->
                    IF e = d
                    THEN [conn |-> conn, enabled |-> enabled, regs |-> {},
                          status |-> "Unknown"]
                    ELSE Loaded(e)],
                [e \in Device |-> {}])

(* The stored device is edited in place: registers and status are kept. *)
PutDevice(d, conn, enabled) ==
    /\ CanEdit
    /\ d \in DOMAIN dev
    /\ EditOnly([dev EXCEPT ![d].conn = conn, ![d].enabled = enabled], unlisted)

DeleteDevice(d) ==
    /\ CanEdit
    /\ d \in DOMAIN dev
    /\ EditOnly([e \in DOMAIN dev \ {d} |-> dev[e]], [unlisted EXCEPT ![d] = {}])

PostRegister(d, a) ==
    /\ CanEdit
    /\ d \in DOMAIN dev
    /\ a \in FreeAddr
    /\ EditRegisters(d, dev[d].regs \cup {a})

(* The row is inserted, its address is not assigned, the list not changed. *)
PostRegisterFails(d, a) ==
    /\ CanEdit
    /\ d \in DOMAIN dev
    /\ a \in FreeBare
    /\ EditOnly(dev, [unlisted EXCEPT ![d] = @ \cup {a}])

(* The address is kept or changed; a register without one gets one. *)
PutRegister(d, a, b) ==
    /\ CanEdit
    /\ d \in DOMAIN dev
    /\ a \in dev[d].regs
    /\ b \in FreeAddr \/ (b = a /\ b \in Addr)
    /\ EditRegisters(d, (dev[d].regs \ {a}) \cup {b})

DeleteRegister(d, a) ==
    /\ CanEdit
    /\ d \in DOMAIN dev
    /\ a \in dev[d].regs
    /\ EditRegisters(d, dev[d].regs \ {a})
-----------------------------------------------------------------------------
(***************************************************************************)
(* Worker threads.  A step leaves the other workers and the main thread    *)
(* alone; it changes pc[w] and what it names.                              *)
(***************************************************************************)
Goto(w, from, to) ==
    /\ pc[w] = from
    /\ pc' = [pc EXCEPT ![w] = to]

(***************************************************************************)
(* run() begins.  The serial worker opens the RS485 port and gives up when *)
(* that fails; a TCP worker gives up when its device has no register.      *)
(***************************************************************************)
Begin(w) ==
    /\ \/ /\ Goto(w, "begin", "loop")
          /\ w # SerialWorker => snap[w][w] # {}
       \/ /\ Goto(w, "begin", "done")
          /\ w # SerialWorker => snap[w][w] = {}
    /\ UNCHANGED <<mainVars, dev, table, log, unlisted, run, snap, pass, cur, res, left,
                   allOk, prev>>

(* Variant: the worker does not look at m_running. *)
LoopForever(w) ==
    /\ IF w = SerialWorker
       THEN /\ Goto(w, "loop", "next")
            /\ pass' = [pass EXCEPT ![w] = DOMAIN snap[w]]
            /\ UNCHANGED cur
       ELSE /\ Goto(w, "loop", "collect")
            /\ cur' = [cur EXCEPT ![w] = w]
            /\ UNCHANGED pass
    /\ UNCHANGED <<mainVars, dev, table, log, unlisted, run, snap, res, left, allOk, prev>>

(* The head of the while loop. *)
Loop(w) ==
    /\ \/ /\ ~run[w]
          /\ Goto(w, "loop", "done")
          /\ UNCHANGED <<pass, cur>>
       \/ /\ run[w]
          /\ w = SerialWorker
          /\ Goto(w, "loop", "next")
          /\ pass' = [pass EXCEPT ![w] = DOMAIN snap[w]]
          /\ UNCHANGED cur
       \/ /\ run[w]
          /\ w # SerialWorker
          /\ Goto(w, "loop", "collect")
          /\ cur' = [cur EXCEPT ![w] = w]
          /\ UNCHANGED pass
    /\ UNCHANGED <<mainVars, dev, table, log, unlisted, run, snap, res, left, allOk, prev>>

(* Variant: the test for a device without registers is inverted. *)
VisitOnlyEmpty(w, d) ==
    /\ w = SerialWorker
    /\ run[w]
    /\ d \in pass[w]
    /\ pass' = [pass EXCEPT ![w] = @ \ {d}]
    /\ \/ /\ Goto(w, "next", "next")
          /\ UNCHANGED cur
       \/ /\ snap[w][d] = {}
          /\ Goto(w, "next", "collect")
          /\ cur' = [cur EXCEPT ![w] = d]
    /\ UNCHANGED <<mainVars, dev, table, log, unlisted, run, snap, res, left, allOk, prev>>

(***************************************************************************)
(* The serial worker's for loop: visit the next device unless stopping.  A *)
(* device without registers is passed over, and a manually timed one when  *)
(* its interval has not elapsed (any visit may find it so).                *)
(***************************************************************************)
Visit(w, d) ==
    /\ w = SerialWorker
    /\ run[w]
    /\ d \in pass[w]
    /\ pass' = [pass EXCEPT ![w] = @ \ {d}]
    /\ \/ /\ Goto(w, "next", "next")
          /\ UNCHANGED cur
       \/ /\ snap[w][d] # {}
          /\ Goto(w, "next", "collect")
          /\ cur' = [cur EXCEPT ![w] = d]
    /\ UNCHANGED <<mainVars, dev, table, log, unlisted, run, snap, res, left, allOk, prev>>

PassEnd(w) ==
    /\ pass[w] = {} \/ ~run[w]
    /\ Goto(w, "next", "loop")
    /\ pass' = [pass EXCEPT ![w] = {}]
    /\ UNCHANGED <<mainVars, dev, table, log, unlisted, run, snap, cur, res, left, allOk,
                   prev>>

(***************************************************************************)
(* collectAllFields(): a failed connection fails every register, a failed  *)
(* batch those it holds, so any set of registers may have been read.  Only *)
(* the serial worker looks at m_running first.                             *)
(***************************************************************************)
Collect(w, ok) ==
    /\ Goto(w, "collect", "fields")
    /\ w = SerialWorker => run[w]
    /\ ok \subseteq snap[w][cur[w]]
    /\ res' = [res EXCEPT ![w] = ok]
    /\ left' = [left EXCEPT ![w] = snap[w][cur[w]]]
    /\ allOk' = [allOk EXCEPT ![w] = TRUE]
    /\ UNCHANGED <<mainVars, dev, table, log, unlisted, run, snap, pass, cur, prev>>

CollectSkipped(w) ==
    /\ w = SerialWorker
    /\ ~run[w]
    /\ Goto(w, "collect", "next")
    /\ cur' = [cur EXCEPT ![w] = NoDevice]
    /\ UNCHANGED <<mainVars, dev, table, log, unlisted, run, snap, pass, res, left, allOk,
                   prev>>

(* RegisterTable::updateState() returns at once if there is no address. *)
updateState(w, a) ==
    table' = IF a \in Addr THEN [table EXCEPT ![a] = Entry(cur[w], a \in res[w])] ELSE table

(* Variant: the last register decides, earlier failures are forgotten. *)
FieldLastWins(w, a) ==
    /\ Goto(w, "fields", "fields")
    /\ run[w]
    /\ a \in left[w]
    /\ updateState(w, a)
    /\ allOk' = [allOk EXCEPT ![w] = a \in res[w]]
    /\ left' = [left EXCEPT ![w] = @ \ {a}]
    /\ UNCHANGED <<mainVars, dev, log, unlisted, run, snap, pass, cur, res, prev>>

(* One turn of the field loop: a failed read counts for the status whether *)
(* or not the table has a place for it.                                    *)
Field(w, a) ==
    /\ Goto(w, "fields", "fields")
    /\ run[w]
    /\ a \in left[w]
    /\ updateState(w, a)
    /\ allOk' = [allOk EXCEPT ![w] = @ /\ a \in res[w]]
    /\ left' = [left EXCEPT ![w] = @ \ {a}]
    /\ UNCHANGED <<mainVars, dev, log, unlisted, run, snap, pass, cur, res, prev>>

(* The loop ends after the last register, or early when stopping. *)
FieldsEnd(w) ==
    /\ left[w] = {} \/ ~run[w]
    /\ Goto(w, "fields", "publish")
    /\ UNCHANGED <<mainVars, dev, table, log, unlisted, run, snap, pass, cur, res, left,
                   allOk, prev>>

(***************************************************************************)
(* DeviceList::updateStatus(), which throws when the device is gone (no    *)
(* handler catches it in the thread, so the process would end), then the   *)
(* alarm or recovery message of a state transition.  On the way out main   *)
(* shuts the Logger down before it stops the workers, so a message of that *)
(* time may be lost.                                                       *)
(***************************************************************************)
(* Variant: only a device that has been Ok raises an alarm. *)
LogOnlyFromOk(d, old, new) ==
    CASE old = "Ok" /\ new = "Error" -> "alarm"
      [] old = "Error" /\ new = "Ok" -> "recovery"
      [] OTHER                       -> log[d]

LogOf(d, old, new) ==
    CASE old # new /\ new = "Error"          -> "alarm"
      [] old = "Error" /\ new = "Ok"         -> "recovery"
      [] OTHER                               -> log[d]

Publish(w) ==
    LET d == cur[w]
        s == IF allOk[w] THEN "Ok" ELSE "Error"
    IN  /\ Goto(w, "publish", IF w = SerialWorker THEN "next" ELSE "loop")
        /\ d \in DOMAIN dev
        /\ dev' = [dev EXCEPT ![d].status = s]
        /\ \/ log' = [log EXCEPT ![d] = LogOf(d, prev[d], s)]
           \/ exiting /\ UNCHANGED log
        /\ prev' = [prev EXCEPT ![d] = s]
        /\ cur' = [cur EXCEPT ![w] = NoDevice]
        /\ res' = [res EXCEPT ![w] = {}]
        /\ left' = [left EXCEPT ![w] = {}]
        /\ allOk' = [allOk EXCEPT ![w] = TRUE]
        /\ UNCHANGED <<mainVars, table, unlisted, run, snap, pass>>
-----------------------------------------------------------------------------
WorkerStep(w) ==
    \/ Begin(w)
    \/ Loop(w)
    \/ \E d \in Device : Visit(w, d)
    \/ PassEnd(w)
    \/ \E ok \in SUBSET Reg : Collect(w, ok)
    \/ CollectSkipped(w)
    \/ \E a \in Reg : Field(w, a)
    \/ FieldsEnd(w)
    \/ Publish(w)

Edit ==
    \E d \in Device :
        \/ \E c \in {"serial", "tcp"}, e \in BOOLEAN : PostDevice(d, c, e)
        \/ \E c \in {"serial", "tcp"}, e \in BOOLEAN : PutDevice(d, c, e)
        \/ DeleteDevice(d)
        \/ \E a \in Addr : PostRegister(d, a)
        \/ \E a \in Bare : PostRegisterFails(d, a)
        \/ \E a \in Reg, b \in Addr : PutRegister(d, a, b)
        \/ \E a \in Reg : DeleteRegister(d, a)

Next ==
    \/ Boot
    \/ Start
    \/ Stop
    \/ \E w \in Worker : RequestStop(w)
    \/ Join
    \/ Restart
    \/ Edit
    \/ \E w \in Worker : WorkerStep(w)

Spec == Init /\ [][Next]_vars

(***************************************************************************)
(* Threads are scheduled, device I/O has a timeout, and the handler that   *)
(* stops polling runs to its end; nobody has to start, stop or edit.  The  *)
(* interval of a manually timed device elapses: the serial worker cannot   *)
(* find it not yet due for ever.                                           *)
(***************************************************************************)
DuePoll(d) == Visit(SerialWorker, d) /\ pc'[SerialWorker] = "collect"

Fairness ==
    /\ \A w \in Worker : WF_vars(RequestStop(w)) /\ WF_vars(WorkerStep(w))
    /\ WF_vars(Join)
    /\ \A d \in Device : SF_vars(DuePoll(d))
-----------------------------------------------------------------------------
(***************************************************************************)
(* A live worker polls what DeviceList holds: its copy, taken when polling *)
(* started, still names existing, enabled devices with their current       *)
(* registers, and an RS485 device is polled by the serial worker only.     *)
(* rejectIfPolling() in every configuration handler is what keeps this.    *)
(***************************************************************************)
SnapshotCurrent ==
    \A w \in Worker : Alive(w) =>
        \A d \in DOMAIN snap[w] :
            /\ d \in DOMAIN dev
            /\ dev[d].enabled
            /\ snap[w][d] = dev[d].regs
            /\ (w = SerialWorker) <=> (dev[d].conn = "serial")

(***************************************************************************)
(* DeviceList::updateStatus() never throws in a worker thread: the device  *)
(* whose poll is being published still exists.                             *)
(***************************************************************************)
StatusNeverThrows ==
    \A w \in Worker : pc[w] \in {"collect", "fields", "publish"} =>
        cur[w] \in DOMAIN dev

(***************************************************************************)
(* While polling runs, GET /api/registers/realtime and the Modbus server   *)
(* see a reading only at the address of a configured register of an        *)
(* enabled device, and it comes from that very device: what an earlier     *)
(* configuration left in RegisterTable is gone.                            *)
(***************************************************************************)
TableIsConfigured ==
    pmRunning =>
        \A a \in Addr : table[a].owner # NoDevice =>
            LET d == table[a].owner
            IN  d \in DOMAIN dev /\ dev[d].enabled /\ a \in dev[d].regs

(***************************************************************************)
(* The two stores agree, though no lock covers both: unless the worker has *)
(* been told to stop or is storing the results of d, a device with a state *)
(* published in this session shows "Ok" only when every register of it is  *)
(* valid in RegisterTable, and "Error" only when one is not.  A register   *)
(* without a unified address is not in the table, and what it did is not   *)
(* seen there: a device that has one may show "Error" on its account.  No  *)
(* address belongs to two devices of the list: the database sees to that,  *)
(* and every handler here loads again what it has changed.                 *)
(***************************************************************************)
Storing(w, d) == cur[w] = d /\ pc[w] \in {"fields", "publish"}

StatusMatchesTable ==
    \A w \in Worker : Alive(w) /\ run[w] =>
        \A d \in DOMAIN snap[w] : prev[d] # "Unknown" /\ ~Storing(w, d) =>
            /\ dev[d].status = prev[d]
            /\ \A a \in dev[d].regs \cap Addr : table[a].owner = d
            /\ prev[d] = "Ok" => \A a \in dev[d].regs \cap Addr : table[a].ok
            /\ prev[d] = "Error" /\ dev[d].regs \subseteq Addr =>
                  \E a \in dev[d].regs : ~table[a].ok

(***************************************************************************)
(* A device that is failing has an alarm as its last message, unless the   *)
(* process is on its way out.                                              *)
(***************************************************************************)
ErrorIsAlarmed ==
    ~exiting => \A d \in Device : prev[d] = "Error" => log[d] = "alarm"

(***************************************************************************)
(* Once stop() has returned, no worker writes to the stores any more:      *)
(* RegisterTable stays as it is until polling starts again.                *)
(***************************************************************************)
StoppedIsQuiet ==
    [][~pmRunning /\ ~pmRunning' /\ main = "idle" /\ main' = "idle"
        => UNCHANGED <<table, log>>]_vars

(***************************************************************************)
(* stop() returns: a request to stop ends with every worker joined.        *)
(***************************************************************************)
StopCompletes == main = "requesting" ~> main # "requesting"

(***************************************************************************)
(* A device that is being polled gets a state, however long the other RS485 *)
(* devices take, unless polling is stopped or the port could not be opened. *)
(***************************************************************************)
EveryDevicePolled ==
    \A w \in Worker, d \in Device :
        (pc[w] = "begin" /\ d \in DOMAIN snap[w] /\ snap[w][d] # {})
            ~> (prev[d] # "Unknown" \/ main # "idle" \/ pc[w] = "done")
=============================================================================
