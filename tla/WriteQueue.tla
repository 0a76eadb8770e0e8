----------------------------- MODULE WriteQueue -----------------------------
(***************************************************************************)
(* Register writes on their way to the devices.  HTTP, HMI and Modbus      *)
(* clients put WriteRequests into DeviceList::m_writes on the main thread; *)
(* the polling workers take a device's list as a whole and try its         *)
(* requests one by one, putting a failed one back at the end of the queue. *)
(*                                                                         *)
(* Each device has a flusher of its own here.  The RS485 devices share one *)
(* thread in the code, so their interleavings are fewer than the model's.  *)
(* The polling that goes on between two flushes is the subject of module   *)
(* Polling and touches no variable of this one.                            *)
(***************************************************************************)
EXTENDS Integers, Sequences, FiniteSets

CONSTANTS
    Device,     \* device ids
    Serial,     \* the devices on the RS485 bus
    MaxAddr,    \* unified addresses are 0 .. MaxAddr
    Retries,    \* WriteRequest::retryCount of a new request (3 in the code)
    MaxWrites,  \* bound: number of write requests considered
    NoDevice    \* the owner of an unmapped address

ASSUME WriteQueueAssumption ==
    /\ Serial \subseteq Device
    /\ MaxAddr \in Nat
    /\ Retries \in Nat
    /\ MaxWrites \in Nat
    /\ NoDevice \notin Device

Addr == 0 .. MaxAddr
Id   == 1 .. MaxWrites

(***************************************************************************)
(* What writeField() tells apart: a word register of one or two words, a   *)
(* coil, and the input types, which Modbus cannot write.                   *)
(***************************************************************************)
Kind == {"word", "wide", "coil", "input"}
Length(kind) == IF kind = "wide" THEN 2 ELSE 1

RegisterConfig == [owner: Device \cup {NoDevice}, readOnly: BOOLEAN, kind: Kind]
WriteRequest   == [id: Id, config: RegisterConfig, words: 0 .. 2, bits: 0 .. 2,
                   retryCount: 0 .. Retries]

VARIABLES
    phase,    \* PollingManager: "stopped", "running" or "stopping"
    device,   \* DeviceList: each device is "enabled", "disabled" or "absent"
    reg,      \* the register configured at each unified address
    m_writes, \* DeviceList::m_writes: device -> queue of requests
    active,   \* devices whose worker thread is running
    inFlush,  \* devices whose worker is inside flushWrites()
    taken,    \* the rest of the list that flushWrites() took
    todo,     \* addresses forwardWrite() has still to deal with, in order
    next,     \* id of the next request
    \* ---- history, for the properties only ----
    state,    \* id -> "none", "pending", "done" (written), "dropped" or "lost"
    tries,    \* id -> number of calls of writeField()
    reached   \* ids whose value has been written to the device

catalog == <<phase, device, reg>>
worker  == <<active, inFlush, taken>>
history == <<state, tries, reached>>
vars    == <<catalog, m_writes, worker, todo, next, history>>

TypeOK ==
    /\ phase \in {"stopped", "running", "stopping"}
    /\ device \in [Device -> {"enabled", "disabled", "absent"}]
    /\ reg \in [Addr -> RegisterConfig]
    /\ m_writes \in [Device -> Seq(WriteRequest)]
    /\ active \subseteq Device
    /\ inFlush \subseteq active
    /\ taken \in [Device -> Seq(WriteRequest)]
    /\ todo \in Seq(Addr)
    /\ next \in 1 .. MaxWrites + 1
    /\ state \in [Id -> {"none", "pending", "done", "dropped", "lost"}]
    /\ tries \in [Id -> 0 .. Retries + 1]
    /\ reached \subseteq Id

Unmapped == [owner |-> NoDevice, readOnly |-> FALSE, kind |-> "word"]
Mapped(a) == reg[a].owner # NoDevice
NoWrites == [d \in Device |-> <<>>]

(* Registers belong to existing devices, and no request has been made. *)
Init ==
    /\ phase = "stopped"
    /\ device \in [Device -> {"enabled", "disabled", "absent"}]
    /\ reg \in [Addr -> {Unmapped} \cup
                        {c \in RegisterConfig : /\ c.owner # NoDevice
                                                /\ device[c.owner] # "absent"}]
    /\ m_writes = NoWrites
    /\ active = {}
    /\ inFlush = {}
    /\ taken = NoWrites
    /\ todo = <<>>
    /\ next = 1
    /\ state = [i \in Id |-> "none"]
    /\ tries = [i \in Id |-> 0]
    /\ reached = {}
-----------------------------------------------------------------------------
(***************************************************************************)
(* Requests.  An HTTP handler runs on the main thread, so no other handler *)
(* runs while forwardWrite() is enqueueing.                                *)
(***************************************************************************)
Idle == todo = <<>>

(* Variant: the newest request goes first. *)
EnqueueAtHead(a, words, bits) ==
    LET req == [id |-> next, config |-> reg[a], words |-> words, bits |-> bits,
                retryCount |-> Retries]
    IN  /\ next \in Id
        /\ m_writes' = [m_writes EXCEPT ![reg[a].owner] = <<req>> \o @]
        /\ next' = next + 1
        /\ state' = [state EXCEPT ![next] = "pending"]
        /\ UNCHANGED <<tries, reached>>

(* DeviceList::enqueueWrite() of a new request. *)
Enqueue(a, words, bits) ==
    LET req == [id |-> next, config |-> reg[a], words |-> words, bits |-> bits,
                retryCount |-> Retries]
    IN  /\ next \in Id
        /\ m_writes' = [m_writes EXCEPT ![reg[a].owner] = Append(@, req)]
        /\ next' = next + 1
        /\ state' = [state EXCEPT ![next] = "pending"]
        /\ UNCHANGED <<tries, reached>>

Enabled(a) == device[reg[a].owner] = "enabled"

(* POST /api/registers/<id>/write: the client chooses the number of values. *)
HandleWriteRegister(a, n) ==
    /\ Idle
    /\ Mapped(a)
    /\ ~reg[a].readOnly
    /\ Enabled(a)
    /\ Enqueue(a, n, IF reg[a].kind = "coil" THEN n ELSE 0)
    /\ UNCHANGED <<catalog, worker, todo>>

(***************************************************************************)
(* POST /api/hmi/write: the tag's own access, when it has one, replaces    *)
(* the register's read-only flag.                                          *)
(***************************************************************************)
HandlePostHmiWrite(a, access) ==
    /\ Idle
    /\ Mapped(a)
    /\ (IF access = "" THEN ~reg[a].readOnly ELSE access = "rw")
    /\ Enabled(a)
    /\ Enqueue(a, 1, IF reg[a].kind = "coil" THEN 1 ELSE 0)
    /\ UNCHANGED <<catalog, worker, todo>>

(***************************************************************************)
(* A Modbus write of the addresses lo .. hi: refused as a whole when       *)
(* one of them is read-only or on a disabled device.  The requests are     *)
(* then enqueued one lock at a time, with the worker threads running in    *)
(* between; unmapped addresses are passed over.                            *)
(***************************************************************************)
Refused(lo, hi) ==
    \E a \in lo .. hi : Mapped(a) /\ (reg[a].readOnly \/ ~Enabled(a))

ForwardWrite(lo, hi) ==
    /\ Idle
    /\ lo <= hi
    /\ ~Refused(lo, hi)
    /\ todo' = [i \in 1 .. hi - lo + 1 |-> lo + i - 1]
    /\ next + Cardinality({a \in lo .. hi : Mapped(a)}) - 1 <= MaxWrites
    /\ UNCHANGED <<catalog, m_writes, worker, next, history>>

ForwardOne(a) ==
    /\ ~Idle
    /\ a = Head(todo)
    /\ IF Mapped(a) THEN Enqueue(a, 1, 0) ELSE UNCHANGED <<m_writes, next, history>>
    /\ todo' = Tail(todo)
    /\ UNCHANGED <<catalog, worker>>
-----------------------------------------------------------------------------
(***************************************************************************)
(* Polling starts and stops.  A TCP worker without registers returns at    *)
(* once, the serial worker when the RS485 port does not open.              *)
(***************************************************************************)
HasRegisters(d) == \E a \in Addr : reg[a].owner = d

Start(portOpens) ==
    /\ Idle
    /\ phase = "stopped"
    /\ phase' = "running"
    /\ active' = {d \in Device : /\ device[d] = "enabled"
                                 /\ IF d \in Serial THEN portOpens ELSE HasRegisters(d)}
    /\ UNCHANGED <<device, reg, m_writes, inFlush, taken, todo, next, history>>

Stop ==
    /\ Idle
    /\ phase = "running"
    /\ phase' = "stopping"
    /\ UNCHANGED <<device, reg, m_writes, worker, todo, next, history>>

(* m_running is read between two polls, never inside flushWrites(). *)
Exit(d) ==
    /\ phase = "stopping"
    /\ d \in active \ inFlush
    /\ active' = active \ {d}
    /\ UNCHANGED <<catalog, m_writes, inFlush, taken, todo, next, history>>

Join ==
    /\ phase = "stopping"
    /\ active = {}
    /\ phase' = "stopped"
    /\ UNCHANGED <<device, reg, m_writes, worker, todo, next, history>>
-----------------------------------------------------------------------------
(***************************************************************************)
(* Configuration handlers, answered 409 while polling.  A request keeps    *)
(* the configuration its register had when it was accepted, and changing   *)
(* or deleting a register or a device leaves the queue alone.              *)
(***************************************************************************)
(* Variant: rejectIfPolling() is forgotten. *)
CanAlwaysEdit == Idle

CanEdit == Idle /\ phase = "stopped"

Pending(d) == {taken[d][n].id : n \in DOMAIN taken[d]} \cup
              {m_writes[d][n].id : n \in DOMAIN m_writes[d]}

AllPending == UNION {Pending(d) : d \in Device}

(* DeviceList::reset() clears m_writes too. *)
Reset ==
    /\ m_writes' = NoWrites
    /\ state' = [i \in Id |-> IF i \in AllPending THEN "lost" ELSE state[i]]
    /\ UNCHANGED <<tries, reached>>

PostDevice(d, status) ==
    /\ CanEdit
    /\ device[d] = "absent"
    /\ device' = [device EXCEPT ![d] = status]
    /\ Reset
    /\ UNCHANGED <<phase, reg, worker, todo, next>>

PutDevice(d, status) ==
    /\ CanEdit
    /\ device[d] # "absent"
    /\ device' = [device EXCEPT ![d] = status]
    /\ UNCHANGED <<phase, reg, m_writes, worker, todo, next, history>>

DeleteDevice(d) ==
    /\ CanEdit
    /\ device[d] # "absent"
    /\ device' = [device EXCEPT ![d] = "absent"]
    /\ reg' = [a \in Addr |-> IF reg[a].owner = d THEN Unmapped ELSE reg[a]]
    /\ UNCHANGED <<phase, m_writes, worker, todo, next, history>>

(* POST, PUT or DELETE of the register at an address. *)
EditRegister(a, c) ==
    /\ CanEdit
    /\ \/ c = Unmapped
       \/ c.owner # NoDevice /\ device[c.owner] # "absent"
    /\ reg' = [reg EXCEPT ![a] = c]
    /\ UNCHANGED <<phase, device, m_writes, worker, todo, next, history>>

(* The queue lives in memory only: a restart of the process loses it. *)
ProcessRestart ==
    /\ CanEdit
    /\ Reset
    /\ UNCHANGED <<catalog, worker, todo, next>>
-----------------------------------------------------------------------------
(***************************************************************************)
(* DataCollector::flushWrites().                                           *)
(***************************************************************************)
(* Variant: the list is copied and cleared only after the flush. *)
TakeWritesCopy(d) ==
    /\ d \in active \ inFlush
    /\ inFlush' = inFlush \cup {d}
    /\ taken' = [taken EXCEPT ![d] = m_writes[d]]
    /\ UNCHANGED <<catalog, m_writes, active, todo, next, history>>

TakeWrites(d) ==
    /\ d \in active \ inFlush
    /\ inFlush' = inFlush \cup {d}
    /\ taken' = [taken EXCEPT ![d] = m_writes[d]]
    /\ m_writes' = [m_writes EXCEPT ![d] = <<>>]
    /\ UNCHANGED <<catalog, active, todo, next, history>>

(* What RegisterExecutor::writeField() lets through to the device client. *)
Writable(req) ==
    /\ ~req.config.readOnly
    /\ CASE req.config.kind = "coil"            -> req.bits = Length("coil")
         [] req.config.kind \in {"word", "wide"} -> req.words = Length(req.config.kind)
         [] OTHER                                -> FALSE

Requeue(d, req) ==
    m_writes' = [m_writes EXCEPT ![d] = Append(@, [req EXCEPT !.retryCount = @ - 1])]

(* One turn of the loop, for the request at the head of the taken list. *)
FlushNext(d, req) ==
    /\ d \in inFlush
    /\ taken[d] # <<>>
    /\ req = Head(taken[d])
    /\ taken' = [taken EXCEPT ![d] = Tail(@)]
    /\ UNCHANGED <<catalog, active, inFlush, todo, next>>

Finish(req, how) == state' = [state EXCEPT ![req.id] = how]

(* Variant: the request is kept until there is a connection. *)
ConnectFailsKept(d, req) ==
    /\ FlushNext(d, req)
    /\ m_writes' = [m_writes EXCEPT ![d] = Append(@, req)]
    /\ UNCHANGED <<state, tries, reached>>

(* No connection: the request is dropped without a retry. *)
ConnectFails(d, req) ==
    /\ FlushNext(d, req)
    /\ Finish(req, "dropped")
    /\ UNCHANGED <<m_writes, tries, reached>>

WriteSucceeds(d, req) ==
    /\ FlushNext(d, req)
    /\ Writable(req)
    /\ tries' = [tries EXCEPT ![req.id] = @ + 1]
    /\ reached' = reached \cup {req.id}
    /\ Finish(req, "done")
    /\ UNCHANGED m_writes

(***************************************************************************)
(* writeField() fails: it refused the request, the device did not get it,  *)
(* or the device did it and the answer was lost.                           *)
(***************************************************************************)
WriteFails(d, req, executed) ==
    /\ FlushNext(d, req)
    /\ tries' = [tries EXCEPT ![req.id] = @ + 1]
    /\ executed => Writable(req)
    /\ reached' = reached \cup (IF executed THEN {req.id} ELSE {})
    /\ IF req.retryCount > 0
       THEN Requeue(d, req) /\ UNCHANGED state
       ELSE Finish(req, "dropped") /\ UNCHANGED m_writes

FlushEnds(d) ==
    /\ d \in inFlush
    /\ taken[d] = <<>>
    /\ inFlush' = inFlush \ {d}
    /\ UNCHANGED <<catalog, m_writes, active, taken, todo, next, history>>

Flush(d) ==
    \/ TakeWrites(d)
    \/ FlushEnds(d)
    \/ \E req \in {taken[d][n] : n \in DOMAIN taken[d]} :
          \/ ConnectFails(d, req)
          \/ WriteSucceeds(d, req)
          \/ \E executed \in BOOLEAN : WriteFails(d, req, executed)
-----------------------------------------------------------------------------
ClientCall ==
    \/ \E a \in Addr, n \in 0 .. 2 : HandleWriteRegister(a, n)
    \/ \E a \in Addr, access \in {"", "r", "rw"} : HandlePostHmiWrite(a, access)
    \/ \E lo, hi \in Addr : ForwardWrite(lo, hi)

Edit ==
    \/ \E d \in Device, status \in {"enabled", "disabled"} :
          PostDevice(d, status) \/ PutDevice(d, status)
    \/ \E d \in Device : DeleteDevice(d)
    \/ \E a \in Addr, c \in RegisterConfig : EditRegister(a, c)

Next ==
    \/ ClientCall
    \/ \E a \in Addr : ForwardOne(a)
    \/ \E portOpens \in BOOLEAN : Start(portOpens)
    \/ Stop
    \/ Join
    \/ ProcessRestart
    \/ Edit
    \/ \E d \in Device : Exit(d) \/ Flush(d)

Spec == Init /\ [][Next]_vars

(***************************************************************************)
(* forwardWrite() and stop() run to their end, and the workers are         *)
(* scheduled: device I/O has a timeout, and every round of a worker calls  *)
(* flushWrites() and reads m_running, so a worker cannot pass over the     *)
(* chance to leave for ever.                                               *)
(***************************************************************************)
Fairness ==
    /\ \A a \in Addr : WF_vars(ForwardOne(a))
    /\ WF_vars(Join)
    /\ \A d \in Device : SF_vars(Exit(d)) /\ WF_vars(Flush(d))
-----------------------------------------------------------------------------
(***************************************************************************)
(* A request that was accepted and has not been settled is in exactly one  *)
(* place, on its own device's list: neither a flush that runs while a      *)
(* client enqueues, nor a retry, nor stop() loses or duplicates one.       *)
(***************************************************************************)
Waiting(d) == taken[d] \o m_writes[d]

NothingLostOrDoubled ==
    /\ \A d \in Device : \A m, n \in DOMAIN Waiting(d) :
          /\ Waiting(d)[m].config.owner = d
          /\ Waiting(d)[m].id = Waiting(d)[n].id => m = n
    /\ AllPending = {i \in Id : state[i] = "pending"}

(***************************************************************************)
(* Requests for a device get their first attempt in the order in which     *)
(* they were accepted: a request is never tried while an older one that    *)
(* has not been tried yet waits.                                           *)
(***************************************************************************)
FirstAttemptsInOrder ==
    [][\A i \in Id : tries'[i] > tries[i] =>
          \A d \in Device : \A n \in DOMAIN Waiting(d) :
              (i \in Pending(d) /\ Waiting(d)[n].id < i) => tries[Waiting(d)[n].id] > 0]_vars

(***************************************************************************)
(* A disabled or deleted device is never written to, though requests for   *)
(* it may wait in the queue: only a device that is enabled at that time    *)
(* receives a value.                                                       *)
(***************************************************************************)
OnlyEnabledAreWritten ==
    [][\A i \in reached' \ reached : \E d \in Device :
          i \in Pending(d) /\ device[d] = "enabled"]_vars

(***************************************************************************)
(* An accepted request does not wait for ever: on a device that is being   *)
(* polled it is written or given up, unless polling stops first.           *)
(***************************************************************************)
WritesSettle ==
    \A i \in Id, d \in Device :
        (i \in Pending(d) /\ d \in active)
            ~> (state[i] # "pending" \/ phase # "running")
=============================================================================
