----------------------------- MODULE Transport -----------------------------
(***************************************************************************)
(* The five device clients over their link: the RS485 bus that Modbus RTU, *)
(* Modbus ASCII and PC-Link devices share, or the socket of one Modbus TCP *)
(* or PC-Link SUM device.  A worker sends one request after the other;     *)
(* answers may be lost, be late or be exceptions, and what arrives late    *)
(* meets a later request.                                                  *)
(*                                                                         *)
(* A frame is what the clients look at: station, function, amount of data. *)
(* Frames arrive whole and with a correct checksum; a damaged one is as    *)
(* good as lost.  Timeouts are choices: an answer may come before or after.*)
(***************************************************************************)
EXTENDS Naturals, Sequences

CONSTANTS
    Station,      \* slaveId of the devices on the bus
    None,         \* no request, no result
    Quantity,     \* numbers of registers read at a time
    MaxRequests   \* bound: requests sent

(* createDeviceClient() *)
SerialClient == {"ModbusRtu", "ModbusAscii", "PcLink"}
TcpClient    == {"ModbusTcp", "PcLinkSum"}
Client       == SerialClient \cup TcpClient

(* readWords(), readBits(); writes of words and bits are told apart by     *)
(* nothing the properties look at.                                         *)
Function == {"words", "bits", "write"}

Id      == 1 .. MaxRequests
Request == [id: Id, slaveId: Station, fc: Function, count: Quantity \cup {0}]
Frame   == [id: Id, slaveId: Station, fc: Function, count: Quantity \cup {0},
            exception: BOOLEAN]
Result  == [old: SUBSET Id, frame: Frame \cup {None}, request: Request]

ASSUME TransportAssumption ==
    /\ Station # {}
    /\ Quantity \subseteq Nat \ {0} /\ MaxRequests \in Nat
    /\ None \notin Result

VARIABLES
    client,    \* the client of the link; on the bus, of all its devices
    request,   \* the request that waits for its answer
    sent,      \* requests sent so far
    wire,      \* answers on their way
    buffer,    \* answers received and not read
    response,  \* answers read for the request
    state,     \* where sendRequest() is
    result,    \* the request, its accepted answer and the answers older
               \* than the request that were in the buffer
    timeouts   \* history: requests given up since the link was opened

vars == <<client, request, sent, wire, buffer, response, state, result, timeouts>>

TypeOK ==
    /\ client \in Client
    /\ request \in Request \cup {None}
    /\ sent \in 0 .. MaxRequests
    /\ wire \subseteq Frame
    /\ buffer \in Seq(Frame) /\ response \in Seq(Frame)
    /\ state \in {"idle", "waiting", "reading"}
    /\ result \in Result \cup {None}
    /\ timeouts \in Nat

Init ==
    /\ client \in Client
    /\ request = None
    /\ sent = 0
    /\ wire = {}
    /\ buffer = <<>> /\ response = <<>>
    /\ state = "idle"
    /\ result = None
    /\ timeouts = 0

(* readBits() of the PC-Link clients returns an error and sends nothing. *)
Modbus == {"ModbusRtu", "ModbusAscii", "ModbusTcp"}

Functions == IF client \in Modbus THEN Function ELSE Function \ {"bits"}

Stations == IF client \in SerialClient THEN Station ELSE {CHOOSE s \in Station : TRUE}
-----------------------------------------------------------------------------
(* The build functions: a write's answer carries no data. *)
RequestFrame(s, fc, n) ==
    [id |-> sent + 1, slaveId |-> s, fc |-> fc, count |-> IF fc = "write" THEN 0 ELSE n]

(* The answers a device may give; none is always possible. *)
Answers(r) ==
    {[id |-> r.id, slaveId |-> r.slaveId, fc |-> r.fc, count |-> r.count, exception |-> e]
        : e \in BOOLEAN}

Send(r) ==
    /\ state = "idle"
    /\ sent < MaxRequests
    /\ sent' = sent + 1
    /\ request' = r
    /\ \/ \E a \in Answers(r) : wire' = wire \cup {a}
       \/ UNCHANGED wire
    /\ state' = "waiting"
    /\ result' = [old |-> {buffer[i].id : i \in 1 .. Len(buffer)}, frame |-> None, request |-> r]
    /\ UNCHANGED <<client, response, timeouts>>

(* Variant: the buffers are not cleared. *)
SerialSendKeeping(s, fc, n) ==
    /\ client \in SerialClient
    /\ Send(RequestFrame(s, fc, n))
    /\ UNCHANGED buffer

(* sendRequest() on the bus clears what has arrived before. *)
SerialSend(s, fc, n) ==
    /\ client \in SerialClient
    /\ Send(RequestFrame(s, fc, n))
    /\ buffer' = <<>>

(* sendRequest() on a socket does not. *)
TcpSend(s, fc, n) ==
    /\ client \in TcpClient
    /\ Send(RequestFrame(s, fc, n))
    /\ UNCHANGED buffer

Arrive(a) ==
    /\ wire' = wire \ {a}
    /\ buffer' = Append(buffer, a)
    /\ UNCHANGED <<client, request, sent, response, state, result, timeouts>>

(* waitForReadyRead(), readAll(): the first time, and again for as long as *)
(* there is no silence.  PC-Link SUM takes the end of a frame for the end. *)
ReadAll ==
    /\ \/ state = "waiting"
       \/ state = "reading" /\ client # "PcLinkSum"
    /\ buffer # <<>>
    /\ response' = response \o buffer
    /\ buffer' = <<>>
    /\ state' = "reading"
    /\ UNCHANGED <<client, request, sent, wire, result, timeouts>>

Timeout ==
    /\ state = "waiting"
    /\ state' = "idle"
    /\ request' = None
    /\ timeouts' = timeouts + 1
    /\ UNCHANGED <<client, sent, wire, buffer, response, result>>
-----------------------------------------------------------------------------
(* The byte count of a Modbus answer: eight bits share a byte. *)
dataBytes(fc, count) == IF fc = "bits" THEN (count + 7) \div 8 ELSE 2 * count

(* Variant: any amount of data will do. *)
verifyFunctionOnly(f) ==
    /\ f.slaveId = request.slaveId
    /\ ~f.exception
    /\ f.fc = request.fc

(* verifyResponse() of Modbus, once the frame has been found *)
verifyResponse(f) ==
    /\ f.slaveId = request.slaveId
    /\ ~f.exception
    /\ f.fc = request.fc
    /\ dataBytes(f.fc, f.count) = dataBytes(request.fc, request.count)

(* RTU: the checksum is taken over all that was read, so it is one frame.  *)
rtuAccepts == Len(response) = 1 /\ verifyResponse(response[1])

(* ASCII: the first frame that starts and ends; others are not looked at.  *)
asciiAccepts == verifyResponse(response[1])

(* TCP: of reads the first frame, whatever follows; writes want the exact  *)
(* length.  The transaction id is not compared.                            *)
tcpAccepts ==
    /\ verifyResponse(response[1])
    /\ request.fc = "write" => Len(response) = 1

(* PC-Link: neither station nor command are compared.  A read wants one    *)
(* frame that starts with STX and is long enough, a write ACK in front.    *)
pclinkAccepts ==
    LET f == response[1] IN
    /\ ~f.exception
    /\ f.fc = request.fc
    /\ request.fc = "words" => Len(response) = 1 /\ f.count >= request.count

(* PC-Link SUM: command OK, one frame, long enough. *)
sumAccepts ==
    LET f == response[1] IN
    /\ Len(response) = 1
    /\ ~f.exception
    /\ f.fc = request.fc
    /\ f.count >= request.count

Accepts ==
    CASE client = "ModbusRtu"   -> rtuAccepts
      [] client = "ModbusAscii" -> asciiAccepts
      [] client = "ModbusTcp"   -> tcpAccepts
      [] client = "PcLink"      -> pclinkAccepts
      [] client = "PcLinkSum"   -> sumAccepts

(* Silence: the answer is accepted or an error is returned. *)
Finish ==
    /\ state = "reading"
    /\ state' = "idle"
    /\ request' = None
    /\ response' = <<>>
    /\ result' = IF Accepts THEN [result EXCEPT !.frame = response[1]] ELSE result
    /\ UNCHANGED <<client, sent, wire, buffer, timeouts>>

(* Variant: a client that connects again keeps what the old socket had. *)
ReopenKeeping ==
    /\ state = "idle"
    /\ timeouts' = IF client \in TcpClient THEN 0 ELSE timeouts
    /\ result' = None
    /\ UNCHANGED <<client, request, sent, wire, buffer, response, state>>

(* A new connection knows nothing of the answers to the old one; on the    *)
(* bus they may still arrive.                                              *)
Reopen ==
    /\ state = "idle"
    /\ buffer' = <<>>
    /\ wire' = IF client \in TcpClient THEN {} ELSE wire
    /\ timeouts' = IF client \in TcpClient THEN 0 ELSE timeouts
    /\ result' = None
    /\ UNCHANGED <<client, request, sent, response, state>>

Next ==
    \/ \E s \in Stations, fc \in Functions, n \in Quantity :
          SerialSend(s, fc, n) \/ TcpSend(s, fc, n)
    \/ \E a \in wire : Arrive(a)
    \/ ReadAll
    \/ Timeout
    \/ Finish
    \/ Reopen

Spec == Init /\ [][Next]_vars
-----------------------------------------------------------------------------
Accepted == result # None /\ result.frame # None

(***************************************************************************)
(* On the bus, an answer that had arrived before the request was sent is   *)
(* never taken for its answer.  (On a socket it may be.)                   *)
(***************************************************************************)
NoOldAnswer ==
    Accepted /\ client \in SerialClient => result.frame.id \notin result.old

(***************************************************************************)
(* However answers are delayed and mixed up, values are only taken from an *)
(* answer to the same function with enough data, and, by Modbus clients,   *)
(* from the station that was asked.  For words that is at least (with      *)
(* Modbus exactly) the number asked for.  Of bits, Modbus clients compare  *)
(* bytes: a late answer may lack up to seven bits that were asked for,     *)
(* those that only fill its last byte.                                     *)
(***************************************************************************)
AnswerFits ==
    Accepted =>
        LET f == result.frame
            r == result.request
        IN  /\ ~f.exception
            /\ f.fc = r.fc
            /\ f.count + (IF f.fc = "bits" THEN 7 ELSE 0) >= r.count
            /\ client \in Modbus =>
                  /\ f.slaveId = r.slaveId
                  /\ f.fc # "bits" => f.count = r.count

(***************************************************************************)
(* As long as no request has been given up, every client gives each        *)
(* request its own answer; on a socket, connecting again makes up for      *)
(* those that were.                                                        *)
(***************************************************************************)
OwnAnswer ==
    Accepted /\ timeouts = 0 => result.frame.id = result.request.id
=============================================================================
