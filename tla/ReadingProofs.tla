--------------------------- MODULE ReadingProofs ----------------------------
(***************************************************************************)
(* Proofs about how a value is read: the device clients for every set of   *)
(* stations and any number of requests and registers, and the register     *)
(* table for every register configuration, every answer and every choice   *)
(* of intervals.                                                           *)
(***************************************************************************)
EXTENDS Transport, RegisterTable, WellFoundedInduction, FiniteSetTheorems, TLAPS

(* The device clients. *)

Elements(s) == {s[i] : i \in 1 .. Len(s)}

(* sendRequest() reads for the request it sent last, and for it alone; a   *)
(* write asks for no registers, which is why PC-Link need not count them,  *)
(* and PC-Link reads no bits.                                              *)
WantsNoneOfWrites(r) == r.fc = "write" => r.count = 0

RequestInv ==
    /\ state # "idle" => /\ request \in Request /\ request.id = sent
                         /\ WantsNoneOfWrites(request) /\ request.fc \in Functions
                         /\ result # None
                         /\ result.request = request /\ result.frame = None
    /\ state # "reading" => response = <<>>
    /\ state = "reading" => response # <<>>

(* An answer is in one place, and a device answers a request once. *)
PlaceInv ==
    /\ \A a \in wire \cup Elements(buffer) : a.id <= sent
    /\ \A a, b \in wire : a.id = b.id => a = b
    /\ \A a \in wire, b \in Elements(buffer) : a.id # b.id

(* On the bus, answers that were thrown away before a request do not come back. *)
OldInv ==
    result # None /\ client \in SerialClient =>
        \A a \in wire \cup Elements(buffer) \cup Elements(response) : a.id \notin result.old

(* While nothing was given up, the only answer there is belongs to the request. *)
OwnInv ==
    timeouts = 0 =>
        /\ state = "idle" => wire = {} /\ buffer = <<>>
        /\ state = "waiting" =>
              \/ buffer = <<>> /\ \A a \in wire : a.id = sent
              \/ wire = {} /\ \E a \in Frame : buffer = <<a>> /\ a.id = sent
        /\ state = "reading" =>
              /\ wire = {} /\ buffer = <<>>
              /\ \E a \in Frame : response = <<a>> /\ a.id = sent

Inv ==
    /\ TypeOK
    /\ RequestInv /\ PlaceInv /\ OldInv /\ OwnInv
    /\ NoOldAnswer /\ AnswerFits /\ OwnAnswer
-----------------------------------------------------------------------------
(* The elements of the sequences that the steps make. *)
LEMMA ElementsFacts ==
    ASSUME NEW T, NEW s \in Seq(T)
    PROVE  /\ Elements(s) \subseteq T
           /\ Elements(<<>>) = {}
           /\ s # <<>> => s[1] \in T /\ s[1] \in Elements(s)
  BY DEF Elements

LEMMA ElementsAppend ==
    ASSUME NEW T, NEW s \in Seq(T), NEW a \in T
    PROVE  Elements(Append(s, a)) = Elements(s) \cup {a}
<1> DEFINE q == Append(s, a)
<1>1. /\ Len(q) = Len(s) + 1 /\ q[Len(s) + 1] = a /\ Len(s) \in Nat
      /\ \A i \in 1 .. Len(s) : q[i] = s[i]
      OBVIOUS
<1> HIDE DEF q
<1>2. ASSUME NEW x \in Elements(q) PROVE x \in Elements(s) \cup {a}
  <2>1. PICK i \in 1 .. Len(q) : x = q[i]
        BY <1>2 DEF Elements
  <2>2. i = Len(s) + 1 \/ i \in 1 .. Len(s)
        BY <1>1, <2>1
  <2> QED
      BY <1>1, <2>1, <2>2 DEF Elements
<1>3. ASSUME NEW x \in Elements(s) PROVE x \in Elements(q)
  <2>1. PICK i \in 1 .. Len(s) : x = s[i]
        BY <1>3 DEF Elements
  <2>2. i \in 1 .. Len(q) /\ q[i] = x
        BY <1>1, <2>1
  <2> QED
      BY <2>2 DEF Elements
<1>4. a \in Elements(q)
  <2>1. Len(q) \in 1 .. Len(q) /\ q[Len(q)] = a
        BY <1>1
  <2> QED
      BY <2>1 DEF Elements
<1>5. Elements(q) = Elements(s) \cup {a}
      BY <1>2, <1>3, <1>4
<1> QED
    BY <1>5 DEF q

LEMMA ElementsConcat ==
    ASSUME NEW T, NEW s \in Seq(T), NEW t \in Seq(T)
    PROVE  Elements(s \o t) \subseteq Elements(s) \cup Elements(t)
<1> SUFFICES ASSUME NEW x \in Elements(s \o t) PROVE x \in Elements(s) \cup Elements(t)
    OBVIOUS
<1>1. PICK i \in 1 .. Len(s \o t) : x = (s \o t)[i]
      BY DEF Elements
<1>2. /\ Len(s) \in Nat /\ Len(t) \in Nat /\ Len(s \o t) = Len(s) + Len(t)
      /\ x = IF i <= Len(s) THEN s[i] ELSE t[i - Len(s)]
      BY <1>1
<1>3. CASE i <= Len(s)
      BY <1>2, <1>3 DEF Elements
<1>4. CASE i > Len(s)
  <2>1. i - Len(s) \in 1 .. Len(t) /\ x = t[i - Len(s)]
        BY <1>2, <1>4
  <2> QED
      BY <2>1 DEF Elements
<1> QED
    BY <1>2, <1>3, <1>4

LEMMA InitInv == Init => Inv
<1> SUFFICES ASSUME Init PROVE Inv
    OBVIOUS
<1>1. TypeOK
      BY TransportAssumption DEF Init, TypeOK
<1>2. Elements(buffer) = {} /\ Elements(response) = {}
      BY DEF Init, Elements
<1> QED
    BY <1>1, <1>2 DEF Init, Inv, RequestInv, Functions, PlaceInv, OldInv, OwnInv, NoOldAnswer,
                      AnswerFits, OwnAnswer, Accepted

(* The device that is asked is a device, and its answer is a frame with the number of the request. *)
LEMMA RequestType ==
    ASSUME TypeOK, sent < MaxRequests, NEW s \in Stations, NEW fc \in Functions,
           NEW n \in Quantity
    PROVE  /\ RequestFrame(s, fc, n) \in Request
           /\ RequestFrame(s, fc, n).id = sent + 1
           /\ WantsNoneOfWrites(RequestFrame(s, fc, n))
           /\ RequestFrame(s, fc, n).fc \in Functions
           /\ \A a \in Answers(RequestFrame(s, fc, n)) : a \in Frame /\ a.id = sent + 1
<1>1. s \in Station
      BY TransportAssumption DEF Stations
<1>2. sent + 1 \in Id
      BY TransportAssumption DEF TypeOK, Id
<1>3. /\ (IF fc = "write" THEN 0 ELSE n) \in Quantity \cup {0}
      /\ fc \in Function
      BY DEF Functions, Function
<1>4. /\ RequestFrame(s, fc, n) \in Request
      /\ RequestFrame(s, fc, n).id = sent + 1
      /\ WantsNoneOfWrites(RequestFrame(s, fc, n))
      /\ RequestFrame(s, fc, n).fc = fc
      BY <1>1, <1>2, <1>3 DEF RequestFrame, Request, WantsNoneOfWrites
<1> HIDE DEF Request
<1>5. ASSUME NEW r \in Request, NEW a \in Answers(r) PROVE a \in Frame /\ a.id = r.id
      BY <1>5 DEF Answers, Frame, Request
<1> QED
    BY <1>4, <1>5

(* What sending a request does, whether the buffer is cleared (the bus) or not. *)
LEMMA SendInv ==
    ASSUME Inv, NEW r \in Request, r.id = sent + 1, WantsNoneOfWrites(r), r.fc \in Functions,
           \A a \in Answers(r) : a \in Frame /\ a.id = sent + 1,
           Send(r),
           \/ client \in SerialClient /\ buffer' = <<>>
           \/ client \in TcpClient /\ buffer' = buffer
    PROVE  Inv'
<1> USE DEF Inv
<1>1. /\ state = "idle" /\ sent < MaxRequests /\ sent' = sent + 1 /\ request' = r
      /\ state' = "waiting" /\ UNCHANGED <<client, response, timeouts>>
      /\ result' = [old |-> {buffer[i].id : i \in 1 .. Len(buffer)}, frame |-> None,
                    request |-> r]
      BY DEF Send
<1>2. sent \in Nat /\ sent' \in 0 .. MaxRequests /\ sent' \in Nat
      BY <1>1, TransportAssumption DEF TypeOK
<1>3. /\ wire' \subseteq Frame
      /\ \A a \in wire' : a \in wire \/ (a.id = sent' /\ \A b \in wire' : b \notin wire => a = b)
  <2>1. CASE UNCHANGED wire
        BY <2>1 DEF TypeOK
  <2>2. CASE \E a \in Answers(r) : wire' = wire \cup {a}
        BY <1>1, <2>2 DEF TypeOK
  <2> QED
      BY <2>1, <2>2 DEF Send
<1>4. /\ result'.old = {b.id : b \in Elements(buffer)}
      /\ result'.frame = None /\ result'.request = r
      BY <1>1 DEF Elements
<1>5. result' \in Result /\ result' # None
  <2>1. {buffer[i].id : i \in 1 .. Len(buffer)} \in SUBSET Id
    <3>1. \A i \in 1 .. Len(buffer) : buffer[i] \in Frame
          BY DEF TypeOK
    <3> QED
        BY <3>1 DEF Frame
  <2> QED
      BY <1>1, <2>1, TransportAssumption DEF Result
<1>6. TypeOK'
  <2>1. buffer' \in Seq(Frame)
    <3>1. <<>> \in Seq(Frame)
          OBVIOUS
    <3> QED
        BY <3>1 DEF TypeOK
  <2> QED
      BY <1>1, <1>2, <1>3, <1>5, <2>1 DEF TypeOK
<1>7. Elements(buffer') \subseteq Elements(buffer) /\ Elements(buffer) \subseteq Frame
      BY ElementsFacts DEF TypeOK
<1>8. PlaceInv'
  <2>1. \A a \in wire \cup Elements(buffer) : a.id <= sent /\ a.id \in Nat
        BY <1>7 DEF PlaceInv, TypeOK, Frame, Id
  <2>2. \A a \in wire' \cup Elements(buffer') : a.id <= sent'
        BY <1>1, <1>2, <1>3, <1>7, <2>1
  <2>3. ASSUME NEW a \in wire', NEW b \in wire', a.id = b.id PROVE a = b
    <3>1. CASE a \in wire /\ b \in wire
          BY <2>3, <3>1 DEF PlaceInv
    <3>2. CASE a \notin wire /\ b \notin wire
          BY <1>3, <3>2
    <3>3. CASE (a \in wire /\ b \notin wire) \/ (a \notin wire /\ b \in wire)
          BY <1>1, <1>2, <1>3, <2>1, <2>3, <3>3
    <3> QED
        BY <3>1, <3>2, <3>3
  <2>4. ASSUME NEW a \in wire', NEW b \in Elements(buffer') PROVE a.id # b.id
    <3>1. b \in Elements(buffer)
          BY <1>7
    <3> QED
        BY <1>1, <1>2, <1>3, <2>1, <3>1 DEF PlaceInv
  <2> QED
      BY <2>2, <2>3, <2>4 DEF PlaceInv
<1>9. OldInv'
  <2> SUFFICES ASSUME client' \in SerialClient,
                      NEW a \in wire' \cup Elements(buffer') \cup Elements(response')
               PROVE  a.id \notin result'.old
      BY DEF OldInv
  <2>1. Elements(buffer') = {} /\ Elements(response') = {}
    <3>1. buffer' = <<>> /\ response' = <<>>
          BY <1>1 DEF RequestInv, Functions, SerialClient, TcpClient
    <3> QED
        BY <3>1 DEF Elements
  <2>2. \A b \in Elements(buffer) : b.id <= sent /\ b.id \in Nat
        BY <1>7 DEF PlaceInv, Frame, Id
  <2>3. \A b \in Elements(buffer) : a.id # b.id
        BY <1>1, <1>2, <1>3, <2>1, <2>2 DEF PlaceInv
  <2> QED
      BY <1>4, <2>3
<1>10. OwnInv'
  <2> SUFFICES ASSUME timeouts = 0
               PROVE  buffer' = <<>> /\ \A a \in wire' : a.id = sent'
      BY <1>1 DEF OwnInv
  <2> QED
      BY <1>1, <1>3 DEF OwnInv
<1>11. RequestInv'
      BY <1>1, <1>4, <1>5 DEF RequestInv, Functions
<1>12. NoOldAnswer' /\ AnswerFits' /\ OwnAnswer'
      BY <1>4 DEF NoOldAnswer, AnswerFits, OwnAnswer, Accepted
<1> QED
    BY <1>6, <1>8, <1>9, <1>10, <1>11, <1>12

(* An answer goes from the wire into the buffer. *)
LEMMA ArriveInv ==
    ASSUME Inv, NEW a \in wire, Arrive(a)
    PROVE  Inv'
<1> USE DEF Inv
<1>1. /\ wire' = wire \ {a} /\ buffer' = Append(buffer, a)
      /\ UNCHANGED <<client, request, sent, response, state, result, timeouts>>
      BY DEF Arrive
<1>2. a \in Frame /\ buffer \in Seq(Frame)
      BY DEF TypeOK
<1>3. Elements(buffer') = Elements(buffer) \cup {a}
      BY <1>1, <1>2, ElementsAppend
<1>4. TypeOK'
  <2>1. buffer' \in Seq(Frame)
        BY <1>1, <1>2
  <2> QED
      BY <1>1, <2>1 DEF TypeOK
<1>5. RequestInv' /\ PlaceInv' /\ OldInv'
      BY <1>1, <1>3 DEF RequestInv, Functions, PlaceInv, OldInv
<1>6. OwnInv'
  <2> SUFFICES ASSUME timeouts = 0
               PROVE  /\ state = "waiting"
                      /\ wire' = {} /\ buffer' = <<a>> /\ a.id = sent
      BY <1>1, <1>2 DEF OwnInv
  <2>1. state = "waiting" /\ buffer = <<>> /\ \A b \in wire : b.id = sent
        BY DEF OwnInv, TypeOK
  <2>2. wire = {a}
        BY <2>1 DEF PlaceInv
  <2> QED
      BY <1>1, <1>2, <2>1, <2>2
<1>7. NoOldAnswer' /\ AnswerFits' /\ OwnAnswer'
      BY <1>1 DEF NoOldAnswer, AnswerFits, OwnAnswer, Accepted
<1> QED
    BY <1>4, <1>5, <1>6, <1>7

LEMMA ReadAllInv ==
    ASSUME Inv, ReadAll
    PROVE  Inv'
<1> USE DEF Inv
<1>1. /\ state \in {"waiting", "reading"} /\ buffer # <<>>
      /\ response' = response \o buffer /\ buffer' = <<>> /\ state' = "reading"
      /\ UNCHANGED <<client, request, sent, wire, result, timeouts>>
      BY DEF ReadAll
<1>2. buffer \in Seq(Frame) /\ response \in Seq(Frame)
      BY DEF TypeOK
<1>3. /\ Elements(buffer') = {}
      /\ Elements(response') \subseteq Elements(response) \cup Elements(buffer)
      BY <1>1, <1>2, ElementsFacts, ElementsConcat
<1>4. response' \in Seq(Frame) /\ buffer' \in Seq(Frame) /\ response' # <<>>
      BY <1>1, <1>2
<1>5. TypeOK'
      BY <1>1, <1>4 DEF TypeOK
<1>6. RequestInv'
      BY <1>1, <1>4 DEF RequestInv, Functions
<1>7. PlaceInv' /\ OldInv'
      BY <1>1, <1>3 DEF PlaceInv, OldInv
<1>8. OwnInv'
  <2> SUFFICES ASSUME timeouts = 0
               PROVE  wire = {} /\ \E a \in Frame : response' = <<a>> /\ a.id = sent
      BY <1>1 DEF OwnInv
  <2>1. state = "waiting" /\ wire = {} /\ response = <<>>
        BY <1>1 DEF OwnInv, RequestInv, Functions
  <2>2. PICK a \in Frame : buffer = <<a>> /\ a.id = sent
        BY <1>1, <2>1 DEF OwnInv
  <2>3. response' = <<a>>
        BY <1>1, <2>1, <2>2
  <2> QED
      BY <2>1, <2>2, <2>3
<1>9. NoOldAnswer' /\ AnswerFits' /\ OwnAnswer'
      BY <1>1 DEF NoOldAnswer, AnswerFits, OwnAnswer, Accepted
<1> QED
    BY <1>5, <1>6, <1>7, <1>8, <1>9

LEMMA TimeoutInv ==
    ASSUME Inv, Timeout
    PROVE  Inv'
<1> USE DEF Inv
<1>1. /\ state = "waiting" /\ state' = "idle" /\ request' = None /\ timeouts' = timeouts + 1
      /\ UNCHANGED <<client, sent, wire, buffer, response, result>>
      BY DEF Timeout
<1>2. timeouts \in Nat /\ timeouts' # 0
      BY <1>1 DEF TypeOK
<1>3. TypeOK' /\ RequestInv' /\ PlaceInv' /\ OldInv' /\ OwnInv'
      BY <1>1, <1>2 DEF TypeOK, RequestInv, Functions, PlaceInv, OldInv, OwnInv
<1>4. NoOldAnswer' /\ AnswerFits' /\ OwnAnswer'
      BY <1>1, <1>2 DEF NoOldAnswer, AnswerFits, OwnAnswer, Accepted
<1> QED
    BY <1>3, <1>4

(* Equal numbers of bytes leave at most seven bits open. *)
LEMMA SameBytes ==
    ASSUME NEW fc, NEW m \in Nat, NEW n \in Nat, dataBytes(fc, m) = dataBytes(fc, n)
    PROVE  IF fc = "bits" THEN m + 7 >= n ELSE m = n
  BY DEF dataBytes

(* What each client looks at before it accepts an answer. *)
LEMMA AcceptedFits ==
    ASSUME TypeOK, request \in Request, WantsNoneOfWrites(request), request.fc \in Functions,
           response # <<>>, Accepts
    PROVE  LET f == response[1] IN
           /\ f \in Frame
           /\ ~f.exception /\ f.fc = request.fc
           /\ f.count + (IF f.fc = "bits" THEN 7 ELSE 0) >= request.count
           /\ client \in Modbus =>
                 f.slaveId = request.slaveId /\ (f.fc # "bits" => f.count = request.count)
<1> DEFINE f == response[1]
<1>1. f \in Frame
      BY DEF TypeOK
<1>2. f.count \in Nat /\ request.count \in Nat
  <2>1. f.count \in Quantity \cup {0} /\ request.count \in Quantity \cup {0}
        BY <1>1 DEF Frame, Request
  <2>2. \A q \in Quantity \cup {0} : q \in Nat
        BY TransportAssumption
  <2> HIDE DEF f
  <2> QED
      BY <2>1, <2>2
<1> HIDE DEF f
<1>3. CASE client \in Modbus
  <2>1. verifyResponse(f)
        BY <1>3 DEF Accepts, rtuAccepts, asciiAccepts, tcpAccepts, f, Modbus
  <2>2. /\ ~f.exception /\ f.fc = request.fc /\ f.slaveId = request.slaveId
        /\ IF f.fc = "bits" THEN f.count + 7 >= request.count ELSE f.count = request.count
        BY <1>2, <2>1, SameBytes DEF verifyResponse
  <2>3. f.count + (IF f.fc = "bits" THEN 7 ELSE 0) >= request.count
        BY <1>2, <2>2
  <2> QED
      BY <1>1, <2>2, <2>3 DEF f
<1>4. ASSUME ~f.exception, f.fc = request.fc, f.count >= request.count, client \notin Modbus
      PROVE  LET g == response[1] IN
             /\ g \in Frame
             /\ ~g.exception /\ g.fc = request.fc
             /\ g.count + (IF g.fc = "bits" THEN 7 ELSE 0) >= request.count
             /\ client \in Modbus =>
                   g.slaveId = request.slaveId /\ (g.fc # "bits" => g.count = request.count)
  <2>1. f.count + (IF f.fc = "bits" THEN 7 ELSE 0) >= request.count
        BY <1>2, <1>4
  <2> QED
      BY <1>1, <1>4, <2>1 DEF f
<1>5. CASE client = "PcLink"
  <2>1. /\ Accepts = pclinkAccepts
        /\ client \notin Modbus
        BY <1>5 DEF Accepts, Modbus
  <2>2. /\ ~f.exception /\ f.fc = request.fc
        /\ request.fc = "words" => f.count >= request.count
        BY <2>1 DEF pclinkAccepts, f
  <2>3. request.fc \in {"words", "write"} => f.count >= request.count
        BY <1>2, <2>2 DEF WantsNoneOfWrites
  <2> QED
      BY <1>4, <2>1, <2>2, <2>3 DEF Functions, Function
<1>6. CASE client = "PcLinkSum"
  <2>1. /\ Accepts = sumAccepts
        /\ client \notin Modbus
        BY <1>6 DEF Accepts, Modbus
  <2>2. ~f.exception /\ f.fc = request.fc /\ f.count >= request.count
        BY <2>1 DEF sumAccepts, f
  <2> QED
      BY <1>4, <2>1, <2>2
<1> QED
    BY <1>3, <1>5, <1>6 DEF TypeOK, Client, SerialClient, TcpClient, Modbus

LEMMA FinishInv ==
    ASSUME Inv, Finish
    PROVE  Inv'
<1> USE DEF Inv
<1>1. /\ state = "reading" /\ state' = "idle" /\ request' = None /\ response' = <<>>
      /\ result' = IF Accepts THEN [result EXCEPT !.frame = response[1]] ELSE result
      /\ UNCHANGED <<client, sent, wire, buffer, timeouts>>
      BY DEF Finish
<1>2. /\ request \in Request /\ WantsNoneOfWrites(request) /\ request.fc \in Functions
      /\ response # <<>>
      /\ request.id = sent
      /\ result \in Result /\ result # None /\ result.request = request /\ result.frame = None
      BY <1>1 DEF RequestInv, Functions, TypeOK
<1> DEFINE f == response[1]
<1>3. f \in Frame /\ f \in Elements(response) /\ response \in Seq(Frame)
      BY <1>2, ElementsFacts DEF TypeOK
<1>4. Accepts => /\ ~f.exception /\ f.fc = request.fc
                 /\ f.count + (IF f.fc = "bits" THEN 7 ELSE 0) >= request.count
                 /\ client \in Modbus =>
                       f.slaveId = request.slaveId /\ (f.fc # "bits" => f.count = request.count)
      BY <1>2, AcceptedFits
<1>5. /\ result' \in Result /\ result' # None
      /\ result'.old = result.old /\ result'.request = request
      /\ result'.frame = IF Accepts THEN f ELSE None
  <2>1. CASE Accepts
    <3>1. result' = [result EXCEPT !.frame = f]
          BY <1>1, <2>1
    <3> HIDE DEF f
    <3>2. /\ [result EXCEPT !.frame = f] \in Result
          /\ [result EXCEPT !.frame = f].old = result.old
          /\ [result EXCEPT !.frame = f].request = result.request
          /\ [result EXCEPT !.frame = f].frame = f
          BY <1>2, <1>3 DEF Result
    <3> QED
        BY <1>2, <2>1, <3>1, <3>2, TransportAssumption
  <2>2. CASE ~Accepts
        BY <1>1, <1>2, <2>2
  <2> QED
      BY <2>1, <2>2
<1> HIDE DEF f
<1>6. TypeOK'
  <2>1. response' \in Seq(Frame)
        BY <1>1
  <2> QED
      BY <1>1, <1>5, <2>1 DEF TypeOK
<1>7. Elements(response') = {}
      BY <1>1 DEF Elements
<1>8. RequestInv' /\ PlaceInv' /\ OldInv'
      BY <1>1, <1>2, <1>5, <1>7 DEF RequestInv, Functions, PlaceInv, OldInv
<1>9. OwnInv'
      BY <1>1 DEF OwnInv
<1>10. NoOldAnswer'
      BY <1>1, <1>2, <1>3, <1>5 DEF NoOldAnswer, Accepted, OldInv
<1>11. AnswerFits'
      BY <1>1, <1>4, <1>5 DEF AnswerFits, Accepted
<1>12. OwnAnswer'
  <2>1. timeouts = 0 => f.id = sent
        BY <1>1 DEF OwnInv, f
  <2> QED
      BY <1>1, <1>2, <1>5, <2>1 DEF OwnAnswer, Accepted
<1> QED
    BY <1>6, <1>8, <1>9, <1>10, <1>11, <1>12

LEMMA ReopenInv ==
    ASSUME Inv, Reopen
    PROVE  Inv'
<1> USE DEF Inv
<1>1. /\ state = "idle" /\ buffer' = <<>> /\ result' = None /\ wire' \subseteq wire
      /\ timeouts' = 0 => wire' = {} \/ timeouts = 0
      /\ timeouts' \in Nat
      /\ UNCHANGED <<client, request, sent, response, state>>
      BY DEF Reopen, TypeOK
<1>2. Elements(buffer') = {} /\ buffer' \in Seq(Frame)
      BY <1>1 DEF Elements
<1>3. TypeOK' /\ RequestInv' /\ PlaceInv' /\ OldInv'
      BY <1>1, <1>2 DEF TypeOK, RequestInv, Functions, PlaceInv, OldInv
<1>4. OwnInv'
      BY <1>1 DEF OwnInv
<1>5. NoOldAnswer' /\ AnswerFits' /\ OwnAnswer'
      BY <1>1 DEF NoOldAnswer, AnswerFits, OwnAnswer, Accepted
<1> QED
    BY <1>3, <1>4, <1>5

(* Every step of the specification preserves the invariant. *)
LEMMA StepInv == Inv /\ [Next]_vars => Inv'
<1> SUFFICES ASSUME Inv, [Next]_vars PROVE Inv'
    OBVIOUS
<1>1. CASE UNCHANGED vars
      BY <1>1 DEF vars, Inv, TypeOK, RequestInv, Functions, PlaceInv, OldInv, OwnInv, NoOldAnswer,
                  AnswerFits, OwnAnswer, Accepted
<1>2. ASSUME NEW s \in Stations, NEW fc \in Functions, NEW n \in Quantity,
             SerialSend(s, fc, n) \/ TcpSend(s, fc, n)
      PROVE  Inv'
  <2>1. /\ Send(RequestFrame(s, fc, n))
        /\ \/ client \in SerialClient /\ buffer' = <<>>
           \/ client \in TcpClient /\ buffer' = buffer
        BY <1>2 DEF SerialSend, TcpSend
  <2>2. TypeOK /\ sent < MaxRequests
        BY <2>1 DEF Inv, Send
  <2> QED
      BY <2>1, <2>2, RequestType, SendInv
<1>3. ASSUME NEW a \in wire, Arrive(a) PROVE Inv'
      BY <1>3, ArriveInv
<1>4. CASE ReadAll \/ Timeout \/ Finish \/ Reopen
      BY <1>4, ReadAllInv, TimeoutInv, FinishInv, ReopenInv
<1> QED
    BY <1>1, <1>2, <1>3, <1>4 DEF Next

(***************************************************************************)
(* The inductive invariant holds however answers are lost and delayed.     *)
(***************************************************************************)
THEOREM Invariant == Spec => []Inv
  BY InitInv, StepInv, PTL DEF Spec

(***************************************************************************)
(* On the bus, clearing the buffers in sendRequest() keeps every answer    *)
(* that had arrived before from being taken for the new one.               *)
(***************************************************************************)
THEOREM OldAnswersAreDropped == Spec => []NoOldAnswer
<1>1. Inv => NoOldAnswer
      BY DEF Inv
<1> QED
    BY <1>1, Invariant, PTL

(***************************************************************************)
(* What a client accepts is an answer to the same function with at least   *)
(* the words that were asked for, and for Modbus exactly those, from the   *)
(* station that was asked; of bits, up to seven may be missing, since      *)
(* verifyResponse() compares bytes.                                        *)
(***************************************************************************)
THEOREM AcceptedAnswersFit == Spec => []AnswerFits
<1>1. Inv => AnswerFits
      BY DEF Inv
<1> QED
    BY <1>1, Invariant, PTL

(***************************************************************************)
(* Without a request that was given up, each gets its own answer, though   *)
(* no client compares transaction numbers.                                 *)
(***************************************************************************)
THEOREM AnswersAreOwn == Spec => []OwnAnswer
<1>1. Inv => OwnAnswer
      BY DEF Inv
<1> QED
    BY <1>1, Invariant, PTL

-----------------------------------------------------------------------------
(* The register table.  The number a register shows is defined by
   recursion over its words and bits, so induction over numbers comes first. *)

LEMMA LeastNumber ==
    ASSUME NEW T \in SUBSET Nat, T # {}
    PROVE  \E x \in T : \A y \in T : x <= y
<1>. DEFINE R == OpToRel(<, Nat)
<1>1. PICK x \in T : \A y \in T : ~ (<<y, x>> \in R)
  <2>1. IsWellFoundedOn(R, Nat)
    BY NatLessThanWellFounded
  <2>. HIDE DEF R
  <2>2. QED
    BY <2>1, WFMin
<1>2. \A y \in T : ~ (y < x)
  BY <1>1 DEF OpToRel
<1>3. QED
  BY <1>2

LEMMA SetInduction ==
    ASSUME NEW S, 0 \in S, \A n \in Nat : n \in S => n + 1 \in S
    PROVE  Nat \subseteq S
<1>1. SUFFICES ASSUME Nat \ S # {} PROVE FALSE
  OBVIOUS
<1>2. PICK x \in Nat \ S : \A y \in Nat \ S : x <= y
  BY <1>1, LeastNumber
<1>3. x # 0 /\ x - 1 \in Nat /\ x - 1 < x /\ (x - 1) + 1 = x
  BY <1>2
<1>4. QED
  BY <1>2, <1>3

LEMMA BoundedInduction ==
    ASSUME NEW N \in Nat, NEW S, 0 \in S, \A k \in 0 .. (N - 1) : k \in S => k + 1 \in S
    PROVE  0 .. N \subseteq S
<1>. DEFINE T == {k \in Nat : k <= N => k \in S}
<1>1. 0 \in T
  OBVIOUS
<1>2. \A n \in Nat : n \in T => n + 1 \in T
  OBVIOUS
<1>. HIDE DEF T
<1>3. Nat \subseteq T
  BY <1>1, <1>2, SetInduction
<1>4. QED
  BY <1>3 DEF T

(* f has the value s0 at 0 and continues by G[k] at each k of K. *)
Continues(f, K, s0, G) == f[0] = s0 /\ \A k \in K : f[k] = G[k][f[k - 1]]

(* A function on 0 .. N defined by recursion exists. *)
LEMMA BoundedRecursion ==
    ASSUME NEW S, NEW s0 \in S, NEW N \in Nat, NEW G \in [1 .. N -> [S -> S]]
    PROVE  \E f \in [0 .. N -> S] : Continues(f, 1 .. N, s0, G)
<1>. DEFINE A(n) == {g \in [0 .. n -> S] : g[0] = s0 /\ \A k \in 1 .. n : g[k] = G[k][g[k - 1]]}
            T == {n \in 0 .. N : A(n) # {}}
<1>1. 0 \in T
  <2>. DEFINE g == [k \in 0 .. 0 |-> s0]
  <2>1. g \in [0 .. 0 -> S] /\ g[0] = s0 /\ \A k \in 1 .. 0 : FALSE
    OBVIOUS
  <2>2. g \in A(0)
    BY <2>1
  <2>3. QED
    BY <2>2
<1>2. \A n \in 0 .. (N - 1) : n \in T => n + 1 \in T
  <2>1. SUFFICES ASSUME NEW n \in 0 .. (N - 1), n \in T PROVE n + 1 \in T
    OBVIOUS
  <2>0. PICK g : g \in A(n)
    BY <2>1
  <2>. DEFINE h == [k \in 0 .. (n + 1) |-> IF k = n + 1 THEN G[n + 1][g[n]] ELSE g[k]]
  <2>2. n \in Nat /\ n + 1 \in 1 .. N /\ n + 1 \in 0 .. N /\ n \in 0 .. n /\ (n + 1) - 1 = n
    OBVIOUS
  <2>9. g \in [0 .. n -> S] /\ g[0] = s0 /\ \A k \in 1 .. n : g[k] = G[k][g[k - 1]]
    BY <2>0
  <2>3. G[n + 1][g[n]] \in S
    BY <2>2, <2>9
  <2>4. h \in [0 .. (n + 1) -> S]
    <3>1. \A k \in 0 .. (n + 1) : k # n + 1 => k \in 0 .. n
      BY <2>2
    <3>2. QED
      BY <3>1, <2>3, <2>9
  <2>5. h[0] = s0
    BY <2>2, <2>9
  <2>6. ASSUME NEW k \in 1 .. (n + 1) PROVE h[k] = G[k][h[k - 1]]
    <3>1. CASE k = n + 1
      BY <3>1, <2>2, <2>9
    <3>2. CASE k # n + 1
      <4>1. k \in 1 .. n /\ k \in 0 .. (n + 1) /\ k - 1 \in 0 .. (n + 1) /\ k - 1 # n + 1
        BY <3>2, <2>2
      <4>2. h[k] = g[k] /\ h[k - 1] = g[k - 1]
        BY <4>1, <3>2
      <4>3. QED
        BY <4>1, <4>2, <2>9
    <3>3. QED
      BY <3>1, <3>2
  <2>. HIDE DEF h
  <2>7. h \in A(n + 1)
    BY <2>4, <2>5, <2>6
  <2>8. QED
    BY <2>7, <2>2
<1>3. 0 .. N \subseteq T
  <2>. HIDE DEF T
  <2>1. QED
    BY <1>1, <1>2, BoundedInduction
<1>4. A(N) # {}
  BY <1>3
<1>5. QED
  BY <1>4 DEF Continues

(* And so does one on all natural numbers. *)
LEMMA Recursion ==
    ASSUME NEW S, NEW s0 \in S, NEW G \in [Nat -> [S -> S]]
    PROVE  \E f \in [Nat -> S] : Continues(f, Nat \ {0}, s0, G)
<1>. DEFINE A(n) == {g \in [0 .. n -> S] : g[0] = s0 /\ \A k \in 1 .. n : g[k] = G[k][g[k - 1]]}
            f == [n \in Nat |-> (CHOOSE g : g \in A(n))[n]]
<1>1. ASSUME NEW n \in Nat PROVE A(n) # {}
  <2>1. PICK H \in [1 .. n -> [S -> S]] : \A k \in 1 .. n : H[k] = G[k]
    <3>. DEFINE F == [k \in 1 .. n |-> G[k]]
    <3>1. F \in [1 .. n -> [S -> S]] /\ \A k \in 1 .. n : F[k] = G[k]
      OBVIOUS
    <3>2. QED
      BY <3>1
  <2>2. PICK g \in [0 .. n -> S] : Continues(g, 1 .. n, s0, H)
    BY BoundedRecursion
  <2>3. QED
    BY <2>1, <2>2 DEF Continues
<1>2. ASSUME NEW m \in Nat, NEW n \in Nat, m <= n, NEW g \in A(m), NEW h \in A(n)
      PROVE  \A k \in 0 .. m : g[k] = h[k]
  <2>. DEFINE T == {k \in 0 .. m : g[k] = h[k]}
  <2>1. 0 \in T
    OBVIOUS
  <2>2. \A k \in 0 .. (m - 1) : k \in T => k + 1 \in T
    <3>1. SUFFICES ASSUME NEW k \in 0 .. (m - 1), g[k] = h[k] PROVE g[k + 1] = h[k + 1]
      OBVIOUS
    <3>2. k + 1 \in 1 .. m /\ k + 1 \in 1 .. n /\ (k + 1) - 1 = k
      BY <1>2
    <3>3. g[k + 1] = G[k + 1][g[k]] /\ h[k + 1] = G[k + 1][h[k]]
      BY <3>2
    <3>4. QED
      BY <3>1, <3>3
  <2>. HIDE DEF T
  <2>3. 0 .. m \subseteq T
    BY <2>1, <2>2, BoundedInduction
  <2>4. QED
    BY <2>3 DEF T
<1>3. \A n \in Nat : (CHOOSE g : g \in A(n)) \in A(n)
  BY <1>1
<1>4. f \in [Nat -> S] /\ f[0] = s0
  <2>1. ASSUME NEW n \in Nat, NEW g, g \in A(n) PROVE g[n] \in S /\ g[0] = s0
    BY <2>1
  <2>2. \A n \in Nat : f[n] = (CHOOSE g : g \in A(n))[n]
    OBVIOUS
  <2>. HIDE DEF A
  <2>3. \A n \in Nat : (CHOOSE g : g \in A(n))[n] \in S
    BY <2>1, <1>3
  <2>4. (CHOOSE g : g \in A(0))[0] = s0
    BY <2>1, <1>3
  <2>5. QED
    BY <2>2, <2>3, <2>4
<1>5. ASSUME NEW k \in Nat \ {0} PROVE f[k] = G[k][f[k - 1]]
  <2>. DEFINE g == CHOOSE p : p \in A(k - 1)
              h == CHOOSE p : p \in A(k)
  <2>1. k - 1 \in Nat /\ k - 1 <= k /\ k \in 1 .. k /\ k - 1 \in 0 .. (k - 1)
    OBVIOUS
  <2>2. g \in A(k - 1) /\ h \in A(k)
    BY <1>3, <2>1
  <2>3. f[k] = h[k] /\ f[k - 1] = g[k - 1]
    BY <2>1
  <2>. HIDE DEF g, h, f
  <2>4. g[k - 1] = h[k - 1]
    <3>. HIDE DEF A
    <3>1. \A j \in 0 .. (k - 1) : g[j] = h[j]
      BY <2>1, <2>2, <1>2
    <3>2. QED
      BY <3>1, <2>1
  <2>5. h[k] = G[k][h[k - 1]]
    BY <2>1, <2>2
  <2>6. QED
    BY <2>3, <2>4, <2>5
<1>6. QED
  BY <1>4, <1>5 DEF Continues
-----------------------------------------------------------------------------
LEMMA Pow2Steps ==
    /\ Pow2 \in [Nat -> Nat]
    /\ Pow2[0] = 1
    /\ \A n \in Nat : Pow2[n + 1] = 2 * Pow2[n]
<1>. DEFINE G == [k \in Nat |-> [x \in Nat |-> 2 * x]]
            Eq(f) == f = [n \in Nat |-> IF n = 0 THEN 1 ELSE 2 * f[n - 1]]
<1>1. G \in [Nat -> [Nat -> Nat]]
  OBVIOUS
<1>2. PICK f \in [Nat -> Nat] : Continues(f, Nat \ {0}, 1, G)
  <2>. HIDE DEF G, Eq
  <2>1. 1 \in Nat
    OBVIOUS
  <2>2. QED
    BY <1>1, <2>1, Recursion
<1>3. ASSUME NEW n \in Nat PROVE f[n] = IF n = 0 THEN 1 ELSE 2 * f[n - 1]
  <2>1. CASE n = 0
    BY <2>1, <1>2 DEF Continues
  <2>2. CASE n # 0
    <3>1. n \in Nat \ {0} /\ n - 1 \in Nat /\ f[n - 1] \in Nat
      BY <2>2
    <3>2. f[n] = G[n][f[n - 1]]
      BY <3>1, <1>2 DEF Continues
    <3>3. QED
      BY <3>1, <3>2, <2>2
  <2>3. QED
    BY <2>1, <2>2
<1>4. Eq(f)
  BY <1>3
<1>5. Eq(Pow2)
  <2>. HIDE DEF Eq
  <2>1. Eq(CHOOSE g : Eq(g))
    BY <1>4
  <2>2. Pow2 = CHOOSE g : Eq(g)
    BY DEF Pow2, Eq
  <2>3. QED
    BY <2>1, <2>2
<1>6. DOMAIN Pow2 = Nat /\ \A n \in Nat : Pow2[n] = IF n = 0 THEN 1 ELSE 2 * Pow2[n - 1]
  BY <1>5
<1>. HIDE DEF Eq, G
<1>7. Pow2[0] = 1 /\ \A n \in Nat : Pow2[n + 1] = 2 * Pow2[n]
  <2>1. \A n \in Nat : n + 1 \in Nat /\ n + 1 # 0 /\ (n + 1) - 1 = n
    OBVIOUS
  <2>2. QED
    BY <1>6, <2>1
<1>8. \A n \in Nat : Pow2[n] \in Nat
  <2>. DEFINE T == {n \in Nat : Pow2[n] \in Nat}
  <2>1. 0 \in T /\ \A n \in Nat : n \in T => n + 1 \in T
    BY <1>7
  <2>. HIDE DEF T
  <2>2. Nat \subseteq T
    BY <2>1, SetInduction
  <2>3. QED
    BY <2>2 DEF T
<1>9. Pow2 = [n \in Nat |-> Pow2[n]]
  BY <1>5 DEF Eq
<1>10. Pow2 \in [Nat -> Nat]
  BY <1>8, <1>9
<1>11. QED
  BY <1>7, <1>10

LEMMA Pow2Positive == \A n \in Nat : Pow2[n] \in Nat \ {0}
<1>. DEFINE T == {n \in Nat : Pow2[n] \in Nat \ {0}}
<1>1. 0 \in T /\ \A n \in Nat : n \in T => n + 1 \in T
  BY Pow2Steps
<1>. HIDE DEF T
<1>2. Nat \subseteq T
  BY <1>1, SetInduction
<1>3. QED
  BY <1>2 DEF T

LEMMA Pow2Sum == \A a, b \in Nat : Pow2[a + b] = Pow2[a] * Pow2[b]
<1>1. SUFFICES ASSUME NEW a \in Nat PROVE \A b \in Nat : Pow2[a + b] = Pow2[a] * Pow2[b]
  OBVIOUS
<1>. DEFINE T == {b \in Nat : Pow2[a + b] = Pow2[a] * Pow2[b]}
<1>2. 0 \in T
  BY Pow2Steps, Pow2Positive
<1>3. ASSUME NEW n \in Nat, n \in T PROVE n + 1 \in T
  <2>1. Pow2[a + n] = Pow2[a] * Pow2[n]
    BY <1>3
  <2>2. a + n \in Nat /\ a + (n + 1) = (a + n) + 1
    OBVIOUS
  <2>3. Pow2[a + (n + 1)] = 2 * Pow2[a + n] /\ Pow2[n + 1] = 2 * Pow2[n]
    BY <2>2, Pow2Steps
  <2>4. Pow2[a] \in Nat /\ Pow2[n] \in Nat
    BY Pow2Positive
  <2>5. 2 * (Pow2[a] * Pow2[n]) = Pow2[a] * (2 * Pow2[n])
    BY <2>4
  <2>6. QED
    BY <2>1, <2>3, <2>5
<1>. HIDE DEF T
<1>4. Nat \subseteq T
  BY <1>2, <1>3, SetInduction
<1>5. QED
  BY <1>4 DEF T

LEMMA Pow2Monotone == \A a, b \in Nat : a <= b => Pow2[a] <= Pow2[b]
<1>1. SUFFICES ASSUME NEW a \in Nat, NEW b \in Nat, a <= b PROVE Pow2[a] <= Pow2[b]
  OBVIOUS
<1>2. b - a \in Nat /\ a + (b - a) = b
  BY <1>1
<1>3. Pow2[b] = Pow2[a] * Pow2[b - a]
  BY <1>2, Pow2Sum
<1>4. \A x, y \in Nat \ {0} : x <= x * y
  OBVIOUS
<1>5. QED
  BY <1>2, <1>3, <1>4, Pow2Positive
-----------------------------------------------------------------------------
LEMMA WordFacts ==
    /\ WordBits \in Nat \ {0}
    /\ AccumulatorBits \in Nat \ {0}
    /\ Pow2[WordBits] \in Nat \ {0}
    /\ Width \in Nat \ {0}
    /\ Word \subseteq Nat
    /\ \A w \in Word : w < Pow2[WordBits]
<1>1. WordBits \in Nat /\ AccumulatorBits \in Nat
  BY TableAssumption
<1>2. Pow2[WordBits] \in Nat \ {0} /\ Width \in Nat \ {0}
  BY <1>1, Pow2Positive DEF Width
<1>3. QED
  BY <1>2, TableAssumption DEF Word

LEMMA CombinedSteps ==
    ASSUME NEW words \in Seq(Word)
    PROVE  \E c : /\ c[0] = 0
                  /\ \A k \in 1 .. Len(words) :
                        c[k] = (c[k - 1] * Pow2[WordBits] + words[k]) % Width
                  /\ Combined(words) = c[Len(words)]
<1>. DEFINE N == Len(words)
            G == [k \in 1 .. N |-> [x \in Int |-> (x * Pow2[WordBits] + words[k]) % Width]]
            Eq(f) == f = [k \in 0 .. N |-> IF k = 0 THEN 0
                                ELSE (f[k - 1] * Pow2[WordBits] + words[k]) % Width]
<1>1. N \in Nat /\ \A k \in 1 .. N : words[k] \in Int
  <2>1. N \in Nat /\ \A k \in 1 .. N : words[k] \in Word
    OBVIOUS
  <2>2. \A k \in 1 .. N : words[k] \in Nat
    BY <2>1, WordFacts
  <2>3. QED
    BY <2>1, <2>2
<1>2. G \in [1 .. N -> [Int -> Int]]
  BY <1>1, WordFacts
<1>3. PICK f \in [0 .. N -> Int] : Continues(f, 1 .. N, 0, G)
  <2>. HIDE DEF G, Eq, N
  <2>1. 0 \in Int
    OBVIOUS
  <2>2. QED
    BY <1>1, <1>2, <2>1, BoundedRecursion
<1>4. ASSUME NEW k \in 0 .. N
      PROVE  f[k] = IF k = 0 THEN 0 ELSE (f[k - 1] * Pow2[WordBits] + words[k]) % Width
  <2>1. CASE k = 0
    BY <2>1, <1>3 DEF Continues
  <2>2. CASE k # 0
    <3>1. k \in 1 .. N /\ k - 1 \in 0 .. N /\ f[k - 1] \in Int
      BY <2>2, <1>1
    <3>2. f[k] = G[k][f[k - 1]]
      BY <3>1, <1>3 DEF Continues
    <3>3. QED
      BY <3>1, <3>2, <2>2
  <2>3. QED
    BY <2>1, <2>2
<1>5. Eq(f)
  BY <1>4
<1>. DEFINE c == CHOOSE g : Eq(g)
<1>6. Eq(c)
  <2>. HIDE DEF Eq
  <2>1. QED
    BY <1>5
<1>7. Combined(words) = c[N]
  BY DEF Combined
<1>. HIDE DEF c
<1>8. \A k \in 0 .. N : c[k] = IF k = 0 THEN 0 ELSE (c[k - 1] * Pow2[WordBits] + words[k]) % Width
  BY <1>6
<1>9. c[0] = 0 /\ \A k \in 1 .. N : c[k] = (c[k - 1] * Pow2[WordBits] + words[k]) % Width
  <2>1. 0 \in 0 .. N /\ \A k \in 1 .. N : k \in 0 .. N /\ k # 0
    BY <1>1
  <2>2. QED
    BY <1>8, <2>1
<1>10. QED
  BY <1>7, <1>9

LEMMA UnsignedSteps ==
    ASSUME NEW words \in Seq(Word)
    PROVE  \E s : /\ s[0] = 0
                  /\ \A k \in 1 .. Len(words) :
                        s[k] = s[k - 1] + words[k] * Pow2[WordBits * (Len(words) - k)]
                  /\ Unsigned(words) = s[Len(words)]
<1>. DEFINE N == Len(words)
            place(k) == words[k] * Pow2[WordBits * (N - k)]
            G == [k \in 1 .. N |-> [x \in Int |-> x + place(k)]]
            Eq(f) == f = [k \in 0 .. N |-> IF k = 0 THEN 0 ELSE f[k - 1] + place(k)]
<1>1. N \in Nat /\ \A k \in 1 .. N : place(k) \in Int
  <2>1. N \in Nat
    OBVIOUS
  <2>2. ASSUME NEW k \in 1 .. N PROVE place(k) \in Int
    <3>0. words[k] \in Word
      OBVIOUS
    <3>9. words[k] \in Nat
      BY <3>0, WordFacts
    <3>1. N - k \in Nat /\ words[k] \in Nat
      BY <2>1, <3>9
    <3>2. WordBits * (N - k) \in Nat
      BY <3>1, WordFacts
    <3>3. Pow2[WordBits * (N - k)] \in Nat
      BY <3>2, Pow2Positive
    <3>4. \A a, b \in Nat : a * b \in Int
      OBVIOUS
    <3>5. QED
      BY <3>1, <3>3, <3>4
  <2>3. QED
    BY <2>1, <2>2
<1>. HIDE DEF place
<1>2. G \in [1 .. N -> [Int -> Int]]
  BY <1>1
<1>3. PICK f \in [0 .. N -> Int] : Continues(f, 1 .. N, 0, G)
  <2>. HIDE DEF G, Eq, N
  <2>1. 0 \in Int
    OBVIOUS
  <2>2. QED
    BY <1>1, <1>2, <2>1, BoundedRecursion
<1>4. ASSUME NEW k \in 0 .. N
      PROVE  f[k] = IF k = 0 THEN 0 ELSE f[k - 1] + place(k)
  <2>1. CASE k = 0
    BY <2>1, <1>3 DEF Continues
  <2>2. CASE k # 0
    <3>1. k \in 1 .. N /\ k - 1 \in 0 .. N /\ f[k - 1] \in Int
      BY <2>2, <1>1
    <3>2. f[k] = G[k][f[k - 1]]
      BY <3>1, <1>3 DEF Continues
    <3>3. QED
      BY <3>1, <3>2, <2>2
  <2>3. QED
    BY <2>1, <2>2
<1>5. Eq(f)
  BY <1>4
<1>. DEFINE c == CHOOSE g : Eq(g)
<1>6. Eq(c)
  <2>. HIDE DEF Eq
  <2>1. QED
    BY <1>5
<1>7. Unsigned(words) = c[N]
  BY DEF Unsigned, place
<1>. HIDE DEF c
<1>8. \A k \in 0 .. N : c[k] = IF k = 0 THEN 0 ELSE c[k - 1] + place(k)
  BY <1>6
<1>9. c[0] = 0 /\ \A k \in 1 .. N : c[k] = c[k - 1] + place(k)
  <2>1. 0 \in 0 .. N /\ \A k \in 1 .. N : k \in 0 .. N /\ k # 0
    BY <1>1
  <2>2. QED
    BY <1>8, <2>1
<1>10. QED
  BY <1>7, <1>9 DEF place

LEMMA OnesSteps ==
    ASSUME NEW bits \in Seq(BOOLEAN)
    PROVE  \E s : /\ s[0] = 0
                  /\ \A k \in 1 .. Len(bits) :
                        s[k] = s[k - 1] + (IF bits[k] THEN 1 ELSE 0)
                  /\ Ones(bits) = s[Len(bits)]
<1>. DEFINE N == Len(bits)
            one(k) == IF bits[k] THEN 1 ELSE 0
            G == [k \in 1 .. N |-> [x \in Int |-> x + one(k)]]
            Eq(f) == f = [k \in 0 .. N |-> IF k = 0 THEN 0 ELSE f[k - 1] + one(k)]
<1>1. N \in Nat /\ \A k \in 1 .. N : one(k) \in Int
  OBVIOUS
<1>. HIDE DEF one
<1>2. G \in [1 .. N -> [Int -> Int]]
  BY <1>1
<1>3. PICK f \in [0 .. N -> Int] : Continues(f, 1 .. N, 0, G)
  <2>. HIDE DEF G, Eq, N
  <2>1. 0 \in Int
    OBVIOUS
  <2>2. QED
    BY <1>1, <1>2, <2>1, BoundedRecursion
<1>4. ASSUME NEW k \in 0 .. N
      PROVE  f[k] = IF k = 0 THEN 0 ELSE f[k - 1] + one(k)
  <2>1. CASE k = 0
    BY <2>1, <1>3 DEF Continues
  <2>2. CASE k # 0
    <3>1. k \in 1 .. N /\ k - 1 \in 0 .. N /\ f[k - 1] \in Int
      BY <2>2, <1>1
    <3>2. f[k] = G[k][f[k - 1]]
      BY <3>1, <1>3 DEF Continues
    <3>3. QED
      BY <3>1, <3>2, <2>2
  <2>3. QED
    BY <2>1, <2>2
<1>5. Eq(f)
  BY <1>4
<1>. DEFINE c == CHOOSE g : Eq(g)
<1>6. Eq(c)
  <2>. HIDE DEF Eq
  <2>1. QED
    BY <1>5
<1>7. Ones(bits) = c[N]
  BY DEF Ones, one
<1>. HIDE DEF c
<1>8. \A k \in 0 .. N : c[k] = IF k = 0 THEN 0 ELSE c[k - 1] + one(k)
  BY <1>6
<1>9. c[0] = 0 /\ \A k \in 1 .. N : c[k] = c[k - 1] + one(k)
  <2>1. 0 \in 0 .. N /\ \A k \in 1 .. N : k \in 0 .. N /\ k # 0
    BY <1>1
  <2>2. QED
    BY <1>8, <2>1
<1>10. QED
  BY <1>7, <1>9 DEF one
-----------------------------------------------------------------------------
(***************************************************************************)
(* Arithmetic of one step of the combination: a number c of w-bit words    *)
(* (c < p) takes one more word x < q.                                      *)
(***************************************************************************)
LEMMA OneMoreWord ==
    ASSUME NEW c \in Nat, NEW p \in Nat, c < p, NEW x \in Nat, NEW q \in Nat, x < q
    PROVE  c * q + x \in Nat /\ c * q + x < p * q
<1>1. c * q \in Nat /\ (c + 1) * q \in Nat /\ p * q \in Nat
  OBVIOUS
<1>2. (c + 1) * q = c * q + q
  OBVIOUS
<1>3. (c + 1) * q <= p * q
  <2>1. c + 1 <= p
    OBVIOUS
  <2>2. \A a, b \in Nat : a <= b => a * q <= b * q
    OBVIOUS
  <2>3. QED
    BY <2>1, <2>2
<1>4. QED
  BY <1>1, <1>2, <1>3

(* The highest word bounds the number it begins. *)
LEMMA HighWordBounds ==
    ASSUME NEW c \in Nat, NEW h \in Nat, NEW p \in Nat, NEW x \in Nat, NEW q \in Nat, x < q,
           h * p <= c, c < (h + 1) * p
    PROVE  h * (p * q) <= c * q + x /\ c * q + x < (h + 1) * (p * q)
<1>1. (h + 1) * p \in Nat /\ h * p \in Nat
  OBVIOUS
<1>2. c * q + x < ((h + 1) * p) * q
  BY <1>1, OneMoreWord
<1>3. (h * p) * q <= c * q
  <2>1. \A a, b \in Nat : a <= b => a * q <= b * q
    OBVIOUS
  <2>2. QED
    BY <2>1, <1>1
<1>4. ((h + 1) * p) * q = (h + 1) * (p * q) /\ (h * p) * q = h * (p * q)
  OBVIOUS
<1>5. c * q \in Nat /\ h * (p * q) \in Nat /\ (h + 1) * (p * q) \in Nat
  OBVIOUS
<1>6. QED
  BY <1>2, <1>3, <1>4, <1>5

(***************************************************************************)
(* Combining words that the accumulator can hold loses nothing: the        *)
(* remainder in every step of computeScaledValue() is the number itself.   *)
(***************************************************************************)
LEMMA CombinedIsUnsigned ==
    ASSUME NEW words \in Seq(Word), Len(words) * WordBits <= AccumulatorBits
    PROVE  /\ Combined(words) \in Nat
           /\ Combined(words) = Unsigned(words)
           /\ Combined(words) < Pow2[WordBits * Len(words)]
           /\ Len(words) >= 1 =>
                /\ words[1] * Pow2[WordBits * (Len(words) - 1)] <= Combined(words)
                /\ Combined(words) < (words[1] + 1) * Pow2[WordBits * (Len(words) - 1)]
<1>. DEFINE N == Len(words)
            W == WordBits
<1>1. N \in Nat /\ \A k \in 1 .. N : words[k] \in Nat /\ words[k] < Pow2[W]
  <2>1. N \in Nat /\ \A k \in 1 .. N : words[k] \in Word
    OBVIOUS
  <2>2. QED
    BY <2>1, WordFacts
<1>2. PICK c : /\ c[0] = 0
               /\ \A k \in 1 .. N : c[k] = (c[k - 1] * Pow2[W] + words[k]) % Width
               /\ Combined(words) = c[N]
  BY CombinedSteps
<1>3. PICK s : /\ s[0] = 0
               /\ \A k \in 1 .. N : s[k] = s[k - 1] + words[k] * Pow2[W * (N - k)]
               /\ Unsigned(words) = s[N]
  BY UnsignedSteps
<1>4. W \in Nat \ {0} /\ \A k \in Nat : W * k \in Nat
  BY WordFacts
<1>. DEFINE High(k) == /\ words[1] * Pow2[W * (k - 1)] <= c[k]
                       /\ c[k] < (words[1] + 1) * Pow2[W * (k - 1)]
            T == {k \in 0 .. N : /\ c[k] \in Nat
                                 /\ c[k] < Pow2[W * k]
                                 /\ s[k] = c[k] * Pow2[W * (N - k)]
                                 /\ k >= 1 => High(k)}
<1>5. 0 \in T
  <2>1. W * 0 = 0 /\ W * (N - 0) \in Nat
    BY <1>1, <1>4
  <2>2. Pow2[0] = 1 /\ Pow2[W * (N - 0)] \in Nat
    BY <2>1, Pow2Steps, Pow2Positive
  <2>3. 0 * Pow2[W * (N - 0)] = 0
    BY <2>2
  <2>4. QED
    BY <2>1, <2>2, <2>3, <1>1, <1>2, <1>3
<1>6. ASSUME NEW k \in 0 .. (N - 1), k \in T PROVE k + 1 \in T
  <2>1. /\ k \in Nat /\ k + 1 \in 1 .. N /\ k + 1 \in 0 .. N /\ (k + 1) - 1 = k
        /\ N - k \in Nat /\ N - (k + 1) \in Nat /\ N - k = 1 + (N - (k + 1))
    BY <1>1
  <2>2. c[k] \in Nat /\ c[k] < Pow2[W * k] /\ s[k] = c[k] * Pow2[W * (N - k)] /\ (k >= 1 => High(k))
    BY <1>6
  <2>. DEFINE x == words[k + 1]
              next == c[k] * Pow2[W] + x
  <2>3. x \in Nat /\ x < Pow2[W] /\ Pow2[W] \in Nat
    BY <1>1, <2>1, WordFacts
  <2>4. Pow2[W * k] \in Nat /\ Pow2[W * (k + 1)] = Pow2[W * k] * Pow2[W]
    <3>1. W * k \in Nat /\ W * (k + 1) = W * k + W
      BY <1>4, <2>1
    <3>2. QED
      BY <3>1, <1>4, Pow2Sum, Pow2Positive
  <2>5. next \in Nat /\ next < Pow2[W * (k + 1)]
    <3>. HIDE DEF x
    <3>1. /\ c[k] * Pow2[W] + x \in Nat
          /\ c[k] * Pow2[W] + x < Pow2[W * k] * Pow2[W]
      BY <2>2, <2>3, <2>4, OneMoreWord
    <3>2. QED
      BY <3>1, <2>4
  <2>6. Pow2[W * (k + 1)] <= Width
    <3>1. W * (k + 1) \in Nat /\ AccumulatorBits \in Nat
      BY <1>4, <2>1, WordFacts
    <3>2. W * (k + 1) <= AccumulatorBits
      <4>1. W * (k + 1) <= W * N
        BY <1>4, <2>1
      <4>2. W * N = N * W
        BY <1>1, <1>4
      <4>3. W * N \in Nat
        BY <1>1, <1>4
      <4>4. QED
        BY <4>1, <4>2, <4>3, <3>1
    <3>3. QED
      BY <3>1, <3>2, Pow2Monotone DEF Width
  <2>7. c[k + 1] = next
    <3>1. c[k + 1] = next % Width
      BY <1>2, <2>1
    <3>2. Width \in Nat \ {0} /\ Pow2[W * (k + 1)] \in Nat
      BY WordFacts, Pow2Positive, <2>1, <1>4
    <3>3. next < Width
      BY <2>5, <2>6, <3>2
    <3>. HIDE DEF next
    <3>4. next % Width = next
      BY <3>2, <3>3, <2>5
    <3>5. QED
      BY <3>1, <3>4
  <2>8. s[k + 1] = next * Pow2[W * (N - (k + 1))]
    <3>. DEFINE q == Pow2[W * (N - (k + 1))]
    <3>1. s[k + 1] = s[k] + x * q
      BY <1>3, <2>1
    <3>2. Pow2[W * (N - k)] = Pow2[W] * q /\ q \in Nat
      <4>1. W * (N - k) = W + W * (N - (k + 1)) /\ W * (N - (k + 1)) \in Nat
        BY <1>4, <2>1
      <4>2. QED
        BY <4>1, <1>4, Pow2Sum, Pow2Positive
    <3>. HIDE DEF q, x
    <3>3. c[k] * (Pow2[W] * q) + x * q = (c[k] * Pow2[W] + x) * q
      BY <3>2, <2>2, <2>3
    <3>4. QED
      BY <3>1, <3>2, <3>3, <2>2 DEF q
  <2>9. High(k + 1)
    <3>1. CASE k = 0
      <4>1. Pow2[W * ((k + 1) - 1)] = 1
        <5>1. W * ((k + 1) - 1) = 0
          BY <3>1, <1>4
        <5>2. QED
          BY <5>1, Pow2Steps
      <4>2. c[k + 1] = words[1] /\ words[1] \in Nat
        <5>1. next = words[1]
          BY <3>1, <1>2, <2>3
        <5>2. QED
          BY <5>1, <2>7, <2>3, <3>1
      <4>3. QED
        BY <4>1, <4>2
    <3>2. CASE k # 0
      <4>1. k >= 1 /\ High(k) /\ words[1] \in Nat /\ k - 1 \in Nat
        BY <3>2, <2>1, <2>2, <1>1
      <4>. DEFINE p == Pow2[W * (k - 1)]
      <4>2. Pow2[W * ((k + 1) - 1)] = p * Pow2[W] /\ p \in Nat
        <5>1. W * ((k + 1) - 1) = W * (k - 1) + W /\ W * (k - 1) \in Nat
          BY <4>1, <1>4, <2>1
        <5>2. QED
          BY <5>1, <1>4, Pow2Sum, Pow2Positive
      <4>. HIDE DEF p, x
      <4>3. words[1] * p <= c[k] /\ c[k] < (words[1] + 1) * p
        BY <4>1 DEF p
      <4>4. /\ words[1] * (p * Pow2[W]) <= c[k] * Pow2[W] + x
            /\ c[k] * Pow2[W] + x < (words[1] + 1) * (p * Pow2[W])
        BY <4>1, <4>2, <4>3, <2>2, <2>3, HighWordBounds
      <4>5. QED
        BY <4>2, <4>4, <2>7
    <3>3. QED
      BY <3>1, <3>2
  <2>. HIDE DEF High, next
  <2>10. QED
    BY <2>1, <2>5, <2>7, <2>8, <2>9
<1>. HIDE DEF T
<1>7. 0 .. N \subseteq T
  BY <1>1, <1>5, <1>6, BoundedInduction
<1>8. N \in T /\ N - N = 0
  BY <1>1, <1>7
<1>9. c[N] \in Nat /\ c[N] < Pow2[W * N] /\ s[N] = c[N] * Pow2[W * 0] /\ (N >= 1 => High(N))
  BY <1>8 DEF T
<1>10. s[N] = c[N]
  <2>1. W * 0 = 0
    BY <1>4
  <2>2. Pow2[W * 0] = 1
    BY <2>1, Pow2Steps
  <2>3. QED
    BY <1>9, <2>2
<1>11. QED
  BY <1>2, <1>3, <1>9, <1>10
-----------------------------------------------------------------------------
LEMMA DivByLarger ==
    ASSUME NEW x \in Nat, NEW b \in Nat \ {0}
    PROVE  /\ x < b => x \div b = 0 /\ x % b = x
           /\ b <= x /\ x < 2 * b => x \div b = 1
<1>1. ASSUME x < b PROVE x \div b = 0
  BY <1>1
<1>2. ASSUME x < b PROVE x % b = x
  BY <1>2
<1>3. ASSUME b <= x, x < 2 * b PROVE x \div b = 1
  BY <1>3
<1>4. QED
  BY <1>1, <1>2, <1>3

(* Setting the bits above the sign bit is two's complement. *)
LEMMA ExtendIsTwosComplement ==
    ASSUME NEW x \in Nat, NEW b \in Nat \ {0}, x < 2 * b, 2 * b <= Width,
           b <= Pow2[AccumulatorBits - 1], Width = 2 * Pow2[AccumulatorBits - 1]
    PROVE  AsSigned(Extend(x, b), AccumulatorBits) = IF x >= b THEN x - 2 * b ELSE x
<1>. DEFINE h == Pow2[AccumulatorBits - 1]
<1>1. Width \in Nat \ {0} /\ h \in Nat \ {0}
  <2>1. AccumulatorBits - 1 \in Nat
    BY WordFacts
  <2>2. QED
    BY <2>1, WordFacts, Pow2Positive
<1>2. (2 * b - 1) % Width = 2 * b - 1 /\ (2 * b - 1) + 1 = 2 * b
  <2>1. 2 * b - 1 \in Nat /\ 2 * b - 1 < Width
    BY <1>1
  <2>2. (2 * b - 1) % Width = 2 * b - 1
    BY <2>1, <1>1, DivByLarger
  <2>3. QED
    BY <2>2
<1>3. x % (2 * b) = x
  <2>1. 2 * b \in Nat \ {0}
    OBVIOUS
  <2>2. QED
    BY <2>1, DivByLarger
<1>4. CASE x >= b
  <2>1. (x \div b) % 2 = 1
    <3>1. x \div b = 1
      BY <1>4, DivByLarger
    <3>2. QED
      BY <3>1
  <2>2. Extend(x, b) = (Width - 1 - (2 * b - 1)) + x
    BY <2>1, <1>2, <1>3 DEF Extend
  <2>3. Extend(x, b) >= h
    BY <2>2, <1>1, <1>4
  <2>4. AsSigned(Extend(x, b), AccumulatorBits) = Extend(x, b) - Width
    BY <2>3 DEF AsSigned, Width
  <2>5. QED
    BY <2>2, <2>4, <1>1, <1>4
<1>5. CASE ~(x >= b)
  <2>1. (x \div b) % 2 = 0
    BY <1>5, DivByLarger
  <2>2. Extend(x, b) = x
    BY <2>1 DEF Extend
  <2>3. ~(x >= h)
    BY <1>5, <1>1
  <2>4. QED
    BY <2>2, <2>3, <1>5 DEF AsSigned
<1>6. QED
  BY <1>4, <1>5

(* A signed reading: computeScaledValue() gives its two's complement value. *)
LEMMA SignedIsTwosComplement ==
    ASSUME NEW words \in Seq(Word), words # <<>>, Len(words) * WordBits <= AccumulatorBits
    PROVE  SignedValues(words) =
               {IF words[1] >= Pow2[WordBits - 1]
                THEN Unsigned(words) - Pow2[WordBits * Len(words)] ELSE Unsigned(words)}
<1>. DEFINE N == Len(words)
            W == WordBits
            x == Combined(words)
<1>1. N \in Nat /\ N >= 1 /\ words[1] \in Nat
  <2>1. N \in Nat /\ N >= 1 /\ words[1] \in Word
    OBVIOUS
  <2>2. QED
    BY <2>1, WordFacts
<1>2. W \in Nat /\ W >= 1 /\ W - 1 \in Nat /\ AccumulatorBits \in Nat /\ AccumulatorBits >= 1
  BY WordFacts
<1>3. /\ x \in Nat /\ x = Unsigned(words) /\ x < Pow2[W * N]
      /\ words[1] * Pow2[W * (N - 1)] <= x
      /\ x < (words[1] + 1) * Pow2[W * (N - 1)]
  BY <1>1, CombinedIsUnsigned
<1>. HIDE DEF x
<1>4. CASE N = 1
  <2>1. Pow2[W * (N - 1)] = 1 /\ W * N = W
    <3>1. W * (N - 1) = 0 /\ W * N = W
      BY <1>4, <1>2
    <3>2. QED
      BY <3>1, Pow2Steps
  <2>2. x = words[1]
    BY <2>1, <1>1, <1>3
  <2>3. SignedValues(words) = {AsSigned(x, W)}
    BY <1>4, <2>2 DEF SignedValues
  <2>4. QED
    BY <2>1, <2>2, <2>3, <1>3 DEF AsSigned
<1>5. CASE N # 1
  <2>. DEFINE q == Pow2[W * (N - 1)]
              h == Pow2[W - 1]
              b == Pow2[N * W - 1]
  <2>1. /\ N - 1 \in Nat /\ W * (N - 1) \in Nat /\ W * N = N * W
        /\ N * W - 1 = (W - 1) + W * (N - 1) /\ N * W - 1 \in Nat
        /\ (N * W - 1) + 1 = W * N
    <3>1. N - 1 \in Nat /\ W * (N - 1) \in Nat
      BY <1>1, <1>2
    <3>2. W * N = N * W /\ N * W = W + W * (N - 1)
      BY <1>1, <1>2
    <3>3. QED
      BY <3>1, <3>2, <1>2
  <2>2. b = h * q /\ Pow2[W * N] = 2 * b /\ b \in Nat \ {0} /\ h \in Nat \ {0} /\ q \in Nat \ {0}
    <3>1. Pow2[(W - 1) + W * (N - 1)] = h * q
      BY <2>1, <1>2, Pow2Sum
    <3>2. Pow2[(N * W - 1) + 1] = 2 * b
      BY <2>1, Pow2Steps
    <3>3. QED
      BY <2>1, <1>2, <3>1, <3>2, Pow2Positive
  <2>3. (x >= b) = (words[1] >= h)
    <3>. HIDE DEF b, h, q
    <3>1. \A i, j \in Nat : i <= j => i * q <= j * q
      BY <2>2
    <3>2. CASE words[1] >= h
      <4>1. h * q <= words[1] * q
        BY <3>1, <3>2, <2>2, <1>1
      <4>2. words[1] * q \in Nat
        BY <2>2, <1>1
      <4>3. x >= b
        BY <4>1, <4>2, <2>2, <1>3 DEF q
      <4>4. QED
        BY <4>3, <3>2
    <3>3. CASE ~(words[1] >= h)
      <4>1. words[1] + 1 \in Nat /\ words[1] + 1 <= h
        BY <3>3, <2>2, <1>1
      <4>2. (words[1] + 1) * q <= h * q
        BY <3>1, <4>1, <2>2
      <4>3. (words[1] + 1) * q \in Nat
        BY <2>2, <4>1
      <4>4. ~(x >= b)
        BY <4>2, <4>3, <2>2, <1>3 DEF q
      <4>5. QED
        BY <4>4, <3>3
    <3>4. QED
      BY <3>2, <3>3
  <2>4. SignedValues(words) = {AsSigned(Extend(x, b), AccumulatorBits)}
    <3>1. SignBits(N * W) = {b}
      BY DEF SignBits
    <3>2. QED
      BY <3>1, <1>5 DEF SignedValues, x
  <2>5. /\ 2 * b <= Width /\ b <= Pow2[AccumulatorBits - 1]
        /\ Width = 2 * Pow2[AccumulatorBits - 1]
    <3>1. AccumulatorBits - 1 \in Nat /\ (AccumulatorBits - 1) + 1 = AccumulatorBits
      BY <1>2
    <3>2. N * W - 1 <= AccumulatorBits - 1
      BY <2>1, <1>2
    <3>3. b <= Pow2[AccumulatorBits - 1]
      BY <3>1, <3>2, <2>1, Pow2Monotone
    <3>4. Width = 2 * Pow2[AccumulatorBits - 1] /\ Pow2[AccumulatorBits - 1] \in Nat
      BY <3>1, Pow2Steps, Pow2Positive DEF Width
    <3>5. QED
      BY <3>3, <3>4, <2>2
  <2>. HIDE DEF b, h, q
  <2>6. AsSigned(Extend(x, b), AccumulatorBits) = IF x >= b THEN x - 2 * b ELSE x
    <3>1. x < 2 * b
      BY <1>3, <2>2
    <3>2. QED
      BY <1>3, <2>2, <2>5, <3>1, ExtendIsTwosComplement
  <2>7. QED
    BY <2>2, <2>3, <2>4, <2>6, <1>3 DEF h
<1>6. QED
  BY <1>4, <1>5

(* Counting the bits that are set. *)
LEMMA CardinalityIsOnes ==
    ASSUME NEW bits \in Seq(BOOLEAN)
    PROVE  Cardinality({k \in DOMAIN bits : bits[k]}) = Ones(bits)
<1>. DEFINE N == Len(bits)
            Up(n) == {k \in 1 .. n : bits[k]}
<1>1. N \in Nat /\ DOMAIN bits = 1 .. N
  OBVIOUS
<1>2. PICK s : /\ s[0] = 0
               /\ \A k \in 1 .. N : s[k] = s[k - 1] + (IF bits[k] THEN 1 ELSE 0)
               /\ Ones(bits) = s[N]
  BY OnesSteps
<1>. DEFINE T == {n \in 0 .. N : IsFiniteSet(Up(n)) /\ Cardinality(Up(n)) = s[n]}
<1>3. 0 \in T
  <2>1. Up(0) = {}
    OBVIOUS
  <2>2. IsFiniteSet({}) /\ Cardinality({}) = 0
    BY FS_EmptySet
  <2>3. QED
    BY <2>1, <2>2, <1>1, <1>2
<1>4. ASSUME NEW n \in 0 .. (N - 1), n \in T PROVE n + 1 \in T
  <2>1. n \in Nat /\ n + 1 \in 1 .. N /\ n + 1 \in 0 .. N /\ (n + 1) - 1 = n
    BY <1>1
  <2>2. IsFiniteSet(Up(n)) /\ Cardinality(Up(n)) = s[n]
    BY <1>4
  <2>3. s[n + 1] = s[n] + (IF bits[n + 1] THEN 1 ELSE 0)
    BY <1>2, <2>1
  <2>4. Cardinality(Up(n)) \in Nat
    <3>. HIDE DEF Up
    <3>1. QED
      BY <2>2, FS_CardinalityType
  <2>5. CASE bits[n + 1]
    <3>1. Up(n + 1) = Up(n) \cup {n + 1} /\ n + 1 \notin Up(n)
      BY <2>5, <2>1
    <3>. HIDE DEF Up
    <3>2. /\ IsFiniteSet(Up(n) \cup {n + 1})
          /\ Cardinality(Up(n) \cup {n + 1}) = Cardinality(Up(n)) + 1
      BY <3>1, <2>2, FS_AddElement
    <3>3. QED
      BY <3>1, <3>2, <2>1, <2>2, <2>3, <2>5
  <2>6. CASE ~bits[n + 1]
    <3>1. Up(n + 1) = Up(n)
      BY <2>6, <2>1
    <3>. HIDE DEF Up
    <3>2. QED
      BY <3>1, <2>1, <2>2, <2>3, <2>4, <2>6
  <2>7. QED
    BY <2>5, <2>6
<1>. HIDE DEF T
<1>5. 0 .. N \subseteq T
  BY <1>1, <1>3, <1>4, BoundedInduction
<1>6. N \in T
  BY <1>1, <1>5
<1>7. QED
  BY <1>1, <1>2, <1>6 DEF T

LEMMA ClampIsNearest ==
    ASSUME NEW v \in Int, NEW min \in Int, NEW max \in Int, min <= max
    PROVE  clampValue(v, min, max) = Nearest(v, min, max)
<1>. DEFINE c == clampValue(v, min, max)
            P(n) == /\ min <= n /\ n <= max
                    /\ v \in min .. max => n = v
                    /\ v < min => n = min
                    /\ v > max => n = max
<1>1. c \in {v, min, max} /\ P(c)
  BY DEF clampValue
<1>2. ASSUME NEW n \in {v, min, max}, P(n) PROVE n = c
  BY <1>2 DEF clampValue
<1>. HIDE DEF c, P
<1>3. c = CHOOSE n \in {v, min, max} : P(n)
  BY <1>1, <1>2
<1>4. QED
  BY <1>3 DEF Nearest, P, c
-----------------------------------------------------------------------------
(***************************************************************************)
(* The inductive invariant: an entry that has been read shows a value      *)
(* updateState() computed from the raw data the entry holds, in manual     *)
(* mode every entry carries the interval of the device, and no poll began  *)
(* in the future (so that the interval measured is not negative).          *)
(***************************************************************************)
ShowsComputed(e, c) ==
    e.lastUpdated # 0 =>
        \E v \in computeScaledValue(c, e.raw) :
            e.scaledValue = clampValue(v, c.minValue, c.maxValue)

HasInterval(e, p) == p.pollMode = "Manual" => e.pollingIntervalMs = p.intervalMs

TableInv ==
    /\ TableTypeOK
    /\ pollStart <= now
    /\ \A id \in DOMAIN states :
          ShowsComputed(states[id], config) /\ HasInterval(states[id], polling)

RawData(c) == Seq(IF IsBit(c) THEN BOOLEAN ELSE Word)

LEMMA SetupTypes ==
    ASSUME TableTypeOK
    PROVE  /\ config \in RegisterConfig
           /\ polling \in PollingConfig
           /\ config.minValue <= config.maxValue
<1>1. [config |-> config, polling |-> polling] \in Setups
  BY DEF TableTypeOK
<1>2. [config |-> config, polling |-> polling] \in [config: RegisterConfig, polling: PollingConfig]
  BY <1>1, TableAssumption
<1>3. config \in RegisterConfig /\ polling \in PollingConfig
  BY <1>2
<1>4. [config |-> config, polling |-> polling].config.minValue
        <= [config |-> config, polling |-> polling].config.maxValue
  BY <1>1, TableAssumption
<1>5. QED
  BY <1>3, <1>4

LEMMA CombinedType ==
    ASSUME NEW words \in Seq(Word)
    PROVE  Combined(words) \in Nat
<1>1. PICK c : /\ c[0] = 0
               /\ \A k \in 1 .. Len(words) : c[k] = (c[k - 1] * Pow2[WordBits] + words[k]) % Width
               /\ Combined(words) = c[Len(words)]
  BY CombinedSteps
<1>2. Len(words) \in Nat /\ \A k \in 1 .. Len(words) : words[k] \in Word
  OBVIOUS
<1>. DEFINE T == {k \in 0 .. Len(words) : c[k] \in Nat}
<1>3. 0 \in T
  BY <1>1, <1>2
<1>4. ASSUME NEW k \in 0 .. (Len(words) - 1), k \in T PROVE k + 1 \in T
  <2>1. k + 1 \in 1 .. Len(words) /\ k + 1 \in 0 .. Len(words) /\ (k + 1) - 1 = k /\ c[k] \in Nat
    BY <1>2, <1>4
  <2>2. words[k + 1] \in Nat /\ Pow2[WordBits] \in Nat /\ Width \in Nat \ {0}
    BY <1>2, <2>1, WordFacts
  <2>3. c[k + 1] = (c[k] * Pow2[WordBits] + words[k + 1]) % Width
    BY <1>1, <2>1
  <2>4. c[k] * Pow2[WordBits] + words[k + 1] \in Nat
    BY <2>1, <2>2
  <2>5. \A a \in Nat : a % Width \in Nat
    BY <2>2
  <2>6. QED
    BY <2>1, <2>3, <2>4, <2>5
<1>. HIDE DEF T
<1>5. 0 .. Len(words) \subseteq T
  BY <1>2, <1>3, <1>4, BoundedInduction
<1>6. Len(words) \in T
  BY <1>2, <1>5
<1>7. QED
  BY <1>1, <1>6 DEF T

LEMMA SignedType ==
    ASSUME NEW words \in Seq(Word), words # <<>>
    PROVE  SignedValues(words) \subseteq Int
<1>1. \A n \in Nat : Pow2[n] \in Int
  BY Pow2Positive
<1>2. \A x \in Int, n \in Nat \ {0} : AsSigned(x, n) \in Int
  BY <1>1 DEF AsSigned
<1>3. CASE Len(words) = 1
  <2>1. words[1] \in Word
    OBVIOUS
  <2>5. words[1] \in Nat /\ WordBits \in Nat \ {0}
    BY <2>1, WordFacts
  <2>2. words[1] \in Int /\ WordBits \in Nat \ {0}
    BY <2>5
  <2>3. AsSigned(words[1], WordBits) \in Int
    BY <2>2, <1>2
  <2>4. QED
    BY <1>3, <2>3 DEF SignedValues
<1>4. CASE Len(words) # 1
  <2>1. SUFFICES ASSUME NEW b \in SignBits(Len(words) * WordBits)
        PROVE  AsSigned(Extend(Combined(words), b), AccumulatorBits) \in Int
    BY <1>4 DEF SignedValues
  <2>2. b \in Nat
    <3>1. Len(words) \in Nat /\ Len(words) >= 1 /\ WordBits \in Nat /\ WordBits >= 1
      BY WordFacts
    <3>2. Len(words) * WordBits \in Nat /\ Len(words) * WordBits >= 1
      BY <3>1
    <3>3. Len(words) * WordBits - 1 \in Nat
      BY <3>2
    <3>4. (Len(words) * WordBits - 1) % AccumulatorBits \in Nat
      BY <3>3, WordFacts
    <3>5. QED
      BY <3>3, <3>4, Pow2Positive DEF SignBits
  <2>3. Width \in Nat \ {0} /\ Combined(words) \in Nat /\ AccumulatorBits \in Nat \ {0}
    BY WordFacts, CombinedType
  <2>. DEFINE ones == (2 * b - 1) % Width
              x == Combined(words)
  <2>4. ones \in Nat
    <3>1. 2 * b - 1 \in Int
      BY <2>2
    <3>2. \A a \in Int : a % Width \in Nat
      BY <2>3
    <3>3. QED
      BY <3>1, <3>2
  <2>5. x % (ones + 1) \in Int
    <3>. HIDE DEF ones, x
    <3>1. ones + 1 \in Nat \ {0}
      BY <2>4
    <3>2. x \in Nat
      BY <2>3 DEF x
    <3>3. QED
      BY <3>1, <3>2
  <2>6. Extend(x, b) = x \/ Extend(x, b) = (Width - 1 - ones) + (x % (ones + 1))
    BY DEF Extend
  <2>7. Extend(x, b) \in Int
    <3>. HIDE DEF ones
    <3>1. QED
      BY <2>3, <2>4, <2>5, <2>6
  <2>8. QED
    BY <1>2, <2>3, <2>7
<1>5. QED
  BY <1>3, <1>4

LEMMA CountType ==
    ASSUME NEW bits \in Seq(BOOLEAN)
    PROVE  Cardinality({k \in DOMAIN bits : bits[k]}) \in Nat
<1>. DEFINE Up == {k \in DOMAIN bits : bits[k]}
<1>1. DOMAIN bits = 1 .. Len(bits) /\ Len(bits) \in Int /\ 1 \in Int
  OBVIOUS
<1>2. IsFiniteSet(DOMAIN bits)
  BY <1>1, FS_Interval
<1>3. Up \subseteq DOMAIN bits
  OBVIOUS
<1>. HIDE DEF Up
<1>4. IsFiniteSet(Up)
  BY <1>2, <1>3, FS_Subset
<1>5. Cardinality(Up) \in Nat
  BY <1>4, FS_CardinalityType
<1>6. QED
  BY <1>5 DEF Up

LEMMA ComputedType ==
    ASSUME NEW c \in RegisterConfig, NEW raw \in RawData(c)
    PROVE  computeScaledValue(c, raw) \subseteq Int
<1>1. c.scale \in Int
  BY DEF RegisterConfig
<1>2. \A a, b \in Int : a * b \in Int
  OBVIOUS
<1>3. CASE raw = <<>>
  BY <1>3 DEF computeScaledValue
<1>4. CASE raw # <<>> /\ IsBit(c)
  <2>1. raw \in Seq(BOOLEAN)
    BY <1>4 DEF RawData
  <2>2. Cardinality({k \in DOMAIN raw : raw[k]}) \in Int
    BY <2>1, CountType
  <2>3. QED
    BY <1>1, <1>2, <1>4, <2>2 DEF computeScaledValue
<1>5. CASE raw # <<>> /\ ~IsBit(c)
  <2>1. raw \in Seq(Word)
    BY <1>5 DEF RawData
  <2>2. Combined(raw) \in Int /\ SignedValues(raw) \subseteq Int
    BY <2>1, <1>5, CombinedType, SignedType
  <2>3. QED
    BY <1>1, <1>2, <1>5, <2>2 DEF computeScaledValue
<1>6. QED
  BY <1>3, <1>4, <1>5

LEMMA ClampType ==
    ASSUME NEW v \in Int, NEW min \in Int, NEW max \in Int
    PROVE  clampValue(v, min, max) \in Int
BY DEF clampValue
-----------------------------------------------------------------------------
LEMMA EntryType ==
    ASSUME NEW c, NEW e \in RegisterState(c)
    PROVE  /\ e.config = c /\ e.raw \in RawData(c) /\ e.scaledValue \in Int
           /\ e.outOfRange \in BOOLEAN /\ e.lastUpdated \in Nat
           /\ e.isValid \in BOOLEAN /\ e.pollingIntervalMs \in Nat
BY DEF RegisterState, RawData

(* What StateOf() starts from: the entry, or the default for a new id. *)
LEMMA StateOfType ==
    ASSUME TableInv, NEW id
    PROVE  StateOf(id, config) \in RegisterState(config) /\ ShowsComputed(StateOf(id, config), config)
<1>1. CASE id \in DOMAIN states
  BY <1>1 DEF StateOf, TableInv, TableTypeOK
<1>2. CASE id \notin DOMAIN states
  <2>1. <<>> \in RawData(config)
    BY DEF RawData
  <2>2. StateOf(id, config) = [config |-> config, raw |-> <<>>, scaledValue |-> 0,
            outOfRange |-> FALSE, lastUpdated |-> 0, isValid |-> TRUE, pollingIntervalMs |-> 2]
    BY <1>2 DEF StateOf
  <2>3. QED
    BY <2>1, <2>2 DEF RegisterState, RawData, ShowsComputed
<1>3. QED
  BY <1>1, <1>2

(* The two stages of an entry in updateState(). *)
Touched(e, s, success, interval) ==
    e = [s EXCEPT !.config = config, !.isValid = success, !.pollingIntervalMs = interval]

Read(r, e, raw, v, out) ==
    r = [e EXCEPT !.lastUpdated = now, !.raw = raw, !.outOfRange = out,
                  !.scaledValue = clampValue(v, config.minValue, config.maxValue)]

(* The entry a failed read leaves, and the one updateState() goes on from. *)
LEMMA TouchedEntry ==
    ASSUME TableInv, NEW s \in RegisterState(config), ShowsComputed(s, config),
           NEW success \in BOOLEAN, NEW interval \in Nat,
           polling.pollMode = "Manual" => interval = polling.intervalMs, NEW e,
           Touched(e, s, success, interval)
    PROVE  /\ e \in RegisterState(config)
           /\ ShowsComputed(e, config)
           /\ HasInterval(e, polling)
           /\ e.lastUpdated = s.lastUpdated
           /\ e.pollingIntervalMs = interval
<1>1. e \in RegisterState(config)
  BY DEF RegisterState, Touched
<1>2. /\ e.raw = s.raw /\ e.scaledValue = s.scaledValue /\ e.lastUpdated = s.lastUpdated
      /\ e.pollingIntervalMs = interval
  BY DEF RegisterState, Touched
<1>3. ShowsComputed(e, config)
  BY <1>2 DEF ShowsComputed
<1>4. HasInterval(e, polling)
  BY <1>2 DEF HasInterval
<1>5. QED
  BY <1>1, <1>2, <1>3, <1>4

(* The entry of a register that has been read. *)
LEMMA ReadEntry ==
    ASSUME TableInv, NEW e \in RegisterState(config), HasInterval(e, polling),
           NEW raw \in RawData(config), NEW v \in computeScaledValue(config, raw),
           NEW out \in BOOLEAN, NEW r,
           Read(r, e, raw, v, out)
    PROVE  /\ r \in RegisterState(config)
           /\ ShowsComputed(r, config)
           /\ HasInterval(r, polling)
           /\ r.isValid = e.isValid
           /\ r.lastUpdated = now
<1>. DEFINE w == clampValue(v, config.minValue, config.maxValue)
<1>0. r = [e EXCEPT !.lastUpdated = now, !.raw = raw, !.outOfRange = out, !.scaledValue = w]
  BY DEF Read
<1>1. config \in RegisterConfig /\ now \in Nat
  BY SetupTypes DEF TableInv, TableTypeOK
<1>2. w \in Int
  <2>1. v \in Int
    BY <1>1, ComputedType
  <2>2. config.minValue \in Int /\ config.maxValue \in Int
    BY <1>1 DEF RegisterConfig
  <2>3. QED
    BY <2>1, <2>2, ClampType
<1>. HIDE DEF w
<1>3. r \in RegisterState(config)
  BY <1>0, <1>1, <1>2 DEF RegisterState, RawData
<1>4. /\ r.raw = raw /\ r.scaledValue = w /\ r.lastUpdated = now /\ r.isValid = e.isValid
      /\ r.pollingIntervalMs = e.pollingIntervalMs
  BY <1>0 DEF RegisterState
<1>5. ShowsComputed(r, config)
  BY <1>4 DEF ShowsComputed, w
<1>6. HasInterval(r, polling)
  BY <1>4 DEF HasInterval
<1>7. QED
  BY <1>3, <1>4, <1>5, <1>6

(* What updateState() does to the table, whether the read failed or not. *)
LEMMA UpdateStep ==
    ASSUME TableInv, NEW raw, NEW success \in BOOLEAN, NEW interval \in Nat,
           success => raw \in RawData(config),
           polling.pollMode = "Manual" => interval = polling.intervalMs,
           updateState(raw, success, interval)
    PROVE  /\ DOMAIN states' \subseteq Nat
           /\ \A id \in DOMAIN states' :
                /\ states'[id] \in RegisterState(config)
                /\ ShowsComputed(states'[id], config)
                /\ HasInterval(states'[id], polling)
           /\ \A id \in DOMAIN states \cap DOMAIN states' :
                \/ states'[id] = states[id]
                \/ /\ ~success
                   /\ states'[id].lastUpdated = states[id].lastUpdated
                   /\ states'[id].pollingIntervalMs = interval
                \/ states'[id].isValid /\ states'[id].lastUpdated = now
<1>1. /\ DOMAIN states \subseteq Nat
      /\ \A id \in DOMAIN states : /\ states[id] \in RegisterState(config)
                                   /\ ShowsComputed(states[id], config)
                                   /\ HasInterval(states[id], polling)
  BY DEF TableInv, TableTypeOK
<1>2. CASE UNCHANGED states
  BY <1>1, <1>2
<1>3. CASE config.unifiedAddress >= 0 /\ Store(config.unifiedAddress, raw, success, interval)
  <2>. DEFINE id == config.unifiedAddress
              s  == StateOf(id, config)
  <2>9. PICK e : Touched(e, s, success, interval)
    BY DEF Touched
  <2>1. id \in Nat
    BY <1>3, SetupTypes DEF RegisterConfig, TableInv
  <2>2. s \in RegisterState(config) /\ ShowsComputed(s, config)
    BY StateOfType
  <2>3. /\ e \in RegisterState(config) /\ ShowsComputed(e, config) /\ HasInterval(e, polling)
        /\ e.lastUpdated = s.lastUpdated /\ e.pollingIntervalMs = interval
    <3>. HIDE DEF s
    <3>1. QED
      BY <2>2, <2>9, TouchedEntry
  <2>4. e.isValid = success
    BY <2>2, <2>9 DEF RegisterState, Touched
  <2>5. ASSUME NEW entry, states' = Put(id, entry),
               entry \in RegisterState(config), ShowsComputed(entry, config),
               HasInterval(entry, polling),
               \/ ~success /\ entry.lastUpdated = s.lastUpdated /\ entry.pollingIntervalMs = interval
               \/ entry.isValid /\ entry.lastUpdated = now
        PROVE  /\ DOMAIN states' \subseteq Nat
               /\ \A k \in DOMAIN states' :
                    /\ states'[k] \in RegisterState(config)
                    /\ ShowsComputed(states'[k], config)
                    /\ HasInterval(states'[k], polling)
               /\ \A k \in DOMAIN states \cap DOMAIN states' :
                    \/ states'[k] = states[k]
                    \/ /\ ~success
                       /\ states'[k].lastUpdated = states[k].lastUpdated
                       /\ states'[k].pollingIntervalMs = interval
                    \/ states'[k].isValid /\ states'[k].lastUpdated = now
    <3>1. DOMAIN states' = DOMAIN states \cup {id}
      BY <2>5 DEF Put
    <3>2. \A k \in DOMAIN states' : states'[k] = IF k = id THEN entry ELSE states[k]
      BY <2>5 DEF Put
    <3>3. id \in DOMAIN states => s = states[id]
      BY DEF StateOf
    <3>. HIDE DEF id, s
    <3>4. QED
      BY <3>1, <3>2, <3>3, <2>1, <2>5, <1>1
  <2>6. CASE ~success /\ states' = Put(id, e)
    <3>. HIDE DEF s, id
    <3>1. QED
      BY <2>3, <2>5, <2>6
  <2>7. CASE success
    <3>. DEFINE out == e.scaledValue < config.minValue \/ e.scaledValue > config.maxValue
    <3>1. PICK v, r :
            /\ v \in computeScaledValue(config, raw)
            /\ Read(r, e, raw, v, out)
            /\ states' = Put(id, r)
      BY <1>3, <2>7, <2>9 DEF Store, Touched, Read
    <3>2. out \in BOOLEAN
      OBVIOUS
    <3>. HIDE DEF out, s, id
    <3>3. /\ r \in RegisterState(config) /\ ShowsComputed(r, config)
          /\ HasInterval(r, polling) /\ r.isValid = e.isValid /\ r.lastUpdated = now
      BY <2>3, <2>7, <3>1, <3>2, ReadEntry
    <3>4. QED
      BY <3>1, <3>3, <2>4, <2>5, <2>7
  <2>8. QED
    BY <1>3, <2>6, <2>7, <2>9 DEF Store, Touched
<1>4. QED
  BY <1>2, <1>3 DEF updateState

LEMMA QualityInterval ==
    ASSUME TableInv
    PROVE  /\ intervalForQuality \in Nat
           /\ polling.pollMode = "Manual" => intervalForQuality = polling.intervalMs
<1>1. polling \in PollingConfig /\ effectiveInterval \in Nat
  BY SetupTypes DEF TableInv, TableTypeOK
<1>2. QED
  BY <1>1 DEF intervalForQuality, PollingConfig

LEMMA ReadingIsRaw ==
    ASSUME TableInv, NEW raw \in Reading
    PROVE  raw \in RawData(config)
<1>. DEFINE V == IF IsBit(config) THEN BOOLEAN ELSE Word
<1>1. config.length \in Nat
  BY SetupTypes DEF RegisterConfig, TableInv
<1>2. raw \in [1 .. config.length -> V]
  BY TableAssumption DEF Reading
<1>3. raw \in Seq(V)
  <2>. HIDE DEF V
  <2>1. QED
    BY <1>1, <1>2
<1>4. QED
  BY <1>3 DEF RawData

LEMMA PollBeginsKeepsTable == ASSUME TableInv, PollBegins PROVE TableInv'
<1>1. /\ UNCHANGED <<config, polling, states, now, pollEnd>>
      /\ pc' = "collect" /\ pollStart' = now
      /\ effectiveInterval' = IF pollStart > 0 THEN now - pollStart ELSE 0
  BY DEF PollBegins
<1>2. effectiveInterval' \in Nat
  BY <1>1 DEF TableInv, TableTypeOK
<1>3. QED
  BY <1>1, <1>2 DEF TableInv, TableTypeOK

(* A poll that ends keeps the invariant, whatever it read. *)
LEMMA PollEndsKeepsTable ==
    ASSUME TableInv, NEW raw, NEW success \in BOOLEAN,
           success => raw \in RawData(config),
           updateState(raw, success, intervalForQuality),
           pc' = "idle", pollEnd' = now,
           UNCHANGED <<config, polling, now, pollStart, effectiveInterval>>
    PROVE  TableInv'
<1>1. /\ intervalForQuality \in Nat
      /\ polling.pollMode = "Manual" => intervalForQuality = polling.intervalMs
  BY QualityInterval
<1>2. /\ DOMAIN states' \subseteq Nat
      /\ \A id \in DOMAIN states' :
           /\ states'[id] \in RegisterState(config)
           /\ ShowsComputed(states'[id], config)
           /\ HasInterval(states'[id], polling)
  BY <1>1, UpdateStep
<1>3. QED
  BY <1>2 DEF TableInv, TableTypeOK

LEMMA ReadOkKeepsTable == ASSUME TableInv, ReadOk PROVE TableInv'
<1>1. PICK raw \in Reading : updateState(raw, TRUE, intervalForQuality)
  BY DEF ReadOk
<1>2. raw \in RawData(config) /\ TRUE \in BOOLEAN
  BY ReadingIsRaw
<1>3. /\ pc' = "idle" /\ pollEnd' = now
      /\ UNCHANGED <<config, polling, now, pollStart, effectiveInterval>>
  BY DEF ReadOk
<1>4. QED
  BY <1>1, <1>2, <1>3, PollEndsKeepsTable

LEMMA ReadFailsKeepsTable == ASSUME TableInv, ReadFails PROVE TableInv'
<1>1. /\ updateState(<<>>, FALSE, intervalForQuality)
      /\ pc' = "idle" /\ pollEnd' = now
      /\ UNCHANGED <<config, polling, now, pollStart, effectiveInterval>>
  BY DEF ReadFails
<1>2. FALSE \in BOOLEAN /\ (FALSE => <<>> \in RawData(config))
  OBVIOUS
<1>3. QED
  BY <1>1, <1>2, PollEndsKeepsTable

LEMMA SetupIsRecord ==
    ASSUME NEW s \in Setups
    PROVE  [config |-> s.config, polling |-> s.polling] \in Setups
<1>1. s \in [config: RegisterConfig, polling: PollingConfig]
  BY TableAssumption
<1>2. s = [config |-> s.config, polling |-> s.polling]
  BY <1>1
<1>3. QED
  BY <1>2

LEMMA NoStatesDomain == DOMAIN NoStates = {}
BY DEF NoStates

LEMMA TableInitInv == TableInit => TableInv
<1>1. SUFFICES ASSUME TableInit PROVE TableInv
  OBVIOUS
<1>2. [config |-> config, polling |-> polling] \in Setups
  BY <1>1, SetupIsRecord DEF TableInit
<1>3. StartTime \in Nat
  BY TableAssumption
<1>4. QED
  BY <1>1, <1>2, <1>3, NoStatesDomain DEF TableInit, TableInv, TableTypeOK

LEMMA RestartKeepsTable == ASSUME TableInv, NEW s \in Setups, Restart(s) PROVE TableInv'
<1>1. [config |-> config', polling |-> polling'] \in Setups
  BY SetupIsRecord DEF Restart
<1>2. QED
  BY <1>1, NoStatesDomain DEF Restart, TableInv, TableTypeOK

LEMMA TickKeepsTable == ASSUME TableInv, Tick PROVE TableInv'
BY DEF Tick, TableInv, TableTypeOK

(***************************************************************************)
(* The register table's inductive invariant, its types with it, holds in   *)
(* every state the poll loop and restarts can reach.                       *)
(***************************************************************************)
THEOREM TableInvariant == TableSpec => []TableInv
<1>1. TableInv /\ [TableNext]_tableVars => TableInv'
  <2>1. SUFFICES ASSUME TableInv, [TableNext]_tableVars PROVE TableInv'
    OBVIOUS
  <2>2. CASE PollBegins
    BY <2>1, <2>2, PollBeginsKeepsTable
  <2>3. CASE ReadOk
    BY <2>1, <2>3, ReadOkKeepsTable
  <2>4. CASE ReadFails
    BY <2>1, <2>4, ReadFailsKeepsTable
  <2>5. CASE \E s \in Setups : Restart(s)
    BY <2>1, <2>5, RestartKeepsTable
  <2>6. CASE Tick
    BY <2>1, <2>6, TickKeepsTable
  <2>7. CASE UNCHANGED tableVars
    BY <2>1, <2>7 DEF TableInv, TableTypeOK, tableVars
  <2>8. QED
    BY <2>1, <2>2, <2>3, <2>4, <2>5, <2>6, <2>7 DEF TableNext
<1>2. QED
  BY <1>1, TableInitInv, PTL DEF TableSpec

(* For a reading the accumulator holds, what is computed is its value. *)
LEMMA ComputedIsValue ==
    ASSUME NEW c \in RegisterConfig, NEW raw \in RawData(c),
           IsBit(c) \/ Len(raw) * WordBits <= AccumulatorBits,
           NEW v \in computeScaledValue(c, raw)
    PROVE  v = Value(c, raw) /\ v \in Int
<1>1. c.scale \in Int /\ v \in Int /\ c.isSigned \in BOOLEAN
  BY ComputedType DEF RegisterConfig
<1>2. \A a, b \in Int : a * b = b * a
  OBVIOUS
<1>3. CASE IsBit(c)
  <2>1. raw \in Seq(BOOLEAN)
    BY <1>3 DEF RawData
  <2>. DEFINE n == Cardinality({k \in DOMAIN raw : raw[k]})
  <2>2. n = Ones(raw) /\ n \in Int
    BY <2>1, CardinalityIsOnes, CountType
  <2>3. v = n * c.scale
    <3>1. CASE raw = <<>>
      <4>1. {k \in DOMAIN raw : raw[k]} = {}
        BY <3>1
      <4>2. n = 0
        BY <4>1, FS_EmptySet
      <4>3. v = 0
        BY <3>1 DEF computeScaledValue
      <4>4. QED
        BY <4>2, <4>3, <1>1
    <3>2. CASE raw # <<>>
      BY <1>3, <3>2 DEF computeScaledValue
    <3>3. QED
      BY <3>1, <3>2
  <2>. HIDE DEF n
  <2>4. QED
    BY <1>1, <1>2, <1>3, <2>2, <2>3 DEF Value
<1>4. CASE ~IsBit(c)
  <2>1. raw \in Seq(Word) /\ Len(raw) * WordBits <= AccumulatorBits
    BY <1>4 DEF RawData
  <2>2. Combined(raw) = Unsigned(raw) /\ Combined(raw) \in Nat
    BY <2>1, CombinedIsUnsigned
  <2>3. CASE raw = <<>>
    <3>1. Unsigned(raw) = 0
      <4>1. PICK s : s[0] = 0 /\ Unsigned(raw) = s[Len(raw)]
        BY <2>1, UnsignedSteps
      <4>2. Len(raw) = 0
        BY <2>3
      <4>3. QED
        BY <4>1, <4>2
    <3>2. v = 0
      BY <2>3 DEF computeScaledValue
    <3>3. Value(c, raw) = c.scale * 0
      BY <3>1, <2>3, <1>4 DEF Value
    <3>4. QED
      BY <3>2, <3>3, <1>1
  <2>4. CASE raw # <<>> /\ c.isSigned
    <3>. DEFINE u == IF raw[1] >= Pow2[WordBits - 1]
                     THEN Unsigned(raw) - Pow2[WordBits * Len(raw)] ELSE Unsigned(raw)
    <3>1. SignedValues(raw) = {u}
      BY <2>1, <2>4, SignedIsTwosComplement
    <3>2. u \in Int
      <4>. HIDE DEF u
      <4>1. QED
        BY <2>1, <2>4, <3>1, SignedType
    <3>3. Value(c, raw) = c.scale * u
      BY <2>4, <1>4 DEF Value
    <3>. HIDE DEF u
    <3>4. v = u * c.scale
      BY <2>4, <1>4, <3>1 DEF computeScaledValue
    <3>5. QED
      BY <1>1, <1>2, <3>2, <3>3, <3>4
  <2>5. CASE raw # <<>> /\ ~c.isSigned
    <3>1. v = Combined(raw) * c.scale
      BY <2>5, <1>4 DEF computeScaledValue
    <3>2. Value(c, raw) = c.scale * Unsigned(raw)
      BY <2>5, <1>4 DEF Value
    <3>3. QED
      BY <1>1, <1>2, <2>2, <3>1, <3>2
  <2>6. QED
    BY <2>3, <2>4, <2>5, <1>1
<1>5. QED
  BY <1>3, <1>4

LEMMA TableInvShowsReading == TableInv => ValueIsReading
<1>1. SUFFICES ASSUME TableInv, NEW id \in DOMAIN states,
                      states[id].lastUpdated # 0, Fits(states[id])
      PROVE  states[id].scaledValue = Nearest(Value(states[id].config, states[id].raw),
                 states[id].config.minValue, states[id].config.maxValue)
  BY DEF ValueIsReading
<1>2. PICK e : e = states[id]
  OBVIOUS
<1>3. e \in RegisterState(config) /\ ShowsComputed(e, config)
  BY <1>1, <1>2 DEF TableInv, TableTypeOK
<1>4. e.config = config /\ e.raw \in RawData(config)
  BY <1>3, EntryType
<1>5. config \in RegisterConfig /\ config.minValue <= config.maxValue
  BY <1>1, SetupTypes DEF TableInv
<1>6. PICK v \in computeScaledValue(config, e.raw) :
        e.scaledValue = clampValue(v, config.minValue, config.maxValue)
  BY <1>1, <1>2, <1>3 DEF ShowsComputed
<1>7. v = Value(config, e.raw) /\ v \in Int
  <2>1. IsBit(config) \/ Len(e.raw) * WordBits <= AccumulatorBits
    BY <1>1, <1>2, <1>4 DEF Fits
  <2>2. QED
    BY <1>4, <1>5, <1>6, <2>1, ComputedIsValue
<1>8. clampValue(v, config.minValue, config.maxValue) = Nearest(v, config.minValue, config.maxValue)
  <2>1. config.minValue \in Int /\ config.maxValue \in Int
    BY <1>5 DEF RegisterConfig
  <2>2. QED
    BY <1>5, <1>7, <2>1, ClampIsNearest
<1>9. QED
  BY <1>2, <1>4, <1>6, <1>7, <1>8

(***************************************************************************)
(* What the API shows of a register is its last reading, for every word    *)
(* width, length, scale and range: updateState() and computeScaledValue()  *)
(* lose nothing of a reading the accumulator can hold.                     *)
(***************************************************************************)
THEOREM ShownIsRead == TableSpec => []ValueIsReading
BY TableInvariant, TableInvShowsReading, PTL
-----------------------------------------------------------------------------
LEMMA QualityOfSame ==
    ASSUME NEW e, NEW f, NEW t, e.lastUpdated = f.lastUpdated,
           e.pollingIntervalMs = f.pollingIntervalMs
    PROVE  computeQuality(e, t) = computeQuality(f, t)
BY DEF computeQuality

(* Time alone never makes a reading look better. *)
LEMMA QualityFades ==
    ASSUME NEW e, e.lastUpdated \in Nat, e.pollingIntervalMs \in Nat,
           NEW t \in Nat, NEW u \in Nat, t <= u
    PROVE  ~(computeQuality(e, u) > computeQuality(e, t))
<1>. DEFINE p == e.pollingIntervalMs
            h == (p * 3) \div 2
            g == p * 3
<1>1. h \in Int /\ g \in Int /\ h <= g
  OBVIOUS
<1>. HIDE DEF h, g
<1>2. \A x \in Nat :
        computeQuality(e, x) = IF e.lastUpdated = 0 \/ p = 0 THEN 0
                               ELSE IF x - e.lastUpdated < h THEN 2
                               ELSE IF x - e.lastUpdated < g THEN 1
                               ELSE 0
  BY DEF computeQuality, h, g, Good, Normal, Bad
<1>. HIDE DEF p
<1>3. QED
  BY <1>1, <1>2

LEMMA QualityIrreflexive ==
    ASSUME NEW e, NEW t
    PROVE  ~(computeQuality(e, t) > computeQuality(e, t))
<1>1. computeQuality(e, t) \in {0, 1, 2}
  BY DEF computeQuality, Good, Normal, Bad
<1>2. QED
  BY <1>1

LEMMA NoImprovement ==
    ASSUME TableInv, TableNext, polling.pollMode = "Manual"
    PROVE  ~ImprovedWithoutReading
<1>1. SUFFICES ASSUME NEW id \in DOMAIN states \cap DOMAIN states',
                      computeQuality(states'[id], now') > computeQuality(states[id], now),
                      ~(states'[id].isValid /\ states'[id].lastUpdated = now')
      PROVE  FALSE
  BY DEF ImprovedWithoutReading
<1>2. /\ states[id].lastUpdated \in Nat /\ states[id].pollingIntervalMs = polling.intervalMs
      /\ states[id].pollingIntervalMs \in Nat /\ now \in Nat
  BY EntryType DEF TableInv, TableTypeOK, HasInterval
<1>3. ASSUME NEW raw, NEW success \in BOOLEAN, success => raw \in RawData(config),
             updateState(raw, success, intervalForQuality), now' = now
      PROVE  FALSE
  <2>1. /\ intervalForQuality \in Nat /\ intervalForQuality = polling.intervalMs
    BY QualityInterval
  <2>2. \/ states'[id] = states[id]
        \/ /\ states'[id].lastUpdated = states[id].lastUpdated
           /\ states'[id].pollingIntervalMs = intervalForQuality
        \/ states'[id].isValid /\ states'[id].lastUpdated = now
    BY <1>3, <2>1, UpdateStep
  <2>3. computeQuality(states'[id], now) = computeQuality(states[id], now)
    BY <1>1, <1>2, <1>3, <2>1, <2>2, QualityOfSame
  <2>4. QED
    BY <1>1, <1>3, <2>3, QualityIrreflexive
<1>4. CASE PollBegins
  BY <1>1, <1>4, QualityIrreflexive DEF PollBegins
<1>5. CASE ReadOk
  <2>1. PICK raw \in Reading : updateState(raw, TRUE, intervalForQuality)
    BY <1>5 DEF ReadOk
  <2>2. raw \in RawData(config) /\ TRUE \in BOOLEAN
    BY ReadingIsRaw
  <2>3. now' = now
    BY <1>5 DEF ReadOk
  <2>4. QED
    BY <1>3, <2>1, <2>2, <2>3
<1>6. CASE ReadFails
  <2>1. updateState(<<>>, FALSE, intervalForQuality) /\ now' = now
    BY <1>6 DEF ReadFails
  <2>2. FALSE \in BOOLEAN /\ (FALSE => <<>> \in RawData(config))
    OBVIOUS
  <2>3. QED
    BY <1>3, <2>1, <2>2
<1>7. CASE \E s \in Setups : Restart(s)
  BY <1>1, <1>7, NoStatesDomain DEF Restart
<1>8. CASE Tick
  <2>1. now' \in Nat /\ now <= now' /\ states' = states
    BY <1>2, <1>8 DEF Tick
  <2>2. QED
    BY <1>1, <1>2, <2>1, QualityFades
<1>9. QED
  BY <1>4, <1>5, <1>6, <1>7, <1>8 DEF TableNext

(***************************************************************************)
(* In manual mode the quality of a register never improves without a new   *)
(* reading: a failed read keeps the time of the last one and the interval  *)
(* it is judged by.                                                        *)
(***************************************************************************)
THEOREM OnlyReadingsImprove == TableSpec => QualityNeedsReading
<1>1. TableInv /\ [TableNext]_tableVars
        => [polling.pollMode = "Manual" => ~ImprovedWithoutReading]_tableVars
  BY NoImprovement
<1>2. QED
  BY <1>1, TableInvariant, PTL DEF TableSpec, QualityNeedsReading
=============================================================================
