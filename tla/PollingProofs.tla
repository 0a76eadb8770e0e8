--------------------------- MODULE PollingProofs ----------------------------
(***************************************************************************)
(* Proofs about the polling engine for every set of devices and addresses. *)
(***************************************************************************)
EXTENDS Polling, TLAPS

(* Polling::stop() is the only place that leaves workers behind. *)
PhaseInv ==
    /\ main = "boot" => ~pmRunning
    /\ main = "requesting" => pmRunning
    /\ ~pmRunning => \A w \in Worker : pc[w] = "none"

(* A worker that exists still polls what DeviceList holds, and no device   *)
(* belongs to two workers.                                                 *)
SnapshotInv ==
    \A w \in Worker : pc[w] # "none" =>
        /\ w # SerialWorker => DOMAIN snap[w] = {w}
        /\ \A d \in DOMAIN snap[w] :
              /\ d \in DOMAIN dev
              /\ dev[d].enabled
              /\ snap[w][d] = dev[d].regs
              /\ (w = SerialWorker) <=> (dev[d].conn = "serial")

(* Where a worker is tells which device it is polling. *)
CursorInv ==
    \A w \in Worker :
        /\ pass[w] \subseteq DOMAIN snap[w]
        /\ IF pc[w] \in {"collect", "fields", "publish"}
           THEN cur[w] \in DOMAIN snap[w]
           ELSE cur[w] = NoDevice

(* No unified address belongs to two devices. *)
DisjointAddresses(devices) ==
    \A d, e \in DOMAIN devices :
        d # e => devices[d].regs \cap devices[e].regs \cap Addr = {}

(* While a worker that has not been told to stop stores the results of a   *)
(* poll, the table holds those of the registers it has already dealt with. *)
StoringInv ==
    \A w \in Worker : pc[w] \in {"fields", "publish"} =>
        /\ left[w] \subseteq snap[w][cur[w]]
        /\ res[w] \subseteq snap[w][cur[w]]
        /\ run[w] =>
            /\ pc[w] = "publish" => left[w] = {}
            /\ \A a \in (snap[w][cur[w]] \ left[w]) \cap Addr :
                    table[a] = Entry(cur[w], a \in res[w])
            /\ allOk[w] <=> (\A a \in snap[w][cur[w]] \ left[w] : a \in res[w])

(* What StatusMatchesTable says, of the worker's own copy. *)
Agrees(d, regs) ==
    /\ dev[d].status = prev[d]
    /\ \A a \in regs \cap Addr : table[a].owner = d
    /\ prev[d] = "Ok" => \A a \in regs \cap Addr : table[a].ok
    /\ prev[d] = "Error" /\ regs \subseteq Addr => \E a \in regs : ~table[a].ok

MatchInv ==
    \A w \in Worker : pc[w] # "none" /\ run[w] =>
        \A d \in DOMAIN snap[w] :
            prev[d] # "Unknown" /\ ~Storing(w, d) => Agrees(d, snap[w][d])

Inv ==
    /\ TypeOK
    /\ PhaseInv
    /\ DisjointAddresses(dev)
    /\ SnapshotInv
    /\ CursorInv
    /\ StoringInv
    /\ TableIsConfigured
    /\ MatchInv
-----------------------------------------------------------------------------
(* The initial states satisfy the invariant: there is no worker. *)
LEMMA InitInv == Init => Inv
<1> SUFFICES ASSUME Init PROVE Inv
    OBVIOUS
<1> USE ConstantsDistinct DEF Init, NoWorkers
<1>1. PICK S \in SUBSET Device :
          dev \in [S -> [conn: {"serial", "tcp"}, enabled: BOOLEAN,
                        regs: SUBSET Reg, status: {"Unknown"}]]
      BY DEF Configurations
<1>2. TypeOK
      BY <1>1 DEF TypeOK, State, DeviceInfo, NoEntry
<1>3. PhaseInv /\ DisjointAddresses(dev) /\ TableIsConfigured
      BY DEF PhaseInv, TableIsConfigured, DisjointRegisters, DisjointAddresses
<1>4. SnapshotInv /\ CursorInv /\ StoringInv /\ MatchInv
      BY DEF SnapshotInv, CursorInv, StoringInv, MatchInv
<1> QED
    BY <1>2, <1>3, <1>4 DEF Inv

(* PollingManager::start() establishes every part of the invariant anew. *)
LEMMA StartInv ==
    ASSUME Inv, StartWorkers, main' = "idle", UNCHANGED <<exiting, dev, log, unlisted>>
    PROVE  Inv'
<1> USE ConstantsDistinct DEF Inv, StartWorkers
<1>1. \A w \in Worker : Assigned(w) \subseteq DOMAIN dev
      BY DEF Assigned
<1>2. TypeOK'
  <2>1. \A w \in Worker : /\ DOMAIN snap'[w] \subseteq Device
                          /\ snap'[w] \in [DOMAIN snap'[w] -> SUBSET Reg]
        BY <1>1 DEF TypeOK, DeviceInfo
  <2> QED
      BY <2>1 DEF TypeOK, State, NoEntry
<1>3. PhaseInv' /\ DisjointAddresses(dev)' /\ TableIsConfigured'
      BY DEF PhaseInv, TableIsConfigured, DisjointAddresses, NoEntry
<1>4. SnapshotInv'
  <2> SUFFICES ASSUME NEW w \in Worker, pc'[w] # "none"
               PROVE  /\ w # SerialWorker => DOMAIN snap'[w] = {w}
                      /\ \A d \in DOMAIN snap'[w] :
                            /\ d \in DOMAIN dev
                            /\ dev[d].enabled
                            /\ snap'[w][d] = dev[d].regs
                            /\ (w = SerialWorker) <=> (dev[d].conn = "serial")
      BY DEF SnapshotInv
  <2>1. Assigned(w) # {} /\ DOMAIN snap'[w] = Assigned(w)
        OBVIOUS
  <2>2. \A d \in Assigned(w) : snap'[w][d] = dev[d].regs
        OBVIOUS
  <2> QED
      BY <2>1, <2>2 DEF Assigned, TypeOK, Worker
<1>5. CursorInv' /\ StoringInv' /\ MatchInv'
  <2>1. \A d \in Device : prev'[d] = "Unknown"
        OBVIOUS
  <2>2. \A w \in Worker : DOMAIN snap'[w] \subseteq Device
        BY <1>1 DEF TypeOK
  <2> QED
      BY <2>1, <2>2 DEF CursorInv, StoringInv, MatchInv
<1> QED
    BY <1>2, <1>3, <1>4, <1>5

(* A configuration handler runs only when no worker exists. *)
LEMMA EditInv ==
    ASSUME Inv, CanEdit, NEW devices, NEW rows \in [Device -> SUBSET Bare],
           DOMAIN devices \subseteq Device,
           devices \in [DOMAIN devices -> DeviceInfo],
           DisjointAddresses(devices),
           EditOnly(devices, rows)
    PROVE  Inv'
<1> USE DEF Inv, EditOnly, mainVars, workerVars
<1>1. ~pmRunning /\ \A w \in Worker : pc[w] = "none"
      BY DEF CanEdit, rejectIfPolling, PhaseInv
<1>2. TypeOK'
      BY DEF TypeOK
<1>3. PhaseInv' /\ DisjointAddresses(dev)' /\ TableIsConfigured' /\ CursorInv'
      BY <1>1 DEF PhaseInv, TableIsConfigured, CursorInv
<1>4. SnapshotInv' /\ StoringInv' /\ MatchInv'
      BY <1>1 DEF SnapshotInv, StoringInv, MatchInv
<1> QED
    BY <1>2, <1>3, <1>4
-----------------------------------------------------------------------------
(* No device belongs to two workers. *)
LEMMA OneOwner ==
    ASSUME TypeOK, SnapshotInv,
           NEW v \in Worker, NEW w \in Worker, pc[v] # "none", pc[w] # "none",
           NEW d \in DOMAIN snap[v], d \in DOMAIN snap[w]
    PROVE  v = w
<1>1. CASE v = SerialWorker \/ w = SerialWorker
      BY <1>1 DEF SnapshotInv
<1>2. CASE v # SerialWorker /\ w # SerialWorker
      BY <1>2 DEF SnapshotInv
<1> QED
    BY <1>1, <1>2

(* A step that moves a worker between points at which it stores nothing. *)
LEMMA MoveInv ==
    ASSUME Inv, NEW w \in Worker, pc[w] \notin {"none", "fields", "publish"},
           NEW p \in {"loop", "next", "collect", "done"},
           NEW q \in SUBSET DOMAIN snap[w],
           NEW c \in Device \cup {NoDevice},
           IF p = "collect" THEN c \in DOMAIN snap[w] ELSE c = NoDevice,
           pc' = [pc EXCEPT ![w] = p],
           pass' = [pass EXCEPT ![w] = q],
           cur' = [cur EXCEPT ![w] = c],
           UNCHANGED <<mainVars, dev, table, log, unlisted, run, snap, res, left, allOk, prev>>
    PROVE  Inv'
<1> USE DEF Inv, mainVars
<1>1. TypeOK'
      BY DEF TypeOK
<1>2. PhaseInv' /\ DisjointAddresses(dev)' /\ TableIsConfigured'
      BY DEF PhaseInv, TableIsConfigured, TypeOK
<1>3. SnapshotInv'
      BY DEF SnapshotInv, TypeOK
<1>4. CursorInv'
      BY DEF CursorInv, TypeOK
<1>5. \A v \in Worker : v # w => pc'[v] = pc[v] /\ cur'[v] = cur[v]
      BY DEF TypeOK
<1>6. pc'[w] = p /\ ~(p \in {"fields", "publish"})
      BY DEF TypeOK
<1>7. StoringInv'
      BY <1>5, <1>6 DEF StoringInv
<1>8. MatchInv'
  <2> SUFFICES ASSUME NEW v \in Worker, pc'[v] # "none", run[v],
                      NEW d \in DOMAIN snap[v], prev[d] # "Unknown",
                      ~Storing(v, d)'
               PROVE  Agrees(d, snap[v][d])
      BY DEF MatchInv, Agrees
  <2>1. pc[v] # "none" /\ ~Storing(v, d)
        BY <1>5, <1>6 DEF Storing
  <2> QED
      BY <2>1 DEF MatchInv
<1> QED
    BY <1>1, <1>2, <1>3, <1>4, <1>7, <1>8

LEMMA BeginInv == ASSUME Inv, NEW w \in Worker, Begin(w) PROVE Inv'
<1> USE DEF Goto
<1>1. pc[w] = "begin" /\ cur[w] = NoDevice /\ pass[w] \subseteq DOMAIN snap[w]
      BY DEF Inv, CursorInv, Begin
<1>2. /\ cur = [cur EXCEPT ![w] = NoDevice]
      /\ pass = [pass EXCEPT ![w] = pass[w]]
      BY <1>1 DEF Inv, TypeOK
<1>3. UNCHANGED <<mainVars, dev, table, log, unlisted, run, snap, pass, cur, res, left,
                   allOk, prev>>
      BY DEF Begin
<1>4. CASE pc' = [pc EXCEPT ![w] = "loop"]
      BY <1>1, <1>2, <1>3, <1>4, MoveInv
<1>5. CASE pc' = [pc EXCEPT ![w] = "done"]
      BY <1>1, <1>2, <1>3, <1>5, MoveInv
<1> QED
    BY <1>4, <1>5 DEF Begin

LEMMA LoopInv == ASSUME Inv, NEW w \in Worker, Loop(w) PROVE Inv'
<1> USE DEF Goto
<1>1. pc[w] = "loop" /\ cur[w] = NoDevice /\ pass[w] \subseteq DOMAIN snap[w]
      BY DEF Inv, CursorInv, Loop
<1>2. /\ cur = [cur EXCEPT ![w] = NoDevice]
      /\ pass = [pass EXCEPT ![w] = pass[w]]
      BY <1>1 DEF Inv, TypeOK
<1>3. UNCHANGED <<mainVars, dev, table, log, unlisted, run, snap, res, left, allOk, prev>>
      BY DEF Loop
<1>4. CASE ~run[w] /\ pc' = [pc EXCEPT ![w] = "done"] /\ UNCHANGED <<pass, cur>>
      BY <1>1, <1>2, <1>3, <1>4, MoveInv
<1>5. CASE /\ w = SerialWorker
           /\ pc' = [pc EXCEPT ![w] = "next"]
           /\ pass' = [pass EXCEPT ![w] = DOMAIN snap[w]]
           /\ UNCHANGED cur
      BY <1>1, <1>2, <1>3, <1>5, MoveInv
<1>6. CASE /\ w # SerialWorker
           /\ pc' = [pc EXCEPT ![w] = "collect"]
           /\ cur' = [cur EXCEPT ![w] = w]
           /\ UNCHANGED pass
  <2>1. w \in DOMAIN snap[w] /\ w \in Device
        BY <1>1, <1>6 DEF Inv, SnapshotInv, Worker
  <2> QED
      BY <1>1, <1>2, <1>3, <1>6, <2>1, MoveInv
<1> QED
    BY <1>4, <1>5, <1>6 DEF Loop

LEMMA VisitInv ==
    ASSUME Inv, NEW w \in Worker, NEW d \in Device, Visit(w, d)
    PROVE  Inv'
<1> USE DEF Goto
<1>1. pc[w] = "next" /\ cur[w] = NoDevice /\ pass[w] \subseteq DOMAIN snap[w]
      BY DEF Inv, CursorInv, Visit
<1>2. cur = [cur EXCEPT ![w] = NoDevice]
      BY <1>1 DEF Inv, TypeOK
<1>3. /\ UNCHANGED <<mainVars, dev, table, log, unlisted, run, snap, res, left, allOk, prev>>
      /\ d \in DOMAIN snap[w]
      /\ pass' = [pass EXCEPT ![w] = pass[w] \ {d}]
      /\ pass[w] \ {d} \in SUBSET DOMAIN snap[w]
      BY <1>1 DEF Visit
<1>4. CASE pc' = [pc EXCEPT ![w] = "next"] /\ UNCHANGED cur
      BY <1>1, <1>2, <1>3, <1>4, MoveInv
<1>5. CASE pc' = [pc EXCEPT ![w] = "collect"] /\ cur' = [cur EXCEPT ![w] = d]
      BY <1>1, <1>3, <1>5, MoveInv
<1> QED
    BY <1>4, <1>5 DEF Visit

LEMMA PassEndInv == ASSUME Inv, NEW w \in Worker, PassEnd(w) PROVE Inv'
<1> USE DEF Goto, PassEnd
<1>1. pc[w] = "next" /\ cur[w] = NoDevice
      BY DEF Inv, CursorInv
<1>2. cur = [cur EXCEPT ![w] = NoDevice]
      BY <1>1 DEF Inv, TypeOK
<1> QED
    BY <1>1, <1>2, MoveInv

LEMMA CollectSkippedInv == ASSUME Inv, NEW w \in Worker, CollectSkipped(w) PROVE Inv'
<1> USE DEF Goto, CollectSkipped
<1>1. pc[w] = "collect" /\ pass[w] \subseteq DOMAIN snap[w]
      BY DEF Inv, CursorInv
<1>2. pass = [pass EXCEPT ![w] = pass[w]]
      BY DEF Inv, TypeOK
<1> QED
    BY <1>1, <1>2, MoveInv

LEMMA CollectInv ==
    ASSUME Inv, NEW w \in Worker, NEW ok \in SUBSET Reg, Collect(w, ok)
    PROVE  Inv'
<1> USE DEF Inv, Goto, mainVars
<1>1. pc[w] = "collect" /\ cur[w] \in DOMAIN snap[w] /\ cur[w] \in Device
      BY DEF CursorInv, Collect, TypeOK
<1>2. snap[w][cur[w]] \subseteq Reg
      BY <1>1 DEF TypeOK
<1>3. TypeOK'
      BY <1>2 DEF TypeOK, Collect
<1>4. PhaseInv' /\ DisjointAddresses(dev)' /\ TableIsConfigured' /\ SnapshotInv' /\ CursorInv'
      BY <1>1 DEF PhaseInv, TableIsConfigured, TypeOK, SnapshotInv, CursorInv, Collect
<1>5. \A v \in Worker : v # w => /\ pc'[v] = pc[v] /\ res'[v] = res[v]
                                /\ left'[v] = left[v] /\ allOk'[v] = allOk[v]
      BY DEF TypeOK, Collect
<1>6. /\ pc'[w] = "fields" /\ res'[w] = ok /\ allOk'[w] = TRUE
      /\ left'[w] = snap[w][cur[w]] /\ ok \subseteq snap[w][cur[w]]
      BY DEF TypeOK, Collect
<1>7. UNCHANGED <<dev, table, snap, run, cur, prev>>
      BY DEF Collect
<1>8. StoringInv'
      BY <1>5, <1>6, <1>7 DEF StoringInv
<1>9. MatchInv'
  <2> SUFFICES ASSUME NEW v \in Worker, pc'[v] # "none", run[v],
                      NEW d \in DOMAIN snap[v], prev[d] # "Unknown",
                      ~Storing(v, d)'
               PROVE  Agrees(d, snap[v][d])
      BY <1>7 DEF MatchInv, Agrees
  <2>1. pc[v] # "none" /\ ~Storing(v, d)
        BY <1>1, <1>5, <1>6, <1>7 DEF Storing
  <2> QED
      BY <2>1 DEF MatchInv
<1> QED
    BY <1>3, <1>4, <1>8, <1>9

LEMMA FieldInv ==
    ASSUME Inv, NEW w \in Worker, NEW a \in Reg, Field(w, a)
    PROVE  Inv'
<1> USE DEF Inv, Goto, mainVars
<1> DEFINE d0 == cur[w]
<1>1. /\ pc[w] = "fields" /\ run[w] /\ a \in left[w]
      /\ d0 \in DOMAIN snap[w] /\ d0 \in Device /\ a \in snap[w][d0]
      BY DEF CursorInv, Field, TypeOK, StoringInv
<1>2. d0 \in DOMAIN dev /\ dev[d0].enabled /\ snap[w][d0] = dev[d0].regs
      BY <1>1 DEF SnapshotInv
<1>3. TypeOK'
  <2>1. table' \in [Addr -> [owner: Device \cup {NoDevice}, ok: BOOLEAN]]
        BY <1>1 DEF TypeOK, Field, updateState, Entry
  <2> QED
      BY <1>1, <2>1 DEF TypeOK, Field
<1>4. UNCHANGED <<pc, main, exiting, pmRunning, dev, snap, run, cur, prev, pass, res>>
      BY <1>3 DEF Field, TypeOK
<1>5. PhaseInv' /\ DisjointAddresses(dev)' /\ SnapshotInv' /\ CursorInv'
      BY <1>4 DEF PhaseInv, SnapshotInv, CursorInv
<1>6. /\ a \in Addr => table'[a] = Entry(d0, a \in res[w])
      /\ \A b \in Addr : b # a => table'[b] = table[b]
      BY DEF TypeOK, Field, updateState
<1>7. TableIsConfigured'
      BY <1>1, <1>2, <1>4, <1>6 DEF TableIsConfigured, Entry
<1>8. ASSUME NEW v \in Worker, pc[v] # "none", NEW d \in DOMAIN snap[v], <<v, d>> # <<w, d0>>
      PROVE  a \notin snap[v][d] \cap Addr
  <2>1. d # d0
        BY <1>1, <1>8, OneOwner
  <2>2. d \in DOMAIN dev /\ snap[v][d] = dev[d].regs
        BY <1>8 DEF SnapshotInv
  <2> QED
      BY <1>1, <1>2, <2>1, <2>2 DEF DisjointAddresses
<1>10. StoringInv'
  <2> SUFFICES ASSUME NEW v \in Worker, pc[v] \in {"fields", "publish"}
               PROVE  /\ left'[v] \subseteq snap[v][cur[v]]
                      /\ res[v] \subseteq snap[v][cur[v]]
                      /\ run[v] =>
                          /\ pc[v] = "publish" => left'[v] = {}
                          /\ \A b \in (snap[v][cur[v]] \ left'[v]) \cap Addr :
                                  table'[b] = Entry(cur[v], b \in res[v])
                          /\ allOk'[v] <=>
                               (\A b \in snap[v][cur[v]] \ left'[v] : b \in res[v])
      BY <1>4 DEF StoringInv
  <2>0. cur[v] \in DOMAIN snap[v] /\ cur[v] \in Device /\ pc[v] # "none"
        BY DEF CursorInv, TypeOK
  <2>1. CASE v # w
    <3>1. left'[v] = left[v] /\ allOk'[v] = allOk[v]
          BY <2>1 DEF TypeOK, Field
    <3>2. a \notin snap[v][cur[v]] \cap Addr
          BY <1>8, <2>0, <2>1
    <3>3. \A b \in snap[v][cur[v]] \cap Addr : table'[b] = table[b]
          BY <3>2, <1>6, <2>0
    <3> QED
        BY <3>1, <3>3 DEF StoringInv
  <2>2. CASE v = w
    <3>1. left'[w] = left[w] \ {a} /\ allOk'[w] = (allOk[w] /\ a \in res[w])
          BY DEF TypeOK, Field
    <3>2. snap[w][d0] \ left'[w] = (snap[w][d0] \ left[w]) \cup {a}
          BY <1>1, <3>1
    <3>3. \A b \in (snap[w][d0] \ left[w]) \cap Addr :
              b # a /\ table'[b] = Entry(d0, b \in res[w])
          BY <1>1, <1>6 DEF StoringInv
    <3>4. allOk[w] <=> (\A b \in snap[w][d0] \ left[w] : b \in res[w])
          BY <1>1 DEF StoringInv
    <3>5. allOk'[w] <=> (\A b \in snap[w][d0] \ left'[w] : b \in res[w])
          BY <3>1, <3>2, <3>4
    <3>6. \A b \in (snap[w][d0] \ left'[w]) \cap Addr : table'[b] = Entry(d0, b \in res[w])
          BY <3>2, <3>3, <1>6
    <3>7. left'[w] \subseteq snap[w][d0] /\ res[w] \subseteq snap[w][d0]
          BY <1>1, <3>1 DEF StoringInv
    <3> QED
        BY <1>1, <2>2, <3>5, <3>6, <3>7
  <2> QED
      BY <2>1, <2>2
<1>11. MatchInv'
  <2> SUFFICES ASSUME NEW v \in Worker, pc[v] # "none", run[v],
                      NEW d \in DOMAIN snap[v], prev[d] # "Unknown",
                      ~Storing(v, d)
               PROVE  Agrees(d, snap[v][d])'
      BY <1>4 DEF MatchInv, Storing, Agrees
  <2>1. <<v, d>> # <<w, d0>> /\ d \in Device
        BY <1>1 DEF Storing, TypeOK
  <2>2. a \notin snap[v][d] \cap Addr
        BY <1>8, <2>1
  <2>3. \A b \in snap[v][d] \cap Addr : table'[b] = table[b]
        BY <1>6, <2>1, <2>2
  <2>4. Agrees(d, snap[v][d])
        BY DEF MatchInv
  <2> QED
      BY <1>4, <2>3, <2>4 DEF Agrees
<1> QED
    BY <1>3, <1>5, <1>7, <1>10, <1>11

(* The end of the field loop: a worker told to stop may leave it early. *)
LEMMA FieldsEndInv == ASSUME Inv, NEW w \in Worker, FieldsEnd(w) PROVE Inv'
<1> USE DEF Inv, Goto, mainVars
<1>1. /\ pc[w] = "fields" /\ cur[w] \in DOMAIN snap[w]
      /\ left[w] = {} \/ ~run[w]
      BY DEF CursorInv, FieldsEnd
<1>2. TypeOK'
      BY DEF TypeOK, FieldsEnd
<1>3. UNCHANGED <<main, exiting, pmRunning, dev, table, log, unlisted, run, snap, pass, cur,
                  res, left, allOk, prev>>
      BY DEF FieldsEnd
<1>4. pc'[w] = "publish" /\ \A v \in Worker : v # w => pc'[v] = pc[v]
      BY DEF TypeOK, FieldsEnd
<1>5. PhaseInv' /\ DisjointAddresses(dev)' /\ TableIsConfigured'
      BY <1>1, <1>3, <1>4 DEF PhaseInv, TableIsConfigured
<1>6. SnapshotInv' /\ CursorInv'
      BY <1>1, <1>3, <1>4 DEF SnapshotInv, CursorInv
<1>7. StoringInv'
      BY <1>1, <1>3, <1>4 DEF StoringInv
<1>8. \A v \in Worker, d \in Device : Storing(v, d)' <=> Storing(v, d)
      BY <1>1, <1>3, <1>4 DEF Storing
<1>9. MatchInv'
  <2> SUFFICES ASSUME NEW v \in Worker, pc'[v] # "none", run[v],
                      NEW d \in DOMAIN snap[v], prev[d] # "Unknown",
                      ~Storing(v, d)'
               PROVE  Agrees(d, snap[v][d])
      BY <1>3 DEF MatchInv, Agrees
  <2>1. pc[v] # "none" /\ d \in Device
        BY <1>1, <1>4 DEF TypeOK
  <2> QED
      BY <1>8, <2>1 DEF MatchInv
<1> QED
    BY <1>2, <1>5, <1>6, <1>7, <1>9

(***************************************************************************)
(* Publishing.  When the worker has not been told to stop, every register  *)
(* of the device has been stored, so allOk says whether all are valid.     *)
(***************************************************************************)
LEMMA PublishInv == ASSUME Inv, NEW w \in Worker, Publish(w) PROVE Inv'
<1> USE DEF Inv, Goto, mainVars
<1> DEFINE d0 == cur[w]
           s  == IF allOk[w] THEN "Ok" ELSE "Error"
<1>1. /\ pc[w] = "publish" /\ d0 \in DOMAIN snap[w]
      /\ d0 \in Device /\ d0 \in DOMAIN dev
      BY DEF CursorInv, Publish, TypeOK
<1>2. s \in State \ {"Unknown"}
      BY DEF State
<1>3. /\ dev' = [dev EXCEPT ![d0].status = s]
      /\ prev' = [prev EXCEPT ![d0] = s]
      /\ UNCHANGED <<main, exiting, pmRunning, table, unlisted, run, snap, pass>>
      BY DEF Publish
<1>4. /\ DOMAIN dev' = DOMAIN dev
      /\ dev' \in [DOMAIN dev -> DeviceInfo]
      /\ \A d \in DOMAIN dev : /\ dev'[d].regs = dev[d].regs
                               /\ dev'[d].conn = dev[d].conn
                               /\ dev'[d].enabled = dev[d].enabled
                               /\ d # d0 => dev'[d] = dev[d]
      /\ dev'[d0].status = s
  <2>1. dev \in [DOMAIN dev -> DeviceInfo]
        BY DEF TypeOK
  <2> QED
      BY <1>1, <1>2, <1>3, <2>1 DEF DeviceInfo
<1>5. /\ pc'[w] \in {"next", "loop"} /\ cur'[w] = NoDevice
      /\ \A v \in Worker : v # w => /\ pc'[v] = pc[v] /\ cur'[v] = cur[v]
                                    /\ res'[v] = res[v] /\ left'[v] = left[v]
                                    /\ allOk'[v] = allOk[v]
      BY DEF TypeOK, Publish
<1>6. TypeOK'
  <2>1. log' \in [Device -> {"none", "alarm", "recovery"}]
    <3>1. log \in [Device -> {"none", "alarm", "recovery"}]
          BY DEF TypeOK
    <3>2. LogOf(d0, prev[d0], s) \in {"none", "alarm", "recovery"}
          BY <1>1, <3>1 DEF LogOf
    <3> QED
        BY <3>1, <3>2 DEF Publish
  <2>2. prev' \in [Device -> State]
        BY <1>2, <1>3 DEF TypeOK
  <2>3. /\ pc' \in [Worker -> {"none", "begin", "loop", "next", "collect",
                               "fields", "publish", "done"}]
        /\ cur' \in [Worker -> Device \cup {NoDevice}]
        /\ res' \in [Worker -> SUBSET Reg]
        /\ left' \in [Worker -> SUBSET Reg]
        /\ allOk' \in [Worker -> BOOLEAN]
        BY DEF TypeOK, Publish
  <2> QED
      BY <1>3, <1>4, <2>1, <2>2, <2>3 DEF TypeOK
<1>7. PhaseInv' /\ DisjointAddresses(dev)' /\ TableIsConfigured'
  <2>1. PhaseInv'
        BY <1>1, <1>3, <1>5 DEF PhaseInv
  <2>2. DisjointAddresses(dev)'
        BY <1>4 DEF DisjointAddresses
  <2>3. TableIsConfigured'
        BY <1>3, <1>4 DEF TableIsConfigured
  <2> QED
      BY <2>1, <2>2, <2>3
<1>8. SnapshotInv'
      BY <1>1, <1>3, <1>4, <1>5 DEF SnapshotInv
<1>9. CursorInv'
      BY <1>3, <1>5 DEF CursorInv
<1>10. StoringInv'
      BY <1>3, <1>5 DEF StoringInv
<1>11. MatchInv'
  <2> SUFFICES ASSUME NEW v \in Worker, pc'[v] # "none", run[v],
                      NEW d \in DOMAIN snap[v], prev'[d] # "Unknown",
                      ~Storing(v, d)'
               PROVE  Agrees(d, snap[v][d])'
      BY <1>3 DEF MatchInv, Agrees
  <2>1. pc[v] # "none" /\ d \in Device
        BY <1>1, <1>5 DEF TypeOK
  <2>2. CASE d = d0
    <3>1. v = w
          BY <1>1, <2>1, <2>2, OneOwner
    <3>2. prev'[d0] = s
          BY <1>1, <1>3 DEF TypeOK
    <3>3. \A a \in snap[w][d0] \cap Addr : table[a] = Entry(d0, a \in res[w])
          BY <1>1, <3>1 DEF StoringInv
    <3>4. allOk[w] <=> (\A a \in snap[w][d0] : a \in res[w])
          BY <1>1, <3>1 DEF StoringInv
    <3>5. \A a \in snap[w][d0] \cap Addr :
              table[a].owner = d0 /\ (table[a].ok <=> a \in res[w])
      <4> TAKE a \in snap[w][d0] \cap Addr
      <4>1. CASE a \in res[w]
        <5>1. table[a] = Entry(d0, TRUE)
              BY <3>3, <4>1
        <5> QED
            BY <4>1, <5>1 DEF Entry
      <4>2. CASE a \notin res[w]
        <5>0. (a \in res[w]) = FALSE
              BY <4>2
        <5>1. table[a] = Entry(d0, FALSE)
              BY <3>3, <5>0, Zenon
        <5> QED
            BY <4>2, <5>1 DEF Entry
      <4> QED
          BY <4>1, <4>2
    <3>6. prev'[d0] = "Ok" => \A a \in snap[w][d0] \cap Addr : table[a].ok
          BY <3>2, <3>4, <3>5
    <3>7. prev'[d0] = "Error" => \E a \in snap[w][d0] : a \notin res[w]
          BY <3>2, <3>4
    <3>8. prev'[d0] = "Error" /\ snap[w][d0] \subseteq Addr =>
              \E a \in snap[w][d0] : ~table[a].ok
          BY <3>5, <3>7
    <3> QED
        BY <1>3, <1>4, <2>2, <3>1, <3>2, <3>5, <3>6, <3>8 DEF Agrees
  <2>3. CASE d # d0
    <3>1. prev'[d] = prev[d]
          BY <1>3, <2>1, <2>3 DEF TypeOK
    <3>2. d \in DOMAIN dev /\ dev'[d] = dev[d]
          BY <1>4, <2>1, <2>3 DEF SnapshotInv
    <3>3. ~Storing(v, d)
          BY <1>5, <2>3 DEF Storing
    <3>4. Agrees(d, snap[v][d])
          BY <2>1, <3>1, <3>3 DEF MatchInv
    <3> QED
        BY <1>3, <3>1, <3>2, <3>4 DEF Agrees
  <2> QED
      BY <2>2, <2>3
<1> QED
    BY <1>6, <1>7, <1>8, <1>9, <1>10, <1>11

(* Clearing a worker's flag only weakens what is known of its results. *)
LEMMA RequestStopInv == ASSUME Inv, NEW w \in Worker, RequestStop(w) PROVE Inv'
<1> USE DEF Inv, mainVars
<1>1. UNCHANGED <<main, exiting, pmRunning, dev, table, log, unlisted, pc, snap, pass, cur,
                  res, left, allOk, prev>>
      BY DEF RequestStop
<1>2. TypeOK' /\ \A v \in Worker : run'[v] => run[v]
      BY DEF TypeOK, RequestStop
<1>3. PhaseInv' /\ DisjointAddresses(dev)' /\ TableIsConfigured' /\ SnapshotInv' /\ CursorInv'
      BY <1>1 DEF PhaseInv, TableIsConfigured, SnapshotInv, CursorInv
<1>4. StoringInv'
      BY <1>1, <1>2 DEF StoringInv
<1>5. MatchInv'
      BY <1>1, <1>2 DEF MatchInv, Agrees, Storing
<1> QED
    BY <1>2, <1>3, <1>4, <1>5

LEMMA StopInv == Inv /\ Stop => Inv'
  BY DEF Inv, Stop, TypeOK, PhaseInv, SnapshotInv, CursorInv, StoringInv,
         TableIsConfigured, MatchInv, Agrees, Storing, mainVars, workerVars

(* The table start() and a new process begin with. *)
LEMMA EmptyTable ==
    [a \in Addr |-> NoEntry] \in [Addr -> [owner: Device \cup {NoDevice}, ok: BOOLEAN]]
  BY DEF NoEntry

(* A device as the database has it: the rows the list lacked have no address. *)
LEMMA LoadedDevice ==
    ASSUME TypeOK, NEW d \in DOMAIN dev
    PROVE  Loaded(d) \in DeviceInfo /\ Loaded(d).regs \cap Addr = dev[d].regs \cap Addr
<1>1. dev[d] \in DeviceInfo /\ unlisted[d] \subseteq Bare
      BY DEF TypeOK
<1>2. /\ Loaded(d) \in DeviceInfo
      /\ Loaded(d).regs = dev[d].regs \cup unlisted[d]
      BY <1>1 DEF Loaded, DeviceInfo, State, Reg
<1> QED
    BY <1>1, <1>2, ConstantsDistinct

(* A new process: the configuration of the database, without status. *)
LEMMA ProcessRestartDev ==
    ASSUME TypeOK, DisjointAddresses(dev), ProcessRestart
    PROVE  /\ DOMAIN dev' \subseteq Device
           /\ dev' \in [DOMAIN dev' -> DeviceInfo]
           /\ DisjointAddresses(dev)'
           /\ unlisted' \in [Device -> SUBSET Bare]
<1>1. DOMAIN dev' = DOMAIN dev /\ \A d \in DOMAIN dev : dev'[d] = Loaded(d)
      BY DEF ProcessRestart
<1>2. dev' = [d \in DOMAIN dev |-> Loaded(d)] /\ DOMAIN dev \subseteq Device
      BY DEF ProcessRestart, TypeOK
<1>3. \A d \in DOMAIN dev : /\ dev'[d] \in DeviceInfo
                            /\ dev'[d].regs \cap Addr = dev[d].regs \cap Addr
      BY <1>1, LoadedDevice
<1>4. DisjointAddresses(dev)'
      BY <1>1, <1>3 DEF DisjointAddresses
<1>5. dev' \in [DOMAIN dev' -> DeviceInfo]
      BY <1>2, <1>3
<1>6. unlisted' \in [Device -> SUBSET Bare]
      BY DEF ProcessRestart, NoneUnlisted
<1> QED
    BY <1>1, <1>2, <1>4, <1>5, <1>6

LEMMA JoinInv == Inv /\ Join => Inv'
<1> SUFFICES ASSUME Inv, Join PROVE Inv'
    OBVIOUS
<1> USE DEF Inv
<1>1. /\ ClearWorkers /\ ~pmRunning' /\ main' # "requesting"
      /\ pmRunning' \in BOOLEAN /\ main' \in {"boot", "idle"}
      /\ exiting' \in BOOLEAN /\ UNCHANGED log
      /\ table' \in [Addr -> [owner: Device \cup {NoDevice}, ok: BOOLEAN]]
  <2>1. CASE exiting
        BY <2>1, EmptyTable DEF Join, ProcessRestart
  <2>2. CASE ~exiting
        BY <2>2 DEF Join, TypeOK
  <2> QED
      BY <2>1, <2>2
<1>2. /\ DOMAIN dev' \subseteq Device
      /\ dev' \in [DOMAIN dev' -> DeviceInfo]
      /\ DisjointAddresses(dev)'
      /\ unlisted' \in [Device -> SUBSET Bare]
  <2>1. CASE exiting
        BY <2>1, ProcessRestartDev DEF Join
  <2>2. CASE ~exiting
        BY <2>2 DEF Join, TypeOK, DisjointAddresses
  <2> QED
      BY <2>1, <2>2
<1>3. TypeOK'
      BY <1>1, <1>2 DEF TypeOK, ClearWorkers, State
<1>4. \A v \in Worker : /\ pc'[v] = "none" /\ cur'[v] = NoDevice /\ pass'[v] = {}
      BY <1>1 DEF ClearWorkers
<1>5. PhaseInv' /\ TableIsConfigured' /\ CursorInv'
      BY <1>1, <1>4 DEF PhaseInv, TableIsConfigured, CursorInv
<1>6. SnapshotInv' /\ StoringInv' /\ MatchInv'
      BY <1>4 DEF SnapshotInv, StoringInv, MatchInv
<1> QED
    BY <1>2, <1>3, <1>5, <1>6

LEMMA RestartInv == Inv /\ Restart => Inv'
<1> SUFFICES ASSUME Inv, Restart PROVE Inv'
    OBVIOUS
<1> USE DEF Inv, Restart, mainVars, workerVars
<1>1. CASE pmRunning
      BY <1>1 DEF TypeOK, PhaseInv, SnapshotInv, CursorInv, StoringInv,
                  TableIsConfigured, MatchInv, Agrees, Storing
<1>2. CASE ~pmRunning
  <2>1. /\ DOMAIN dev' \subseteq Device
        /\ dev' \in [DOMAIN dev' -> DeviceInfo]
        /\ DisjointAddresses(dev)'
        /\ unlisted' \in [Device -> SUBSET Bare]
        BY <1>2, ProcessRestartDev
  <2>2. /\ main' = "boot" /\ exiting' = FALSE
        /\ table' \in [Addr -> [owner: Device \cup {NoDevice}, ok: BOOLEAN]]
        /\ UNCHANGED <<pmRunning, log, workerVars>>
        BY <1>2, EmptyTable DEF ProcessRestart
  <2>3. TypeOK'
        BY <2>1, <2>2 DEF TypeOK
  <2>4. \A v \in Worker : pc[v] = "none"
        BY <1>2 DEF PhaseInv
  <2>5. PhaseInv' /\ TableIsConfigured' /\ CursorInv'
        BY <1>2, <2>2, <2>4 DEF PhaseInv, TableIsConfigured, CursorInv
  <2>6. SnapshotInv' /\ StoringInv' /\ MatchInv'
        BY <2>2, <2>4 DEF SnapshotInv, StoringInv, MatchInv
  <2> QED
      BY <2>1, <2>3, <2>5, <2>6
<1> QED
    BY <1>1, <1>2
-----------------------------------------------------------------------------
(* What the configuration handlers do to DeviceList keeps it well formed.  *)
(* One lemma covers the three handlers that change the registers of d.     *)
LEMMA NewRegisters ==
    ASSUME Inv, NEW d \in DOMAIN dev, NEW r \in SUBSET (dev[d].regs \cup FreeAddr),
           CanEdit, EditRegisters(d, r)
    PROVE  Inv'
<1> DEFINE q == r \cup unlisted[d]
           devices == [dev EXCEPT ![d].regs = q]
           rows == [unlisted EXCEPT ![d] = {}]
<1>1. /\ DOMAIN dev \subseteq Device
      /\ dev \in [DOMAIN dev -> DeviceInfo]
      /\ \A e \in DOMAIN dev : dev[e].regs \subseteq Reg
      /\ unlisted[d] \subseteq Bare
      /\ rows \in [Device -> SUBSET Bare]
      BY DEF Inv, TypeOK, DeviceInfo
<1>2. q \subseteq Reg /\ q \cap Addr = r \cap Addr
      BY <1>1, ConstantsDistinct DEF FreeAddr, Reg
<1>3. EditOnly(devices, rows)
      BY DEF EditRegisters
<1> HIDE DEF q, rows
<1>4. /\ DOMAIN devices = DOMAIN dev
      /\ devices \in [DOMAIN devices -> DeviceInfo]
      /\ devices[d].regs = q
      /\ \A e \in DOMAIN dev : e # d => devices[e] = dev[e]
      BY <1>1, <1>2 DEF DeviceInfo
<1>5. \A e \in DOMAIN dev : e # d => q \cap dev[e].regs \cap Addr = {}
      BY <1>2 DEF FreeAddr, Inv, DisjointAddresses
<1>6. DisjointAddresses(devices)
      BY <1>4, <1>5 DEF Inv, DisjointAddresses
<1> HIDE DEF devices
<1> QED
    BY <1>1, <1>3, <1>4, <1>6, EditInv

LEMMA EditStepInv == Inv /\ Edit => Inv'
<1> SUFFICES ASSUME Inv, Edit PROVE Inv'
    OBVIOUS
<1>0. /\ DOMAIN dev \subseteq Device
      /\ dev \in [DOMAIN dev -> DeviceInfo]
      /\ DisjointAddresses(dev)
      /\ TypeOK /\ unlisted \in [Device -> SUBSET Bare]
      BY DEF Inv, TypeOK
<1>1. ASSUME NEW d \in Device, NEW c \in {"serial", "tcp"}, NEW e \in BOOLEAN,
             PostDevice(d, c, e)
      PROVE  Inv'
  <2> DEFINE new == [conn |-> c, enabled |-> e, regs |-> {}, status |-> "Unknown"]
             devices == [f \in DOMAIN dev \cup {d} |->
                            IF f = d THEN new ELSE Loaded(f)]
             rows == [f \in Device |-> {}]
  <2>1. CanEdit /\ d \notin DOMAIN dev /\ EditOnly(devices, rows)
        BY <1>1 DEF PostDevice
  <2>2. new \in DeviceInfo /\ new.regs = {}
        BY DEF DeviceInfo, State
  <2>3. \A f \in DOMAIN dev : /\ Loaded(f) \in DeviceInfo
                              /\ Loaded(f).regs \cap Addr = dev[f].regs \cap Addr
        BY <1>0, LoadedDevice
  <2> HIDE DEF new
  <2>4. /\ DOMAIN devices = DOMAIN dev \cup {d}
        /\ devices \in [DOMAIN devices -> DeviceInfo]
        /\ devices[d].regs = {}
        /\ \A f \in DOMAIN dev : devices[f].regs \cap Addr = dev[f].regs \cap Addr
        BY <2>1, <2>2, <2>3
  <2>5. DisjointAddresses(devices)
        BY <1>0, <2>4 DEF DisjointAddresses
  <2>6. rows \in [Device -> SUBSET Bare]
        OBVIOUS
  <2> HIDE DEF devices, rows
  <2> QED
      BY <1>0, <2>1, <2>4, <2>5, <2>6, EditInv
<1>2. ASSUME NEW d \in Device, NEW c \in {"serial", "tcp"}, NEW e \in BOOLEAN,
             PutDevice(d, c, e)
      PROVE  Inv'
  <2> DEFINE devices == [dev EXCEPT ![d].conn = c, ![d].enabled = e]
  <2>1. CanEdit /\ d \in DOMAIN dev /\ EditOnly(devices, unlisted)
        BY <1>2 DEF PutDevice
  <2>2. /\ DOMAIN devices = DOMAIN dev
        /\ devices \in [DOMAIN devices -> DeviceInfo]
        /\ \A f \in DOMAIN dev : devices[f].regs = dev[f].regs
        BY <1>0, <2>1 DEF DeviceInfo
  <2>3. DisjointAddresses(devices)
        BY <1>0, <2>2 DEF DisjointAddresses
  <2> HIDE DEF devices
  <2> QED
      BY <1>0, <2>1, <2>2, <2>3, EditInv
<1>3. ASSUME NEW d \in Device, DeleteDevice(d) PROVE Inv'
  <2> DEFINE devices == [f \in DOMAIN dev \ {d} |-> dev[f]]
             rows == [unlisted EXCEPT ![d] = {}]
  <2>1. CanEdit /\ EditOnly(devices, rows)
        BY <1>3 DEF DeleteDevice
  <2>2. /\ DOMAIN devices \subseteq DOMAIN dev
        /\ devices \in [DOMAIN devices -> DeviceInfo]
        /\ DisjointAddresses(devices)
        /\ rows \in [Device -> SUBSET Bare]
        BY <1>0 DEF DisjointAddresses
  <2> HIDE DEF devices, rows
  <2> QED
      BY <1>0, <2>1, <2>2, EditInv
<1>4. ASSUME NEW d \in Device, NEW a \in Addr, PostRegister(d, a) PROVE Inv'
      BY <1>4, NewRegisters DEF PostRegister
<1>5. ASSUME NEW d \in Device, NEW a \in Reg, NEW b \in Addr, PutRegister(d, a, b)
      PROVE  Inv'
      BY <1>5, NewRegisters DEF PutRegister
<1>6. ASSUME NEW d \in Device, NEW a \in Reg, DeleteRegister(d, a) PROVE Inv'
      BY <1>6, NewRegisters DEF DeleteRegister
<1>7. ASSUME NEW d \in Device, NEW a \in Bare, PostRegisterFails(d, a) PROVE Inv'
  <2> DEFINE rows == [unlisted EXCEPT ![d] = @ \cup {a}]
  <2>1. CanEdit /\ EditOnly(dev, rows)
        BY <1>7 DEF PostRegisterFails
  <2>2. rows \in [Device -> SUBSET Bare]
        BY <1>0
  <2> HIDE DEF rows
  <2> QED
      BY <1>0, <2>1, <2>2, EditInv
<1> QED
    BY <1>1, <1>2, <1>3, <1>4, <1>5, <1>6, <1>7 DEF Edit

LEMMA StutterInv == Inv /\ UNCHANGED vars => Inv'
  BY DEF Inv, TypeOK, PhaseInv, SnapshotInv, CursorInv, StoringInv, Storing,
         TableIsConfigured, MatchInv, Agrees, vars, mainVars, workerVars

(* Every step of the polling engine preserves the invariant. *)
LEMMA NextInv == Inv /\ [Next]_vars => Inv'
<1> SUFFICES ASSUME Inv, [Next]_vars PROVE Inv'
    OBVIOUS
<1>1. CASE Boot
      BY <1>1, StartInv DEF Boot
<1>2. CASE Start
  <2>1. main' = "idle"
        BY <1>2 DEF Start
  <2> QED
      BY <1>2, <2>1, StartInv DEF Start
<1>3. CASE Stop
      BY <1>3, StopInv
<1>4. CASE \E w \in Worker : RequestStop(w)
      BY <1>4, RequestStopInv
<1>5. CASE Join
      BY <1>5, JoinInv
<1>6. CASE Restart
      BY <1>6, RestartInv
<1>7. CASE Edit
      BY <1>7, EditStepInv
<1>8. ASSUME NEW w \in Worker, WorkerStep(w) PROVE Inv'
      BY <1>8, BeginInv, LoopInv, VisitInv, PassEndInv, CollectInv,
         CollectSkippedInv, FieldInv, FieldsEndInv, PublishInv DEF WorkerStep
<1>9. CASE UNCHANGED vars
      BY <1>9, StutterInv
<1> QED
    BY <1>1, <1>2, <1>3, <1>4, <1>5, <1>6, <1>7, <1>8, <1>9 DEF Next
-----------------------------------------------------------------------------
(* The inductive invariant holds in every reachable state. *)
THEOREM Invariant == Spec => []Inv
  BY InitInv, NextInv, PTL DEF Spec

(* Every variable keeps its type, whatever the handlers and threads do. *)
THEOREM TypeCorrect == Spec => []TypeOK
<1>1. Inv => TypeOK
      BY DEF Inv
<1> QED
    BY <1>1, Invariant, PTL

(* No configuration handler changes DeviceList under a live worker. *)
THEOREM SnapshotStaysCurrent == Spec => []SnapshotCurrent
<1>1. Inv => SnapshotCurrent
      BY DEF Inv, SnapshotInv, SnapshotCurrent, Alive
<1> QED
    BY <1>1, Invariant, PTL

(* updateStatus() finds its device whenever a worker calls it. *)
THEOREM UpdateStatusIsSafe == Spec => []StatusNeverThrows
<1>1. Inv => StatusNeverThrows
      BY DEF Inv, SnapshotInv, CursorInv, StatusNeverThrows
<1> QED
    BY <1>1, Invariant, PTL

(* The realtime readings belong to the configuration being polled. *)
THEOREM TableFollowsConfiguration == Spec => []TableIsConfigured
<1>1. Inv => TableIsConfigured
      BY DEF Inv
<1> QED
    BY <1>1, Invariant, PTL

(* A published state says what RegisterTable says of the device, apart from *)
(* registers without a unified address, of which it says nothing.          *)
THEOREM StatusAgreesWithTable == Spec => []StatusMatchesTable
<1>1. Inv => StatusMatchesTable
  <2> SUFFICES ASSUME Inv, NEW w \in Worker, Alive(w), run[w],
                      NEW d \in DOMAIN snap[w], prev[d] # "Unknown", ~Storing(w, d)
               PROVE  Agrees(d, dev[d].regs)
      BY DEF StatusMatchesTable, Agrees
  <2>1. pc[w] # "none" /\ snap[w][d] = dev[d].regs
        BY DEF Inv, SnapshotInv, Alive
  <2> QED
      BY <2>1 DEF Inv, MatchInv
<1> QED
    BY <1>1, Invariant, PTL

(* Once stop() has returned nothing writes to the table or the log. *)
THEOREM StopSilencesWorkers == Spec => StoppedIsQuiet
<1>1. Inv /\ [Next]_vars =>
          [~pmRunning /\ ~pmRunning' /\ main = "idle" /\ main' = "idle"
              => UNCHANGED <<table, log>>]_vars
  <2> SUFFICES ASSUME Inv, Next, ~pmRunning, ~pmRunning', main = "idle", main' = "idle"
               PROVE  UNCHANGED <<table, log>>
      OBVIOUS
  <2>1. ~Boot /\ ~Start /\ ~Stop /\ ~Join /\ ~Restart /\ \A w \in Worker : ~RequestStop(w)
        BY DEF Boot, Start, StartWorkers, Stop, Join, Restart, ProcessRestart, RequestStop
  <2>2. ASSUME NEW w \in Worker PROVE ~WorkerStep(w)
    <3>1. pc[w] = "none"
          BY DEF Inv, PhaseInv
    <3> QED
        BY <3>1 DEF WorkerStep, Goto, Begin, Loop, Visit, PassEnd, Collect,
                    CollectSkipped, Field, FieldsEnd, Publish
  <2>3. Edit
        BY <2>1, <2>2 DEF Next
  <2> QED
      BY <2>3 DEF Edit, PostDevice, PutDevice, DeleteDevice, PostRegister,
                  PostRegisterFails, PutRegister, DeleteRegister, EditRegisters, EditOnly
<1> QED
    BY <1>1, Invariant, PTL DEF Spec, StoppedIsQuiet

(* The flag that excuses a lost message is raised only on the way out. *)
AlarmInv == ErrorIsAlarmed /\ (exiting => main = "requesting")

LEMMA AlarmStep == Inv /\ AlarmInv /\ [Next]_vars => AlarmInv'
<1> SUFFICES ASSUME Inv, AlarmInv, [Next]_vars PROVE AlarmInv'
    OBVIOUS
<1> USE DEF AlarmInv, ErrorIsAlarmed
<1>1. CASE Boot \/ Start
  <2>1. (\A d \in Device : prev'[d] = "Unknown") /\ ~exiting'
        BY <1>1 DEF Boot, Start, StartWorkers
  <2> QED
      BY <2>1
<1>2. CASE Stop \/ (\E w \in Worker : RequestStop(w)) \/ Edit \/ UNCHANGED vars
  <2>1. UNCHANGED <<exiting, log, prev>> /\ (main' = main \/ main = "idle")
        BY <1>2 DEF Stop, RequestStop, Edit, PostDevice, PutDevice, DeleteDevice,
                    PostRegister, PostRegisterFails, PutRegister, DeleteRegister,
                    EditRegisters, EditOnly, vars,
                    mainVars, workerVars
  <2> QED
      BY <2>1
<1>3. CASE Join
  <2>1. \A d \in Device : prev'[d] = "Unknown"
        BY <1>3 DEF Join, ClearWorkers
  <2>2. ~exiting'
        BY <1>3 DEF Join, ProcessRestart
  <2> QED
      BY <2>1, <2>2
<1>4. CASE Restart
      BY <1>4 DEF Restart, ProcessRestart, workerVars
<1>5. ASSUME NEW w \in Worker, WorkerStep(w) PROVE AlarmInv'
  <2>0. CASE Begin(w) \/ Loop(w) \/ (\E d \in Device : Visit(w, d)) \/ PassEnd(w)
    <3>1. UNCHANGED <<main, exiting, log, prev>>
          BY <2>0 DEF Begin, Loop, Visit, PassEnd, mainVars
    <3> QED
        BY <3>1
  <2>1. CASE \/ \E ok \in SUBSET Reg : Collect(w, ok)
             \/ CollectSkipped(w)
             \/ \E a \in Reg : Field(w, a)
             \/ FieldsEnd(w)
    <3>1. UNCHANGED <<main, exiting, log, prev>>
          BY <2>1 DEF Collect, CollectSkipped, Field, FieldsEnd, mainVars
    <3> QED
        BY <3>1
  <2>2. CASE Publish(w)
    <3> DEFINE s == IF allOk[w] THEN "Ok" ELSE "Error"
    <3>1. /\ UNCHANGED <<main, exiting>>
          /\ prev' = [prev EXCEPT ![cur[w]] = s]
          /\ ~exiting => log' = [log EXCEPT ![cur[w]] = LogOf(cur[w], prev[cur[w]], s)]
          BY <2>2 DEF Publish, mainVars
    <3>2. prev \in [Device -> State] /\ log \in [Device -> {"none", "alarm", "recovery"}]
          BY DEF Inv, TypeOK
    <3>3. ASSUME NEW d \in Device, ~exiting, prev'[d] = "Error" PROVE log'[d] = "alarm"
      <4>1. CASE d # cur[w]
            BY <3>1, <3>2, <3>3, <4>1
      <4>2. CASE d = cur[w]
        <5>1. s = "Error" /\ log'[d] = LogOf(d, prev[d], "Error")
              BY <3>1, <3>2, <3>3, <4>2
        <5>2. prev[d] = "Error" => log[d] = "alarm"
              BY <3>3
        <5> QED
            BY <5>1, <5>2 DEF LogOf
      <4> QED
          BY <4>1, <4>2
    <3> QED
        BY <3>1, <3>3
  <2> QED
      BY <1>5, <2>0, <2>1, <2>2 DEF WorkerStep
<1> QED
    BY <1>1, <1>2, <1>3, <1>4, <1>5 DEF Next

(* A failing device has been reported, however polling was interrupted. *)
THEOREM FailureIsReported == Spec => []ErrorIsAlarmed
<1>1. Init => AlarmInv
  <2>1. ASSUME Init PROVE \A d \in Device : prev[d] = "Unknown"
        BY <2>1 DEF Init, NoWorkers
  <2> QED
      BY <2>1 DEF Init, AlarmInv, ErrorIsAlarmed
<1>2. AlarmInv => ErrorIsAlarmed
      BY DEF AlarmInv
<1> QED
    BY <1>1, <1>2, AlarmStep, Invariant, PTL DEF Spec
=============================================================================
