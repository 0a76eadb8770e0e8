----------------------------- MODULE BatchRead ------------------------------
(***************************************************************************)
(* DataCollector: how the registers of one device are read.  The           *)
(* constructor groups registers of one type at adjacent addresses into     *)
(* batches, once; every poll reads the batches one by one and cuts each    *)
(* answer up again into one result per register.                           *)
(*                                                                         *)
(* A word or bit that is read is represented by where the device keeps it: *)
(* <<space, address>>.  What a register's result contains then shows which *)
(* words it was made of and in which order.                                *)
(***************************************************************************)
EXTENDS Integers, Sequences, SequencesExt

CONSTANTS
    Layouts,            \* the register lists a device may have
    MAX_READ_QUANTITY   \* words or bits per batch (64 in the code)

(* The enumeration RegisterType, in its order. *)
Unknown         == 0
Coil            == 1
DiscreteInput   == 2
HoldingRegister == 3
InputRegister   == 4

RegisterType == {Unknown, Coil, DiscreteInput, HoldingRegister, InputRegister}
IsBit(type)  == type \in {Coil, DiscreteInput}

RegisterConfig == [type: RegisterType, localAddress: Nat, length: Nat,
                   byteOrder: {"Default", "BigEndian", "LittleEndian"}]

ASSUME BatchAssumption ==
    /\ Layouts \subseteq Seq(RegisterConfig)
    /\ MAX_READ_QUANTITY \in Nat

VARIABLES
    registers,          \* m_device.registers
    defaultByteOrder,   \* of the device
    unplaced,           \* buildBatches(): indices not yet put into a batch
    batches,            \* m_batches
    pc,                 \* "build", "idle" or "read" (in collectAllFields())
    pos,                \* the batch to read next
    results,            \* what collectAllFields() returns, per register
    failed              \* for the properties: batches without values so far

vars == <<registers, defaultByteOrder, unplaced, batches, pc, pos, results, failed>>

FieldSlice    == [fieldIndex: Nat, offset: Nat, length: Nat]
RegisterBatch == [startAddress: Nat, totalLength: Nat, type: RegisterType,
                  slices: Seq(FieldSlice)]
Word          == {"coils", "holding"} \X Nat
FieldResult   == [ok: BOOLEAN, values: Seq(Word)]

TypeOK ==
    /\ registers \in Seq(RegisterConfig)
    /\ defaultByteOrder \in {"BigEndian", "LittleEndian"}
    /\ unplaced \subseteq DOMAIN registers
    /\ batches \in Seq(RegisterBatch)
    /\ pc \in {"build", "idle", "read"}
    /\ pos \in Nat
    /\ results \in [DOMAIN registers -> FieldResult]
    /\ failed \subseteq Nat

NoResult == [ok |-> FALSE, values |-> <<>>]

Init ==
    /\ registers \in Layouts
    /\ defaultByteOrder \in {"BigEndian", "LittleEndian"}
    /\ unplaced = DOMAIN registers
    /\ batches = <<>>
    /\ pc = "build"
    /\ pos = 1
    /\ results = [i \in DOMAIN registers |-> NoResult]
    /\ failed = {}
-----------------------------------------------------------------------------
(***************************************************************************)
(* buildBatches(): the indices in the order of type and address; which of  *)
(* two equal ones comes first is left to std::sort.                        *)
(***************************************************************************)
Before(i, j) ==
    \/ registers[i].type < registers[j].type
    \/ /\ registers[i].type = registers[j].type
       /\ registers[i].localAddress < registers[j].localAddress

IsNext(i) == i \in unplaced /\ \A j \in unplaced : ~Before(j, i)

(* Variant: the quantity is checked before the register is added. *)
CanMergeUntilFull(b, r) ==
    /\ b.type = r.type
    /\ r.localAddress = b.startAddress + b.totalLength
    /\ b.totalLength <= MAX_READ_QUANTITY

CanMerge(b, r) ==
    /\ b.type = r.type
    /\ r.localAddress = b.startAddress + b.totalLength
    /\ b.totalLength + r.length <= MAX_READ_QUANTITY

Merged(b, i) ==
    [startAddress |-> b.startAddress,
     totalLength  |-> b.totalLength + registers[i].length,
     type         |-> b.type,
     slices       |-> Append(b.slices, [fieldIndex |-> i, offset |-> b.totalLength,
                                        length |-> registers[i].length])]

NewBatch(i) ==
    [startAddress |-> registers[i].localAddress,
     totalLength  |-> registers[i].length,
     type         |-> registers[i].type,
     slices       |-> <<[fieldIndex |-> i, offset |-> 0,
                         length |-> registers[i].length]>>]

MergeNext(i) ==
    /\ pc = "build"
    /\ IsNext(i)
    /\ batches # <<>>
    /\ CanMerge(Last(batches), registers[i])
    /\ batches' = [batches EXCEPT ![Len(batches)] = Merged(@, i)]
    /\ unplaced' = unplaced \ {i}
    /\ UNCHANGED <<registers, defaultByteOrder, pc, pos, results, failed>>

StartBatch(i) ==
    /\ pc = "build"
    /\ IsNext(i)
    /\ batches # <<>> => ~CanMerge(Last(batches), registers[i])
    /\ batches' = Append(batches, NewBatch(i))
    /\ unplaced' = unplaced \ {i}
    /\ UNCHANGED <<registers, defaultByteOrder, pc, pos, results, failed>>

BuildEnds ==
    /\ pc = "build"
    /\ unplaced = {}
    /\ pc' = "idle"
    /\ failed' = DOMAIN batches
    /\ UNCHANGED <<registers, defaultByteOrder, unplaced, batches, pos, results>>
-----------------------------------------------------------------------------
(***************************************************************************)
(* readBatch(): readWords() and readBits() of the Modbus clients send      *)
(* function 0x03 and 0x01 whatever the type, and refuse an answer that     *)
(* does not hold the quantity asked for.  A type that is not known is not  *)
(* read at all.                                                            *)
(***************************************************************************)
Space(type) == IF IsBit(type) THEN "coils" ELSE "holding"

Answer(b) == [k \in 1 .. b.totalLength |-> <<Space(b.type), b.startAddress + k - 1>>]

(* Variant: the order of the device wins over that of the register. *)
DeviceByteOrder(r) == defaultByteOrder

effectiveByteOrder(r) == IF r.byteOrder # "Default" THEN r.byteOrder ELSE defaultByteOrder

applyByteOrder(values, byteOrder) ==
    IF byteOrder = "BigEndian" THEN values ELSE Reverse(values)

(* Bits are taken as they come; words are ordered per register. *)
Arrange(values, r) ==
    IF IsBit(r.type) THEN values ELSE applyByteOrder(values, effectiveByteOrder(r))

ValuesOf(b, s) ==
    Arrange(SubSeq(Answer(b), s.offset + 1, s.offset + s.length), registers[s.fieldIndex])

SliceOf(b, i) == CHOOSE s \in Range(b.slices) : s.fieldIndex = i
Holds(b, i)   == \E s \in Range(b.slices) : s.fieldIndex = i

(* collectAllFields() is called by the worker: fresh results, then the batches. *)
CollectAllFields ==
    /\ pc = "idle"
    /\ pc' = "read"
    /\ pos' = 1
    /\ results' = [i \in DOMAIN registers |-> NoResult]
    /\ failed' = DOMAIN batches
    /\ UNCHANGED <<registers, defaultByteOrder, unplaced, batches>>

(* ensureConnected() fails: every register fails. *)
NotConnected ==
    /\ pc = "idle"
    /\ results' = [i \in DOMAIN registers |-> NoResult]
    /\ failed' = DOMAIN batches
    /\ UNCHANGED <<registers, defaultByteOrder, unplaced, batches, pc, pos>>

(* Variant: a failed batch fails every register. *)
ReadBatchOrNothing(ok) ==
    /\ pc = "read"
    /\ pos \in DOMAIN batches
    /\ ok => batches[pos].type # Unknown
    /\ results' =
         [i \in DOMAIN registers |->
             IF ~ok THEN NoResult
             ELSE IF ~Holds(batches[pos], i) THEN results[i]
             ELSE [ok |-> TRUE, values |-> ValuesOf(batches[pos], SliceOf(batches[pos], i))]]
    /\ failed' = IF ok THEN failed \ {pos} ELSE failed
    /\ pos' = pos + 1
    /\ UNCHANGED <<registers, defaultByteOrder, unplaced, batches, pc>>

ReadBatch(ok) ==
    /\ pc = "read"
    /\ pos \in DOMAIN batches
    /\ ok => batches[pos].type # Unknown
    /\ results' =
         [i \in DOMAIN registers |->
             IF ~Holds(batches[pos], i) THEN results[i]
             ELSE IF ~ok THEN NoResult
             ELSE [ok |-> TRUE, values |-> ValuesOf(batches[pos], SliceOf(batches[pos], i))]]
    /\ failed' = IF ok THEN failed \ {pos} ELSE failed
    /\ pos' = pos + 1
    /\ UNCHANGED <<registers, defaultByteOrder, unplaced, batches, pc>>

CollectEnds ==
    /\ pc = "read"
    /\ pos \notin DOMAIN batches
    /\ pc' = "idle"
    /\ UNCHANGED <<registers, defaultByteOrder, unplaced, batches, pos, results, failed>>
-----------------------------------------------------------------------------
Next ==
    \/ \E i \in DOMAIN registers : MergeNext(i) \/ StartBatch(i)
    \/ BuildEnds
    \/ CollectAllFields
    \/ NotConnected
    \/ \E ok \in BOOLEAN : ReadBatch(ok)
    \/ CollectEnds

Spec == Init /\ [][Next]_vars
-----------------------------------------------------------------------------
(* The slices of all batches. *)
Places == UNION {{n} \X DOMAIN batches[n].slices : n \in DOMAIN batches}

IndexAt(p) == batches[p[1]].slices[p[2]].fieldIndex

(***************************************************************************)
(* Where buildBatches() says a register is in the answer is where the      *)
(* device's answer has it: the offset leads to the register's own address, *)
(* within what is asked for, in a batch of the register's type.            *)
(***************************************************************************)
SliceAligned ==
    \A n \in DOMAIN batches : \A k \in DOMAIN batches[n].slices :
        LET b == batches[n]
            s == b.slices[k]
            r == registers[s.fieldIndex]
        IN  /\ s.fieldIndex \in DOMAIN registers
            /\ r.type = b.type
            /\ r.length = s.length
            /\ r.localAddress = b.startAddress + s.offset
            /\ s.offset + s.length <= b.totalLength

(***************************************************************************)
(* A batch of several registers never asks for more than                   *)
(* MAX_READ_QUANTITY, which is 64 (RegisterExecutor.h:20 and               *)
(* modbus-batch-read.md:16); a register that is longer by itself is read   *)
(* all the same.  The code does not keep the other limit documented,       *)
(* Modbus_Comm_Spec.md:145: at most 32 words at a time, and an error for   *)
(* more.  Registers of 32 words and of one are read in one request.        *)
(***************************************************************************)
BatchBounded ==
    \A n \in DOMAIN batches :
        batches[n].totalLength <= MAX_READ_QUANTITY \/ Len(batches[n].slices) = 1

(***************************************************************************)
(* The aim of batching (modbus-batch-read.md): no batch ends although the  *)
(* next one's first register would still have fitted.                      *)
(***************************************************************************)
NoNeedlessSplit ==
    \A n \in 1 .. Len(batches) - 1 :
        LET b == batches[n]
            r == registers[batches[n + 1].slices[1].fieldIndex]
        IN  ~ (/\ b.type = r.type
               /\ r.localAddress = b.startAddress + b.totalLength
               /\ b.totalLength + r.length <= MAX_READ_QUANTITY)

(***************************************************************************)
(* What a register gets from a batch is what reading it alone would have   *)
(* given (collectField()): its own words, from its own address on, in the  *)
(* byte order that applies to it.                                          *)
(***************************************************************************)
Alone(r, default) ==
    LET words == [k \in 1 .. r.length |-> <<Space(r.type), r.localAddress + k - 1>>]
        order == IF r.byteOrder = "Default" THEN default ELSE r.byteOrder
    IN  IF IsBit(r.type) \/ order = "BigEndian"
        THEN words
        ELSE [k \in 1 .. r.length |-> words[r.length + 1 - k]]

ReadAlone(i) == Alone(registers[i], defaultByteOrder)

ResultsMatch == \A i \in DOMAIN registers : results[i].ok => results[i].values = ReadAlone(i)

(***************************************************************************)
(* A failed batch fails its own registers and no others: between two polls *)
(* a register has a value exactly when its batch was read in the last one. *)
(***************************************************************************)
FailureContained ==
    pc = "idle" => \A p \in Places : results[IndexAt(p)].ok <=> p[1] \notin failed
=============================================================================
