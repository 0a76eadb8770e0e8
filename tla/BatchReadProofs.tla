-------------------------- MODULE BatchReadProofs ---------------------------
(***************************************************************************)
(* Proofs about batched reading, for every list of registers and every     *)
(* batch size.                                                             *)
(***************************************************************************)
EXTENDS BatchRead, SequenceTheorems, TLAPS

(***************************************************************************)
(* What holds of one batch, however far its construction has come: the     *)
(* part of SliceAligned and BatchBounded that is about it, and that it has *)
(* a first register.                                                       *)
(***************************************************************************)
GoodSlice(b, s) ==
    /\ s.fieldIndex \in DOMAIN registers
    /\ registers[s.fieldIndex].type = b.type
    /\ registers[s.fieldIndex].length = s.length
    /\ registers[s.fieldIndex].localAddress = b.startAddress + s.offset
    /\ s.offset + s.length <= b.totalLength

GoodBatch(b) ==
    /\ b.slices # <<>>
    /\ b.totalLength <= MAX_READ_QUANTITY \/ Len(b.slices) = 1
    /\ \A k \in DOMAIN b.slices : GoodSlice(b, b.slices[k])

AllGood == \A n \in DOMAIN batches : GoodBatch(batches[n])

Inv ==
    /\ TypeOK
    /\ AllGood
    /\ NoNeedlessSplit
    /\ ResultsMatch

(* The fields of a batch and of a slice. *)
LEMMA BatchFields ==
    ASSUME NEW b \in RegisterBatch
    PROVE  /\ b.startAddress \in Nat
           /\ b.totalLength \in Nat
           /\ b.type \in RegisterType
           /\ b.slices \in Seq(FieldSlice)
  BY DEF RegisterBatch

LEMMA RegisterFields ==
    ASSUME TypeOK, NEW i \in DOMAIN registers
    PROVE  /\ i \in Nat
           /\ registers[i].type \in RegisterType
           /\ registers[i].localAddress \in Nat
           /\ registers[i].length \in Nat
<1>1. registers \in Seq(RegisterConfig)
      BY DEF TypeOK
<1>2. i \in 1 .. Len(registers) /\ Len(registers) \in Nat
      BY <1>1, LenProperties
<1>3. registers[i] \in RegisterConfig
      BY <1>1, <1>2, ElementOfSeq
<1> QED
    BY <1>2, <1>3 DEF RegisterConfig

(* A batch of one register is a good one. *)
LEMMA NewBatchGood ==
    ASSUME TypeOK, NEW i \in DOMAIN registers
    PROVE  /\ NewBatch(i) \in RegisterBatch
           /\ GoodBatch(NewBatch(i))
           /\ NewBatch(i).slices[1].fieldIndex = i
<1> DEFINE r == registers[i]
           s == [fieldIndex |-> i, offset |-> 0, length |-> r.length]
<1>1. i \in Nat /\ r.type \in RegisterType /\ r.localAddress \in Nat /\ r.length \in Nat
      BY RegisterFields
<1>2. s \in FieldSlice /\ s.fieldIndex = i /\ s.offset = 0 /\ s.length = r.length
      BY <1>1 DEF FieldSlice
<1> HIDE DEF s
<1>3. /\ <<s>> \in Seq(FieldSlice)
      /\ <<s>> # <<>>
      /\ Len(<<s>>) = 1
      /\ DOMAIN <<s>> = {1}
      /\ <<s>>[1] = s
      BY <1>2
<1>4. NewBatch(i) = [startAddress |-> r.localAddress, totalLength |-> r.length,
                     type |-> r.type, slices |-> <<s>>]
      BY DEF NewBatch, s
<1>5. /\ NewBatch(i).startAddress = r.localAddress
      /\ NewBatch(i).totalLength = r.length
      /\ NewBatch(i).type = r.type
      /\ NewBatch(i).slices = <<s>>
      BY <1>4
<1>6. NewBatch(i) \in RegisterBatch
      BY <1>1, <1>3, <1>4 DEF RegisterBatch
<1>7. GoodSlice(NewBatch(i), s)
      BY <1>1, <1>2, <1>5 DEF GoodSlice
<1>8. GoodBatch(NewBatch(i))
      BY <1>3, <1>5, <1>7 DEF GoodBatch
<1> QED
    BY <1>2, <1>3, <1>5, <1>6, <1>8

(* A register that may be merged leaves the batch a good one. *)
LEMMA MergedGood ==
    ASSUME TypeOK, NEW i \in DOMAIN registers, NEW b \in RegisterBatch,
           GoodBatch(b), CanMerge(b, registers[i])
    PROVE  /\ Merged(b, i) \in RegisterBatch
           /\ GoodBatch(Merged(b, i))
           /\ Merged(b, i).slices[1] = b.slices[1]
<1> DEFINE r == registers[i]
           s == [fieldIndex |-> i, offset |-> b.totalLength, length |-> r.length]
           c == [startAddress |-> b.startAddress, totalLength |-> b.totalLength + r.length,
                 type |-> b.type, slices |-> Append(b.slices, s)]
<1>1. i \in Nat /\ r.type \in RegisterType /\ r.localAddress \in Nat /\ r.length \in Nat
      BY RegisterFields
<1>2. /\ b.startAddress \in Nat
      /\ b.totalLength \in Nat
      /\ b.type \in RegisterType
      /\ b.slices \in Seq(FieldSlice)
      BY BatchFields
<1>3. s \in FieldSlice /\ s.fieldIndex = i /\ s.offset = b.totalLength /\ s.length = r.length
      BY <1>1, <1>2 DEF FieldSlice
<1>4. Merged(b, i) = c
      BY DEF Merged
<1> HIDE DEF s
<1>5. /\ c.startAddress = b.startAddress
      /\ c.totalLength = b.totalLength + r.length
      /\ c.type = b.type
      /\ c.slices = Append(b.slices, s)
      OBVIOUS
<1>6. /\ c.slices \in Seq(FieldSlice)
      /\ c.slices # <<>>
      /\ DOMAIN c.slices = 1 .. Len(b.slices) + 1
      /\ Len(b.slices) \in Nat
      /\ DOMAIN b.slices = 1 .. Len(b.slices)
      /\ \A k \in 1 .. Len(b.slices) : c.slices[k] = b.slices[k]
      /\ c.slices[Len(b.slices) + 1] = s
      BY <1>2, <1>3, <1>5, AppendProperties, LenProperties
<1>7. c \in RegisterBatch
      BY <1>1, <1>2, <1>6 DEF RegisterBatch
<1> HIDE DEF c
<1>8. ASSUME NEW k \in DOMAIN c.slices PROVE GoodSlice(c, c.slices[k])
  <2>1. CASE k = Len(b.slices) + 1
        BY <1>1, <1>2, <1>3, <1>5, <1>6, <2>1 DEF GoodSlice, CanMerge
  <2>2. CASE k \in 1 .. Len(b.slices)
    <3>1. c.slices[k] = b.slices[k] /\ GoodSlice(b, b.slices[k])
          BY <1>6, <2>2 DEF GoodBatch
    <3>2. b.slices[k].offset \in Nat /\ b.slices[k].length \in Nat
      <4>1. b.slices[k] \in FieldSlice
            BY <1>2, <2>2, ElementOfSeq
      <4> QED
          BY <4>1 DEF FieldSlice
    <3>3. b.slices[k].offset + b.slices[k].length <= c.totalLength
      <4>1. b.slices[k].offset + b.slices[k].length <= b.totalLength
            BY <3>1 DEF GoodSlice
      <4>2. c.totalLength = b.totalLength + r.length
            BY <1>5
      <4>3. b.totalLength \in Nat /\ r.length \in Nat
            BY <1>1, <1>2
      <4> QED
          BY <3>2, <4>1, <4>2, <4>3
    <3>4. GoodSlice(c, b.slices[k])
          BY <1>5, <3>1, <3>3 DEF GoodSlice
    <3> QED
        BY <3>1, <3>4
  <2> QED
      BY <1>6, <2>1, <2>2
<1>9. GoodBatch(c)
      BY <1>5, <1>6, <1>8 DEF GoodBatch, CanMerge
<1>10. c.slices[1] = b.slices[1]
  <2>1. Len(b.slices) # 0
        BY <1>2, EmptySeq, LenProperties DEF GoodBatch
  <2> QED
      BY <1>6, <2>1
<1> QED
    BY <1>4, <1>7, <1>9, <1>10

(* What reading a register alone gives depends on the configuration only. *)
LEMMA KeepResults ==
    ASSUME ResultsMatch, UNCHANGED <<registers, defaultByteOrder, results>>
    PROVE  ResultsMatch'
<1>a. registers' = registers /\ defaultByteOrder' = defaultByteOrder
      OBVIOUS
<1>1. ASSUME NEW j \in DOMAIN registers PROVE ReadAlone(j)' = ReadAlone(j)
      BY <1>a DEF ReadAlone
<1> QED
    BY <1>1 DEF ResultsMatch

(* A good batch stays one while the registers are the same. *)
LEMMA KeepGood ==
    ASSUME registers' = registers, \A j \in DOMAIN batches' : GoodBatch(batches'[j])
    PROVE  AllGood'
  BY Zenon DEF AllGood, GoodBatch, GoodSlice

LEMMA InitInv == Init => Inv
<1> SUFFICES ASSUME Init PROVE Inv
    OBVIOUS
<1>1. registers \in Seq(RegisterConfig)
      BY BatchAssumption DEF Init
<1>2. <<>> \in Seq(RegisterBatch) /\ <<>> \in Seq(Word)
      BY EmptySeq
<1>3. NoResult \in FieldResult /\ ~NoResult.ok
      BY <1>2 DEF NoResult, FieldResult
<1>4. TypeOK
      BY <1>1, <1>2, <1>3 DEF Init, TypeOK
<1>5. AllGood /\ NoNeedlessSplit
      BY DEF Init, AllGood, NoNeedlessSplit
<1>6. ResultsMatch
      BY <1>3 DEF Init, ResultsMatch
<1> QED
    BY <1>4, <1>5, <1>6 DEF Inv

(* buildBatches() adds a register to the last batch. *)
LEMMA MergeInv == ASSUME Inv, NEW i \in DOMAIN registers, MergeNext(i) PROVE Inv'
<1> DEFINE m == Len(batches)
           b == batches[m]
           c == Merged(b, i)
<1>1. /\ UNCHANGED <<registers, defaultByteOrder, pc, pos, results, failed>>
      /\ unplaced' = unplaced \ {i}
      /\ batches' = [batches EXCEPT ![m] = c]
      /\ CanMerge(b, registers[i])
      /\ batches # <<>>
      BY DEF MergeNext, Last
<1>2. /\ batches \in Seq(RegisterBatch)
      /\ m \in Nat
      /\ DOMAIN batches = 1 .. m
      /\ m \in 1 .. m
      BY <1>1, EmptySeq, LenProperties DEF Inv, TypeOK
<1>3. b \in RegisterBatch /\ GoodBatch(b)
      BY <1>2, ElementOfSeq DEF Inv, AllGood
<1>4. c \in RegisterBatch /\ GoodBatch(c) /\ c.slices[1] = b.slices[1] /\ c.type = b.type
      BY <1>1, <1>3, MergedGood DEF Inv, Merged
<1> HIDE DEF c
<1>5. /\ batches' \in Seq(RegisterBatch)
      /\ Len(batches') = m
      /\ DOMAIN batches' = 1 .. m
      /\ \A j \in 1 .. m : batches'[j] = IF j = m THEN c ELSE batches[j]
      BY <1>1, <1>2, <1>4, ExceptSeq, LenProperties
<1>6. TypeOK'
      BY <1>1, <1>5 DEF Inv, TypeOK
<1>7. AllGood'
  <2>1. \A j \in 1 .. m : GoodBatch(batches'[j])
        BY <1>2, <1>4, <1>5 DEF Inv, AllGood
  <2> QED
      BY <1>1, <1>5, <2>1, KeepGood
<1>8. NoNeedlessSplit'
  <2>a. m = Len(batches) /\ b = batches[m]
        OBVIOUS
  <2> HIDE DEF m, b
  <2> SUFFICES ASSUME NEW n \in 1 .. m - 1
               PROVE  ~ (/\ batches[n].type = registers[batches'[n + 1].slices[1].fieldIndex].type
                         /\ registers[batches'[n + 1].slices[1].fieldIndex].localAddress
                              = batches[n].startAddress + batches[n].totalLength
                         /\ batches[n].totalLength
                              + registers[batches'[n + 1].slices[1].fieldIndex].length
                              <= MAX_READ_QUANTITY)
    <3>1. \A n \in 1 .. m - 1 : batches'[n] = batches[n]
          BY <1>2, <1>5
    <3> QED
        BY <1>1, <1>5, <3>1 DEF NoNeedlessSplit
  <2>1. batches'[n + 1].slices[1] = batches[n + 1].slices[1]
    <3>1. n + 1 \in 1 .. m
          BY <1>2
    <3> QED
        BY <1>4, <1>5, <2>a, <3>1
  <2> QED
      BY <2>1, <2>a DEF Inv, NoNeedlessSplit
<1>9. ResultsMatch'
      BY <1>1, KeepResults DEF Inv
<1> QED
    BY <1>6, <1>7, <1>8, <1>9 DEF Inv

(* buildBatches() starts a new batch. *)
LEMMA StartInv == ASSUME Inv, NEW i \in DOMAIN registers, StartBatch(i) PROVE Inv'
<1> DEFINE m == Len(batches)
           c == NewBatch(i)
<1>1. /\ UNCHANGED <<registers, defaultByteOrder, pc, pos, results, failed>>
      /\ unplaced' = unplaced \ {i}
      /\ batches' = Append(batches, c)
      /\ batches # <<>> => ~CanMerge(batches[m], registers[i])
      BY DEF StartBatch, Last
<1>2. batches \in Seq(RegisterBatch) /\ m \in Nat /\ DOMAIN batches = 1 .. m
      BY LenProperties DEF Inv, TypeOK
<1>3. c \in RegisterBatch /\ GoodBatch(c) /\ c.slices[1].fieldIndex = i
      BY NewBatchGood DEF Inv
<1> HIDE DEF c
<1>4. /\ batches' \in Seq(RegisterBatch)
      /\ Len(batches') = m + 1
      /\ DOMAIN batches' = 1 .. m + 1
      /\ \A j \in 1 .. m : batches'[j] = batches[j]
      /\ batches'[m + 1] = c
      BY <1>1, <1>2, <1>3, AppendProperties, LenProperties
<1>5. TypeOK'
      BY <1>1, <1>4 DEF Inv, TypeOK
<1>6. AllGood'
  <2>1. \A j \in 1 .. m + 1 : GoodBatch(batches'[j])
        BY <1>2, <1>3, <1>4 DEF Inv, AllGood
  <2> QED
      BY <1>1, <1>4, <2>1, KeepGood
<1>7. NoNeedlessSplit'
  <2> HIDE DEF m
  <2> SUFFICES ASSUME NEW n \in 1 .. m
               PROVE  ~ (/\ batches[n].type = registers[batches'[n + 1].slices[1].fieldIndex].type
                         /\ registers[batches'[n + 1].slices[1].fieldIndex].localAddress
                              = batches[n].startAddress + batches[n].totalLength
                         /\ batches[n].totalLength
                              + registers[batches'[n + 1].slices[1].fieldIndex].length
                              <= MAX_READ_QUANTITY)
      BY <1>1, <1>2, <1>4 DEF NoNeedlessSplit
  <2>1. CASE n = m
    <3>1. batches # <<>>
          BY <1>2, <2>1, EmptySeq
    <3> QED
        BY <1>1, <1>3, <1>4, <2>1, <3>1 DEF CanMerge
  <2>2. CASE n \in 1 .. m - 1
        BY <1>2, <1>4, <2>2 DEF Inv, NoNeedlessSplit
  <2> QED
      BY <1>2, <2>1, <2>2
<1>8. ResultsMatch'
      BY <1>1, KeepResults DEF Inv
<1> QED
    BY <1>5, <1>6, <1>7, <1>8 DEF Inv

(***************************************************************************)
(* The heart of the matter: cutting a good batch's answer up gives a       *)
(* register what reading it alone would have given.                        *)
(***************************************************************************)
LEMMA SliceValues ==
    ASSUME TypeOK, NEW b \in RegisterBatch, GoodBatch(b),
           NEW i \in DOMAIN registers, Holds(b, i)
    PROVE  /\ ValuesOf(b, SliceOf(b, i)) = ReadAlone(i)
           /\ ReadAlone(i) \in Seq(Word)
<1> DEFINE s == SliceOf(b, i)
           r == registers[i]
           first == s.offset + 1
           last == s.offset + s.length
           q == SubSeq(Answer(b), first, last)
           words == [k \in 1 .. r.length |-> <<Space(r.type), r.localAddress + k - 1>>]
<1>1. s \in Range(b.slices) /\ s.fieldIndex = i
      BY DEF Holds, SliceOf
<1>2. PICK n \in DOMAIN b.slices : s = b.slices[n]
      BY <1>1 DEF Range
<1>3. /\ r.type = b.type
      /\ r.length = s.length
      /\ r.localAddress = b.startAddress + s.offset
      /\ s.offset + s.length <= b.totalLength
      BY <1>1, <1>2 DEF GoodBatch, GoodSlice
<1>4. s.offset \in Nat /\ s.length \in Nat
  <2>1. b.slices \in Seq(FieldSlice)
        BY BatchFields
  <2>2. s \in FieldSlice
        BY <1>2, <2>1, LenProperties, ElementOfSeq
  <2> QED
      BY <2>2 DEF FieldSlice
<1>5. b.startAddress \in Nat /\ b.totalLength \in Nat
      BY BatchFields
<1>6. Space(r.type) \in {"coils", "holding"}
      BY DEF Space
<1> HIDE DEF s, r
<1>7. \A j \in first .. last :
          /\ Answer(b)[j] = <<Space(b.type), b.startAddress + j - 1>>
          /\ Answer(b)[j] \in Word
      BY <1>3, <1>4, <1>5, <1>6 DEF Answer, Word
<1>8. /\ q \in Seq(Word)
      /\ Len(q) = r.length
      /\ \A j \in 1 .. r.length : q[j] = words[j]
  <2>1. first \in Int /\ last \in Int /\ last - first + 1 = r.length
        BY <1>3, <1>4
  <2>2. /\ q \in Seq(Word)
        /\ Len(q) = IF first <= last THEN last - first + 1 ELSE 0
        /\ \A j \in 1 .. last - first + 1 : q[j] = Answer(b)[first + j - 1]
        BY <1>7, <2>1, SubSeqProperties
  <2>3. ASSUME NEW j \in 1 .. r.length PROVE q[j] = words[j]
    <3>1. first + j - 1 \in first .. last
          BY <1>3, <1>4
    <3>2. q[j] = <<Space(b.type), b.startAddress + (first + j - 1) - 1>>
          BY <1>7, <2>1, <2>2, <3>1
    <3>3. b.startAddress + (first + j - 1) - 1 = r.localAddress + j - 1
          BY <1>3, <1>4, <1>5
    <3> QED
        BY <1>3, <3>2, <3>3
  <2>4. Len(q) = r.length
    <3>1. r.length \in Nat
          BY <1>3, <1>4
    <3> HIDE DEF first, last, q
    <3> QED
        BY <2>1, <2>2, <3>1
  <2> HIDE DEF q, words
  <2> QED
      BY <2>2, <2>3, <2>4
<1>9. q = words
  <2>1. words \in [1 .. r.length -> Word]
        BY <1>3, <1>4, <1>5, <1>6 DEF Word
  <2>2. q \in [1 .. r.length -> Word]
        BY <1>8, LenProperties
  <2> HIDE DEF q, words
  <2> QED
      BY <1>8, <2>1, <2>2
<1>10. ValuesOf(b, s) = Arrange(words, r)
       BY <1>1, <1>9 DEF ValuesOf, r
<1>11. Arrange(words, r) = Alone(r, defaultByteOrder)
  <2>1. Len(words) = r.length
        BY <1>8, <1>9
  <2>2. Reverse(words) = [k \in 1 .. r.length |-> words[r.length + 1 - k]]
    <3>1. \A j \in 1 .. r.length : (r.length - j) + 1 = r.length + 1 - j
          BY <1>3, <1>4
    <3> HIDE DEF words
    <3> QED
        BY <2>1, <3>1 DEF Reverse
  <2>3. Alone(r, defaultByteOrder) =
          IF IsBit(r.type) \/ effectiveByteOrder(r) = "BigEndian"
          THEN words
          ELSE [k \in 1 .. r.length |-> words[r.length + 1 - k]]
        BY DEF Alone, effectiveByteOrder
  <2> HIDE DEF words
  <2> QED
      BY <2>2, <2>3 DEF Arrange, applyByteOrder
<1>12. Alone(r, defaultByteOrder) \in Seq(Word)
  <2>1. words \in Seq(Word)
        BY <1>8, <1>9
  <2>2. Len(words) = r.length /\ r.length \in Nat
        BY <1>3, <1>4, <1>8, <1>9
  <2> HIDE DEF words
  <2>3. Reverse(words) = [k \in 1 .. r.length |-> words[(r.length - k) + 1]]
        BY <2>2 DEF Reverse
  <2>4. ASSUME NEW k \in 1 .. r.length PROVE words[(r.length - k) + 1] \in Word
    <3>1. (r.length - k) + 1 \in 1 .. r.length
          BY <2>2
    <3> QED
        BY <2>1, <2>2, <3>1, ElementOfSeq
  <2>5. Reverse(words) \in Seq(Word)
    <3>1. Reverse(words) \in [1 .. r.length -> Word]
          BY <2>3, <2>4
    <3> QED
        BY <2>2, <3>1
  <2> QED
      BY <1>11, <2>1, <2>5 DEF Arrange, applyByteOrder
<1> QED
    BY <1>10, <1>11, <1>12 DEF ReadAlone, r, s

(* A batch has been read, or could not be. *)
LEMMA ReadInv == ASSUME Inv, NEW ok \in BOOLEAN, ReadBatch(ok) PROVE Inv'
<1> DEFINE b == batches[pos]
<1>1. /\ UNCHANGED <<registers, defaultByteOrder, unplaced, batches, pc>>
      /\ pos' = pos + 1
      /\ failed' \subseteq failed
      BY DEF ReadBatch
<1>2. b \in RegisterBatch /\ GoodBatch(b)
  <2>1. batches \in Seq(RegisterBatch) /\ pos \in DOMAIN batches
        BY DEF Inv, TypeOK, ReadBatch
  <2> QED
      BY <2>1, LenProperties, ElementOfSeq DEF Inv, AllGood
<1>3. DOMAIN results' = DOMAIN registers
      BY DEF ReadBatch
<1>4. ASSUME NEW i \in DOMAIN registers
      PROVE  /\ results'[i] \in FieldResult
             /\ results'[i].ok => results'[i].values = ReadAlone(i)
  <2>1. CASE ~Holds(b, i)
    <3>1. results'[i] = results[i]
          BY <2>1 DEF ReadBatch
    <3> QED
        BY <3>1 DEF Inv, TypeOK, ResultsMatch
  <2>2. CASE Holds(b, i) /\ ~ok
    <3>1. results'[i] = NoResult
          BY <2>2 DEF ReadBatch
    <3>2. <<>> \in Seq(Word)
          BY EmptySeq
    <3> QED
        BY <3>1, <3>2 DEF NoResult, FieldResult
  <2>3. CASE Holds(b, i) /\ ok
    <3>1. results'[i] = [ok |-> TRUE, values |-> ValuesOf(b, SliceOf(b, i))]
          BY <2>3 DEF ReadBatch
    <3>2. ValuesOf(b, SliceOf(b, i)) = ReadAlone(i) /\ ReadAlone(i) \in Seq(Word)
          BY <1>2, <2>3, SliceValues DEF Inv
    <3>3. results'[i] = [ok |-> TRUE, values |-> ReadAlone(i)]
          BY <3>1, <3>2
    <3> QED
        BY <3>2, <3>3 DEF FieldResult
  <2> QED
      BY <2>1, <2>2, <2>3
<1>5. TypeOK'
  <2>1. results' \in [DOMAIN registers -> FieldResult]
    <3>1. results' = [i \in DOMAIN registers |-> results'[i]]
          BY DEF ReadBatch
    <3> QED
        BY <1>4, <3>1
  <2> QED
      BY <1>1, <2>1 DEF Inv, TypeOK
<1>6. AllGood' /\ NoNeedlessSplit'
  <2>1. NoNeedlessSplit'
        BY <1>1 DEF Inv, NoNeedlessSplit
  <2> QED
      BY <1>1, <2>1, KeepGood DEF Inv, AllGood
<1>7. ResultsMatch'
  <2>1. registers' = registers /\ defaultByteOrder' = defaultByteOrder
        BY <1>1
  <2>2. ASSUME NEW j \in DOMAIN registers PROVE ReadAlone(j)' = ReadAlone(j)
        BY <2>1 DEF ReadAlone
  <2> QED
      BY <1>4, <2>1, <2>2 DEF ResultsMatch
<1> QED
    BY <1>5, <1>6, <1>7 DEF Inv

(* A poll starts with fresh results, or is refused a connection. *)
LEMMA FreshInv ==
    ASSUME Inv, UNCHANGED <<registers, defaultByteOrder, unplaced, batches>>,
           pc' \in {"idle", "read"}, pos' \in Nat, failed' \subseteq Nat,
           results' = [i \in DOMAIN registers |-> NoResult]
    PROVE  Inv'
<1>1. <<>> \in Seq(Word)
      BY EmptySeq
<1>2. NoResult \in FieldResult /\ ~NoResult.ok
      BY <1>1 DEF NoResult, FieldResult
<1>3. TypeOK'
      BY <1>2 DEF Inv, TypeOK
<1>4. NoNeedlessSplit'
      BY DEF Inv, NoNeedlessSplit
<1>5. AllGood'
      BY KeepGood DEF Inv, AllGood
<1>6. ResultsMatch'
      BY <1>2 DEF ResultsMatch
<1> QED
    BY <1>3, <1>4, <1>5, <1>6 DEF Inv

(* Steps that change neither the batches nor the results. *)
LEMMA QuietInv ==
    ASSUME Inv, UNCHANGED <<registers, defaultByteOrder, unplaced, batches, pos, results>>,
           pc' \in {"build", "idle", "read"}, failed' \subseteq Nat
    PROVE  Inv'
<1>1. TypeOK'
      BY DEF Inv, TypeOK
<1>2. NoNeedlessSplit'
      BY DEF Inv, NoNeedlessSplit
<1>3. AllGood'
      BY KeepGood DEF Inv, AllGood
<1>4. ResultsMatch'
      BY KeepResults DEF Inv
<1> QED
    BY <1>1, <1>2, <1>3, <1>4 DEF Inv

(***************************************************************************)
(* Inv is an invariant of DataCollector, whatever registers the device     *)
(* has: overlapping, of any length, in any order.                          *)
(***************************************************************************)
THEOREM Invariant == Spec => []Inv
<1>1. Inv /\ [Next]_vars => Inv'
  <2> SUFFICES ASSUME Inv, [Next]_vars PROVE Inv'
      OBVIOUS
  <2>d. DOMAIN batches \subseteq Nat
    <3>1. batches \in Seq(RegisterBatch)
          BY DEF Inv, TypeOK
    <3> QED
        BY <3>1, LenProperties
  <2>1. ASSUME NEW i \in DOMAIN registers, MergeNext(i) PROVE Inv'
        BY <2>1, MergeInv
  <2>2. ASSUME NEW i \in DOMAIN registers, StartBatch(i) PROVE Inv'
        BY <2>2, StartInv
  <2>3. CASE BuildEnds
        BY <2>3, <2>d, QuietInv DEF BuildEnds
  <2>4. CASE CollectAllFields
        BY <2>4, <2>d, FreshInv DEF CollectAllFields
  <2>5. CASE NotConnected
    <3>1. pos \in Nat
          BY DEF Inv, TypeOK
    <3> QED
        BY <2>5, <2>d, <3>1, FreshInv DEF NotConnected
  <2>6. ASSUME NEW ok \in BOOLEAN, ReadBatch(ok) PROVE Inv'
        BY <2>6, ReadInv
  <2>7. CASE CollectEnds
    <3>1. failed \subseteq Nat
          BY DEF Inv, TypeOK
    <3> QED
        BY <2>7, <3>1, QuietInv DEF CollectEnds
  <2>8. CASE UNCHANGED vars
    <3>1. failed \subseteq Nat /\ pc \in {"build", "idle", "read"}
          BY DEF Inv, TypeOK
    <3> QED
        BY <2>8, <3>1, QuietInv DEF vars
  <2> QED
      BY <2>1, <2>2, <2>3, <2>4, <2>5, <2>6, <2>7, <2>8 DEF Next
<1> QED
    BY <1>1, InitInv, PTL DEF Spec

(* The state of DataCollector is always of its type. *)
THEOREM TypeCorrect == Spec => []TypeOK
<1>1. Inv => TypeOK
      BY DEF Inv
<1> QED
    BY <1>1, Invariant, PTL

(* The offset in a slice always leads to the register's own words. *)
THEOREM SlicesAreAligned == Spec => []SliceAligned
<1>1. Inv => SliceAligned
      BY DEF Inv, AllGood, GoodBatch, GoodSlice, SliceAligned
<1> QED
    BY <1>1, Invariant, PTL

(* No batch of several registers asks for more than a frame may carry. *)
THEOREM BatchesAreBounded == Spec => []BatchBounded
<1>1. Inv => BatchBounded
      BY DEF Inv, AllGood, GoodBatch, BatchBounded
<1> QED
    BY <1>1, Invariant, PTL

(* Registers are read with as few batches as sorting allows. *)
THEOREM BatchesAreMaximal == Spec => []NoNeedlessSplit
<1>1. Inv => NoNeedlessSplit
      BY DEF Inv
<1> QED
    BY <1>1, Invariant, PTL

(* Reading in batches gives every register what reading it alone gives. *)
THEOREM BatchingIsTransparent == Spec => []ResultsMatch
<1>1. Inv => ResultsMatch
      BY DEF Inv
<1> QED
    BY <1>1, Invariant, PTL

-----------------------------------------------------------------------------
(***************************************************************************)
(* Which registers fail with which batch.  A register is in one batch only *)
(* and in none while it is unplaced; results and failures agree as far as  *)
(* a poll has come, and the batches it has not come to count as failed.    *)
(***************************************************************************)
FieldsOf(b) == {b.slices[k].fieldIndex : k \in DOMAIN b.slices}

PlacedOnce ==
    /\ \A n \in DOMAIN batches : FieldsOf(batches[n]) \cap unplaced = {}
    /\ \A m, n \in DOMAIN batches : m # n => FieldsOf(batches[m]) \cap FieldsOf(batches[n]) = {}

Agree ==
    /\ pc = "build" => \A i \in DOMAIN registers : ~results[i].ok
    /\ pc = "read" => \A n \in DOMAIN batches : n >= pos => n \in failed
    /\ pc # "build" =>
         \A n \in DOMAIN batches : \A i \in FieldsOf(batches[n]) : results[i].ok <=> n \notin failed

ContainInv == PlacedOnce /\ Agree

LEMMA HoldsFields ==
    ASSUME NEW b, NEW i
    PROVE  Holds(b, i) <=> i \in FieldsOf(b)
  BY DEF Holds, FieldsOf, Range

LEMMA FieldsOfBatches ==
    ASSUME Inv, NEW n \in DOMAIN batches
    PROVE  n \in Nat /\ FieldsOf(batches[n]) \subseteq DOMAIN registers
<1>1. n \in Nat
      BY LenProperties DEF Inv, TypeOK
<1> QED
    BY <1>1 DEF Inv, AllGood, GoodBatch, GoodSlice, FieldsOf

LEMMA FieldsOfNew ==
    ASSUME NEW i
    PROVE  FieldsOf(NewBatch(i)) = {i}
<1> DEFINE s == [fieldIndex |-> i, offset |-> 0, length |-> registers[i].length]
<1>1. NewBatch(i).slices = <<s>> /\ s.fieldIndex = i
      BY DEF NewBatch
<1> HIDE DEF s
<1>2. DOMAIN <<s>> = {1} /\ <<s>>[1] = s
      OBVIOUS
<1> QED
    BY <1>1, <1>2 DEF FieldsOf

LEMMA FieldsOfMerged ==
    ASSUME TypeOK, NEW b \in RegisterBatch, NEW i \in DOMAIN registers
    PROVE  FieldsOf(Merged(b, i)) = FieldsOf(b) \cup {i}
<1> DEFINE s == [fieldIndex |-> i, offset |-> b.totalLength, length |-> registers[i].length]
           q == b.slices
           a == Append(q, s)
<1>1. Merged(b, i).slices = a /\ s.fieldIndex = i
      BY DEF Merged
<1>2. s \in FieldSlice /\ q \in Seq(FieldSlice)
      BY RegisterFields, BatchFields DEF FieldSlice
<1> HIDE DEF s, q
<1>3. /\ Len(q) \in Nat /\ DOMAIN q = 1 .. Len(q) /\ DOMAIN a = 1 .. Len(q) + 1
      /\ \A k \in 1 .. Len(q) : a[k] = q[k]
      /\ a[Len(q) + 1] = s
      BY <1>2, AppendProperties, LenProperties
<1> HIDE DEF a
<1>4. {a[k].fieldIndex : k \in DOMAIN a} = {q[k].fieldIndex : k \in DOMAIN q} \cup {i}
  <2>1. ASSUME NEW k \in DOMAIN a PROVE a[k].fieldIndex \in {q[j].fieldIndex : j \in DOMAIN q} \cup {i}
    <3>1. CASE k = Len(q) + 1
          BY <1>1, <1>3, <3>1
    <3>2. CASE k \in 1 .. Len(q)
          BY <1>3, <3>2
    <3> QED
        BY <1>3, <3>1, <3>2
  <2>2. ASSUME NEW k \in DOMAIN q PROVE q[k].fieldIndex \in {a[j].fieldIndex : j \in DOMAIN a}
        BY <1>3
  <2>3. i \in {a[j].fieldIndex : j \in DOMAIN a}
    <3>1. Len(q) + 1 \in DOMAIN a
          BY <1>3
    <3> QED
        BY <1>1, <1>3, <3>1
  <2> QED
      BY <2>1, <2>2, <2>3
<1> QED
    BY <1>1, <1>4 DEF FieldsOf, q

(* A register is put into a batch. *)
LEMMA PlaceContain ==
    ASSUME Inv, ContainInv, NEW i \in DOMAIN registers, MergeNext(i) \/ StartBatch(i)
    PROVE  ContainInv'
<1>1. /\ pc = "build" /\ i \in unplaced /\ unplaced' = unplaced \ {i}
      /\ UNCHANGED <<registers, pc, results>>
      BY DEF MergeNext, StartBatch, IsNext
<1>2. Agree'
      BY <1>1 DEF ContainInv, Agree
<1>3. batches \in Seq(RegisterBatch) /\ Len(batches) \in Nat /\ DOMAIN batches = 1 .. Len(batches)
      BY LenProperties DEF Inv, TypeOK
<1>4. PICK m \in Nat :
          /\ DOMAIN batches' = DOMAIN batches \cup {m}
          /\ \A n \in DOMAIN batches : n # m => batches'[n] = batches[n]
          /\ \/ m \in DOMAIN batches /\ FieldsOf(batches'[m]) = FieldsOf(batches[m]) \cup {i}
             \/ m \notin DOMAIN batches /\ FieldsOf(batches'[m]) = {i}
  <2> DEFINE m == Len(batches)
  <2>1. CASE MergeNext(i)
    <3> DEFINE c == Merged(batches[m], i)
    <3>1. batches # <<>> /\ batches' = [batches EXCEPT ![m] = c]
          BY <2>1 DEF MergeNext, Last
    <3>2. m \in DOMAIN batches /\ batches[m] \in RegisterBatch
      <4>1. m \in 1 .. m
            BY <1>3, <3>1, EmptySeq
      <4> QED
          BY <1>3, <4>1, ElementOfSeq
    <3>3. FieldsOf(c) = FieldsOf(batches[m]) \cup {i}
          BY <3>2, FieldsOfMerged DEF Inv
    <3> HIDE DEF c
    <3>4. /\ DOMAIN batches' = DOMAIN batches
          /\ \A n \in DOMAIN batches : batches'[n] = IF n = m THEN c ELSE batches[n]
          BY <3>1, <3>2
    <3> QED
        BY <1>3, <3>2, <3>3, <3>4
  <2>2. CASE StartBatch(i)
    <3> DEFINE c == NewBatch(i)
    <3>1. batches' = Append(batches, c) /\ c \in RegisterBatch
          BY <2>2, NewBatchGood DEF StartBatch, Inv
    <3>2. FieldsOf(c) = {i}
          BY FieldsOfNew
    <3> HIDE DEF c
    <3>3. /\ DOMAIN batches' = 1 .. m + 1
          /\ \A n \in 1 .. m : batches'[n] = batches[n]
          /\ batches'[m + 1] = c
          BY <1>3, <3>1, AppendProperties, LenProperties
    <3> HIDE DEF m
    <3>4. /\ m + 1 \in Nat /\ m + 1 \notin DOMAIN batches
          /\ DOMAIN batches' = DOMAIN batches \cup {m + 1}
          BY <1>3, <3>3 DEF m
    <3>5. \A n \in DOMAIN batches : n # m + 1 => batches'[n] = batches[n]
          BY <1>3, <3>3 DEF m
    <3>6. FieldsOf(batches'[m + 1]) = {i}
          BY <3>2, <3>3
    <3> QED
        BY <3>4, <3>5, <3>6
  <2> QED
      BY <2>1, <2>2
<1>5. \A n \in DOMAIN batches : i \notin FieldsOf(batches[n])
      BY <1>1 DEF ContainInv, PlacedOnce
<1>6. PlacedOnce'
  <2>1. ASSUME NEW n \in DOMAIN batches' PROVE FieldsOf(batches'[n]) \cap unplaced' = {}
    <3>1. CASE n = m
          BY <1>1, <1>4, <3>1 DEF ContainInv, PlacedOnce
    <3>2. CASE n # m
          BY <1>1, <1>4, <3>2 DEF ContainInv, PlacedOnce
    <3> QED
        BY <3>1, <3>2
  <2>2. ASSUME NEW n \in DOMAIN batches', NEW k \in DOMAIN batches', n # k
        PROVE  FieldsOf(batches'[n]) \cap FieldsOf(batches'[k]) = {}
    <3>1. CASE n = m
          BY <1>4, <1>5, <2>2, <3>1 DEF ContainInv, PlacedOnce
    <3>2. CASE k = m
          BY <1>4, <1>5, <2>2, <3>2 DEF ContainInv, PlacedOnce
    <3>3. CASE n # m /\ k # m
          BY <1>4, <2>2, <3>3 DEF ContainInv, PlacedOnce
    <3> QED
        BY <3>1, <3>2, <3>3
  <2> QED
      BY <2>1, <2>2 DEF PlacedOnce
<1> QED
    BY <1>2, <1>6 DEF ContainInv

(* No register has a value, and every batch counts as failed. *)
LEMMA FreshContain ==
    ASSUME Inv, ContainInv, UNCHANGED <<registers, batches, unplaced>>, pc' # "build",
           failed' = DOMAIN batches, \A i \in DOMAIN registers : ~results'[i].ok
    PROVE  ContainInv'
<1>1. PlacedOnce'
      BY DEF ContainInv, PlacedOnce
<1>2. ASSUME NEW n \in DOMAIN batches, NEW i \in FieldsOf(batches[n])
      PROVE  ~results'[i].ok
      BY FieldsOfBatches
<1>3. Agree'
      BY <1>2 DEF Agree
<1> QED
    BY <1>1, <1>3 DEF ContainInv

LEMMA ReadContain ==
    ASSUME Inv, ContainInv, NEW ok \in BOOLEAN, ReadBatch(ok)
    PROVE  ContainInv'
<1>1. /\ pc = "read" /\ pos \in DOMAIN batches /\ pos \in Nat
      /\ UNCHANGED <<registers, unplaced, batches, pc>> /\ pos' = pos + 1
      /\ failed' = IF ok THEN failed \ {pos} ELSE failed
      BY DEF ReadBatch, Inv, TypeOK
<1>2. PlacedOnce'
      BY <1>1 DEF ContainInv, PlacedOnce
<1>3. ASSUME NEW n \in DOMAIN batches, n >= pos' PROVE n \in failed'
  <2>1. n \in Nat
        BY FieldsOfBatches
  <2> QED
      BY <1>1, <1>3, <2>1 DEF ContainInv, Agree
<1>4. ASSUME NEW n \in DOMAIN batches, NEW i \in FieldsOf(batches[n])
      PROVE  results'[i].ok <=> n \notin failed'
  <2>1. i \in DOMAIN registers
        BY FieldsOfBatches
  <2>2. results[i].ok <=> n \notin failed
        BY <1>1 DEF ContainInv, Agree
  <2>3. CASE n # pos
    <3>1. ~Holds(batches[pos], i)
          BY <1>1, <2>3, HoldsFields DEF ContainInv, PlacedOnce
    <3>2. results'[i] = results[i]
          BY <2>1, <3>1 DEF ReadBatch
    <3>3. n \in failed' <=> n \in failed
          BY <1>1, <2>3
    <3> QED
        BY <2>2, <3>2, <3>3
  <2>4. CASE n = pos
    <3>1. Holds(batches[pos], i)
          BY <2>4, HoldsFields
    <3>2. CASE ok
      <4>1. results'[i].ok
            BY <2>1, <3>1, <3>2 DEF ReadBatch
      <4> QED
          BY <1>1, <2>4, <3>2, <4>1
    <3>3. CASE ~ok
      <4>1. results'[i] = NoResult
            BY <2>1, <3>1, <3>3 DEF ReadBatch
      <4>2. n \in failed
            BY <1>1, <2>4 DEF ContainInv, Agree
      <4> QED
          BY <1>1, <3>3, <4>1, <4>2 DEF NoResult
    <3> QED
        BY <3>2, <3>3
  <2> QED
      BY <2>3, <2>4
<1>5. Agree'
      BY <1>1, <1>3, <1>4 DEF Agree
<1> QED
    BY <1>2, <1>5 DEF ContainInv

(***************************************************************************)
(* A batch that fails takes its own registers with it and no others: after *)
(* a poll a register has a value exactly when its batch was read.          *)
(***************************************************************************)
THEOREM FailuresAreContained == Spec => []FailureContained
<1>1. Init => ContainInv
  <2> SUFFICES ASSUME Init PROVE ContainInv
      OBVIOUS
  <2>1. DOMAIN batches = {} /\ pc = "build" /\ \A i \in DOMAIN registers : ~results[i].ok
        BY EmptySeq DEF Init, NoResult
  <2> QED
      BY <2>1 DEF ContainInv, PlacedOnce, Agree
<1>2. Inv /\ ContainInv /\ [Next]_vars => ContainInv'
  <2> SUFFICES ASSUME Inv, ContainInv, [Next]_vars PROVE ContainInv'
      OBVIOUS
  <2>1. ASSUME NEW i \in DOMAIN registers, MergeNext(i) \/ StartBatch(i) PROVE ContainInv'
        BY <2>1, PlaceContain
  <2>2. CASE BuildEnds
    <3>1. \A i \in DOMAIN registers : ~results'[i].ok
          BY <2>2 DEF BuildEnds, ContainInv, Agree
    <3> QED
        BY <2>2, <3>1, FreshContain DEF BuildEnds
  <2>3. CASE CollectAllFields \/ NotConnected
    <3>1. \A i \in DOMAIN registers : ~results'[i].ok
          BY <2>3 DEF CollectAllFields, NotConnected, NoResult
    <3> QED
        BY <2>3, <3>1, FreshContain DEF CollectAllFields, NotConnected
  <2>4. ASSUME NEW ok \in BOOLEAN, ReadBatch(ok) PROVE ContainInv'
        BY <2>4, ReadContain
  <2>5. CASE CollectEnds \/ UNCHANGED vars
        BY <2>5 DEF CollectEnds, vars, ContainInv, PlacedOnce, Agree
  <2> QED
      BY <2>1, <2>2, <2>3, <2>4, <2>5 DEF Next
<1>3. ContainInv => FailureContained
  <2> SUFFICES ASSUME ContainInv, pc = "idle", NEW p \in Places
               PROVE  results[IndexAt(p)].ok <=> p[1] \notin failed
      BY DEF FailureContained
  <2>1. PICK n \in DOMAIN batches : p \in {n} \X DOMAIN batches[n].slices
        BY DEF Places
  <2>2. p[1] = n /\ p[2] \in DOMAIN batches[n].slices
        BY <2>1
  <2>3. IndexAt(p) \in FieldsOf(batches[n])
        BY <2>2 DEF IndexAt, FieldsOf
  <2> QED
      BY <2>2, <2>3 DEF ContainInv, Agree
<1> QED
    BY <1>1, <1>2, <1>3, Invariant, PTL DEF Spec
=============================================================================
