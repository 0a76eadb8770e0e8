--------------------------- MODULE RegisterTable ----------------------------
(***************************************************************************)
(* One register from the poll that reads it to the value and the quality   *)
(* the API shows: RegisterTable::updateState(), computeScaledValue() and   *)
(* computeQuality(), driven by the timing of the worker that polls the     *)
(* device (SerialWorker or TcpWorker).                                     *)
(*                                                                         *)
(* Words have WordBits bits (16 in the code) and are combined in an        *)
(* unsigned integer of AccumulatorBits bits (quint64).  Scales and limits  *)
(* are whole numbers, so that doubles are exact.  One unit of time is as   *)
(* long as TcpWorker's shortest pause in auto mode (500 ms).               *)
(***************************************************************************)
EXTENDS Integers, Sequences, FiniteSets

CONSTANTS
    WordBits,           \* bits of a word
    AccumulatorBits,    \* bits of the integer that words are combined in
    AnswerWords,        \* bound: the words a device may answer
    Setups,             \* the configurations the register and its device may have
    StartTime,          \* the clock when the program starts
    EndTime             \* the clock stops here

(* 2 to the power of n *)
Pow2[n \in Nat] == IF n = 0 THEN 1 ELSE 2 * Pow2[n - 1]

Word == 0 .. Pow2[WordBits] - 1

RegisterConfig ==
    [unifiedAddress: Int, type: {"Coil", "DiscreteInput", "HoldingRegister", "InputRegister"},
     length: Nat, isSigned: BOOLEAN, scale: Int, minValue: Int, maxValue: Int]

PollingConfig ==
    [transport: {"serial", "tcp"}, pollMode: {"Auto", "Manual"}, intervalMs: Nat]

ASSUME TableAssumption ==
    /\ WordBits \in Nat \ {0}
    /\ AccumulatorBits \in Nat \ {0}
    /\ AnswerWords \subseteq Word
    /\ Setups \subseteq [config: RegisterConfig, polling: PollingConfig]
    /\ \A s \in Setups : s.config.minValue <= s.config.maxValue
    /\ StartTime \in Nat \ {0}
    /\ EndTime \in Nat

VARIABLES
    config,     \* the register in the worker's copy of the device
    polling,    \* the device's polling settings
    states,     \* m_states: unified id -> RegisterState
    now,        \* the clock
    pc,         \* "idle" or "collect" (in collectAllFields())
    pollStart,  \* prevPollMs / prevPollStart: the last poll's start, 0 for none
    pollEnd,    \* when it ended
    effectiveInterval   \* from the poll before last's start to the last's, 0 if unknown

tableVars == <<config, polling, states, now, pc, pollStart, pollEnd, effectiveInterval>>

IsBit(c) == c.type \in {"Coil", "DiscreteInput"}

RegisterState(c) ==
    [config: {c}, raw: Seq(IF IsBit(c) THEN BOOLEAN ELSE Word), scaledValue: Int,
     outOfRange: BOOLEAN, lastUpdated: Nat, isValid: BOOLEAN, pollingIntervalMs: Nat]

TableTypeOK ==
    /\ [config |-> config, polling |-> polling] \in Setups
    /\ DOMAIN states \subseteq Nat
    /\ \A id \in DOMAIN states : states[id] \in RegisterState(config)
    /\ now \in Nat
    /\ pc \in {"idle", "collect"}
    /\ pollStart \in Nat
    /\ pollEnd \in Nat
    /\ effectiveInterval \in Nat

NoStates == [id \in {} |-> {}]

(* The first start(): an empty table and a worker that has not polled yet. *)
TableInit ==
    /\ \E s \in Setups : config = s.config /\ polling = s.polling
    /\ states = NoStates
    /\ now = StartTime
    /\ pc = "idle"
    /\ pollStart = 0
    /\ pollEnd = 0
    /\ effectiveInterval = 0
-----------------------------------------------------------------------------
(***************************************************************************)
(* computeScaledValue().  With more words than the accumulator holds the   *)
(* leading ones are shifted out, and the shift that gives the sign bit is  *)
(* undefined: the processor takes the count modulo the width, a compiler   *)
(* that sees the count may leave nothing of the bit.                       *)
(***************************************************************************)
Width == Pow2[AccumulatorBits]

Combined(words) ==
    LET combined[k \in 0 .. Len(words)] ==
            IF k = 0 THEN 0 ELSE (combined[k - 1] * Pow2[WordBits] + words[k]) % Width
    IN  combined[Len(words)]

(* qint64(x) and qint16(x) *)
AsSigned(x, bits) == IF x >= Pow2[bits - 1] THEN x - Pow2[bits] ELSE x

SignBits(bits) ==
    IF bits <= AccumulatorBits
    THEN {Pow2[bits - 1]}
    ELSE {0, Pow2[(bits - 1) % AccumulatorBits]}

(* Variant: the sign is not carried into the upper words. *)
NoExtension(x, signBit) == x

(* combined |= ~((signBit << 1) - 1), if the bit is set *)
Extend(x, signBit) ==
    LET ones == (2 * signBit - 1) % Width
    IN  IF signBit # 0 /\ (x \div signBit) % 2 = 1
        THEN (Width - 1 - ones) + (x % (ones + 1))
        ELSE x

SignedValues(words) ==
    IF Len(words) = 1
    THEN {AsSigned(words[1], WordBits)}
    ELSE {AsSigned(Extend(Combined(words), b), AccumulatorBits) :
              b \in SignBits(Len(words) * WordBits)}

computeScaledValue(c, raw) ==
    IF raw = <<>>       THEN {0}
    ELSE IF IsBit(c)    THEN {Cardinality({k \in DOMAIN raw : raw[k]}) * c.scale}
    ELSE IF c.isSigned  THEN {v * c.scale : v \in SignedValues(raw)}
    ELSE {Combined(raw) * c.scale}

clampValue(v, min, max) == IF v < min THEN min ELSE IF v > max THEN max ELSE v

(* m_states.value(id): an unknown id has the default state. *)
StateOf(id, c) ==
    IF id \in DOMAIN states THEN states[id]
    ELSE [config |-> c, raw |-> <<>>, scaledValue |-> 0, outOfRange |-> FALSE,
          lastUpdated |-> 0, isValid |-> TRUE, pollingIntervalMs |-> 2]

Put(id, entry) == [k \in DOMAIN states \cup {id} |-> IF k = id THEN entry ELSE states[k]]

(* The entry of id once a poll has read the register or failed to. *)
Store(id, raw, success, interval) ==
    LET entry == [StateOf(id, config) EXCEPT !.config = config, !.isValid = success,
                                             !.pollingIntervalMs = interval]
    IN  \/ /\ ~success
           /\ states' = Put(id, entry)
        \/ /\ success
           /\ \E v \in computeScaledValue(config, raw) :
                 states' = Put(id, [entry EXCEPT
                     !.lastUpdated = now,
                     !.raw         = raw,
                     !.outOfRange  = \/ entry.scaledValue < config.minValue
                                     \/ entry.scaledValue > config.maxValue,
                     !.scaledValue = clampValue(v, config.minValue, config.maxValue)])

updateState(raw, success, interval) ==
    \/ config.unifiedAddress < 0 /\ UNCHANGED states
    \/ config.unifiedAddress >= 0 /\ Store(config.unifiedAddress, raw, success, interval)
-----------------------------------------------------------------------------
Good   == 2
Normal == 1
Bad    == 0

computeQuality(s, t) ==
    LET elapsed == t - s.lastUpdated
    IN  IF s.lastUpdated = 0 \/ s.pollingIntervalMs = 0     THEN Bad
        ELSE IF elapsed < (s.pollingIntervalMs * 3) \div 2  THEN Good
        ELSE IF elapsed < s.pollingIntervalMs * 3           THEN Normal
        ELSE Bad
-----------------------------------------------------------------------------
(***************************************************************************)
(* The worker.  SerialWorker polls a device in auto mode on every round    *)
(* and in manual mode when intervalMs has passed since the last poll       *)
(* began; TcpWorker pauses for 1.3 times the last poll's duration, at      *)
(* least one unit, or for intervalMs, after the poll has ended.            *)
(***************************************************************************)
Pause ==
    LET scaled == ((pollEnd - pollStart) * 13) \div 10
    IN  IF scaled < 1 THEN 1 ELSE scaled

Due ==
    \/ pollStart = 0
    \/ polling.transport = "serial" /\ polling.pollMode = "Auto"
    \/ /\ polling.transport = "serial" /\ polling.pollMode = "Manual"
       /\ now - pollStart >= polling.intervalMs
    \/ /\ polling.transport = "tcp" /\ polling.pollMode = "Auto"
       /\ now - pollEnd >= Pause
    \/ /\ polling.transport = "tcp" /\ polling.pollMode = "Manual"
       /\ now - pollEnd >= polling.intervalMs

PollBegins ==
    /\ pc = "idle"
    /\ Due
    /\ pc' = "collect"
    /\ effectiveInterval' = IF pollStart > 0 THEN now - pollStart ELSE 0
    /\ pollStart' = now
    /\ UNCHANGED <<config, polling, states, now, pollEnd>>

(* Variant: what was measured is used in both modes. *)
MeasuredInterval == IF effectiveInterval > 0 THEN effectiveInterval ELSE polling.intervalMs

intervalForQuality ==
    IF polling.pollMode = "Auto" /\ effectiveInterval > 0
    THEN effectiveInterval
    ELSE polling.intervalMs

Reading == [1 .. config.length -> IF IsBit(config) THEN BOOLEAN ELSE AnswerWords]

ReadOk ==
    /\ pc = "collect"
    /\ \E raw \in Reading : updateState(raw, TRUE, intervalForQuality)
    /\ pc' = "idle"
    /\ pollEnd' = now
    /\ UNCHANGED <<config, polling, now, pollStart, effectiveInterval>>

ReadFails ==
    /\ pc = "collect"
    /\ updateState(<<>>, FALSE, intervalForQuality)
    /\ pc' = "idle"
    /\ pollEnd' = now
    /\ UNCHANGED <<config, polling, now, pollStart, effectiveInterval>>

(***************************************************************************)
(* stop(), an edit of the configuration and start(), which clears the      *)
(* table and makes a new worker.  A poll that stop() catches publishes     *)
(* nothing more.                                                           *)
(***************************************************************************)
Restart(s) ==
    /\ config' = s.config
    /\ polling' = s.polling
    /\ states' = NoStates
    /\ pc' = "idle"
    /\ pollStart' = 0
    /\ pollEnd' = 0
    /\ effectiveInterval' = 0
    /\ UNCHANGED now

(* Time passes between polls and while a device is slow to answer. *)
Tick ==
    /\ now < EndTime
    /\ now' = now + 1
    /\ UNCHANGED <<config, polling, states, pc, pollStart, pollEnd, effectiveInterval>>

TableNext ==
    \/ PollBegins
    \/ ReadOk
    \/ ReadFails
    \/ \E s \in Setups : Restart(s)
    \/ Tick

TableSpec == TableInit /\ [][TableNext]_tableVars
-----------------------------------------------------------------------------
(* The value of a reading, by place value and two's complement. *)
Unsigned(words) ==
    LET place(k) == words[k] * Pow2[WordBits * (Len(words) - k)]
        sum[k \in 0 .. Len(words)] == IF k = 0 THEN 0 ELSE sum[k - 1] + place(k)
    IN  sum[Len(words)]

Ones(bits) ==
    LET sum[k \in 0 .. Len(bits)] ==
            IF k = 0 THEN 0 ELSE sum[k - 1] + (IF bits[k] THEN 1 ELSE 0)
    IN  sum[Len(bits)]

Value(c, raw) ==
    c.scale * IF IsBit(c) THEN Ones(raw)
              ELSE IF raw # <<>> /\ c.isSigned /\ raw[1] >= Pow2[WordBits - 1]
              THEN Unsigned(raw) - Pow2[WordBits * Len(raw)]
              ELSE Unsigned(raw)

Nearest(v, min, max) ==
    CHOOSE n \in {v, min, max} :
        /\ min <= n /\ n <= max
        /\ v \in min .. max => n = v
        /\ v < min => n = min
        /\ v > max => n = max

(***************************************************************************)
(* What the table shows is the last reading under the configuration the    *)
(* entry carries: its numerical value, scaled and brought into the         *)
(* register's range, also after failures and restarts.  Readings longer    *)
(* than the accumulator are outside (their value is not defined).          *)
(***************************************************************************)
Fits(e) == IsBit(e.config) \/ Len(e.raw) * WordBits <= AccumulatorBits

ValueIsReading ==
    \A id \in DOMAIN states :
        LET e == states[id]
        IN  e.lastUpdated # 0 /\ Fits(e) =>
                e.scaledValue = Nearest(Value(e.config, e.raw),
                                        e.config.minValue, e.config.maxValue)

(* The quality of a register is better after a step without a new reading. *)
ImprovedWithoutReading ==
    \E id \in DOMAIN states \cap DOMAIN states' :
        /\ computeQuality(states'[id], now') > computeQuality(states[id], now)
        /\ ~(states'[id].isValid /\ states'[id].lastUpdated = now')

(***************************************************************************)
(* In manual mode a register whose reads fail never looks better again     *)
(* before it has been read.                                                *)
(***************************************************************************)
QualityNeedsReading ==
    [][polling.pollMode = "Manual" => ~ImprovedWithoutReading]_tableVars
=============================================================================
