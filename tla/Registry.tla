------------------------------ MODULE Registry ------------------------------
(***************************************************************************)
(* Devices, registers and HMI tags in the database, the copy of the first  *)
(* two in DeviceList, and backup, restore and factory reset, which change  *)
(* the database only.                                                      *)
(*                                                                         *)
(* Handlers run one after the other on the main thread.  All but those of  *)
(* tags are refused while polling runs: polling is stopped here.  A        *)
(* request that is refused changes nothing and is left out; one that fails *)
(* after it has changed rows is not.  Of a device only its poll mode is    *)
(* kept, of a register its unified address and the point it reads          *)
(* (everything else it is configured with).                                *)
(***************************************************************************)
EXTENDS Integers, FiniteSets, FiniteSetsExt

CONSTANTS
    Point,               \* configurations of a register
    Tag,                 \* ids of HMI tags
    kManualUnifiedIdMin, \* addresses below it are assigned automatically
    MaxUnified,          \* bound: the largest address considered
    MaxDeviceId,         \* bounds: AUTOINCREMENT never reuses an id, so they
    MaxRegisterId,       \* bound insertions and restores
    MaxRequests          \* bound: requests that change a row

ASSUME RegistryAssumption ==
    /\ kManualUnifiedIdMin \in Nat /\ kManualUnifiedIdMin > 0
    /\ MaxUnified \in Nat /\ MaxUnified >= kManualUnifiedIdMin - 1
    /\ MaxDeviceId \in Nat /\ MaxRegisterId \in Nat /\ MaxRequests \in Nat

PollMode   == {"auto", "manual"}
NoAddr     == -1
Manual     == kManualUnifiedIdMin .. MaxUnified
DeviceId   == 1 .. MaxDeviceId
RegisterId == 1 .. MaxRegisterId

RegisterConfig == [deviceId: DeviceId, unifiedAddress: {NoAddr} \cup (1 .. MaxUnified),
                   point: Point]

VARIABLES
    devices,         \* table devices: id -> poll mode
    registers,       \* table registers: id -> RegisterConfig
    hmi_tags,        \* table hmi_tags: tag -> id of its register
    lastDevice,      \* sqlite_sequence: the largest ids used so far
    lastRegister,
    list,            \* DeviceList::m_devices: id -> poll mode, registers
    up,              \* the process runs
    restartRequired, \* a restore or factory reset has said so
    unsynced,        \* history: an error was answered after rows had been
                     \* changed, and the whole list not loaded again since
    requests,        \* requests that changed a row so far
    backup,          \* the newest backup file
    staged           \* RestoreManager keeps the backup file for apply

tables       == <<devices, registers, hmi_tags, lastDevice, lastRegister>>
registryVars == <<tables, list, up, restartRequired, unsynced, requests, backup, staged>>

Empty == [x \in {} |-> x]
Plus(f, x, v)  == [y \in DOMAIN f \cup {x} |-> IF y = x THEN v ELSE f[y]]
Without(f, S)  == [y \in DOMAIN f \ S |-> f[y]]

(* loadRegisters(), loadDevices() *)
loadRegisters(regs, d) ==
    LET mine == {r \in DOMAIN regs : regs[r].deviceId = d}
    IN  [r \in mine |-> [unifiedAddress |-> regs[r].unifiedAddress, point |-> regs[r].point]]

loadDevices(devs, regs) ==
    [d \in DOMAIN devs |-> [pollMode |-> devs[d], registers |-> loadRegisters(regs, d)]]

(* findByRegisterId() looks in the list, not in the database. *)
Listed == UNION {DOMAIN list[d].registers : d \in DOMAIN list}
DeviceOf(r) == CHOOSE d \in DOMAIN list : r \in DOMAIN list[d].registers

RegistryTypeOK ==
    /\ devices \in [DOMAIN devices -> PollMode] /\ DOMAIN devices \subseteq 1 .. lastDevice
    /\ registers \in [DOMAIN registers -> RegisterConfig]
    /\ DOMAIN registers \subseteq 1 .. lastRegister
    /\ \A r \in DOMAIN registers : registers[r].deviceId \in DOMAIN devices
    /\ DOMAIN hmi_tags \subseteq Tag
    /\ hmi_tags \in [DOMAIN hmi_tags -> DOMAIN registers]
    /\ lastDevice \in 0 .. MaxDeviceId /\ lastRegister \in 0 .. MaxRegisterId
    /\ up \in BOOLEAN /\ restartRequired \in BOOLEAN /\ unsynced \in BOOLEAN
    /\ staged \in BOOLEAN
    /\ requests \in 0 .. MaxRequests

NoBackup == [devices |-> {}, registers |-> Empty, tags |-> Empty]

RegistryInit ==
    /\ devices = Empty /\ registers = Empty /\ hmi_tags = Empty
    /\ lastDevice = 0 /\ lastRegister = 0
    /\ list = Empty
    /\ up = TRUE
    /\ restartRequired = FALSE
    /\ unsynced = FALSE
    /\ requests = 0
    /\ backup = NoBackup
    /\ staged = FALSE
-----------------------------------------------------------------------------
Handler ==
    /\ up
    /\ requests < MaxRequests
    /\ requests' = requests + 1
    /\ UNCHANGED <<restartRequired, backup, staged>>

(* Rows deleted by ON DELETE CASCADE. *)
CascadeRegisters(regs) ==
    /\ registers' = regs
    /\ hmi_tags' = [t \in {u \in DOMAIN hmi_tags : hmi_tags[u] \in DOMAIN regs} |-> hmi_tags[t]]

(***************************************************************************)
(* A handler changes the rows and then loads from them.  When the SELECT   *)
(* fails (~loaded), it answers with an error and the list stays as it was. *)
(***************************************************************************)
Synced(loaded) == unsynced' = (unsynced \/ ~loaded)

(* syncAddDevice(): the whole list is loaded again. *)
PostDevice(mode, loaded) ==
    /\ Handler
    /\ lastDevice < MaxDeviceId
    /\ lastDevice' = lastDevice + 1
    /\ devices' = Plus(devices, lastDevice + 1, mode)
    /\ list' = IF loaded THEN loadDevices(devices', registers) ELSE list
    /\ unsynced' = ~loaded
    /\ UNCHANGED <<registers, hmi_tags, lastRegister, up>>

(* syncUpdateDevice(): an UPDATE of no row is no error. *)
PutDevice(d, mode) ==
    /\ Handler
    /\ d \in DOMAIN list
    /\ devices' = IF d \in DOMAIN devices THEN [devices EXCEPT ![d] = mode] ELSE devices
    /\ list' = [list EXCEPT ![d].pollMode = mode]
    /\ UNCHANGED <<registers, hmi_tags, lastDevice, lastRegister, up, unsynced>>

(* Variant: only the row is deleted. *)
DeleteRowOnly(d) ==
    /\ Handler
    /\ d \in DOMAIN devices
    /\ devices' = Without(devices, {d})
    /\ CascadeRegisters([r \in {q \in DOMAIN registers : registers[q].deviceId # d} |-> registers[r]])
    /\ UNCHANGED <<list, lastDevice, lastRegister, up, unsynced>>

(* syncDeleteDevice(): remove() of a device that is not in the list throws *)
(* after the row is gone, and nothing catches it: the process ends.        *)
DeleteDevice(d) ==
    /\ Handler
    /\ devices' = Without(devices, {d})
    /\ CascadeRegisters([r \in {q \in DOMAIN registers : registers[q].deviceId # d} |-> registers[r]])
    /\ up' = (d \in DOMAIN list)
    /\ list' = Without(list, {d})
    /\ UNCHANGED <<lastDevice, lastRegister, unsynced>>
-----------------------------------------------------------------------------
(* MAX + 1 over the addresses of the automatic range *)
Used == {registers[r].unifiedAddress : r \in DOMAIN registers} \ {NoAddr}
NextUnified == Max({0} \cup {a \in Used : a < kManualUnifiedIdMin}) + 1

Exhausted == NextUnified >= kManualUnifiedIdMin

(* The registers of a device in the list are loaded again after a change. *)
Reloaded(d, loaded) ==
    IF loaded THEN [list EXCEPT ![d].registers = loadRegisters(registers', d)] ELSE list

(***************************************************************************)
(* syncAddRegister(): addr is NoAddr when the request gives none.  The     *)
(* foreign key wants the device, the unique index a free address.  The     *)
(* list is asked for the device last: one that is not in it ends the       *)
(* process.                                                                *)
(***************************************************************************)
CanInsert(d, addr) ==
    /\ Handler
    /\ d \in DOMAIN devices
    /\ addr \notin Used
    /\ lastRegister < MaxRegisterId
    /\ lastRegister' = lastRegister + 1

Inserted(d, addr, p) ==
    Plus(registers, lastRegister + 1, [deviceId |-> d, unifiedAddress |-> addr, point |-> p])

PostRegister(d, addr, p, loaded) ==
    /\ CanInsert(d, addr)
    /\ addr = NoAddr => ~Exhausted
    /\ registers' = Inserted(d, IF addr = NoAddr THEN NextUnified ELSE addr, p)
    /\ up' = (~loaded \/ d \in DOMAIN list)
    /\ list' = IF d \in DOMAIN list THEN Reloaded(d, loaded) ELSE list
    /\ Synced(loaded)
    /\ UNCHANGED <<devices, hmi_tags, lastDevice>>

(* insertRegister() has no transaction: when the range is exhausted or a   *)
(* later statement fails, the error is reported and the row stays, without *)
(* an address and not in the list.                                         *)
PostRegisterFails(d, p) ==
    /\ CanInsert(d, NoAddr)
    /\ registers' = Inserted(d, NoAddr, p)
    /\ UNCHANGED <<devices, hmi_tags, lastDevice, list, up, unsynced>>

(***************************************************************************)
(* syncUpdateRegister(): the register is found in the list and updated in  *)
(* the database.  addr is the old address (the list's) when the request    *)
(* gives none; a negative one means a new automatic one.                   *)
(***************************************************************************)
PutRegister(r, addr, p, loaded) ==
    /\ Handler
    /\ r \in Listed
    /\ LET old == list[DeviceOf(r)].registers[r].unifiedAddress
           new == IF addr = NoAddr THEN NextUnified ELSE addr
       IN  /\ addr \in {NoAddr, old} \cup Manual
           /\ addr = NoAddr => ~Exhausted
           /\ r \in DOMAIN registers /\ new \in Used => registers[r].unifiedAddress = new
           /\ registers' =
                IF r \in DOMAIN registers
                THEN [registers EXCEPT ![r].unifiedAddress = new, ![r].point = p] ELSE registers
    /\ list' = Reloaded(DeviceOf(r), loaded)
    /\ Synced(loaded)
    /\ UNCHANGED <<devices, hmi_tags, lastDevice, lastRegister, up>>

DeleteRegister(r, loaded) ==
    /\ Handler
    /\ r \in Listed
    /\ CascadeRegisters(Without(registers, {r}))
    /\ list' = Reloaded(DeviceOf(r), loaded)
    /\ Synced(loaded)
    /\ UNCHANGED <<devices, lastDevice, lastRegister, up>>

(* The register of a tag is looked up in the list; the foreign key wants   *)
(* it in the database as well.                                             *)
LinkTag(t, r) ==
    /\ Handler
    /\ r \in Listed
    /\ r \in DOMAIN registers
    /\ hmi_tags' = Plus(hmi_tags, t, r)
    /\ UNCHANGED <<devices, registers, lastDevice, lastRegister, list, up, unsynced>>

PostHmiTag(t, r) == t \notin DOMAIN hmi_tags /\ LinkTag(t, r)

PutHmiTag(t, r) == t \in DOMAIN hmi_tags /\ LinkTag(t, r)

DeleteHmiTag(t) ==
    /\ Handler
    /\ t \in DOMAIN hmi_tags
    /\ hmi_tags' = Without(hmi_tags, {t})
    /\ UNCHANGED <<devices, registers, lastDevice, lastRegister, list, up, unsynced>>
-----------------------------------------------------------------------------
(***************************************************************************)
(* A backup file: devices.json without poll modes, registers.json, and the *)
(* tags of hmi.json by unified address instead of register id.  Positions  *)
(* in the array of registers are numbered by the register ids of the time. *)
(***************************************************************************)
AddressOf(t) == registers[hmi_tags[t]].unifiedAddress

buildDevices   == DOMAIN devices
buildRegisters == registers
buildHmi       == [t \in DOMAIN hmi_tags |-> AddressOf(t)]

BackupFile == [devices |-> buildDevices, registers |-> buildRegisters, tags |-> buildHmi]

(* Bound: one backup of a configuration that is not empty. *)
GetBackup ==
    /\ up
    /\ ~staged
    /\ backup = NoBackup
    /\ backup' = BackupFile
    /\ UNCHANGED <<tables, list, up, restartRequired, unsynced, requests, staged>>

(* validate() drops what was staged before and, if the file passes, keeps it. *)
RestoreValidate(valid) ==
    /\ up
    /\ staged' = valid
    /\ UNCHANGED <<tables, list, up, restartRequired, unsynced, requests, backup>>

(* The id a row of the file gets: AUTOINCREMENT in the order of insertion. *)
NewId(last, S, x) == last + Cardinality({y \in S : y <= x})

Restored(f, last, g(_)) ==
    [n \in {NewId(last, DOMAIN f, x) : x \in DOMAIN f} |->
        g(f[CHOOSE x \in DOMAIN f : NewId(last, DOMAIN f, x) = n])]

(* Variant: registers are attached to the device inserted last. *)
NewRegistersOnLast(regs) ==
    Restored(regs, lastRegister,
             LAMBDA c : [c EXCEPT !.deviceId = lastDevice + Cardinality(backup.devices)])

NewRegisters(regs) ==
    Restored(regs, lastRegister,
             LAMBDA c : [c EXCEPT !.deviceId = NewId(lastDevice, backup.devices, @)])

(* Variant: tags are linked to a register whatever its address. *)
LinkedById(tags, regs) ==
    LET id(t) == CHOOSE r \in DOMAIN regs : \A q \in DOMAIN regs : r <= q
    IN  [t \in {u \in DOMAIN tags : DOMAIN regs # {}} |-> id(t)]

(* Tags by address, linked to the registers there are now; the others,     *)
(* those of registers without an address included, are dropped.            *)
Linked(tags, regs) ==
    LET At(t) == {r \in DOMAIN regs : regs[r].unifiedAddress = tags[t]}
    IN  [t \in {u \in DOMAIN tags : tags[u] >= 0 /\ At(u) # {}} |-> CHOOSE r \in At(t) : TRUE]

(***************************************************************************)
(* restoreData() for options devices, registers (an empty array without    *)
(* the option) and hmi, with the tags hmi.json has.  It is one             *)
(* transaction: it may fail and change nothing.                            *)
(***************************************************************************)
RestoreDataRows(withDevices, withRegisters, withHmi, tags) ==
    LET file == IF withRegisters THEN backup.registers ELSE Empty
        kept == [t \in DOMAIN hmi_tags |-> AddressOf(t)]
    IN  /\ IF withDevices
           THEN /\ lastDevice + Cardinality(backup.devices) <= MaxDeviceId
                /\ lastRegister + Cardinality(DOMAIN file) <= MaxRegisterId
                /\ devices' = [n \in {NewId(lastDevice, backup.devices, d) : d \in backup.devices}
                                 |-> "auto"]
                /\ registers' = NewRegisters(file)
                /\ lastDevice' = lastDevice + Cardinality(backup.devices)
                /\ lastRegister' = lastRegister + Cardinality(DOMAIN file)
           ELSE UNCHANGED <<devices, registers, lastDevice, lastRegister>>
        /\ hmi_tags' = IF withHmi THEN Linked(tags, registers')
                       ELSE IF withDevices THEN Linked(kept, registers') ELSE hmi_tags

(* apply() removes the staged files; if it cannot, that is as if the file *)
(* had been uploaded again.                                               *)
RestoreDone ==
    /\ restartRequired' = TRUE
    /\ staged' = FALSE
    /\ UNCHANGED <<list, up, unsynced, requests, backup>>

(* Without option devices, option registers has no effect. *)
RestoreApply(withDevices, withRegisters, withHmi) ==
    /\ up
    /\ staged
    /\ withRegisters => withDevices
    /\ RestoreDone
    /\ RestoreDataRows(withDevices, withRegisters, withHmi, backup.tags)

(***************************************************************************)
(* apply() takes a staged file that is missing or cut off for an empty     *)
(* one.  Without registers.json it does what it does without the option;   *)
(* without devices.json no register has a device it could belong to;       *)
(* without hmi.json no tag is left.                                        *)
(***************************************************************************)
RestoreWithoutDevices ==
    /\ up
    /\ staged
    /\ RestoreDone
    /\ devices' = Empty /\ registers' = Empty /\ hmi_tags' = Empty
    /\ UNCHANGED <<lastDevice, lastRegister>>

RestoreWithoutTags(withDevices, withRegisters) ==
    /\ up
    /\ staged
    /\ withRegisters => withDevices
    /\ RestoreDone
    /\ RestoreDataRows(withDevices, withRegisters, TRUE, Empty)

RestoreFails ==
    /\ up
    /\ staged
    /\ staged' = FALSE
    /\ UNCHANGED <<tables, list, up, restartRequired, unsynced, requests, backup>>

(***************************************************************************)
(* The database is emptied, then the settings are reset.  When that fails, *)
(* the request is answered with an error that does not ask for a restart.  *)
(***************************************************************************)
FactoryResetRows(settingsReset) ==
    /\ up
    /\ devices' = Empty /\ registers' = Empty /\ hmi_tags' = Empty
    /\ restartRequired' = (restartRequired \/ settingsReset)
    /\ Synced(settingsReset)
    /\ UNCHANGED <<lastDevice, lastRegister, list, up, requests, backup, staged>>

(* The process ends, by request or not, and is started again. *)
ProcessRestart ==
    /\ list' = loadDevices(devices, registers)
    /\ up' = TRUE
    /\ restartRequired' = FALSE
    /\ unsynced' = FALSE
    /\ UNCHANGED <<tables, requests, backup, staged>>

RegistryNext ==
    \/ \E mode \in PollMode :
          \/ \E loaded \in BOOLEAN : PostDevice(mode, loaded)
          \/ \E d \in DeviceId : PutDevice(d, mode)
    \/ \E d \in DeviceId :
          \/ DeleteDevice(d)
          \/ \E p \in Point :
                \/ PostRegisterFails(d, p)
                \/ \E addr \in {NoAddr} \cup Manual, loaded \in BOOLEAN :
                      PostRegister(d, addr, p, loaded)
    \/ \E r \in RegisterId :
          \/ \E loaded \in BOOLEAN :
                \/ \E addr \in {NoAddr} \cup (1 .. MaxUnified), p \in Point :
                      PutRegister(r, addr, p, loaded)
                \/ DeleteRegister(r, loaded)
          \/ \E t \in Tag : PostHmiTag(t, r) \/ PutHmiTag(t, r)
    \/ \E t \in Tag : DeleteHmiTag(t)
    \/ GetBackup
    \/ \E valid \in BOOLEAN : RestoreValidate(valid)
    \/ \E withDevices, withRegisters, withHmi \in BOOLEAN :
          RestoreApply(withDevices, withRegisters, withHmi)
    \/ RestoreWithoutDevices
    \/ \E withDevices, withRegisters \in BOOLEAN : RestoreWithoutTags(withDevices, withRegisters)
    \/ RestoreFails
    \/ \E settingsReset \in BOOLEAN : FactoryResetRows(settingsReset)
    \/ ProcessRestart

RegistrySpec == RegistryInit /\ [][RegistryNext]_registryVars
-----------------------------------------------------------------------------
(***************************************************************************)
(* The list the workers, the Modbus server and the API work with is the    *)
(* database's contents, except after a restore or factory reset until the  *)
(* restart it asks for, and for rows that insertRegister() reported as     *)
(* failed, which have no address.  It is so as long as no request was      *)
(* answered with an error after it had changed the rows (a SELECT that     *)
(* fails, settings that cannot be reset): the list is then out of date     *)
(* until a device is added or the program restarted.                       *)
(***************************************************************************)
ListMatchesDb ==
    up /\ ~restartRequired /\ ~unsynced =>
        /\ DOMAIN list = DOMAIN devices
        /\ \A d \in DOMAIN devices :
              LET mine == loadRegisters(registers, d) IN
              /\ list[d].pollMode = devices[d]
              /\ \A r \in DOMAIN mine :
                    IF r \in DOMAIN list[d].registers THEN list[d].registers[r] = mine[r]
                    ELSE mine[r].unifiedAddress = NoAddr
              /\ DOMAIN list[d].registers \subseteq DOMAIN mine

(***************************************************************************)
(* Restoring everything from a backup of the present configuration gives   *)
(* the same devices, registers and tags under new ids, but for what a      *)
(* backup does not carry: poll modes, and tags of registers without an     *)
(* address.  That is so if the staged files are still what validate()      *)
(* verified; apply() does not look.                                        *)
(***************************************************************************)
Bijections(S, T) == {f \in [S -> T] : \A x, y \in S : f[x] = f[y] => x = y}

Reproduced ==
    \E f \in Bijections(DOMAIN devices, DOMAIN devices'),
       g \in Bijections(DOMAIN registers, DOMAIN registers') :
        /\ Cardinality(DOMAIN devices') = Cardinality(DOMAIN devices)
        /\ Cardinality(DOMAIN registers') = Cardinality(DOMAIN registers)
        /\ \A r \in DOMAIN registers :
              registers'[g[r]] = [registers[r] EXCEPT !.deviceId = f[@]]
        /\ DOMAIN hmi_tags' = {t \in DOMAIN hmi_tags : AddressOf(t) # NoAddr}
        /\ \A t \in DOMAIN hmi_tags' : hmi_tags'[t] = g[hmi_tags[t]]

RestoreReproduces ==
    [][RestoreApply(TRUE, TRUE, TRUE) /\ backup = BackupFile => Reproduced]_registryVars

(***************************************************************************)
(* Whatever is restored, a tag that is kept shows the same unified address *)
(* as before (or as in the backup, if tags are restored), and a tag is     *)
(* lost only if no register has its address any more (or a staged file is  *)
(* lost: what is then restored from it is nothing).                        *)
(***************************************************************************)
TagsFollowAddresses ==
    [][\A withDevices, withRegisters, withHmi \in BOOLEAN :
          RestoreApply(withDevices, withRegisters, withHmi) =>
             LET before == IF withHmi THEN backup.tags
                           ELSE [t \in DOMAIN hmi_tags |-> AddressOf(t)]
             IN  \A t \in DOMAIN before :
                    IF t \in DOMAIN hmi_tags'
                    THEN registers'[hmi_tags'[t]].unifiedAddress = before[t]
                    ELSE before[t] = NoAddr
                         \/ \A r \in DOMAIN registers' : registers'[r].unifiedAddress # before[t]]_registryVars
=============================================================================
