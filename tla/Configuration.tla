---------------------------- MODULE Configuration ----------------------------
(***************************************************************************)
(* The configuration file, the copy of it the process made when it started *)
(* (SystemConfig), and what writes the one or reads the other: the PUT     *)
(* handlers, config reset, factory reset, restore, start and crash.        *)
(*                                                                         *)
(* A section's contents are one value; of the network section it matters   *)
(* whether it has the two interfaces that main() reads.  The name of the   *)
(* serial device, which no request can set, is left out.  Handlers run one *)
(* after the other, so each is one step, but the process may end inside    *)
(* one: the outcomes of a save say where.                                  *)
(***************************************************************************)
EXTENDS Naturals, FiniteSets

CONSTANTS
    Value,      \* contents of a section
    Default,    \* the contents it is delivered with
    Changing,   \* bound: the sections with more than one contents
    Missing,    \* there is no file
    Torn,       \* the file was truncated and not written in full
    NoConfig,   \* a backup without config.json
    MaxSaves    \* bound: saves attempted by requests

Section == {"network", "serial", "system", "language", "modbus_server",
            "login_security", "trend", "hmi"}

NoInterfaces == "no interfaces"
OneInterface == "one interface"
Contents(s)  == (IF s \in Changing THEN Value ELSE {Default})
                    \cup (IF s = "network" THEN {NoInterfaces, OneInterface} ELSE {})
AppConfig    == {c \in [Section -> Value \cup {NoInterfaces, OneInterface}] :
                    \A s \in Section : c[s] \in Contents(s)}

(***************************************************************************)
(* config.json of a backup that is uploaded: made by this device or by     *)
(* another (another hostname is only a warning), with any of the sections  *)
(* buildConfig() writes, and any number of interfaces.                     *)
(***************************************************************************)
InBackup == {"network", "serial", "system", "modbus_server", "login_security"}

(* Bound: a section that is missing is one of those that change. *)
Upload ==
    {NoConfig} \cup
    UNION {{f \in [S -> Value \cup {NoInterfaces, OneInterface}] :
               \A s \in S : f[s] \in Contents(s)} :
           S \in {T \in SUBSET InBackup : InBackup \ Changing \subseteq T}}

(* No contents in Value is a network section with less than two            *)
(* interfaces, and a file that cannot be read holds no configuration.      *)
ASSUME ConfigurationAssumption ==
    /\ Default \in Value
    /\ Value \cap {NoInterfaces, OneInterface} = {}
    /\ Changing \subseteq Section \ {"hmi"}
    /\ Missing # Torn
    /\ {Missing, Torn} \cap AppConfig = {}
    /\ \A S \in SUBSET InBackup :
          NoConfig \notin [S -> Value \cup {NoInterfaces, OneInterface}]
    /\ MaxSaves \in Nat

VARIABLES
    file,        \* SR_CONFIG_FILE
    snapshot,    \* SystemConfig::config()
    up,          \* the process runs
    staged,      \* the directory a backup is kept in for apply(): all its
                 \* files, a part of them, or "none" (no directory)
    upload,      \* config.json of the backup that was put there
    saves,       \* saves attempted by requests so far
    acked,       \* history: the contents last reported as saved, or loaded
    restored,    \* history: a restore has saved the file since the start
    misreported, \* history: sections a restore has reported and not saved
    cut,         \* history: a save was cut off, or failed at the start
    short        \* history: a request or a backup that was restored had a
                 \* network section with less than two interfaces

vars == <<file, snapshot, up, staged, upload, saves, acked, restored,
          misreported, cut, short>>

factoryDefaultConfig == [s \in Section |-> Default]
emptyConfig          == [factoryDefaultConfig EXCEPT !["network"] = NoInterfaces]

TypeOK ==
    /\ file \in {Missing, Torn} \/ file \in AppConfig
    /\ snapshot \in AppConfig /\ acked \in AppConfig
    /\ staged \in {"none", "part", "whole"} /\ upload \in Upload
    /\ saves \in 0 .. MaxSaves
    /\ misreported \subseteq Section
    /\ {up, restored, cut, short} \subseteq BOOLEAN

(* A new installation that has not been started. *)
Init ==
    /\ file = Missing
    /\ snapshot = emptyConfig /\ acked = emptyConfig
    /\ up = FALSE
    /\ staged = "none" /\ upload = NoConfig
    /\ saves = 0
    /\ misreported = {}
    /\ restored = FALSE /\ cut = FALSE /\ short = FALSE
-----------------------------------------------------------------------------
(* loadConfig(): no file or no JSON object gives a default AppConfig. *)
loadConfig(f) == IF f \in {Missing, Torn} THEN emptyConfig ELSE f

(***************************************************************************)
(* saveConfig(): the file cannot be opened and stays ("failed", the only   *)
(* outcome that returns false), or it is truncated and then written: in    *)
(* full, or not, because the process ends or because write() fails, which  *)
(* nobody looks at.                                                        *)
(***************************************************************************)
Outcome == {"saved", "failed", "unwritten", "crash"}

Written(config, outcome) ==
    CASE outcome = "saved"  -> config
      [] outcome = "failed" -> file
      [] OTHER              -> Torn

saveConfig(config, outcome) ==
    /\ saves < MaxSaves
    /\ saves' = saves + 1
    /\ file' = Written(config, outcome)
    /\ up' = (outcome # "crash")

Hurt(outcome, few) ==
    /\ cut' = (cut \/ outcome \in {"unwritten", "crash"})
    /\ short' = (short \/ few)

(* What the users of the API have been told is saved, and whether it was. *)
Report(sections, contents, saved) ==
    /\ acked' = [s \in Section |-> IF s \in sections THEN contents[s] ELSE acked[s]]
    /\ misreported' = IF saved THEN misreported \ sections ELSE misreported \cup sections

(* The handlers answer with an error if the file cannot be opened. *)
Acknowledge(outcome, sections, contents) ==
    IF outcome = "saved" THEN Report(sections, contents, TRUE)
    ELSE UNCHANGED <<acked, misreported>>

(* Variant: the section is changed in the copy made at the start. *)
PutInSnapshot(s, v, outcome) ==
    /\ up
    /\ v \in Contents(s) \ {NoInterfaces}
    /\ saveConfig([snapshot EXCEPT ![s] = v], outcome)
    /\ Hurt(outcome, v = OneInterface)
    /\ Acknowledge(outcome, {s}, [x \in {s} |-> v])
    /\ UNCHANGED <<snapshot, staged, upload, restored>>

(* The PUT handlers change one section of what is in the file.  That of   *)
(* the network wants a list that is not empty and counts no further.      *)
PutSection(s, v, outcome) ==
    /\ up
    /\ v \in Contents(s) \ {NoInterfaces}
    /\ saveConfig([loadConfig(file) EXCEPT ![s] = v], outcome)
    /\ Hurt(outcome, v = OneInterface)
    /\ Acknowledge(outcome, {s}, [x \in {s} |-> v])
    /\ UNCHANGED <<snapshot, staged, upload, restored>>

PutConfigNetwork(v, outcome)      == PutSection("network", v, outcome)
PutConfigSerial(v, outcome)       == PutSection("serial", v, outcome)
PutConfigSystem(v, outcome)       == PutSection("system", v, outcome)
PutConfigModbusServer(v, outcome) == PutSection("modbus_server", v, outcome)
PutSecurityPolicy(v, outcome)     == PutSection("login_security", v, outcome)
PutSystemLanguage(v, outcome)     == PutSection("language", v, outcome)
PutTrendConfig(v, outcome)        == PutSection("trend", v, outcome)

(* POST /api/config/reset keeps login_security and hmi. *)
ResetSections == {"network", "serial", "system", "language", "modbus_server", "trend"}

PostConfigReset(outcome) ==
    /\ up
    /\ saveConfig([s \in Section |-> IF s \in ResetSections THEN Default
                                     ELSE loadConfig(file)[s]], outcome)
    /\ Hurt(outcome, FALSE)
    /\ Acknowledge(outcome, ResetSections, factoryDefaultConfig)
    /\ UNCHANGED <<snapshot, staged, upload, restored>>
-----------------------------------------------------------------------------
(***************************************************************************)
(* POST /api/maintenance/factory-reset: the database, then the file.  A    *)
(* failure of the first changes nothing and is left out.                   *)
(***************************************************************************)
FactoryReset(outcome) ==
    /\ up
    /\ saveConfig(factoryDefaultConfig, outcome)
    /\ Hurt(outcome, FALSE)
    /\ Acknowledge(outcome, Section, factoryDefaultConfig)
    /\ UNCHANGED <<snapshot, staged, upload, restored>>

(***************************************************************************)
(* The staged directory is removed file by file, and nobody looks whether  *)
(* all could be; the process may end before they are (an end of it after   *)
(* the last file was dealt with differs from one after the answer only in  *)
(* what is acknowledged, which the next start forgets).                    *)
(***************************************************************************)
removeRecursively ==
    \/ staged' = "none" /\ upload' = NoConfig
    \/ staged' = "part" /\ UNCHANGED upload

(* validate() removes what was staged before.  A file that passes the      *)
(* checks is kept: its parts are written without looking at the result.    *)
RestoreRefused ==
    /\ up
    /\ staged # "none"
    /\ removeRecursively
    /\ UNCHANGED <<file, snapshot, up, saves, acked, restored, misreported, cut,
                   short>>

RestoreValidate(f, kept) ==
    /\ up
    /\ kept \in {"whole", "part"}
    /\ staged' = kept
    /\ upload' = f
    /\ UNCHANGED <<file, snapshot, up, saves, acked, restored, misreported, cut,
                   short>>

(* The sections a restore takes from the backup: an empty list of          *)
(* interfaces is as good as none.                                          *)
Chosen(withNetwork) ==
    {s \in DOMAIN upload : s = "network" => withNetwork /\ upload[s] # NoInterfaces}

(* Variant: the interfaces are cleared before the option is looked at. *)
RestoredFromEmpty(withNetwork) ==
    [s \in Section |-> IF s \in Chosen(withNetwork) THEN upload[s]
                       ELSE IF s = "network" THEN NoInterfaces ELSE snapshot[s]]

(* apply() puts them into a copy of SystemConfig::config(). *)
RestoredConfig(withNetwork) ==
    [s \in Section |-> IF s \in Chosen(withNetwork) THEN upload[s] ELSE snapshot[s]]

FewInterfaces(withNetwork) ==
    "network" \in Chosen(withNetwork) /\ upload["network"] = OneInterface

(* apply() ends with the process after the database's transaction (whose   *)
(* rows are the subject of Registry, HmiProject and Accounts).             *)
RestoreCrashes ==
    /\ up
    /\ staged # "none"
    /\ up' = FALSE
    /\ UNCHANGED <<file, snapshot, staged, upload, saves, acked, restored,
                   misreported, cut, short>>

(***************************************************************************)
(* apply() with option config: a file that cannot be saved is logged, and  *)
(* success is reported all the same.  The staged files are removed last.   *)
(***************************************************************************)
RestoreApply(withNetwork, outcome) ==
    /\ up
    /\ staged # "none"
    /\ upload # NoConfig
    /\ saveConfig(RestoredConfig(withNetwork), outcome)
    /\ Hurt(outcome, FewInterfaces(withNetwork))
    /\ IF outcome = "crash" THEN UNCHANGED <<staged, upload, acked, misreported>>
       ELSE /\ Report(Chosen(withNetwork), upload, outcome = "saved")
            /\ removeRecursively
    /\ restored' = (restored \/ outcome = "saved")
    /\ UNCHANGED snapshot

(* Without option config, without the file, or if the database's part has  *)
(* failed and was rolled back, nothing is said of the configuration.       *)
RestoreRowsOnly ==
    /\ up
    /\ staged # "none"
    /\ removeRecursively
    /\ UNCHANGED <<file, snapshot, up, saves, acked, restored, misreported, cut, short>>

(* config.json was in the backup and cannot be read: reported as restored. *)
RestoreConfigLost(withNetwork) ==
    /\ up
    /\ staged = "part"
    /\ upload # NoConfig
    /\ removeRecursively
    /\ Report(Chosen(withNetwork), upload, FALSE)
    /\ UNCHANGED <<file, snapshot, up, saves, restored, cut, short>>
-----------------------------------------------------------------------------
(* main() indexes the first two interfaces without looking: if they are    *)
(* not there the process may end.  The staged directory is in /tmp: it is  *)
(* still there unless the whole device was started.                        *)
Interfaces(c) == CASE c["network"] = NoInterfaces -> 0
                   [] c["network"] = OneInterface -> 1
                   [] OTHER -> 2

Boot(outcome) ==
    /\ ~up
    /\ IF file = Missing
       THEN /\ file' = Written(factoryDefaultConfig, outcome)
            /\ cut' = (cut \/ outcome # "saved")
       ELSE UNCHANGED <<file, cut>>
    /\ snapshot' = loadConfig(file')
    /\ up' \in IF Interfaces(snapshot') >= 2 THEN {TRUE} ELSE BOOLEAN
    /\ acked' = snapshot'
    /\ restored' = FALSE
    /\ misreported' = {}
    /\ \/ UNCHANGED <<staged, upload>>
       \/ staged' = "none" /\ upload' = NoConfig
    /\ UNCHANGED <<saves, short>>

(* The process is ended, between two requests, by power or by request. *)
ProcessEnds ==
    /\ up
    /\ up' = FALSE
    /\ UNCHANGED <<file, snapshot, staged, upload, saves, acked, restored,
                   misreported, cut, short>>

Next ==
    \/ \E outcome \in Outcome :
          \/ \E v \in Contents("network") : PutConfigNetwork(v, outcome)
          \/ \E v \in Contents("serial") : PutConfigSerial(v, outcome)
          \/ \E v \in Contents("system") : PutConfigSystem(v, outcome)
          \/ \E v \in Contents("modbus_server") : PutConfigModbusServer(v, outcome)
          \/ \E v \in Contents("login_security") : PutSecurityPolicy(v, outcome)
          \/ \E v \in Contents("language") : PutSystemLanguage(v, outcome)
          \/ \E v \in Contents("trend") : PutTrendConfig(v, outcome)
          \/ PostConfigReset(outcome)
          \/ FactoryReset(outcome)
          \/ \E withNetwork \in BOOLEAN : RestoreApply(withNetwork, outcome)
          \/ Boot(outcome)
    \/ RestoreRefused
    \/ \E f \in Upload, kept \in {"whole", "part"} : RestoreValidate(f, kept)
    \/ RestoreRowsOnly
    \/ \E withNetwork \in BOOLEAN : RestoreConfigLost(withNetwork)
    \/ RestoreCrashes
    \/ ProcessEnds

Spec == Init /\ [][Next]_vars
-----------------------------------------------------------------------------
(***************************************************************************)
(* No setting is lost between requests: unless a save was cut off, the     *)
(* file holds the contents last reported as saved, section by section,     *)
(* whichever handlers wrote it.  The exceptions are two of restore: what   *)
(* it does not restore it sets back to what it was when the process        *)
(* started, and it reports sections as restored that it could not save.    *)
(***************************************************************************)
NoSettingLost ==
    up /\ ~cut =>
        \A s \in Section :
            \/ file[s] = acked[s]
            \/ restored /\ file[s] = snapshot[s]
            \/ s \in misreported

(***************************************************************************)
(* Whatever is restored, reset or saved, the program can be started again: *)
(* the file has the two interfaces main() reads, unless a save was cut off *)
(* or a request, or the backup restored by one, itself had one only.       *)
(***************************************************************************)
Bootable == ~cut /\ ~short /\ file # Missing => Interfaces(loadConfig(file)) >= 2
=============================================================================
