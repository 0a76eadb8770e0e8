----------------------------- MODULE FileProofs -----------------------------
(***************************************************************************)
(* Proofs about what is kept in files: the configuration for every set of  *)
(* contents, every choice of sections that change and any number of saves, *)
(* and the trend files for every size of header, record, block and file,   *)
(* every sampling interval and any number of refused writes.               *)
(***************************************************************************)
EXTENDS Configuration, TrendFile, WellFoundedInduction, TLAPS

(* The configuration file. *)

(***************************************************************************)
(* What a save that was not cut off leaves behind is a file that can be    *)
(* read; it has two interfaces unless somebody asked for less.             *)
(***************************************************************************)
Whole(c) == c \in AppConfig /\ c["network"] \notin {NoInterfaces, OneInterface}

FileInv ==
    ~cut => file = Missing \/ (file \in AppConfig /\ (~short => Whole(file)))

(* A process that runs has read, or made, such a file. *)
RunningInv ==
    ~cut /\ up => file \in AppConfig /\ (~short => Whole(file) /\ Whole(snapshot))

Inv ==
    /\ TypeOK
    /\ FileInv /\ RunningInv
    /\ NoSettingLost

-----------------------------------------------------------------------------
(* Which contents a section can have. *)
LEMMA ContentsType ==
    \A s \in Section : /\ Contents(s) \subseteq Value \cup {NoInterfaces, OneInterface}
                       /\ Default \in Contents(s)
  BY ConfigurationAssumption DEF Contents

LEMMA ConfigType ==
    ASSUME NEW c, c = [s \in Section |-> c[s]], \A s \in Section : c[s] \in Contents(s)
    PROVE  c \in AppConfig
  BY ContentsType DEF AppConfig

LEMMA ConfigElements ==
    ASSUME NEW c \in AppConfig
    PROVE  /\ c = [s \in Section |-> c[s]]
           /\ \A s \in Section : c[s] \in Contents(s)
           /\ c \notin {Missing, Torn}
  BY ConfigurationAssumption DEF AppConfig

(* What an uploaded config.json may hold. *)
LEMMA UploadElements ==
    ASSUME NEW f \in Upload, f # NoConfig
    PROVE  /\ DOMAIN f \subseteq InBackup /\ DOMAIN f \subseteq Section
           /\ \A s \in DOMAIN f : f[s] \in Contents(s)
<1>1. PICK S \in SUBSET InBackup :
        f \in {g \in [S -> Value \cup {NoInterfaces, OneInterface}] :
                 \A s \in S : g[s] \in Contents(s)}
      BY DEF Upload
<1>2. DOMAIN f = S /\ \A s \in S : f[s] \in Contents(s)
      BY <1>1
<1> QED
    BY <1>2 DEF InBackup, Section

LEMMA DefaultConfig ==
    /\ Whole(factoryDefaultConfig)
    /\ emptyConfig \in AppConfig
    /\ \A s \in Section : factoryDefaultConfig[s] = Default
<1>1. factoryDefaultConfig \in AppConfig
  <2>1. factoryDefaultConfig = [s \in Section |-> factoryDefaultConfig[s]]
        BY DEF factoryDefaultConfig
  <2>2. \A s \in Section : factoryDefaultConfig[s] \in Contents(s)
        BY ContentsType DEF factoryDefaultConfig
  <2> QED
      BY <2>1, <2>2, ConfigType
<1>2. emptyConfig \in AppConfig
  <2>1. emptyConfig = [s \in Section |-> emptyConfig[s]]
        BY DEF emptyConfig, factoryDefaultConfig
  <2>2. \A s \in Section : emptyConfig[s] \in Contents(s)
        BY ContentsType DEF emptyConfig, factoryDefaultConfig, Contents
  <2> QED
      BY <2>1, <2>2, ConfigType
<1>3. factoryDefaultConfig["network"] \notin {NoInterfaces, OneInterface}
      BY ConfigurationAssumption DEF factoryDefaultConfig, Section
<1> QED
    BY <1>1, <1>2, <1>3 DEF Whole, factoryDefaultConfig

LEMMA InitInv == Init => Inv
<1> SUFFICES ASSUME Init PROVE Inv
    OBVIOUS
<1>1. TypeOK
  <2>1. staged \in {"none", "part", "whole"} /\ upload \in Upload /\ misreported \subseteq Section
        BY DEF Init, Upload
  <2>2. saves \in 0 .. MaxSaves
        BY ConfigurationAssumption DEF Init
  <2>3. snapshot \in AppConfig /\ acked \in AppConfig
        BY DefaultConfig DEF Init
  <2>4. {up, restored, cut, short} \subseteq BOOLEAN
    <3>1. \A b \in {up, restored, cut, short} : b = FALSE
          BY DEF Init
    <3> QED
        BY <3>1
  <2>5. file \in {Missing, Torn}
        BY DEF Init
  <2> QED
      BY <2>1, <2>2, <2>3, <2>4, <2>5 DEF TypeOK
<1> QED
    BY <1>1 DEF Init, Inv, FileInv, RunningInv, NoSettingLost

(* What loadConfig() returns is a configuration, and the file if it can be read. *)
LEMMA Loaded ==
    ASSUME NEW f, f \in {Missing, Torn} \/ f \in AppConfig
    PROVE  loadConfig(f) \in AppConfig /\ (f \in AppConfig => loadConfig(f) = f)
  BY DefaultConfig, ConfigElements DEF loadConfig

(* What the users of the API have been told has the contents of sections. *)
LEMMA ReportType ==
    ASSUME TypeOK, NEW sections \in SUBSET Section, NEW contents, NEW saved \in BOOLEAN,
           \A s \in sections : contents[s] \in Contents(s),
           Report(sections, contents, saved)
    PROVE  /\ acked' \in AppConfig
           /\ misreported' \in SUBSET Section
           /\ \A s \in sections : acked'[s] = contents[s]
           /\ \A s \in Section \ sections : acked'[s] = acked[s]
           /\ \A s \in Section \ sections : s \in misreported => s \in misreported'
           /\ ~saved => misreported' = misreported \cup sections
<1>1. acked' = [s \in Section |-> IF s \in sections THEN contents[s] ELSE acked[s]]
      BY DEF Report
<1>2. acked' = [s \in Section |-> acked'[s]]
      BY <1>1
<1>3. \A s \in Section : acked'[s] \in Contents(s)
      BY <1>1, ConfigElements DEF TypeOK
<1>4. acked' \in AppConfig
      BY <1>2, <1>3, ConfigType
<1>5. misreported' = IF saved THEN misreported \ sections ELSE misreported \cup sections
      BY DEF Report
<1>6. misreported \subseteq Section
      BY DEF TypeOK
<1> QED
    BY <1>1, <1>4, <1>5, <1>6

(* Some handlers report what they have saved, restore whatever became of it. *)
Told(outcome, sections, contents) ==
    \/ Report(sections, contents, outcome = "saved")
    \/ outcome # "saved" /\ UNCHANGED <<acked, misreported>>

Saved ==
    /\ file' \in {Missing, Torn} \/ file' \in AppConfig
    /\ acked' \in AppConfig /\ misreported' \in SUBSET Section
    /\ saves' \in 0 .. MaxSaves
    /\ up' \in BOOLEAN /\ cut' \in BOOLEAN /\ short' \in BOOLEAN
    /\ FileInv' /\ RunningInv' /\ NoSettingLost'

(***************************************************************************)
(* A save of a configuration in which the given sections are new: the      *)
(* common part of the requests that write the file.                        *)
(***************************************************************************)
LEMMA SaveInv ==
    ASSUME Inv, up, NEW config \in AppConfig, NEW outcome \in Outcome,
           NEW few \in BOOLEAN, NEW sections \in SUBSET Section, NEW contents,
           saveConfig(config, outcome), Hurt(outcome, few),
           Told(outcome, sections, contents),
           \A s \in sections : contents[s] = config[s],
           ~cut /\ ~short /\ ~few => Whole(config),
           UNCHANGED snapshot,
           restored' \in BOOLEAN, restored => restored',
           outcome = "saved" /\ ~cut =>
              \A s \in Section \ sections :
                 \/ config[s] = file[s]
                 \/ restored' /\ config[s] = snapshot[s]
    PROVE  Saved
<1> USE DEF Inv
<1>0. /\ cut \in BOOLEAN /\ short \in BOOLEAN /\ up \in BOOLEAN /\ saves \in 0 .. MaxSaves
      /\ acked \in AppConfig /\ misreported \in SUBSET Section
      /\ file \in {Missing, Torn} \/ file \in AppConfig
      BY DEF TypeOK
<1>1. /\ saves' \in 0 .. MaxSaves
      /\ up' = (outcome # "crash")
      /\ file' = Written(config, outcome)
      BY <1>0, ConfigurationAssumption DEF saveConfig
<1>2. /\ cut' = (cut \/ outcome \in {"unwritten", "crash"}) /\ short' = (short \/ few)
      /\ up' \in BOOLEAN /\ cut' \in BOOLEAN /\ short' \in BOOLEAN
      BY <1>0, <1>1 DEF Hurt
<1>3. \A s \in sections : contents[s] \in Contents(s)
      BY ConfigElements
<1>4. acked' \in AppConfig /\ misreported' \in SUBSET Section
  <2>1. ASSUME NEW saved \in BOOLEAN, Report(sections, contents, saved)
        PROVE  acked' \in AppConfig /\ misreported' \in SUBSET Section
        BY <1>3, <2>1, ReportType
  <2>2. CASE UNCHANGED <<acked, misreported>>
        BY <1>0, <2>2
  <2> QED
      BY <2>1, <2>2 DEF Told
<1>5. CASE outcome = "saved"
  <2>1. file' = config /\ up' = TRUE /\ cut' = cut
        BY <1>0, <1>1, <1>2, <1>5 DEF Written
  <2>2. Report(sections, contents, TRUE)
        BY <1>5 DEF Told
  <2>3. /\ \A s \in sections : acked'[s] = contents[s]
        /\ \A s \in Section \ sections : acked'[s] = acked[s]
        /\ \A s \in Section \ sections : s \in misreported => s \in misreported'
    <3>1. ASSUME NEW saved \in BOOLEAN, Report(sections, contents, saved)
          PROVE  /\ \A s \in sections : acked'[s] = contents[s]
                 /\ \A s \in Section \ sections : acked'[s] = acked[s]
                 /\ \A s \in Section \ sections : s \in misreported => s \in misreported'
          BY <1>3, <3>1, ReportType
    <3> QED
        BY <2>2, <3>1
  <2>4. ~cut' => file' \in AppConfig /\ (~short' => Whole(file') /\ Whole(snapshot))
        BY <1>2, <2>1 DEF RunningInv
  <2>5. FileInv' /\ RunningInv'
        BY <2>4 DEF FileInv, RunningInv
  <2>6. NoSettingLost'
    <3> SUFFICES ASSUME ~cut', NEW s \in Section
                 PROVE  \/ file'[s] = acked'[s]
                        \/ restored' /\ file'[s] = snapshot[s]
                        \/ s \in misreported'
        BY DEF NoSettingLost
    <3>1. ~cut
          BY <2>1
    <3>2. CASE s \in sections
          BY <2>1, <2>3, <3>2
    <3>3. CASE s \notin sections
          BY <1>5, <2>1, <2>3, <3>1, <3>3 DEF NoSettingLost
    <3> QED
        BY <3>2, <3>3
  <2> QED
      BY <1>1, <1>2, <1>4, <2>1, <2>5, <2>6 DEF Saved
<1>6. CASE outcome = "failed"
  <2>1. file' = file /\ up' = TRUE /\ cut' = cut
        BY <1>0, <1>1, <1>2, <1>6 DEF Written
  <2>2. FileInv' /\ RunningInv'
        BY <1>2, <2>1 DEF FileInv, RunningInv
  <2>3. ASSUME NEW s \in Section
        PROVE  \/ s \in misreported'
               \/ acked'[s] = acked[s] /\ (s \in misreported => s \in misreported')
    <3>1. CASE Report(sections, contents, FALSE)
          BY <1>3, <3>1, ReportType
    <3>2. CASE UNCHANGED <<acked, misreported>>
          BY <3>2
    <3> QED
        BY <1>6, <3>1, <3>2 DEF Told
  <2>4. NoSettingLost'
        BY <2>1, <2>3 DEF NoSettingLost
  <2> QED
      BY <1>0, <1>1, <1>2, <1>4, <2>1, <2>2, <2>4 DEF Saved
<1>7. CASE outcome \in {"unwritten", "crash"}
  <2>1. file' = Torn /\ cut' = TRUE
        BY <1>1, <1>2, <1>7 DEF Written
  <2> QED
      BY <1>1, <1>2, <1>4, <2>1 DEF Saved, FileInv, RunningInv, NoSettingLost
<1> QED
    BY <1>5, <1>6, <1>7 DEF Outcome

(* A PUT handler changes one section of the file. *)
LEMMA PutSectionInv ==
    ASSUME Inv, NEW s \in Section, NEW v, NEW outcome \in Outcome,
           PutSection(s, v, outcome)
    PROVE  Inv'
<1> DEFINE config == [loadConfig(file) EXCEPT ![s] = v]
           contents == [x \in {s} |-> v]
           few == v = OneInterface
<1>0. /\ up /\ v \in Contents(s) /\ v # NoInterfaces
      /\ saveConfig(config, outcome) /\ Hurt(outcome, few)
      /\ Told(outcome, {s}, contents)
      /\ UNCHANGED <<snapshot, staged, upload, restored>>
      BY DEF PutSection, Acknowledge, Told
<1>1. /\ loadConfig(file) \in AppConfig
      /\ ~cut => loadConfig(file) = file /\ (~short => Whole(file))
      BY <1>0, Loaded DEF Inv, TypeOK, RunningInv
<1>2. /\ config = [x \in Section |-> IF x = s THEN v ELSE loadConfig(file)[x]]
      /\ config[s] = v
      /\ \A x \in Section \ {s} : config[x] = loadConfig(file)[x]
      BY <1>1 DEF AppConfig
<1> HIDE DEF config
<1>3. config \in AppConfig
  <2>1. config = [x \in Section |-> config[x]]
        BY <1>2
  <2>2. \A x \in Section : config[x] \in Contents(x)
        BY <1>0, <1>1, <1>2, ConfigElements
  <2> QED
      BY <2>1, <2>2, ConfigType
<1>4. ~cut /\ ~short /\ ~few => Whole(config)
      BY <1>0, <1>1, <1>2, <1>3 DEF Whole, Section
<1>5. \A x \in {s} : contents[x] = config[x]
      BY <1>2
<1>6. ~cut => \A x \in Section \ {s} : config[x] = file[x]
      BY <1>1, <1>2
<1>7. few \in BOOLEAN /\ {s} \in SUBSET Section /\ restored' \in BOOLEAN /\ (restored => restored')
      BY <1>0 DEF Inv, TypeOK
<1> HIDE DEF few, contents
<1>8. Saved
      BY <1>0, <1>3, <1>4, <1>5, <1>6, <1>7, SaveInv
<1> QED
    BY <1>0, <1>7, <1>8 DEF Inv, TypeOK, Saved

LEMMA PostConfigResetInv ==
    ASSUME Inv, NEW outcome \in Outcome, PostConfigReset(outcome)
    PROVE  Inv'
<1> DEFINE few == FALSE
<1> DEFINE config == [s \in Section |-> IF s \in ResetSections THEN Default
                                        ELSE loadConfig(file)[s]]
<1>0. /\ up /\ saveConfig(config, outcome) /\ Hurt(outcome, few)
      /\ Told(outcome, ResetSections, factoryDefaultConfig)
      /\ UNCHANGED <<snapshot, staged, upload, restored>>
      BY DEF PostConfigReset, Acknowledge, Told
<1>1. loadConfig(file) \in AppConfig /\ (~cut => loadConfig(file) = file)
      BY <1>0, Loaded DEF Inv, TypeOK, RunningInv
<1>2. /\ config = [s \in Section |-> config[s]]
      /\ \A s \in ResetSections : config[s] = Default
      /\ \A s \in Section \ ResetSections : config[s] = loadConfig(file)[s]
      /\ ResetSections \in SUBSET Section
      BY DEF ResetSections, Section
<1> HIDE DEF config
<1>3. config \in AppConfig
  <2>1. \A s \in Section : config[s] \in Contents(s)
        BY <1>1, <1>2, ConfigElements, ContentsType
  <2> QED
      BY <1>2, <2>1, ConfigType
<1>4. Whole(config)
      BY <1>2, <1>3, ConfigurationAssumption DEF Whole, ResetSections
<1>5. \A s \in ResetSections : factoryDefaultConfig[s] = config[s]
      BY <1>2, DefaultConfig
<1>6. ~cut => \A s \in Section \ ResetSections : config[s] = file[s]
      BY <1>1, <1>2
<1>7. few \in BOOLEAN /\ restored' \in BOOLEAN /\ (restored => restored')
      BY <1>0 DEF Inv, TypeOK
<1> HIDE DEF few
<1>8. Saved
      BY <1>0, <1>2, <1>3, <1>4, <1>5, <1>6, <1>7, SaveInv
<1> QED
    BY <1>0, <1>7, <1>8 DEF Inv, TypeOK, Saved

LEMMA FactoryResetInv ==
    ASSUME Inv, NEW outcome \in Outcome, FactoryReset(outcome)
    PROVE  Inv'
<1>0. /\ up /\ saveConfig(factoryDefaultConfig, outcome) /\ Hurt(outcome, FALSE)
      /\ Told(outcome, Section, factoryDefaultConfig)
      /\ UNCHANGED <<snapshot, staged, upload, restored>>
      BY DEF FactoryReset, Acknowledge, Told
<1>1. restored' \in BOOLEAN /\ (restored => restored')
      BY <1>0 DEF Inv, TypeOK
<1>2. factoryDefaultConfig \in AppConfig /\ Whole(factoryDefaultConfig)
      BY DefaultConfig DEF Whole
<1>3. Saved
      BY <1>0, <1>1, <1>2, SaveInv
<1> QED
    BY <1>0, <1>1, <1>3 DEF Inv, TypeOK, Saved

LEMMA RemovedType ==
    ASSUME TypeOK, removeRecursively
    PROVE  staged' \in {"none", "part", "whole"} /\ upload' \in Upload
  BY DEF TypeOK, removeRecursively, Upload

(* The sections a restore takes are among those of the backup. *)
LEMMA ChosenSections ==
    ASSUME TypeOK, upload # NoConfig, NEW withNetwork \in BOOLEAN
    PROVE  /\ Chosen(withNetwork) \in SUBSET Section
           /\ \A s \in Chosen(withNetwork) : upload[s] \in Contents(s)
           /\ "network" \in Chosen(withNetwork) => upload["network"] # NoInterfaces
<1>1. /\ DOMAIN upload \subseteq Section
      /\ \A s \in DOMAIN upload : upload[s] \in Contents(s)
      BY UploadElements DEF TypeOK
<1> QED
    BY <1>1 DEF Chosen

(* A restore takes sections of the backup into what the process has read. *)
LEMMA RestoreApplyInv ==
    ASSUME Inv, NEW withNetwork \in BOOLEAN, NEW outcome \in Outcome,
           RestoreApply(withNetwork, outcome)
    PROVE  Inv'
<1> DEFINE config == RestoredConfig(withNetwork)
           sections == Chosen(withNetwork)
           few == FewInterfaces(withNetwork)
<1>0. /\ up /\ upload # NoConfig /\ saveConfig(config, outcome) /\ Hurt(outcome, few)
      /\ Told(outcome, sections, upload)
      /\ restored' = (restored \/ outcome = "saved")
      /\ UNCHANGED snapshot
  <2>1. CASE outcome = "crash"
        BY <2>1 DEF RestoreApply, Told
  <2>2. CASE outcome # "crash"
        BY <2>2 DEF RestoreApply, Told
  <2> QED
      BY <2>1, <2>2
<1>1. staged' \in {"none", "part", "whole"} /\ upload' \in Upload
  <2>1. TypeOK
        BY DEF Inv
  <2>2. UNCHANGED <<staged, upload>> \/ removeRecursively
        BY DEF RestoreApply
  <2> QED
      BY <2>1, <2>2, RemovedType DEF TypeOK
<1>2. /\ sections \in SUBSET Section
      /\ \A s \in sections : upload[s] \in Contents(s)
      /\ "network" \in sections => upload["network"] # NoInterfaces
      BY <1>0, ChosenSections DEF Inv
<1>3. /\ config = [s \in Section |-> config[s]]
      /\ \A s \in sections : config[s] = upload[s]
      /\ \A s \in Section \ sections : config[s] = snapshot[s]
      BY <1>2 DEF RestoredConfig
<1>4. few = ("network" \in sections /\ upload["network"] = OneInterface)
      BY DEF FewInterfaces
<1> HIDE DEF config, sections, few
<1>5. config \in AppConfig
  <2>1. \A s \in Section : config[s] \in Contents(s)
        BY <1>2, <1>3, ConfigElements DEF Inv, TypeOK
  <2> QED
      BY <1>3, <2>1, ConfigType
<1>6. ~cut /\ ~short /\ ~few => Whole(config)
  <2> SUFFICES ASSUME ~cut, ~short, ~few
               PROVE  config["network"] \notin {NoInterfaces, OneInterface}
      BY <1>5 DEF Whole
  <2>1. snapshot["network"] \notin {NoInterfaces, OneInterface}
        BY <1>0 DEF Inv, RunningInv, Whole
  <2>2. "network" \in Section
        BY DEF Section
  <2> QED
      BY <1>2, <1>3, <1>4, <2>1, <2>2
<1>7. few \in BOOLEAN /\ restored' \in BOOLEAN /\ (restored => restored') /\ (outcome = "saved" => restored')
      BY <1>0, <1>4 DEF Inv, TypeOK
<1>8. \A s \in sections : upload[s] = config[s]
      BY <1>3
<1>9. outcome = "saved" => restored' /\ \A s \in Section \ sections : config[s] = snapshot[s]
      BY <1>3, <1>7
<1>10. Saved
      BY <1>0, <1>2, <1>5, <1>6, <1>7, <1>8, <1>9, SaveInv
<1> QED
    BY <1>0, <1>1, <1>7, <1>10 DEF Inv, TypeOK, Saved

(* Starting reads the file, or makes one if there is none. *)
LEMMA BootInv ==
    ASSUME Inv, NEW outcome \in Outcome, Boot(outcome)
    PROVE  Inv'
<1> USE DEF Inv
<1>0. /\ ~up /\ snapshot' = loadConfig(file') /\ acked' = snapshot' /\ restored' = FALSE
      /\ up' \in BOOLEAN /\ misreported' = {}
      /\ UNCHANGED <<saves, short>>
      /\ staged' \in {"none", "part", "whole"} /\ upload' \in Upload
      BY DEF Boot, TypeOK, Upload
<1>1. /\ file' \in {Missing, Torn} \/ file' \in AppConfig
      /\ cut' \in BOOLEAN
      /\ ~cut' => file' \in AppConfig /\ (~short => Whole(file'))
  <2>1. CASE file = Missing
    <3>1. file' = Written(factoryDefaultConfig, outcome) /\ cut' = (cut \/ outcome # "saved")
          BY <2>1 DEF Boot
    <3>2. outcome = "saved" => file' = factoryDefaultConfig
          BY <3>1 DEF Written
    <3>3. file' \in {factoryDefaultConfig, file, Torn}
          BY <3>1 DEF Written
    <3> QED
        BY <2>1, <3>1, <3>2, <3>3, DefaultConfig DEF TypeOK, Whole
  <2>2. CASE file # Missing
    <3>1. UNCHANGED <<file, cut>>
          BY <2>2 DEF Boot
    <3> QED
        BY <2>2, <3>1 DEF TypeOK, FileInv
  <2> QED
      BY <2>1, <2>2
<1>2. loadConfig(file') \in AppConfig /\ (~cut' => loadConfig(file') = file')
      BY <1>1, Loaded
<1>3. TypeOK'
      BY <1>0, <1>1, <1>2 DEF TypeOK
<1>4. FileInv' /\ RunningInv'
      BY <1>0, <1>1, <1>2 DEF FileInv, RunningInv
<1>5. NoSettingLost'
      BY <1>0, <1>1, <1>2 DEF NoSettingLost
<1> QED
    BY <1>3, <1>4, <1>5

Other ==
    \/ RestoreRefused
    \/ \E f \in Upload, kept \in {"whole", "part"} : RestoreValidate(f, kept)
    \/ RestoreRowsOnly
    \/ \E withNetwork \in BOOLEAN : RestoreConfigLost(withNetwork)
    \/ RestoreCrashes
    \/ ProcessEnds

(* The steps that leave the file alone: a restore may still report sections. *)
LEMMA OtherInv ==
    ASSUME Inv, Other
    PROVE  Inv'
<1> USE DEF Inv
<1>1. UNCHANGED <<file, snapshot, saves, restored, cut, short>>
      BY DEF Other, RestoreRefused, RestoreValidate, RestoreRowsOnly, RestoreConfigLost,
             RestoreCrashes, ProcessEnds
<1>2. /\ up' \in BOOLEAN /\ (up' => up)
      /\ staged' \in {"none", "part", "whole"} /\ upload' \in Upload
  <2>0. /\ up \in BOOLEAN
        /\ staged \in {"none", "part", "whole"} /\ upload \in Upload
        BY DEF TypeOK
  <2>1. CASE RestoreRefused
        BY <2>0, <2>1, RemovedType DEF RestoreRefused
  <2>2. CASE \E f \in Upload, kept \in {"whole", "part"} : RestoreValidate(f, kept)
        BY <2>0, <2>2 DEF RestoreValidate
  <2>3. CASE RestoreRowsOnly
        BY <2>0, <2>3, RemovedType DEF RestoreRowsOnly
  <2>4. CASE \E withNetwork \in BOOLEAN : RestoreConfigLost(withNetwork)
        BY <2>0, <2>4, RemovedType DEF RestoreConfigLost
  <2>5. CASE RestoreCrashes
        BY <2>0, <2>5 DEF RestoreCrashes
  <2>6. CASE ProcessEnds
        BY <2>0, <2>6 DEF ProcessEnds
  <2> QED
      BY <2>1, <2>2, <2>3, <2>4, <2>5, <2>6 DEF Other
<1>3. /\ acked' \in AppConfig /\ misreported' \in SUBSET Section
      /\ \A s \in Section :
            \/ s \in misreported'
            \/ acked'[s] = acked[s] /\ (s \in misreported => s \in misreported')
  <2>1. CASE \E withNetwork \in BOOLEAN : RestoreConfigLost(withNetwork)
    <3>1. PICK withNetwork \in BOOLEAN :
            upload # NoConfig /\ Report(Chosen(withNetwork), upload, FALSE)
          BY <2>1 DEF RestoreConfigLost
    <3>2. /\ Chosen(withNetwork) \in SUBSET Section
          /\ \A s \in Chosen(withNetwork) : upload[s] \in Contents(s)
          BY <3>1, ChosenSections
    <3> QED
        BY <3>1, <3>2, ReportType
  <2>2. CASE ~(\E withNetwork \in BOOLEAN : RestoreConfigLost(withNetwork))
    <3>1. UNCHANGED <<acked, misreported>>
          BY <2>2 DEF Other, RestoreRefused, RestoreValidate, RestoreRowsOnly,
                      RestoreCrashes, ProcessEnds
    <3> QED
        BY <3>1 DEF TypeOK
  <2> QED
      BY <2>1, <2>2
<1>4. TypeOK'
      BY <1>1, <1>2, <1>3 DEF TypeOK
<1>5. FileInv' /\ RunningInv'
      BY <1>1, <1>2 DEF FileInv, RunningInv
<1>6. NoSettingLost'
      BY <1>1, <1>2, <1>3 DEF NoSettingLost
<1> QED
    BY <1>4, <1>5, <1>6

LEMMA StepInv == Inv /\ [Next]_vars => Inv'
<1> SUFFICES ASSUME Inv, [Next]_vars PROVE Inv'
    OBVIOUS
<1>1. CASE UNCHANGED vars
      BY <1>1 DEF vars, Inv, TypeOK, FileInv, RunningInv, NoSettingLost
<1>2. ASSUME NEW outcome \in Outcome,
             \/ \E v \in Contents("network") : PutConfigNetwork(v, outcome)
             \/ \E v \in Contents("serial") : PutConfigSerial(v, outcome)
             \/ \E v \in Contents("system") : PutConfigSystem(v, outcome)
             \/ \E v \in Contents("modbus_server") : PutConfigModbusServer(v, outcome)
             \/ \E v \in Contents("login_security") : PutSecurityPolicy(v, outcome)
             \/ \E v \in Contents("language") : PutSystemLanguage(v, outcome)
             \/ \E v \in Contents("trend") : PutTrendConfig(v, outcome)
      PROVE  Inv'
  <2>1. \E s \in Section : \E v : PutSection(s, v, outcome)
        BY <1>2 DEF PutConfigNetwork, PutConfigSerial, PutConfigSystem,
                    PutConfigModbusServer, PutSecurityPolicy, PutSystemLanguage,
                    PutTrendConfig, Section
  <2> QED
      BY <2>1, PutSectionInv
<1>3. ASSUME NEW outcome \in Outcome,
             \/ PostConfigReset(outcome)
             \/ FactoryReset(outcome)
             \/ \E withNetwork \in BOOLEAN : RestoreApply(withNetwork, outcome)
             \/ Boot(outcome)
      PROVE  Inv'
      BY <1>3, PostConfigResetInv, FactoryResetInv, RestoreApplyInv, BootInv
<1>4. CASE Other
      BY <1>4, OtherInv
<1> QED
    BY <1>1, <1>2, <1>3, <1>4 DEF Next, Other

(***************************************************************************)
(* The inductive invariant holds in every reachable state, whichever       *)
(* handlers write the file, whatever is uploaded and wherever the process  *)
(* ends.                                                                   *)
(***************************************************************************)
THEOREM Invariant == Spec => []Inv
  BY InitInv, StepInv, PTL DEF Spec

(***************************************************************************)
(* Between requests the file holds, section by section, what was last      *)
(* reported as saved, or what a restore set back, except for the sections  *)
(* that a restore reported without having saved them.                      *)
(***************************************************************************)
THEOREM SettingsAreKept == Spec => []NoSettingLost
<1>1. Inv => NoSettingLost
      BY DEF Inv
<1> QED
    BY <1>1, Invariant, PTL

(***************************************************************************)
(* Whatever is uploaded and restored, the file never lacks the interfaces  *)
(* that main() reads, unless a save was cut off or a request, or a backup  *)
(* that was restored, had one interface only.                              *)
(***************************************************************************)
THEOREM AlwaysBootable == Spec => []Bootable
<1>1. Inv => Bootable
  <2> SUFFICES ASSUME Inv, ~cut, ~short, file # Missing
               PROVE  Interfaces(loadConfig(file)) >= 2
      BY DEF Bootable
  <2>1. Whole(file) /\ loadConfig(file) = file
        BY Loaded DEF Inv, FileInv, TypeOK, Whole
  <2>2. Interfaces(file) = 2
        BY <2>1 DEF Whole, Interfaces
  <2> QED
      BY <2>1, <2>2
<1> QED
    BY <1>1, Invariant, PTL

-----------------------------------------------------------------------------
(* The trend files.  What a number of writes leaves is defined by recursion
   over them, so induction over numbers comes first. *)

LEMMA LeastNumber ==
    ASSUME NEW T \in SUBSET Nat, T # {}
    PROVE  \E x \in T : \A y \in T : x <= y
<1>. DEFINE R == OpToRel(<, Nat)
<1>1. PICK x \in T : \A y \in T : ~ (<<y, x>> \in R)
  <2>1. IsWellFoundedOn(R, Nat)
    BY NatLessThanWellFounded
  <2>. HIDE DEF R
  <2>2. QED
    BY <2>1, WFMin
<1>2. \A y \in T : ~ (y < x)
  BY <1>1 DEF OpToRel
<1>3. QED
  BY <1>2

(* Induction over 0 .. N, for a set S of numbers. *)
LEMMA BoundedInduction ==
    ASSUME NEW N \in Nat, NEW S, 0 \in S, \A k \in 0 .. (N - 1) : k \in S => k + 1 \in S
    PROVE  0 .. N \subseteq S
<1>. DEFINE T == {k \in 0 .. N : k \notin S}
<1>1. SUFFICES ASSUME T # {} PROVE FALSE
  OBVIOUS
<1>2. PICK x \in T : \A y \in T : x <= y
  <2>1. T \in SUBSET Nat
    OBVIOUS
  <2>. HIDE DEF T
  <2>2. QED
    BY <1>1, <2>1, LeastNumber
<1>3. x # 0 /\ x - 1 \in 0 .. (N - 1) /\ x - 1 < x /\ (x - 1) + 1 = x
  BY <1>2
<1>4. QED
  BY <1>2, <1>3
-----------------------------------------------------------------------------
LEMMA StagesSteps ==
    ASSUME NEW f, NEW xs, Len(xs) \in Nat
    PROVE  /\ Stages(f, xs)[0] = f
           /\ \A k \in 1 .. Len(xs) : Stages(f, xs)[k] = Passed(Stages(f, xs)[k - 1], xs[k])
<1>. DEFINE N == Len(xs)
            Eq(g, n) == g = [k \in 0 .. n |-> IF k = 0 THEN f ELSE Passed(g[k - 1], xs[k])]
            T == {n \in 0 .. N : \E g : Eq(g, n)}
<1>1. 0 \in T
  <2>. DEFINE g == [k \in 0 .. 0 |-> f]
  <2>1. Eq(g, 0)
    OBVIOUS
  <2>. HIDE DEF Eq
  <2>2. QED
    BY <2>1
<1>2. ASSUME NEW n \in 0 .. (N - 1), n \in T PROVE n + 1 \in T
  <2>1. PICK g : Eq(g, n)
    BY <1>2
  <2>2. n \in Nat /\ n + 1 \in 0 .. N
    OBVIOUS
  <2>. DEFINE h == [k \in 0 .. (n + 1) |-> IF k = n + 1 THEN Passed(g[n], xs[n + 1]) ELSE g[k]]
  <2>3. ASSUME NEW k \in 0 .. (n + 1)
        PROVE  h[k] = IF k = 0 THEN f ELSE Passed(h[k - 1], xs[k])
    <3>1. \A j \in 0 .. n : g[j] = IF j = 0 THEN f ELSE Passed(g[j - 1], xs[j])
      BY <2>1
    <3>2. CASE k = n + 1
      <4>1. k # 0 /\ k - 1 = n /\ n \in 0 .. (n + 1) /\ n # n + 1
        BY <3>2, <2>2
      <4>2. h[k] = Passed(g[n], xs[n + 1]) /\ h[n] = g[n]
        BY <3>2, <4>1
      <4>3. QED
        BY <3>2, <4>1, <4>2
    <3>3. CASE k # n + 1
      <4>1. k \in 0 .. n /\ (k # 0 => k - 1 \in 0 .. (n + 1) /\ k - 1 # n + 1)
        BY <3>3, <2>2
      <4>2. h[k] = g[k] /\ (k # 0 => h[k - 1] = g[k - 1])
        BY <3>3, <4>1
      <4>. HIDE DEF h
      <4>3. QED
        BY <3>1, <4>1, <4>2
    <3>4. QED
      BY <3>2, <3>3
  <2>4. Eq(h, n + 1)
    BY <2>3
  <2>. HIDE DEF Eq, h
  <2>5. QED
    BY <2>2, <2>4
<1>3. N \in T
  <2>. HIDE DEF T
  <2>1. 0 .. N \subseteq T
    BY <1>1, <1>2, BoundedInduction
  <2>2. QED
    BY <2>1
<1>. DEFINE c == CHOOSE g : Eq(g, N)
<1>4. Eq(c, N)
  <2>1. \E g : Eq(g, N)
    BY <1>3
  <2>. HIDE DEF Eq
  <2>2. QED
    BY <2>1
<1>5. Stages(f, xs) = c
  BY DEF Stages
<1>. HIDE DEF c
<1>6. \A k \in 0 .. N : c[k] = IF k = 0 THEN f ELSE Passed(c[k - 1], xs[k])
  BY <1>4
<1>. HIDE DEF Eq, T
<1>7. 0 \in 0 .. N /\ \A k \in 1 .. N : k \in 0 .. N /\ k # 0
  OBVIOUS
<1>8. QED
  BY <1>5, <1>6, <1>7

(* The stages of more writes begin with those of the first ones. *)
LEMMA StagesOfPrefix ==
    ASSUME NEW f, NEW xs, NEW ys, Len(xs) \in Nat, Len(ys) \in Nat, Len(ys) <= Len(xs),
           \A k \in 1 .. Len(ys) : ys[k] = xs[k]
    PROVE  \A k \in 0 .. Len(ys) : Stages(f, ys)[k] = Stages(f, xs)[k]
<1>. DEFINE T == {k \in 0 .. Len(ys) : Stages(f, ys)[k] = Stages(f, xs)[k]}
<1>1. /\ Stages(f, xs)[0] = f /\ Stages(f, ys)[0] = f
      /\ \A k \in 1 .. Len(xs) : Stages(f, xs)[k] = Passed(Stages(f, xs)[k - 1], xs[k])
      /\ \A k \in 1 .. Len(ys) : Stages(f, ys)[k] = Passed(Stages(f, ys)[k - 1], ys[k])
  BY StagesSteps
<1>2. 0 \in T
  BY <1>1
<1>3. ASSUME NEW k \in 0 .. (Len(ys) - 1), k \in T PROVE k + 1 \in T
  <2>1. k + 1 \in 1 .. Len(ys) /\ k + 1 \in 1 .. Len(xs) /\ (k + 1) - 1 = k /\ k + 1 \in 0 .. Len(ys)
    OBVIOUS
  <2>2. Stages(f, ys)[k] = Stages(f, xs)[k]
    BY <1>3
  <2>3. Stages(f, ys)[k + 1] = Stages(f, xs)[k + 1]
    BY <1>1, <2>1, <2>2
  <2>4. QED
    BY <2>1, <2>3
<1>4. 0 .. Len(ys) \subseteq T
  <2>. HIDE DEF T
  <2>1. QED
    BY <1>2, <1>3, BoundedInduction
<1>5. QED
  BY <1>4

Follows(xs, ys) ==
    /\ Len(xs) \in Nat /\ Len(ys) \in Nat /\ Len(xs) = Len(ys) + 1
    /\ \A k \in 1 .. Len(ys) : xs[k + 1] = ys[k]

StagesShift(f, xs, ys) ==
    \A k \in 0 .. Len(ys) : Stages(f, xs)[k + 1] = Stages(Passed(f, xs[1]), ys)[k]

(* The stages after the first write are those of the rest. *)
LEMMA StagesOfRest ==
    ASSUME NEW f, NEW xs, NEW ys, Follows(xs, ys)
    PROVE  StagesShift(f, xs, ys)
<1>. DEFINE g == Passed(f, xs[1])
            T == {k \in 0 .. Len(ys) : Stages(f, xs)[k + 1] = Stages(g, ys)[k]}
<1>. /\ Len(xs) \in Nat /\ Len(ys) \in Nat /\ Len(xs) = Len(ys) + 1
     /\ \A k \in 1 .. Len(ys) : xs[k + 1] = ys[k]
  BY DEF Follows
<1>1. /\ Stages(f, xs)[0] = f /\ Stages(g, ys)[0] = g
      /\ \A k \in 1 .. Len(xs) : Stages(f, xs)[k] = Passed(Stages(f, xs)[k - 1], xs[k])
      /\ \A k \in 1 .. Len(ys) : Stages(g, ys)[k] = Passed(Stages(g, ys)[k - 1], ys[k])
  BY StagesSteps
<1>2. 0 \in T
  <2>1. 1 \in 1 .. Len(xs) /\ 1 - 1 = 0 /\ 0 + 1 = 1
    OBVIOUS
  <2>2. QED
    BY <1>1, <2>1
<1>. HIDE DEF g
<1>3. ASSUME NEW k \in 0 .. (Len(ys) - 1), k \in T PROVE k + 1 \in T
  <2>1. /\ k + 1 \in 1 .. Len(ys) /\ (k + 1) + 1 \in 1 .. Len(xs) /\ (k + 1) - 1 = k
        /\ ((k + 1) + 1) - 1 = k + 1 /\ k + 1 \in 0 .. Len(ys)
    OBVIOUS
  <2>2. Stages(f, xs)[k + 1] = Stages(g, ys)[k]
    BY <1>3
  <2>3. Stages(f, xs)[(k + 1) + 1] = Stages(g, ys)[k + 1]
    BY <1>1, <2>1, <2>2
  <2>4. QED
    BY <2>1, <2>3
<1>4. 0 .. Len(ys) \subseteq T
  <2>. HIDE DEF T
  <2>1. QED
    BY <1>2, <1>3, BoundedInduction
<1>5. QED
  BY <1>4 DEF g, StagesShift
-----------------------------------------------------------------------------
LEMMA SizeFacts ==
    /\ kHeaderSize \in Nat \ {0} /\ kBlockHeaderSize \in Nat \ {0}
    /\ kRecordSize \in Nat \ {0} /\ kRecordsPerBlock \in Nat \ {0}
    /\ kBlockPadSize \in Nat /\ kMaxFileSize \in Nat
    /\ kBlockSize \in Nat \ {0}
    /\ kBlockSize = kBlockHeaderSize + kRecordsPerBlock * kRecordSize + kBlockPadSize
    /\ kRecordsPerBlock * kRecordSize \in Nat \ {0}
    /\ kHeaderSize + kBlockHeaderSize <= kMaxFileSize
    /\ Name \subseteq Nat /\ Frequency \subseteq Nat \ {0}
<1>1. /\ kHeaderSize \in Nat \ {0} /\ kBlockHeaderSize \in Nat \ {0}
      /\ kRecordSize \in Nat \ {0} /\ kRecordsPerBlock \in Nat \ {0}
      /\ kBlockPadSize \in Nat /\ kMaxFileSize \in Nat
      /\ kHeaderSize + kBlockHeaderSize <= kMaxFileSize
      /\ Name \subseteq Nat /\ Frequency \subseteq Nat \ {0}
  BY SizesAssumption
<1>2. \A a, b \in Nat \ {0} : a * b \in Nat \ {0}
  OBVIOUS
<1>3. kRecordsPerBlock * kRecordSize \in Nat \ {0}
  BY <1>1, <1>2
<1>4. kBlockSize = kBlockHeaderSize + kRecordsPerBlock * kRecordSize + kBlockPadSize
  BY DEF kBlockSize
<1>5. kBlockSize \in Nat \ {0}
  BY <1>1, <1>3, <1>4
<1>6. QED
  BY <1>1, <1>3, <1>4, <1>5

LEMMA BlockOffsets ==
    /\ \A b \in Nat : blockOffset(b) \in Nat /\ blockOffset(b + 1) = blockOffset(b) + kBlockSize
    /\ \A b, c \in Nat : b <= c => blockOffset(b) <= blockOffset(c)
    /\ \A b \in Nat : blockOffset(b) >= kHeaderSize
<1>1. \A b \in Nat : b * kBlockSize \in Nat /\ (b + 1) * kBlockSize = b * kBlockSize + kBlockSize
  BY SizeFacts
<1>2. \A b, c \in Nat : b <= c => b * kBlockSize <= c * kBlockSize
  BY SizeFacts
<1>3. QED
  BY <1>1, <1>2, SizeFacts DEF blockOffset

LEMMA RecordOffsets ==
    ASSUME NEW b \in Nat
    PROVE  /\ recordOffset(b, 0) = blockOffset(b) + kBlockHeaderSize
           /\ recordOffset(b, kRecordsPerBlock) + kBlockPadSize = blockOffset(b + 1)
           /\ \A i \in Nat : /\ recordOffset(b, i) \in Nat
                             /\ recordOffset(b, i + 1) = recordOffset(b, i) + kRecordSize
                             /\ recordOffset(b, i) >= recordOffset(b, 0)
           /\ \A i, j \in Nat : i <= j => recordOffset(b, i) <= recordOffset(b, j)
<1>1. \A i \in Nat : i * kRecordSize \in Nat /\ (i + 1) * kRecordSize = i * kRecordSize + kRecordSize
  BY SizeFacts
<1>2. \A i, j \in Nat : i <= j => i * kRecordSize <= j * kRecordSize
  BY SizeFacts
<1>3. blockOffset(b) \in Nat /\ blockOffset(b + 1) = blockOffset(b) + kBlockSize
  BY BlockOffsets
<1>4. 0 * kRecordSize = 0
  BY SizeFacts
<1>5. recordOffset(b, 0) = blockOffset(b) + kBlockHeaderSize
  BY <1>3, <1>4, SizeFacts DEF recordOffset
<1>6. recordOffset(b, kRecordsPerBlock) + kBlockPadSize = blockOffset(b + 1)
  BY <1>3, SizeFacts DEF recordOffset
<1>7. \A i \in Nat : /\ recordOffset(b, i) \in Nat
                     /\ recordOffset(b, i + 1) = recordOffset(b, i) + kRecordSize
                     /\ recordOffset(b, i) >= recordOffset(b, 0)
  BY <1>1, <1>3, <1>5, SizeFacts DEF recordOffset
<1>8. ASSUME NEW i \in Nat, NEW j \in Nat, i <= j PROVE recordOffset(b, i) <= recordOffset(b, j)
  <2>1. i * kRecordSize \in Nat /\ j * kRecordSize \in Nat /\ i * kRecordSize <= j * kRecordSize
    BY <1>1, <1>2, <1>8
  <2>2. QED
    BY <2>1, <1>3, SizeFacts DEF recordOffset
<1>9. QED
  BY <1>5, <1>6, <1>7, <1>8

(* What lies in a block ends before the next one begins. *)
LEMMA BlocksApart ==
    ASSUME NEW b \in Nat, NEW c \in Nat, b < c, NEW i \in 0 .. kRecordsPerBlock
    PROVE  recordOffset(b, i) <= blockOffset(c) /\ blockOffset(c) < recordOffset(c, 0)
<1>1. i \in Nat /\ kRecordsPerBlock \in Nat /\ i <= kRecordsPerBlock /\ b + 1 \in Nat /\ b + 1 <= c
  BY SizeFacts
<1>2. recordOffset(b, i) <= recordOffset(b, kRecordsPerBlock)
  BY <1>1, RecordOffsets
<1>3. /\ recordOffset(b, i) \in Nat /\ recordOffset(b, kRecordsPerBlock) \in Nat
      /\ recordOffset(b, kRecordsPerBlock) + kBlockPadSize = blockOffset(b + 1)
  BY <1>1, RecordOffsets
<1>4. blockOffset(b + 1) <= blockOffset(c) /\ blockOffset(b + 1) \in Nat /\ blockOffset(c) \in Nat
  BY <1>1, BlockOffsets
<1>5. recordOffset(c, 0) = blockOffset(c) + kBlockHeaderSize
  BY RecordOffsets
<1>6. QED
  BY <1>2, <1>3, <1>4, <1>5, SizeFacts
-----------------------------------------------------------------------------
(***************************************************************************)
(* What is in a file: the counts of full blocks and of the last one, and   *)
(* the samples in their order.                                             *)
(***************************************************************************)
Heads(b, i) == [j \in 1 .. (b + 1) |-> IF j <= b THEN kRecordsPerBlock ELSE i]

Samples(m) == [j \in 1 .. m |-> j]

File(q, size, b, i, m) == [freq |-> q, size |-> size, heads |-> Heads(b, i), recs |-> Samples(m)]

(* The samples before block b and the i first of it. *)
Position(b, i) == b * kRecordsPerBlock + i

LEMMA PositionFacts ==
    ASSUME NEW b \in Nat, NEW i \in Nat
    PROVE  /\ Position(b, i) \in Nat
           /\ Position(b, i + 1) = Position(b, i) + 1
           /\ Position(b + 1, 0) = Position(b, kRecordsPerBlock)
<1>1. /\ b * kRecordsPerBlock \in Nat
      /\ (b + 1) * kRecordsPerBlock = b * kRecordsPerBlock + kRecordsPerBlock
  BY SizeFacts
<1>2. QED
  BY <1>1, SizeFacts DEF Position

LEMMA MaxOfTwo == ASSUME NEW a \in Int, NEW b \in Int, a <= b PROVE Max({a, b}) = b
<1>1. b \in {a, b} /\ \A y \in {a, b} : b >= y
  OBVIOUS
<1>2. \A x \in {a, b} : (\A y \in {a, b} : x >= y) => x = b
  OBVIOUS
<1>3. QED
  BY <1>1, <1>2 DEF Max

(* A write at the end of the file, as far as it gets. *)
LEMMA ReachesAtEnd ==
    ASSUME NEW f, NEW x, x.kind # "count", f.size \in Nat, x.at = f.size, NEW n \in Nat
    PROVE  Reaches(f, x, n) = f.size + n
<1>1. f.size \in Int /\ f.size + n \in Int /\ f.size <= f.size + n
  OBVIOUS
<1>2. Max({f.size, f.size + n}) = f.size + n
  BY <1>1, MaxOfTwo
<1>3. QED
  BY <1>2 DEF Reaches

(* A write over what an earlier attempt at it has left. *)
LEMMA ReachesAgain ==
    ASSUME NEW f, NEW x, x.kind # "count", f.size \in Nat, x.at \in Nat, NEW n \in Nat
    PROVE  /\ f.size <= x.at + n => Reaches(f, x, n) = x.at + n
           /\ x.at + n <= f.size => Reaches(f, x, n) = f.size
<1>1. f.size \in Int /\ x.at + n \in Int /\ {f.size, x.at + n} = {x.at + n, f.size}
  OBVIOUS
<1>2. /\ f.size <= x.at + n => Max({f.size, x.at + n}) = x.at + n
      /\ x.at + n <= f.size => Max({x.at + n, f.size}) = f.size
  BY <1>1, MaxOfTwo
<1>3. QED
  BY <1>1, <1>2 DEF Reaches

LEMMA SamplesAppend == ASSUME NEW m \in Nat PROVE Append(Samples(m), m + 1) = Samples(m + 1)
<1>1. Samples(m) \in Seq(Nat) /\ Samples(m + 1) \in Seq(Nat) /\ Len(Samples(m)) = m /\ Len(Samples(m + 1)) = m + 1
  BY DEF Samples
<1>2. Append(Samples(m), m + 1) \in Seq(Nat) /\ Len(Append(Samples(m), m + 1)) = m + 1
  BY <1>1
<1>3. \A j \in 1 .. (m + 1) : Append(Samples(m), m + 1)[j] = Samples(m + 1)[j]
  BY <1>1 DEF Samples
<1>4. QED
  BY <1>1, <1>2, <1>3

LEMMA HeadsAppend ==
    ASSUME NEW b \in Nat
    PROVE  Append(Heads(b, kRecordsPerBlock), 0) = Heads(b + 1, 0)
<1>. DEFINE h == Heads(b, kRecordsPerBlock)
            k == Heads(b + 1, 0)
<1>1. h \in Seq(Nat) /\ k \in Seq(Nat) /\ Len(h) = b + 1 /\ Len(k) = b + 2
  BY SizeFacts DEF Heads
<1>2. Append(h, 0) \in Seq(Nat) /\ Len(Append(h, 0)) = b + 2
  BY <1>1
<1>3. \A j \in 1 .. (b + 2) : Append(h, 0)[j] = k[j]
  BY <1>1 DEF Heads
<1>. HIDE DEF h, k
<1>4. Append(h, 0) = k
  BY <1>1, <1>2, <1>3
<1>5. QED
  BY <1>4 DEF h, k

LEMMA HeadsCount ==
    ASSUME NEW b \in Nat, NEW i, NEW v
    PROVE  [Heads(b, i) EXCEPT ![b + 1] = v] = Heads(b, v)
<1>. DEFINE h == Heads(b, i)
            k == Heads(b, v)
<1>1. h = [j \in 1 .. (b + 1) |-> h[j]] /\ k = [j \in 1 .. (b + 1) |-> k[j]]
  BY DEF Heads
<1>2. [h EXCEPT ![b + 1] = v] = [j \in 1 .. (b + 1) |-> IF j = b + 1 THEN v ELSE h[j]]
  BY <1>1
<1>3. \A j \in 1 .. (b + 1) : k[j] = IF j = b + 1 THEN v ELSE h[j]
  BY DEF Heads
<1>. HIDE DEF h, k
<1>4. [h EXCEPT ![b + 1] = v] = k
  BY <1>1, <1>2, <1>3
<1>5. QED
  BY <1>4 DEF h, k
-----------------------------------------------------------------------------
LEMMA FileFields ==
    ASSUME NEW q, NEW size, NEW b, NEW i, NEW m
    PROVE  /\ File(q, size, b, i, m).freq = q /\ File(q, size, b, i, m).size = size
           /\ File(q, size, b, i, m).heads = Heads(b, i) /\ File(q, size, b, i, m).recs = Samples(m)
BY DEF File

LEMMA FileResized ==
    ASSUME NEW q, NEW size, NEW b, NEW i, NEW m, NEW r
    PROVE  [File(q, size, b, i, m) EXCEPT !.size = r] = File(q, r, b, i, m)
BY DEF File

LEMMA RecordPassed ==
    ASSUME NEW q, NEW b \in Nat, NEW i \in Nat, NEW m \in Nat, NEW size \in Nat
    PROVE  Passed(File(q, size, b, i, m), Write("record", size, kRecordSize, b, m + 1))
             = File(q, size + kRecordSize, b, i, m + 1)
<1>. DEFINE f == File(q, size, b, i, m)
            x == Write("record", size, kRecordSize, b, m + 1)
<1>1. /\ x.kind = "record" /\ x.at = size /\ x.len = kRecordSize /\ x.v = m + 1
      /\ f.size = size /\ f.heads = Heads(b, i) /\ f.recs = Samples(m)
      /\ kRecordSize \in Nat
  BY FileFields, SizeFacts DEF Write
<1>2. Reaches(f, x, x.len) = size + kRecordSize
  <2>. HIDE DEF f, x
  <2>1. QED
    BY <1>1, ReachesAtEnd
<1>3. Append(Samples(m), m + 1) = Samples(m + 1)
  BY SamplesAppend
<1>4. Passed(f, x) = [f EXCEPT !.size = size + kRecordSize, !.heads = Heads(b, i), !.recs = Samples(m + 1)]
  <2>. HIDE DEF f, x
  <2>1. QED
    BY <1>1, <1>2, <1>3 DEF Passed
<1>5. QED
  BY <1>4 DEF File

LEMMA CountPassed ==
    ASSUME NEW q, NEW b \in Nat, NEW i, NEW m, NEW size, NEW at, NEW len, NEW v
    PROVE  Passed(File(q, size, b, i, m), Write("count", at, len, b, v)) = File(q, size, b, v, m)
<1>. DEFINE f == File(q, size, b, i, m)
            x == Write("count", at, len, b, v)
<1>1. /\ x.kind = "count" /\ x.b = b /\ x.v = v
      /\ f.size = size /\ f.heads = Heads(b, i) /\ f.recs = Samples(m)
  BY FileFields DEF Write
<1>2. Reaches(f, x, x.len) = size
  <2>. HIDE DEF f, x
  <2>1. QED
    BY <1>1 DEF Reaches
<1>3. [Heads(b, i) EXCEPT ![b + 1] = v] = Heads(b, v)
  BY HeadsCount
<1>4. Passed(f, x) = [f EXCEPT !.size = size, !.heads = Heads(b, v), !.recs = Samples(m)]
  <2>. HIDE DEF f, x
  <2>1. QED
    BY <1>1, <1>2, <1>3 DEF Passed
<1>5. QED
  BY <1>4 DEF File

LEMMA PadPassed ==
    ASSUME NEW q, NEW b, NEW c, NEW i, NEW m, NEW size \in Nat
    PROVE  Passed(File(q, size, b, i, m), Write("pad", size, kBlockPadSize, c, 0))
             = File(q, size + kBlockPadSize, b, i, m)
<1>. DEFINE f == File(q, size, b, i, m)
            x == Write("pad", size, kBlockPadSize, c, 0)
<1>1. /\ x.kind = "pad" /\ x.at = size /\ x.len = kBlockPadSize
      /\ f.size = size /\ f.heads = Heads(b, i) /\ f.recs = Samples(m)
      /\ kBlockPadSize \in Nat
  BY FileFields, SizeFacts DEF Write
<1>2. Reaches(f, x, x.len) = size + kBlockPadSize
  <2>. HIDE DEF f, x
  <2>1. QED
    BY <1>1, ReachesAtEnd
<1>4. Passed(f, x) = [f EXCEPT !.size = size + kBlockPadSize, !.heads = Heads(b, i), !.recs = Samples(m)]
  <2>. HIDE DEF f, x
  <2>1. QED
    BY <1>1, <1>2 DEF Passed
<1>5. QED
  BY <1>4 DEF File

LEMMA HeadPassed ==
    ASSUME NEW q, NEW b \in Nat, NEW c, c = b + 1, NEW m, NEW at \in Nat,
           NEW top \in Nat, top = at + kBlockHeaderSize, NEW size \in Nat, size <= top
    PROVE  Passed(File(q, size, b, kRecordsPerBlock, m), Write("head", at, kBlockHeaderSize, c, 0))
             = File(q, top, c, 0, m)
<1>. DEFINE f == File(q, size, b, kRecordsPerBlock, m)
            x == Write("head", at, kBlockHeaderSize, c, 0)
<1>1. /\ x.kind = "head" /\ x.at = at /\ x.len = kBlockHeaderSize
      /\ f.size = size /\ f.heads = Heads(b, kRecordsPerBlock) /\ f.recs = Samples(m)
      /\ kBlockHeaderSize \in Nat
  BY SizeFacts, FileFields DEF Write
<1>2. Reaches(f, x, x.len) = top
  <2>. HIDE DEF f, x
  <2>1. QED
    BY <1>1, ReachesAgain
<1>3. Append(Heads(b, kRecordsPerBlock), 0) = Heads(c, 0)
  BY HeadsAppend
<1>4. Passed(f, x) = [f EXCEPT !.size = top, !.heads = Heads(c, 0), !.recs = Samples(m)]
  <2>. HIDE DEF f, x
  <2>1. QED
    BY <1>1, <1>2, <1>3 DEF Passed
<1>5. QED
  BY <1>4 DEF File

(* A file of which only a part of the headers has been written. *)
NoHeaders(q, size) == [freq |-> q, size |-> size, heads |-> <<>>, recs |-> <<>>]

LEMMA HeadersPassed ==
    ASSUME NEW q, NEW size \in 0 .. (kHeaderSize + kBlockHeaderSize)
    PROVE  Passed(NoHeaders(q, size), FileHeaders) = File(q, recordOffset(0, 0), 0, 0, 0)
<1>. DEFINE f == NoHeaders(q, size)
            x == FileHeaders
            z == kHeaderSize + kBlockHeaderSize
<1>1. /\ x.kind = "head" /\ x.at = 0 /\ x.len = z /\ f.size = size /\ f.heads = <<>> /\ f.recs = <<>>
      /\ z \in Nat /\ 0 \in Nat /\ size \in Nat /\ size <= 0 + z
  <2>1. z \in Nat /\ size \in Nat /\ size <= 0 + z
    BY SizeFacts
  <2>2. QED
    BY <2>1 DEF FileHeaders, Write, NoHeaders
<1>2. Reaches(f, x, x.len) = z
  <2>. HIDE DEF f, x
  <2>1. Reaches(f, x, z) = 0 + z
    BY <1>1, ReachesAgain
  <2>2. QED
    BY <1>1, <2>1
<1>3. Append(<<>>, 0) = Heads(0, 0) /\ <<>> = Samples(0)
  BY DEF Heads, Samples
<1>4. Passed(f, x) = [f EXCEPT !.size = z, !.heads = Heads(0, 0), !.recs = Samples(0)]
  <2>. HIDE DEF f, x
  <2>1. QED
    BY <1>1, <1>2, <1>3 DEF Passed
<1>5. z = recordOffset(0, 0)
  BY SizeFacts DEF recordOffset, blockOffset
<1>6. QED
  BY <1>4, <1>5 DEF File, NoHeaders
-----------------------------------------------------------------------------
(* A file to which b blocks and i samples have been written, and no more. *)
Full(q, b, i) == File(q, recordOffset(b, i), b, i, Position(b, i))

LEMMA ConcatFacts ==
    ASSUME NEW V, NEW a \in Seq(V), NEW c \in Seq(V)
    PROVE  /\ a \o c \in Seq(V) /\ Len(a \o c) = Len(a) + Len(c)
           /\ \A k \in 1 .. (Len(a) + Len(c)) :
                (a \o c)[k] = IF k <= Len(a) THEN a[k] ELSE c[k - Len(a)]
OBVIOUS

LEMMA RecordWritesForm ==
    ASSUME NEW w, NEW s
    PROVE  LET b == w.blkIndex
               n == w.dataCnt + 1
               xs == RecordWrites(w, s)
           IN  /\ xs[1] = Write("record", recordOffset(b, w.dataCnt), kRecordSize, b, s)
               /\ xs[2] = Write("count", blockOffset(b) + 4, 2, b, n)
               /\ n # kRecordsPerBlock => Len(xs) = 2 /\ xs \in Seq({xs[1], xs[2]})
               /\ n = kRecordsPerBlock =>
                    /\ xs[3] = Write("pad", recordOffset(b, n), kBlockPadSize, b, 0)
                    /\ xs[4] = Write("head", blockOffset(b + 1), kBlockHeaderSize, b + 1, 0)
                    /\ Len(xs) = 4 /\ xs \in Seq({xs[1], xs[2], xs[3], xs[4]})
<1>. DEFINE b == w.blkIndex
            n == w.dataCnt + 1
            x1 == Write("record", recordOffset(b, w.dataCnt), kRecordSize, b, s)
            x2 == Write("count", blockOffset(b) + 4, 2, b, n)
            x3 == Write("pad", recordOffset(b, n), kBlockPadSize, b, 0)
            x4 == Write("head", blockOffset(b + 1), kBlockHeaderSize, b + 1, 0)
            xs == RecordWrites(w, s)
<1>1. xs = <<x1, x2>> \o IF n # kRecordsPerBlock THEN <<>> ELSE <<x3, x4>>
  BY DEF RecordWrites
<1>. HIDE DEF b, n, x1, x2, x3, x4
<1>2. CASE n # kRecordsPerBlock
  <2>1. xs = <<x1, x2>> \o <<>>
    BY <1>1, <1>2
  <2>. HIDE DEF xs
  <2>2. xs = <<x1, x2>>
    BY <2>1
  <2>3. xs[1] = x1 /\ xs[2] = x2 /\ Len(xs) = 2 /\ xs \in Seq({x1, x2})
    BY <2>2
  <2>4. QED
    BY <1>2, <2>3 DEF b, n, x1, x2, xs
<1>3. CASE n = kRecordsPerBlock
  <2>1. xs = <<x1, x2>> \o <<x3, x4>>
    BY <1>1, <1>3
  <2>. HIDE DEF xs
  <2>2. PICK a, c : a = <<x1, x2>> /\ c = <<x3, x4>>
    OBVIOUS
  <2>5. /\ a \in Seq({x1, x2, x3, x4}) /\ c \in Seq({x1, x2, x3, x4})
        /\ Len(a) = 2 /\ Len(c) = 2
        /\ a[1] = x1 /\ a[2] = x2 /\ c[1] = x3 /\ c[2] = x4
    BY <2>2
  <2>6. xs = a \o c
    BY <2>1, <2>2
  <2>7. /\ xs \in Seq({x1, x2, x3, x4}) /\ Len(xs) = 2 + 2
        /\ \A k \in 1 .. (2 + 2) : xs[k] = IF k <= 2 THEN a[k] ELSE c[k - 2]
    BY <2>5, <2>6, ConcatFacts
  <2>8. \A k \in 1 .. 4 : xs[k] = IF k <= 2 THEN a[k] ELSE c[k - 2]
    BY <2>7
  <2>3. /\ xs[1] = x1 /\ xs[2] = x2 /\ xs[3] = x3 /\ xs[4] = x4 /\ Len(xs) = 4
        /\ xs \in Seq({x1, x2, x3, x4})
    BY <2>5, <2>7, <2>8
  <2>4. QED
    BY <1>3, <2>3 DEF b, n, x1, x2, x3, x4, xs
<1>4. QED
  BY <1>2, <1>3

(* The writes xs of an append by w, after b blocks and i samples, and the   *)
(* stages S of the file.                                                   *)
Appends(q, w, b, i, xs, S) ==
    /\ w.blkIndex = b
    /\ w.dataCnt = i
    /\ xs = RecordWrites(w, Position(b, i) + 1)
    /\ S = Stages(Full(q, b, i), xs)

(***************************************************************************)
(* The stages of appendRecord(): the sample is there before it is counted, *)
(* and a full block is counted before the next one begins.                 *)
(***************************************************************************)
LEMMA RecordStages ==
    ASSUME NEW q, NEW w, NEW b \in Nat, NEW i \in 0 .. (kRecordsPerBlock - 1),
           NEW xs, NEW S, Appends(q, w, b, i, xs, S)
    PROVE  /\ S[0] = Full(q, b, i)
           /\ S[1] = File(q, recordOffset(b, i + 1), b, i, Position(b, i + 1))
           /\ S[2] = File(q, recordOffset(b, i + 1), b, i + 1, Position(b, i + 1))
           /\ i + 1 = kRecordsPerBlock =>
                /\ S[3] = File(q, blockOffset(b + 1), b, kRecordsPerBlock, Position(b + 1, 0))
                /\ S[4] = Full(q, b + 1, 0)
<1>. DEFINE n == i + 1
            m == Position(b, i)
<1>0. i \in Nat /\ n \in Nat /\ m \in Nat /\ Position(b, n) = m + 1
  BY PositionFacts, SizeFacts
<1>1. /\ xs[1] = Write("record", recordOffset(b, i), kRecordSize, b, m + 1)
      /\ xs[2] = Write("count", blockOffset(b) + 4, 2, b, n)
      /\ n # kRecordsPerBlock => Len(xs) = 2
      /\ n = kRecordsPerBlock =>
           /\ xs[3] = Write("pad", recordOffset(b, n), kBlockPadSize, b, 0)
           /\ xs[4] = Write("head", blockOffset(b + 1), kBlockHeaderSize, b + 1, 0)
           /\ Len(xs) = 4
  BY RecordWritesForm DEF Appends
<1>. HIDE DEF n, m
<1>2. Len(xs) \in {2, 4} /\ (n = kRecordsPerBlock => Len(xs) = 4)
  BY <1>1
<1>3. /\ S[0] = Full(q, b, i)
      /\ \A k \in 1 .. Len(xs) : S[k] = Passed(S[k - 1], xs[k])
  BY <1>2, StagesSteps DEF Appends
<1>4. /\ S[1] = Passed(S[0], xs[1]) /\ S[2] = Passed(S[1], xs[2])
      /\ Len(xs) = 4 => S[3] = Passed(S[2], xs[3]) /\ S[4] = Passed(S[3], xs[4])
  <2>1. \A L \in {2, 4} : /\ 1 \in 1 .. L /\ 2 \in 1 .. L
                          /\ L = 4 => 3 \in 1 .. L /\ 4 \in 1 .. L
    OBVIOUS
  <2>2. /\ 1 \in 1 .. Len(xs) /\ 2 \in 1 .. Len(xs)
        /\ Len(xs) = 4 => 3 \in 1 .. Len(xs) /\ 4 \in 1 .. Len(xs)
    BY <1>2, <2>1
  <2>3. 1 - 1 = 0 /\ 2 - 1 = 1 /\ 3 - 1 = 2 /\ 4 - 1 = 3
    OBVIOUS
  <2>4. S[1] = Passed(S[1 - 1], xs[1]) /\ S[2] = Passed(S[2 - 1], xs[2])
    BY <1>3, <2>2
  <2>5. Len(xs) = 4 => S[3] = Passed(S[3 - 1], xs[3]) /\ S[4] = Passed(S[4 - 1], xs[4])
    BY <1>3, <2>2
  <2>6. QED
    BY <2>3, <2>4, <2>5
<1>5. recordOffset(b, i) \in Nat /\ recordOffset(b, n) = recordOffset(b, i) + kRecordSize
  BY <1>0, RecordOffsets DEF n
<1>6. S[1] = File(q, recordOffset(b, n), b, i, m + 1)
  BY <1>0, <1>1, <1>3, <1>4, <1>5, RecordPassed DEF Full, m
<1>7. S[2] = File(q, recordOffset(b, n), b, n, m + 1)
  BY <1>1, <1>4, <1>6, CountPassed
<1>8. ASSUME n = kRecordsPerBlock
      PROVE  /\ S[3] = File(q, blockOffset(b + 1), b, kRecordsPerBlock, Position(b + 1, 0))
             /\ S[4] = Full(q, b + 1, 0)
  <2>1. Position(b + 1, 0) = m + 1
    BY <1>0, <1>8, PositionFacts
  <2>2. recordOffset(b, n) \in Nat /\ recordOffset(b, n) + kBlockPadSize = blockOffset(b + 1)
    BY <1>0, <1>8, RecordOffsets
  <2>3. S[3] = File(q, blockOffset(b + 1), b, n, m + 1)
    <3>1. Passed(File(q, recordOffset(b, n), b, n, m + 1), Write("pad", recordOffset(b, n), kBlockPadSize, b, 0))
            = File(q, recordOffset(b, n) + kBlockPadSize, b, n, m + 1)
      BY <2>2, PadPassed
    <3>2. QED
      BY <1>1, <1>4, <1>7, <1>8, <2>2, <3>1
  <2>4. b + 1 \in Nat /\ blockOffset(b + 1) \in Nat
    BY BlockOffsets
  <2>5. blockOffset(b + 1) + kBlockHeaderSize = recordOffset(b + 1, 0)
    BY <2>4, RecordOffsets
  <2>8. blockOffset(b + 1) <= blockOffset(b + 1) + kBlockHeaderSize
    BY <2>4, SizeFacts
  <2>6. S[4] = File(q, recordOffset(b + 1, 0), b + 1, 0, m + 1)
    <3>1. PICK at \in Nat, c, top \in Nat :
            at = blockOffset(b + 1) /\ c = b + 1 /\ top = recordOffset(b + 1, 0)
      BY <2>4, <2>5, SizeFacts
    <3>2. top = at + kBlockHeaderSize /\ at <= top
      BY <2>5, <2>8, <3>1
    <3>3. Passed(File(q, at, b, kRecordsPerBlock, m + 1), Write("head", at, kBlockHeaderSize, c, 0))
            = File(q, top, c, 0, m + 1)
      BY <3>1, <3>2, HeadPassed
    <3>4. QED
      BY <1>1, <1>4, <1>8, <2>3, <3>1, <3>3
  <2>7. QED
    BY <1>8, <2>1, <2>3, <2>5, <2>6 DEF Full
<1>9. QED
  BY <1>0, <1>3, <1>6, <1>7, <1>8 DEF n
-----------------------------------------------------------------------------
(***************************************************************************)
(* What can be left of a file: either its headers have not been written in *)
(* full, or it has b full blocks and counts i samples in the next one, and *)
(* what follows is not yet a header.                                       *)
(***************************************************************************)
Headless(f) ==
    /\ f.size \in Nat
    /\ f.size < kHeaderSize + kBlockHeaderSize
    /\ f.heads = <<>>
    /\ f.recs = <<>>

Shape(f, b, i, m) ==
    /\ f = File(f.freq, f.size, b, i, m)
    /\ f.size \in Nat
    /\ Position(b, i) <= m
    /\ recordOffset(b, i) <= f.size
    /\ f.size < recordOffset(b + 1, 0)

(* The file has between lo and hi samples. *)
Kept(f, lo, hi) ==
    /\ f.freq \in Frequency
    /\ f.size <= kMaxFileSize
    /\ \/ Headless(f) /\ lo = 0
       \/ \E b \in Nat, i \in 0 .. kRecordsPerBlock, m \in Nat :
            Shape(f, b, i, m) /\ lo <= Position(b, i) /\ Position(b, i) <= hi

LEMMA KeptFile ==
    ASSUME NEW q \in Frequency, NEW size \in Nat, NEW b \in Nat, NEW i \in 0 .. kRecordsPerBlock,
           NEW m \in Nat, NEW lo \in Nat, NEW hi \in Nat,
           Position(b, i) <= m, lo <= Position(b, i), Position(b, i) <= hi,
           recordOffset(b, i) <= size, size < recordOffset(b + 1, 0), size <= kMaxFileSize
    PROVE  Kept(File(q, size, b, i, m), lo, hi)
<1>1. PICK f : f = File(q, size, b, i, m)
  OBVIOUS
<1>2. f.freq = q /\ f.size = size
  BY <1>1, FileFields
<1>3. Shape(f, b, i, m)
  BY <1>1, <1>2 DEF Shape
<1>4. QED
  BY <1>1, <1>2, <1>3 DEF Kept

LEMMA KeptWeaker ==
    ASSUME NEW f, NEW lo \in Nat, NEW l \in Nat, NEW hi \in Nat, NEW h \in Nat,
           Kept(f, l, hi), lo <= l, hi <= h
    PROVE  Kept(f, lo, h)
<1>1. CASE Headless(f) /\ l = 0
  BY <1>1 DEF Kept
<1>2. CASE \E b \in Nat, i \in 0 .. kRecordsPerBlock, m \in Nat :
            Shape(f, b, i, m) /\ l <= Position(b, i) /\ Position(b, i) <= hi
  <2>1. PICK b \in Nat, i \in 0 .. kRecordsPerBlock, m \in Nat :
            Shape(f, b, i, m) /\ l <= Position(b, i) /\ Position(b, i) <= hi
    BY <1>2
  <2>5. i \in Nat
    BY SizeFacts
  <2>2. Position(b, i) \in Nat
    BY <2>5, PositionFacts
  <2>3. lo <= Position(b, i) /\ Position(b, i) <= h
    BY <2>1, <2>2
  <2>4. QED
    BY <2>1, <2>3 DEF Kept
<1>3. QED
  BY <1>1, <1>2 DEF Kept

(* There is room for the record and for what a full block brings with it. *)
Room(b, i) ==
    IF i + 1 = kRecordsPerBlock THEN recordOffset(b + 1, 0) <= kMaxFileSize
    ELSE recordOffset(b, i + 1) <= kMaxFileSize

(* The offsets an append passes, in order. *)
LEMMA AppendOffsets ==
    ASSUME NEW b \in Nat, NEW i \in 0 .. (kRecordsPerBlock - 1)
    PROVE  /\ recordOffset(b, i) \in Nat /\ recordOffset(b, i + 1) \in Nat
           /\ blockOffset(b + 1) \in Nat /\ recordOffset(b + 1, 0) \in Nat
           /\ recordOffset(b, i + 1) = recordOffset(b, i) + kRecordSize
           /\ recordOffset(b, i + 1) <= blockOffset(b + 1)
           /\ blockOffset(b + 1) + kBlockHeaderSize = recordOffset(b + 1, 0)
           /\ i + 1 = kRecordsPerBlock =>
                recordOffset(b, i + 1) + kBlockPadSize = blockOffset(b + 1)
           /\ recordOffset(b + 1, 0) < recordOffset(b + 2, 0)
<1>1. i \in Nat /\ i + 1 \in Nat /\ b + 1 \in Nat /\ b + 2 \in Nat /\ b < b + 1 /\ (b + 1) + 1 = b + 2
      /\ b + 1 < b + 2
  OBVIOUS
<1>2. i + 1 \in 0 .. kRecordsPerBlock /\ 0 \in 0 .. kRecordsPerBlock
  BY SizeFacts
<1>3. recordOffset(b, i) \in Nat /\ recordOffset(b, i + 1) \in Nat /\ recordOffset(b + 1, 0) \in Nat
      /\ recordOffset(b + 2, 0) \in Nat
  BY <1>1, RecordOffsets
<1>4. blockOffset(b + 1) \in Nat /\ blockOffset(b + 2) \in Nat
  BY <1>1, BlockOffsets
<1>5. recordOffset(b, i + 1) = recordOffset(b, i) + kRecordSize
  BY <1>1, RecordOffsets
<1>6. recordOffset(b, i + 1) <= blockOffset(b + 1)
  BY <1>1, <1>2, BlocksApart
<1>7. blockOffset(b + 1) + kBlockHeaderSize = recordOffset(b + 1, 0)
  BY <1>1, RecordOffsets
<1>8. i + 1 = kRecordsPerBlock => recordOffset(b, i + 1) + kBlockPadSize = blockOffset(b + 1)
  BY RecordOffsets
<1>9. recordOffset(b + 1, 0) <= blockOffset(b + 2) /\ blockOffset(b + 2) < recordOffset(b + 2, 0)
  BY <1>1, <1>2, BlocksApart
<1>10. QED
  BY <1>3, <1>4, <1>5, <1>6, <1>7, <1>8, <1>9

(* Wherever an append stops, the file has the samples it had, or one more. *)
LEMMA RecordSurvives ==
    ASSUME NEW q \in Frequency, NEW w, NEW b \in Nat, NEW i \in 0 .. (kRecordsPerBlock - 1),
           Room(b, i), NEW xs, NEW S, Appends(q, w, b, i, xs, S)
    PROVE  /\ \A k \in 0 .. Len(xs) : Kept(S[k], Position(b, i), Position(b, i) + 1)
           /\ \A k \in 1 .. Len(xs) : \A n \in 0 .. (xs[k].len - 1) :
                Kept([S[k - 1] EXCEPT !.size = Reaches(S[k - 1], xs[k], n)],
                     Position(b, i), Position(b, i) + 1)
<1>. DEFINE lo == Position(b, i)
            hi == Position(b, i) + 1
<1>1. /\ i \in Nat /\ i \in 0 .. kRecordsPerBlock /\ i + 1 \in 0 .. kRecordsPerBlock /\ 0 \in 0 .. kRecordsPerBlock /\ kRecordsPerBlock \in 0 .. kRecordsPerBlock /\ kRecordsPerBlock \in Nat
      /\ b + 1 \in Nat /\ (b + 1) + 1 = b + 2
  BY SizeFacts
<1>2. /\ lo \in Nat /\ hi \in Nat /\ Position(b, i + 1) = hi
      /\ Position(b + 1, 0) = Position(b, kRecordsPerBlock)
  BY <1>1, PositionFacts
<1>3. /\ S[0] = Full(q, b, i)
      /\ S[1] = File(q, recordOffset(b, i + 1), b, i, hi)
      /\ S[2] = File(q, recordOffset(b, i + 1), b, i + 1, hi)
      /\ i + 1 = kRecordsPerBlock => /\ S[3] = File(q, blockOffset(b + 1), b, kRecordsPerBlock, Position(b + 1, 0))
                      /\ S[4] = Full(q, b + 1, 0)
  BY <1>2, RecordStages
<1>4. /\ xs[1] = Write("record", recordOffset(b, i), kRecordSize, b, lo + 1)
      /\ xs[2] = Write("count", blockOffset(b) + 4, 2, b, i + 1)
      /\ i + 1 # kRecordsPerBlock => Len(xs) = 2
      /\ i + 1 = kRecordsPerBlock =>
           /\ xs[3] = Write("pad", recordOffset(b, i + 1), kBlockPadSize, b, 0)
           /\ xs[4] = Write("head", blockOffset(b + 1), kBlockHeaderSize, b + 1, 0)
           /\ Len(xs) = 4
  BY RecordWritesForm DEF Appends
<1>5. /\ recordOffset(b, i) \in Nat /\ recordOffset(b, i + 1) \in Nat
      /\ blockOffset(b + 1) \in Nat /\ recordOffset(b + 1, 0) \in Nat
      /\ recordOffset(b, i + 1) = recordOffset(b, i) + kRecordSize
      /\ recordOffset(b, i + 1) <= blockOffset(b + 1)
      /\ blockOffset(b + 1) + kBlockHeaderSize = recordOffset(b + 1, 0)
      /\ i + 1 = kRecordsPerBlock => recordOffset(b, i + 1) + kBlockPadSize = blockOffset(b + 1)
      /\ recordOffset(b + 1, 0) < recordOffset(b + 2, 0)
  BY AppendOffsets
<1>6. recordOffset(b, i + 1) <= kMaxFileSize /\ (i + 1 = kRecordsPerBlock => recordOffset(b + 1, 0) <= kMaxFileSize)
  BY <1>5, SizeFacts DEF Room
<1>18. lo <= lo /\ lo <= hi /\ hi <= hi /\ Position(b, i) = lo /\ hi = lo + 1
  BY <1>2
<1>. HIDE DEF lo, hi
<1>7. ASSUME NEW n \in Nat, n <= kRecordSize
      PROVE  Kept(File(q, recordOffset(b, i) + n, b, i, lo), lo, hi) /\ Kept(File(q, recordOffset(b, i) + n, b, i, hi), lo, hi)
  <2>1. /\ recordOffset(b, i) + n \in Nat /\ recordOffset(b, i) <= recordOffset(b, i) + n
        /\ recordOffset(b, i) + n < recordOffset(b + 1, 0) /\ recordOffset(b, i) + n <= kMaxFileSize
    BY <1>5, <1>6, <1>7, SizeFacts
  <2>2. QED
    BY <1>1, <1>2, <1>18, <2>1, KeptFile
<1>8. Kept(S[0], lo, hi) /\ Kept(S[1], lo, hi) /\ Kept(S[2], lo, hi)
  <2>1. Kept(S[0], lo, hi)
    <3>1. recordOffset(b, i) + 0 = recordOffset(b, i) /\ 0 \in Nat /\ 0 <= kRecordSize
      BY <1>5, SizeFacts
    <3>2. Kept(File(q, recordOffset(b, i) + 0, b, i, lo), lo, hi)
      BY <1>7, <3>1
    <3>3. QED
      BY <3>1, <3>2, <1>3 DEF Full, lo
  <2>2. Kept(S[1], lo, hi)
    <3>1. kRecordSize \in Nat /\ kRecordSize <= kRecordSize
      BY SizeFacts
    <3>2. Kept(File(q, recordOffset(b, i) + kRecordSize, b, i, hi), lo, hi)
      BY <1>7, <3>1
    <3>3. QED
      BY <3>2, <1>3, <1>5
  <2>3. Kept(S[2], lo, hi)
    <3>1. /\ recordOffset(b, i + 1) <= recordOffset(b, i + 1)
          /\ recordOffset(b, i + 1) < recordOffset(b + 1, 0)
      BY <1>5, SizeFacts
    <3>4. lo <= Position(b, i + 1) /\ Position(b, i + 1) <= hi
      BY <1>2, <1>18
    <3>2. Kept(File(q, recordOffset(b, i + 1), b, i + 1, hi), lo, hi)
      BY <1>1, <1>2, <1>5, <1>6, <3>1, <3>4, KeptFile
    <3>3. QED
      BY <1>3, <3>2
  <2>4. QED
    BY <2>1, <2>2, <2>3
<1>9. ASSUME i + 1 = kRecordsPerBlock, NEW size \in Nat, recordOffset(b, i + 1) <= size, size < recordOffset(b + 1, 0)
      PROVE  Kept(File(q, size, b, kRecordsPerBlock, hi), lo, hi)
  <2>1. size <= kMaxFileSize /\ Position(b, kRecordsPerBlock) = hi
    <3>1. size <= kMaxFileSize
      BY <1>5, <1>6, <1>9, SizeFacts
    <3>2. QED
      BY <1>2, <1>9, <3>1
  <2>2. recordOffset(b, kRecordsPerBlock) <= size
    BY <1>9
  <2>3. QED
    BY <1>1, <1>2, <1>18, <1>9, <2>1, <2>2, KeptFile
<1>10. ASSUME i + 1 = kRecordsPerBlock PROVE Kept(S[3], lo, hi) /\ Kept(S[4], lo, hi)
  <2>1. Position(b + 1, 0) = hi
    BY <1>2, <1>10
  <2>2. Kept(S[3], lo, hi)
    <3>1. blockOffset(b + 1) < recordOffset(b + 1, 0)
      BY <1>5, SizeFacts
    <3>2. Kept(File(q, blockOffset(b + 1), b, kRecordsPerBlock, hi), lo, hi)
      BY <1>5, <1>9, <1>10, <3>1
    <3>3. QED
      BY <3>2, <1>3, <1>10, <2>1
  <2>3. Kept(S[4], lo, hi)
    <3>1. /\ recordOffset(b + 1, 0) <= recordOffset(b + 1, 0)
          /\ recordOffset(b + 1, 0) < recordOffset((b + 1) + 1, 0)
      BY <1>1, <1>5
    <3>4. lo <= Position(b + 1, 0) /\ Position(b + 1, 0) <= hi
      BY <1>18, <2>1
    <3>2. Kept(File(q, recordOffset(b + 1, 0), b + 1, 0, hi), lo, hi)
      BY <1>1, <1>2, <1>5, <1>6, <1>10, <3>1, <3>4, KeptFile
    <3>3. QED
      BY <3>2, <1>3, <1>10, <2>1 DEF Full
  <2>4. QED
    BY <2>2, <2>3
<1>11. ASSUME NEW k \in 0 .. Len(xs) PROVE Kept(S[k], lo, hi)
  <2>1. CASE i + 1 # kRecordsPerBlock
    <3>0. Len(xs) = 2
      BY <1>4, <2>1
    <3>3. k \in 0 .. 2
      BY <3>0
    <3>1. k \in {0, 1, 2}
      BY <3>3
    <3>2. QED
      BY <1>8, <3>1
  <2>2. CASE i + 1 = kRecordsPerBlock
    <3>0. Len(xs) = 4
      BY <1>4, <2>2
    <3>3. k \in 0 .. 4
      BY <3>0
    <3>1. k \in {0, 1, 2, 3, 4}
      BY <3>3
    <3>2. QED
      BY <1>8, <1>10, <2>2, <3>1
  <2>3. QED
    BY <2>1, <2>2
<1>. DEFINE Cut(k, n) == [S[k - 1] EXCEPT !.size = Reaches(S[k - 1], xs[k], n)]
<1>12. ASSUME NEW n \in 0 .. (xs[1].len - 1) PROVE Kept(Cut(1, n), lo, hi)
  <2>1. xs[1].kind = "record" /\ xs[1].at = recordOffset(b, i) /\ xs[1].len = kRecordSize
    BY <1>4 DEF Write
  <2>2. n \in Nat /\ n <= kRecordSize
    BY <2>1, SizeFacts
  <2>3. S[1 - 1] = File(q, recordOffset(b, i), b, i, lo)
    BY <1>3 DEF Full, lo
  <2>4. S[1 - 1].size = recordOffset(b, i)
    BY <2>3, FileFields
  <2>5. Reaches(S[1 - 1], xs[1], n) = recordOffset(b, i) + n
    BY <1>5, <2>1, <2>2, <2>4, ReachesAtEnd
  <2>6. Cut(1, n) = File(q, recordOffset(b, i) + n, b, i, lo)
    BY <2>3, <2>5, FileResized
  <2>7. QED
    BY <1>7, <2>2, <2>6
<1>13. ASSUME NEW n PROVE Kept(Cut(2, n), lo, hi)
  <2>1. xs[2].kind = "count"
    BY <1>4 DEF Write
  <2>2. S[2 - 1] = File(q, recordOffset(b, i + 1), b, i, hi)
    BY <1>3
  <2>3. Reaches(S[2 - 1], xs[2], n) = recordOffset(b, i + 1)
    BY <2>1, <2>2, FileFields DEF Reaches
  <2>4. Cut(2, n) = S[1]
    BY <2>2, <2>3, <1>3, FileResized
  <2>5. QED
    BY <1>8, <2>4
<1>14. ASSUME i + 1 = kRecordsPerBlock, NEW n \in 0 .. (xs[3].len - 1) PROVE Kept(Cut(3, n), lo, hi)
  <2>1. xs[3].kind = "pad" /\ xs[3].at = recordOffset(b, i + 1) /\ xs[3].len = kBlockPadSize
    BY <1>4, <1>14 DEF Write
  <2>2. n \in Nat /\ n < kBlockPadSize
    BY <2>1, SizeFacts
  <2>3. S[3 - 1] = File(q, recordOffset(b, i + 1), b, kRecordsPerBlock, hi)
    BY <1>3, <1>14
  <2>4. S[3 - 1].size = recordOffset(b, i + 1)
    BY <2>3, FileFields
  <2>5. Reaches(S[3 - 1], xs[3], n) = recordOffset(b, i + 1) + n
    BY <1>5, <2>1, <2>2, <2>4, ReachesAtEnd
  <2>6. Cut(3, n) = File(q, recordOffset(b, i + 1) + n, b, kRecordsPerBlock, hi)
    BY <2>3, <2>5, FileResized
  <2>7. /\ recordOffset(b, i + 1) + n \in Nat /\ recordOffset(b, i + 1) <= recordOffset(b, i + 1) + n
        /\ recordOffset(b, i + 1) + n < recordOffset(b + 1, 0)
    BY <1>5, <1>14, <2>2, SizeFacts
  <2>8. QED
    BY <1>9, <1>14, <2>6, <2>7
<1>15. ASSUME i + 1 = kRecordsPerBlock, NEW n \in 0 .. (xs[4].len - 1) PROVE Kept(Cut(4, n), lo, hi)
  <2>1. xs[4].kind = "head" /\ xs[4].at = blockOffset(b + 1) /\ xs[4].len = kBlockHeaderSize
    BY <1>4, <1>15 DEF Write
  <2>2. n \in Nat /\ n < kBlockHeaderSize
    BY <2>1, SizeFacts
  <2>3. S[4 - 1] = File(q, blockOffset(b + 1), b, kRecordsPerBlock, hi)
    BY <1>2, <1>3, <1>15
  <2>4. S[4 - 1].size = blockOffset(b + 1)
    BY <2>3, FileFields
  <2>5. Reaches(S[4 - 1], xs[4], n) = blockOffset(b + 1) + n
    BY <1>5, <2>1, <2>2, <2>4, ReachesAtEnd
  <2>6. Cut(4, n) = File(q, blockOffset(b + 1) + n, b, kRecordsPerBlock, hi)
    BY <2>3, <2>5, FileResized
  <2>7. /\ blockOffset(b + 1) + n \in Nat /\ recordOffset(b, i + 1) <= blockOffset(b + 1) + n
        /\ blockOffset(b + 1) + n < recordOffset(b + 1, 0)
    BY <1>5, <1>15, <2>2, SizeFacts
  <2>8. QED
    BY <1>9, <1>15, <2>6, <2>7
<1>16. ASSUME NEW k \in 1 .. Len(xs), NEW n \in 0 .. (xs[k].len - 1) PROVE Kept(Cut(k, n), lo, hi)
  <2>. HIDE DEF Cut
  <2>1. CASE i + 1 # kRecordsPerBlock
    <3>0. Len(xs) = 2
      BY <1>4, <2>1
    <3>1. k \in {1, 2}
      BY <3>0
    <3>2. QED
      BY <1>12, <1>13, <1>16, <3>1
  <2>2. CASE i + 1 = kRecordsPerBlock
    <3>0. Len(xs) = 4
      BY <1>4, <2>2
    <3>1. k \in {1, 2, 3, 4}
      BY <3>0
    <3>2. QED
      BY <1>12, <1>13, <1>14, <1>15, <1>16, <2>2, <3>1
  <2>3. QED
    BY <2>1, <2>2
<1>17. QED
  BY <1>11, <1>16 DEF lo, hi
-----------------------------------------------------------------------------
(***************************************************************************)
(* The file being recorded after b blocks and i samples, with what is left *)
(* in QFile's buffer: nothing, the headers of a new file, or the last      *)
(* write of an append whose flush() failed.  A part of what is in the      *)
(* buffer may have reached the file.  lo samples are safe.                 *)
(***************************************************************************)
OpenFile(f, buf, q, b, i, lo) ==
    \/ buf = <<>> /\ f = Full(q, b, i) /\ lo <= Position(b, i)
    \/ /\ buf = <<FileHeaders>> /\ b = 0 /\ i = 0 /\ lo = 0
       /\ \E z \in 0 .. (kHeaderSize + kBlockHeaderSize - 1) : f = NoHeaders(q, z)
    \/ /\ buf = <<Write("count", blockOffset(b) + 4, 2, b, i)>>
       /\ i - 1 \in Nat /\ lo <= Position(b, i - 1)
       /\ f = File(q, recordOffset(b, i), b, i - 1, Position(b, i))
    \/ /\ buf = <<Write("head", blockOffset(b), kBlockHeaderSize, b, 0)>>
       /\ i = 0 /\ b - 1 \in Nat /\ lo <= Position(b, 0)
       /\ \E z \in blockOffset(b) .. (recordOffset(b, 0) - 1) :
            f = File(q, z, b - 1, kRecordsPerBlock, Position(b, 0))

LEMMA ConsFacts ==
    ASSUME NEW V, NEW x, NEW ys \in Seq(V)
    PROVE  /\ <<x>> \o ys \in Seq(V \cup {x}) /\ Len(<<x>> \o ys) = Len(ys) + 1
           /\ (<<x>> \o ys)[1] = x
           /\ \A k \in 1 .. Len(ys) : (<<x>> \o ys)[k + 1] = ys[k]
<1>1. <<x>> \in Seq(V \cup {x}) /\ ys \in Seq(V \cup {x}) /\ Len(<<x>>) = 1
  OBVIOUS
<1>2. PICK s : s = <<x>> /\ Len(s) = 1 /\ s[1] = x /\ s \in Seq(V \cup {x})
  BY <1>1
<1>3. /\ s \o ys \in Seq(V \cup {x}) /\ Len(s \o ys) = 1 + Len(ys)
      /\ \A k \in 1 .. (1 + Len(ys)) : (s \o ys)[k] = IF k <= 1 THEN s[k] ELSE ys[k - 1]
  BY <1>1, <1>2, ConcatFacts
<1>4. Len(ys) \in Nat /\ 1 \in 1 .. (1 + Len(ys))
      /\ \A k \in 1 .. Len(ys) : k + 1 \in 1 .. (1 + Len(ys)) /\ ~(k + 1 <= 1) /\ (k + 1) - 1 = k
  OBVIOUS
<1>5. QED
  BY <1>2, <1>3, <1>4

(* The three writes that can be left in the buffer. *)
LEMMA BufferedForms ==
    ASSUME NEW f, NEW x, NEW q, NEW b, NEW i, NEW lo, OpenFile(f, <<x>>, q, b, i, lo)
    PROVE  \/ /\ x = FileHeaders /\ b = 0 /\ i = 0 /\ lo = 0
              /\ \E z \in 0 .. (kHeaderSize + kBlockHeaderSize - 1) : f = NoHeaders(q, z)
           \/ /\ x = Write("count", blockOffset(b) + 4, 2, b, i)
              /\ i - 1 \in Nat /\ lo <= Position(b, i - 1)
              /\ f = File(q, recordOffset(b, i), b, i - 1, Position(b, i))
           \/ /\ x = Write("head", blockOffset(b), kBlockHeaderSize, b, 0)
              /\ i = 0 /\ b - 1 \in Nat /\ lo <= Position(b, 0)
              /\ \E z \in blockOffset(b) .. (recordOffset(b, 0) - 1) :
                   f = File(q, z, b - 1, kRecordsPerBlock, Position(b, 0))
<1>1. \A y, z : <<y>> = <<z>> => y = z
  OBVIOUS
<1>2. \A y : <<y>> # <<>>
  OBVIOUS
<1>3. QED
  BY <1>1, <1>2 DEF OpenFile

(* A write that is left in the buffer completes the file. *)
LEMMA BufferedWrite ==
    ASSUME NEW f, NEW x, NEW q \in Frequency, NEW b \in Nat, NEW i \in 0 .. (kRecordsPerBlock - 1),
           NEW lo \in Nat, OpenFile(f, <<x>>, q, b, i, lo), recordOffset(b, i) <= kMaxFileSize
    PROVE  /\ Passed(f, x) = Full(q, b, i)
           /\ lo <= Position(b, i)
           /\ Kept(f, lo, Position(b, i))
<1>. DEFINE P == Position(b, i)
<1>1. P \in Nat /\ i \in Nat /\ i \in 0 .. kRecordsPerBlock /\ kRecordsPerBlock \in 0 .. kRecordsPerBlock
  BY PositionFacts, SizeFacts
<1>2. /\ recordOffset(b, i) \in Nat /\ recordOffset(b, i) < recordOffset(b + 1, 0)
      /\ blockOffset(b) \in Nat /\ blockOffset(b) + kBlockHeaderSize = recordOffset(b, 0)
      /\ recordOffset(b, 0) <= recordOffset(b, i)
  <2>1. blockOffset(b) + kBlockHeaderSize = recordOffset(b, 0) /\ recordOffset(b, 0) <= recordOffset(b, i)
    BY <1>1, RecordOffsets
  <2>2. blockOffset(b) \in Nat
    BY BlockOffsets
  <2>3. recordOffset(b, i) \in Nat /\ recordOffset(b, i) < recordOffset(b + 1, 0)
    BY AppendOffsets, SizeFacts
  <2>4. QED
    BY <2>1, <2>2, <2>3
<1>3. CASE /\ x = FileHeaders /\ b = 0 /\ i = 0 /\ lo = 0
           /\ \E z \in 0 .. (kHeaderSize + kBlockHeaderSize - 1) : f = NoHeaders(q, z)
  <2>1. P = 0
    BY <1>3, SizeFacts DEF Position
  <2>2. PICK z \in 0 .. (kHeaderSize + kBlockHeaderSize - 1) : f = NoHeaders(q, z)
    BY <1>3
  <2>3. /\ z \in Nat /\ z < kHeaderSize + kBlockHeaderSize /\ z <= kMaxFileSize
        /\ z \in 0 .. (kHeaderSize + kBlockHeaderSize)
    BY SizeFacts
  <2>4. f.freq = q /\ f.size = z /\ f.heads = <<>> /\ f.recs = <<>>
    BY <2>2 DEF NoHeaders
  <2>5. Kept(f, lo, P)
    BY <1>3, <2>3, <2>4 DEF Kept, Headless
  <2>6. Passed(f, x) = Full(q, b, i)
    BY <1>3, <2>1, <2>2, <2>3, HeadersPassed DEF Full
  <2>7. QED
    BY <1>3, <2>1, <2>5, <2>6
<1>4. CASE /\ x = Write("count", blockOffset(b) + 4, 2, b, i)
           /\ i - 1 \in Nat /\ lo <= Position(b, i - 1)
           /\ f = File(q, recordOffset(b, i), b, i - 1, P)
  <2>1. /\ i - 1 \in 0 .. kRecordsPerBlock /\ Position(b, i - 1) \in Nat /\ P = Position(b, i - 1) + 1
    <3>1. (i - 1) + 1 = i
      BY <1>4
    <3>2. Position(b, i - 1) \in Nat /\ Position(b, (i - 1) + 1) = Position(b, i - 1) + 1
      BY <1>4, PositionFacts
    <3>3. QED
      BY <1>4, <3>1, <3>2, SizeFacts
  <2>2. Kept(f, lo, P)
    <3>1. recordOffset(b, i - 1) <= recordOffset(b, i) /\ Position(b, i - 1) <= P
      <4>1. i - 1 <= i
        BY <1>4
      <4>2. QED
        BY <1>1, <1>4, <2>1, <4>1, RecordOffsets
    <3>2. QED
      BY <1>1, <1>2, <1>4, <2>1, <3>1, KeptFile
  <2>4. Passed(f, x) = Full(q, b, i)
    BY <1>4, CountPassed DEF Full
  <2>5. lo <= P
    BY <1>4, <2>1
  <2>6. QED
    BY <2>2, <2>4, <2>5
<1>5. CASE /\ x = Write("head", blockOffset(b), kBlockHeaderSize, b, 0)
           /\ i = 0 /\ b - 1 \in Nat /\ lo <= Position(b, 0)
           /\ \E z \in blockOffset(b) .. (recordOffset(b, 0) - 1) :
                f = File(q, z, b - 1, kRecordsPerBlock, Position(b, 0))
  <2>0. PICK z \in blockOffset(b) .. (recordOffset(b, 0) - 1) :
          f = File(q, z, b - 1, kRecordsPerBlock, Position(b, 0))
    BY <1>5
  <2>1. (b - 1) + 1 = b /\ b - 1 < b
    BY <1>5
  <2>2. Position(b - 1, kRecordsPerBlock) = P
    <3>1. Position((b - 1) + 1, 0) = Position(b - 1, kRecordsPerBlock)
      BY <1>5, <1>1, PositionFacts
    <3>2. QED
      BY <1>5, <2>1, <3>1
  <2>3. recordOffset(b - 1, kRecordsPerBlock) <= blockOffset(b) /\ recordOffset(b - 1, kRecordsPerBlock) \in Nat
    BY <1>1, <1>5, <2>1, BlocksApart, RecordOffsets
  <2>4. recordOffset(b, 0) <= kMaxFileSize /\ recordOffset(b, 0) \in Nat
    BY <1>2, SizeFacts
  <2>5. /\ z \in Nat /\ recordOffset(b - 1, kRecordsPerBlock) <= z
        /\ z < recordOffset(b, 0) /\ z <= kMaxFileSize
    BY <1>2, <2>3, <2>4, SizeFacts
  <2>6. Kept(f, lo, P)
    <3>1. P <= P /\ lo <= P
      BY <1>1, <1>5
    <3>2. z < recordOffset((b - 1) + 1, 0)
      BY <2>1, <2>5
    <3>3. f = File(q, z, b - 1, kRecordsPerBlock, P)
      BY <1>5, <2>0
    <3>. HIDE DEF P
    <3>4. Position(b - 1, kRecordsPerBlock) <= P /\ lo <= Position(b - 1, kRecordsPerBlock)
      BY <2>2, <3>1
    <3>5. QED
      BY <1>1, <1>5, <2>5, <3>2, <3>3, <3>4, KeptFile
  <2>7. Passed(f, x) = Full(q, b, i)
    <3>1. PICK c \in Nat : c = b - 1
      BY <1>5
    <3>2. b = c + 1 /\ f = File(q, z, c, kRecordsPerBlock, Position(b, 0))
      BY <2>0, <2>1, <3>1
    <3>3. PICK at \in Nat, top \in Nat : at = blockOffset(b) /\ top = recordOffset(b, 0)
      BY <1>2, <2>4
    <3>4. top = at + kBlockHeaderSize /\ z <= top
      BY <1>2, <2>4, <2>5, <3>3
    <3>5. Passed(File(q, z, c, kRecordsPerBlock, Position(b, 0)), Write("head", at, kBlockHeaderSize, b, 0))
            = File(q, top, b, 0, Position(b, 0))
      BY <2>5, <3>2, <3>4, HeadPassed
    <3>6. QED
      BY <1>5, <3>2, <3>3, <3>5 DEF Full
  <2>8. QED
    BY <1>5, <2>6, <2>7
<1>6. QED
  BY <1>3, <1>4, <1>5, BufferedForms

(* Refusing it, or a part of it, leaves a file that can be completed. *)
LEMMA BufferedPart ==
    ASSUME NEW f, NEW x, NEW q, NEW b \in Nat, NEW i \in 0 .. (kRecordsPerBlock - 1),
           NEW lo, OpenFile(f, <<x>>, q, b, i, lo), NEW n \in 0 .. (x.len - 1)
    PROVE  OpenFile([f EXCEPT !.size = Reaches(f, x, n)], <<x>>, q, b, i, lo)
<1>1. CASE /\ x = FileHeaders /\ b = 0 /\ i = 0 /\ lo = 0
           /\ \E z \in 0 .. (kHeaderSize + kBlockHeaderSize - 1) : f = NoHeaders(q, z)
  <2>1. PICK z \in 0 .. (kHeaderSize + kBlockHeaderSize - 1) : f = NoHeaders(q, z)
    BY <1>1
  <2>2. /\ x.kind # "count" /\ x.at = 0 /\ x.len = kHeaderSize + kBlockHeaderSize /\ f.size = z
    BY <1>1, <2>1 DEF FileHeaders, Write, NoHeaders
  <2>3. /\ n \in Nat /\ z \in Nat /\ 0 + n = n /\ (z <= 0 + n \/ 0 + n <= z)
        /\ n \in 0 .. (kHeaderSize + kBlockHeaderSize - 1)
    BY <2>2, SizeFacts
  <2>4. Reaches(f, x, n) \in {z, n}
    BY <2>2, <2>3, ReachesAgain
  <2>5. [f EXCEPT !.size = Reaches(f, x, n)] = NoHeaders(q, Reaches(f, x, n))
    BY <2>1 DEF NoHeaders
  <2>6. QED
    BY <1>1, <2>3, <2>4, <2>5 DEF OpenFile
<1>2. CASE /\ x = Write("count", blockOffset(b) + 4, 2, b, i)
           /\ i - 1 \in Nat /\ lo <= Position(b, i - 1)
           /\ f = File(q, recordOffset(b, i), b, i - 1, Position(b, i))
  <2>1. x.kind = "count"
    BY <1>2 DEF Write
  <2>2. Reaches(f, x, n) = recordOffset(b, i)
    BY <1>2, <2>1, FileFields DEF Reaches
  <2>3. [f EXCEPT !.size = Reaches(f, x, n)] = f
    BY <1>2, <2>2, FileResized
  <2>4. QED
    BY <2>3
<1>3. CASE /\ x = Write("head", blockOffset(b), kBlockHeaderSize, b, 0)
           /\ i = 0 /\ b - 1 \in Nat /\ lo <= Position(b, 0)
           /\ \E z \in blockOffset(b) .. (recordOffset(b, 0) - 1) :
                f = File(q, z, b - 1, kRecordsPerBlock, Position(b, 0))
  <2>1. PICK z \in blockOffset(b) .. (recordOffset(b, 0) - 1) :
          f = File(q, z, b - 1, kRecordsPerBlock, Position(b, 0))
    BY <1>3
  <2>2. x.kind # "count" /\ x.at = blockOffset(b) /\ x.len = kBlockHeaderSize /\ f.size = z
    BY <1>3, <2>1, FileFields DEF Write
  <2>3. blockOffset(b) \in Nat /\ blockOffset(b) + kBlockHeaderSize = recordOffset(b, 0)
    BY BlockOffsets, RecordOffsets
  <2>4. /\ n \in Nat /\ z \in Nat /\ (z <= blockOffset(b) + n \/ blockOffset(b) + n <= z)
        /\ blockOffset(b) + n \in blockOffset(b) .. (recordOffset(b, 0) - 1)
    BY <2>2, <2>3, SizeFacts
  <2>5. Reaches(f, x, n) \in {z, blockOffset(b) + n}
    BY <2>2, <2>3, <2>4, ReachesAgain
  <2>6. [f EXCEPT !.size = Reaches(f, x, n)]
          = File(q, Reaches(f, x, n), b - 1, kRecordsPerBlock, Position(b, 0))
    BY <2>1, FileResized
  <2>7. QED
    BY <1>3, <2>4, <2>5, <2>6 DEF OpenFile
<1>4. QED
  BY <1>1, <1>2, <1>3, BufferedForms

(* Nothing in the buffer, or one write. *)
LEMMA BufferForms ==
    ASSUME NEW f, NEW buf, NEW q, NEW b, NEW i, NEW lo, OpenFile(f, buf, q, b, i, lo)
    PROVE  (buf = <<>> /\ f = Full(q, b, i) /\ lo <= Position(b, i)) \/ \E x : buf = <<x>>
BY DEF OpenFile

LEMMA WithinBlock ==
    ASSUME NEW b \in Nat, NEW i \in 0 .. (kRecordsPerBlock - 1)
    PROVE  /\ recordOffset(b, i) \in Nat /\ recordOffset(b, i) <= recordOffset(b, i)
           /\ recordOffset(b, i) < recordOffset(b + 1, 0)
<1>1. /\ recordOffset(b, i) \in Nat /\ recordOffset(b, i + 1) \in Nat
      /\ blockOffset(b + 1) \in Nat
      /\ recordOffset(b, i + 1) = recordOffset(b, i) + kRecordSize
      /\ recordOffset(b, i + 1) <= blockOffset(b + 1)
      /\ blockOffset(b + 1) + kBlockHeaderSize = recordOffset(b + 1, 0)
  BY AppendOffsets
<1>2. QED
  BY <1>1, SizeFacts

LEMMA FullKept ==
    ASSUME NEW q \in Frequency, NEW b \in Nat, NEW i \in 0 .. (kRecordsPerBlock - 1),
           NEW lo \in Nat, lo <= Position(b, i), recordOffset(b, i) <= kMaxFileSize
    PROVE  Kept(Full(q, b, i), lo, Position(b, i))
<1>1. Position(b, i) \in Nat /\ i \in 0 .. kRecordsPerBlock
  BY PositionFacts, SizeFacts
<1>2. Position(b, i) <= Position(b, i)
  BY <1>1
<1>3. /\ recordOffset(b, i) \in Nat /\ recordOffset(b, i) <= recordOffset(b, i)
      /\ recordOffset(b, i) < recordOffset(b + 1, 0)
  BY WithinBlock
<1>4. QED
  BY <1>1, <1>2, <1>3, KeptFile DEF Full

(* Passing the buffer on: fileSize(), stop() and the end of the process. *)
LEMMA BufferPassed ==
    ASSUME NEW f, NEW buf, NEW q \in Frequency, NEW b \in Nat,
           NEW i \in 0 .. (kRecordsPerBlock - 1), NEW lo \in Nat,
           OpenFile(f, buf, q, b, i, lo), recordOffset(b, i) <= kMaxFileSize
    PROVE  /\ AllWritten(f, buf) = Full(q, b, i)
           /\ lo <= Position(b, i)
           /\ Kept(f, lo, Position(b, i))
<1>1. CASE buf = <<>> /\ f = Full(q, b, i) /\ lo <= Position(b, i)
  <2>1. Len(buf) = 0
    BY <1>1
  <2>2. Stages(f, buf)[0] = f
    BY <2>1, StagesSteps
  <2>3. QED
    BY <1>1, <2>1, <2>2, FullKept DEF AllWritten
<1>2. CASE \E x : buf = <<x>>
  <2>1. PICK x : buf = <<x>>
    BY <1>2
  <2>2. Len(buf) = 1 /\ buf[1] = x /\ 1 \in 1 .. 1 /\ 1 - 1 = 0
    BY <2>1
  <2>3. Stages(f, buf)[0] = f /\ Stages(f, buf)[1] = Passed(Stages(f, buf)[1 - 1], buf[1])
    BY <2>2, StagesSteps
  <2>4. AllWritten(f, buf) = Passed(f, x)
    BY <2>2, <2>3 DEF AllWritten
  <2>5. QED
    BY <2>1, <2>4, BufferedWrite
<1>3. QED
  BY <1>1, <1>2, BufferForms

NextBlock(b, i) == IF i + 1 = kRecordsPerBlock THEN b + 1 ELSE b
NextCount(b, i) == IF i + 1 = kRecordsPerBlock THEN 0 ELSE i + 1

Finishes(q, b, i, lo, xs, S) ==
    /\ Len(xs) \in {2, 4} /\ xs \in Seq({xs[1], xs[2], xs[3], xs[4]})
    /\ S[Len(xs)] = Full(q, NextBlock(b, i), NextCount(b, i))
    /\ OpenFile(S[Len(xs) - 1], <<xs[Len(xs)]>>, q, NextBlock(b, i), NextCount(b, i), lo)
    /\ Position(NextBlock(b, i), NextCount(b, i)) = Position(b, i) + 1

(* The last write of an append, and the file before it. *)
LEMMA LastWrite ==
    ASSUME NEW q, NEW w, NEW b \in Nat, NEW i \in 0 .. (kRecordsPerBlock - 1),
           NEW lo \in Nat, lo <= Position(b, i),
           NEW xs, NEW S, Appends(q, w, b, i, xs, S)
    PROVE  Finishes(q, b, i, lo, xs, S)
<1>1. /\ i \in Nat /\ i + 1 \in Nat /\ Position(b, i) \in Nat
      /\ Position(b, i + 1) = Position(b, i) + 1
      /\ Position(b + 1, 0) = Position(b, kRecordsPerBlock)
  BY PositionFacts
<1>2. /\ S[0] = Full(q, b, i)
      /\ S[1] = File(q, recordOffset(b, i + 1), b, i, Position(b, i + 1))
      /\ S[2] = File(q, recordOffset(b, i + 1), b, i + 1, Position(b, i + 1))
      /\ i + 1 = kRecordsPerBlock =>
           /\ S[3] = File(q, blockOffset(b + 1), b, kRecordsPerBlock, Position(b + 1, 0))
           /\ S[4] = Full(q, b + 1, 0)
  BY RecordStages
<1>3. /\ xs[2] = Write("count", blockOffset(b) + 4, 2, b, i + 1)
      /\ i + 1 # kRecordsPerBlock => Len(xs) = 2 /\ xs \in Seq({xs[1], xs[2]})
      /\ i + 1 = kRecordsPerBlock =>
           /\ xs[4] = Write("head", blockOffset(b + 1), kBlockHeaderSize, b + 1, 0)
           /\ Len(xs) = 4 /\ xs \in Seq({xs[1], xs[2], xs[3], xs[4]})
  BY RecordWritesForm DEF Appends
<1>4. CASE i + 1 # kRecordsPerBlock
  <2>1. Len(xs) = 2 /\ xs \in Seq({xs[1], xs[2], xs[3], xs[4]}) /\ 2 - 1 = 1
    BY <1>3, <1>4
  <2>2. NextBlock(b, i) = b /\ NextCount(b, i) = i + 1 /\ (i + 1) - 1 = i
    BY <1>1, <1>4 DEF NextBlock, NextCount
  <2>3. OpenFile(S[1], <<xs[2]>>, q, b, i + 1, lo)
    BY <1>1, <1>2, <1>3, <2>2 DEF OpenFile
  <2>4. S[2] = Full(q, b, i + 1)
    BY <1>2 DEF Full
  <2>5. QED
    BY <1>1, <2>1, <2>2, <2>3, <2>4 DEF Finishes
<1>5. CASE i + 1 = kRecordsPerBlock
  <2>1. Len(xs) = 4 /\ xs \in Seq({xs[1], xs[2], xs[3], xs[4]}) /\ 4 - 1 = 3
    BY <1>3, <1>5
  <2>2. NextBlock(b, i) = b + 1 /\ NextCount(b, i) = 0 /\ (b + 1) - 1 = b
    BY <1>5 DEF NextBlock, NextCount
  <2>3. Position(b + 1, 0) = Position(b, i) + 1
    BY <1>1, <1>5
  <2>4. lo <= Position(b + 1, 0)
    BY <1>1, <2>3
  <2>7. blockOffset(b + 1) \in blockOffset(b + 1) .. (recordOffset(b + 1, 0) - 1)
    <3>1. /\ blockOffset(b + 1) \in Nat
          /\ blockOffset(b + 1) + kBlockHeaderSize = recordOffset(b + 1, 0)
      BY AppendOffsets
    <3>2. QED
      BY <3>1, SizeFacts
  <2>5. OpenFile(S[3], <<xs[4]>>, q, b + 1, 0, lo)
    BY <1>2, <1>3, <1>5, <2>2, <2>4, <2>7 DEF OpenFile
  <2>6. QED
    BY <1>2, <1>5, <2>1, <2>2, <2>3, <2>5 DEF Finishes
<1>6. QED
  BY <1>4, <1>5

Completes(f, xs, q, b, i, lo, hi) ==
    /\ Len(xs) \in Nat \ {0} /\ \E V : xs \in Seq(V)
    /\ AllWritten(f, xs) = Full(q, b, i)
    /\ OpenFile(Stages(f, xs)[Len(xs) - 1], <<xs[Len(xs)]>>, q, b, i, lo)
    /\ \A k \in 0 .. Len(xs) : Kept(Stages(f, xs)[k], lo, hi)
    /\ \A k \in 1 .. Len(xs) : \A n \in 0 .. (xs[k].len - 1) :
         Kept(CutShort(f, xs, k, n), lo, hi)

(***************************************************************************)
(* The writes of an append after what is left in the buffer: where they    *)
(* lead, what the last of them leaves, and that wherever they stop the     *)
(* file has every sample that is safe.                                     *)
(***************************************************************************)
LEMMA AppendSurvives ==
    ASSUME NEW f, NEW w, NEW q \in Frequency, NEW b \in Nat,
           NEW i \in 0 .. (kRecordsPerBlock - 1), NEW lo \in Nat,
           OpenFile(f, w.buffer, q, b, i, lo), recordOffset(b, i) <= kMaxFileSize,
           w.blkIndex = b, w.dataCnt = i, Room(b, i),
           NEW xs, xs = w.buffer \o RecordWrites(w, Position(b, i) + 1)
    PROVE  Completes(f, xs, q, NextBlock(b, i), NextCount(b, i), lo, Position(b, i) + 1)
<1>. DEFINE P == Position(b, i)
<1>1. PICK ys, S : Appends(q, w, b, i, ys, S)
  BY DEF Appends
<1>2. P \in Nat /\ lo <= P
  <2>1. i \in Nat
    OBVIOUS
  <2>2. P \in Nat
    BY <2>1, PositionFacts
  <2>3. lo <= P
    BY BufferPassed
  <2>4. QED
    BY <2>2, <2>3
<1>3. /\ Len(ys) \in {2, 4} /\ ys \in Seq({ys[1], ys[2], ys[3], ys[4]})
      /\ S[Len(ys)] = Full(q, NextBlock(b, i), NextCount(b, i))
      /\ OpenFile(S[Len(ys) - 1], <<ys[Len(ys)]>>, q, NextBlock(b, i), NextCount(b, i), lo)
  <2>1. lo <= Position(b, i)
    BY <1>2
  <2>. HIDE DEF P
  <2>2. Finishes(q, b, i, lo, ys, S)
    BY <1>1, <2>1, LastWrite
  <2>3. QED
    BY <2>2 DEF Finishes
<1>9. /\ Len(ys) \in Nat /\ Len(ys) - 1 \in 0 .. Len(ys) /\ Len(ys) \in 1 .. Len(ys)
      /\ Len(ys) \in Nat \ {0} /\ Len(ys) \in 0 .. Len(ys)
  <2>1. \A L \in {2, 4} : /\ L \in Nat /\ L - 1 \in 0 .. L /\ L \in 1 .. L
                          /\ L \in Nat \ {0} /\ L \in 0 .. L
    OBVIOUS
  <2>2. QED
    BY <1>3, <2>1
<1>4. /\ \A k \in 0 .. Len(ys) : Kept(S[k], P, P + 1)
      /\ \A k \in 1 .. Len(ys) : \A n \in 0 .. (ys[k].len - 1) :
           Kept([S[k - 1] EXCEPT !.size = Reaches(S[k - 1], ys[k], n)], P, P + 1)
  BY <1>1, RecordSurvives
<1>5. \A g : (Kept(g, P, P + 1) => Kept(g, lo, P + 1)) /\ (Kept(g, lo, P) => Kept(g, lo, P + 1))
  <2>. HIDE DEF P
  <2>1. P + 1 \in Nat /\ lo <= lo /\ P <= P + 1 /\ P + 1 <= P + 1
    BY <1>2
  <2>2. QED
    BY <1>2, <2>1, KeptWeaker
<1>. HIDE DEF P
<1>6. CASE w.buffer = <<>> /\ f = Full(q, b, i)
  <2>1. xs = ys
    BY <1>1, <1>3, <1>6 DEF Appends
  <2>2. S = Stages(f, xs)
    BY <1>1, <1>6, <2>1 DEF Appends
  <2>3. Len(xs) \in Nat \ {0}
    BY <1>9, <2>1
  <2>4. QED
    BY <1>3, <1>4, <1>5, <2>1, <2>2, <2>3 DEF AllWritten, CutShort, P, Completes
<1>7. CASE \E x : w.buffer = <<x>>
  <2>1. PICK x : w.buffer = <<x>>
    BY <1>7
  <2>2. /\ Passed(f, x) = Full(q, b, i) /\ Kept(f, lo, P)
        /\ \A n \in 0 .. (x.len - 1) : Kept([f EXCEPT !.size = Reaches(f, x, n)], lo, P)
    <3>1. OpenFile(f, <<x>>, q, b, i, lo)
      BY <2>1
    <3>2. Passed(f, x) = Full(q, b, i) /\ Kept(f, lo, P)
      <4>1. Passed(f, x) = Full(q, b, i) /\ Kept(f, lo, Position(b, i))
        BY <3>1, BufferedWrite
      <4>2. QED
        BY <4>1 DEF P
    <3>3. ASSUME NEW n \in 0 .. (x.len - 1) PROVE Kept([f EXCEPT !.size = Reaches(f, x, n)], lo, P)
      <4>1. PICK g : g = [f EXCEPT !.size = Reaches(f, x, n)]
        OBVIOUS
      <4>2. OpenFile(g, <<x>>, q, b, i, lo)
        BY <3>1, <4>1, BufferedPart
      <4>3. Kept(g, lo, P)
        <5>1. Kept(g, lo, Position(b, i))
          BY <4>2, BufferedWrite
        <5>2. QED
          BY <5>1 DEF P
      <4>4. QED
        BY <4>1, <4>3
    <3>4. QED
      BY <3>2, <3>3
  <2>3. /\ \E V : xs \in Seq(V)
        /\ Len(xs) = Len(ys) + 1 /\ xs[1] = x /\ \A k \in 1 .. Len(ys) : xs[k + 1] = ys[k]
    <3>1. xs = <<x>> \o ys
      BY <1>1, <2>1 DEF Appends
    <3>2. /\ <<x>> \o ys \in Seq({ys[1], ys[2], ys[3], ys[4]} \cup {x})
          /\ Len(<<x>> \o ys) = Len(ys) + 1 /\ (<<x>> \o ys)[1] = x
          /\ \A k \in 1 .. Len(ys) : (<<x>> \o ys)[k + 1] = ys[k]
      BY <1>3, ConsFacts
    <3>3. QED
      BY <3>1, <3>2
  <2>4. /\ Len(ys) \in Nat /\ Len(ys) - 1 \in 0 .. Len(ys) /\ Len(ys) \in 1 .. Len(ys)
        /\ Len(xs) \in Nat \ {0} /\ Len(xs) - 1 = (Len(ys) - 1) + 1 /\ Len(ys) \in 0 .. Len(ys)
    <3>1. \A L \in Nat : L + 1 \in Nat \ {0} /\ (L + 1) - 1 = (L - 1) + 1
      OBVIOUS
    <3>2. QED
      BY <1>9, <2>3, <3>1
  <2>5. \A k \in 0 .. Len(ys) : Stages(f, xs)[k + 1] = S[k]
    <3>1. \A k \in 0 .. Len(ys) : Stages(f, xs)[k + 1] = Stages(Passed(f, xs[1]), ys)[k]
      <4>1. Len(xs) \in Nat
        BY <2>4
      <4>2. Follows(xs, ys)
        BY <2>3, <2>4, <4>1 DEF Follows
      <4>3. StagesShift(f, xs, ys)
        BY <4>2, StagesOfRest
      <4>4. QED
        BY <4>3 DEF StagesShift
    <3>2. QED
      BY <1>1, <2>2, <2>3, <3>1 DEF Appends
  <2>6. Stages(f, xs)[0] = f
    BY <2>4, StagesSteps
  <2>7. AllWritten(f, xs) = Full(q, NextBlock(b, i), NextCount(b, i))
    BY <1>3, <2>3, <2>4, <2>5 DEF AllWritten
  <2>8. OpenFile(Stages(f, xs)[Len(xs) - 1], <<xs[Len(xs)]>>, q, NextBlock(b, i), NextCount(b, i), lo)
    <3>1. Stages(f, xs)[Len(xs) - 1] = S[Len(ys) - 1]
      BY <2>4, <2>5
    <3>2. xs[Len(xs)] = ys[Len(ys)]
      BY <2>3, <2>4
    <3>3. QED
      BY <1>3, <3>1, <3>2
  <2>9. ASSUME NEW k \in 0 .. Len(xs) PROVE Kept(Stages(f, xs)[k], lo, P + 1)
    <3>1. CASE k = 0
      BY <1>5, <2>2, <2>6, <3>1
    <3>2. CASE k # 0
      <4>1. k - 1 \in 0 .. Len(ys) /\ (k - 1) + 1 = k
        <5>1. \A L \in Nat : \A j \in 0 .. (L + 1) : j # 0 => j - 1 \in 0 .. L /\ (j - 1) + 1 = j
          OBVIOUS
        <5>2. QED
          BY <2>3, <2>4, <3>2, <5>1
      <4>2. Stages(f, xs)[k] = S[k - 1]
        BY <2>5, <4>1
      <4>3. QED
        BY <1>4, <1>5, <4>1, <4>2
    <3>3. QED
      BY <3>1, <3>2
  <2>10. ASSUME NEW k \in 1 .. Len(xs), NEW n \in 0 .. (xs[k].len - 1)
         PROVE  Kept(CutShort(f, xs, k, n), lo, P + 1)
    <3>1. CASE k = 1
      <4>1. CutShort(f, xs, k, n) = [f EXCEPT !.size = Reaches(f, x, n)]
        BY <2>3, <2>6, <3>1 DEF CutShort
      <4>2. n \in 0 .. (x.len - 1)
        BY <2>3, <3>1
      <4>3. QED
        BY <1>5, <2>2, <4>1, <4>2
    <3>2. CASE k # 1
      <4>1. k - 1 \in 1 .. Len(ys) /\ (k - 1) - 1 \in 0 .. Len(ys) /\ ((k - 1) - 1) + 1 = k - 1 /\ (k - 1) + 1 = k
        <5>1. \A L \in Nat : \A j \in 1 .. (L + 1) : j # 1 =>
                /\ j - 1 \in 1 .. L /\ (j - 1) - 1 \in 0 .. L
                /\ ((j - 1) - 1) + 1 = j - 1 /\ (j - 1) + 1 = j
          OBVIOUS
        <5>2. QED
          BY <2>3, <2>4, <3>2, <5>1
      <4>2. Stages(f, xs)[k - 1] = S[(k - 1) - 1] /\ xs[k] = ys[k - 1]
        BY <2>3, <2>5, <4>1
      <4>3. CutShort(f, xs, k, n) = [S[(k - 1) - 1] EXCEPT !.size = Reaches(S[(k - 1) - 1], ys[k - 1], n)]
        BY <4>2 DEF CutShort
      <4>4. n \in 0 .. (ys[k - 1].len - 1)
        BY <4>2
      <4>5. QED
        BY <1>4, <1>5, <4>1, <4>3, <4>4
    <3>3. QED
      BY <3>1, <3>2
  <2>11. QED
    BY <2>3, <2>4, <2>7, <2>8, <2>9, <2>10 DEF P, Completes
<1>8. QED
  BY <1>6, <1>7, BufferForms
-----------------------------------------------------------------------------
(* The file that is being recorded: t samples are taken and s are safe. *)
Recorded(f, w, t, s) ==
    /\ w = [blkIndex |-> w.blkIndex, dataCnt |-> w.dataCnt, buffer |-> w.buffer]
    /\ w.blkIndex \in Nat /\ w.dataCnt \in 0 .. (kRecordsPerBlock - 1)
    /\ \E q \in Frequency : OpenFile(f, w.buffer, q, w.blkIndex, w.dataCnt, s)
    /\ t = Position(w.blkIndex, w.dataCnt)
    /\ recordOffset(w.blkIndex, w.dataCnt) <= kMaxFileSize

LEMMA StartRecorded ==
    ASSUME NEW q \in Frequency
    PROVE  Recorded(EmptyFile(q), [Closed EXCEPT !.buffer = <<FileHeaders>>], 0, 0)
<1>1. PICK w : w = [Closed EXCEPT !.buffer = <<FileHeaders>>]
  OBVIOUS
<1>2. w = [blkIndex |-> 0, dataCnt |-> 0, buffer |-> <<FileHeaders>>]
  BY <1>1 DEF Closed
<1>3. w.blkIndex = 0 /\ w.dataCnt = 0 /\ w.buffer = <<FileHeaders>>
  BY <1>2
<1>4. 0 \in 0 .. (kRecordsPerBlock - 1) /\ Position(0, 0) = 0 /\ recordOffset(0, 0) <= kMaxFileSize
  BY SizeFacts DEF Position, recordOffset, blockOffset
<1>7. 0 \in 0 .. (kHeaderSize + kBlockHeaderSize - 1)
  BY SizeFacts
<1>5. OpenFile(EmptyFile(q), <<FileHeaders>>, q, 0, 0, 0)
  BY <1>7 DEF OpenFile, EmptyFile, NoHeaders
<1>6. Recorded(EmptyFile(q), w, 0, 0)
  BY <1>2, <1>3, <1>4, <1>5 DEF Recorded
<1>8. QED
  BY <1>1, <1>6

(* fileSize(), stop() and the end of the process between two appends. *)
LEMMA RecordedFile ==
    ASSUME NEW f, NEW w, NEW t, NEW s \in Nat, Recorded(f, w, t, s)
    PROVE  /\ t \in Nat /\ s <= t
           /\ Kept(f, s, t) /\ Kept(AllWritten(f, w.buffer), t, t)
           /\ Recorded(AllWritten(f, w.buffer), [w EXCEPT !.buffer = <<>>], t, t)
<1>1. PICK b, i : b = w.blkIndex /\ i = w.dataCnt
  OBVIOUS
<1>2. PICK q \in Frequency : OpenFile(f, w.buffer, q, b, i, s)
  BY <1>1 DEF Recorded
<1>3. /\ b \in Nat /\ i \in 0 .. (kRecordsPerBlock - 1) /\ t = Position(b, i)
      /\ recordOffset(b, i) <= kMaxFileSize
      /\ w = [blkIndex |-> b, dataCnt |-> i, buffer |-> w.buffer]
  BY <1>1 DEF Recorded
<1>4. i \in Nat /\ t \in Nat
  BY <1>3, PositionFacts
<1>5. AllWritten(f, w.buffer) = Full(q, b, i) /\ s <= t /\ Kept(f, s, t)
  BY <1>2, <1>3, BufferPassed
<1>6. t <= t
  BY <1>4
<1>7. Kept(Full(q, b, i), t, t)
  BY <1>3, <1>4, <1>6, FullKept
<1>8. PICK v : v = [w EXCEPT !.buffer = <<>>]
  OBVIOUS
<1>9. v = [blkIndex |-> b, dataCnt |-> i, buffer |-> <<>>]
  BY <1>3, <1>8
<1>10. v.blkIndex = b /\ v.dataCnt = i /\ v.buffer = <<>>
  BY <1>9
<1>11. OpenFile(Full(q, b, i), <<>>, q, b, i, t)
  BY <1>3, <1>6 DEF OpenFile
<1>12. Recorded(Full(q, b, i), v, t, t)
  BY <1>3, <1>9, <1>10, <1>11 DEF Recorded
<1>13. QED
  BY <1>4, <1>5, <1>7, <1>8, <1>12

(* The buffer is refused: the file can be recorded on as before. *)
LEMMA RefusedBuffer ==
    ASSUME NEW f, NEW w, NEW t, NEW s, Recorded(f, w, t, s), NEW g \in Interrupted(f, w.buffer)
    PROVE  Recorded(g, w, t, s)
<1>1. PICK b, i : b = w.blkIndex /\ i = w.dataCnt
  OBVIOUS
<1>2. PICK q \in Frequency : OpenFile(f, w.buffer, q, b, i, s)
  BY <1>1 DEF Recorded
<1>3. b \in Nat /\ i \in 0 .. (kRecordsPerBlock - 1)
  BY <1>1 DEF Recorded
<1>4. PICK k \in DOMAIN w.buffer : \E n \in 0 .. (w.buffer[k].len - 1) : g = CutShort(f, w.buffer, k, n)
  BY DEF Interrupted
<1>5. w.buffer # <<>>
  <2>1. DOMAIN <<>> = {}
    OBVIOUS
  <2>2. QED
    BY <1>4, <2>1
<1>6. PICK x : w.buffer = <<x>>
  BY <1>2, <1>5, BufferForms
<1>7. /\ DOMAIN w.buffer = {1} /\ Len(w.buffer) = 1 /\ w.buffer[1] = x
      /\ Len(w.buffer) \in Nat /\ 1 - 1 = 0
  BY <1>6
<1>8. Stages(f, w.buffer)[0] = f
  BY <1>7, StagesSteps
<1>9. PICK n \in 0 .. (x.len - 1) : g = CutShort(f, w.buffer, 1, n)
  BY <1>4, <1>7
<1>10. g = [f EXCEPT !.size = Reaches(f, x, n)]
  BY <1>7, <1>8, <1>9 DEF CutShort
<1>11. OpenFile(g, w.buffer, q, b, i, s)
  BY <1>2, <1>3, <1>6, <1>10, BufferedPart
<1>12. QED
  BY <1>1, <1>11 DEF Recorded

(* What HasCapacity() reserves is what an append needs. *)
LEMMA CapacityIsRoom ==
    ASSUME NEW f, NEW w, NEW t, NEW s \in Nat, Recorded(f, w, t, s),
           AllWritten(f, w.buffer).size + worstCase(w) <= kMaxFileSize
    PROVE  Room(w.blkIndex, w.dataCnt)
<1>1. PICK b, i : b = w.blkIndex /\ i = w.dataCnt
  OBVIOUS
<1>2. PICK q \in Frequency : OpenFile(f, w.buffer, q, b, i, s)
  BY <1>1 DEF Recorded
<1>3. b \in Nat /\ i \in 0 .. (kRecordsPerBlock - 1) /\ recordOffset(b, i) <= kMaxFileSize
  BY <1>1 DEF Recorded
<1>4. AllWritten(f, w.buffer) = Full(q, b, i)
  BY <1>2, <1>3, BufferPassed
<1>5. AllWritten(f, w.buffer).size = recordOffset(b, i)
  BY <1>4, FileFields DEF Full
<1>6. /\ recordOffset(b, i) \in Nat /\ recordOffset(b, i + 1) \in Nat
      /\ blockOffset(b + 1) \in Nat /\ recordOffset(b + 1, 0) \in Nat
      /\ recordOffset(b, i + 1) = recordOffset(b, i) + kRecordSize
      /\ blockOffset(b + 1) + kBlockHeaderSize = recordOffset(b + 1, 0)
      /\ i + 1 = kRecordsPerBlock => recordOffset(b, i + 1) + kBlockPadSize = blockOffset(b + 1)
  BY <1>3, AppendOffsets
<1>7. CASE i + 1 = kRecordsPerBlock
  <2>1. w.dataCnt = kRecordsPerBlock - 1
    BY <1>1, <1>3, <1>7, SizeFacts
  <2>2. worstCase(w) = kRecordSize + kBlockPadSize + kBlockHeaderSize
    BY <2>1 DEF worstCase
  <2>3. recordOffset(b + 1, 0) <= kMaxFileSize
    BY <1>5, <1>6, <1>7, <2>2, SizeFacts
  <2>4. QED
    BY <1>1, <1>7, <2>3 DEF Room
<1>8. CASE i + 1 # kRecordsPerBlock
  <2>1. w.dataCnt # kRecordsPerBlock - 1
    BY <1>1, <1>3, <1>8, SizeFacts
  <2>2. worstCase(w) = kRecordSize
    BY <2>1 DEF worstCase
  <2>3. recordOffset(b, i + 1) <= kMaxFileSize
    BY <1>5, <1>6, <2>2, SizeFacts
  <2>4. QED
    BY <1>1, <1>8, <2>3 DEF Room
<1>9. QED
  BY <1>7, <1>8

(* Wherever the writes stop, the file has between lo and hi samples. *)
Survives(f, xs, lo, hi) ==
    /\ Len(xs) \in Nat /\ DOMAIN xs = 1 .. Len(xs)
    /\ \A k \in 0 .. Len(xs) : Kept(Stages(f, xs)[k], lo, hi)
    /\ \A k \in 1 .. Len(xs) : \A n \in 0 .. (xs[k].len - 1) : Kept(CutShort(f, xs, k, n), lo, hi)

LEMMA PartsKept ==
    ASSUME NEW f, NEW xs, NEW lo, NEW hi, Survives(f, xs, lo, hi), NEW g \in PartlyWritten(f, xs)
    PROVE  Kept(g, lo, hi)
<1>1. CASE g = AllWritten(f, xs)
  <2>1. Len(xs) \in 0 .. Len(xs)
    BY DEF Survives
  <2>2. QED
    BY <1>1, <2>1 DEF Survives, AllWritten
<1>2. CASE \E k \in DOMAIN xs : \E n \in 0 .. (xs[k].len - 1) : g = CutShort(f, xs, k, n)
  BY <1>2 DEF Survives
<1>3. QED
  BY <1>1, <1>2 DEF PartlyWritten, Interrupted

LEMMA FrontFacts ==
    ASSUME NEW V, NEW xs \in Seq(V), xs # <<>>
    PROVE  /\ Len(Front(xs)) = Len(xs) - 1 /\ Len(xs) - 1 \in Nat
           /\ Len(xs) \in Nat /\ DOMAIN xs = 1 .. Len(xs)
           /\ DOMAIN Front(xs) = 1 .. (Len(xs) - 1)
           /\ \A k \in 1 .. (Len(xs) - 1) : Front(xs)[k] = xs[k]
           /\ Last(xs) = xs[Len(xs)]
<1>1. Len(xs) \in Nat /\ Len(xs) - 1 \in Nat
  OBVIOUS
<1>2. Front(xs) = SubSeq(xs, 1, Len(xs) - 1)
  BY DEF Front
<1>3. /\ Len(SubSeq(xs, 1, Len(xs) - 1)) = Len(xs) - 1
      /\ DOMAIN SubSeq(xs, 1, Len(xs) - 1) = 1 .. (Len(xs) - 1)
      /\ \A k \in 1 .. (Len(xs) - 1) : SubSeq(xs, 1, Len(xs) - 1)[k] = xs[k]
  <2>1. PICK n \in Nat : n = Len(xs) - 1
    BY <1>1
  <2>2. n \in 0 .. Len(xs)
    BY <1>1, <2>1
  <2>3. Len(SubSeq(xs, 1, n)) = n
    BY <2>2
  <2>4. \A k \in 1 .. n : SubSeq(xs, 1, n)[k] = xs[k]
    BY <2>2
  <2>5. SubSeq(xs, 1, n) \in Seq(V)
    BY <2>2
  <2>6. DOMAIN SubSeq(xs, 1, n) = 1 .. Len(SubSeq(xs, 1, n))
    BY <2>5
  <2>7. QED
    BY <2>1, <2>3, <2>4, <2>6
<1>4. Last(xs) = xs[Len(xs)]
  BY DEF Last
<1>5. DOMAIN xs = 1 .. Len(xs)
  OBVIOUS
<1>6. QED
  BY <1>1, <1>2, <1>3, <1>4, <1>5

LEMMA FrontSurvives ==
    ASSUME NEW f, NEW V, NEW xs \in Seq(V), xs # <<>>, NEW lo, NEW hi, Survives(f, xs, lo, hi)
    PROVE  Survives(f, Front(xs), lo, hi)
<1>1. PICK ys : ys = Front(xs)
  OBVIOUS
<1>2. /\ Len(ys) = Len(xs) - 1 /\ Len(xs) - 1 \in Nat /\ Len(xs) \in Nat
      /\ DOMAIN ys = 1 .. (Len(xs) - 1)
      /\ \A k \in 1 .. (Len(xs) - 1) : ys[k] = xs[k]
  BY <1>1, FrontFacts
<1>3. /\ Len(ys) \in Nat /\ Len(ys) <= Len(xs) /\ Len(ys) \in 0 .. Len(ys)
      /\ \A k \in 0 .. Len(ys) : k \in 0 .. Len(xs)
      /\ \A k \in 1 .. Len(ys) : k \in 1 .. Len(xs) /\ k - 1 \in 0 .. Len(ys)
  <2>1. \A L \in Nat, M \in Nat :
          M = L - 1 => /\ M <= L /\ M \in 0 .. M
                       /\ \A k \in 0 .. M : k \in 0 .. L
                       /\ \A k \in 1 .. M : k \in 1 .. L /\ k - 1 \in 0 .. M
    OBVIOUS
  <2>2. QED
    BY <1>2, <2>1
<1>4. \A k \in 1 .. Len(ys) : ys[k] = xs[k]
  BY <1>2
<1>5. \A k \in 0 .. Len(ys) : Stages(f, ys)[k] = Stages(f, xs)[k]
  BY <1>2, <1>3, <1>4, StagesOfPrefix
<1>6. \A k \in 1 .. Len(ys) : \A n : CutShort(f, ys, k, n) = CutShort(f, xs, k, n)
  BY <1>3, <1>4, <1>5 DEF CutShort
<1>7. Survives(f, ys, lo, hi)
  <2>1. Len(ys) \in Nat /\ DOMAIN ys = 1 .. Len(ys)
    BY <1>2, <1>3
  <2>2. \A k \in 0 .. Len(ys) : Kept(Stages(f, ys)[k], lo, hi)
    BY <1>3, <1>5 DEF Survives
  <2>3. \A k \in 1 .. Len(ys) : \A n \in 0 .. (ys[k].len - 1) : Kept(CutShort(f, ys, k, n), lo, hi)
    BY <1>3, <1>4, <1>6 DEF Survives
  <2>4. QED
    BY <2>1, <2>2, <2>3 DEF Survives
<1>8. QED
  BY <1>1, <1>7

(* The writer after an append. *)
LEMMA AdvancedWriter ==
    ASSUME NEW w, NEW buf, w = [blkIndex |-> w.blkIndex, dataCnt |-> w.dataCnt, buffer |-> w.buffer]
    PROVE  [Advanced(w) EXCEPT !.buffer = buf]
             = [blkIndex |-> NextBlock(w.blkIndex, w.dataCnt),
                dataCnt |-> NextCount(w.blkIndex, w.dataCnt), buffer |-> buf]
<1>1. CASE w.dataCnt + 1 = kRecordsPerBlock
  <2>1. Advanced(w) = [blkIndex |-> w.blkIndex + 1, dataCnt |-> 0, buffer |-> w.buffer]
    BY <1>1 DEF Advanced
  <2>2. QED
    BY <1>1, <2>1 DEF NextBlock, NextCount
<1>2. CASE w.dataCnt + 1 # kRecordsPerBlock
  <2>1. Advanced(w) = [blkIndex |-> w.blkIndex, dataCnt |-> w.dataCnt + 1, buffer |-> w.buffer]
    BY <1>2 DEF Advanced
  <2>2. QED
    BY <1>2, <2>1 DEF NextBlock, NextCount
<1>3. QED
  BY <1>1, <1>2

LEMMA NextFacts ==
    ASSUME NEW b \in Nat, NEW i \in 0 .. (kRecordsPerBlock - 1), Room(b, i)
    PROVE  /\ NextBlock(b, i) \in Nat /\ NextCount(b, i) \in 0 .. (kRecordsPerBlock - 1)
           /\ Position(NextBlock(b, i), NextCount(b, i)) = Position(b, i) + 1
           /\ recordOffset(NextBlock(b, i), NextCount(b, i)) <= kMaxFileSize
<1>1. i \in Nat /\ kRecordsPerBlock \in Nat \ {0}
  BY SizeFacts
<1>2. Position(b, i + 1) = Position(b, i) + 1 /\ Position(b + 1, 0) = Position(b, kRecordsPerBlock)
  BY <1>1, PositionFacts
<1>3. CASE i + 1 = kRecordsPerBlock
  <2>1. NextBlock(b, i) = b + 1 /\ NextCount(b, i) = 0 /\ 0 \in 0 .. (kRecordsPerBlock - 1)
    BY <1>1, <1>3 DEF NextBlock, NextCount
  <2>2. recordOffset(b + 1, 0) <= kMaxFileSize
    BY <1>3 DEF Room
  <2>3. QED
    BY <1>2, <1>3, <2>1, <2>2
<1>4. CASE i + 1 # kRecordsPerBlock
  <2>1. NextBlock(b, i) = b /\ NextCount(b, i) = i + 1 /\ i + 1 \in 0 .. (kRecordsPerBlock - 1)
    BY <1>1, <1>4 DEF NextBlock, NextCount
  <2>2. recordOffset(b, i + 1) <= kMaxFileSize
    BY <1>4 DEF Room
  <2>3. QED
    BY <1>2, <2>1, <2>2
<1>5. QED
  BY <1>3, <1>4

LEMMA AppendRecorded ==
    ASSUME NEW f, NEW w, NEW t, NEW s \in Nat, Recorded(f, w, t, s),
           AllWritten(f, w.buffer).size + worstCase(w) <= kMaxFileSize,
           NEW xs, xs = w.buffer \o RecordWrites(w, t + 1)
    PROVE  /\ Recorded(AllWritten(f, xs), [Advanced(w) EXCEPT !.buffer = <<>>], t + 1, t + 1)
           /\ \A k \in 0 .. (Last(xs).len - 1) :
                Recorded(CutShort(f, xs, Len(xs), k),
                         [Advanced(w) EXCEPT !.buffer = <<Last(xs)>>], t + 1, s)
           /\ \A g \in PartlyWritten(f, Front(xs)) : Kept(g, s, t + 1)
           /\ \A g \in PartlyWritten(f, xs) : Kept(g, s, t + 1)
<1>1. PICK b, i : b = w.blkIndex /\ i = w.dataCnt
  OBVIOUS
<1>2. PICK q \in Frequency : OpenFile(f, w.buffer, q, b, i, s)
  BY <1>1 DEF Recorded
<1>3. /\ b \in Nat /\ i \in 0 .. (kRecordsPerBlock - 1) /\ t = Position(b, i)
      /\ recordOffset(b, i) <= kMaxFileSize
      /\ w = [blkIndex |-> w.blkIndex, dataCnt |-> w.dataCnt, buffer |-> w.buffer]
  BY <1>1 DEF Recorded
<1>4. Room(b, i)
  BY <1>1, CapacityIsRoom
<1>5. PICK c, j : c = NextBlock(b, i) /\ j = NextCount(b, i)
  OBVIOUS
<1>6. /\ c \in Nat /\ j \in 0 .. (kRecordsPerBlock - 1) /\ Position(c, j) = t + 1
      /\ recordOffset(c, j) <= kMaxFileSize
  BY <1>3, <1>4, <1>5, NextFacts
<1>7. xs = w.buffer \o RecordWrites(w, Position(b, i) + 1)
  BY <1>3
<1>8. /\ Len(xs) \in Nat \ {0} /\ \E V : xs \in Seq(V)
      /\ AllWritten(f, xs) = Full(q, c, j)
      /\ OpenFile(Stages(f, xs)[Len(xs) - 1], <<xs[Len(xs)]>>, q, c, j, s)
      /\ \A k \in 0 .. Len(xs) : Kept(Stages(f, xs)[k], s, t + 1)
      /\ \A k \in 1 .. Len(xs) : \A n \in 0 .. (xs[k].len - 1) : Kept(CutShort(f, xs, k, n), s, t + 1)
  <2>1. w.blkIndex = b /\ w.dataCnt = i
    BY <1>1
  <2>2. Completes(f, xs, q, NextBlock(b, i), NextCount(b, i), s, Position(b, i) + 1)
    BY <1>2, <1>3, <1>4, <1>7, <2>1, AppendSurvives
  <2>3. Completes(f, xs, q, c, j, s, t + 1)
    BY <1>3, <1>5, <2>2
  <2>4. QED
    BY <2>3 DEF Completes
<1>9. PICK V : xs \in Seq(V)
  BY <1>8
<1>10. xs # <<>> /\ DOMAIN xs = 1 .. Len(xs) /\ Len(xs) \in Nat
  <2>1. Len(<<>>) = 0
    OBVIOUS
  <2>2. xs # <<>>
    BY <1>8, <2>1
  <2>3. QED
    BY <1>9, <2>2, FrontFacts
<1>11. Survives(f, xs, s, t + 1)
  BY <1>8, <1>10 DEF Survives
<1>12. Survives(f, Front(xs), s, t + 1)
  BY <1>9, <1>10, <1>11, FrontSurvives
<1>13. Last(xs) = xs[Len(xs)]
  BY <1>9, <1>10, FrontFacts
<1>14. ASSUME NEW buf, NEW lo, NEW g, OpenFile(g, buf, q, c, j, lo)
       PROVE  Recorded(g, [Advanced(w) EXCEPT !.buffer = buf], t + 1, lo)
  <2>1. PICK v : v = [Advanced(w) EXCEPT !.buffer = buf]
    OBVIOUS
  <2>2. v = [blkIndex |-> c, dataCnt |-> j, buffer |-> buf]
    BY <1>1, <1>3, <1>5, <2>1, AdvancedWriter
  <2>3. v.blkIndex = c /\ v.dataCnt = j /\ v.buffer = buf
    BY <2>2
  <2>4. Recorded(g, v, t + 1, lo)
    BY <1>6, <1>14, <2>2, <2>3 DEF Recorded
  <2>5. QED
    BY <2>1, <2>4
<1>15. OpenFile(AllWritten(f, xs), <<>>, q, c, j, t + 1)
  <2>1. j \in Nat
    BY <1>6
  <2>2. Position(c, j) \in Nat
    BY <1>6, <2>1, PositionFacts
  <2>3. t + 1 <= Position(c, j)
    BY <1>6, <2>2
  <2>4. QED
    BY <1>8, <2>3 DEF OpenFile
<1>16. \A k \in 0 .. (Last(xs).len - 1) :
         OpenFile(CutShort(f, xs, Len(xs), k), <<Last(xs)>>, q, c, j, s)
  BY <1>6, <1>8, <1>13, BufferedPart DEF CutShort
<1>17. Recorded(AllWritten(f, xs), [Advanced(w) EXCEPT !.buffer = <<>>], t + 1, t + 1)
  BY <1>14, <1>15
<1>18. \A k \in 0 .. (Last(xs).len - 1) :
         Recorded(CutShort(f, xs, Len(xs), k), [Advanced(w) EXCEPT !.buffer = <<Last(xs)>>], t + 1, s)
  BY <1>14, <1>16
<1>19. \A g \in PartlyWritten(f, Front(xs)) : Kept(g, s, t + 1)
  BY <1>12, PartsKept
<1>20. \A g \in PartlyWritten(f, xs) : Kept(g, s, t + 1)
  BY <1>11, PartsKept
<1>21. QED
  BY <1>17, <1>18, <1>19, <1>20

(* An append that fails after the buffer has been passed on. *)
LEMMA FailedAppend ==
    ASSUME NEW f, NEW w, NEW t, NEW s \in Nat, Recorded(f, w, t, s),
           AllWritten(f, w.buffer).size + worstCase(w) <= kMaxFileSize,
           NEW g \in PartlyWritten(AllWritten(f, w.buffer), Front(RecordWrites(w, t + 1)))
    PROVE  Kept(g, t, t + 1)
<1>1. PICK h, v : h = AllWritten(f, w.buffer) /\ v = [w EXCEPT !.buffer = <<>>]
  OBVIOUS
<1>2. t \in Nat /\ Recorded(h, v, t, t)
  BY <1>1, RecordedFile
<1>3. w = [blkIndex |-> w.blkIndex, dataCnt |-> w.dataCnt, buffer |-> w.buffer]
  BY DEF Recorded
<1>4. v.blkIndex = w.blkIndex /\ v.dataCnt = w.dataCnt /\ v.buffer = <<>>
  BY <1>1, <1>3
<1>5. AllWritten(h, v.buffer) = h
  <2>1. Len(v.buffer) = 0
    BY <1>4
  <2>2. QED
    BY <2>1, StagesSteps DEF AllWritten
<1>6. worstCase(v) = worstCase(w)
  BY <1>4 DEF worstCase
<1>7. PICK xs : xs = v.buffer \o RecordWrites(v, t + 1)
  OBVIOUS
<1>8. xs = RecordWrites(w, t + 1)
  <2>1. RecordWrites(v, t + 1) = RecordWrites(w, t + 1)
    BY <1>4 DEF RecordWrites
  <2>2. \E V : RecordWrites(w, t + 1) \in Seq(V)
    BY RecordWritesForm
  <2>3. QED
    BY <1>4, <1>7, <2>1, <2>2
<1>9. \A k \in PartlyWritten(h, Front(xs)) : Kept(k, t, t + 1)
  BY <1>1, <1>2, <1>5, <1>6, <1>7, AppendRecorded
<1>10. QED
  BY <1>1, <1>8, <1>9
-----------------------------------------------------------------------------
(***************************************************************************)
(* The inductive invariant: the file being recorded, unless it is spoilt,  *)
(* is one an append can continue, and every other file that is not spoilt  *)
(* has between safe and taken samples.                                     *)
(***************************************************************************)
Consistent(d, w, r, t, s) ==
    /\ DOMAIN d \subseteq Name
    /\ t \in [DOMAIN d -> Nat] /\ s \in [DOMAIN d -> Nat]
    /\ \A n \in DOMAIN d \ r : Kept(d[n], s[n], t[n])
    /\ \A n \in r : r = {n} /\ n \in DOMAIN d /\ Recorded(d[n], w, t[n], s[n])

TrendInv == Consistent(disk, writer, Live, taken, safe)

LEMMA FunctionUpdate ==
    ASSUME NEW D, NEW f \in [D -> Nat], NEW n \in D, NEW x \in Nat
    PROVE  /\ [f EXCEPT ![n] = x] \in [D -> Nat] /\ [f EXCEPT ![n] = x][n] = x
           /\ \A m \in D : m # n => [f EXCEPT ![n] = x][m] = f[m]
           /\ [f EXCEPT ![n] = f[n]] = f /\ f[n] \in Nat
OBVIOUS

LEMMA DiskUpdate ==
    ASSUME NEW d, NEW n \in DOMAIN d, NEW g
    PROVE  /\ DOMAIN [d EXCEPT ![n] = g] = DOMAIN d /\ [d EXCEPT ![n] = g][n] = g
           /\ \A m \in DOMAIN d : m # n => [d EXCEPT ![n] = g][m] = d[m]
OBVIOUS

LEMMA GoesOn ==
    ASSUME NEW d, NEW w, NEW r, NEW t, NEW s, Consistent(d, w, r, t, s), NEW n \in r,
           NEW g, NEW v, NEW x \in Nat, NEW y \in Nat, Recorded(g, v, x, y)
    PROVE  Consistent([d EXCEPT ![n] = g], v, r, [t EXCEPT ![n] = x], [s EXCEPT ![n] = y])
<1>1. /\ DOMAIN d \subseteq Name /\ t \in [DOMAIN d -> Nat] /\ s \in [DOMAIN d -> Nat]
      /\ r = {n} /\ n \in DOMAIN d /\ \A m \in DOMAIN d \ r : Kept(d[m], s[m], t[m])
  BY DEF Consistent
<1>2. PICK D, T, S : D = [d EXCEPT ![n] = g] /\ T = [t EXCEPT ![n] = x] /\ S = [s EXCEPT ![n] = y]
  OBVIOUS
<1>3. DOMAIN D = DOMAIN d /\ D[n] = g /\ \A m \in DOMAIN d : m # n => D[m] = d[m]
  BY <1>1, <1>2, DiskUpdate
<1>4. /\ T \in [DOMAIN d -> Nat] /\ T[n] = x /\ \A m \in DOMAIN d : m # n => T[m] = t[m]
      /\ S \in [DOMAIN d -> Nat] /\ S[n] = y /\ \A m \in DOMAIN d : m # n => S[m] = s[m]
  BY <1>1, <1>2, FunctionUpdate
<1>5. \A m \in DOMAIN D \ r : Kept(D[m], S[m], T[m])
  BY <1>1, <1>3, <1>4
<1>6. \A m \in r : r = {m} /\ m \in DOMAIN D /\ Recorded(D[m], v, T[m], S[m])
  BY <1>1, <1>3, <1>4
<1>7. Consistent(D, v, r, T, S)
  BY <1>1, <1>3, <1>4, <1>5, <1>6 DEF Consistent
<1>8. QED
  BY <1>2, <1>7

LEMMA Ends ==
    ASSUME NEW d, NEW w, NEW r, NEW t, NEW s, Consistent(d, w, r, t, s), NEW n \in r,
           NEW g, NEW v, NEW x \in Nat, NEW y \in Nat, Kept(g, y, x)
    PROVE  Consistent([d EXCEPT ![n] = g], v, {}, [t EXCEPT ![n] = x], [s EXCEPT ![n] = y])
<1>1. /\ DOMAIN d \subseteq Name /\ t \in [DOMAIN d -> Nat] /\ s \in [DOMAIN d -> Nat]
      /\ r = {n} /\ n \in DOMAIN d /\ \A m \in DOMAIN d \ r : Kept(d[m], s[m], t[m])
  BY DEF Consistent
<1>2. PICK D, T, S : D = [d EXCEPT ![n] = g] /\ T = [t EXCEPT ![n] = x] /\ S = [s EXCEPT ![n] = y]
  OBVIOUS
<1>3. DOMAIN D = DOMAIN d /\ D[n] = g /\ \A m \in DOMAIN d : m # n => D[m] = d[m]
  BY <1>1, <1>2, DiskUpdate
<1>4. /\ T \in [DOMAIN d -> Nat] /\ T[n] = x /\ \A m \in DOMAIN d : m # n => T[m] = t[m]
      /\ S \in [DOMAIN d -> Nat] /\ S[n] = y /\ \A m \in DOMAIN d : m # n => S[m] = s[m]
  BY <1>1, <1>2, FunctionUpdate
<1>5. \A m \in DOMAIN D \ {} : Kept(D[m], S[m], T[m])
  BY <1>1, <1>3, <1>4
<1>6. Consistent(D, v, {}, T, S)
  BY <1>1, <1>3, <1>4, <1>5 DEF Consistent
<1>7. QED
  BY <1>2, <1>6

LEMMA StopsShort ==
    ASSUME NEW d, NEW w, NEW r, NEW t, NEW s, Consistent(d, w, r, t, s), NEW v
    PROVE  Consistent(d, v, {}, t, s)
<1>1. ASSUME NEW n \in DOMAIN d PROVE Kept(d[n], s[n], t[n])
  <2>1. CASE n \in r
    <3>1. Recorded(d[n], w, t[n], s[n]) /\ s[n] \in Nat
      BY <2>1 DEF Consistent
    <3>2. QED
      BY <3>1, RecordedFile
  <2>2. CASE n \notin r
    BY <2>2 DEF Consistent
  <2>3. QED
    BY <2>1, <2>2
<1>2. QED
  BY <1>1 DEF Consistent

(* A file is removed, or no longer looked at. *)
LEMMA Removed ==
    ASSUME NEW d, NEW w, NEW r, NEW t, NEW s, Consistent(d, w, r, t, s), NEW n,
           NEW v, v = w \/ r \ {n} = {}
    PROVE  Consistent(Without(d, n), v, r \ {n}, Without(t, n), Without(s, n))
<1>1. /\ DOMAIN d \subseteq Name /\ t \in [DOMAIN d -> Nat] /\ s \in [DOMAIN d -> Nat]
      /\ \A m \in DOMAIN d \ r : Kept(d[m], s[m], t[m])
      /\ \A m \in r : r = {m} /\ m \in DOMAIN d /\ Recorded(d[m], w, t[m], s[m])
  BY DEF Consistent
<1>2. PICK D, T, S : D = Without(d, n) /\ T = Without(t, n) /\ S = Without(s, n)
  OBVIOUS
<1>3. DOMAIN D = DOMAIN d \ {n} /\ \A m \in DOMAIN d \ {n} : D[m] = d[m]
  BY <1>2 DEF Without
<1>4. /\ T \in [DOMAIN D -> Nat] /\ \A m \in DOMAIN d \ {n} : T[m] = t[m]
      /\ S \in [DOMAIN D -> Nat] /\ \A m \in DOMAIN d \ {n} : S[m] = s[m]
  BY <1>1, <1>2, <1>3 DEF Without
<1>5. \A m \in DOMAIN D \ (r \ {n}) : Kept(D[m], S[m], T[m])
  BY <1>1, <1>3, <1>4
<1>6. ASSUME NEW m \in r \ {n}
      PROVE  r \ {n} = {m} /\ m \in DOMAIN D /\ Recorded(D[m], v, T[m], S[m])
  <2>1. r = {m} /\ m \in DOMAIN d \ {n} /\ Recorded(d[m], w, t[m], s[m])
    BY <1>1
  <2>2. r \ {n} = {m} /\ v = w
    BY <1>6, <2>1
  <2>3. QED
    BY <1>3, <1>4, <2>1, <2>2
<1>7. Consistent(D, v, r \ {n}, T, S)
  BY <1>1, <1>3, <1>4, <1>5, <1>6 DEF Consistent
<1>8. QED
  BY <1>2, <1>7

(* A new file, which is then recorded or left as it is. *)
LEMMA OpenKeeps ==
    ASSUME NEW n \in Name, TrendInv, NEW g, Open(n, g), NEW v, NEW r,
           (r = {n} /\ Recorded(g, v, 0, 0)) \/ (r = {} /\ Kept(g, 0, 0))
    PROVE  Consistent(disk', v, r, taken', safe')
<1>1. /\ DOMAIN disk \subseteq Name /\ taken \in [DOMAIN disk -> Nat] /\ safe \in [DOMAIN disk -> Nat]
      /\ \A m \in DOMAIN disk : Kept(disk[m], safe[m], taken[m])
  BY DEF TrendInv, Consistent, Open, Live
<1>2. PICK D, T, S : /\ D = With(disk, n, g) /\ T = With(taken, n, 0) /\ S = With(safe, n, 0)
  OBVIOUS
<1>3. DOMAIN D = DOMAIN disk \cup {n} /\ D[n] = g /\ \A m \in DOMAIN disk : m # n => D[m] = disk[m]
  BY <1>2 DEF With
<1>4. /\ T \in [DOMAIN D -> Nat] /\ T[n] = 0 /\ \A m \in DOMAIN disk : m # n => T[m] = taken[m]
      /\ S \in [DOMAIN D -> Nat] /\ S[n] = 0 /\ \A m \in DOMAIN disk : m # n => S[m] = safe[m]
  BY <1>1, <1>2, <1>3 DEF With
<1>5. \A m \in r : r = {m} /\ m \in DOMAIN D /\ Recorded(D[m], v, T[m], S[m])
  BY <1>3, <1>4
<1>6. \A m \in DOMAIN D \ r : Kept(D[m], S[m], T[m])
  BY <1>1, <1>3, <1>4
<1>7. Consistent(D, v, r, T, S)
  BY <1>1, <1>3, <1>4, <1>5, <1>6 DEF Consistent
<1>8. disk' = D /\ taken' = T /\ safe' = S
  BY <1>2 DEF Open
<1>9. QED
  BY <1>7, <1>8

(* What start() leaves, whether its headers are passed on or not. *)
LEMMA StartFacts ==
    ASSUME NEW q \in Frequency
    PROVE  /\ Recorded(AllWritten(EmptyFile(q), <<FileHeaders>>), Closed, 0, 0)
           /\ \A g \in Interrupted(EmptyFile(q), <<FileHeaders>>) :
                Recorded(g, [Closed EXCEPT !.buffer = <<FileHeaders>>], 0, 0) /\ Kept(g, 0, 0)
<1>1. PICK w : w = [Closed EXCEPT !.buffer = <<FileHeaders>>]
  OBVIOUS
<1>2. w.buffer = <<FileHeaders>> /\ [w EXCEPT !.buffer = <<>>] = Closed
  <2>1. w = [blkIndex |-> 0, dataCnt |-> 0, buffer |-> <<FileHeaders>>]
    BY <1>1 DEF Closed
  <2>2. QED
    BY <2>1 DEF Closed
<1>3. Recorded(EmptyFile(q), w, 0, 0) /\ 0 \in Nat
  BY <1>1, StartRecorded
<1>4. Recorded(AllWritten(EmptyFile(q), w.buffer), [w EXCEPT !.buffer = <<>>], 0, 0)
  BY <1>3, RecordedFile
<1>5. ASSUME NEW g \in Interrupted(EmptyFile(q), w.buffer) PROVE Recorded(g, w, 0, 0) /\ Kept(g, 0, 0)
  <2>1. Recorded(g, w, 0, 0)
    BY <1>3, RefusedBuffer
  <2>2. QED
    BY <1>3, <2>1, RecordedFile
<1>6. QED
  BY <1>1, <1>2, <1>4, <1>5

LEMMA StartKeeps ==
    ASSUME NEW n \in Name, NEW q \in Frequency, TrendInv,
           Start(n, q) \/ StartRefused(n, q) \/ StartCrashes(n, q)
    PROVE  TrendInv'
<1>1. CASE Start(n, q)
  <2>1. PICK g : g = AllWritten(EmptyFile(q), <<FileHeaders>>)
    OBVIOUS
  <2>2. Open(n, g) /\ Recorded(g, Closed, 0, 0)
    BY <1>1, <2>1, StartFacts DEF Start
  <2>3. Consistent(disk', Closed, {n}, taken', safe')
    BY <2>2, OpenKeeps
  <2>4. writer' = Closed /\ Live' = {n}
    BY <1>1 DEF Start, Open, Live
  <2>5. QED
    BY <2>3, <2>4 DEF TrendInv
<1>2. CASE StartRefused(n, q)
  <2>1. PICK g \in Interrupted(EmptyFile(q), <<FileHeaders>>) : Open(n, g)
    BY <1>2 DEF StartRefused
  <2>2. PICK v : v = [Closed EXCEPT !.buffer = <<FileHeaders>>]
    OBVIOUS
  <2>3. Recorded(g, v, 0, 0)
    BY <2>1, <2>2, StartFacts
  <2>4. Consistent(disk', v, {n}, taken', safe')
    BY <2>1, <2>3, OpenKeeps
  <2>5. writer' = v /\ Live' = {n}
    BY <1>2, <2>1, <2>2 DEF StartRefused, Open, Live
  <2>6. QED
    BY <2>4, <2>5 DEF TrendInv
<1>3. CASE StartCrashes(n, q)
  <2>1. PICK g \in Interrupted(EmptyFile(q), <<FileHeaders>>) : Open(n, g)
    BY <1>3 DEF StartCrashes
  <2>2. Kept(g, 0, 0)
    BY <2>1, StartFacts
  <2>3. Consistent(disk', writer, {}, taken', safe')
    BY <2>1, <2>2, OpenKeeps
  <2>4. writer' = writer /\ Live' = {}
    BY <1>3, <2>1 DEF StartCrashes, Open, Live
  <2>5. QED
    BY <2>3, <2>4 DEF TrendInv
<1>4. QED
  BY <1>1, <1>2, <1>3

LEMMA DeleteKeeps ==
    ASSUME NEW n, TrendInv, DeleteFile(n)
    PROVE  TrendInv'
<1>1. Consistent(Without(disk, n), writer, Live \ {n}, Without(taken, n), Without(safe, n))
  BY Removed DEF TrendInv
<1>2. Live' = Live \ {n}
  BY DEF DeleteFile, Live
<1>3. disk' = Without(disk, n) /\ writer' = writer /\ taken' = Without(taken, n) /\ safe' = Without(safe, n)
  BY DEF DeleteFile
<1>4. QED
  BY <1>1, <1>2, <1>3 DEF TrendInv

(* A spoilt file is no longer looked at. *)
LEMMA AppendMisplacedKeeps ==
    ASSUME NEW n, TrendInv, AppendMisplaced(n)
    PROVE  TrendInv'
<1>1. n \in Live
  BY DEF AppendMisplaced
<1>2. Live \ {n} = {}
  BY <1>1 DEF TrendInv, Consistent
<1>3. Consistent(Without(disk, n), Closed, {}, Without(taken, n), Without(safe, n))
  <2>1. Consistent(Without(disk, n), Closed, Live \ {n}, Without(taken, n), Without(safe, n))
    BY <1>2, Removed DEF TrendInv
  <2>2. QED
    BY <1>2, <2>1
<1>4. Live' = {}
  <2>1. recording' \in {recording, {}} /\ spoilt' = spoilt \cup {n}
    BY DEF AppendMisplaced
  <2>2. QED
    BY <1>2, <2>1 DEF Live
<1>5. /\ disk' = Without(disk, n) /\ writer' = Closed
      /\ taken' = Without(taken, n) /\ safe' = Without(safe, n)
  BY DEF AppendMisplaced
<1>6. QED
  BY <1>3, <1>4, <1>5 DEF TrendInv

(* What the invariant says of the file being recorded. *)
LEMMA InRecording ==
    ASSUME NEW n \in Live, TrendInv
    PROVE  /\ n \in DOMAIN disk /\ taken \in [DOMAIN disk -> Nat] /\ safe \in [DOMAIN disk -> Nat]
           /\ taken[n] \in Nat /\ safe[n] \in Nat /\ taken[n] + 1 \in Nat
           /\ [safe EXCEPT ![n] = safe[n]] = safe /\ [taken EXCEPT ![n] = taken[n]] = taken
           /\ Recorded(disk[n], writer, taken[n], safe[n])
<1>1. /\ n \in DOMAIN disk /\ taken \in [DOMAIN disk -> Nat] /\ safe \in [DOMAIN disk -> Nat]
      /\ Recorded(disk[n], writer, taken[n], safe[n])
  BY DEF TrendInv, Consistent
<1>2. /\ taken[n] \in Nat /\ safe[n] \in Nat
      /\ [safe EXCEPT ![n] = safe[n]] = safe /\ [taken EXCEPT ![n] = taken[n]] = taken
  BY <1>1
<1>3. taken[n] + 1 \in Nat
  BY <1>2
<1>4. QED
  BY <1>1, <1>2, <1>3

(* What an append to it does, whole or cut short. *)
LEMMA AppendFacts ==
    ASSUME NEW n \in Live, TrendInv, ~stuck, HasCapacity(n, writer)
    PROVE  /\ Recorded(AllWritten(disk[n], Pending(n)), [Advanced(writer) EXCEPT !.buffer = <<>>],
                       taken[n] + 1, taken[n] + 1)
           /\ \A k \in 0 .. (Last(Pending(n)).len - 1) :
                Recorded(CutShort(disk[n], Pending(n), Len(Pending(n)), k),
                         [Advanced(writer) EXCEPT !.buffer = <<Last(Pending(n))>>],
                         taken[n] + 1, safe[n])
           /\ \A g \in PartlyWritten(AllWritten(disk[n], writer.buffer),
                                     Front(RecordWrites(writer, taken[n] + 1))) :
                Kept(g, taken[n], taken[n] + 1)
           /\ \A g \in PartlyWritten(disk[n], Pending(n)) : Kept(g, safe[n], taken[n] + 1)
<1>1. safe[n] \in Nat /\ Recorded(disk[n], writer, taken[n], safe[n])
  BY InRecording
<1>2. AllWritten(disk[n], writer.buffer).size + worstCase(writer) <= kMaxFileSize
  BY DEF HasCapacity, fileSize
<1>3. PICK xs : xs = Pending(n)
  OBVIOUS
<1>4. xs = writer.buffer \o RecordWrites(writer, taken[n] + 1)
  BY <1>3 DEF Pending
<1>5. PICK f, w, t, s : f = disk[n] /\ w = writer /\ t = taken[n] /\ s = safe[n]
  OBVIOUS
<1>6. /\ Recorded(AllWritten(f, xs), [Advanced(w) EXCEPT !.buffer = <<>>], t + 1, t + 1)
      /\ \A k \in 0 .. (Last(xs).len - 1) :
           Recorded(CutShort(f, xs, Len(xs), k), [Advanced(w) EXCEPT !.buffer = <<Last(xs)>>], t + 1, s)
      /\ \A g \in PartlyWritten(AllWritten(f, w.buffer), Front(RecordWrites(w, t + 1))) : Kept(g, t, t + 1)
      /\ \A g \in PartlyWritten(f, xs) : Kept(g, s, t + 1)
  <2>1. s \in Nat /\ Recorded(f, w, t, s) /\ AllWritten(f, w.buffer).size + worstCase(w) <= kMaxFileSize
    BY <1>1, <1>2, <1>5
  <2>2. xs = w.buffer \o RecordWrites(w, t + 1)
    BY <1>4, <1>5
  <2>3. QED
    BY <2>1, <2>2, AppendRecorded, FailedAppend
<1>7. QED
  BY <1>3, <1>5, <1>6

LEMMA AppendedKeeps ==
    ASSUME NEW n, TrendInv, Appended(n)
    PROVE  TrendInv'
<1>1. n \in Live /\ ~stuck /\ HasCapacity(n, writer)
  BY DEF Appended
<1>2. PICK g, v, x : /\ g = AllWritten(disk[n], Pending(n)) /\ x = taken[n] + 1
                     /\ v = [Advanced(writer) EXCEPT !.buffer = <<>>]
  OBVIOUS
<1>3. Recorded(g, v, x, x) /\ x \in Nat
  BY <1>1, <1>2, AppendFacts, InRecording
<1>4. Consistent([disk EXCEPT ![n] = g], v, Live, [taken EXCEPT ![n] = x], [safe EXCEPT ![n] = x])
  BY <1>1, <1>3, GoesOn DEF TrendInv
<1>5. /\ disk' = [disk EXCEPT ![n] = g] /\ writer' = v /\ Live' = Live
      /\ taken' = [taken EXCEPT ![n] = x] /\ safe' = [safe EXCEPT ![n] = x]
  BY <1>2 DEF Appended, Live
<1>6. QED
  BY <1>4, <1>5 DEF TrendInv

LEMMA AppendedUnflushedKeeps ==
    ASSUME NEW n, TrendInv, AppendedUnflushed(n)
    PROVE  TrendInv'
<1>1. n \in Live /\ ~stuck /\ HasCapacity(n, writer)
  BY DEF AppendedUnflushed
<1>8. PICK k \in 0 .. (Last(Pending(n)).len - 1) :
        disk' = [disk EXCEPT ![n] = CutShort(disk[n], Pending(n), Len(Pending(n)), k)]
  BY DEF AppendedUnflushed
<1>2. PICK g, v, x, y : /\ g = CutShort(disk[n], Pending(n), Len(Pending(n)), k)
                        /\ x = taken[n] + 1 /\ y = safe[n]
                        /\ v = [Advanced(writer) EXCEPT !.buffer = <<Last(Pending(n))>>]
  OBVIOUS
<1>3. Recorded(g, v, x, y)
  BY <1>1, <1>2, AppendFacts
<1>4. x \in Nat /\ y \in Nat /\ [safe EXCEPT ![n] = y] = safe
  BY <1>1, <1>2, InRecording
<1>5. Consistent([disk EXCEPT ![n] = g], v, Live, [taken EXCEPT ![n] = x], [safe EXCEPT ![n] = y])
  BY <1>1, <1>3, <1>4, GoesOn DEF TrendInv
<1>6. /\ disk' = [disk EXCEPT ![n] = g] /\ writer' = v /\ Live' = Live
      /\ taken' = [taken EXCEPT ![n] = x] /\ safe' = safe
  BY <1>2, <1>8 DEF AppendedUnflushed, Live
<1>7. QED
  BY <1>4, <1>5, <1>6 DEF TrendInv

(* Recording ends, because the disk refuses or the process ends. *)
LEMMA EndKeeps ==
    ASSUME NEW n \in Live, TrendInv, NEW g, NEW x \in Nat, NEW y \in Nat, Kept(g, y, x),
           disk' = [disk EXCEPT ![n] = g], recording' = {},
           taken' = [taken EXCEPT ![n] = x], safe' = [safe EXCEPT ![n] = y]
    PROVE  TrendInv'
<1>1. \A v : Consistent([disk EXCEPT ![n] = g], v, {}, [taken EXCEPT ![n] = x], [safe EXCEPT ![n] = y])
  BY Ends DEF TrendInv
<1>2. Consistent([disk EXCEPT ![n] = g], writer', {}, [taken EXCEPT ![n] = x], [safe EXCEPT ![n] = y])
  BY <1>1
<1>3. Live' = {}
  BY DEF Live
<1>4. QED
  BY <1>2, <1>3 DEF TrendInv

LEMMA AppendFailsKeeps ==
    ASSUME NEW n, TrendInv, AppendFails(n)
    PROVE  TrendInv'
<1>1. n \in Live /\ ~stuck /\ HasCapacity(n, writer)
  BY DEF AppendFails
<1>2. PICK g \in PartlyWritten(AllWritten(disk[n], writer.buffer),
                               Front(RecordWrites(writer, taken[n] + 1))) :
        disk' = [disk EXCEPT ![n] = g]
  BY DEF AppendFails
<1>3. Kept(g, taken[n], taken[n] + 1) /\ taken[n] \in Nat /\ taken[n] + 1 \in Nat
  BY <1>1, <1>2, AppendFacts, InRecording
<1>4. /\ recording' = {} /\ taken' = [taken EXCEPT ![n] = taken[n] + 1]
      /\ safe' = [safe EXCEPT ![n] = taken[n]]
  BY DEF AppendFails
<1>5. QED
  BY <1>1, <1>2, <1>3, <1>4, EndKeeps

LEMMA CrashKeeps ==
    ASSUME TrendInv, Crash
    PROVE  TrendInv'
<1>1. Live' = {} /\ recording' = {} /\ safe' = safe
  BY DEF Crash, Live
<1>2. CASE UNCHANGED <<disk, taken>>
  <2>1. \A v : Consistent(disk, v, {}, taken, safe)
    BY StopsShort DEF TrendInv
  <2>2. Consistent(disk, writer', {}, taken, safe)
    BY <2>1
  <2>3. QED
    BY <1>1, <1>2, <2>2 DEF TrendInv
<1>3. CASE \E n \in Live :
             /\ ~stuck
             /\ HasCapacity(n, writer)
             /\ \E f \in PartlyWritten(disk[n], Pending(n)) : disk' = [disk EXCEPT ![n] = f]
             /\ taken' = [taken EXCEPT ![n] = @ + 1]
  <2>1. PICK n \in Live :
             /\ ~stuck
             /\ HasCapacity(n, writer)
             /\ \E f \in PartlyWritten(disk[n], Pending(n)) : disk' = [disk EXCEPT ![n] = f]
             /\ taken' = [taken EXCEPT ![n] = @ + 1]
    BY <1>3
  <2>2. PICK g \in PartlyWritten(disk[n], Pending(n)) : disk' = [disk EXCEPT ![n] = g]
    BY <2>1
  <2>3. Kept(g, safe[n], taken[n] + 1)
    BY <2>1, <2>2, AppendFacts
  <2>4. taken' = [taken EXCEPT ![n] = taken[n] + 1]
    BY <2>1
  <2>5. taken[n] + 1 \in Nat /\ safe[n] \in Nat /\ [safe EXCEPT ![n] = safe[n]] = safe
    BY <2>1, InRecording
  <2>6. QED
    BY <1>1, <2>2, <2>3, <2>4, <2>5, EndKeeps
<1>4. QED
  BY <1>2, <1>3 DEF Crash

(* The buffer passed on, at the end of recording and by a question. *)
LEMMA FlushFacts ==
    ASSUME NEW n \in Live, TrendInv
    PROVE  /\ Kept(AllWritten(disk[n], writer.buffer), taken[n], taken[n])
           /\ Recorded(AllWritten(disk[n], writer.buffer), [writer EXCEPT !.buffer = <<>>],
                       taken[n], taken[n])
<1>1. safe[n] \in Nat /\ Recorded(disk[n], writer, taken[n], safe[n])
  BY InRecording
<1>2. PICK f, w, t, s : f = disk[n] /\ w = writer /\ t = taken[n] /\ s = safe[n]
  OBVIOUS
<1>3. Kept(AllWritten(f, w.buffer), t, t) /\ Recorded(AllWritten(f, w.buffer), [w EXCEPT !.buffer = <<>>], t, t)
  <2>1. s \in Nat /\ Recorded(f, w, t, s)
    BY <1>1, <1>2
  <2>2. QED
    BY <2>1, RecordedFile
<1>4. QED
  BY <1>2, <1>3

LEMMA StopKeeps ==
    ASSUME NEW n, TrendInv, Stop(n)
    PROVE  TrendInv'
<1>1. n \in Live
  BY DEF Stop
<1>2. PICK g : g = AllWritten(disk[n], writer.buffer)
  OBVIOUS
<1>3. Kept(g, taken[n], taken[n]) /\ taken[n] \in Nat /\ [taken EXCEPT ![n] = taken[n]] = taken
  BY <1>1, <1>2, FlushFacts, InRecording
<1>4. /\ disk' = [disk EXCEPT ![n] = g] /\ recording' = {}
      /\ taken' = taken /\ safe' = [safe EXCEPT ![n] = taken[n]]
  BY <1>2 DEF Stop
<1>5. QED
  BY <1>1, <1>3, <1>4, EndKeeps

(* The buffer refused, at the end of recording and by a question. *)
LEMMA RefusedFacts ==
    ASSUME NEW n \in Live, TrendInv, NEW g \in Interrupted(disk[n], writer.buffer)
    PROVE  Recorded(g, writer, taken[n], safe[n]) /\ Kept(g, safe[n], taken[n])
<1>1. safe[n] \in Nat /\ Recorded(disk[n], writer, taken[n], safe[n])
  BY InRecording
<1>2. PICK f, w, t, s : f = disk[n] /\ w = writer /\ t = taken[n] /\ s = safe[n]
  OBVIOUS
<1>3. s \in Nat /\ Recorded(f, w, t, s) /\ g \in Interrupted(f, w.buffer)
  BY <1>1, <1>2
<1>4. Recorded(g, w, t, s)
  BY <1>3, RefusedBuffer
<1>5. Kept(g, s, t)
  BY <1>3, <1>4, RecordedFile
<1>6. QED
  BY <1>2, <1>4, <1>5

LEMMA StopRefusedKeeps ==
    ASSUME NEW n, TrendInv, StopRefused(n)
    PROVE  TrendInv'
<1>1. n \in Live
  BY DEF StopRefused
<1>2. PICK g \in Interrupted(disk[n], writer.buffer) : disk' = [disk EXCEPT ![n] = g]
  BY DEF StopRefused
<1>3. /\ Kept(g, safe[n], taken[n]) /\ taken[n] \in Nat /\ safe[n] \in Nat
      /\ [safe EXCEPT ![n] = safe[n]] = safe /\ [taken EXCEPT ![n] = taken[n]] = taken
  BY <1>1, RefusedFacts, InRecording
<1>4. recording' = {} /\ taken' = taken /\ safe' = safe
  BY DEF StopRefused
<1>5. QED
  BY <1>1, <1>2, <1>3, <1>4, EndKeeps

LEMMA StatusRefusedKeeps ==
    ASSUME NEW n, TrendInv, StatusRefused(n)
    PROVE  TrendInv'
<1>1. n \in Live
  BY DEF StatusRefused
<1>2. PICK g \in Interrupted(disk[n], writer.buffer) : disk' = [disk EXCEPT ![n] = g]
  BY DEF StatusRefused
<1>3. PICK x, y : x = taken[n] /\ y = safe[n]
  OBVIOUS
<1>4. Recorded(g, writer, x, y)
  BY <1>1, <1>3, RefusedFacts
<1>5. x \in Nat /\ y \in Nat /\ [safe EXCEPT ![n] = y] = safe /\ [taken EXCEPT ![n] = x] = taken
  BY <1>1, <1>3, InRecording
<1>6. Consistent([disk EXCEPT ![n] = g], writer, Live, [taken EXCEPT ![n] = x], [safe EXCEPT ![n] = y])
  BY <1>1, <1>4, <1>5, GoesOn DEF TrendInv
<1>7. writer' = writer /\ Live' = Live /\ taken' = taken /\ safe' = safe
  BY DEF StatusRefused, Live
<1>8. QED
  BY <1>2, <1>5, <1>6, <1>7 DEF TrendInv

LEMMA StopSpoiltKeeps ==
    ASSUME NEW n, TrendInv, StopSpoilt(n)
    PROVE  TrendInv'
<1>1. Consistent(disk, writer, {}, taken, safe)
  BY StopsShort DEF TrendInv
<1>2. disk' = disk /\ writer' = writer /\ taken' = taken /\ safe' = safe /\ Live' = {}
  BY DEF StopSpoilt, Live
<1>3. QED
  BY <1>1, <1>2 DEF TrendInv

LEMMA StatusKeeps ==
    ASSUME NEW n, TrendInv, Status(n)
    PROVE  TrendInv'
<1>1. n \in Live
  BY DEF Status
<1>2. PICK g, v, x : /\ g = AllWritten(disk[n], writer.buffer) /\ x = taken[n]
                     /\ v = [writer EXCEPT !.buffer = <<>>]
  OBVIOUS
<1>3. Recorded(g, v, x, x)
  BY <1>1, <1>2, FlushFacts
<1>4. x \in Nat /\ [taken EXCEPT ![n] = x] = taken
  BY <1>1, <1>2, InRecording
<1>5. Consistent([disk EXCEPT ![n] = g], v, Live, [taken EXCEPT ![n] = x], [safe EXCEPT ![n] = x])
  BY <1>1, <1>3, <1>4, GoesOn DEF TrendInv
<1>6. /\ disk' = [disk EXCEPT ![n] = g] /\ writer' = v /\ Live' = Live
      /\ taken' = taken /\ safe' = [safe EXCEPT ![n] = x]
  BY <1>2 DEF Status, Live
<1>7. QED
  BY <1>4, <1>5, <1>6 DEF TrendInv

(***************************************************************************)
(* Start, append, stop, status and delete, the disk refusing any write of  *)
(* theirs, and the end of the process at any point of an append keep the   *)
(* invariant: a file that is not spoilt can be recorded on or read.        *)
(***************************************************************************)
THEOREM TrendInvariant == TrendSpec => []TrendInv
<1>1. TrendInit => TrendInv
  BY DEF TrendInit, TrendInv, Consistent, Live
<1>2. TrendInv /\ [TrendNext]_trendVars => TrendInv'
  <2>1. SUFFICES ASSUME TrendInv, [TrendNext]_trendVars PROVE TrendInv'
    OBVIOUS
  <2>2. ASSUME NEW n \in Name, NEW q \in Frequency,
               Start(n, q) \/ StartRefused(n, q) \/ StartCrashes(n, q)
        PROVE  TrendInv'
    BY <2>1, <2>2, StartKeeps
  <2>3. ASSUME NEW n, Appended(n) \/ AppendedUnflushed(n) \/ AppendFails(n) \/ AppendMisplaced(n)
        PROVE  TrendInv'
    BY <2>1, <2>3, AppendedKeeps, AppendedUnflushedKeeps, AppendFailsKeeps, AppendMisplacedKeeps
  <2>4. ASSUME NEW n, CapacityExceeded(n) \/ Stop(n) \/ StopRefused(n) \/ StopSpoilt(n)
        PROVE  TrendInv'
    BY <2>1, <2>4, StopKeeps, StopRefusedKeeps, StopSpoiltKeeps DEF CapacityExceeded
  <2>5. ASSUME NEW n, Status(n) \/ StatusRefused(n) \/ DeleteFile(n) PROVE TrendInv'
    BY <2>1, <2>5, StatusKeeps, StatusRefusedKeeps, DeleteKeeps
  <2>6. CASE Crash
    BY <2>1, <2>6, CrashKeeps
  <2>7. CASE UNCHANGED trendVars
    BY <2>1, <2>7 DEF trendVars, TrendInv, Live
  <2>8. QED
    BY <2>1, <2>2, <2>3, <2>4, <2>5, <2>6, <2>7 DEF TrendNext
<1>3. QED
  BY <1>1, <1>2, PTL DEF TrendSpec

(* Every file on disk has between safe and taken samples. *)
LEMMA EveryFileKept ==
    ASSUME TrendInv, NEW n \in DOMAIN disk
    PROVE  /\ Kept(disk[n], safe[n], taken[n])
           /\ n \in Nat /\ safe[n] \in Nat /\ taken[n] \in Nat
<1>1. Consistent(disk, writer, {}, taken, safe)
  BY StopsShort DEF TrendInv
<1>2. QED
  BY <1>1, SizeFacts DEF Consistent

(***************************************************************************)
(* A file that is not spoilt never outgrows kMaxFileSize: HasCapacity()    *)
(* asks for the room of the padding and the next header as well, before    *)
(* the record is written.                                                  *)
(***************************************************************************)
THEOREM FilesStayWithinLimit == TrendSpec => []SizeBounded
<1>1. TrendInv => SizeBounded
  BY EveryFileKept DEF SizeBounded, Kept
<1>2. QED
  BY <1>1, TrendInvariant, PTL
-----------------------------------------------------------------------------
(* A number divided by the size of a block. *)
LEMMA DivMod ==
    ASSUME NEW k \in Nat \ {0}, NEW r \in Nat
    PROVE  /\ r \div k \in Nat /\ r % k \in 0 .. (k - 1)
           /\ r = k * (r \div k) + (r % k)
OBVIOUS

LEMMA DivOf ==
    ASSUME NEW k \in Nat \ {0}, NEW c \in Nat, NEW x \in Nat, NEW y \in Nat,
           x = c * k + y
    PROVE  x \div k >= c /\ (y < k => x \div k = c)
OBVIOUS

LEMMA MultipleOf ==
    ASSUME NEW k \in Nat \ {0}, NEW c \in Nat
    PROVE  (c * k) \div k = c /\ (c * k) % k = 0 /\ c * k \in Nat
OBVIOUS

LEMMA Products ==
    ASSUME NEW k \in Nat \ {0}, NEW b \in Nat, NEW c \in Nat, b < c
    PROVE  b * k + k <= c * k /\ b * k \in Nat /\ c * k \in Nat
<1>1. PICK d \in Nat : c = b + 1 + d
  <2>1. c - b - 1 \in Nat /\ c = b + 1 + (c - b - 1)
    OBVIOUS
  <2>2. QED
    BY <2>1
<1>2. c * k = b * k + k + d * k /\ d * k \in Nat /\ b * k \in Nat
  BY <1>1
<1>3. QED
  BY <1>2

(* Blocks are counted before the records in them. *)
LEMMA PositionOrder ==
    ASSUME NEW b \in Nat, NEW i \in 0 .. kRecordsPerBlock,
           NEW c \in Nat, NEW j \in 0 .. (kRecordsPerBlock - 1)
    PROVE  (c < b \/ (c = b /\ j < i)) <=> Position(c, j) < Position(b, i)
<1>1. kRecordsPerBlock \in Nat \ {0} /\ i \in Nat /\ j \in Nat /\ i <= kRecordsPerBlock /\ j < kRecordsPerBlock
  BY SizeFacts
<1>2. PICK k \in Nat \ {0} : k = kRecordsPerBlock
  BY <1>1
<1>3. Position(c, j) = c * k + j /\ Position(b, i) = b * k + i /\ b * k \in Nat /\ c * k \in Nat
  BY <1>2 DEF Position
<1>4. CASE c < b
  <2>1. c * k + k <= b * k
    BY <1>4, Products
  <2>2. QED
    BY <1>1, <1>2, <1>3, <1>4, <2>1
<1>5. CASE c = b
  BY <1>1, <1>3, <1>5
<1>6. CASE b < c
  <2>1. b * k + k <= c * k
    BY <1>6, Products
  <2>2. QED
    BY <1>1, <1>2, <1>3, <1>6, <2>1
<1>7. QED
  BY <1>4, <1>5, <1>6
-----------------------------------------------------------------------------
(* What the readers find of the headers and records of a file. *)
HasFields(f, b, i, m) ==
    /\ f.recs = Samples(m) /\ Len(f.recs) = m /\ \A s \in 1 .. m : f.recs[s] = s
    /\ \A c \in 0 .. b : f.heads[c + 1] = IF c < b THEN kRecordsPerBlock ELSE i
    /\ Position(b, i) \in Nat /\ Position(b, i) <= m
    /\ f.size \in Nat /\ kHeaderSize + kBlockHeaderSize <= f.size

LEMMA ShapeFields ==
    ASSUME NEW f, NEW b \in Nat, NEW i \in 0 .. kRecordsPerBlock, NEW m \in Nat, Shape(f, b, i, m)
    PROVE  HasFields(f, b, i, m)
<1>1. f = File(f.freq, f.size, b, i, m)
  BY DEF Shape
<1>2. f.recs = Samples(m) /\ f.heads = Heads(b, i)
  BY <1>1, FileFields
<1>3. Len(Samples(m)) = m /\ \A s \in 1 .. m : Samples(m)[s] = s
  BY DEF Samples
<1>4. \A c \in 0 .. b : Heads(b, i)[c + 1] = IF c < b THEN kRecordsPerBlock ELSE i
  BY DEF Heads
<1>5. i \in Nat /\ 0 \in Nat /\ 0 <= b
  BY SizeFacts
<1>6. Position(b, i) \in Nat
  BY <1>5, PositionFacts
<1>7. kHeaderSize + kBlockHeaderSize <= f.size
  <2>1. recordOffset(b, i) \in Nat /\ recordOffset(b, i) >= recordOffset(b, 0)
        /\ recordOffset(b, 0) = blockOffset(b) + kBlockHeaderSize
    BY <1>5, RecordOffsets
  <2>2. blockOffset(b) \in Nat /\ blockOffset(b) >= kHeaderSize
    BY BlockOffsets
  <2>3. f.size \in Nat /\ recordOffset(b, i) <= f.size
    BY DEF Shape
  <2>4. QED
    BY <2>1, <2>2, <2>3, SizeFacts
<1>8. f.size \in Nat /\ Position(b, i) <= m
  BY DEF Shape
<1>9. QED
  BY <1>2, <1>3, <1>4, <1>6, <1>7, <1>8 DEF HasFields

LEMMA ShapeHeads ==
    ASSUME NEW f, NEW b \in Nat, NEW i \in 0 .. kRecordsPerBlock, NEW m \in Nat, Shape(f, b, i, m),
           NEW c \in Nat
    PROVE  HasHead(f, c) <=> c <= b
<1>1. i \in Nat /\ b + 1 \in Nat
  BY SizeFacts
<1>2. /\ blockOffset(c) \in Nat /\ blockOffset(b) \in Nat /\ blockOffset(b + 1) \in Nat
      /\ (c <= b => blockOffset(c) <= blockOffset(b))
      /\ (b + 1 <= c => blockOffset(b + 1) <= blockOffset(c))
  BY <1>1, BlockOffsets
<1>3. /\ recordOffset(b, i) \in Nat /\ recordOffset(b, i) >= recordOffset(b, 0)
      /\ recordOffset(b, 0) = blockOffset(b) + kBlockHeaderSize
      /\ recordOffset(b + 1, 0) = blockOffset(b + 1) + kBlockHeaderSize
  BY <1>1, RecordOffsets
<1>4. f.size \in Nat /\ recordOffset(b, i) <= f.size /\ f.size < recordOffset(b + 1, 0)
  BY DEF Shape
<1>5. CASE c <= b
  BY <1>2, <1>3, <1>4, <1>5, SizeFacts DEF HasHead
<1>6. CASE ~(c <= b)
  BY <1>2, <1>3, <1>4, <1>6, SizeFacts DEF HasHead
<1>7. QED
  BY <1>5, <1>6

LEMMA ShapeRecords ==
    ASSUME NEW f, NEW b \in Nat, NEW i \in 0 .. kRecordsPerBlock, NEW m \in Nat, Shape(f, b, i, m),
           NEW c \in Nat, c <= b, NEW j \in 0 .. (kRecordsPerBlock - 1)
    PROVE  HasRecord(f, c, j) <=> (c < b \/ (c = b /\ j < i))
<1>1. /\ i \in Nat /\ j \in Nat /\ j + 1 \in Nat /\ j + 1 \in 0 .. kRecordsPerBlock /\ j < kRecordsPerBlock
      /\ i <= kRecordsPerBlock /\ c \in 0 .. b
  BY SizeFacts
<1>2. f.heads[c + 1] = IF c < b THEN kRecordsPerBlock ELSE i
  <2>1. HasFields(f, b, i, m)
    BY ShapeFields
  <2>2. QED
    BY <1>1, <2>1 DEF HasFields
<1>3. f.size \in Nat /\ recordOffset(b, i) <= f.size
  BY DEF Shape
<1>4. recordOffset(c, j) + kRecordSize = recordOffset(c, j + 1) /\ recordOffset(c, j + 1) \in Nat
  BY <1>1, RecordOffsets
<1>5. CASE c < b
  <2>1. recordOffset(c, j + 1) <= blockOffset(b) /\ blockOffset(b) < recordOffset(b, 0)
    BY <1>1, <1>5, BlocksApart
  <2>2. recordOffset(b, 0) <= recordOffset(b, i) /\ recordOffset(b, i) \in Nat /\ recordOffset(b, 0) \in Nat /\ blockOffset(b) \in Nat
    BY <1>1, RecordOffsets, BlockOffsets
  <2>3. recordOffset(c, j) + kRecordSize <= f.size
    BY <1>3, <1>4, <2>1, <2>2
  <2>4. j < f.heads[c + 1]
    BY <1>1, <1>2, <1>5
  <2>5. QED
    BY <1>5, <2>3, <2>4 DEF HasRecord
<1>6. CASE c = b
  <2>1. f.heads[c + 1] = i
    BY <1>2, <1>6
  <2>2. j < i => recordOffset(c, j) + kRecordSize <= f.size
    <3>1. SUFFICES ASSUME j < i PROVE recordOffset(c, j) + kRecordSize <= f.size
      OBVIOUS
    <3>2. j + 1 <= i
      BY <1>1, <3>1
    <3>3. recordOffset(b, j + 1) <= recordOffset(b, i) /\ recordOffset(b, i) \in Nat
      BY <1>1, <3>2, RecordOffsets
    <3>4. QED
      BY <1>3, <1>4, <1>6, <3>3
  <2>3. QED
    BY <1>6, <2>1, <2>2 DEF HasRecord
<1>7. QED
  BY <1>5, <1>6

(* The r-th record is there when it is counted, and is the r-th sample. *)
LEMMA ShapeRead ==
    ASSUME NEW f, NEW b \in Nat, NEW i \in 0 .. kRecordsPerBlock, NEW m \in Nat, Shape(f, b, i, m),
           NEW r \in Nat
    PROVE  LET c == r \div kRecordsPerBlock
               j == r % kRecordsPerBlock
           IN  /\ HasHead(f, c) /\ HasRecord(f, c, j) <=> r < Position(b, i)
               /\ r < Position(b, i) => RecordAt(f, c, j) = r + 1
<1>1. PICK c, j : c = r \div kRecordsPerBlock /\ j = r % kRecordsPerBlock
  OBVIOUS
<1>2. c \in Nat /\ j \in 0 .. (kRecordsPerBlock - 1) /\ r = kRecordsPerBlock * c + j
  BY <1>1, DivMod, SizeFacts
<1>3. Position(c, j) = r
  BY <1>2, SizeFacts DEF Position
<1>4. HasHead(f, c) /\ HasRecord(f, c, j) <=> r < Position(b, i)
  <2>1. HasHead(f, c) <=> c <= b
    BY <1>2, ShapeHeads
  <2>2. c <= b => (HasRecord(f, c, j) <=> (c < b \/ (c = b /\ j < i)))
    BY <1>2, ShapeRecords
  <2>3. (c < b \/ (c = b /\ j < i)) <=> r < Position(b, i)
    BY <1>2, <1>3, PositionOrder
  <2>4. c < b \/ c = b => c <= b
    BY <1>2
  <2>5. QED
    BY <2>1, <2>2, <2>3, <2>4
<1>5. r < Position(b, i) => RecordAt(f, c, j) = r + 1
  <2>1. SUFFICES ASSUME r < Position(b, i) PROVE RecordAt(f, c, j) = r + 1
    OBVIOUS
  <2>2. Position(b, i) \in Nat /\ Position(b, i) <= m /\ \A s \in 1 .. m : f.recs[s] = s
    <3>1. HasFields(f, b, i, m)
      BY ShapeFields
    <3>2. QED
      BY <3>1 DEF HasFields
  <2>3. r + 1 \in 1 .. m
    BY <2>1, <2>2
  <2>4. c * kRecordsPerBlock + j + 1 = r + 1
    BY <1>2, SizeFacts
  <2>5. QED
    BY <2>2, <2>3, <2>4 DEF RecordAt
<1>6. QED
  BY <1>1, <1>4, <1>5
-----------------------------------------------------------------------------
(***************************************************************************)
(* What readSample() returns: every step-th sample from index a, as long   *)
(* as it is neither after index z nor after the T samples of the file.     *)
(***************************************************************************)
Reading(g, a, z, step, T) ==
    \E e \in Nat :
        /\ g = [j \in 1 .. e |-> a + (j - 1) * step + 1]
        /\ \A j \in 1 .. e : a + (j - 1) * step <= z /\ a + (j - 1) * step < T
        /\ a + e * step > z \/ a + e * step >= T

LEMMA LeastIsMin ==
    ASSUME NEW E, E \subseteq Nat, E # {}
    PROVE  Min(E) \in E /\ \A y \in E : Min(E) <= y
<1>1. \E x \in E : \A y \in E : x <= y
  BY LeastNumber
<1>2. QED
  BY <1>1 DEF Min

LEMMA IndexFacts ==
    ASSUME NEW a \in Nat, NEW step \in Nat \ {0}
    PROVE  /\ \A j \in Nat \ {0} : a + (j - 1) * step \in Nat
           /\ \A k \in Nat : a + k * step \in Nat /\ k <= a + k * step
<1>1. \A k \in Nat : k * step \in Nat /\ k <= k * step
  OBVIOUS
<1>2. \A j \in Nat \ {0} : j - 1 \in Nat
  OBVIOUS
<1>3. QED
  BY <1>1, <1>2

LEMMA SampleRead ==
    ASSUME NEW f, NEW b \in Nat, NEW i \in 0 .. kRecordsPerBlock, NEW m \in Nat, Shape(f, b, i, m),
           NEW n, NEW from, NEW to, NEW step \in Nat \ {0}, NEW a \in Nat, NEW z \in Int,
           a = IF from >= n THEN (from - n) \div f.freq ELSE 0,
           z = IF to >= n THEN (to - n) \div f.freq ELSE -1
    PROVE  Reading(readSample(n, f, from, to, step), a, z, step, Position(b, i))
<1>. DEFINE ri(j) == a + (j - 1) * step
            There(j) == HasHead(f, ri(j) \div kRecordsPerBlock)
                          /\ HasRecord(f, ri(j) \div kRecordsPerBlock, ri(j) % kRecordsPerBlock)
            E == {j \in 1 .. Len(f.recs) + 1 : ri(j) > z \/ ~There(j)}
            g == readSample(n, f, from, to, step)
<1>1. PICK T : T = Position(b, i)
  OBVIOUS
<1>2. T \in Nat /\ T <= m /\ Len(f.recs) = m /\ ~(f.size < kHeaderSize + kBlockHeaderSize)
  <2>1. HasFields(f, b, i, m)
    BY ShapeFields
  <2>2. QED
    BY <1>1, <2>1, SizeFacts DEF HasFields
<1>3. g = IF z < a THEN <<>>
          ELSE [j \in 1 .. Min(E) - 1 |->
                  RecordAt(f, ri(j) \div kRecordsPerBlock, ri(j) % kRecordsPerBlock)]
  BY <1>2 DEF readSample
<1>4. ASSUME NEW j \in Nat \ {0}
      PROVE  /\ ri(j) \in Nat /\ (There(j) <=> ri(j) < T)
             /\ ri(j) < T => RecordAt(f, ri(j) \div kRecordsPerBlock, ri(j) % kRecordsPerBlock) = ri(j) + 1
  <2>1. PICK r : r = ri(j)
    OBVIOUS
  <2>2. r \in Nat
    BY <2>1, IndexFacts
  <2>3. /\ HasHead(f, r \div kRecordsPerBlock)
           /\ HasRecord(f, r \div kRecordsPerBlock, r % kRecordsPerBlock) <=> r < T
        /\ r < T => RecordAt(f, r \div kRecordsPerBlock, r % kRecordsPerBlock) = r + 1
    BY <1>1, <2>2, ShapeRead
  <2>4. QED
    BY <2>1, <2>2, <2>3
<1>5. CASE z < a
  <2>1. g = <<>>
    BY <1>3, <1>5
  <2>. HIDE DEF g
  <2>2. 0 \in Nat /\ a + 0 * step = a
    OBVIOUS
  <2>3. g = [j \in 1 .. 0 |-> a + (j - 1) * step + 1]
    BY <2>1
  <2>4. a + 0 * step > z /\ \A j \in 1 .. 0 : FALSE
    BY <1>5, <2>2
  <2>5. Reading(g, a, z, step, T)
    BY <2>2, <2>3, <2>4 DEF Reading
  <2>6. QED
    BY <1>1, <2>5 DEF g
<1>6. CASE ~(z < a)
  <2>1. m + 1 \in E
    <3>1. m + 1 \in Nat \ {0} /\ m + 1 \in 1 .. Len(f.recs) + 1 /\ (m + 1) - 1 = m
      BY <1>2
    <3>2. m <= ri(m + 1) /\ ri(m + 1) \in Nat
      BY <3>1, IndexFacts
    <3>3. ~(ri(m + 1) < T)
      BY <1>2, <3>2
    <3>4. ~There(m + 1)
      BY <1>4, <3>1, <3>3
    <3>. HIDE DEF There, ri
    <3>5. QED
      BY <3>1, <3>4
  <2>2. E \subseteq Nat /\ \A j \in E : j # 0
    BY <1>2
  <2>3. PICK x : x = Min(E)
    OBVIOUS
  <2>. HIDE DEF ri, There, g
  <2>4. x \in E /\ \A y \in E : x <= y
    <3>. HIDE DEF E
    <3>1. QED
      BY <2>1, <2>2, <2>3, LeastIsMin
  <2>5. PICK e \in Nat : x = e + 1 /\ x - 1 = e
    <3>1. x \in Nat /\ x # 0
      BY <2>2, <2>4
    <3>2. x - 1 \in Nat /\ x = (x - 1) + 1
      BY <3>1
    <3>3. QED
      BY <3>2
  <2>6. ASSUME NEW j \in 1 .. e PROVE j \in Nat \ {0} /\ ri(j) <= z /\ ri(j) < T
    <3>1. j \in Nat \ {0} /\ ~(x <= j) /\ j \in 1 .. Len(f.recs) + 1
      <4>1. x \in 1 .. m + 1
        BY <1>2, <2>4
      <4>2. QED
        BY <1>2, <2>5, <4>1
    <3>2. ~(ri(j) > z) /\ There(j)
      BY <2>4, <3>1
    <3>3. ri(j) \in Nat /\ ri(j) < T
      BY <1>4, <3>1, <3>2
    <3>4. QED
      BY <3>1, <3>2, <3>3
  <2>7. ri(x) > z \/ ri(x) >= T
    <3>1. x \in Nat \ {0}
      BY <2>5
    <3>2. ri(x) > z \/ ~There(x)
      BY <2>4
    <3>3. ri(x) \in Nat /\ (There(x) <=> ri(x) < T)
      BY <1>4, <3>1
    <3>4. QED
      BY <1>2, <3>2, <3>3
  <2>8. ri(x) = a + e * step
    BY <2>5 DEF ri
  <2>9. g = [j \in 1 .. e |-> ri(j) + 1]
    <3>1. g = [j \in 1 .. e |-> RecordAt(f, ri(j) \div kRecordsPerBlock, ri(j) % kRecordsPerBlock)]
      BY <1>3, <1>6, <2>3, <2>5
    <3>2. \A j \in 1 .. e : RecordAt(f, ri(j) \div kRecordsPerBlock, ri(j) % kRecordsPerBlock) = ri(j) + 1
      BY <1>4, <2>6
    <3>3. QED
      BY <3>1, <3>2
  <2>10. \A j \in 1 .. e : ri(j) <= z /\ ri(j) < T
    BY <2>6
  <2>11. Reading(g, a, z, step, T)
    BY <2>7, <2>8, <2>9, <2>10 DEF Reading, ri
  <2>12. QED
    BY <1>1, <2>11 DEF g
<1>7. QED
  BY <1>5, <1>6

(* AllRecords() asks for every index there may be. *)
LEMMA AllIndices ==
    ASSUME NEW n \in Nat, NEW q \in Nat \ {0}, NEW m \in Nat
    PROVE  /\ 0 = IF 0 >= n THEN (0 - n) \div q ELSE 0
           /\ m + 1 = IF n + q * (m + 1) >= n THEN (n + q * (m + 1) - n) \div q ELSE -1
<1>1. 0 = IF 0 >= n THEN (0 - n) \div q ELSE 0
  <2>1. 0 >= n => 0 - n = 0
    OBVIOUS
  <2>2. (0 * q) \div q = 0 /\ 0 * q = 0
    BY MultipleOf
  <2>3. QED
    BY <2>1, <2>2
<1>2. PICK p : p = q * (m + 1)
  OBVIOUS
<1>3. p \in Nat /\ p \div q = m + 1
  <2>1. q * (m + 1) = (m + 1) * q /\ m + 1 \in Nat
    OBVIOUS
  <2>2. QED
    BY <1>2, <2>1, MultipleOf
<1>4. n + p >= n /\ n + p - n = p
  BY <1>3
<1>5. QED
  BY <1>1, <1>2, <1>3, <1>4

LEMMA ReadingOfAll ==
    ASSUME NEW g, NEW z \in Nat, NEW T \in Nat, T <= z, Reading(g, 0, z, 1, T)
    PROVE  g = Samples(T)
<1>1. PICK e \in Nat : /\ g = [j \in 1 .. e |-> 0 + (j - 1) * 1 + 1]
                       /\ \A j \in 1 .. e : 0 + (j - 1) * 1 <= z /\ 0 + (j - 1) * 1 < T
                       /\ 0 + e * 1 > z \/ 0 + e * 1 >= T
  BY DEF Reading
<1>2. e >= T
  BY <1>1
<1>3. e <= T
  <2>1. CASE e = 0
    BY <2>1
  <2>2. CASE e # 0
    <3>1. e \in 1 .. e /\ 0 + (e - 1) * 1 = e - 1
      BY <2>2
    <3>2. e - 1 < T
      BY <1>1, <3>1
    <3>3. QED
      BY <3>2
  <2>3. QED
    BY <2>1, <2>2
<1>4. e = T
  BY <1>2, <1>3
<1>5. \A j \in 1 .. e : 0 + (j - 1) * 1 + 1 = j
  OBVIOUS
<1>6. QED
  BY <1>1, <1>4, <1>5 DEF Samples

LEMMA AllRead ==
    ASSUME NEW f, NEW b \in Nat, NEW i \in 0 .. kRecordsPerBlock, NEW m \in Nat, Shape(f, b, i, m),
           NEW n \in Nat, f.freq \in Frequency
    PROVE  readSample(n, f, 0, n + f.freq * (Len(f.recs) + 1), 1) = Samples(Position(b, i))
<1>1. HasFields(f, b, i, m)
  BY ShapeFields
<1>2. Len(f.recs) = m /\ Position(b, i) \in Nat /\ Position(b, i) <= m
  BY <1>1 DEF HasFields
<1>3. PICK T : T = Position(b, i)
  OBVIOUS
<1>4. PICK q : q = f.freq
  OBVIOUS
<1>5. q \in Nat \ {0}
  BY <1>4, SizeFacts
<1>6. PICK to : to = n + q * (m + 1)
  OBVIOUS
<1>7. PICK from : from = 0
  OBVIOUS
<1>8. /\ 0 = IF from >= n THEN (from - n) \div f.freq ELSE 0
      /\ m + 1 = IF to >= n THEN (to - n) \div f.freq ELSE -1
  BY <1>4, <1>5, <1>6, <1>7, AllIndices
<1>9. 1 \in Nat \ {0} /\ 0 \in Nat /\ m + 1 \in Int /\ m + 1 \in Nat /\ T \in Nat /\ T <= m + 1
  BY <1>2, <1>3
<1>10. Reading(readSample(n, f, from, to, 1), 0, m + 1, 1, T)
  BY <1>3, <1>8, <1>9, SampleRead
<1>11. readSample(n, f, from, to, 1) = Samples(T)
  BY <1>9, <1>10, ReadingOfAll
<1>12. QED
  BY <1>2, <1>3, <1>4, <1>6, <1>7, <1>11

LEMMA HeadlessRead ==
    ASSUME NEW f, Headless(f)
    PROVE  /\ \A n, from, to, step : readSample(n, f, from, to, step) = <<>>
           /\ recordCount(f) = 0
BY DEF Headless, readSample, recordCount

(* AllRecords() of a file: all its samples, in their order. *)
LEMMA AllRecordsAre ==
    ASSUME TrendInv, NEW n \in DOMAIN disk
    PROVE  \E T \in safe[n] .. taken[n] : AllRecords(n) = Samples(T)
<1>1. /\ Kept(disk[n], safe[n], taken[n]) /\ n \in Nat /\ safe[n] \in Nat /\ taken[n] \in Nat
  BY EveryFileKept
<1>2. PICK f : f = disk[n]
  OBVIOUS
<1>3. CASE Headless(f) /\ safe[n] = 0
  <2>1. AllRecords(n) = <<>>
    BY <1>2, <1>3, HeadlessRead DEF AllRecords
  <2>2. <<>> = Samples(0)
    BY DEF Samples
  <2>3. 0 \in safe[n] .. taken[n]
    BY <1>1, <1>3
  <2>4. QED
    BY <2>1, <2>2, <2>3
<1>4. CASE \E b \in Nat, i \in 0 .. kRecordsPerBlock, m \in Nat :
             Shape(f, b, i, m) /\ safe[n] <= Position(b, i) /\ Position(b, i) <= taken[n]
  <2>1. PICK b \in Nat, i \in 0 .. kRecordsPerBlock, m \in Nat :
             Shape(f, b, i, m) /\ safe[n] <= Position(b, i) /\ Position(b, i) <= taken[n]
    BY <1>4
  <2>2. f.freq \in Frequency
    BY <1>1, <1>2 DEF Kept
  <2>3. AllRecords(n) = Samples(Position(b, i))
    BY <1>1, <1>2, <2>1, <2>2, AllRead DEF AllRecords
  <2>4. i \in Nat
    BY SizeFacts
  <2>5. Position(b, i) \in safe[n] .. taken[n]
    BY <1>1, <2>1, <2>4, PositionFacts
  <2>6. QED
    BY <2>3, <2>5
<1>5. QED
  BY <1>1, <1>2, <1>3, <1>4 DEF Kept

(***************************************************************************)
(* Whenever the process ends, and whatever write the disk refuses, a file  *)
(* that is not spoilt gives back its samples in their order, none left     *)
(* out, none invented, and at least those whose append was flushed:        *)
(* appendRecord() writes the record before the count and the count before  *)
(* the next header.                                                        *)
(***************************************************************************)
THEOREM FlushedSamplesAreKept == TrendSpec => []FlushedAreKept
<1>1. TrendInv => FlushedAreKept
  <2>1. SUFFICES ASSUME TrendInv, NEW n \in DOMAIN disk
                 PROVE  /\ Len(AllRecords(n)) \in safe[n] .. taken[n]
                        /\ AllRecords(n) = [i \in DOMAIN AllRecords(n) |-> i]
    BY DEF FlushedAreKept
  <2>2. PICK T \in safe[n] .. taken[n] : AllRecords(n) = Samples(T)
    BY <2>1, AllRecordsAre
  <2>3. safe[n] \in Nat /\ taken[n] \in Nat
    BY <2>1, EveryFileKept
  <2>4. T \in Nat
    BY <2>3
  <2>5. Len(Samples(T)) = T /\ Samples(T) = [i \in DOMAIN Samples(T) |-> i]
    BY <2>4 DEF Samples
  <2>6. QED
    BY <2>2, <2>5
<1>2. QED
  BY <1>1, TrendInvariant, PTL
-----------------------------------------------------------------------------
(* What ReadersAgree says of one request. *)
Picks(got, T, first, last, step) ==
    /\ \A i, j \in DOMAIN got : i < j => got[i] < got[j]
    /\ {got[j] : j \in DOMAIN got} =
           {s \in 1 .. T : s - 1 \in first .. last /\ (s - 1 - first) % step = 0}

(* What readSample() returns rises, and is every step-th index. *)
LEMMA ReadingPicks ==
    ASSUME NEW g, NEW a \in Nat, NEW z \in Nat, NEW step \in Nat \ {0}, NEW T \in Nat,
           Reading(g, a, z, step, T)
    PROVE  Picks(g, T, a, z, step)
<1>. DEFINE ri(j) == a + (j - 1) * step
<1>1. PICK e \in Nat : /\ g = [j \in 1 .. e |-> ri(j) + 1]
                       /\ \A j \in 1 .. e : ri(j) <= z /\ ri(j) < T
                       /\ a + e * step > z \/ a + e * step >= T
  BY DEF Reading
<1>2. DOMAIN g = 1 .. e /\ \A j \in 1 .. e : g[j] = ri(j) + 1
  BY <1>1
<1>3. ASSUME NEW j \in Nat \ {0}
      PROVE  /\ ri(j) \in Nat /\ a <= ri(j) /\ ri(j) - a = (j - 1) * step /\ ((j - 1) * step) % step = 0
             /\ j - 1 \in Nat
  <2>1. PICK c \in Nat : c = j - 1
    OBVIOUS
  <2>2. c * step \in Nat /\ (c * step) % step = 0
    BY MultipleOf
  <2>3. QED
    BY <2>1, <2>2
<1>4. ASSUME NEW k \in 1 .. e, NEW j \in 1 .. e, k < j PROVE g[k] < g[j]
  <2>1. k - 1 \in Nat /\ j - 1 \in Nat /\ k - 1 < j - 1
    BY <1>4
  <2>2. PICK x, y : x = (k - 1) * step /\ y = (j - 1) * step
    OBVIOUS
  <2>3. x + step <= y /\ x \in Nat /\ y \in Nat
    BY <2>1, <2>2, Products
  <2>4. g[k] = a + x + 1 /\ g[j] = a + y + 1
    BY <1>2, <2>2
  <2>5. QED
    BY <2>3, <2>4
<1>5. ASSUME NEW j \in 1 .. e
      PROVE  g[j] \in {s \in 1 .. T : s - 1 \in a .. z /\ (s - 1 - a) % step = 0}
  <2>1. j \in Nat \ {0} /\ g[j] = ri(j) + 1 /\ ri(j) <= z /\ ri(j) < T
    BY <1>1, <1>2
  <2>2. PICK r : r = ri(j)
    OBVIOUS
  <2>3. r \in Nat /\ a <= r /\ (r - a) % step = 0
    BY <1>3, <2>1, <2>2
  <2>4. r <= z /\ r < T /\ g[j] = r + 1
    BY <2>1, <2>2
  <2>. HIDE DEF ri
  <2>5. r + 1 \in 1 .. T /\ (r + 1) - 1 = r /\ r \in a .. z
    BY <2>3, <2>4
  <2>6. QED
    BY <2>3, <2>4, <2>5
<1>6. ASSUME NEW s \in 1 .. T, s - 1 \in a .. z, (s - 1 - a) % step = 0
      PROVE  \E j \in 1 .. e : g[j] = s
  <2>1. PICK d \in Nat : d = s - 1 - a
    BY <1>6
  <2>2. PICK c \in Nat : d = c * step
    <3>1. d % step = 0
      BY <1>6, <2>1
    <3>2. d \div step \in Nat /\ d = step * (d \div step) + (d % step)
      BY DivMod
    <3>3. PICK c \in Nat : c = d \div step
      BY <3>2
    <3>4. d = step * c + 0
      BY <3>1, <3>2, <3>3
    <3>5. d = c * step
      BY <3>4
    <3>6. QED
      BY <3>5
  <2>3. s = a + d + 1 /\ a + d <= z /\ a + d < T
    BY <1>6, <2>1
  <2>4. c < e
    <3>1. SUFFICES ASSUME ~(c < e) PROVE FALSE
      OBVIOUS
    <3>2. PICK x : x = e * step
      OBVIOUS
    <3>3. x <= d /\ x \in Nat
      <4>1. CASE e = c
        BY <2>2, <3>2, <4>1
      <4>2. CASE e < c
        <5>1. e * step + step <= c * step /\ e * step \in Nat
          BY <4>2, Products
        <5>2. QED
          BY <2>2, <3>2, <5>1
      <4>3. QED
        BY <3>1, <4>1, <4>2
    <3>4. a + x > z \/ a + x >= T
      BY <1>1, <3>2
    <3>5. QED
      BY <2>3, <3>3, <3>4
  <2>5. c + 1 \in 1 .. e /\ (c + 1) - 1 = c
    BY <2>4
  <2>6. g[c + 1] = a + c * step + 1
    BY <1>2, <2>5
  <2>7. QED
    BY <2>2, <2>3, <2>5, <2>6
<1>7. QED
  BY <1>2, <1>4, <1>5, <1>6 DEF Picks

(* The block at the end of a file, or the one of which only part is there. *)
LEMMA ShapeLastBlock ==
    ASSUME NEW f, NEW b \in Nat, NEW i \in 0 .. kRecordsPerBlock, NEW m \in Nat, Shape(f, b, i, m)
    PROVE  LastBlock(f) \in Nat /\ b <= LastBlock(f)
<1>1. i \in Nat
  BY SizeFacts
<1>2. /\ recordOffset(b, i) \in Nat /\ recordOffset(b, i) >= recordOffset(b, 0)
      /\ recordOffset(b, 0) = blockOffset(b) + kBlockHeaderSize
  BY <1>1, RecordOffsets
<1>3. blockOffset(b) = kHeaderSize + b * kBlockSize /\ b * kBlockSize \in Nat
  BY SizeFacts DEF blockOffset
<1>4. f.size \in Nat /\ recordOffset(b, i) <= f.size
  BY DEF Shape
<1>5. PICK p : p = b * kBlockSize
  OBVIOUS
<1>6. p \in Nat /\ f.size - kHeaderSize - p \in Nat /\ f.size - kHeaderSize \in Nat /\ ~(f.size < kHeaderSize)
  BY <1>2, <1>3, <1>4, <1>5, SizeFacts
<1>7. f.size - kHeaderSize = p + (f.size - kHeaderSize - p)
  BY <1>4, <1>6, SizeFacts
<1>8. PICK x, y : x = f.size - kHeaderSize /\ y = f.size - kHeaderSize - p
  OBVIOUS
<1>9. x \in Nat /\ y \in Nat /\ x = b * kBlockSize + y
  BY <1>5, <1>6, <1>7, <1>8
<1>10. x \div kBlockSize >= b /\ x \div kBlockSize \in Nat
  <2>1. x \div kBlockSize >= b
    BY <1>9, SizeFacts, DivOf
  <2>2. x \div kBlockSize \in Nat
    BY <1>9, SizeFacts, DivMod
  <2>3. QED
    BY <2>1, <2>2
<1>11. LastBlock(f) = x \div kBlockSize
  BY <1>6, <1>8 DEF LastBlock
<1>12. QED
  BY <1>10, <1>11

(* The number of records GET /api/tfile/files reports. *)
LEMMA ShapeCount ==
    ASSUME NEW f, NEW b \in Nat, NEW i \in 0 .. kRecordsPerBlock, NEW m \in Nat, Shape(f, b, i, m)
    PROVE  \/ recordCount(f) = Position(b, i)
           \/ f.size < blockOffset(LastBlock(f)) + kBlockHeaderSize /\ recordCount(f) = 0
<1>1. PICK c : c = LastBlock(f)
  OBVIOUS
<1>2. c \in Nat /\ b <= c
  BY <1>1, ShapeLastBlock
<1>3. HasFields(f, b, i, m)
  BY ShapeFields
<1>4. ~(f.size < kHeaderSize + kBlockHeaderSize)
  BY <1>3, SizeFacts DEF HasFields
<1>5. CASE HasHead(f, c)
  <2>1. c <= b
    BY <1>2, <1>5, ShapeHeads
  <2>2. c = b
    BY <1>2, <2>1
  <2>3. b \in 0 .. b /\ ~(b < b)
    OBVIOUS
  <2>4. f.heads[b + 1] = i
    BY <1>3, <2>3 DEF HasFields
  <2>5. recordCount(f) = b * kRecordsPerBlock + i
    BY <1>1, <1>4, <1>5, <2>2, <2>4 DEF recordCount
  <2>6. QED
    BY <2>5 DEF Position
<1>6. CASE ~HasHead(f, c)
  <2>1. recordCount(f) = 0
    BY <1>1, <1>6 DEF recordCount
  <2>2. f.size < blockOffset(c) + kBlockHeaderSize
    <3>1. f.size \in Nat /\ blockOffset(c) \in Nat
      BY <1>2, <1>3, BlockOffsets DEF HasFields
    <3>2. QED
      BY <1>6, <3>1, SizeFacts DEF HasHead
  <2>3. QED
    BY <1>1, <2>1, <2>2
<1>7. QED
  BY <1>5, <1>6

LEMMA MaxIs ==
    ASSUME NEW E, E \subseteq Nat, NEW x \in E, \A y \in E : y <= x
    PROVE  Max(E) = x
<1>1. \A y \in E : x >= y
  OBVIOUS
<1>2. \A z \in E : (\A y \in E : z >= y) => z = x
  OBVIOUS
<1>3. QED
  BY <1>1, <1>2 DEF Max

(* A block whose last record readLatest() can take. *)
LEMMA ShapeUsable ==
    ASSUME NEW f, NEW b \in Nat, NEW i \in 0 .. kRecordsPerBlock, NEW m \in Nat, Shape(f, b, i, m),
           NEW c \in Nat
    PROVE  /\ HasHead(f, c) /\ f.heads[c + 1] # 0 /\ HasRecord(f, c, f.heads[c + 1] - 1)
                <=> (c < b \/ (c = b /\ i # 0))
           /\ (c < b => f.heads[c + 1] = kRecordsPerBlock) /\ (c = b => f.heads[c + 1] = i)
<1>1. HasFields(f, b, i, m)
  BY ShapeFields
<1>2. HasHead(f, c) <=> c <= b
  BY ShapeHeads
<1>3. \A d \in 0 .. b : f.heads[d + 1] = IF d < b THEN kRecordsPerBlock ELSE i
  BY <1>1 DEF HasFields
<1>4. CASE c < b
  <2>1. c \in 0 .. b /\ c <= b
    BY <1>4
  <2>2. f.heads[c + 1] = kRecordsPerBlock
    BY <1>3, <1>4, <2>1
  <2>3. PICK j : j = kRecordsPerBlock - 1
    OBVIOUS
  <2>4. j \in 0 .. (kRecordsPerBlock - 1) /\ kRecordsPerBlock # 0
    BY <2>3, SizeFacts
  <2>5. HasRecord(f, c, j)
    BY <1>4, <2>1, <2>4, ShapeRecords
  <2>6. ~(c = b)
    BY <1>4
  <2>7. QED
    BY <1>2, <1>4, <2>1, <2>2, <2>3, <2>4, <2>5, <2>6
<1>5. CASE c = b
  <2>1. b \in 0 .. b /\ ~(b < b) /\ c <= b
    BY <1>5
  <2>2. f.heads[c + 1] = i
    BY <1>3, <1>5, <2>1
  <2>3. ASSUME i # 0 PROVE HasRecord(f, c, i - 1)
    <3>1. PICK j : j = i - 1
      OBVIOUS
    <3>2. j \in 0 .. (kRecordsPerBlock - 1) /\ j < i
      BY <2>3, <3>1, SizeFacts
    <3>3. HasRecord(f, c, j)
      BY <1>5, <2>1, <3>2, ShapeRecords
    <3>4. QED
      BY <3>1, <3>3
  <2>4. QED
    BY <1>2, <1>5, <2>1, <2>2, <2>3
<1>6. CASE b < c
  BY <1>2, <1>6
<1>7. QED
  BY <1>4, <1>5, <1>6

(* readLatest() returns the last sample of the file. *)
LEMMA ShapeLatest ==
    ASSUME NEW f, NEW b \in Nat, NEW i \in 0 .. kRecordsPerBlock, NEW m \in Nat, Shape(f, b, i, m)
    PROVE  readLatest(f) = IF Position(b, i) = 0 THEN <<>> ELSE <<Position(b, i)>>
<1>. DEFINE Usable == {c \in 0 .. LastBlock(f) : /\ HasHead(f, c)
                                                 /\ f.heads[c + 1] # 0
                                                 /\ HasRecord(f, c, f.heads[c + 1] - 1)}
<1>1. LastBlock(f) \in Nat /\ b <= LastBlock(f)
  BY ShapeLastBlock
<1>2. \A c \in Nat : c \in Usable <=> (c < b \/ (c = b /\ i # 0))
  <2>1. SUFFICES ASSUME NEW c \in Nat PROVE c \in Usable <=> (c < b \/ (c = b /\ i # 0))
    OBVIOUS
  <2>2. HasHead(f, c) /\ f.heads[c + 1] # 0 /\ HasRecord(f, c, f.heads[c + 1] - 1)
           <=> (c < b \/ (c = b /\ i # 0))
    BY ShapeUsable
  <2>3. c < b \/ c = b => c \in 0 .. LastBlock(f)
    BY <1>1
  <2>4. QED
    BY <2>2, <2>3
<1>3. Usable \subseteq Nat
  BY <1>1
<1>4. readLatest(f) = IF Usable = {} THEN <<>>
                      ELSE <<RecordAt(f, Max(Usable), f.heads[Max(Usable) + 1] - 1)>>
  BY DEF readLatest
<1>. HIDE DEF Usable
<1>5. HasFields(f, b, i, m)
  BY ShapeFields
<1>6. PICK T : T = Position(b, i)
  OBVIOUS
<1>7. T \in Nat /\ T <= m /\ \A s \in 1 .. m : f.recs[s] = s
  BY <1>5, <1>6 DEF HasFields
<1>8. kRecordsPerBlock \in Nat \ {0} /\ i \in Nat /\ T = b * kRecordsPerBlock + i /\ b * kRecordsPerBlock \in Nat
  BY <1>6, SizeFacts DEF Position
<1>9. CASE i # 0
  <2>1. b \in Usable /\ \A y \in Usable : y <= b
    BY <1>2, <1>3, <1>9
  <2>2. Max(Usable) = b
    BY <1>3, <2>1, MaxIs
  <2>3. f.heads[b + 1] = i
    <3>1. b \in 0 .. b /\ ~(b < b)
      OBVIOUS
    <3>2. QED
      BY <1>5, <3>1 DEF HasFields
  <2>4. b * kRecordsPerBlock + (i - 1) + 1 = T /\ T \in 1 .. m
    BY <1>7, <1>8, <1>9
  <2>5. RecordAt(f, b, i - 1) = T
    BY <1>7, <2>4 DEF RecordAt
  <2>6. T # 0
    BY <2>4
  <2>7. QED
    BY <1>4, <1>6, <2>1, <2>2, <2>3, <2>5, <2>6
<1>10. CASE i = 0 /\ b # 0
  <2>1. PICK c \in Nat : b = c + 1 /\ c < b
    <3>1. b - 1 \in Nat /\ b = (b - 1) + 1 /\ b - 1 < b
      BY <1>10
    <3>2. QED
      BY <3>1
  <2>2. c \in Usable /\ \A y \in Usable : y <= c
    BY <1>2, <1>3, <1>10, <2>1
  <2>3. Max(Usable) = c
    BY <1>3, <2>2, MaxIs
  <2>4. f.heads[c + 1] = kRecordsPerBlock
    BY <2>1, ShapeUsable
  <2>5. b * kRecordsPerBlock = c * kRecordsPerBlock + kRecordsPerBlock /\ c * kRecordsPerBlock \in Nat
    BY <1>8, <2>1
  <2>6. c * kRecordsPerBlock + (kRecordsPerBlock - 1) + 1 = T /\ T \in 1 .. m
    BY <1>7, <1>8, <1>10, <2>5
  <2>7. RecordAt(f, c, kRecordsPerBlock - 1) = T
    BY <1>7, <2>6 DEF RecordAt
  <2>8. T # 0
    BY <2>6
  <2>9. QED
    BY <1>4, <1>6, <2>2, <2>3, <2>4, <2>7, <2>8
<1>11. CASE i = 0 /\ b = 0
  <2>1. Usable = {}
    BY <1>2, <1>3, <1>11
  <2>2. T = 0
    BY <1>8, <1>11
  <2>3. QED
    BY <1>4, <1>6, <2>1, <2>2
<1>12. QED
  BY <1>9, <1>10, <1>11

LEMMA HeadlessLatest ==
    ASSUME NEW f, Headless(f)
    PROVE  readLatest(f) = <<>>
<1>1. \A c \in Nat : ~HasHead(f, c)
  <2>1. \A c \in Nat : blockOffset(c) \in Nat /\ blockOffset(c) >= kHeaderSize
    BY BlockOffsets
  <2>2. f.size \in Nat /\ f.size < kHeaderSize + kBlockHeaderSize
    BY DEF Headless
  <2>3. QED
    BY <2>1, <2>2, SizeFacts DEF HasHead
<1>2. LastBlock(f) \in Nat
  <2>1. f.size \in Nat
    BY DEF Headless
  <2>2. PICK x : x = f.size - kHeaderSize
    OBVIOUS
  <2>3. ~(f.size < kHeaderSize) => x \in Nat
    BY <2>1, <2>2, SizeFacts
  <2>4. x \in Nat => x \div kBlockSize \in Nat
    BY SizeFacts, DivMod
  <2>5. QED
    BY <2>2, <2>3, <2>4 DEF LastBlock
<1>3. \A c \in 0 .. LastBlock(f) : c \in Nat
  BY <1>2
<1>4. QED
  BY <1>1, <1>3 DEF readLatest

(* An index becomes a time in the request and an index again. *)
LEMMA IndexOfTime ==
    ASSUME NEW n \in Nat, NEW q \in Nat \ {0}, NEW k \in Nat, NEW v
    PROVE  k = IF n + k * q >= n THEN (n + k * q - n) \div q ELSE v
<1>1. PICK p : p = k * q
  OBVIOUS
<1>2. p \in Nat /\ p \div q = k
  BY <1>1, MultipleOf
<1>3. n + p >= n /\ n + p - n = p
  BY <1>2
<1>4. QED
  BY <1>1, <1>2, <1>3

LEMMA ShapeSample ==
    ASSUME NEW f, NEW b \in Nat, NEW i \in 0 .. kRecordsPerBlock, NEW m \in Nat, Shape(f, b, i, m),
           NEW n \in Nat, f.freq \in Frequency, NEW first \in Nat, NEW last \in Nat,
           NEW step \in Nat \ {0}
    PROVE  Reading(readSample(n, f, n + first * f.freq, n + last * f.freq, step),
                   first, last, step, Position(b, i))
<1>1. PICK q : q = f.freq
  OBVIOUS
<1>2. q \in Nat \ {0}
  BY <1>1, SizeFacts
<1>3. PICK from, to : from = n + first * q /\ to = n + last * q
  OBVIOUS
<1>4. first = IF from >= n THEN (from - n) \div q ELSE 0
  BY <1>2, <1>3, IndexOfTime
<1>5. last = IF to >= n THEN (to - n) \div q ELSE -1
  BY <1>2, <1>3, IndexOfTime
<1>6. last \in Int
  OBVIOUS
<1>7. Reading(readSample(n, f, from, to, step), first, last, step, Position(b, i))
  BY <1>1, <1>4, <1>5, <1>6, SampleRead
<1>8. QED
  BY <1>1, <1>3, <1>7

(* What ReadersAgree says of one file. *)
Agree(n, f, T) ==
    /\ readLatest(f) = IF T = 0 THEN <<>> ELSE <<T>>
    /\ \A first, last \in 0 .. T, step \in 1 .. 3 :
         Picks(readSample(n, f, n + first * f.freq, n + last * f.freq, step), T, first, last, step)
    /\ \/ recordCount(f) = T
       \/ f.size < blockOffset(LastBlock(f)) + kBlockHeaderSize /\ recordCount(f) = 0

LEMMA ShapeAgrees ==
    ASSUME NEW f, NEW b \in Nat, NEW i \in 0 .. kRecordsPerBlock, NEW m \in Nat, Shape(f, b, i, m),
           NEW n \in Nat, f.freq \in Frequency
    PROVE  Agree(n, f, Position(b, i))
<1>1. PICK T : T = Position(b, i)
  OBVIOUS
<1>2. T \in Nat
  <2>1. i \in Nat
    BY SizeFacts
  <2>2. QED
    BY <1>1, <2>1, PositionFacts
<1>3. readLatest(f) = IF T = 0 THEN <<>> ELSE <<T>>
  BY <1>1, ShapeLatest
<1>4. \/ recordCount(f) = T
      \/ f.size < blockOffset(LastBlock(f)) + kBlockHeaderSize /\ recordCount(f) = 0
  BY <1>1, ShapeCount
<1>5. ASSUME NEW first \in 0 .. T, NEW last \in 0 .. T, NEW step \in 1 .. 3
      PROVE  Picks(readSample(n, f, n + first * f.freq, n + last * f.freq, step), T, first, last, step)
  <2>1. first \in Nat /\ last \in Nat /\ step \in Nat \ {0}
    OBVIOUS
  <2>2. PICK got : got = readSample(n, f, n + first * f.freq, n + last * f.freq, step)
    OBVIOUS
  <2>3. Reading(got, first, last, step, T)
    BY <1>1, <2>1, <2>2, ShapeSample
  <2>4. Picks(got, T, first, last, step)
    BY <1>2, <2>1, <2>3, ReadingPicks
  <2>5. QED
    BY <2>2, <2>4
<1>6. Agree(n, f, T)
  BY <1>3, <1>4, <1>5 DEF Agree
<1>7. QED
  BY <1>1, <1>6

LEMMA HeadlessAgrees ==
    ASSUME NEW f, Headless(f), NEW n
    PROVE  Agree(n, f, 0)
<1>1. readLatest(f) = <<>> /\ recordCount(f) = 0
  BY HeadlessLatest, HeadlessRead
<1>2. ASSUME NEW first, NEW last, NEW step
      PROVE  Picks(readSample(n, f, n + first * f.freq, n + last * f.freq, step), 0, first, last, step)
  <2>1. readSample(n, f, n + first * f.freq, n + last * f.freq, step) = <<>>
    BY HeadlessRead
  <2>2. Picks(<<>>, 0, first, last, step)
    BY DEF Picks
  <2>3. QED
    BY <2>1, <2>2
<1>3. QED
  BY <1>1, <1>2 DEF Agree

(***************************************************************************)
(* readLatest(), readSample() with any interval and step and the number in *)
(* the list of files agree on every file that is not spoilt: the number    *)
(* may only be 0 instead, when the last block has no complete header.      *)
(***************************************************************************)
THEOREM ReadersAlwaysAgree == TrendSpec => []ReadersAgree
<1>1. TrendInv => ReadersAgree
  <2>1. SUFFICES ASSUME TrendInv, NEW n \in DOMAIN disk
                 PROVE  LET f == disk[n]
                            all == AllRecords(n)
                        IN  /\ readLatest(f) = IF all = <<>> THEN <<>> ELSE <<Last(all)>>
                            /\ \A first, last \in 0 .. Len(all), step \in 1 .. 3 :
                                 Picks(readSample(n, f, n + first * f.freq, n + last * f.freq, step),
                                       Len(all), first, last, step)
                            /\ \/ recordCount(f) = Len(all)
                               \/ /\ f.size < blockOffset(LastBlock(f)) + kBlockHeaderSize
                                  /\ recordCount(f) = 0
    BY DEF ReadersAgree, Picks
  <2>2. PICK f, all : f = disk[n] /\ all = AllRecords(n)
    OBVIOUS
  <2>3. Kept(f, safe[n], taken[n]) /\ n \in Nat
    BY <2>1, <2>2, EveryFileKept
  <2>4. \E T \in Nat : all = Samples(T) /\ Agree(n, f, T)
    <3>1. CASE Headless(f)
      <4>1. all = <<>>
        BY <2>2, <3>1, HeadlessRead DEF AllRecords
      <4>2. <<>> = Samples(0)
        BY DEF Samples
      <4>3. QED
        BY <3>1, <4>1, <4>2, HeadlessAgrees
    <3>2. CASE \E b \in Nat, i \in 0 .. kRecordsPerBlock, m \in Nat : Shape(f, b, i, m)
      <4>1. PICK b \in Nat, i \in 0 .. kRecordsPerBlock, m \in Nat : Shape(f, b, i, m)
        BY <3>2
      <4>2. f.freq \in Frequency
        BY <2>3 DEF Kept
      <4>3. i \in Nat
        BY SizeFacts
      <4>4. Position(b, i) \in Nat
        BY <4>3, PositionFacts
      <4>5. all = Samples(Position(b, i))
        BY <2>2, <2>3, <4>1, <4>2, AllRead DEF AllRecords
      <4>6. Agree(n, f, Position(b, i))
        BY <2>3, <4>1, <4>2, ShapeAgrees
      <4>7. QED
        BY <4>4, <4>5, <4>6
    <3>3. QED
      BY <2>3, <3>1, <3>2 DEF Kept
  <2>5. PICK T \in Nat : all = Samples(T) /\ Agree(n, f, T)
    BY <2>4
  <2>6. /\ Len(all) = T /\ (all = <<>> <=> T = 0) /\ (T # 0 => Last(all) = T)
    <3>1. Len(Samples(T)) = T /\ (T # 0 => Samples(T)[T] = T) /\ Len(<<>>) = 0
      BY DEF Samples
    <3>2. Samples(0) = <<>>
      BY DEF Samples
    <3>3. Last(all) = all[Len(all)]
      BY DEF Last
    <3>4. QED
      BY <2>5, <3>1, <3>2, <3>3
  <2>7. QED
    BY <2>2, <2>5, <2>6 DEF Agree
<1>2. QED
  BY <1>1, TrendInvariant, PTL
=============================================================================
