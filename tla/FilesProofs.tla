----------------------------- MODULE FilesProofs -----------------------------
(***************************************************************************)
(* Proofs about the configuration and history files, for any number of     *)
(* processes, deaths and power losses: a save that was reported survives,  *)
(* no file is ever in an open directory, `config set` touches one setting, *)
(* and both files can always be loaded.                                    *)
(***************************************************************************)
EXTENDS Files, SequenceTheorems, TLAPS

-----------------------------------------------------------------------------
(* The inductive invariants.                                               *)

Saving == {"prepare", "protect", "create", "sync", "rename"}

FilesTypeOK ==
    /\ pc \in [Procs -> {"idle", "syncdir"} \cup Saving]
    /\ name \in [Procs -> FileNames]
    /\ dir \in [FileNames -> {"none", "open", "private"}]
    /\ DOMAIN files = FileNames /\ DOMAIN disk = FileNames /\ DOMAIN reported = FileNames
    /\ DOMAIN new = Procs /\ DOMAIN base = Procs
    /\ DOMAIN setting = Procs /\ DOMAIN synced = Procs

\* Only contents that were synced get a name, and a save that was reported is
\* the only thing a power loss may leave.
RenamesSynced ==
    /\ \A f \in FileNames : files[f] \in disk[f] /\ \A x \in disk[f] : x.synced = TRUE
    /\ \A p \in Procs : pc[p] = "rename" => synced[p] = TRUE
    /\ \A f \in FileNames : reported[f].there
                             => disk[f] = {files[f]} /\ files[f] = reported[f]

\* A file is only made in a directory that is private by then.
MadeInPrivate ==
    /\ \A f \in FileNames : (\E x \in disk[f] : x.there) => dir[f] = "private"
    /\ \A t \in temps : t[1] \in FileNames /\ dir[t[1]] = "private"
    /\ \A p \in Procs : pc[p] \in {"create", "sync", "rename"} => dir[name[p]] = "private"

\* The configurations that can be saved, and the texts of both files.
ConfigOf(enabled, timeout) ==
    [n \in SettingNames |-> IF n = "history-enabled" THEN enabled ELSE timeout]
Configs == {ConfigOf(enabled, timeout) :
              enabled \in BOOLEAN, timeout \in MinTimeout .. MaxTimeout}
Encoded(f) == IF f = "config" THEN {EncodeConfig(c) : c \in Configs}
              ELSE {EncodeHistory(es) : es \in Histories}

\* What is under f, or may be after a power loss, and what is about to be saved
\* there, was encoded whole.
WholeContents(f) ==
    /\ \A x \in disk[f] : x.there => x.data \in Encoded(f)
    /\ \A p \in Procs : pc[p] \in Saving /\ name[p] = f => new[p] \in Encoded(f)

\* The configuration a file stands for, and what `config set` makes of it.
ConfigIn(file) == IF file.there THEN ParseConfig(file.data)
                  ELSE [kind |-> "config", config |-> DefaultConfig]
ChangesOneSetting ==
    \A p \in Clis : pc[p] \in Saving =>
        /\ name[p] = "config"
        /\ \E c, d \in Configs :
             /\ ConfigIn(base[p]) = [kind |-> "config", config |-> c]
             /\ new[p] = EncodeConfig(d)
             /\ \A n \in SettingNames \ {setting[p]} : d[n] = c[n]

-----------------------------------------------------------------------------
(* The configuration and its text.                                          *)

\* A configuration has a valid value for each of the two settings.
LEMMA ConfigValues ==
    ASSUME NEW c \in Configs
    PROVE  /\ c = [n \in SettingNames |-> c[n]]
           /\ \A n \in SettingNames : ValidValue(n, c[n])
<1>1. PICK enabled \in BOOLEAN, timeout \in MinTimeout .. MaxTimeout :
         c = ConfigOf(enabled, timeout)
  BY DEF Configs
<1> QED
  BY <1>1 DEF ConfigOf, ValidValue, SettingNames

\* Sequences of two elements.
LEMMA Pairs ==
    ASSUME NEW a, NEW b
    PROVE  /\ DOMAIN <<a, b>> = {1, 2} /\ Len(<<a, b>>) = 2
           /\ <<a, b>>[1] = a /\ <<a, b>>[2] = b
<1>1. DOMAIN <<a, b>> = 1 .. 2 /\ 1 .. 2 = {1, 2}
  OBVIOUS
<1> QED
  BY <1>1

\* Config::parse gives back what Config::encode wrote.
LEMMA ConfigRoundTrips ==
    ASSUME NEW c \in Configs
    PROVE  ParseConfig(EncodeConfig(c)) = [kind |-> "config", config |-> c]
<1> DEFINE T == "authorization-timeout-seconds"
           H == "history-enabled"
           lines == EncodeConfig(c)
           settings == Tail(lines)
           valueOf == [n \in SettingNames |->
                         (CHOOSE i \in DOMAIN settings : settings[i][1] = n)]
<1>1. /\ lines # <<>> /\ lines[1] = ConfigMagic
      /\ settings = << <<T, c[T]>>, <<H, c[H]>> >>
  BY DEF EncodeConfig
<1> HIDE DEF settings, lines
<1>2. /\ DOMAIN settings = {1, 2}
      /\ settings[1] = <<T, c[T]>> /\ settings[2] = <<H, c[H]>>
  BY <1>1, Pairs
<1>3. /\ Len(settings[1]) = 2 /\ settings[1][1] = T /\ settings[1][2] = c[T]
      /\ Len(settings[2]) = 2 /\ settings[2][1] = H /\ settings[2][2] = c[H]
  BY <1>2, Pairs
<1>4. SettingNames = {T, H} /\ T # H
  BY DEF SettingNames
<1>5. ValidValue(T, c[T]) /\ ValidValue(H, c[H])
  BY <1>4, ConfigValues
<1>6. \A i \in DOMAIN settings : /\ Len(settings[i]) = 2
                                 /\ settings[i][1] \in SettingNames
                                 /\ ValidValue(settings[i][1], settings[i][2])
  BY <1>2, <1>3, <1>4, <1>5
<1>7. \A n \in SettingNames :
         \E i \in DOMAIN settings : /\ settings[i][1] = n
                                    /\ \A j \in DOMAIN settings : settings[j][1] = n => j = i
  BY <1>2, <1>3, <1>4
<1>8. valueOf[T] = 1 /\ valueOf[H] = 2
  BY <1>2, <1>3, <1>4
<1>9. [n \in SettingNames |-> settings[valueOf[n]][2]] = c
  <2>1. \A n \in SettingNames : settings[valueOf[n]][2] = c[n]
    BY <1>3, <1>4, <1>8
  <2> HIDE DEF valueOf
  <2> QED
    BY <2>1, ConfigValues
<1> QED
  BY <1>1, <1>6, <1>7, <1>9, Zenon DEF ParseConfig, settings, lines

\* The defaults are a configuration, and setting a valid value keeps it one.
LEMMA ConfigSetValid ==
    /\ DefaultConfig \in Configs
    /\ \A c \in Configs, n \in SettingNames : \A v :
         ValidValue(n, v) => [c EXCEPT ![n] = v] \in Configs
<1>1. DefaultConfig \in Configs
  <2>1. MaxTimeout \in MinTimeout .. MaxTimeout /\ TRUE \in BOOLEAN
    BY FormatsAssumption
  <2>2. DefaultConfig = ConfigOf(TRUE, MaxTimeout)
    BY DEF DefaultConfig, ConfigOf
  <2>3. \A enabled \in BOOLEAN, timeout \in MinTimeout .. MaxTimeout :
           ConfigOf(enabled, timeout) \in Configs
    BY DEF Configs
  <2> QED
    BY <2>1, <2>2, <2>3, Zenon
<1>2. ASSUME NEW c \in Configs, NEW n \in SettingNames, NEW v, ValidValue(n, v)
      PROVE  [c EXCEPT ![n] = v] \in Configs
  <2>1. PICK enabled \in BOOLEAN, timeout \in MinTimeout .. MaxTimeout :
           c = ConfigOf(enabled, timeout)
    BY DEF Configs
  <2>2. CASE n = "history-enabled"
    <3>1. v \in BOOLEAN
      BY <1>2, <2>2 DEF ValidValue
    <3>2. [c EXCEPT ![n] = v] = ConfigOf(v, timeout)
      BY <2>1, <2>2 DEF ConfigOf
    <3> QED
      BY <3>1, <3>2 DEF Configs
  <2>3. CASE n # "history-enabled"
    <3>1. v \in MinTimeout .. MaxTimeout
      BY <1>2, <2>3 DEF ValidValue
    <3>2. n = "authorization-timeout-seconds"
      BY <2>3 DEF SettingNames
    <3>3. [c EXCEPT ![n] = v] = ConfigOf(enabled, v)
      BY <2>1, <3>2 DEF ConfigOf, SettingNames
    <3> QED
      BY <3>1, <3>3 DEF Configs
  <2> QED
    BY <2>2, <2>3
<1> QED
  BY <1>1, <1>2

-----------------------------------------------------------------------------
(* Type correctness.                                                        *)

\* An operation of p ends; what is under the names is up to the caller.
LEMMA FinishType ==
    ASSUME FilesTypeOK, NEW p \in Procs, Finish(p)
    PROVE  /\ pc' \in [Procs -> {"idle", "syncdir"} \cup Saving]
           /\ name' \in [Procs -> FileNames]
           /\ DOMAIN new' = Procs /\ DOMAIN base' = Procs
           /\ DOMAIN setting' = Procs /\ DOMAIN synced' = Procs
           /\ \A q \in Procs : /\ pc'[q] = IF q = p THEN "idle" ELSE pc[q]
                               /\ q # p => /\ name'[q] = name[q] /\ new'[q] = new[q]
                                           /\ base'[q] = base[q] /\ synced'[q] = synced[q]
                                           /\ setting'[q] = setting[q]
  BY DEF Finish, Reset, FilesTypeOK, FileNames

\* p begins to save contents under f.
LEMMA BeginSaveType ==
    ASSUME FilesTypeOK, NEW p \in Procs, NEW f \in FileNames, NEW contents, NEW n,
           BeginSave(p, f, contents, n)
    PROVE  /\ pc' \in [Procs -> {"idle", "syncdir"} \cup Saving]
           /\ name' \in [Procs -> FileNames]
           /\ DOMAIN new' = Procs /\ DOMAIN base' = Procs
           /\ DOMAIN setting' = Procs /\ DOMAIN synced' = Procs
           /\ \A q \in Procs : /\ pc'[q] = IF q = p THEN "prepare" ELSE pc[q]
                               /\ name'[q] = IF q = p THEN f ELSE name[q]
                               /\ new'[q] = IF q = p THEN contents ELSE new[q]
                               /\ base'[q] = IF q = p THEN files[f] ELSE base[q]
                               /\ setting'[q] = IF q = p THEN n ELSE setting[q]
                               /\ synced'[q] = synced[q]
  BY DEF BeginSave, Step, FilesTypeOK, Saving

\* p goes from one step of save to the next.
LEMMA StepType ==
    ASSUME FilesTypeOK, NEW p \in Procs, NEW from,
           NEW to \in {"idle", "syncdir"} \cup Saving, Step(p, from, to)
    PROVE  /\ pc[p] = from
           /\ pc' \in [Procs -> {"idle", "syncdir"} \cup Saving]
           /\ \A q \in Procs : pc'[q] = IF q = p THEN to ELSE pc[q]
  BY DEF Step, FilesTypeOK

\* A command begins a save, or changes nothing but the list of complaints.
LEMMA Commands ==
    ASSUME \/ \E p \in Clis : \/ \E loaded \in {LoadConfig, ListHistory} : Show(p, loaded)
                              \/ \E n \in SettingNames : \E v \in Values[n] : ConfigSet(p, n, v)
           \/ \E e \in Entries : AppendEntry(e)
    PROVE  /\ UNCHANGED <<files, disk, dir, temps, reported, faults>>
           /\ \/ UNCHANGED <<pc, localVars>>
              \/ \E p \in Procs, f \in FileNames : \E contents, n : BeginSave(p, f, contents, n)
<1>1. ASSUME NEW p \in Clis, NEW loaded, Show(p, loaded)
      PROVE  UNCHANGED <<files, disk, dir, temps, reported, faults, pc, localVars>>
  BY <1>1 DEF Show, Refuse
<1>2. ASSUME NEW p \in Clis, NEW n, NEW v, ConfigSet(p, n, v)
      PROVE  /\ UNCHANGED <<files, disk, dir, temps, reported, faults>>
             /\ \/ UNCHANGED <<pc, localVars>>
                \/ \E contents, m : BeginSave(p, "config", contents, m)
  BY <1>2 DEF ConfigSet, Refuse
<1>3. ASSUME NEW e, AppendEntry(e)
      PROVE  /\ UNCHANGED <<files, disk, dir, temps, reported, faults>>
             /\ \/ UNCHANGED <<pc, localVars>>
                \/ \E contents, m : BeginSave(Agent, "history", contents, m)
  BY <1>3 DEF AppendEntry, Refuse
<1> QED
  BY <1>1, <1>2, <1>3 DEF Procs, FileNames

\* The steps of save, one by one: what happens to the names and the disk.
LEMMA SaveStepType ==
    ASSUME FilesTypeOK, NEW p \in Procs,
           \/ PrepareDirectory(p) \/ ProtectDirectory(p) \/ PrepareHistory(p)
           \/ CreateTemporary(p) \/ WriteAndSync(p) \/ Rename(p)
           \/ SaveReturns(p) \/ SaveFails(p) \/ Dies(p)
    PROVE  FilesTypeOK'
<1>1. CASE PrepareDirectory(p)
  <2>1. UNCHANGED <<files, disk, reported>> /\ dir' \in [FileNames -> {"none", "open", "private"}]
    BY <1>1 DEF PrepareDirectory, FilesTypeOK
  <2>2. CASE Finish(p)
    BY <2>1, <2>2, FinishType DEF FilesTypeOK
  <2>3. CASE (Step(p, "prepare", "protect") \/ Step(p, "prepare", "create")) /\ UNCHANGED localVars
    BY <2>1, <2>3, StepType DEF FilesTypeOK, localVars, Saving
  <2> QED
    BY <1>1, <2>2, <2>3 DEF PrepareDirectory
<1>2. CASE ProtectDirectory(p) \/ PrepareHistory(p)
  <2>1. /\ UNCHANGED <<files, disk, reported, localVars>>
        /\ dir' \in [FileNames -> {"none", "open", "private"}]
        /\ Step(p, "protect", "create") \/ Step(p, "prepare", "create")
    BY <1>2 DEF ProtectDirectory, PrepareHistory, FilesTypeOK
  <2> QED
    BY <2>1, StepType DEF FilesTypeOK, localVars, Saving
<1>3. CASE CreateTemporary(p)
  <2>1. UNCHANGED <<files, disk, dir, reported>>
    BY <1>3 DEF CreateTemporary
  <2>2. Finish(p) \/ (Step(p, "create", "sync") /\ UNCHANGED <<name, new, base, setting, synced>>)
    BY <1>3 DEF CreateTemporary
  <2> QED
    BY <2>1, <2>2, FinishType, StepType DEF FilesTypeOK, Saving
<1>4. CASE WriteAndSync(p)
  <2>1. /\ Step(p, "sync", "rename") /\ synced' = [synced EXCEPT ![p] = TRUE]
        /\ UNCHANGED <<files, disk, dir, reported, name, new, base, setting>>
    BY <1>4 DEF WriteAndSync
  <2> QED
    BY <2>1, StepType DEF FilesTypeOK, Saving
<1>5. CASE Rename(p)
  <2>1. Step(p, "rename", "syncdir") /\ Reset(p) /\ UNCHANGED <<dir, name>>
    BY <1>5 DEF Rename
  <2>2. DOMAIN files' = FileNames /\ DOMAIN disk' = FileNames /\ DOMAIN reported' = FileNames
    BY <1>5 DEF Rename, FilesTypeOK
  <2>3. /\ DOMAIN new' = Procs /\ DOMAIN base' = Procs
        /\ DOMAIN setting' = Procs /\ DOMAIN synced' = Procs
    BY <2>1 DEF Reset, FilesTypeOK
  <2> QED
    BY <2>1, <2>2, <2>3, StepType DEF FilesTypeOK, Saving
<1>6. CASE SaveReturns(p)
  <2>1. Finish(p) /\ UNCHANGED <<files, dir>>
    BY <1>6 DEF SaveReturns
  <2>2. DOMAIN disk' = FileNames /\ DOMAIN reported' = FileNames
    BY <1>6 DEF SaveReturns, FilesTypeOK
  <2> QED
    BY <2>1, <2>2, FinishType DEF FilesTypeOK
<1>7. CASE SaveFails(p) \/ Dies(p)
  <2>1. Finish(p) /\ UNCHANGED <<files, disk, dir, reported>>
    BY <1>7 DEF SaveFails, Dies
  <2> QED
    BY <2>1, FinishType DEF FilesTypeOK
<1> QED
  BY <1>1, <1>2, <1>3, <1>4, <1>5, <1>6, <1>7

\* Every step keeps FilesTypeOK.
LEMMA FilesTypeStep ==
    ASSUME FilesTypeOK, [FilesNext]_vars
    PROVE  FilesTypeOK'
<1>1. CASE UNCHANGED vars
  BY <1>1 DEF vars, localVars, FilesTypeOK
<1>2. CASE PowerLoss
  BY <1>2 DEF PowerLoss, FilesTypeOK, FileNames
<1>3. CASE \/ \E p \in Clis : \/ \E loaded \in {LoadConfig, ListHistory} : Show(p, loaded)
                              \/ \E n \in SettingNames : \E v \in Values[n] : ConfigSet(p, n, v)
           \/ \E e \in Entries : AppendEntry(e)
  <2>1. /\ UNCHANGED <<files, disk, dir, reported>>
        /\ \/ UNCHANGED <<pc, localVars>>
           \/ \E p \in Procs, f \in FileNames : \E contents, n : BeginSave(p, f, contents, n)
    BY <1>3, Commands
  <2> QED
    BY <2>1, BeginSaveType DEF FilesTypeOK, localVars
<1> QED
  BY <1>1, <1>2, <1>3, SaveStepType DEF FilesNext

-----------------------------------------------------------------------------
(* What a power loss leaves.                                                *)

\* A power loss leaves files that were under their names before.
LEMMA PowerLossFiles ==
    ASSUME RenamesSynced, PowerLoss
    PROVE  /\ \A f \in FileNames : files'[f] \in disk[f] /\ disk'[f] = {files'[f]}
           /\ \A p \in Procs : pc'[p] = "idle"
           /\ UNCHANGED <<dir, temps, invalid, reported>>
<1>1. \A f \in FileNames : \A x \in disk[f] : Leftovers(x) = {x}
  BY DEF RenamesSynced, Leftovers
<1>2. PICK config \in UNION {Leftovers(x) : x \in disk["config"]},
           history \in UNION {Leftovers(x) : x \in disk["history"]} :
         files' = [f \in FileNames |-> IF f = "config" THEN config ELSE history]
  BY DEF PowerLoss
<1>3. config \in disk["config"] /\ history \in disk["history"]
  BY <1>1 DEF FileNames
<1>4. \A f \in FileNames : files'[f] \in disk[f]
  BY <1>2, <1>3 DEF FileNames
<1> QED
  BY <1>4 DEF PowerLoss

\* The save of p puts synced contents under the name, and reports it only when
\* nothing else can be left.
LEMMA SyncedSave ==
    ASSUME FilesTypeOK, RenamesSynced, NEW p \in Procs,
           \/ PrepareDirectory(p) \/ ProtectDirectory(p) \/ PrepareHistory(p)
           \/ CreateTemporary(p) \/ WriteAndSync(p) \/ Rename(p)
           \/ SaveReturns(p) \/ SaveFails(p) \/ Dies(p)
    PROVE  RenamesSynced'
<1>1. CASE \/ PrepareDirectory(p) \/ ProtectDirectory(p) \/ PrepareHistory(p)
           \/ CreateTemporary(p) \/ SaveFails(p) \/ Dies(p)
  <2>1. UNCHANGED <<files, disk, reported>>
    BY <1>1 DEF PrepareDirectory, ProtectDirectory, PrepareHistory, CreateTemporary,
       SaveFails, Dies
  <2>2. \A q \in Procs : pc'[q] = "rename" => pc[q] = "rename" /\ synced'[q] = synced[q]
    <3>1. CASE Finish(p)
      BY <3>1, FinishType
    <3>2. CASE /\ \/ Step(p, "prepare", "protect") \/ Step(p, "prepare", "create")
                  \/ Step(p, "protect", "create") \/ Step(p, "create", "sync")
               /\ UNCHANGED synced
      BY <3>2, StepType DEF Saving
    <3> QED
      BY <1>1, <3>1, <3>2 DEF PrepareDirectory, ProtectDirectory, PrepareHistory,
         CreateTemporary, SaveFails, Dies, localVars
  <2> QED
    BY <2>1, <2>2 DEF RenamesSynced
<1>2. CASE WriteAndSync(p)
  <2>1. /\ Step(p, "sync", "rename") /\ synced' = [synced EXCEPT ![p] = TRUE]
        /\ UNCHANGED <<files, disk, reported>>
    BY <1>2 DEF WriteAndSync
  <2>2. \A q \in Procs : synced'[q] = IF q = p THEN TRUE ELSE synced[q]
    BY <2>1 DEF FilesTypeOK
  <2>3. \A q \in Procs : pc'[q] = "rename" => q = p \/ pc[q] = "rename"
    BY <2>1, StepType DEF Saving
  <2> QED
    BY <2>1, <2>2, <2>3 DEF RenamesSynced
<1>3. CASE Rename(p)
  <2> DEFINE f == name[p]
             file == FileOf(new[p], synced[p])
  <2>1. /\ Step(p, "rename", "syncdir") /\ Reset(p)
        /\ files' = [files EXCEPT ![f] = file]
        /\ disk' = [disk EXCEPT ![f] = disk[f] \cup {file}]
        /\ reported' = [reported EXCEPT ![f] = NoFile]
    BY <1>3 DEF Rename
  <2>2. pc[p] = "rename" /\ file.synced = TRUE /\ NoFile.there = FALSE /\ f \in FileNames
    BY <2>1 DEF Step, RenamesSynced, FileOf, NoFile, FilesTypeOK
  <2> HIDE DEF file, f
  <2>3. \A g \in FileNames : /\ files'[g] = IF g = f THEN file ELSE files[g]
                             /\ disk'[g] = IF g = f THEN disk[f] \cup {file} ELSE disk[g]
                             /\ reported'[g] = IF g = f THEN NoFile ELSE reported[g]
    BY <2>1 DEF FilesTypeOK
  <2>4. \A q \in Procs : pc'[q] = "rename" => pc[q] = "rename" /\ synced'[q] = synced[q]
    <3>1. \A q \in Procs : pc'[q] = IF q = p THEN "syncdir" ELSE pc[q]
      BY <2>1, StepType
    <3>2. \A q \in Procs : q # p => synced'[q] = synced[q]
      BY <2>1 DEF Reset, FilesTypeOK
    <3> QED
      BY <3>1, <3>2
  <2>5. \A g \in FileNames : files'[g] \in disk'[g] /\ \A x \in disk'[g] : x.synced = TRUE
    BY <2>2, <2>3 DEF RenamesSynced
  <2>6. \A g \in FileNames : reported'[g].there
                               => disk'[g] = {files'[g]} /\ files'[g] = reported'[g]
    BY <2>2, <2>3 DEF RenamesSynced
  <2> QED
    BY <2>4, <2>5, <2>6 DEF RenamesSynced
<1>4. CASE SaveReturns(p)
  <2> DEFINE f == name[p]
  <2>1. /\ Finish(p) /\ UNCHANGED files
        /\ disk' = [disk EXCEPT ![f] = {files[f]}]
        /\ reported' = [reported EXCEPT ![f] = files[f]]
    BY <1>4 DEF SaveReturns
  <2>2. \A g \in FileNames : /\ disk'[g] = IF g = f THEN {files[f]} ELSE disk[g]
                             /\ reported'[g] = IF g = f THEN files[f] ELSE reported[g]
    BY <2>1 DEF FilesTypeOK
  <2>3. \A q \in Procs : pc'[q] = "rename" => pc[q] = "rename" /\ synced'[q] = synced[q]
    BY <2>1, FinishType
  <2> HIDE DEF f
  <2> QED
    BY <2>1, <2>2, <2>3 DEF RenamesSynced
<1> QED
  BY <1>1, <1>2, <1>3, <1>4

\* Every step keeps RenamesSynced.
LEMMA SyncedStep ==
    ASSUME FilesTypeOK, RenamesSynced, [FilesNext]_vars
    PROVE  RenamesSynced'
<1>1. CASE UNCHANGED vars
  BY <1>1 DEF vars, localVars, RenamesSynced
<1>2. CASE PowerLoss
  <2>1. /\ \A f \in FileNames : files'[f] \in disk[f] /\ disk'[f] = {files'[f]}
        /\ \A p \in Procs : pc'[p] = "idle"
        /\ UNCHANGED reported
    BY <1>2, PowerLossFiles
  <2> QED
    BY <2>1 DEF RenamesSynced
<1>3. CASE \/ \E p \in Clis : \/ \E loaded \in {LoadConfig, ListHistory} : Show(p, loaded)
                              \/ \E n \in SettingNames : \E v \in Values[n] : ConfigSet(p, n, v)
           \/ \E e \in Entries : AppendEntry(e)
  <2>1. /\ UNCHANGED <<files, disk, reported>>
        /\ \/ UNCHANGED <<pc, localVars>>
           \/ \E p \in Procs, f \in FileNames : \E contents, n : BeginSave(p, f, contents, n)
    BY <1>3, Commands
  <2>2. \A q \in Procs : pc'[q] = "rename" => pc[q] = "rename" /\ synced'[q] = synced[q]
    BY <2>1, BeginSaveType DEF localVars
  <2> QED
    BY <2>1, <2>2 DEF RenamesSynced
<1> QED
  BY <1>1, <1>2, <1>3, SyncedSave DEF FilesNext

\* FilesTypeOK and RenamesSynced hold in every reachable state.
LEMMA FilesSynced == FilesSpec => []FilesTypeOK /\ []RenamesSynced
<1>1. FilesInit => FilesTypeOK /\ RenamesSynced
  BY DEF FilesInit, FilesTypeOK, RenamesSynced, FileNames, NoFile
<1>2. FilesTypeOK /\ RenamesSynced /\ [FilesNext]_vars => FilesTypeOK' /\ RenamesSynced'
  BY FilesTypeStep, SyncedStep
<1> QED
  BY <1>1, <1>2, PTL DEF FilesSpec

\* What save reported is under its name after any number of deaths and power
\* losses, until another save replaces it.
THEOREM FilesSavedSurvives == FilesSpec => []SavedSurvives
<1>1. RenamesSynced => SavedSurvives
  BY DEF RenamesSynced, SavedSurvives
<1> QED
  BY <1>1, FilesSynced, PTL

-----------------------------------------------------------------------------
(* Directories.                                                             *)

\* The directory is private before save makes a file in it.
LEMMA PrivateSave ==
    ASSUME FilesTypeOK, RenamesSynced, MadeInPrivate, NEW p \in Procs,
           \/ PrepareDirectory(p) \/ ProtectDirectory(p) \/ PrepareHistory(p)
           \/ CreateTemporary(p) \/ WriteAndSync(p) \/ Rename(p)
           \/ SaveReturns(p) \/ SaveFails(p) \/ Dies(p)
    PROVE  MadeInPrivate'
<1>n. name[p] \in FileNames
  BY DEF FilesTypeOK
<1>f. ASSUME Finish(p)
      PROVE  \A q \in Procs : pc'[q] \in {"create", "sync", "rename"}
                                => pc[q] = pc'[q] /\ name'[q] = name[q]
  BY <1>f, FinishType
<1>1. CASE PrepareDirectory(p)
  <2>0. UNCHANGED <<disk, temps>>
    BY <1>1 DEF PrepareDirectory
  <2>1. \A g \in FileNames : dir[g] = "private" => dir'[g] = "private"
    BY <1>1 DEF PrepareDirectory, FilesTypeOK
  <2>2. \A q \in Procs : pc'[q] \in {"create", "sync", "rename"} => dir'[name'[q]] = "private"
    <3>1. CASE Finish(p)
      BY <1>f, <2>1, <3>1 DEF MadeInPrivate, FilesTypeOK
    <3>2. CASE Step(p, "prepare", "protect") /\ UNCHANGED localVars
      BY <2>1, <3>2, StepType DEF MadeInPrivate, FilesTypeOK, Saving, localVars
    <3>3. CASE /\ Step(p, "prepare", "create") /\ UNCHANGED <<dir, localVars>>
               /\ dir[name[p]] = "private"
      BY <2>1, <3>3, StepType DEF MadeInPrivate, FilesTypeOK, Saving, localVars
    <3> QED
      BY <1>1, <3>1, <3>2, <3>3 DEF PrepareDirectory
  <2>3. \A t \in temps : dir'[t[1]] = "private"
    BY <2>1 DEF MadeInPrivate
  <2> QED
    BY <2>0, <2>1, <2>2, <2>3 DEF MadeInPrivate
<1>2. CASE ProtectDirectory(p) \/ PrepareHistory(p)
  <2>1. /\ UNCHANGED <<disk, temps, name>>
        /\ dir' = [dir EXCEPT ![name[p]] = "private"]
        /\ Step(p, "protect", "create") \/ Step(p, "prepare", "create")
    BY <1>2 DEF ProtectDirectory, PrepareHistory, localVars
  <2>2. /\ dir'[name[p]] = "private"
        /\ \A g : dir[g] = "private" /\ g \in FileNames => dir'[g] = "private"
    BY <1>n, <2>1 DEF FilesTypeOK
  <2>3. \A t \in temps : dir'[t[1]] = "private"
    BY <2>2 DEF MadeInPrivate
  <2>4. \A q \in Procs : pc'[q] \in {"create", "sync", "rename"} => dir'[name'[q]] = "private"
    BY <2>1, <2>2, StepType DEF MadeInPrivate, FilesTypeOK, Saving
  <2> QED
    BY <2>1, <2>2, <2>3, <2>4 DEF MadeInPrivate
<1>3. CASE CreateTemporary(p)
  <2>1. UNCHANGED <<disk, dir>> /\ pc[p] = "create"
    BY <1>3 DEF CreateTemporary
  <2>2. CASE Finish(p) /\ UNCHANGED temps
    BY <1>f, <2>1, <2>2 DEF MadeInPrivate
  <2>3. ASSUME NEW a, Step(p, "create", "sync"), UNCHANGED name,
               temps' = temps \cup {TempName(p, a)}
        PROVE  MadeInPrivate'
    <3>1. TempName(p, a)[1] = name[p]
      BY DEF TempName
    <3>2. dir[name[p]] = "private"
      BY <2>1 DEF MadeInPrivate
    <3>3. \A t \in temps' : t[1] \in FileNames /\ dir[t[1]] = "private"
      BY <1>n, <2>3, <3>1, <3>2 DEF MadeInPrivate
    <3>4. \A q \in Procs : pc'[q] \in {"create", "sync", "rename"} => dir[name[q]] = "private"
      BY <2>3, <3>2, StepType DEF MadeInPrivate, Saving
    <3> QED
      BY <2>1, <2>3, <3>3, <3>4 DEF MadeInPrivate
  <2> QED
    BY <1>3, <2>2, <2>3 DEF CreateTemporary
<1>4. CASE WriteAndSync(p)
  <2>1. Step(p, "sync", "rename") /\ UNCHANGED <<disk, dir, temps, name>>
    BY <1>4 DEF WriteAndSync
  <2> QED
    BY <2>1, StepType DEF MadeInPrivate, Saving
<1>5. CASE Rename(p)
  <2> DEFINE f == name[p]
             file == FileOf(new[p], synced[p])
  <2>1. /\ Step(p, "rename", "syncdir") /\ UNCHANGED <<dir, name>>
        /\ disk' = [disk EXCEPT ![f] = disk[f] \cup {file}]
        /\ temps' \subseteq temps
    BY <1>5 DEF Rename
  <2> HIDE DEF file
  <2>2. dir[f] = "private"
    BY <2>1 DEF Step, MadeInPrivate
  <2>3. \A g \in FileNames : disk'[g] = IF g = f THEN disk[f] \cup {file} ELSE disk[g]
    BY <2>1 DEF FilesTypeOK
  <2>4. \A q \in Procs : pc'[q] \in {"create", "sync", "rename"} => pc[q] = pc'[q]
    BY <2>1, StepType
  <2> QED
    BY <2>1, <2>2, <2>3, <2>4 DEF MadeInPrivate
<1>6. CASE SaveReturns(p)
  <2>1. /\ Finish(p) /\ UNCHANGED <<dir, temps>>
        /\ disk' = [disk EXCEPT ![name[p]] = {files[name[p]]}]
    BY <1>6 DEF SaveReturns
  <2>2. \A g \in FileNames : disk'[g] \subseteq disk[g]
    BY <2>1 DEF FilesTypeOK, RenamesSynced
  <2> QED
    BY <1>f, <2>1, <2>2 DEF MadeInPrivate
<1>7. CASE SaveFails(p) \/ Dies(p)
  <2>1. Finish(p) /\ UNCHANGED <<dir, disk>> /\ temps' \subseteq temps
    BY <1>7 DEF SaveFails, Dies
  <2> QED
    BY <1>f, <2>1 DEF MadeInPrivate
<1> QED
  BY <1>1, <1>2, <1>3, <1>4, <1>5, <1>6, <1>7

\* Every step keeps MadeInPrivate.
LEMMA PrivateStep ==
    ASSUME FilesTypeOK, RenamesSynced, MadeInPrivate, [FilesNext]_vars
    PROVE  MadeInPrivate'
<1>1. CASE UNCHANGED vars
  BY <1>1 DEF vars, localVars, MadeInPrivate
<1>2. CASE PowerLoss
  <2>1. /\ \A f \in FileNames : files'[f] \in disk[f] /\ disk'[f] = {files'[f]}
        /\ \A p \in Procs : pc'[p] = "idle"
        /\ UNCHANGED <<dir, temps>>
    BY <1>2, PowerLossFiles
  <2> QED
    BY <2>1 DEF MadeInPrivate
<1>3. CASE \/ \E p \in Clis : \/ \E loaded \in {LoadConfig, ListHistory} : Show(p, loaded)
                              \/ \E n \in SettingNames : \E v \in Values[n] : ConfigSet(p, n, v)
           \/ \E e \in Entries : AppendEntry(e)
  <2>1. /\ UNCHANGED <<disk, dir, temps>>
        /\ \/ UNCHANGED <<pc, localVars>>
           \/ \E p \in Procs, f \in FileNames : \E contents, n : BeginSave(p, f, contents, n)
    BY <1>3, Commands
  <2>2. \A q \in Procs : pc'[q] \in {"create", "sync", "rename"}
                           => pc[q] = pc'[q] /\ name'[q] = name[q]
    BY <2>1, BeginSaveType DEF localVars
  <2> QED
    BY <2>1, <2>2 DEF MadeInPrivate
<1> QED
  BY <1>1, <1>2, <1>3, PrivateSave DEF FilesNext

\* No file, not even a temporary one, is ever in a directory others can read.
THEOREM FilesDirectoriesPrivate == FilesSpec => []DirectoriesPrivate
<1>1. FilesInit => MadeInPrivate
  BY DEF FilesInit, MadeInPrivate, NoFile
<1>2. FilesTypeOK /\ RenamesSynced /\ MadeInPrivate /\ [FilesNext]_vars => MadeInPrivate'
  BY PrivateStep
<1>3. RenamesSynced /\ MadeInPrivate => DirectoriesPrivate
  BY DEF RenamesSynced, MadeInPrivate, DirectoriesPrivate
<1> QED
  BY <1>1, <1>2, <1>3, FilesSynced, PTL DEF FilesSpec


-----------------------------------------------------------------------------
(* Contents.                                                                *)

\* A step of save changes what a process is about to save only by ending it,
\* and puts nothing but that under a name.
LEMMA SaveKeepsLocals ==
    ASSUME FilesTypeOK, RenamesSynced, NEW p \in Procs,
           \/ PrepareDirectory(p) \/ ProtectDirectory(p) \/ PrepareHistory(p)
           \/ CreateTemporary(p) \/ WriteAndSync(p) \/ Rename(p)
           \/ SaveReturns(p) \/ SaveFails(p) \/ Dies(p)
    PROVE  /\ \A q \in Procs : pc'[q] \in Saving =>
                /\ pc[q] \in Saving
                /\ name'[q] = name[q] /\ new'[q] = new[q]
                /\ base'[q] = base[q] /\ setting'[q] = setting[q]
           /\ \A f \in FileNames : \A x \in disk'[f] :
                \/ x \in disk[f]
                \/ pc[p] \in Saving /\ name[p] = f /\ x.data = new[p]
           /\ UNCHANGED invalid
<1>f. ASSUME Finish(p)
      PROVE  \A q \in Procs : pc'[q] \in Saving =>
                /\ pc[q] \in Saving
                /\ name'[q] = name[q] /\ new'[q] = new[q]
                /\ base'[q] = base[q] /\ setting'[q] = setting[q]
  BY <1>f, FinishType DEF Saving
<1>s. ASSUME NEW from \in Saving, NEW to \in Saving, Step(p, from, to),
             UNCHANGED <<name, new, base, setting>>
      PROVE  \A q \in Procs : pc'[q] \in Saving =>
                /\ pc[q] \in Saving
                /\ name'[q] = name[q] /\ new'[q] = new[q]
                /\ base'[q] = base[q] /\ setting'[q] = setting[q]
  BY <1>s, StepType
<1>v. {"prepare", "protect", "create", "sync", "rename"} = Saving /\ "syncdir" \notin Saving
  BY DEF Saving
<1>1. CASE \/ PrepareDirectory(p) \/ ProtectDirectory(p) \/ PrepareHistory(p)
           \/ CreateTemporary(p) \/ WriteAndSync(p) \/ SaveFails(p) \/ Dies(p)
  <2>1. UNCHANGED <<disk, invalid>>
    BY <1>1 DEF PrepareDirectory, ProtectDirectory, PrepareHistory, CreateTemporary,
       WriteAndSync, SaveFails, Dies, Finish
  <2>2. \/ Finish(p)
        \/ /\ \/ Step(p, "prepare", "protect") \/ Step(p, "prepare", "create")
              \/ Step(p, "protect", "create") \/ Step(p, "create", "sync")
              \/ Step(p, "sync", "rename")
           /\ UNCHANGED <<name, new, base, setting>>
    BY <1>1 DEF PrepareDirectory, ProtectDirectory, PrepareHistory, CreateTemporary,
       WriteAndSync, SaveFails, Dies, localVars
  <2> QED
    BY <1>f, <1>s, <1>v, <2>1, <2>2
<1>2. CASE Rename(p)
  <2> DEFINE file == FileOf(new[p], synced[p])
  <2>1. /\ Step(p, "rename", "syncdir") /\ Reset(p) /\ UNCHANGED <<name, invalid>>
        /\ disk' = [disk EXCEPT ![name[p]] = disk[name[p]] \cup {file}]
    BY <1>2 DEF Rename
  <2>2. file.data = new[p]
    BY DEF FileOf
  <2> HIDE DEF file
  <2>3. pc[p] \in Saving
    BY <1>v, <2>1 DEF Step
  <2>4. \A f \in FileNames : disk'[f] = IF f = name[p] THEN disk[f] \cup {file} ELSE disk[f]
    BY <2>1 DEF FilesTypeOK
  <2>5. \A q \in Procs : /\ pc'[q] = IF q = p THEN "syncdir" ELSE pc[q]
                         /\ q # p => /\ name'[q] = name[q] /\ new'[q] = new[q]
                                     /\ base'[q] = base[q] /\ setting'[q] = setting[q]
    BY <2>1 DEF Step, Reset, FilesTypeOK
  <2> QED
    BY <1>v, <2>1, <2>2, <2>3, <2>4, <2>5
<1>3. CASE SaveReturns(p)
  <2>1. /\ Finish(p) /\ UNCHANGED invalid
        /\ disk' = [disk EXCEPT ![name[p]] = {files[name[p]]}]
    BY <1>3 DEF SaveReturns, Finish
  <2>2. \A f \in FileNames : disk'[f] \subseteq disk[f]
    BY <2>1 DEF FilesTypeOK, RenamesSynced
  <2> QED
    BY <1>f, <2>1, <2>2
<1> QED
  BY <1>1, <1>2, <1>3

\* Saving and a power loss keep contents whole, whichever file they are of.
LEMMA WholeSave ==
    ASSUME FilesTypeOK, RenamesSynced, NEW f \in FileNames, WholeContents(f),
           \/ UNCHANGED vars
           \/ PowerLoss
           \/ \E p \in Procs :
                \/ PrepareDirectory(p) \/ ProtectDirectory(p) \/ PrepareHistory(p)
                \/ CreateTemporary(p) \/ WriteAndSync(p) \/ Rename(p)
                \/ SaveReturns(p) \/ SaveFails(p) \/ Dies(p)
    PROVE  WholeContents(f)' /\ UNCHANGED invalid
<1>0. ASSUME \A x \in disk'[f] : \/ x \in disk[f]
                                 \/ x.data \in Encoded(f),
             \A q \in Procs : pc'[q] \in Saving =>
                /\ pc[q] \in Saving /\ name'[q] = name[q] /\ new'[q] = new[q]
      PROVE  WholeContents(f)'
  BY <1>0 DEF WholeContents, Encoded
<1>1. CASE UNCHANGED vars
  BY <1>1 DEF vars, localVars, WholeContents, Encoded
<1>2. CASE PowerLoss
  <2>1. /\ files'[f] \in disk[f] /\ disk'[f] = {files'[f]} /\ UNCHANGED invalid
        /\ \A q \in Procs : pc'[q] = "idle"
    BY <1>2, PowerLossFiles
  <2> QED
    BY <1>0, <2>1 DEF Saving
<1>3. ASSUME NEW p \in Procs,
             \/ PrepareDirectory(p) \/ ProtectDirectory(p) \/ PrepareHistory(p)
             \/ CreateTemporary(p) \/ WriteAndSync(p) \/ Rename(p)
             \/ SaveReturns(p) \/ SaveFails(p) \/ Dies(p)
      PROVE  WholeContents(f)' /\ UNCHANGED invalid
  <2>1. /\ \A q \in Procs : pc'[q] \in Saving =>
              /\ pc[q] \in Saving /\ name'[q] = name[q] /\ new'[q] = new[q]
        /\ \A x \in disk'[f] : \/ x \in disk[f]
                               \/ pc[p] \in Saving /\ name[p] = f /\ x.data = new[p]
        /\ UNCHANGED invalid
    BY <1>3, SaveKeepsLocals
  <2>2. \A x \in disk'[f] : x \in disk[f] \/ x.data \in Encoded(f)
    BY <2>1 DEF WholeContents
  <2> QED
    BY <1>0, <2>1, <2>2
<1> QED
  BY <1>1, <1>2, <1>3

-----------------------------------------------------------------------------
(* config set.                                                              *)

\* What is loaded from a file with whole contents is a configuration.
LEMMA LoadedConfig ==
    ASSUME RenamesSynced, WholeContents("config")
    PROVE  /\ LoadConfig = ConfigIn(files["config"])
           /\ \E c \in Configs : LoadConfig = [kind |-> "config", config |-> c]
           /\ LoadConfig # Rejected
<1>1. LoadConfig = ConfigIn(files["config"])
  BY DEF LoadConfig, ConfigIn
<1>2. \E c \in Configs : LoadConfig = [kind |-> "config", config |-> c]
  <2>1. CASE files["config"].there
    <3>1. files["config"].data \in Encoded("config")
      BY <2>1 DEF WholeContents, RenamesSynced, FileNames
    <3>2. PICK c \in Configs : files["config"].data = EncodeConfig(c)
      BY <3>1 DEF Encoded
    <3> QED
      BY <2>1, <3>2, ConfigRoundTrips DEF LoadConfig
  <2>2. CASE ~files["config"].there
    BY <2>2, ConfigSetValid DEF LoadConfig
  <2> QED
    BY <2>1, <2>2
<1>3. \A c : [kind |-> "config", config |-> c] # Rejected
  <2> TAKE c
  <2>1. [kind |-> "config", config |-> c].kind # Rejected.kind
    BY DEF Rejected
  <2> QED
    BY <2>1
<1> QED
  BY <1>1, <1>2, <1>3

\* `config set` is refused without a complaint about the file, or saves the
\* configuration it loaded with one setting changed.
LEMMA ConfigSetSaves ==
    ASSUME FilesTypeOK, RenamesSynced, WholeContents("config"),
           NEW p \in Clis, NEW n \in SettingNames, NEW v, ConfigSet(p, n, v)
    PROVE  /\ UNCHANGED <<files, disk, invalid>>
           /\ \/ UNCHANGED <<pc, localVars>>
              \/ \E c, d \in Configs :
                   /\ LoadConfig = [kind |-> "config", config |-> c]
                   /\ BeginSave(p, "config", EncodeConfig(d), n)
                   /\ \A m \in SettingNames \ {n} : d[m] = c[m]
<1>1. PICK c \in Configs : LoadConfig = [kind |-> "config", config |-> c]
  BY LoadedConfig
<1>2. CASE ValidValue(n, v)
  <2>1. [c EXCEPT ![n] = v] \in Configs
    BY <1>2, ConfigSetValid
  <2>2. BeginSave(p, "config", EncodeConfig([c EXCEPT ![n] = v]), n)
    BY <1>1, <1>2, LoadedConfig DEF ConfigSet
  <2>3. \A m \in SettingNames \ {n} : [c EXCEPT ![n] = v][m] = c[m]
    BY ConfigValues
  <2> QED
    BY <1>1, <2>1, <2>2, <2>3 DEF ConfigSet, BeginSave
<1>3. CASE ~ValidValue(n, v)
  BY <1>3, LoadedConfig DEF ConfigSet, Refuse
<1> QED
  BY <1>2, <1>3

\* Every step keeps the configuration whole.
LEMMA WholeConfigStep ==
    ASSUME FilesTypeOK, RenamesSynced, WholeContents("config"), [FilesNext]_vars
    PROVE  WholeContents("config")'
<1>0. "config" \in FileNames /\ "config" # "history"
  BY DEF FileNames
<1>1. ASSUME UNCHANGED <<disk, pc, localVars>>
      PROVE  WholeContents("config")'
  BY <1>1 DEF WholeContents, Encoded, localVars
<1>2. ASSUME NEW p \in Clis, NEW loaded, Show(p, loaded)
      PROVE  WholeContents("config")'
  BY <1>1, <1>2 DEF Show, Refuse
<1>3. ASSUME NEW p \in Clis, NEW n \in SettingNames, NEW v, ConfigSet(p, n, v)
      PROVE  WholeContents("config")'
  <2>1. ASSUME NEW d \in Configs, BeginSave(p, "config", EncodeConfig(d), n)
        PROVE  \A q \in Procs : pc'[q] \in Saving /\ name'[q] = "config"
                                  => new'[q] \in Encoded("config")
    <3>1. p \in Procs
      BY DEF Procs
    <3>2. EncodeConfig(d) \in Encoded("config")
      BY DEF Encoded
    <3> QED
      BY <1>0, <2>1, <3>1, <3>2, BeginSaveType DEF WholeContents
  <2>2. UNCHANGED disk
    BY <1>3, ConfigSetSaves
  <2>3. CASE UNCHANGED <<pc, localVars>>
    BY <1>1, <2>2, <2>3
  <2>4. CASE \E d \in Configs : BeginSave(p, "config", EncodeConfig(d), n)
    BY <2>1, <2>2, <2>4 DEF WholeContents, Encoded
  <2> QED
    BY <1>3, <2>3, <2>4, ConfigSetSaves
<1>4. ASSUME NEW e, AppendEntry(e)
      PROVE  WholeContents("config")'
  <2>1. UNCHANGED disk /\ (UNCHANGED <<pc, localVars>>
                           \/ \E contents, n : BeginSave(Agent, "history", contents, n))
    BY <1>4 DEF AppendEntry, Refuse
  <2>2. ASSUME NEW contents, NEW n, BeginSave(Agent, "history", contents, n)
        PROVE  \A q \in Procs : pc'[q] \in Saving /\ name'[q] = "config"
                                  => new'[q] \in Encoded("config")
    <3>1. Agent \in Procs /\ "history" \in FileNames
      BY DEF Procs, FileNames
    <3> QED
      BY <1>0, <2>2, <3>1, BeginSaveType DEF WholeContents
  <2> QED
    BY <1>1, <2>1, <2>2 DEF WholeContents, Encoded
<1> QED
  BY <1>0, <1>2, <1>3, <1>4, WholeSave DEF FilesNext

\* Every step keeps ChangesOneSetting.
LEMMA OneSettingStep ==
    ASSUME FilesTypeOK, RenamesSynced, WholeContents("config"), ChangesOneSetting,
           [FilesNext]_vars
    PROVE  ChangesOneSetting'
<1>0. ASSUME NEW q \in Clis, pc'[q] \in Saving => /\ pc[q] \in Saving
                                                  /\ name'[q] = name[q] /\ new'[q] = new[q]
                                                  /\ base'[q] = base[q]
                                                  /\ setting'[q] = setting[q],
             pc'[q] \in Saving
      PROVE  /\ name'[q] = "config"
             /\ \E c, d \in Configs :
                  /\ ConfigIn(base'[q]) = [kind |-> "config", config |-> c]
                  /\ new'[q] = EncodeConfig(d)
                  /\ \A n \in SettingNames \ {setting'[q]} : d[n] = c[n]
  BY <1>0 DEF ChangesOneSetting
<1>1. CASE UNCHANGED <<pc, localVars>>
  BY <1>0, <1>1 DEF ChangesOneSetting, localVars
<1>2. CASE PowerLoss
  <2>1. \A q \in Procs : pc'[q] = "idle"
    BY <1>2, PowerLossFiles
  <2> QED
    BY <2>1 DEF ChangesOneSetting, Saving, Procs
<1>3. ASSUME NEW p \in Procs,
             \/ PrepareDirectory(p) \/ ProtectDirectory(p) \/ PrepareHistory(p)
             \/ CreateTemporary(p) \/ WriteAndSync(p) \/ Rename(p)
             \/ SaveReturns(p) \/ SaveFails(p) \/ Dies(p)
      PROVE  ChangesOneSetting'
  <2>1. \A q \in Procs : pc'[q] \in Saving =>
          /\ pc[q] \in Saving
          /\ name'[q] = name[q] /\ new'[q] = new[q]
          /\ base'[q] = base[q] /\ setting'[q] = setting[q]
    BY <1>3, SaveKeepsLocals
  <2> QED
    BY <1>0, <2>1 DEF ChangesOneSetting, Procs
<1>4. ASSUME NEW p \in Clis, NEW n \in SettingNames, NEW v, ConfigSet(p, n, v)
      PROVE  ChangesOneSetting'
  <2>1. CASE UNCHANGED <<pc, localVars>>
    BY <1>1, <2>1
  <2>2. ASSUME NEW c \in Configs, NEW d \in Configs,
               LoadConfig = [kind |-> "config", config |-> c],
               BeginSave(p, "config", EncodeConfig(d), n),
               \A m \in SettingNames \ {n} : d[m] = c[m]
        PROVE  ChangesOneSetting'
    <3>1. p \in Procs /\ "config" \in FileNames
      BY DEF Procs, FileNames
    <3>2. \A q \in Procs : /\ pc'[q] = IF q = p THEN "prepare" ELSE pc[q]
                           /\ name'[q] = IF q = p THEN "config" ELSE name[q]
                           /\ new'[q] = IF q = p THEN EncodeConfig(d) ELSE new[q]
                           /\ base'[q] = IF q = p THEN files["config"] ELSE base[q]
                           /\ setting'[q] = IF q = p THEN n ELSE setting[q]
      BY <2>2, <3>1, BeginSaveType
    <3>3. ConfigIn(files["config"]) = [kind |-> "config", config |-> c]
      BY <2>2, LoadedConfig
    <3>4. SUFFICES ASSUME NEW q \in Clis, pc'[q] \in Saving
                   PROVE  /\ name'[q] = "config"
                          /\ \E x, y \in Configs :
                               /\ ConfigIn(base'[q]) = [kind |-> "config", config |-> x]
                               /\ new'[q] = EncodeConfig(y)
                               /\ \A m \in SettingNames \ {setting'[q]} : y[m] = x[m]
      BY DEF ChangesOneSetting
    <3>5. CASE q = p
      BY <2>2, <3>1, <3>2, <3>3, <3>5
    <3>6. CASE q # p
      BY <1>0, <3>2, <3>4, <3>6 DEF Procs
    <3> QED
      BY <3>5, <3>6
  <2> QED
    BY <1>4, <2>1, <2>2, ConfigSetSaves
<1>5. ASSUME NEW e, AppendEntry(e)
      PROVE  ChangesOneSetting'
  <2>1. CASE UNCHANGED <<pc, localVars>>
    BY <1>1, <2>1
  <2>2. ASSUME NEW contents, NEW n, BeginSave(Agent, "history", contents, n)
        PROVE  ChangesOneSetting'
    <3>1. Agent \in Procs /\ "history" \in FileNames
      BY DEF Procs, FileNames
    <3>2. \A q \in Clis : q \in Procs /\ q # Agent
      BY FilesAssumption DEF Procs
    <3>3. \A q \in Clis : /\ pc'[q] = pc[q] /\ name'[q] = name[q] /\ new'[q] = new[q]
                          /\ base'[q] = base[q] /\ setting'[q] = setting[q]
      BY <2>2, <3>1, <3>2, BeginSaveType
    <3> QED
      BY <1>0, <3>3 DEF ChangesOneSetting
  <2> QED
    BY <1>5, <2>1, <2>2 DEF AppendEntry, Refuse
<1>6. ASSUME NEW p \in Clis, NEW loaded, Show(p, loaded)
      PROVE  UNCHANGED <<pc, localVars>>
  BY <1>6 DEF Show, Refuse
<1> QED
  BY <1>1, <1>2, <1>3, <1>4, <1>5, <1>6 DEF FilesNext, vars

\* Only the rename of p takes p past it.
LEMMA OnlyRenames ==
    ASSUME FilesTypeOK, [FilesNext]_vars, NEW p \in Procs,
           pc[p] = "rename", pc'[p] = "syncdir"
    PROVE  Rename(p)
<1>1. ASSUME UNCHANGED pc
      PROVE  FALSE
  BY <1>1
<1>2. ASSUME NEW q \in Procs, Finish(q)
      PROVE  FALSE
  BY <1>2, FinishType
<1>3. ASSUME NEW q \in Procs, NEW from, NEW to \in Saving, Step(q, from, to)
      PROVE  FALSE
  BY <1>3, StepType DEF Saving
<1>4. CASE \/ \E q \in Clis : \/ \E loaded \in {LoadConfig, ListHistory} : Show(q, loaded)
                              \/ \E n \in SettingNames : \E v \in Values[n] : ConfigSet(q, n, v)
           \/ \E e \in Entries : AppendEntry(e)
  <2>1. UNCHANGED pc \/ \E q \in Procs, f \in FileNames : \E contents, n :
                           BeginSave(q, f, contents, n)
    BY <1>4, Commands
  <2> QED
    BY <1>1, <2>1, BeginSaveType
<1>5. CASE PowerLoss
  BY <1>5 DEF PowerLoss
<1>6. ASSUME NEW q \in Procs,
             \/ PrepareDirectory(q) \/ ProtectDirectory(q) \/ PrepareHistory(q)
             \/ CreateTemporary(q) \/ WriteAndSync(q)
             \/ SaveReturns(q) \/ SaveFails(q) \/ Dies(q)
      PROVE  FALSE
  <2>1. \/ Finish(q)
        \/ Step(q, "prepare", "protect") \/ Step(q, "prepare", "create")
        \/ Step(q, "protect", "create") \/ Step(q, "create", "sync")
        \/ Step(q, "sync", "rename")
    BY <1>6 DEF PrepareDirectory, ProtectDirectory, PrepareHistory, CreateTemporary,
       WriteAndSync, SaveReturns, SaveFails, Dies
  <2>2. {"protect", "create", "sync", "rename"} \subseteq Saving
    BY DEF Saving
  <2> QED
    BY <1>2, <1>3, <2>1, <2>2
<1>7. ASSUME NEW q \in Procs, Rename(q)
      PROVE  q = p
  BY <1>7, StepType DEF Rename
<1> QED
  BY <1>1, <1>4, <1>5, <1>6, <1>7 DEF FilesNext, vars

\* The rename of `config set` leaves the other setting as the file had it.
LEMMA RenameKeepsOthers ==
    ASSUME FilesTypeOK, RenamesSynced, WholeContents("config"), ChangesOneSetting,
           [FilesNext]_vars, NEW p \in Clis,
           Step(p, "rename", "syncdir"), files["config"] = base[p]
    PROVE  \A n \in SettingNames \ {setting[p]} : LoadConfig'.config[n] = LoadConfig.config[n]
<1>0. p \in Procs /\ pc[p] = "rename" /\ pc'[p] = "syncdir"
  BY StepType DEF Procs
<1>1. PICK c \in Configs, d \in Configs :
         /\ ConfigIn(base[p]) = [kind |-> "config", config |-> c]
         /\ new[p] = EncodeConfig(d)
         /\ \A n \in SettingNames \ {setting[p]} : d[n] = c[n]
  BY <1>0 DEF ChangesOneSetting, Saving
<1>2. Rename(p) /\ name[p] = "config"
  <2>1. name[p] = "config"
    BY <1>0 DEF ChangesOneSetting, Saving
  <2> QED
    BY <1>0, <2>1, OnlyRenames
<1>3. files'["config"] = FileOf(new[p], synced[p])
  BY <1>2 DEF Rename, FilesTypeOK, FileNames
<1>4. LoadConfig' = [kind |-> "config", config |-> d]
  <2>0. files'["config"].there /\ files'["config"].data = new[p]
    <3>1. \A data, isSynced : /\ FileOf(data, isSynced).there = TRUE
                              /\ FileOf(data, isSynced).data = data
      BY DEF FileOf
    <3> QED
      BY <1>3, <3>1
  <2>1. LoadConfig' = ParseConfig(new[p])
    BY <2>0 DEF LoadConfig
  <2> QED
    BY <1>1, <2>1, ConfigRoundTrips
<1>5. LoadConfig = [kind |-> "config", config |-> c]
  BY <1>1, LoadedConfig
<1> QED
  BY <1>1, <1>4, <1>5

\* `config set` of one setting keeps the other, unless the file was changed
\* since it was loaded.
THEOREM FilesSetTouchesOneSetting == FilesSpec => SetTouchesOneSetting
<1>1. FilesInit => WholeContents("config") /\ ChangesOneSetting
  <2>1. \A p \in Clis : p \in Procs
    BY DEF Procs
  <2> QED
    BY <2>1 DEF FilesInit, WholeContents, ChangesOneSetting, NoFile, Saving, FileNames
<1>2. FilesTypeOK /\ RenamesSynced /\ WholeContents("config") /\ ChangesOneSetting
        /\ [FilesNext]_vars => WholeContents("config")' /\ ChangesOneSetting'
  BY WholeConfigStep, OneSettingStep
<1>3. FilesTypeOK /\ RenamesSynced /\ WholeContents("config") /\ ChangesOneSetting
        /\ [FilesNext]_vars
      => [\A p \in Clis : Step(p, "rename", "syncdir") /\ files["config"] = base[p] =>
            \A n \in SettingNames \ {setting[p]} :
              LoadConfig'.config[n] = LoadConfig.config[n]]_vars
  BY RenameKeepsOthers
<1> QED
  BY <1>1, <1>2, <1>3, FilesSynced, PTL DEF FilesSpec, SetTouchesOneSetting

-----------------------------------------------------------------------------
(* The history.                                                             *)

\* Appending a valid entry and dropping the oldest makes a history again.
LEMMA AppendedHistory ==
    ASSUME NEW es \in Histories, NEW e \in Entries, ValidEntry(e)
    PROVE  LET all == Append(es, e)
               kept == SubSeq(all, Len(all) - MaxEntries + 1, Len(all))
           IN (IF Len(all) > MaxEntries THEN kept ELSE all) \in Histories
<1> DEFINE V == {x \in Entries : ValidEntry(x)}
           all == Append(es, e)
           kept == SubSeq(all, Len(all) - MaxEntries + 1, Len(all))
<1>0. MaxEntries \in Nat
  BY FormatsAssumption
<1>1. PICK n \in 0 .. MaxEntries : es \in [1 .. n -> V]
  BY DEF Histories
<1>2. n \in Nat /\ es \in Seq(V) /\ Len(es) = n /\ e \in V
  BY <1>0, <1>1
<1>3. \A m \in 0 .. MaxEntries : \A s : s \in [1 .. m -> V] => s \in Histories
  BY DEF Histories
<1> HIDE DEF V
<1>4. all \in Seq(V) /\ Len(all) = n + 1
  BY <1>2
<1> HIDE DEF all
<1>5. \A s \in Seq(V) : s \in [1 .. Len(s) -> V]
  OBVIOUS
<1>6. CASE n + 1 <= MaxEntries
  <2>1. n + 1 \in 0 .. MaxEntries /\ ~(Len(all) > MaxEntries)
    BY <1>0, <1>2, <1>4, <1>6
  <2>2. all \in Histories
    BY <1>3, <1>4, <1>5, <2>1
  <2> QED
    BY <2>1, <2>2 DEF all
<1>7. CASE n + 1 > MaxEntries
  <2>1. n = MaxEntries
    BY <1>0, <1>2, <1>7
  <2>2. kept = SubSeq(all, 2, n + 1)
    BY <1>0, <1>4, <2>1
  <2>3. kept \in Seq(V) /\ Len(kept) = n
    <3>1. SubSeq(all, 2, n + 1) \in Seq(V)
      <4>1. \A i \in 2 .. n + 1 : all[i] \in V
        BY <1>2, <1>4
      <4> QED
        BY <1>2, <1>4, <4>1, SubSeqProperties
    <3>2. Len(SubSeq(all, 2, n + 1)) = n
      BY <1>2, <1>4, SubSeqProperties
    <3> QED
      BY <2>2, <3>1, <3>2
  <2> HIDE DEF kept
  <2>4. kept \in Histories
    BY <1>0, <1>3, <1>5, <2>1, <2>3
  <2> QED
    BY <1>0, <1>2, <1>4, <1>7, <2>4 DEF all, kept
<1> QED
  BY <1>0, <1>2, <1>6, <1>7

\* What is loaded from a file with whole contents is a history.
LEMMA ListedHistory ==
    ASSUME HistoryRoundTrips, RenamesSynced, WholeContents("history")
    PROVE  /\ \E es \in Histories : ListHistory = [kind |-> "history", entries |-> es]
           /\ ListHistory # Rejected
<1>1. \E es \in Histories : ListHistory = [kind |-> "history", entries |-> es]
  <2>1. CASE files["history"].there
    <3>1. files["history"].data \in Encoded("history")
      BY <2>1 DEF WholeContents, RenamesSynced, FileNames
    <3>2. PICK es \in Histories : files["history"].data = EncodeHistory(es)
      BY <3>1 DEF Encoded
    <3> QED
      BY <2>1, <3>2 DEF ListHistory, HistoryRoundTrips
  <2>2. CASE ~files["history"].there
    <3>1. 0 \in 0 .. MaxEntries
      BY FormatsAssumption
    <3>2. <<>> \in [1 .. 0 -> {e \in Entries : ValidEntry(e)}]
      OBVIOUS
    <3>3. <<>> \in Histories
      BY <3>1, <3>2 DEF Histories
    <3> QED
      BY <2>2, <3>3 DEF ListHistory
  <2> QED
    BY <2>1, <2>2
<1>2. \A es : [kind |-> "history", entries |-> es] # Rejected
  <2> TAKE es
  <2>1. [kind |-> "history", entries |-> es].kind # Rejected.kind
    BY DEF Rejected
  <2> QED
    BY <2>1
<1> QED
  BY <1>1, <1>2

\* The agent refuses an entry without a complaint about the file, or saves a
\* history.
LEMMA AppendSaves ==
    ASSUME HistoryRoundTrips, FilesTypeOK, RenamesSynced, WholeContents("history"),
           NEW e \in Entries, AppendEntry(e)
    PROVE  /\ UNCHANGED <<files, disk, invalid>>
           /\ \/ UNCHANGED <<pc, localVars>>
              \/ \E es \in Histories : BeginSave(Agent, "history", EncodeHistory(es), "none")
<1>1. PICK es \in Histories : ListHistory = [kind |-> "history", entries |-> es]
  BY ListedHistory
<1>2. CASE ValidEntry(e)
  <2> DEFINE all == Append(ListHistory.entries, e)
             kept == SubSeq(all, Len(all) - MaxEntries + 1, Len(all))
             next == IF Len(all) > MaxEntries THEN kept ELSE all
  <2>1. next \in Histories
    BY <1>1, <1>2, AppendedHistory
  <2>2. BeginSave(Agent, "history", EncodeHistory(next), "none") /\ UNCHANGED <<files, disk>>
    BY <1>2, ListedHistory DEF AppendEntry
  <2>3. UNCHANGED invalid
    BY <2>2 DEF BeginSave
  <2> HIDE DEF next
  <2> QED
    BY <2>1, <2>2, <2>3
<1>3. CASE ~ValidEntry(e)
  BY <1>3, ListedHistory DEF AppendEntry, Refuse
<1> QED
  BY <1>2, <1>3

\* Every step keeps the history whole and nobody is told a file is invalid.
LEMMA WholeHistoryStep ==
    ASSUME HistoryRoundTrips, FilesTypeOK, RenamesSynced, WholeContents("config"),
           WholeContents("history"), invalid = {}, [FilesNext]_vars
    PROVE  WholeContents("history")' /\ invalid' = {}
<1>0. "history" \in FileNames /\ "config" \in FileNames /\ "config" # "history"
  BY DEF FileNames
<1>1. ASSUME UNCHANGED <<disk, pc, localVars>>
      PROVE  WholeContents("history")'
  BY <1>1 DEF WholeContents, Encoded, localVars
<1>2. ASSUME NEW p \in Clis, NEW loaded \in {LoadConfig, ListHistory}, Show(p, loaded)
      PROVE  WholeContents("history")' /\ invalid' = {}
  <2>1. loaded # Rejected
    BY LoadedConfig, ListedHistory
  <2> QED
    BY <1>1, <1>2, <2>1 DEF Show, Refuse
<1>3. ASSUME NEW p \in Clis, NEW n \in SettingNames, NEW v, ConfigSet(p, n, v)
      PROVE  WholeContents("history")' /\ invalid' = {}
  <2>1. /\ UNCHANGED <<disk, invalid>>
        /\ \/ UNCHANGED <<pc, localVars>>
           \/ \E d \in Configs : BeginSave(p, "config", EncodeConfig(d), n)
    BY <1>3, ConfigSetSaves
  <2>2. ASSUME NEW contents, BeginSave(p, "config", contents, n)
        PROVE  \A q \in Procs : pc'[q] \in Saving /\ name'[q] = "history"
                                  => new'[q] \in Encoded("history")
    <3>1. p \in Procs
      BY DEF Procs
    <3> QED
      BY <1>0, <2>2, <3>1, BeginSaveType DEF WholeContents
  <2> QED
    BY <1>1, <2>1, <2>2 DEF WholeContents, Encoded
<1>4. ASSUME NEW e \in Entries, AppendEntry(e)
      PROVE  WholeContents("history")' /\ invalid' = {}
  <2>1. /\ UNCHANGED <<disk, invalid>>
        /\ \/ UNCHANGED <<pc, localVars>>
           \/ \E es \in Histories : BeginSave(Agent, "history", EncodeHistory(es), "none")
    BY <1>4, AppendSaves
  <2>2. ASSUME NEW es \in Histories, BeginSave(Agent, "history", EncodeHistory(es), "none")
        PROVE  \A q \in Procs : pc'[q] \in Saving /\ name'[q] = "history"
                                  => new'[q] \in Encoded("history")
    <3>1. Agent \in Procs
      BY DEF Procs
    <3>2. EncodeHistory(es) \in Encoded("history")
      BY DEF Encoded
    <3> QED
      BY <1>0, <2>2, <3>1, <3>2, BeginSaveType DEF WholeContents
  <2> QED
    BY <1>1, <2>1, <2>2 DEF WholeContents, Encoded
<1> QED
  BY <1>0, <1>2, <1>3, <1>4, WholeSave DEF FilesNext

\* Whatever dies when, both files can be loaded and nobody is told that they
\* are invalid, provided a history can be decoded as it was encoded.
THEOREM FilesAlwaysReadable ==
    ASSUME HistoryRoundTrips
    PROVE  FilesSpec => []FilesReadable
<1> DEFINE Whole == WholeContents("config") /\ WholeContents("history") /\ invalid = {}
<1>1. FilesInit => Whole
  BY DEF FilesInit, WholeContents, NoFile, Saving, FileNames
<1>2. FilesTypeOK /\ RenamesSynced /\ Whole /\ [FilesNext]_vars => Whole'
  BY WholeConfigStep, WholeHistoryStep
<1>3. RenamesSynced /\ Whole => FilesReadable
  BY LoadedConfig, ListedHistory DEF FilesReadable
<1> QED
  BY <1>1, <1>2, <1>3, FilesSynced, PTL DEF FilesSpec
=============================================================================
