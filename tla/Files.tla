------------------------------- MODULE Files -------------------------------
(***************************************************************************)
(* The configuration and the signing history as files: `keyvisor config`   *)
(* and `keyvisor history` on one side, the agent, the only one to append,  *)
(* on the other.  There is no lock between processes; each load is atomic  *)
(* because a file is replaced by a rename.  Processes die and leave their  *)
(* temporary files, whose names come back with the process identifier, and *)
(* the machine loses power.                                                *)
(*                                                                         *)
(* Contents are those of Formats.  KeyStore models the store of keys,      *)
(* where every record has a file of its own.                               *)
(***************************************************************************)
EXTENDS Formats, FiniteSets

CONSTANTS Clis,        \* processes of the command line tool
          Agent,       \* the process of the agent
          Values,      \* values given to `config set`
          Entries,     \* what the agent appends
          Attempts,    \* 100 in create_temporary_file
          MaxFaults    \* bound: deaths and power losses

Procs == Clis \cup {Agent}
FileNames == {"config", "history"}

ASSUME FilesAssumption == Agent \notin Clis /\ Attempts \in Nat /\ MaxFaults \in Nat

NoFile == [there |-> FALSE, data |-> <<>>, synced |-> TRUE]
FileOf(data, isSynced) == [there |-> TRUE, data |-> data, synced |-> isSynced]
NoTemp == 0

VARIABLES
    files,     \* the file under each name
    disk,      \* what a power loss may leave under it
    dir,       \* its directory: "none", "open" to others, or "private"
    temps,     \* names of temporary files: file, process and attempt
    pc,        \* where each process is
    name,      \* the file it saves
    new,       \* the contents it saves
    base,      \* auxiliary: the file its contents were made from
    setting,   \* the setting it changes
    attempt,   \* its temporary file
    synced,    \* its temporary file is on disk
    invalid,   \* processes that were told a file is invalid
    reported,  \* auxiliary: the file a save reported, until it is replaced
    faults

localVars == <<name, new, base, setting, attempt, synced>>
vars == <<files, disk, dir, temps, pc, localVars, invalid, reported, faults>>

FilesInit ==
    /\ files = [f \in FileNames |-> NoFile]
    /\ disk = [f \in FileNames |-> {NoFile}]
    /\ dir = [f \in FileNames |-> "none"]
    /\ temps = {}
    /\ pc = [p \in Procs |-> "idle"]
    /\ name = [p \in Procs |-> "config"]
    /\ new = [p \in Procs |-> <<>>]
    /\ base = [p \in Procs |-> NoFile]
    /\ setting = [p \in Procs |-> "none"]
    /\ attempt = [p \in Procs |-> NoTemp]
    /\ synced = [p \in Procs |-> FALSE]
    /\ invalid = {}
    /\ reported = [f \in FileNames |-> NoFile]
    /\ faults = 0

\* ConfigStore::load and HistoryStore::list: no file is a default.
LoadConfig ==
    IF files["config"].there THEN ParseConfig(files["config"].data)
    ELSE [kind |-> "config", config |-> DefaultConfig]
ListHistory ==
    IF files["history"].there THEN DecodeHistory(files["history"].data)
    ELSE [kind |-> "history", entries |-> <<>>]

Step(p, from, to) == pc[p] = from /\ pc' = [pc EXCEPT ![p] = to]

\* The locals of p that are not needed after the rename.
Reset(p) ==
    /\ new' = [new EXCEPT ![p] = <<>>]
    /\ base' = [base EXCEPT ![p] = NoFile]
    /\ setting' = [setting EXCEPT ![p] = "none"]
    /\ attempt' = [attempt EXCEPT ![p] = NoTemp]
    /\ synced' = [synced EXCEPT ![p] = FALSE]

\* The operation of p is over.
Finish(p) ==
    /\ pc' = [pc EXCEPT ![p] = "idle"]
    /\ name' = [name EXCEPT ![p] = "config"]
    /\ Reset(p)
    /\ UNCHANGED invalid

\* p saves contents under f.
BeginSave(p, f, contents, n) ==
    /\ Step(p, "idle", "prepare")
    /\ name' = [name EXCEPT ![p] = f]
    /\ new' = [new EXCEPT ![p] = contents]
    /\ base' = [base EXCEPT ![p] = files[f]]
    /\ setting' = [setting EXCEPT ![p] = n]
    /\ UNCHANGED <<attempt, synced, invalid>>

-----------------------------------------------------------------------------
(* The commands.                                                           *)

\* Nothing is changed; p reports what is wrong with the file, if anything is.
Refuse(p, loaded) ==
    /\ invalid' = IF loaded = Rejected THEN invalid \cup {p} ELSE invalid
    /\ UNCHANGED <<pc, localVars>>

\* `config list`, `config get` and `history`.
Show(p, loaded) ==
    /\ pc[p] = "idle"
    /\ Refuse(p, loaded)
    /\ UNCHANGED <<files, disk, dir, temps, reported, faults>>

\* Fault: the other setting is the default, not what the file says.
ConfigSet_FromDefault(p, n, v) ==
    /\ pc[p] = "idle"
    /\ IF LoadConfig = Rejected \/ ~ValidValue(n, v) THEN Refuse(p, LoadConfig)
       ELSE BeginSave(p, "config", EncodeConfig([DefaultConfig EXCEPT ![n] = v]), n)
    /\ UNCHANGED <<files, disk, dir, temps, reported, faults>>

\* `config set`: load, change one setting, save.
ConfigSet(p, n, v) ==
    /\ pc[p] = "idle"
    /\ IF LoadConfig = Rejected \/ ~ValidValue(n, v) THEN Refuse(p, LoadConfig)
       ELSE BeginSave(p, "config", EncodeConfig([LoadConfig.config EXCEPT ![n] = v]), n)
    /\ UNCHANGED <<files, disk, dir, temps, reported, faults>>

\* HistoryStore::append: validate, list, push, drop the oldest, save.
AppendEntry(e) ==
    LET all == Append(ListHistory.entries, e)
        kept == SubSeq(all, Len(all) - MaxEntries + 1, Len(all))
    IN /\ pc[Agent] = "idle"
       /\ IF ListHistory = Rejected \/ ~ValidEntry(e) THEN Refuse(Agent, ListHistory)
          ELSE BeginSave(Agent, "history",
                         EncodeHistory(IF Len(all) > MaxEntries THEN kept ELSE all), "none")
       /\ UNCHANGED <<files, disk, dir, temps, reported, faults>>

\* The histories that can be saved; what history.rs encodes it decodes again.
Histories == UNION {[1 .. n -> {e \in Entries : ValidEntry(e)}] : n \in 0 .. MaxEntries}
HistoryRoundTrips ==
    \A es \in Histories :
        DecodeHistory(EncodeHistory(es)) = [kind |-> "history", entries |-> es]

-----------------------------------------------------------------------------
(* save, the same code for both files.                                     *)

TempName(p, a) == <<name[p], p, a>>
Used(p) == {a \in 1 .. Attempts : TempName(p, a) \in temps}

\* Fault: the mode of an existing directory is not looked at.
PrepareDirectory_AnyMode(p) ==
    /\ pc[p] = "prepare" /\ name[p] = "config"
    /\ \/ /\ dir["config"] = "none"
          /\ Step(p, "prepare", "protect")
          /\ \E mode \in {"open", "private"} : dir' = [dir EXCEPT !["config"] = mode]
          /\ UNCHANGED <<localVars, invalid>>
       \/ /\ dir["config"] # "none"
          /\ Step(p, "prepare", "create")
          /\ UNCHANGED <<dir, localVars, invalid>>
    /\ UNCHANGED <<files, disk, temps, reported, faults>>

\* ensure_private_directory of config.rs.  A new directory has the mode umask
\* gives and is protected in a second call; one that is open is refused.
PrepareDirectory(p) ==
    /\ pc[p] = "prepare" /\ name[p] = "config"
    /\ \/ /\ dir["config"] = "none"
          /\ Step(p, "prepare", "protect")
          /\ \E mode \in {"open", "private"} : dir' = [dir EXCEPT !["config"] = mode]
          /\ UNCHANGED <<localVars, invalid>>
       \/ /\ dir["config"] = "private"
          /\ Step(p, "prepare", "create")
          /\ UNCHANGED <<dir, localVars, invalid>>
       \/ /\ dir["config"] = "open"
          /\ Finish(p)
          /\ UNCHANGED dir
    /\ UNCHANGED <<files, disk, temps, reported, faults>>

ProtectDirectory(p) ==
    /\ Step(p, "protect", "create")
    /\ dir' = [dir EXCEPT ![name[p]] = "private"]
    /\ UNCHANGED <<files, disk, temps, localVars, invalid, reported, faults>>

\* ensure_private_directory of history.rs: made private, or protected.
PrepareHistory(p) ==
    /\ Step(p, "prepare", "create") /\ name[p] = "history"
    /\ dir' = [dir EXCEPT !["history"] = "private"]
    /\ UNCHANGED <<files, disk, temps, localVars, invalid, reported, faults>>

\* create_temporary_file: the first name that is free.
CreateTemporary(p) ==
    /\ pc[p] = "create"
    /\ IF Used(p) = 1 .. Attempts
       THEN Finish(p) /\ UNCHANGED temps
       ELSE LET a == CHOOSE a \in 1 .. Attempts \ Used(p) :
                       \A b \in 1 .. Attempts \ Used(p) : a <= b
            IN /\ Step(p, "create", "sync")
               /\ attempt' = [attempt EXCEPT ![p] = a]
               /\ temps' = temps \cup {TempName(p, a)}
               /\ UNCHANGED <<name, new, base, setting, synced, invalid>>
    /\ UNCHANGED <<files, disk, dir, reported, faults>>

\* Fault: the contents are left in the cache.
WriteAndSync_NoSync(p) ==
    /\ Step(p, "sync", "rename")
    /\ UNCHANGED <<files, disk, dir, temps, localVars, invalid, reported, faults>>

\* Write the contents and sync_all.
WriteAndSync(p) ==
    /\ Step(p, "sync", "rename")
    /\ synced' = [synced EXCEPT ![p] = TRUE]
    /\ UNCHANGED <<files, disk, dir, temps, name, new, base, setting, attempt, invalid,
                   reported, faults>>

Rename(p) ==
    LET f == name[p]
        file == FileOf(new[p], synced[p])
    IN /\ Step(p, "rename", "syncdir")
       /\ files' = [files EXCEPT ![f] = file]
       /\ disk' = [disk EXCEPT ![f] = @ \cup {file}]
       /\ temps' = temps \ {TempName(p, attempt[p])}
       /\ reported' = [reported EXCEPT ![f] = NoFile]
       /\ Reset(p)
       /\ UNCHANGED <<dir, name, invalid, faults>>

\* Fault: the directory is not synced.
SaveReturns_NoSync(p) ==
    /\ pc[p] = "syncdir"
    /\ reported' = [reported EXCEPT ![name[p]] = files[name[p]]]
    /\ Finish(p)
    /\ UNCHANGED <<files, disk, dir, temps, faults>>

\* The directory is synced with whatever has the name by now.
SaveReturns(p) ==
    /\ pc[p] = "syncdir"
    /\ disk' = [disk EXCEPT ![name[p]] = {files[name[p]]}]
    /\ reported' = [reported EXCEPT ![name[p]] = files[name[p]]]
    /\ Finish(p)
    /\ UNCHANGED <<files, dir, temps, faults>>

\* A step fails, and the temporary file is removed.  When it is the sync of the
\* directory, the new contents are in their place and the error is returned.
SaveFails(p) ==
    /\ pc[p] \in {"prepare", "protect", "create", "sync", "rename", "syncdir"}
    /\ temps' = temps \ {TempName(p, attempt[p])}
    /\ Finish(p)
    /\ UNCHANGED <<files, disk, dir, reported, faults>>

-----------------------------------------------------------------------------
(* Faults.                                                                 *)

\* p is killed; the next process may have its identifier.
Dies(p) ==
    /\ pc[p] # "idle" /\ faults < MaxFaults
    /\ faults' = faults + 1
    /\ Finish(p)
    /\ UNCHANGED <<files, disk, dir, temps, reported>>

\* Contents that were not synced are cut anywhere.
Leftovers(file) ==
    IF file.synced THEN {file}
    ELSE {FileOf(part, TRUE) : part \in Prefixes(file.data)}

PowerLoss ==
    /\ faults < MaxFaults
    /\ faults' = faults + 1
    /\ \E config \in UNION {Leftovers(x) : x \in disk["config"]},
          history \in UNION {Leftovers(x) : x \in disk["history"]} :
         files' = [f \in FileNames |-> IF f = "config" THEN config ELSE history]
    /\ disk' = [f \in FileNames |-> {files'[f]}]
    /\ pc' = [p \in Procs |-> "idle"]
    /\ name' = [p \in Procs |-> "config"]
    /\ new' = [p \in Procs |-> <<>>]
    /\ base' = [p \in Procs |-> NoFile]
    /\ setting' = [p \in Procs |-> "none"]
    /\ attempt' = [p \in Procs |-> NoTemp]
    /\ synced' = [p \in Procs |-> FALSE]
    /\ UNCHANGED <<dir, temps, invalid, reported>>

FilesNext ==
    \/ \E p \in Clis : \/ \E loaded \in {LoadConfig, ListHistory} : Show(p, loaded)
                       \/ \E n \in SettingNames : \E v \in Values[n] : ConfigSet(p, n, v)
    \/ \E e \in Entries : AppendEntry(e)
    \/ \E p \in Procs : \/ PrepareDirectory(p) \/ ProtectDirectory(p) \/ PrepareHistory(p)
                        \/ CreateTemporary(p) \/ WriteAndSync(p) \/ Rename(p)
                        \/ SaveReturns(p) \/ SaveFails(p) \/ Dies(p)
    \/ PowerLoss

FilesSpec == FilesInit /\ [][FilesNext]_vars

-----------------------------------------------------------------------------
(* Properties.                                                             *)

\* "atomically saves": whatever dies when, both files can be loaded, and nobody
\* is ever told that they are invalid.
FilesReadable ==
    /\ LoadConfig # Rejected /\ ListHistory # Rejected
    /\ invalid = {}

\* What a save reported is there after any crash and power loss, until another
\* save replaces it.
SavedSurvives == \A f \in FileNames : reported[f].there => files[f] = reported[f]

\* No file, not even a temporary one, is ever in a directory others can read,
\* also when a process died before it had protected a directory it made.
DirectoriesPrivate ==
    \A f \in FileNames : files[f].there \/ (\E t \in temps : t[1] = f) => dir[f] = "private"

\* `config set` of one setting keeps the value the other one had when the file
\* was loaded; only a change that was made between its load and its rename
\* is lost.
SetTouchesOneSetting ==
    [][\A p \in Clis : Step(p, "rename", "syncdir") /\ files["config"] = base[p] =>
         \A n \in SettingNames \ {setting[p]} :
           LoadConfig'.config[n] = LoadConfig.config[n]]_vars
=============================================================================
