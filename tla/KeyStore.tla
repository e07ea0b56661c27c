------------------------------ MODULE KeyStore ------------------------------
(***************************************************************************)
(* The directory of wrapped keys: KeyStore::save, list and delete, called  *)
(* by the command line tool and the agent from several processes without   *)
(* any lock between them, with processes that die and a machine that loses *)
(* power.  HistoryStore and ConfigStore write their files the same way.    *)
(*                                                                         *)
(* A record is written to a temporary file, synced, renamed to its place   *)
(* and the directory is synced.  A file is "torn" while it lacks contents, *)
(* "cached" when they are only in memory, and "whole" once they are on     *)
(* disk.  decode and validate_record accept exactly a complete record.     *)
(* A left-over .tmp file is never looked at again and is not kept here.    *)
(***************************************************************************)
EXTENDS Naturals

CONSTANTS Procs,      \* processes that use the store
          KeyIds,     \* identifiers; each names the one key it was made for
          NoKeyId,
          MaxFaults   \* bound: deaths of processes and power losses

ASSUME StoreAssumption == NoKeyId \notin KeyIds /\ MaxFaults \in Nat

VARIABLES
    entry,    \* the file under <id>.key, or "none"
    onDisk,   \* what a power loss may leave under <id>.key
    temp,     \* the temporary file of each process
    pc,       \* where each process is
    arg,      \* the key it creates or deletes, NoKeyId when it only lists
    seen,     \* entries its listing has come to
    reading,  \* the entry it reads
    always,   \* auxiliary: entries present since its listing began
    ever,     \* auxiliary: entries present at some time since then
    outcome,  \* how its last operation ended
    born,     \* auxiliary: keys that were given to save
    saved,    \* auxiliary: keys whose save returned Ok
    doomed,   \* auxiliary: keys that were given to delete
    deleted,  \* auxiliary: keys whose delete returned Ok
    faults

fileVars == <<entry, onDisk, temp>>
scanVars == <<seen, reading, always, ever>>
auxiliary == <<born, saved, doomed, deleted>>
storeVars == <<fileVars, pc, arg, scanVars, outcome, auxiliary, faults>>

Files == {"none", "torn", "cached", "whole"}

\* One type invariant for the store and the processes that use it.
StoreTypeOK ==
    /\ entry \in [KeyIds -> Files]
    /\ onDisk \in [KeyIds -> SUBSET Files]
    /\ temp \in [Procs -> Files]
    /\ pc \in [Procs -> {"idle", "write", "sync", "rename", "syncdir", "scan",
                         "read", "delete", "syncdelete"}]
    /\ arg \in [Procs -> KeyIds \cup {NoKeyId}]
    /\ seen \in [Procs -> SUBSET KeyIds]
    /\ reading \in [Procs -> KeyIds \cup {NoKeyId}]
    /\ always \in [Procs -> SUBSET KeyIds]
    /\ ever \in [Procs -> SUBSET KeyIds]
    /\ outcome \in [Procs -> {"none", "ok", "error", "vanished", "invalid"}]
    /\ {born, saved, doomed, deleted} \subseteq SUBSET KeyIds
    /\ faults \in 0 .. MaxFaults

StoreInit ==
    /\ entry = [i \in KeyIds |-> "none"]
    /\ onDisk = [i \in KeyIds |-> {"none"}]
    /\ temp = [p \in Procs |-> "none"]
    /\ pc = [p \in Procs |-> "idle"]
    /\ arg = [p \in Procs |-> NoKeyId]
    /\ seen = [p \in Procs |-> {}]
    /\ reading = [p \in Procs |-> NoKeyId]
    /\ always = [p \in Procs |-> {}]
    /\ ever = [p \in Procs |-> {}]
    /\ outcome = [p \in Procs |-> "none"]
    /\ born = {} /\ saved = {} /\ doomed = {} /\ deleted = {}
    /\ faults = 0

Present == {i \in KeyIds : entry[i] # "none"}

Step(p, from, to) == pc[p] = from /\ pc' = [pc EXCEPT ![p] = to]

\* The operation of p is over; its locals are gone.
Finish(p, result) ==
    /\ pc' = [pc EXCEPT ![p] = "idle"]
    /\ outcome' = [outcome EXCEPT ![p] = result]
    /\ arg' = [arg EXCEPT ![p] = NoKeyId]
    /\ seen' = [seen EXCEPT ![p] = {}]

\* A listing of p is over, however it ended.
EndScan(p) == /\ always' = [always EXCEPT ![p] = {}]
              /\ ever' = [ever EXCEPT ![p] = {}]

\* The file under <id>.key becomes f; until the directory is synced a power
\* loss may leave what was there before.
SetEntry(i, f) ==
    /\ entry' = [entry EXCEPT ![i] = f]
    /\ onDisk' = [onDisk EXCEPT ![i] = @ \cup {f}]
    /\ always' = [p \in Procs |-> IF f = "none" THEN always[p] \ {i} ELSE always[p]]
    /\ ever' = [p \in Procs |-> IF f = "none" \/ pc[p] \notin {"scan", "read"}
                                THEN ever[p] ELSE ever[p] \cup {i}]

\* Fault: the directory is opened and not synced.
SyncDirectory_Skipped == UNCHANGED onDisk

\* sync_directory: what is in the directory now is what a power loss leaves.
SyncDirectory == onDisk' = [i \in KeyIds |-> {entry[i]}]

-----------------------------------------------------------------------------
(* save, called by `keyvisor key create`.                                  *)

\* Fault: the record is written in place, under its final name.
CreateKey_InPlace(p, i) ==
    /\ Step(p, "idle", "write")
    /\ i \notin born
    /\ born' = born \cup {i}
    /\ arg' = [arg EXCEPT ![p] = i]
    /\ SetEntry(i, "torn")
    /\ outcome' = [outcome EXCEPT ![p] = "none"]
    /\ UNCHANGED <<temp, seen, reading, saved, doomed, deleted, faults>>

\* The TPM makes a key with a name of its own; save validates the record,
\* prepares the directory and finds a free temporary name.
CreateKey(p, i) ==
    /\ Step(p, "idle", "write")
    /\ i \notin born
    /\ born' = born \cup {i}
    /\ arg' = [arg EXCEPT ![p] = i]
    /\ temp' = [temp EXCEPT ![p] = "torn"]
    /\ outcome' = [outcome EXCEPT ![p] = "none"]
    /\ UNCHANGED <<entry, onDisk, scanVars, saved, doomed, deleted, faults>>

WriteRecord(p) ==
    /\ Step(p, "write", "sync")
    /\ temp' = [temp EXCEPT ![p] = "cached"]
    /\ UNCHANGED <<entry, onDisk, arg, scanVars, outcome, auxiliary, faults>>

\* Fault: the contents are left in the cache.
SyncRecord_Skipped(p) ==
    /\ Step(p, "sync", "rename")
    /\ UNCHANGED <<fileVars, arg, scanVars, outcome, auxiliary, faults>>

SyncRecord(p) ==
    /\ Step(p, "sync", "rename")
    /\ temp' = [temp EXCEPT ![p] = "whole"]
    /\ UNCHANGED <<entry, onDisk, arg, scanVars, outcome, auxiliary, faults>>

RenameRecord(p) ==
    /\ Step(p, "rename", "syncdir")
    /\ SetEntry(arg[p], temp[p])
    /\ temp' = [temp EXCEPT ![p] = "none"]
    /\ UNCHANGED <<arg, seen, reading, outcome, auxiliary, faults>>

SaveReturns(p) ==
    /\ pc[p] = "syncdir"
    /\ SyncDirectory
    /\ saved' = saved \cup {arg[p]}
    /\ Finish(p, "ok")
    /\ UNCHANGED <<entry, temp, reading, always, ever, born, doomed, deleted, faults>>

\* A step of save fails: the temporary file is removed and the error is
\* returned.  After the rename there is none, and the record stays.
SaveFails(p) ==
    /\ pc[p] \in {"write", "sync", "rename", "syncdir"}
    /\ temp' = [temp EXCEPT ![p] = "none"]
    /\ Finish(p, "error")
    /\ UNCHANGED <<entry, onDisk, reading, always, ever, auxiliary, faults>>

-----------------------------------------------------------------------------
(* list, called by the agent, by `keyvisor key list` and, through find_key, *)
(* before every delete.                                                     *)

\* read_dir; i is NoKeyId, or the key that is to be deleted.
ListBegins(p, i) ==
    /\ Step(p, "idle", "scan")
    /\ arg' = [arg EXCEPT ![p] = i]
    /\ seen' = [seen EXCEPT ![p] = {}]
    /\ reading' = [reading EXCEPT ![p] = NoKeyId]
    /\ always' = [always EXCEPT ![p] = Present]
    /\ ever' = [ever EXCEPT ![p] = Present]
    /\ outcome' = [outcome EXCEPT ![p] = "none"]
    /\ UNCHANGED <<fileVars, auxiliary, faults>>

\* The directory stream comes to an entry with the extension .key.  It returns
\* every entry that is there all the time, and those that come or go may be
\* returned too, even when they are gone by now.
ScanEntry(p) ==
    /\ Step(p, "scan", "read")
    /\ \E i \in ever[p] \ seen[p] :
          /\ reading' = [reading EXCEPT ![p] = i]
          /\ seen' = [seen EXCEPT ![p] = @ \cup {i}]
    /\ UNCHANGED <<fileVars, arg, always, ever, outcome, auxiliary, faults>>

\* file_type, read and decode: a record that is gone or does not decode fails
\* the whole listing.
ReadRecord(p) ==
    /\ pc[p] = "read"
    /\ \/ entry[reading[p]] = "none" /\ Finish(p, "vanished") /\ EndScan(p)
       \/ entry[reading[p]] = "torn" /\ Finish(p, "invalid") /\ EndScan(p)
       \/ /\ entry[reading[p]] \in {"cached", "whole"}
          /\ pc' = [pc EXCEPT ![p] = "scan"]
          /\ UNCHANGED <<arg, seen, always, ever, outcome>>
    /\ UNCHANGED <<fileVars, reading, auxiliary, faults>>

\* The listing is complete; a delete goes on if its key is listed.
ListReturns(p) ==
    /\ pc[p] = "scan"
    /\ always[p] \subseteq seen[p]
    /\ \/ /\ arg[p] = NoKeyId
          /\ Finish(p, "ok")
          /\ UNCHANGED doomed
       \/ /\ arg[p] \in KeyIds \ seen[p]
          /\ Finish(p, "error")
          /\ UNCHANGED doomed
       \/ /\ arg[p] \in seen[p]
          /\ pc' = [pc EXCEPT ![p] = "delete"]
          /\ seen' = [seen EXCEPT ![p] = {}]
          /\ doomed' = doomed \cup {arg[p]}
          /\ UNCHANGED <<arg, outcome>>
    /\ EndScan(p)
    /\ reading' = [reading EXCEPT ![p] = NoKeyId]
    /\ UNCHANGED <<fileVars, born, saved, deleted, faults>>

-----------------------------------------------------------------------------
(* delete, called by `keyvisor key delete` after the confirmation.         *)

\* symlink_metadata and remove_file fail when somebody else was faster.
DeleteRecord(p) ==
    /\ pc[p] = "delete"
    /\ \/ /\ entry[arg[p]] # "none"
          /\ SetEntry(arg[p], "none")
          /\ pc' = [pc EXCEPT ![p] = "syncdelete"]
          /\ UNCHANGED <<arg, seen, outcome>>
       \/ /\ entry[arg[p]] = "none"
          /\ Finish(p, "error")
          /\ UNCHANGED <<entry, onDisk, always, ever>>
    /\ UNCHANGED <<temp, reading, auxiliary, faults>>

DeleteReturns(p) ==
    /\ pc[p] = "syncdelete"
    /\ SyncDirectory
    /\ deleted' = deleted \cup {arg[p]}
    /\ Finish(p, "ok")
    /\ UNCHANGED <<entry, temp, reading, always, ever, born, saved, doomed, faults>>

\* The user declines, or a step fails.
DeleteFails(p) ==
    /\ pc[p] \in {"delete", "syncdelete"}
    /\ Finish(p, "error")
    /\ UNCHANGED <<fileVars, reading, always, ever, auxiliary, faults>>

-----------------------------------------------------------------------------

\* A process dies between two steps; its temporary file is litter.
Crash(p) ==
    /\ pc[p] # "idle"
    /\ faults < MaxFaults
    /\ faults' = faults + 1
    /\ temp' = [temp EXCEPT ![p] = "none"]
    /\ Finish(p, "none")
    /\ EndScan(p)
    /\ reading' = [reading EXCEPT ![p] = NoKeyId]
    /\ UNCHANGED <<entry, onDisk, auxiliary>>

\* The machine loses power: an entry is what was synced or something newer,
\* and contents that were not synced may be incomplete.
PowerLoss ==
    /\ faults < MaxFaults
    /\ faults' = faults + 1
    /\ \E left \in [KeyIds -> Files] :
         /\ \A i \in KeyIds : \/ left[i] \in onDisk[i] \ {"cached"}
                              \/ "cached" \in onDisk[i] /\ left[i] \in {"torn", "whole"}
         /\ entry' = left
         /\ onDisk' = [i \in KeyIds |-> {left[i]}]
    /\ temp' = [p \in Procs |-> "none"]
    /\ pc' = [p \in Procs |-> "idle"]
    /\ outcome' = [p \in Procs |-> "none"]
    /\ arg' = [p \in Procs |-> NoKeyId]
    /\ seen' = [p \in Procs |-> {}]
    /\ reading' = [p \in Procs |-> NoKeyId]
    /\ always' = [p \in Procs |-> {}]
    /\ ever' = [p \in Procs |-> {}]
    /\ UNCHANGED auxiliary

StoreNext ==
    \/ \E p \in Procs :
         \/ \E i \in KeyIds : CreateKey(p, i)
         \/ WriteRecord(p) \/ SyncRecord(p) \/ RenameRecord(p) \/ SaveReturns(p)
         \/ SaveFails(p)
         \/ \E i \in KeyIds \cup {NoKeyId} : ListBegins(p, i)
         \/ ScanEntry(p) \/ ReadRecord(p) \/ ListReturns(p)
         \/ DeleteRecord(p) \/ DeleteReturns(p) \/ DeleteFails(p)
         \/ Crash(p)
    \/ PowerLoss

StoreSpec == StoreInit /\ [][StoreNext]_storeVars

-----------------------------------------------------------------------------
(* Properties.                                                             *)

\* "otherwise power loss can expose a partially committed key record": it does
\* not.  Whatever dies when, a name in the directory has a complete record, so
\* one unlucky creation never makes every later listing fail.
RecordsWhole == \A i \in KeyIds : entry[i] # "torn"

\* A key whose creation was reported is there after any crash and power loss,
\* until somebody deletes it.
CreatedSurvives == \A i \in saved \ doomed : entry[i] = "whole"

\* A key whose deletion was reported does not come back with the power.
DeletedStaysDeleted == \A i \in deleted : entry[i] = "none"

\* A listing fails only for a record somebody else is deleting: creations,
\* crashes and left-overs never disturb the agent.
ListFailsOnlyForDelete ==
    \A p \in Procs : outcome[p] \in {"vanished", "invalid"} => reading[p] \in doomed

-----------------------------------------------------------------------------
(* What the properties rest on, for the proofs.                            *)

\* A save that has not yet renamed its file.
Unplaced == {"write", "sync", "rename"}

\* No file that was not synced ever gets a name in the directory.
NamesSynced ==
    \A i \in KeyIds : entry[i] \in onDisk[i] /\ onDisk[i] \subseteq {"none", "whole"}

\* Nobody knows of a key before its record has its place.
KeysFresh ==
    /\ \A i \in KeyIds \ born : onDisk[i] = {"none"} /\ i \notin saved \cup doomed
    /\ \A p \in Procs : pc[p] \in Unplaced =>
          /\ arg[p] \in born \ (saved \cup doomed)
          /\ onDisk[arg[p]] = {"none"}
          /\ pc[p] = "rename" => temp[p] = "whole"
    /\ \A p, q \in Procs : (pc[p] \in Unplaced /\ pc[q] \in Unplaced /\ p # q)
                             => arg[p] # arg[q]

\* A placed record is there until its key is given to delete.
SavePlaced ==
    \A p \in Procs : pc[p] = "syncdir" =>
        arg[p] \in born /\ (arg[p] \in doomed \/ entry[arg[p]] = "whole")

DeleteDoomed ==
    \A p \in Procs : /\ pc[p] \in {"delete", "syncdelete"} => arg[p] \in doomed
                     /\ pc[p] = "syncdelete" => entry[arg[p]] = "none"

\* What was reported is what every power loss leaves.
ReportsDurable ==
    /\ \A i \in saved \ doomed : onDisk[i] = {"whole"}
    /\ \A i \in deleted : i \in doomed /\ onDisk[i] = {"none"}

\* What a listing may come to is there or was given to delete, and a listing
\* that goes on has not failed.
ListingJustified ==
    \A p \in Procs : /\ seen[p] \subseteq ever[p]
                     /\ \A i \in ever[p] : i \in doomed \/ entry[i] # "none"
                     /\ pc[p] = "read" => reading[p] \in ever[p]
                     /\ pc[p] \in {"scan", "read"} => outcome[p] = "none"

\* The inductive invariant.
StoreInv ==
    /\ StoreTypeOK /\ NamesSynced /\ KeysFresh /\ SavePlaced /\ DeleteDoomed
    /\ ReportsDurable /\ ListingJustified /\ ListFailsOnlyForDelete
=============================================================================
