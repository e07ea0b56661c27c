---------------------------- MODULE KeyStoreProofs ----------------------------
(***************************************************************************)
(* Proofs about KeyStore for any number of processes, keys and failures:   *)
(* a name in the directory always has a complete record, and what a save   *)
(* or a delete reported survives every crash and power loss.               *)
(***************************************************************************)
EXTENDS KeyStore, TLAPS

\* Nothing is stored and nobody is at work.
LEMMA StoreInitInv == StoreInit => StoreInv
  BY StoreAssumption DEF StoreInit, StoreInv, StoreTypeOK, NamesSynced,
     KeysFresh, SavePlaced, DeleteDoomed, ReportsDurable, ListingJustified,
     ListFailsOnlyForDelete, Files, Unplaced

\* A new key is nobody else's.
LEMMA CreateKeyInv ==
    ASSUME StoreInv, NEW p \in Procs, NEW i \in KeyIds, CreateKey(p, i)
    PROVE  StoreInv'
<1>u. UNCHANGED <<entry, onDisk, seen, reading, always, ever, saved, doomed,
   deleted, faults>>
  BY DEF CreateKey, scanVars
<1>1. StoreTypeOK'
  BY DEF StoreInv, StoreTypeOK, CreateKey, Step, scanVars, Files
<1>2. KeysFresh'
  BY DEF StoreInv, StoreTypeOK, CreateKey, Step, Unplaced, KeysFresh
<1>3. SavePlaced'
  BY DEF StoreInv, CreateKey, Step, SavePlaced
<1>4. DeleteDoomed'
  BY DEF StoreInv, CreateKey, Step, DeleteDoomed
<1>5. ListingJustified'
  BY DEF StoreInv, CreateKey, Step, scanVars, ListingJustified
<1>6. ListFailsOnlyForDelete'
  BY DEF StoreInv, CreateKey, scanVars, ListFailsOnlyForDelete
<1>7. (NamesSynced /\ ReportsDurable)'
  BY <1>u DEF StoreInv, NamesSynced, ReportsDurable
<1> QED
  BY <1>1, <1>2, <1>3, <1>4, <1>5, <1>6, <1>7 DEF StoreInv

\* Writing touches only the temporary file.
LEMMA WriteRecordInv ==
    ASSUME StoreInv, NEW p \in Procs, WriteRecord(p)
    PROVE  StoreInv'
<1>u. UNCHANGED <<entry, onDisk, arg, seen, reading, always, ever, outcome,
   born, saved, doomed, deleted, faults>>
  BY DEF WriteRecord, scanVars, auxiliary
<1>1. StoreTypeOK'
  BY DEF StoreInv, StoreTypeOK, WriteRecord, Step, scanVars, auxiliary, Files
<1>2. KeysFresh'
  BY DEF StoreInv, WriteRecord, Step, auxiliary, Unplaced, KeysFresh
<1>3. SavePlaced'
  BY DEF StoreInv, WriteRecord, Step, auxiliary, SavePlaced
<1>4. DeleteDoomed'
  BY DEF StoreInv, WriteRecord, Step, auxiliary, DeleteDoomed
<1>5. ListingJustified'
  BY DEF StoreInv, WriteRecord, Step, scanVars, auxiliary, ListingJustified
<1>6. (NamesSynced /\ ReportsDurable /\ ListFailsOnlyForDelete)'
  BY <1>u DEF StoreInv, NamesSynced, ReportsDurable, ListFailsOnlyForDelete
<1> QED
  BY <1>1, <1>2, <1>3, <1>4, <1>5, <1>6 DEF StoreInv

\* Before the rename the contents are on disk.
LEMMA SyncRecordInv ==
    ASSUME StoreInv, NEW p \in Procs, SyncRecord(p)
    PROVE  StoreInv'
<1>u. UNCHANGED <<entry, onDisk, arg, seen, reading, always, ever, outcome,
   born, saved, doomed, deleted, faults>>
  BY DEF SyncRecord, scanVars, auxiliary
<1>1. StoreTypeOK'
  BY DEF StoreInv, StoreTypeOK, SyncRecord, Step, scanVars, auxiliary, Files
<1>2. KeysFresh'
  BY DEF StoreInv, StoreTypeOK, SyncRecord, Step, auxiliary, Unplaced,
     KeysFresh
<1>3. SavePlaced'
  BY DEF StoreInv, SyncRecord, Step, auxiliary, SavePlaced
<1>4. DeleteDoomed'
  BY DEF StoreInv, SyncRecord, Step, auxiliary, DeleteDoomed
<1>5. ListingJustified'
  BY DEF StoreInv, SyncRecord, Step, scanVars, auxiliary, ListingJustified
<1>6. (NamesSynced /\ ReportsDurable /\ ListFailsOnlyForDelete)'
  BY <1>u DEF StoreInv, NamesSynced, ReportsDurable, ListFailsOnlyForDelete
<1> QED
  BY <1>1, <1>2, <1>3, <1>4, <1>5, <1>6 DEF StoreInv

\* The file that gets the name is whole, and nobody else has saved, deleted or
\* listed its key.
LEMMA RenameRecordInv ==
    ASSUME StoreInv, NEW p \in Procs, RenameRecord(p)
    PROVE  StoreInv'
<1>u. UNCHANGED <<arg, seen, reading, outcome, born, saved, doomed, deleted,
   faults>>
  BY DEF RenameRecord, auxiliary
<1>1. StoreTypeOK'
  BY DEF StoreInv, StoreTypeOK, RenameRecord, Step, SetEntry, auxiliary,
     Unplaced, KeysFresh
<1>2. NamesSynced'
  BY DEF StoreInv, StoreTypeOK, RenameRecord, Step, SetEntry, Unplaced,
     NamesSynced, KeysFresh
<1>3. KeysFresh'
  BY DEF StoreInv, StoreTypeOK, RenameRecord, Step, SetEntry, auxiliary,
     Unplaced, KeysFresh
<1>4. SavePlaced'
  BY DEF StoreInv, StoreTypeOK, RenameRecord, Step, SetEntry, auxiliary,
     Unplaced, KeysFresh, SavePlaced
<1>5. DeleteDoomed'
  BY DEF StoreInv, RenameRecord, Step, SetEntry, auxiliary, Unplaced,
     KeysFresh, DeleteDoomed
<1>6. ReportsDurable'
  BY DEF StoreInv, RenameRecord, Step, SetEntry, auxiliary, Unplaced,
     KeysFresh, ReportsDurable
<1>7. ListingJustified'
  BY DEF StoreInv, StoreTypeOK, RenameRecord, Step, SetEntry, auxiliary,
     Unplaced, KeysFresh, ListingJustified
<1>8. ListFailsOnlyForDelete'
  BY <1>u DEF StoreInv, ListFailsOnlyForDelete
<1> QED
  BY <1>1, <1>2, <1>3, <1>4, <1>5, <1>6, <1>7, <1>8 DEF StoreInv

\* What is reported as saved is in the directory and the directory is on disk.
LEMMA SaveReturnsInv ==
    ASSUME StoreInv, NEW p \in Procs, SaveReturns(p)
    PROVE  StoreInv'
<1>1. StoreTypeOK'
  BY DEF StoreInv, StoreTypeOK, SaveReturns, Finish, SyncDirectory, SavePlaced
<1>2. NamesSynced'
  BY DEF StoreInv, SaveReturns, SyncDirectory, NamesSynced
<1>3. KeysFresh'
  BY DEF StoreInv, StoreTypeOK, SaveReturns, Finish, SyncDirectory, Unplaced,
     NamesSynced, KeysFresh, SavePlaced
<1>4. SavePlaced'
  BY DEF StoreInv, StoreTypeOK, SaveReturns, Finish, SavePlaced
<1>5. DeleteDoomed'
  BY DEF StoreInv, SaveReturns, Finish, DeleteDoomed
<1>6. ReportsDurable'
  BY DEF StoreInv, StoreTypeOK, SaveReturns, SyncDirectory, NamesSynced,
     SavePlaced, ReportsDurable
<1>7. ListingJustified'
  BY DEF StoreInv, SaveReturns, Finish, ListingJustified
<1>8. ListFailsOnlyForDelete'
  BY DEF StoreInv, SaveReturns, Finish, ListFailsOnlyForDelete
<1> QED
  BY <1>1, <1>2, <1>3, <1>4, <1>5, <1>6, <1>7, <1>8 DEF StoreInv

\* A failed save leaves no temporary file and reports nothing.
LEMMA SaveFailsInv ==
    ASSUME StoreInv, NEW p \in Procs, SaveFails(p)
    PROVE  StoreInv'
<1>u. UNCHANGED <<entry, onDisk, reading, always, ever, born, saved, doomed,
   deleted, faults>>
  BY DEF SaveFails, auxiliary
<1>1. StoreTypeOK'
  BY DEF StoreInv, StoreTypeOK, SaveFails, Finish, auxiliary, Files
<1>2. KeysFresh'
  BY DEF StoreInv, StoreTypeOK, SaveFails, Finish, auxiliary, Unplaced,
     KeysFresh
<1>3. SavePlaced'
  BY DEF StoreInv, StoreTypeOK, SaveFails, Finish, auxiliary, SavePlaced
<1>4. DeleteDoomed'
  BY DEF StoreInv, SaveFails, Finish, auxiliary, DeleteDoomed
<1>5. ListingJustified'
  BY DEF StoreInv, SaveFails, Finish, auxiliary, ListingJustified
<1>6. ListFailsOnlyForDelete'
  BY DEF StoreInv, SaveFails, Finish, auxiliary, ListFailsOnlyForDelete
<1>7. (NamesSynced /\ ReportsDurable)'
  BY <1>u DEF StoreInv, NamesSynced, ReportsDurable
<1> QED
  BY <1>1, <1>2, <1>3, <1>4, <1>5, <1>6, <1>7 DEF StoreInv

\* A listing starts from what is there.
LEMMA ListBeginsInv ==
    ASSUME StoreInv, NEW p \in Procs, NEW i \in KeyIds \cup {NoKeyId}, ListBegins(p, i)
    PROVE  StoreInv'
<1>u. UNCHANGED <<entry, onDisk, temp, born, saved, doomed, deleted, faults>>
  BY DEF ListBegins, fileVars, auxiliary
<1>1. StoreTypeOK'
  BY DEF StoreInv, StoreTypeOK, ListBegins, Step, Present, fileVars, auxiliary
<1>2. KeysFresh'
  BY SMTT(60) DEF StoreInv, ListBegins, Step, fileVars, auxiliary, Unplaced, KeysFresh
<1>3. SavePlaced'
  BY DEF StoreInv, ListBegins, Step, fileVars, auxiliary, SavePlaced
<1>4. DeleteDoomed'
  BY DEF StoreInv, ListBegins, Step, fileVars, auxiliary, DeleteDoomed
<1>5. ListingJustified'
  BY DEF StoreInv, StoreTypeOK, ListBegins, Step, Present, fileVars,
     auxiliary, ListingJustified
<1>6. ListFailsOnlyForDelete'
  BY DEF StoreInv, StoreTypeOK, ListBegins, auxiliary, ListFailsOnlyForDelete
<1>7. (NamesSynced /\ ReportsDurable)'
  BY <1>u DEF StoreInv, NamesSynced, ReportsDurable
<1> QED
  BY <1>1, <1>2, <1>3, <1>4, <1>5, <1>6, <1>7 DEF StoreInv

\* It only comes to entries it may come to.
LEMMA ScanEntryInv ==
    ASSUME StoreInv, NEW p \in Procs, ScanEntry(p)
    PROVE  StoreInv'
<1>u. UNCHANGED <<entry, onDisk, temp, arg, always, ever, outcome, born,
   saved, doomed, deleted, faults>>
  BY DEF ScanEntry, fileVars, auxiliary
<1>1. StoreTypeOK'
  BY DEF StoreInv, StoreTypeOK, ScanEntry, Step, fileVars, auxiliary
<1>2. KeysFresh'
  BY DEF StoreInv, ScanEntry, Step, fileVars, auxiliary, Unplaced, KeysFresh
<1>3. SavePlaced'
  BY DEF StoreInv, ScanEntry, Step, fileVars, auxiliary, SavePlaced
<1>4. DeleteDoomed'
  BY DEF StoreInv, ScanEntry, Step, fileVars, auxiliary, DeleteDoomed
<1>5. ListingJustified'
  BY DEF StoreInv, StoreTypeOK, ScanEntry, Step, fileVars, auxiliary,
     ListingJustified
<1>6. ListFailsOnlyForDelete'
  BY DEF StoreInv, ScanEntry, Step, auxiliary, ListingJustified,
     ListFailsOnlyForDelete
<1>7. (NamesSynced /\ ReportsDurable)'
  BY <1>u DEF StoreInv, NamesSynced, ReportsDurable
<1> QED
  BY <1>1, <1>2, <1>3, <1>4, <1>5, <1>6, <1>7 DEF StoreInv

\* A record that cannot be read is gone, and so was given to delete.
LEMMA ReadRecordInv ==
    ASSUME StoreInv, NEW p \in Procs, ReadRecord(p)
    PROVE  StoreInv'
<1>u. UNCHANGED <<entry, onDisk, temp, reading, born, saved, doomed, deleted,
   faults>>
  BY DEF ReadRecord, fileVars, auxiliary
<1>1. StoreTypeOK'
  <2>1. CASE entry[reading[p]] = "none"
    BY <2>1 DEF StoreInv, StoreTypeOK, ReadRecord, Finish, EndScan, fileVars,
       auxiliary
  <2>2. CASE entry[reading[p]] = "torn"
    BY <2>2 DEF StoreInv, StoreTypeOK, ReadRecord, Finish, EndScan, fileVars,
       auxiliary
  <2>3. CASE entry[reading[p]] \in {"cached", "whole"}
    BY <2>3 DEF StoreInv, StoreTypeOK, ReadRecord, fileVars, auxiliary
  <2> QED
    BY <2>1, <2>2, <2>3 DEF ReadRecord
<1>2. KeysFresh'
  BY DEF StoreInv, StoreTypeOK, ReadRecord, Finish, fileVars, auxiliary,
     Unplaced, KeysFresh
<1>3. SavePlaced'
  BY DEF StoreInv, StoreTypeOK, ReadRecord, Finish, fileVars, auxiliary,
     SavePlaced
<1>4. DeleteDoomed'
  BY DEF StoreInv, StoreTypeOK, ReadRecord, Finish, fileVars, auxiliary,
     DeleteDoomed
<1>5. ListingJustified'
  BY DEF StoreInv, StoreTypeOK, ReadRecord, Finish, EndScan, fileVars,
     auxiliary, ListingJustified
<1>6. ListFailsOnlyForDelete'
  BY DEF StoreInv, StoreTypeOK, ReadRecord, Finish, auxiliary, NamesSynced,
     ListingJustified, ListFailsOnlyForDelete
<1>7. (NamesSynced /\ ReportsDurable)'
  BY <1>u DEF StoreInv, NamesSynced, ReportsDurable
<1> QED
  BY <1>1, <1>2, <1>3, <1>4, <1>5, <1>6, <1>7 DEF StoreInv

\* A key is given to delete only after it was listed, so its save is past the
\* rename.
LEMMA ListReturnsInv ==
    ASSUME StoreInv, NEW p \in Procs, ListReturns(p)
    PROVE  StoreInv'
<1>u. UNCHANGED <<entry, onDisk, temp, born, saved, deleted, faults>>
  BY DEF ListReturns, fileVars
<1>1. StoreTypeOK'
  <2>1. CASE arg[p] = NoKeyId
    BY <2>1 DEF StoreInv, StoreTypeOK, ListReturns, Finish, EndScan, fileVars
  <2>2. CASE arg[p] \in KeyIds \ seen[p]
    BY <2>2 DEF StoreInv, StoreTypeOK, ListReturns, Finish, EndScan, fileVars
  <2>3. CASE arg[p] \in seen[p]
    BY <2>3 DEF StoreInv, StoreTypeOK, ListReturns, Finish, EndScan, fileVars
  <2> QED
    BY <2>1, <2>2, <2>3 DEF ListReturns
<1>2. KeysFresh'
  BY DEF StoreInv, StoreTypeOK, ListReturns, Finish, fileVars, Unplaced,
     NamesSynced, KeysFresh, ListingJustified
<1>3. SavePlaced'
  BY DEF StoreInv, StoreTypeOK, ListReturns, Finish, fileVars, SavePlaced
<1>4. DeleteDoomed'
  BY DEF StoreInv, StoreTypeOK, ListReturns, Finish, fileVars, DeleteDoomed
<1>5. ReportsDurable'
  BY DEF StoreInv, ListReturns, fileVars, ReportsDurable
<1>6. ListingJustified'
  BY DEF StoreInv, StoreTypeOK, ListReturns, Finish, EndScan, fileVars,
     ListingJustified
<1>7. ListFailsOnlyForDelete'
  BY DEF StoreInv, StoreTypeOK, ListReturns, Finish, ListingJustified,
     ListFailsOnlyForDelete
<1>8. NamesSynced'
  BY <1>u DEF StoreInv, NamesSynced
<1> QED
  BY <1>1, <1>2, <1>3, <1>4, <1>5, <1>6, <1>7, <1>8 DEF StoreInv

\* Only a key that was given to delete loses its entry.
LEMMA DeleteRecordInv ==
    ASSUME StoreInv, NEW p \in Procs, DeleteRecord(p)
    PROVE  StoreInv'
<1>1. StoreTypeOK'
  BY SMTT(60) DEF StoreInv, StoreTypeOK, DeleteRecord, Finish, SetEntry, auxiliary,
     Files
<1>2. NamesSynced'
  BY DEF StoreInv, StoreTypeOK, DeleteRecord, SetEntry, NamesSynced
<1>3. KeysFresh'
  <2>1. CASE entry[arg[p]] # "none"
    BY SMTT(60), <2>1 DEF StoreInv, StoreTypeOK, DeleteRecord, SetEntry, auxiliary,
       Unplaced, KeysFresh
  <2>2. CASE entry[arg[p]] = "none"
    BY <2>2 DEF StoreInv, StoreTypeOK, DeleteRecord, Finish, auxiliary,
       Unplaced, KeysFresh
  <2> QED
    BY <2>1, <2>2
<1>4. SavePlaced'
  BY DEF StoreInv, StoreTypeOK, DeleteRecord, Finish, SetEntry, auxiliary,
     SavePlaced, DeleteDoomed
<1>5. DeleteDoomed'
  BY DEF StoreInv, StoreTypeOK, DeleteRecord, Finish, SetEntry, auxiliary,
     DeleteDoomed
<1>6. ReportsDurable'
  <2>1. CASE entry[arg[p]] # "none"
    BY <2>1 DEF StoreInv, StoreTypeOK, DeleteRecord, SetEntry, auxiliary,
       DeleteDoomed, ReportsDurable
  <2>2. CASE entry[arg[p]] = "none"
    BY <2>2 DEF StoreInv, DeleteRecord, auxiliary, ReportsDurable
  <2> QED
    BY <2>1, <2>2
<1>7. ListingJustified'
  BY DEF StoreInv, StoreTypeOK, DeleteRecord, Finish, SetEntry, auxiliary,
     DeleteDoomed, ListingJustified
<1>8. ListFailsOnlyForDelete'
  BY DEF StoreInv, StoreTypeOK, DeleteRecord, Finish, auxiliary,
     ListFailsOnlyForDelete
<1> QED
  BY <1>1, <1>2, <1>3, <1>4, <1>5, <1>6, <1>7, <1>8 DEF StoreInv

\* What is reported as deleted is not in the directory and the directory is on
\* disk.
LEMMA DeleteReturnsInv ==
    ASSUME StoreInv, NEW p \in Procs, DeleteReturns(p)
    PROVE  StoreInv'
<1>1. StoreTypeOK'
  BY DEF StoreInv, StoreTypeOK, DeleteReturns, Finish, SyncDirectory,
     DeleteDoomed
<1>2. NamesSynced'
  BY DEF StoreInv, DeleteReturns, SyncDirectory, NamesSynced
<1>3. KeysFresh'
  BY DEF StoreInv, StoreTypeOK, DeleteReturns, Finish, SyncDirectory,
     Unplaced, NamesSynced, KeysFresh
<1>4. SavePlaced'
  BY DEF StoreInv, DeleteReturns, Finish, SavePlaced
<1>5. DeleteDoomed'
  BY DEF StoreInv, StoreTypeOK, DeleteReturns, Finish, DeleteDoomed
<1>6. ReportsDurable'
  BY DEF StoreInv, StoreTypeOK, DeleteReturns, SyncDirectory, NamesSynced,
     DeleteDoomed, ReportsDurable
<1>7. ListingJustified'
  BY DEF StoreInv, DeleteReturns, Finish, ListingJustified
<1>8. ListFailsOnlyForDelete'
  BY DEF StoreInv, DeleteReturns, Finish, ListFailsOnlyForDelete
<1> QED
  BY <1>1, <1>2, <1>3, <1>4, <1>5, <1>6, <1>7, <1>8 DEF StoreInv

\* A failed delete reports nothing.
LEMMA DeleteFailsInv ==
    ASSUME StoreInv, NEW p \in Procs, DeleteFails(p)
    PROVE  StoreInv'
<1>u. UNCHANGED <<entry, onDisk, temp, reading, always, ever, born, saved,
   doomed, deleted, faults>>
  BY DEF DeleteFails, fileVars, auxiliary
<1>1. StoreTypeOK'
  BY DEF StoreInv, StoreTypeOK, DeleteFails, Finish, fileVars, auxiliary
<1>2. KeysFresh'
  BY DEF StoreInv, DeleteFails, Finish, fileVars, auxiliary, Unplaced,
     KeysFresh
<1>3. SavePlaced'
  BY DEF StoreInv, DeleteFails, Finish, fileVars, auxiliary, SavePlaced
<1>4. DeleteDoomed'
  BY DEF StoreInv, StoreTypeOK, DeleteFails, Finish, fileVars, auxiliary,
     DeleteDoomed
<1>5. ListingJustified'
  BY DEF StoreInv, DeleteFails, Finish, fileVars, auxiliary, ListingJustified
<1>6. ListFailsOnlyForDelete'
  BY DEF StoreInv, DeleteFails, Finish, auxiliary, ListFailsOnlyForDelete
<1>7. (NamesSynced /\ ReportsDurable)'
  BY <1>u DEF StoreInv, NamesSynced, ReportsDurable
<1> QED
  BY <1>1, <1>2, <1>3, <1>4, <1>5, <1>6, <1>7 DEF StoreInv

\* A process that dies takes only its own state with it.
LEMMA CrashInv ==
    ASSUME StoreInv, NEW p \in Procs, Crash(p)
    PROVE  StoreInv'
<1>u. UNCHANGED <<entry, onDisk, born, saved, doomed, deleted>>
  BY DEF Crash, auxiliary
<1>1. StoreTypeOK'
  BY StoreAssumption DEF StoreInv, StoreTypeOK, Crash, Finish, EndScan,
     auxiliary, Files
<1>2. KeysFresh'
  BY DEF StoreInv, StoreTypeOK, Crash, Finish, auxiliary, Unplaced, KeysFresh
<1>3. SavePlaced'
  BY DEF StoreInv, StoreTypeOK, Crash, Finish, auxiliary, SavePlaced
<1>4. DeleteDoomed'
  BY DEF StoreInv, StoreTypeOK, Crash, Finish, auxiliary, DeleteDoomed
<1>5. ListingJustified'
  BY DEF StoreInv, StoreTypeOK, Crash, Finish, EndScan, auxiliary,
     ListingJustified
<1>6. ListFailsOnlyForDelete'
  BY DEF StoreInv, StoreTypeOK, Crash, Finish, auxiliary,
     ListFailsOnlyForDelete
<1>7. (NamesSynced /\ ReportsDurable)'
  BY <1>u DEF StoreInv, NamesSynced, ReportsDurable
<1> QED
  BY <1>1, <1>2, <1>3, <1>4, <1>5, <1>6, <1>7 DEF StoreInv

\* A power loss chooses among files that are all whole or absent, and leaves
\* what was reported.
LEMMA PowerLossInv ==
    ASSUME StoreInv, PowerLoss
    PROVE  StoreInv'
<1>u. UNCHANGED <<born, saved, doomed, deleted>>
  BY DEF PowerLoss, auxiliary
<1>1. StoreTypeOK'
  BY StoreAssumption DEF StoreInv, StoreTypeOK, PowerLoss, auxiliary, Files
<1>2. NamesSynced'
  BY DEF StoreInv, PowerLoss, NamesSynced
<1>3. KeysFresh'
  BY DEF StoreInv, PowerLoss, auxiliary, Unplaced, KeysFresh
<1>4. SavePlaced'
  BY DEF PowerLoss, SavePlaced
<1>5. DeleteDoomed'
  BY DEF PowerLoss, DeleteDoomed
<1>6. ReportsDurable'
  <2>1. PICK left \in [KeyIds -> Files] :
         /\ \A i \in KeyIds : \/ left[i] \in onDisk[i] \ {"cached"}
                              \/ "cached" \in onDisk[i] /\ left[i] \in {"torn", "whole"}
         /\ onDisk' = [i \in KeyIds |-> {left[i]}]
    BY DEF PowerLoss
  <2>2. \A i \in KeyIds : left[i] \in onDisk[i] /\ onDisk'[i] = {left[i]}
    BY <2>1 DEF StoreInv, NamesSynced
  <2>3. \A i \in saved \cup deleted : i \in KeyIds
    BY DEF StoreInv, StoreTypeOK
  <2>4. ReportsDurable'
    BY <1>u, <2>2, <2>3 DEF StoreInv, ReportsDurable
  <2> QED
    BY <2>1, <2>2, <2>3, <2>4
<1>7. ListingJustified'
  BY DEF PowerLoss, ListingJustified
<1>8. ListFailsOnlyForDelete'
  BY DEF PowerLoss, ListFailsOnlyForDelete
<1> QED
  BY <1>1, <1>2, <1>3, <1>4, <1>5, <1>6, <1>7, <1>8 DEF StoreInv

\* The invariant holds whatever processes do at the same time, die or lose, for
\* any number of processes, keys and failures.
THEOREM StoreInvariance == StoreSpec => []StoreInv
<1>1. StoreInit => StoreInv
  BY StoreInitInv
<1>2. StoreInv /\ [StoreNext]_storeVars => StoreInv'
  <2> SUFFICES ASSUME StoreInv, [StoreNext]_storeVars PROVE StoreInv'
    OBVIOUS
  <2>1. CASE StoreNext
    BY <2>1, CreateKeyInv, WriteRecordInv, SyncRecordInv, RenameRecordInv,
       SaveReturnsInv, SaveFailsInv, ListBeginsInv, ScanEntryInv,
       ReadRecordInv, ListReturnsInv, DeleteRecordInv,
       DeleteReturnsInv, DeleteFailsInv, CrashInv, PowerLossInv DEF StoreNext
  <2>2. CASE UNCHANGED storeVars
    BY <2>2 DEF storeVars, fileVars, scanVars, auxiliary, StoreInv,
       StoreTypeOK, NamesSynced, KeysFresh, SavePlaced, DeleteDoomed,
       ReportsDurable, ListingJustified, ListFailsOnlyForDelete
  <2> QED
    BY <2>1, <2>2
<1> QED
  BY <1>1, <1>2, PTL DEF StoreSpec

\* Type correctness of the store.
THEOREM StoreTypeCorrect == StoreSpec => []StoreTypeOK
<1>1. StoreInv => StoreTypeOK
  BY DEF StoreInv
<1> QED
  BY <1>1, StoreInvariance, PTL

\* A power loss or a crash never exposes a partial record: write, sync, rename
\* and directory sync of KeyStore::save are in the right order.
THEOREM StoreRecordsWhole == StoreSpec => []RecordsWhole
<1>1. StoreInv => RecordsWhole
  BY DEF StoreInv, NamesSynced, RecordsWhole
<1> QED
  BY <1>1, StoreInvariance, PTL

\* A key whose save returned Ok is there until it is given to delete.
THEOREM StoreCreatedSurvives == StoreSpec => []CreatedSurvives
<1>1. StoreInv => CreatedSurvives
  BY DEF StoreInv, StoreTypeOK, NamesSynced, ReportsDurable, CreatedSurvives
<1> QED
  BY <1>1, StoreInvariance, PTL

\* A key whose delete returned Ok never comes back.
THEOREM StoreDeletedStaysDeleted == StoreSpec => []DeletedStaysDeleted
<1>1. StoreInv => DeletedStaysDeleted
  BY DEF StoreInv, StoreTypeOK, NamesSynced, ReportsDurable,
     DeletedStaysDeleted
<1> QED
  BY <1>1, StoreInvariance, PTL

\* A listing fails only for a record that is being deleted.
THEOREM StoreListFailsOnlyForDelete == StoreSpec => []ListFailsOnlyForDelete
<1>1. StoreInv => ListFailsOnlyForDelete
  BY DEF StoreInv
<1> QED
  BY <1>1, StoreInvariance, PTL
=============================================================================
