SPECIFICATION StoreSpec
CONSTANTS
    Procs = {p1, p2}
    KeyIds = {i1, i2}
    NoKeyId = NoKeyId
    MaxFaults = 2
SYMMETRY Symmetry
INVARIANTS
    RecordsWhole
    CreatedSurvives
    DeletedStaysDeleted
    ListFailsOnlyForDelete
