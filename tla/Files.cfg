SPECIFICATION FilesSpec
CONSTANTS
    MaxPacket = 10
    MaxText = 1
    MaxBlob = 1
    MaxEntries = 1
    MinTimeout = 1
    MaxTimeout = 3
    Clis = {c1, c2}
    Agent = a
    Values <- MCValues
    Entries <- MCEntries
    Attempts = 1
    MaxFaults = 1
SYMMETRY Symmetry
INVARIANTS
    FilesReadable
    SavedSurvives
    DirectoriesPrivate
PROPERTIES
    SetTouchesOneSetting
