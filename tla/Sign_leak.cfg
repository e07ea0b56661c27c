SPECIFICATION PathSpec
CONSTANTS
    Pins = {"p1", "p2"}
    MaxTries = 1
    MaxFaults = 1
    MaxPacket = 160
    MaxText = 2
    MaxBlob = 2
    MaxEntries = 2
    MinTimeout = 1
    MaxTimeout = 3
    Packets <- MCPackets
    Records <- MCRecords
    Scalars <- MCScalars
    Blob <- MCBlob
    Secret <- MCSecret
CHECK_DEADLOCK FALSE
PROPERTY AlwaysReleased
