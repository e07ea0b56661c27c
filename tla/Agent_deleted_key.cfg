SPECIFICATION AgentSafety
CONSTANTS
    Clients = {w1}
    Controls = {c1}
    Keys = {kPin}
    NoKey = NoKey
    Pins = {pGood}
    NoPin = NoPin
    MaxRequests = 1
    Graphical = FALSE
    NoClient = NoClient
    MaxConnections = 1
    PinKeys = {kPin}
    CorrectPin = pGood
    Kinds = {"sign"}
    Churn = {kPin}
    PollMayFail = FALSE
    HistoryEnabled = FALSE
    MaxHistory = 1
    MaxPackets = 1
    MaxPipeline = 1
    MaxClock = 0
PROPERTY DeletedKeyUnused
