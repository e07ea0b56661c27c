SPECIFICATION AgentSpec
CONSTANTS
    Clients = {w1, w2}
    Controls = {}
    Keys = {kPin}
    NoKey = NoKey
    Pins = {pGood}
    NoPin = NoPin
    MaxRequests = 2
    Graphical = TRUE
    NoClient = NoClient
    MaxConnections = 1
    PinKeys = {kPin}
    CorrectPin = pGood
    Kinds = {"sign", "identities", "bad length", "malformed", "bad flags"}
    Churn = {kPin}
    PollMayFail = TRUE
    HistoryEnabled = TRUE
    MaxHistory = 1
    MaxPackets = 2
    MaxPipeline = 1
    MaxClock = 0
INVARIANTS
    PendingWithinLimit
    HistoryNewest
    PermitsExact
    NoLostWakeup

    
