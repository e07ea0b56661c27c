SPECIFICATION AgentSafety
CONSTANTS
    Clients = {w1, w2}
    Controls = {c1}
    Keys = {kPin, kFree}
    NoKey = NoKey
    Pins = {pGood}
    NoPin = NoPin
    MaxRequests = 2
    Graphical = FALSE
    NoClient = NoClient
    MaxConnections = 2
    PinKeys = {kPin}
    CorrectPin = pGood
    Kinds = {"sign"}
    Churn = {}
    PollMayFail = FALSE
    HistoryEnabled = TRUE
    MaxHistory = 2
    MaxPackets = 2
    MaxPipeline = 2
    MaxClock = 0
SYMMETRY Symmetry
INVARIANTS
    PerUseAuthorization
    TpmExclusive
    OnlyDisconnectCancels
    HistoryNewest
