SPECIFICATION AgentSpec
CONSTANTS
    Clients = {w1, w2}
    Controls = {}
    Keys = {kPin, kFree}
    NoKey = NoKey
    Pins = {pGood}
    NoPin = NoPin
    MaxRequests = 2
    Graphical = FALSE
    NoClient = NoClient
    MaxConnections = 2
    PinKeys = {kPin}
    CorrectPin = pGood
    Kinds = {"sign"}
    Churn = {}
    PollMayFail = FALSE
    HistoryEnabled = FALSE
    MaxHistory = 1
    MaxPackets = 2
    MaxPipeline = 1
    MaxClock = 1
PROPERTIES
    DisconnectEndsPrompt
    TpmNotHeldByPrompt
    RequestsAnswered
