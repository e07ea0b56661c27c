SPECIFICATION BrokerSpec
CONSTANTS
    Clients = {w1}
    Controls = {c1, c2}
    Keys = {k1, k2}
    NoKey = NoKey
    Pins = {p1, p2}
    NoPin = NoPin
    MaxRequests = 2
    Graphical = TRUE
INVARIANTS
    PendingOwned
    NeverDisconnected
    PromptNamesTheKey
    AcceptedPinNotLost
    AuthorizerReaped
PROPERTIES
    ImplementsGate
    AuthorizeAnswered
