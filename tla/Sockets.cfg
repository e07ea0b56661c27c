SPECIFICATION SocketSafety
CONSTANTS
    Agents = {a1, a2, a3}
    NoAgent = NoAgent
    MaxInodes = 4
SYMMETRY AgentSymmetry
INVARIANTS
    SocketsKept
