SPECIFICATION Spec
CONSTANTS
    Callers = {c1, c2}
    LastFd = 2
    Unused = Unused
    App = App
    NoOne = NoOne
SYMMETRY Symmetry
CHECK_DEADLOCK FALSE
INVARIANTS
    IInv
    HarmExplained
    EngineOnOwnSocket
    SocketsReleased
    RequestsApart
