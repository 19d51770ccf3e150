SPECIFICATION ProcessSpec
CONSTANTS
    Client = {c1, c2}
    Tcp = {t1}
    Setting <- MCSetting
    Network <- MCNetwork
    PeerAddress <- MCPeerAddress
    Interval = 3
    CloseTimeout = 3
    RestartDelay = 1
    ConfigRetryDelay = 3
    RoundTrip = 1
    MaxUpsets = 2
    None = None
INVARIANTS
    NeverWider
    PeersScreened
    GoneInTime
    ClientsGoneInTime
PROPERTIES
    LiveNeverCut
    ComesBack
