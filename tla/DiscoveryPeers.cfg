SPECIFICATION FairSpec
CONSTANTS
    c1 = c1
    c2 = c2
    c3 = c3
    Peer = {1, 2}
    BitBook = {1, 2}
    Answering = {2}
    Provider = {1, 2}
    Conn = {c1, c2, c3}
    PeerOf <- Peers
    Prober = {w1}
    Handler = {h1}
    Capacity = 1
    ConnectedLimit = 1
    RoundBudget = 2
    Idle = Idle
INVARIANTS
    TypeOK
    ConfirmedStaysConnected
PROPERTIES
    PeersAreFound
    CloseReturns
CHECK_DEADLOCK FALSE
