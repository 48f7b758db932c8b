SPECIFICATION FairSpec
CONSTANTS
    c1 = c1
    c2 = c2
    c3 = c3
    Peer = {1, 2}
    BitBook = {1, 2}
    Answering = {2}
    Provider = {}
    Conn = {c1, c2, c3}
    PeerOf <- Peers
    Prober = {w1}
    Handler = {h1}
    Capacity = 1
    ConnectedLimit = 2
    RoundBudget = 1
    Idle = Idle
PROPERTIES
    PeersAreFound
CHECK_DEADLOCK FALSE
