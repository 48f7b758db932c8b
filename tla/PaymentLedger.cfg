SPECIFICATION Spec
CONSTANTS
    ana = ana
    bea = bea
    r1 = r1
    r2 = r2
    c1 = c1
    c2 = c2
    Peer = {ana, bea}
    Request = {r1, r2}
    Status = {c1, c2}
    IdOf <- Ids
    NonceOf <- Nonces
    PayerOf <- Payers
    PayeeOf <- Payees
    EventOf <- Events
    Stream = {s1, s2}
    Idle = Idle
    Faults = TRUE
SYMMETRY Symmetry
INVARIANTS
    TypeOK
    ChecksSuffice
PROPERTIES
    AcceptedForGood
    QuietAfterClose
    ImplementsLedger
