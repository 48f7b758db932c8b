SPECIFICATION Spec
CONSTANTS
    None = None
    Method = {"ADDRESS_REQUEST", "DIRECT", "MODERATED"}
    Slow <- SlowTypes
    Resent <- Repeated
    ResentIn <- Waiting
    Crashing <- Restarting
    MaxCalls = 2
    MaxDirect = 1
    MaxOffline = 2
    MaxCrashes = 1
    MaxRepeats = 1
INVARIANTS
    TypeOK
    RecordsAreBacked
    SettledByAgreement
    PayoutHappened
CHECK_DEADLOCK FALSE
