SPECIFICATION Spec
CONSTANTS
    g1 = g1
    g2 = g2
    d1 = d1
    d2 = d2
    message = message
    policy = policy
    GrantID = {g1, g2}
    Device = {d1, d2}
    Capability = {message, policy}
    DeviceOf <- Devices
    CapabilitiesOf <- Masks
    MaxKnownRecords = 3
    None = None
    Faults = TRUE
    Reopens = FALSE
INVARIANTS
    TypeOK
    AnswersSurvive
    AuthorityIsBacked
    ReopenAgrees
PROPERTIES
    ImplementsAuthority
