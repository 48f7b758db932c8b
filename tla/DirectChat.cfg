SPECIFICATION Spec
CONSTANTS
    ana = ana
    bea = bea
    Peer = {ana, bea}
    Worker = {w1, w2}
    Stream = {s1, s2}
    Subject = {none}
    NoSubject = none
    NoId = NoId
    NoStream = NoStream
    Ops <- ChatOps
    MaxEnvelopes <- ChatBound
    MaxRemoved = 1
    MaxCrashes = 1
    Faults = TRUE
INVARIANTS
    TypeOK
    AppliedOnce
PROPERTIES
    ImplementsCourier
CHECK_DEADLOCK FALSE
