SPECIFICATION Spec
CONSTANTS
    ana = ana
    bea = bea
    Peer = {ana, bea}
    Worker = {w1}
    Stream = {s1}
    Subject = {none}
    NoSubject = none
    NoId = NoId
    NoStream = NoStream
    Ops <- ChatOps
    MaxEnvelopes <- ReadBound
    MaxRemoved = 1
    MaxCrashes = 0
    Faults = FALSE
INVARIANTS
    ReadIsBacked
    OwedIsCarried
CHECK_DEADLOCK FALSE
