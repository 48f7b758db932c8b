SPECIFICATION FairSpec
CONSTANTS
    ana = ana
    bea = bea
    Peer = {ana, bea}
    Worker = {w1}
    Stream = {s1, s2}
    Subject = {none}
    NoSubject = none
    NoId = NoId
    NoStream = NoStream
    Ops <- TalkOps
    MaxEnvelopes <- SendBound
    MaxRemoved = 0
    MaxCrashes = 0
    Faults = FALSE
INVARIANTS
    FollowsAgree
    PromiseKept
PROPERTIES
    PromiseFulfilled
    CallsReturn
CHECK_DEADLOCK FALSE
