SPECIFICATION FairSpec
CONSTANTS
    Peer = {ana}
    Field = {about}
    Value = {blank, new}
    Blank = blank
    Slug = {hello}
    Worker = {w1, w2}
    Republisher = republisher
    MaxTime = 2
    MaxChanges = 2
    MaxCrashes = 1
    Faults = TRUE
INVARIANTS
    TypeOK
    CountsMatchLists
PROPERTIES
    PublishedCatchesUp
