SPECIFICATION FairSpec
CONSTANTS
    Peer = {ana}
    Field = {about}
    Value = {blank, new}
    Blank = blank
    Slug = {hello}
    Worker = {w1}
    Republisher = republisher
    MaxTime = 2
    MaxChanges = 1
    MaxCrashes = 0
    Faults = FALSE
PROPERTIES
    NeverRolledBack
