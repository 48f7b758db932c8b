SPECIFICATION Spec
CONSTANTS
    c1 = c1
    c2 = c2
    RefId = {r1, r2, r3, r4}
    Root = {c1, c2}
    Length <- Lengths
    Declared = {1, 2}
    ImportLimit = {2}
    MaxReferences = 3
    MaxLogicalBytes = 4
    None = None
    Faults = TRUE
    Reopens = FALSE
SYMMETRY Symmetry
INVARIANTS
    TypeOK
    ReadyPinned
    NeverCorrupt
    ReportsAreDurable
    PinsAreClaimed
    QuotaExact
