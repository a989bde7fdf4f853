SPECIFICATION FairSpec
CONSTANTS
    i1 = i1
    j1 = j1
    j2 = j2
    l1 = l1
    l2 = l2
    m1 = m1
    p1 = p1
    p2 = p2
    r1 = r1
    NoImport = NoImport
    NoLine = NoLine
    NoPrice = NoPrice
    NoMaterial = NoMaterial
    NoJob = NoJob
    Imports = {i1}
    Lines = {l1, l2}
    Prices = {p1, p2}
    Materials = {m1}
    Jobs = {j1, j2}
    Reqs = {r1}
    Attempts = 2
    Outages = FALSE
INVARIANTS
    OnePricePerLine
    ApprovedHasPrice
    NoneApprovedIsReread
PROPERTIES
    ApprovedIsFinal
    ProcessingEnds
    PendingEnds
CHECK_DEADLOCK FALSE
