SPECIFICATION Spec
CONSTANTS
    i1 = i1
    j1 = j1
    j2 = j2
    l1 = l1
    m1 = m1
    p1 = p1
    r1 = r1
    r2 = r2
    NoImport = NoImport
    NoLine = NoLine
    NoPrice = NoPrice
    NoMaterial = NoMaterial
    NoJob = NoJob
    Imports = {i1}
    Lines = {l1}
    Prices = {p1}
    Materials = {m1}
    Jobs = {j1, j2}
    Reqs = {r1, r2}
    Attempts = 2
    Outages = TRUE
SYMMETRY Symmetry
INVARIANTS
    TypeOK
    PriceIsOfLine
CHECK_DEADLOCK FALSE
