SPECIFICATION Spec
CONSTANTS
    d1 = d1
    e1 = e1
    e2 = e2
    r1 = r1
    NoDoc = NoDoc
    NoEcf = NoEcf
    Docs = {d1}
    Ecfs = {e1, e2}
    Reqs = {r1}
    Amounts = {1}
    LostReplies = TRUE
    Restarts = FALSE
INVARIANTS
    EmittedOnce
CHECK_DEADLOCK FALSE
