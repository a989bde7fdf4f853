SPECIFICATION FairSpec
CONSTANTS
    d1 = d1
    e1 = e1
    e2 = e2
    r1 = r1
    r2 = r2
    NoDoc = NoDoc
    NoEcf = NoEcf
    Docs = {d1}
    Ecfs = {e1, e2}
    Reqs = {r1, r2}
    Amounts = {1}
    LostReplies = FALSE
    Restarts = FALSE
INVARIANTS
    EmittedOnce
    ReservedWhileAtWork
PROPERTIES
    ClaimEnds
CHECK_DEADLOCK FALSE
