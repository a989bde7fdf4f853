SPECIFICATION FairSpec
CONSTANTS
    MaxTime = 4
    Hooks = {h1, h2}
    Staff = {s1}
    Overlap = FALSE
INVARIANT WaitingIsSeen
PROPERTY Attended
CHECK_DEADLOCK FALSE
