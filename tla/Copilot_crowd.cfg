SPECIFICATION CopilotSpec
CONSTANTS
    MaxTime = 3
    Hooks = {h1, h2}
    Staff = {s1, s2}
    Runs = {k1, k2}
    Overlap = TRUE
SYMMETRY Symmetry
INVARIANTS CountedOnce EscalatedOnce SuggestionSentOnce
CHECK_DEADLOCK FALSE
