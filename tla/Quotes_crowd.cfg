SPECIFICATION Spec
CONSTANTS
    Quotes = {q1, q2}
    Families = {f1}
    MaxRevision = 2
    MaxReminders = 1
    Clients = {c1, c2}
    Reqs = {r1}
    NoQuote = NoQuote
    NoFamily = NoFamily
SYMMETRY Symmetry
INVARIANTS TypeOK SupersededByLater AnsweredOnce RemindersWithinMax
CHECK_DEADLOCK FALSE
