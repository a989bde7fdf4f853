SPECIFICATION Spec
CONSTANTS
    Entries = {e1, e2}
    Loans = {1}
    Expenses = {x1, x2}
    Keys = {k1, k2}
    ProjectKeys = {k1}
    MaxAmount = 2
    Reqs = {r1, r2}
    NoEntry = NoEntry
    NoLoan = NoLoan
    NoExpense = NoExpense
    NoKey = NoKey
    NoReq = NoReq
    Overlap = FALSE
SYMMETRY Symmetry
INVARIANTS TypeOK LoanConserved PaidHasExpense NoOrphan OwnExpense
CHECK_DEADLOCK FALSE
