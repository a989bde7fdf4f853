SPECIFICATION Spec
CONSTANTS
    d1 = d1
    d2 = d2
    e1 = e1
    e2 = e2
    r1 = r1
    r2 = r2
    NoDoc = NoDoc
    NoEcf = NoEcf
    Docs = {d1, d2}
    Ecfs = {e1, e2}
    Reqs = {r1, r2}
    Amounts = {1}
    LostReplies = TRUE
    Restarts = TRUE
SYMMETRY Symmetry
INVARIANTS
    TypeOK
    ClaimExclusive
    IssuedIsBacked
    CreditNoteHasIssuedInvoice
    SentOnce
    EstadoNotAhead
PROPERTIES
    RefinesFiscalDocuments
CHECK_DEADLOCK FALSE
