SPECIFICATION Spec
CONSTANTS
    Invoices = {i1, i2}
    Payments = {p1}
    Quotes = {q1}
    Reqs = {r1, r2}
    MaxAmount = 1
    QuoteTotal = 1
    MaxRows = 3
    NoInvoice = NoInvoice
    NoPayment = NoPayment
    NoQuote = NoQuote
    Crowd = TRUE
    Outages = TRUE
CHECK_DEADLOCK FALSE
SYMMETRY Symmetry
INVARIANTS TypeOK LinkedIsIssued
