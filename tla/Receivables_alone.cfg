SPECIFICATION Spec
CONSTANTS
    Invoices = {i1, i2, i3}
    Payments = {p1, p2}
    Quotes = {q1}
    Reqs = {r1}
    MaxAmount = 2
    QuoteTotal = 2
    MaxRows = 4
    NoInvoice = NoInvoice
    NoPayment = NoPayment
    NoQuote = NoQuote
    Crowd = FALSE
    Outages = FALSE
CHECK_DEADLOCK FALSE
SYMMETRY Symmetry
INVARIANTS InvoicedWithinQuote
PROPERTIES AppliedFits
