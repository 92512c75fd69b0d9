SPECIFICATION Spec
CONSTANTS
    r1 = r1
    r2 = r2
    r3 = r3
    k1 = k1
    k2 = k2
    Worker = {w1, w2}
    Quote = {1, 2, 3}
    Revision = {r1, r2, r3}
    QuoteOf <- MCQuoteOf
    OfRFQ = {1, 2, 3}
    PageSize = 2
    WithBuyer = {2}
    Key = {k1, k2}
    Quantity = {2}
    LineSets <- MCLineSets
    Sent = {r1, r3}
    StartItems <- MCStartItems
    NoQuote = NoQuote
    NoRevision = NoRevision
    Closed = Closed
    MaxItems = 4
    MaxCalls = 3
    MaxTries = 1
SYMMETRY Workers
INVARIANTS TypeOK OneAccepted
PROPERTIES AcceptanceIsWhole RejectedForAccepted
\* Requests are bounded, so all may be done.
CHECK_DEADLOCK FALSE
