SPECIFICATION Spec
CONSTANTS
    Worker = {w1, w2}
    Fulfilment = {f1, f2}
    Item = {i1}
    Ordered = {}
    Date = {1, 2}
    CreatedAt = 0
    NoDate = NoDate
    NoItem = NoItem
    None = None
    MaxCalls = 2
    MaxTries = 0
INVARIANTS NotBookedTwice
\* Requests are bounded, so all may be done.
CHECK_DEADLOCK FALSE
