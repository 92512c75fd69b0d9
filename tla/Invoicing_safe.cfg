SPECIFICATION Spec
CONSTANTS
    Worker = {w1, w2}
    Invoice = {i1, i2}
    Charge = {c1, c2}
    Amount = 50
    Tax = {t1}
    Value = {1, 200}
    Same = Same
    NoInvoice = NoInvoice
    MaxCalls = 5
    MaxTries = 1
SYMMETRY Symmetric
INVARIANTS TypeOK DraftLinesAreAllocated AllocatedIsOnInvoice DraftTotalOfAllocated
PROPERTIES OnlyDraftsDeleted
\* Requests are bounded, so all may be done.
CHECK_DEADLOCK FALSE
