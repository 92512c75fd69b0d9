SPECIFICATION Spec
CONSTANTS
    Worker = {w1, w2}
    Invoice = {i1}
    Charge = {c1}
    Amount = 50
    Tax = {t1}
    Value = {100}
    Same = Same
    NoInvoice = NoInvoice
    MaxCalls = 4
    MaxTries = 1
PROPERTIES DeletionIsAtomic
\* Requests are bounded, so all may be done.
CHECK_DEADLOCK FALSE
