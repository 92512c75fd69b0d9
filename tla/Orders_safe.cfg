SPECIFICATION Spec
CONSTANTS
    p1 = p1
    s1 = s1
    l1 = l1
    l2 = l2
    m1 = m1
    m2 = m2
    Worker = {w1, w2}
    Submitter = {w1, w2}
    PurchaseOrder = {p1}
    SalesOrder = {s1}
    PurchaseLine = {l1, l2}
    SalesLine = {m1, m2}
    PurchaseOrderOf <- MCPurchaseOrderOf
    SalesOrderOf <- MCSalesOrderOf
    Quantity = {0, 2}
    Fulfilment = {11, 12, 13, 14, 15}
    Waiting = {11, 12}
    Item = {1, 2, 3, 4}
    NoLine = NoLine
    NoItem = NoItem
    NoOrder = NoOrder
    Closed = Closed
    MaxCalls = 3
    MaxTries = 1
SYMMETRY Symmetric
INVARIANTS TypeOK
PROPERTIES SubmissionIsWhole AssignmentKept ReceivedTogether FulfilledBeforeSubmitted
\* Requests are bounded, so all may be done.
CHECK_DEADLOCK FALSE
