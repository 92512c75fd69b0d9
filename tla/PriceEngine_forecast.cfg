SPECIFICATION Spec
CONSTANTS
    Price = {0, 1, 3, 9}
    RentalEnd <- MCRentalEnd
    MaxDays = 57
    NoEnd = NoEnd
INVARIANTS TypeOK CheapestCoverCharged LongerNeverCheaper TermIsCharged
\* The forecast ends.
CHECK_DEADLOCK FALSE
