SPECIFICATION Spec
CONSTANTS
    Worker = {w1, w2}
    Fulfilment = {f1, f2}
    Item = {i1}
    Ordered = {i1}
    Date = {1, 3}
    CreatedAt = 2
    NoDate = NoDate
    NoItem = NoItem
    None = None
    MaxCalls = 3
    MaxTries = 1
SYMMETRY Symmetric
INVARIANTS TypeOK BookedTwiceByRaceOnly
PROPERTIES AssignedAsReserved NothingHalfAssigned OnlyUnassignReleases OthersNotUndone
\* Requests are bounded, so all may be done.
CHECK_DEADLOCK FALSE
