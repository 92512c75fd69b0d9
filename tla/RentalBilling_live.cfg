SPECIFICATION FairSpec
CONSTANTS
    Worker = {w1, w2}
    MaxTime = 2
    MinDays = 1
    PeriodLength = 2
    CalendarDay <- MCCalendarDay
    StartDate = {0}
    EndDate = {2}
    DeliveryFee = FALSE
    JobConcurrency = 2
    PageSize = 2
    NoDate = NoDate
    NoJob = NoJob
    NoCharge = NoCharge
    Null = Null
    MaxRevisions = 2
    MaxJobs = 2
    MaxTries = 2
    MaxFaults = 1
PROPERTIES DueRentalIsCharged
\* The clock, the requests and the faults are bounded, so all may be done.
CHECK_DEADLOCK FALSE
