SPECIFICATION Spec
CONSTANTS
    Worker = {w1, w2}
    MaxTime = 3
    MinDays = 1
    PeriodLength = 2
    CalendarDay <- MCCalendarDay
    StartDate = {0, 1}
    EndDate = {3}
    DeliveryFee = TRUE
    JobConcurrency = 2
    PageSize = 2
    NoDate = NoDate
    NoJob = NoJob
    NoCharge = NoCharge
    Null = Null
    MaxRevisions = 2
    MaxJobs = 2
    MaxTries = 2
    MaxFaults = 1
SYMMETRY Workers
INVARIANTS TypeOK EveryDayBilledOnce TotalDaysCharged
PROPERTIES InvoicedChargesKept StartFixedOnceInvoiced NoRentAfterDelete
\* The clock, the requests and the faults are bounded, so all may be done.
CHECK_DEADLOCK FALSE
