SPECIFICATION FairBilling
CONSTANTS
    MaxSubs = 2
    MaxCustomers = 2
    PaidPlans = {pro}
    DefaultPlan = free
    OtherPrice = other
    MaxTime = 2
    Workers = {w1}
    Requests = {r1, r2}
    MaxEvents = 3
    MaxFailures = 1
    MaxPerTime = 1
    Overlapping = FALSE
INVARIANTS
    BillingTypeOK
    PlansArePaidFor
PROPERTIES
    BookIsKept
    EventsSettle
CHECK_DEADLOCK FALSE
