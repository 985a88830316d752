\* Ingestion: one instance and edits from elsewhere, two heartbeats at a time, a key that
\* is rotated, a connection that breaks. Alerting: one instance, one tick of which fails.
SPECIFICATION HeartbeatsSpec
CONSTANTS
    Servers = {s1}
    Instances = {s1}
    Requests = {r1, r2}
    ScheduleNames = {"hourly", "daily"}
    MaxKey = 2
    PositiveTtl = 2
    NegativeTtl = 1
    MaxPending = 1
    MaxBreaks = 1
    Schedules <- IntervalOnly
    Grace = 0
    Checks = {c1}
    BatchSize = 1
    MaxBatches = 1
    MaxFailures = 1
    MaxIncidents = 1
    MaxTime = 2
    Channels = {ch1}
    ClaimBatch = 1
    MaxAttempts = 1
    Lease = 1
    SendTimeout = 0
    BackoffBase = 1
    BackoffCap = 1
    Ceiling = 0
    Hour = 1
    MaxLosses = 0
SYMMETRY HeartbeatsSymmetry
INVARIANTS
    HeartbeatsTypeOK
    NothingIsMadeUp
PROPERTIES
    DeadlinesAreOfSchedules
