\* One instance, one tick of which fails.
SPECIFICATION FairAlertingSpec
CONSTANTS
    Schedules <- IntervalOnly
    Grace = 0
    Checks = {c1}
    Servers = {s1}
    BatchSize = 1
    MaxBatches = 1
    MaxFailures = 1
    MaxIncidents = 1
    MaxTime = 0
    Channels = {ch1}
    ClaimBatch = 1
    MaxAttempts = 1
    Lease = 1
    SendTimeout = 0
    BackoffBase = 1
    BackoffCap = 1
    Ceiling = 0
    Hour = 1
    MaxLosses = 0
PROPERTIES
    EveryIncidentIsRaised
