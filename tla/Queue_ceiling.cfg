\* One instance with a ceiling of one alert per channel and hour: the ceiling
\* holds, and every queued alert is settled.
SPECIFICATION FairQueueSpec
CONSTANTS
    Incidents = {i1, i2}
    Channels = {ch1}
    Servers = {s1}
    ClaimBatch = 2
    MaxAttempts = 2
    Lease = 3
    SendTimeout = 1
    BackoffBase = 1
    BackoffCap = 2
    Ceiling = 1
    Hour = 2
    MaxLosses = 1
INVARIANTS
    CeilingHolds
PROPERTIES
    EveryAlertSettles
