\* Two instances racing over one check: ticks fail, statements interleave.
SPECIFICATION FairDetectionSpec
CONSTANTS
    Schedules <- CronOnly
    Grace = 2
    Checks = {c1}
    Servers = {s1, s2}
    BatchSize = 1
    MaxBatches = 2
    MaxFailures = 1
    MaxIncidents = 2
    MaxTime = 4
INVARIANTS
    DetectionTypeOK
    OneOpenIncident
PROPERTIES
    NoFalseAlarm
    NoIncidentForHealthyCheck
    EverythingIsNoticed
