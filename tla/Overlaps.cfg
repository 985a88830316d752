\* Four people at one address, two sign-ins or two instances at a time.
SPECIFICATION OverlapsSpec
CONSTANTS
    Modes = {"passkey", "password", "full"}
    Persons = {ada, bob, cyd, dee}
    Admin = ada
    Disposable = {}
    Connections = {c1}
    Visitors = {r1, r2}
    MaxPerAddress = 1
    MaxPerHour = 2
    MaxLinks = 1
    MaxSubmits = 3
    MayStop = TRUE
    SignIns = {r1, r2}
    MaxFailed = 2
    LockFor = 2
    MaxSessions = 1
    CodesPerSet = 1
    MaxSets = 2
    MaxPasskeys = 2
    MaxTime = 2
    MaxLeft = 1
    OneAtATime = TRUE
    Incidents = {i1, i2}
    Channels = {ch1}
    Servers = {r1, r2}
    ClaimBatch = 2
    MaxAttempts = 2
    Lease = 3
    SendTimeout = 1
    BackoffBase = 1
    BackoffCap = 2
    Ceiling = 0
    Hour = 1
    MaxLosses = 1
SYMMETRY OverlapsSymmetry
INVARIANTS
    OverlapsTypeOK
    SignUpsAreSound
    ShutOut
    SignInsAreBounded
    SendsAreSound
PROPERTY
    OutcomesAreFinal
CHECK_DEADLOCK FALSE
