SPECIFICATION SignUpSpec
CONSTANTS
    Modes = {"passkey"}
    Persons = {ada, bob, cyd, dee}
    Admin = ada
    Disposable = {}
    Connections = {c1}
    Visitors = {v1, v2}
    MaxPerAddress = 0
    MaxPerHour = 2
    MaxLinks = 2
    MaxSubmits = 3
    MayStop = TRUE
INVARIANT UnfinishedCanBeFinished
CHECK_DEADLOCK FALSE
