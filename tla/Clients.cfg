SPECIFICATION ClientsSpec
CONSTANTS
    Jobs = {shared, apart, exotic}
    Unsupported = {exotic}
    PerInstance = {apart}
    SingleRun = {}
    Instances = {i1, i2}
    Named = {i1, i2}
    MaxFaults = 1
    Host = i1
    Listings = {{shared, apart, exotic}, {shared}}
    MaxDiscoveries = 2
    ForkAnyTime = FALSE
    Releases = {{shared, apart, exotic}, {apart}}
    MaxDeploys = 2
    JobThreads = {t1, t2}
    QueueCapacity = 1
    MaxHeartbeats = 4
    PyJobs = {shared, apart}
    PyCapacity = 1
    MaxReports = 3
    MaxRegisters = 1
    LaravelTasks = {shared, apart}
    MaxRuns = 4
    Scheduled = {shared, apart}
    MaxEntries = 3
    MaxField = 9
    MaxDepth = 2
    MaxTokens = 8
    MaxEnvironment = 4
    MaxName = 4
    BeatTasks = {shared, apart}
    Executions = {e1}
    MaxEdits = 2
    MaxAttempts = 2
    ReadsMayFail = FALSE
    ApJobs = {shared}
    MaxJobEdits = 2
    MaxSubmissions = 2
    SlowReads = FALSE
INVARIANTS
    ClientsTypeOK
    DeclarationsAreSound
    DeclaredMeansWatched
    
PROPERTIES
    DeclaresAsSoonAsItCan
    NoStepIsRepeated
CHECK_DEADLOCK FALSE
