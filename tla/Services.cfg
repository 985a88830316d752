\* One small instance of each service.
SPECIFICATION ServicesSpec
CONSTANTS
    Keys = {n1, n2}
    Envs = {production, staging}
    Callers = {r1, r2}
    Limit = 2
    MaxClock = 1
    LockTimesOut = FALSE
    ProjectIds = {p1, p2, p3}
    ApiKeys = {n1, n2}
    Actors = {r1, r2}
    MaxProjects = 2
    MaxLiveKeys = 1
    Alone = {"remove", "key", "account"}
    MaxChecks = 2
    Servers = {s1}
    Requests = {r1, r2}
    Limits = {1, 2}
    MaxChanges = 2
    MaxLosses = 1
    ClientKeys = {n1, n2, n3}
    HitLimit = 2
    WindowSpan = 3
    MaxWindows = 2
    MaxMoment = 6
    DefaultDays = 2
    Settings = {0, 1}
    Caps = {0, 1}
    DeliveryDays = 2
    RowsPerBatch = 1
    MaxBatch = 2
    Outages = {i1}
    LongestOutage = 2
    LastDay = 4
    Flushers = {r1, r2}
    MaxTicks = 3
    MaxBeats = 7
    FetchBeats = 1
    FirstTickEnds = TRUE
    ChannelIds = {n1, n2}
    Askers = {r1, r2}
    MaxChannels = 1
    Cooldown = 1
    TestBudget = 1
    HourLength = 2
    MaxTick = 3
    MaxUnrecorded = 1
    StoredChannels = {1, 2}
    Runs = {r1, r2}
    LastKey = 2
    ResealBatch = 1
    AllowPrivate = FALSE
    Provider = "smtp"
    IdleLimit = 2
    MaxAnswers = 1
    Writes = {r1, r2, w3}
    People = {ada}
    MaxKnown = 0
    PageLimit = 1
    KeepDays = 0
    LastAuditDay = 1
    Shown = {p1, p2}
    LastCheck = 3
    ListLimit = 1
    ListPages = 2
    MayDeleteMidway = FALSE
    Accounts = {n1, n2}
    Calls = {r1, r2}
    SlowToSignIn = FALSE
    SmtpUrls = {"smtp"}
    BaseUrls = {"origin"}
    Visits = {r1, r2}
    PingKeys = {n1, n2}
    Sources = {s1}
    KeyLimit = 1
    UnknownLimit = 1
    Pages = {p1, p2}
    GetLimit = 2
    MaxVisits = 1
    MaxActs = 1
SYMMETRY ServicesSymmetry
INVARIANTS
    ServicesTypeOK
    PlansHold
    AccountsStayInOrder
    RatesHold
    
    MessagesLeaveSafely
    NothingIsLeftOut
PROPERTIES
    NothingGoesBackwards
    AnswersComeInTime
CHECK_DEADLOCK FALSE
