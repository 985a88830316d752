------------------------------- MODULE MCServices --------------------------------
(***************************************************************************)
(* The services around detection and alerting. Each keeps its own tables   *)
(* or memory, and none reads what another is in the middle of: a behaviour *)
(* here is a behaviour of one of them, whose bounds need no more states    *)
(* for the company of the rest.                                            *)
(***************************************************************************)
EXTENDS StarterSync, Projects, Quota, RateLimit, Retention, Watchdog, Channels, ChannelConfigs,
        Sending, Audit, ChecksPage, WebSession, Config, PingGate, CheckDetail, TLC

VARIABLE part  \* the service that moves

planVars == <<syncVars, projectVars, quotaVars>>
clockVars == <<rateVars, retentionVars, watchdogVars, gateVars>>
alertVars == <<channelVars, vaultVars, sendingVars>>
restVars == <<auditVars, pageVars, webVars, configVars, detailVars>>
servicesVars == <<part, planVars, clockVars, alertVars, restVars>>

\* The services that do not move have no state.
Off == 0

ServicesInit ==
    /\ part \in {"StarterSync", "Projects", "Quota", "RateLimit", "Retention", "Watchdog", "Channels",
                 "ChannelConfigs", "Sending", "Audit", "ChecksPage", "WebSession", "Config",
                 "PingGate", "CheckDetail"}
    /\ IF part = "StarterSync" THEN StarterSyncInit
       ELSE /\ declared = Off /\ manual = Off /\ accountLock = Off /\ call = Off /\ kept = Off
            /\ clock = Off
    /\ IF part = "Projects" THEN ProjectsInit
       ELSE /\ account = Off /\ projects = Off /\ apiKeys = Off /\ act = Off /\ planLock = Off
    /\ IF part = "Quota" THEN QuotaInit
       ELSE /\ row = Off /\ limit = Off /\ lock = Off /\ request = Off /\ enforcer = Off /\ emailed = Off
            /\ changes = Off /\ losses = Off
    /\ IF part = "RateLimit" THEN RateLimitInit
       ELSE /\ windows = Off /\ precedes = Off /\ moment = Off /\ passed = Off /\ promised = Off
    /\ IF part = "Retention" THEN RetentionInit
       ELSE /\ day = Off /\ setting = Off /\ cap = Off /\ pings = Off /\ outages = Off /\ pass = Off
            /\ whole = Off
    /\ IF part = "Watchdog" THEN WatchdogInit
       ELSE /\ beat = Off /\ timerOn = Off /\ current = Off /\ flying = Off /\ begun = Off
            /\ completed = Off /\ lastSuccess = Off /\ flusher = Off /\ fetching = Off /\ heard = Off
    /\ IF part = "Channels" THEN ChannelsInit
       ELSE /\ channels = Off /\ ask = Off /\ quotaLock = Off /\ recorded = Off /\ delivered = Off
            /\ claimed = Off /\ unrecorded = Off /\ tick = Off
    /\ IF part = "ChannelConfigs" THEN ConfigsInit
       ELSE /\ stored = Off /\ secretKey = Off /\ oldest = Off /\ run = Off /\ disturbed = Off
    /\ IF part = "Sending" THEN SendingInit
       ELSE /\ target = Off /\ delivery = Off /\ contacted = Off /\ tookIt = Off
    /\ IF part = "Audit" THEN AuditInit
       ELSE /\ writing = Off /\ eventIds = Off /\ trail = Off /\ emails = Off /\ accounts = Off
            /\ auditDay = Off /\ reading = Off
    /\ IF part = "ChecksPage" THEN ChecksPageInit
       ELSE /\ checks = Off /\ store = Off /\ load = Off /\ table = Off /\ notice = Off
    /\ IF part = "WebSession" THEN WebSessionInit
       ELSE /\ cookie = Off /\ live = Off /\ me = Off /\ screen = Off /\ restore = Off /\ req = Off
            /\ dialog = Off
    /\ IF part = "Config" THEN ConfigInit
       ELSE /\ env = Off /\ server = Off
    /\ IF part = "PingGate" THEN PingGateInit
       ELSE /\ visit = Off /\ checkOf = Off /\ cached = Off /\ keyHits = Off /\ unknownHits = Off
            /\ wasted = Off /\ databaseUp = Off
    /\ IF part = "CheckDetail" THEN CheckDetailInit
       ELSE /\ route = Off /\ display = Off /\ busy = Off /\ failed = Off /\ gets = Off /\ acts = Off
            /\ onRoute = Off /\ visits = Off /\ sentActs = Off

PlanNext ==
    /\ UNCHANGED <<part, clockVars, alertVars, restVars>>
    /\ \/ part = "StarterSync" /\ StarterSyncNext /\ UNCHANGED <<projectVars, quotaVars>>
       \/ part = "Projects" /\ ProjectsNext /\ UNCHANGED <<syncVars, quotaVars>>
       \/ part = "Quota" /\ QuotaNext /\ UNCHANGED <<syncVars, projectVars>>

ClockNext ==
    /\ UNCHANGED <<part, planVars, alertVars, restVars>>
    /\ \/ part = "RateLimit" /\ RateLimitNext /\ UNCHANGED <<retentionVars, watchdogVars, gateVars>>
       \/ part = "Retention" /\ RetentionNext /\ UNCHANGED <<rateVars, watchdogVars, gateVars>>
       \/ part = "Watchdog" /\ WatchdogNext /\ UNCHANGED <<rateVars, retentionVars, gateVars>>
       \/ part = "PingGate" /\ PingGateNext /\ UNCHANGED <<rateVars, retentionVars, watchdogVars>>

AlertNext ==
    /\ UNCHANGED <<part, planVars, clockVars, restVars>>
    /\ \/ part = "Channels" /\ ChannelsNext /\ UNCHANGED <<vaultVars, sendingVars>>
       \/ part = "ChannelConfigs" /\ ConfigsNext /\ UNCHANGED <<channelVars, sendingVars>>
       \/ part = "Sending" /\ SendingNext /\ UNCHANGED <<channelVars, vaultVars>>

RestNext ==
    /\ UNCHANGED <<part, planVars, clockVars, alertVars>>
    /\ \/ part = "Audit" /\ AuditNext /\ UNCHANGED <<pageVars, webVars, configVars, detailVars>>
       \/ part = "ChecksPage" /\ ChecksPageNext /\ UNCHANGED <<auditVars, webVars, configVars, detailVars>>
       \/ part = "WebSession" /\ WebSessionNext /\ UNCHANGED <<auditVars, pageVars, configVars, detailVars>>
       \/ part = "Config" /\ ConfigNext /\ UNCHANGED <<auditVars, pageVars, webVars, detailVars>>
       \/ part = "CheckDetail" /\ CheckDetailNext /\ UNCHANGED <<auditVars, pageVars, webVars, configVars>>

ServicesNext == PlanNext \/ ClockNext \/ AlertNext \/ RestNext

ServicesSpec == ServicesInit /\ [][ServicesNext]_servicesVars

ServicesTypeOK ==
    /\ part = "StarterSync" => StarterSyncTypeOK
    /\ part = "Projects" => ProjectsTypeOK
    /\ part = "Quota" => QuotaTypeOK
    /\ part = "RateLimit" => RateLimitTypeOK
    /\ part = "Retention" => RetentionTypeOK
    /\ part = "Watchdog" => WatchdogTypeOK
    /\ part = "Channels" => ChannelsTypeOK
    /\ part = "ChannelConfigs" => ConfigsTypeOK
    /\ part = "Sending" => SendingTypeOK
    /\ part = "Audit" => AuditTypeOK
    /\ part = "ChecksPage" => ChecksPageTypeOK
    /\ part = "WebSession" => WebSessionTypeOK
    /\ part = "Config" => ConfigTypeOK
    /\ part = "PingGate" => PingGateTypeOK
    /\ part = "CheckDetail" => CheckDetailTypeOK

\* QuotaService: nobody gets past the plan by sending requests together, whatever it is
\* that the plan limits.
PlansHold ==
    /\ part = "StarterSync" => NeverOverThePlan
    /\ part = "Projects" => ProjectsWithinPlan
    /\ part = "Quota" => CreationWithinLimit
    /\ part = "Channels" => ChannelsWithinPlan

\* What an account is left with when requests that only count do not overlap: a project
\* to work in, a handful of keys, and nothing once it is gone; what an application
\* declares is not taken from under it.
AccountsStayInOrder ==
    /\ part = "Projects" => LastProjectStays /\ KeysWithinCeiling /\ NothingOpensAfterwards
    /\ part = "StarterSync" => DeclaredIsNotOrphaned

\* What was granted is not granted again: a restart gives no grace to a check already
\* overdue, and a sealed configuration never goes back to a key that was replaced.
NothingGoesBackwards ==
    [][/\ part = "StarterSync" => RestartGrantsNoGrace
       /\ part = "ChannelConfigs" => NeverBackToAnOldKey]_servicesVars

\* What is said of a rate holds at every moment, not at the ends of windows, also when
\* what it is of is known only after an await; and a rate takes nothing from those it is
\* not about.
RatesHold ==
    /\ part = "PingGate" => WastedLookupsAreBounded /\ ScannersSilenceNobody
    /\ part = "RateLimit" => BudgetHolds /\ RetryAfterSuffices /\ WindowsAreBounded
    /\ part = "Channels" => OneTestPerCooldown /\ TestsWithinBudget

\* What runs on a timer: the purge keeps what is still needed, a tick never runs beside
\* another, a shutdown waits for what was in flight, and outside is told only what is so.
LoopsAreSound ==
    /\ part = "Retention" => RecoveryReachesWhoWasTold /\ PassLeavesTheWindow
    /\ part = "Watchdog" => TicksDoNotOverlap /\ FlushSeesWhatWasThere /\ OutsideIsNotMisled /\ StalledLoopIsReported

\* What leaves the server goes where it was vetted to go, is called sent when it was
\* taken, and can still be opened after the key was changed; a job is answered what
\* became of its heartbeat.
MessagesLeaveSafely ==
    /\ part = "PingGate" => AnswersAreTrue
    /\ part = "Sending" => OnlyVettedAreContacted /\ SentMeansTaken
    /\ part = "ChannelConfigs" => ResealReachesEveryChannel

\* What is read page by page is whole and of the project it is shown under, a page that
\* says it is loading has an answer coming, and a server that starts does what its
\* settings say.
NothingIsLeftOut ==
    /\ part = "Audit" => ReadingIsWhole
    /\ part = "ChecksPage" => RowsAreOfTheProject /\ NothingIsOmittedSilently /\ TableIsNotEmptyForNothing
    /\ part = "CheckDetail" => LoadingEnds
    /\ part = "Config" => AcceptedMeansWorking

\* A request that was held while the person signed in again is let through by that sign-in
\* or answered with the refusal, writes are never given up on, and a read is answered in
\* time or not at all.
AnswersComeInTime ==
    [][/\ part = "WebSession" => HeldIsAnswered
       /\ part = "CheckDetail" => LateAnswersEnd]_servicesVars

\* Requests, sessions and processes may come in any order, and so may what they ask for.
ServicesSymmetry == Permutations(Callers) \cup Permutations(Keys)
==================================================================================
