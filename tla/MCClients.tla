------------------------------ MODULE MCClients -------------------------------
(***************************************************************************)
(* The client libraries' parts side by side: a behaviour is one of one     *)
(* part. They only meet at the server, which each declares its jobs to.    *)
(***************************************************************************)
EXTENDS JavaRegistrar, JavaSender, PythonMonitor, PythonSender, LaravelMonitor, Discovery,
        InstanceNames, CeleryRuns, SchedulerRuns

VARIABLE part  \* the part that moves

Parts == {"JavaRegistrar", "JavaSender", "JavaJson", "PythonMonitor", "PythonSender",
          "LaravelMonitor", "LaravelRuns", "Discovery", "InstanceNames", "CeleryRuns", "SchedulerRuns"}

ownRegistrar == <<registrar, keys>>
ownPython == <<process, holder, declaration, caller, discoveries>>
ownLaravel == <<release, scheduler, cache, settled, changes>>
pythonRunVars == <<celeryVars, schedulerVars>>

ClientsInit ==
    /\ part \in Parts
    /\ RegistrarInit /\ SenderInit /\ JsonInit /\ PythonInit /\ PySenderInit
    /\ LaravelInit /\ RunsInit /\ DiscoveryInit /\ NamesInit /\ CeleryInit /\ SchedulerInit
    /\ part = "LaravelMonitor" \/ \A i \in Instances : release[i] = CHOOSE tasks \in Releases : TRUE
    /\ part = "CeleryRuns" \/ table.tasks = {}
    /\ part = "CeleryRuns" \/ \A e \in Executions : execution[e].task = CHOOSE task \in BeatTasks : TRUE
    /\ part = "SchedulerRuns" \/ ap.jobs = {}

Declaring ==
    /\ \/ part = "JavaRegistrar" /\ RegistrarNext /\ UNCHANGED <<ownPython, ownLaravel>>
       \/ part = "PythonMonitor" /\ PythonNext /\ UNCHANGED <<ownRegistrar, ownLaravel>>
       \/ part = "LaravelMonitor" /\ LaravelNext /\ UNCHANGED <<ownRegistrar, ownPython>>
    /\ UNCHANGED <<senderVars, jsonVars, pySenderVars, runVars, discoveryVars, nameVars, pythonRunVars>>

OnItsOwn ==
    /\ \/ part = "JavaSender" /\ SenderNext /\ UNCHANGED <<jsonVars, pySenderVars, runVars, discoveryVars, nameVars>>
       \/ part = "JavaJson" /\ JsonNext /\ UNCHANGED <<senderVars, pySenderVars, runVars, discoveryVars, nameVars>>
       \/ part = "PythonSender" /\ PySenderNext /\ UNCHANGED <<senderVars, jsonVars, runVars, discoveryVars, nameVars>>
       \/ part = "LaravelRuns" /\ RunsNext /\ UNCHANGED <<senderVars, jsonVars, pySenderVars, discoveryVars, nameVars>>
       \/ part = "Discovery" /\ DiscoveryNext /\ UNCHANGED <<senderVars, jsonVars, pySenderVars, runVars, nameVars>>
       \/ part = "InstanceNames" /\ NamesNext /\ UNCHANGED <<senderVars, jsonVars, pySenderVars, runVars, discoveryVars>>
    /\ UNCHANGED <<checks, faults, ownRegistrar, ownPython, ownLaravel, pythonRunVars>>

PythonRuns ==
    /\ \/ part = "CeleryRuns" /\ CeleryNext /\ UNCHANGED schedulerVars
       \/ part = "SchedulerRuns" /\ SchedulerNext /\ UNCHANGED celeryVars
    /\ UNCHANGED <<checks, faults, ownRegistrar, ownPython, ownLaravel, senderVars, jsonVars, pySenderVars,
                   runVars, discoveryVars, nameVars>>

ClientsNext == (Declaring \/ OnItsOwn \/ PythonRuns) /\ UNCHANGED part

clientsVars == <<part, checks, faults, ownRegistrar, ownPython, ownLaravel, senderVars, jsonVars,
                 pySenderVars, runVars, discoveryVars, nameVars, pythonRunVars>>

ClientsSpec == ClientsInit /\ [][ClientsNext]_clientsVars /\ PythonFairness

ClientsTypeOK ==
    /\ RegistrarTypeOK /\ SenderTypeOK /\ JsonTypeOK /\ PythonTypeOK /\ PySenderTypeOK
    /\ LaravelTypeOK /\ RunsTypeOK /\ DiscoveryTypeOK /\ NamesTypeOK
    /\ CeleryTypeOK /\ SchedulerTypeOK

\* "Degrade on the part that cannot work, never on the rest" (cron.py, and the same in
\* Java and PHP): what a library declares is never refused, it is the schedule whose
\* missed run is noticed first, written without changing its meaning, under a key that
\* survives a restart, in an environment the server takes; and the server's answer is
\* read for what it is.
DeclarationsAreSound ==
    /\ NothingIsRefused /\ TightestIsDeclared /\ KeysSurviveARestart /\ NamesAreUsable
    /\ CompactMeansTheSame /\ ParsesExactlyJson

\* A library that has declared has the key of every job the server can watch, and goes
\* on following a schedule that changes while it runs.
DeclaredMeansWatched == JavaJobsAreWatched /\ RegisteredIsComplete /\ ScheduleIsFollowed /\ JobsAreFollowed

\* Every run a library is told of is reported once, with its own outcome and duration,
\* or counted as dropped.
RunsAreReported ==
    /\ EveryHeartbeatIsCounted /\ OneOutcomePerRun
    /\ KeptTasksAreTold /\ RunsAreTimedFromTheirOwnStart

\* Heartbeats keep their order and declarations are not repeated.
NoStepIsRepeated == BeatsInOrder /\ DeclaredOnlyWhenChanged
===============================================================================
