---------------------------- MODULE PythonMonitor -----------------------------
(***************************************************************************)
(* The Python library's monitor, one per process, which declares what the  *)
(* integrations find, at the latest when a job reports a run. The process  *)
(* may fork, as Celery's pool and gunicorn do: parent and child are the    *)
(* same instance.                                                          *)
(***************************************************************************)
EXTENDS Declarations

CONSTANTS
    Host,             \* the instance
    Listings,         \* sets of jobs an integration may find
    MaxDiscoveries,   \* bound: times an integration reports its jobs
    ForkAnyTime       \* whether the process may fork in the middle of a declaration

ASSUME PythonAssumption ==
    Host \in Instances /\ Listings \subseteq SUBSET Jobs /\ ForkAnyTime \in BOOLEAN /\ MaxDiscoveries \in Nat

VARIABLES
    process,      \* a Monitor: what it knows, and the ping keys it gave its sender
    holder,       \* Monitor._lock: who holds it
    declaration,  \* what its holder has declared and has yet to declare
    caller,       \* what a job's thread and an integration's hook are doing
    discoveries

pythonVars == <<checks, faults, process, holder, declaration, caller, discoveries>>

Processes == {"parent", "child"}
Callers == {"job", "hook"}
NoGroups == [e \in Environments |-> {}]
NoDeclaration == [todo |-> NoGroups, found |-> {}, complete |-> TRUE]

PythonTypeOK ==
    /\ DeclarationsTypeOK
    /\ process \in [Processes -> [up : BOOLEAN, known : SUBSET Jobs, registered : BOOLEAN,
                                  backedOff : BOOLEAN, keys : SUBSET Jobs]]
    /\ holder \in [Processes -> Callers \cup {"nobody", "lost"}]
    /\ declaration \in [Processes -> [todo : [Environments -> SUBSET Jobs], found : SUBSET Jobs, complete : BOOLEAN]]
    /\ caller \in [Processes -> [Callers -> {"idle", "lock", "sync", "ready"}]]
    /\ discoveries \in 0..MaxDiscoveries

PythonInit ==
    /\ DeclarationsInit
    /\ process = [p \in Processes |-> [up |-> p = "parent", known |-> {}, registered |-> FALSE,
                                       backedOff |-> FALSE, keys |-> {}]]
    /\ holder = [p \in Processes |-> "nobody"]
    /\ declaration = [p \in Processes |-> NoDeclaration]
    /\ caller = [p \in Processes |-> [c \in Callers |-> "idle"]]
    /\ discoveries = 0

Go(p, c, pc) == caller' = [caller EXCEPT ![p][c] = pc]

SupportedJobs(known) == known \ Unsupported

\* One worker runs each run of a Celery task: those are never kept apart.
Split(jobs) == Groups(Host, jobs, IF Host \in Named THEN jobs \cap (PerInstance \ SingleRun) ELSE {})

\* An integration reports its jobs, all of them, every time.
Declare(p, found) ==
    /\ process[p].up /\ caller[p]["hook"] = "idle" /\ holder[p] = "nobody"
    /\ discoveries < MaxDiscoveries /\ discoveries' = discoveries + 1
    /\ process' = [process EXCEPT ![p].known = found, ![p].registered = FALSE, ![p].backedOff = FALSE]
    /\ Go(p, "hook", "lock")
    /\ UNCHANGED <<checks, faults, holder, declaration>>

\* A run of a job starts or ends.
Report(p) ==
    /\ process[p].up /\ caller[p]["job"] = "idle"
    /\ Go(p, "job", "lock")
    /\ UNCHANGED <<checks, faults, process, holder, declaration, discoveries>>

Leave(p, c) == Go(p, c, IF c = "job" THEN "ready" ELSE "idle")

EnsureRegistered(p, c) ==
    /\ caller[p][c] = "lock" /\ holder[p] = "nobody"
    /\ LET jobs == SupportedJobs(process[p].known) IN
       IF process[p].registered \/ process[p].backedOff \/ jobs = {}
       THEN Leave(p, c) /\ UNCHANGED <<holder, declaration>>
       ELSE /\ Go(p, c, "sync")
            /\ holder' = [holder EXCEPT ![p] = c]
            /\ declaration' = [declaration EXCEPT ![p].todo = Split(jobs)]
    /\ UNCHANGED <<checks, faults, process, discoveries>>

\* SilenceWatchClient.sync, the shared jobs first.
SyncGroup(p, e) ==
    /\ declaration[p].todo[e] # {}
    /\ e # Shared => declaration[p].todo[Shared] = {}
    /\ \E answered \in BOOLEAN :
        /\ Declaration(e, declaration[p].todo[e], answered)
        /\ declaration' = [declaration EXCEPT ![p].todo[e] = {}, ![p].complete = @ /\ answered,
               ![p].found = @ \cup IF answered THEN declaration[p].todo[e] ELSE {}]
    /\ UNCHANGED <<process, holder, caller, discoveries>>

\* Mutant: some keys are good enough.
ConcludedWithSome(p, found, complete) ==
    [process[p] EXCEPT !.registered = found # {}, !.backedOff = found = {}, !.keys = IF found = {} THEN @ ELSE found]

\* The keys replace the ones there were; what was not complete is tried again, in a minute.
Concluded(p, found, complete) ==
    [process[p] EXCEPT !.registered = complete, !.backedOff = ~complete, !.keys = IF found = {} THEN @ ELSE found]

Conclude(p, c) ==
    /\ holder[p] = c /\ caller[p][c] = "sync" /\ declaration[p].todo = NoGroups
    /\ process' = [process EXCEPT ![p] = Concluded(p, declaration[p].found, declaration[p].complete)]
    /\ declaration' = [declaration EXCEPT ![p] = NoDeclaration]
    /\ holder' = [holder EXCEPT ![p] = "nobody"]
    /\ Leave(p, c)
    /\ UNCHANGED <<checks, faults, discoveries>>

\* Mutant: what failed by half is not tried again.
MinutePassesWithoutKeys(p) ==
    /\ process[p].backedOff /\ process[p].keys = {}
    /\ process' = [process EXCEPT ![p].backedOff = FALSE]
    /\ UNCHANGED <<checks, faults, holder, declaration, caller, discoveries>>

MinutePasses(p) ==
    /\ process[p].backedOff
    /\ process' = [process EXCEPT ![p].backedOff = FALSE]
    /\ UNCHANGED <<checks, faults, holder, declaration, caller, discoveries>>

\* The job's thread goes on to the sender, which has a key for the job or not.
Reported(p) ==
    /\ caller[p]["job"] = "ready"
    /\ Go(p, "job", "idle")
    /\ UNCHANGED <<checks, faults, process, holder, declaration, discoveries>>

\* Only the forking thread survives in the child, and the monitor's lock stays with
\* whoever held it.
Fork ==
    /\ ~process["child"].up
    /\ holder["parent"] = "nobody" \/ ForkAnyTime
    /\ process' = [process EXCEPT !["child"] = process["parent"]]
    /\ holder' = [holder EXCEPT !["child"] = IF holder["parent"] = "nobody" THEN "nobody" ELSE "lost"]
    /\ UNCHANGED <<checks, faults, declaration, caller, discoveries>>

PythonNext ==
    \/ Fork
    \/ \E p \in Processes :
        \/ Report(p) \/ Reported(p) \/ MinutePasses(p)
        \/ \E found \in Listings : Declare(p, found)
        \/ \E c \in Callers : EnsureRegistered(p, c) \/ Conclude(p, c)
        \/ \E e \in Environments : SyncGroup(p, e)

\* Threads run, HTTP calls have a timeout, a lock that is free is had in the end,
\* and the application's jobs keep running.
PythonFairness ==
    \A p \in Processes :
        /\ WF_pythonVars(MinutePasses(p)) /\ WF_pythonVars(Report(p)) /\ WF_pythonVars(Reported(p))
        /\ WF_pythonVars(\E e \in Environments : SyncGroup(p, e))
        /\ \A c \in Callers : WF_pythonVars(Conclude(p, c)) /\ SF_pythonVars(EnsureRegistered(p, c))

PythonSpec == PythonInit /\ [][PythonNext]_pythonVars

FairPythonSpec == PythonSpec /\ PythonFairness

(***************************************************************************)
(* Properties.                                                             *)
(***************************************************************************)
\* Monitor.ensure_registered: a process is done declaring only when it has the key
\* of every job it could declare; the half of a declaration that failed is tried again.
RegisteredIsComplete ==
    \A p \in Processes : process[p].registered => process[p].keys = SupportedJobs(process[p].known)

\* Monitor.ensure_registered: "a process that started while SilenceWatch was
\* unreachable declares itself as soon as it can, at most once a minute".
DeclaresAsSoonAsItCan ==
    \A p \in Processes :
        <>[](process[p].up /\ SupportedJobs(process[p].known) # {} => process[p].registered)

\* HeartbeatSender: "It never blocks", "It survives a fork". A job that reports a run
\* gets its thread back.
ReportsReturn == \A p \in Processes : caller[p]["job"] = "lock" ~> caller[p]["job"] = "idle"
===============================================================================
