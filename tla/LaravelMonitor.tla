---------------------------- MODULE LaravelMonitor ----------------------------
(***************************************************************************)
(* The Laravel package: schedule:run is a new process every minute on each *)
(* server, so the ping keys live in a cache, with the declaration they     *)
(* answer. The servers share the cache.                                    *)
(***************************************************************************)
EXTENDS Declarations

CONSTANTS
    Releases,     \* the schedules deployed over time, as sets of tasks
    MaxDeploys    \* bound: deploys, expiries of the cache and runs of silencewatch:sync

ASSUME LaravelAssumption == Releases \subseteq SUBSET Jobs /\ Releases # {} /\ MaxDeploys \in Nat

VARIABLES
    release,    \* what is deployed on each server
    scheduler,  \* its schedule:run process, if any
    cache,      \* the declaration and keys under each cache key
    settled,    \* what each server has declared and nothing has undone since
    changes

laravelVars == <<checks, faults, release, scheduler, cache, settled, changes>>

CacheKeys == Environments
NotKnown == {"not known"}
NoPayloads == [e \in Environments |-> {}]
NoEntry == [payloads |-> NoPayloads, keys |-> {}]
Off == [pc |-> "off", payloads |-> NoPayloads, todo |-> NoPayloads, found |-> {}, keys |-> NotKnown]

LaravelTypeOK ==
    /\ DeclarationsTypeOK
    /\ release \in [Instances -> Releases]
    /\ scheduler \in [Instances -> [pc : {"off", "run", "sync"}, payloads : [Environments -> SUBSET Jobs],
            todo : [Environments -> SUBSET Jobs], found : SUBSET Jobs, keys : (SUBSET Jobs) \cup {NotKnown}]]
    /\ cache \in [CacheKeys -> [payloads : [Environments -> SUBSET Jobs], keys : SUBSET Jobs]]
    /\ settled \in [Instances -> [Environments -> SUBSET Jobs]]
    /\ changes \in 0..MaxDeploys

LaravelInit ==
    /\ DeclarationsInit
    /\ release \in [Instances -> Releases]
    /\ scheduler = [i \in Instances |-> Off]
    /\ cache = [k \in CacheKeys |-> NoEntry]
    /\ settled = [i \in Instances |-> NoPayloads]
    /\ changes = 0

Change == changes < MaxDeploys /\ changes' = changes + 1

\* One server takes each run of an onOneServer() task: those are never kept apart.
LaravelSplit(i, tasks) == Groups(i, tasks, IF i \in Named THEN tasks \cap (PerInstance \ SingleRun) ELSE {})

\* Mutant: every server keeps its declaration under the same key.
OneCacheKey(i) == Shared

CacheKeyOf(i) == IF i \in Named THEN i ELSE Shared

Deploy(i, tasks) ==
    /\ scheduler[i].pc = "off" /\ release[i] # tasks
    /\ Change
    /\ release' = [release EXCEPT ![i] = tasks]
    /\ settled' = [settled EXCEPT ![i] = NoPayloads]
    /\ UNCHANGED <<checks, faults, scheduler, cache>>

\* The cache entry is a day old.
Expire(k) ==
    /\ cache[k] # NoEntry
    /\ Change
    /\ cache' = [cache EXCEPT ![k] = NoEntry]
    /\ settled' = [i \in Instances |-> IF CacheKeyOf(i) = k THEN NoPayloads ELSE settled[i]]
    /\ UNCHANGED <<checks, faults, release, scheduler>>

\* schedule:run, when the cron daemon starts it.
StartRun(i) ==
    /\ scheduler[i].pc = "off"
    /\ scheduler' = [scheduler EXCEPT ![i] = [Off EXCEPT !.pc = "run", !.payloads = LaravelSplit(i, release[i] \ Unsupported)]]
    /\ UNCHANGED <<checks, faults, release, cache, settled, changes>>

Asking(i) == [scheduler EXCEPT ![i].pc = "sync", ![i].todo = scheduler[i].payloads]

\* The first heartbeat of the process: Monitor.declare.
ReadCache(i) ==
    LET entry == cache[CacheKeyOf(i)] IN
    /\ scheduler[i].pc = "run" /\ scheduler[i].keys = NotKnown
    /\ scheduler' =
          CASE scheduler[i].payloads = NoPayloads -> [scheduler EXCEPT ![i].keys = {}]
            [] scheduler[i].payloads # NoPayloads /\ entry.payloads = scheduler[i].payloads ->
                  [scheduler EXCEPT ![i].keys = entry.keys]
            [] OTHER -> Asking(i)
    /\ UNCHANGED <<checks, faults, release, cache, settled, changes>>

\* The command silencewatch:sync, in a process of its own.
SyncCommand(i) ==
    /\ scheduler[i].pc = "run" /\ scheduler[i].payloads # NoPayloads
    /\ Change
    /\ scheduler' = Asking(i)
    /\ settled' = [settled EXCEPT ![i] = NoPayloads]
    /\ UNCHANGED <<checks, faults, release, cache>>

\* The first payload that does not go through ends it, without a key.
SyncPayload(i, e) ==
    /\ scheduler[i].pc = "sync" /\ scheduler[i].todo[e] # {}
    /\ e # Shared => scheduler[i].todo[Shared] = {}
    /\ \E answered \in BOOLEAN :
        /\ Declaration(e, scheduler[i].todo[e], answered)
        /\ scheduler' = IF answered
              THEN [scheduler EXCEPT ![i].todo[e] = {}, ![i].found = @ \cup scheduler[i].todo[e]]
              ELSE [scheduler EXCEPT ![i].pc = "run", ![i].todo = NoPayloads, ![i].found = {}, ![i].keys = {}]
    /\ UNCHANGED <<release, cache, settled, changes>>

PutCache(i) ==
    /\ scheduler[i].pc = "sync" /\ scheduler[i].todo = NoPayloads
    /\ cache' = [cache EXCEPT ![CacheKeyOf(i)] = [payloads |-> scheduler[i].payloads, keys |-> scheduler[i].found]]
    /\ settled' = [settled EXCEPT ![i] = scheduler[i].payloads]
    /\ scheduler' = [scheduler EXCEPT ![i].pc = "run", ![i].found = {}, ![i].keys = scheduler[i].found]
    /\ UNCHANGED <<checks, faults, release, changes>>

EndRun(i) ==
    /\ scheduler[i].pc = "run"
    /\ scheduler' = [scheduler EXCEPT ![i] = Off]
    /\ UNCHANGED <<checks, faults, release, cache, settled, changes>>

LaravelNext ==
    \E i \in Instances :
        \/ StartRun(i) \/ ReadCache(i) \/ SyncCommand(i) \/ PutCache(i) \/ EndRun(i)
        \/ \E tasks \in Releases : Deploy(i, tasks)
        \/ \E e \in Environments : SyncPayload(i, e) \/ Expire(e)

LaravelSpec == LaravelInit /\ [][LaravelNext]_laravelVars

(***************************************************************************)
(* Properties.                                                             *)
(***************************************************************************)
\* Monitor.declare: "the declaration is sent again only when the schedule changed (a
\* deploy), or once a day". What other servers declare, in the cache they share, is
\* no change of the schedule of a server that has a name.
DeclaredOnlyWhenChanged ==
    [][\A i \in Named :
          scheduler[i].pc = "run" /\ scheduler'[i].pc = "sync" /\ changes' = changes =>
              settled[i] # scheduler[i].payloads]_laravelVars

-----------------------------------------------------------------------------
(***************************************************************************)
(* The listeners of the package: what Laravel's events make of the runs of *)
(* the tasks of one schedule:run process. A task may run again in the same *)
(* process. Laravel is modelled from the events it sends.                  *)
(***************************************************************************)
CONSTANTS
    LaravelTasks,
    MaxRuns       \* bound

ASSUME LaravelRunsAssumption == MaxRuns \in Nat

VARIABLES
    current,     \* the run in the foreground: its task, what will become of it, its stage
    reported,    \* Monitor.reported
    outcomes,    \* the outcomes sent of the run
    background,  \* tasks that go on in the background
    downUntil,   \* Client.downUntil is ahead
    runs

runVars == <<current, reported, outcomes, background, downUntil, runs>>

Fates == {"succeeds", "exits non-zero", "throws", "overlaps", "goes to the background"}
NoRun == [task |-> "none", fate |-> "none", stage |-> "none"]

RunsTypeOK ==
    /\ current \in [task : LaravelTasks, fate : Fates, stage : {"starting", "runs", "finished", "over"}] \cup {NoRun}
    /\ reported \subseteq LaravelTasks /\ background \subseteq LaravelTasks
    /\ outcomes \in Seq({"zero", "non-zero", "fail"}) /\ downUntil \in BOOLEAN /\ runs \in 0..MaxRuns

RunsInit ==
    /\ current = NoRun /\ reported = {} /\ outcomes = <<>> /\ background = {}
    /\ downUntil = FALSE /\ runs = 0

\* Client.ping: once SilenceWatch has not answered, the next ones do not wait for it.
Ping(outcome) ==
    /\ outcomes' = Append(outcomes, outcome)
    /\ \/ UNCHANGED downUntil
       \/ ~downUntil /\ downUntil' = TRUE

StartTask(task, fate) ==
    /\ current.stage \in {"none", "over"} /\ runs < MaxRuns
    /\ runs' = runs + 1
    /\ current' = [task |-> task, fate |-> fate, stage |-> "starting"]
    /\ outcomes' = <<>>
    /\ UNCHANGED <<reported, background, downUntil>>

\* Mutant: what an earlier run left behind is not cleared.
StillReported(task) == reported

NotReported(task) == reported \ {task}

\* Monitor.starting.
Starting ==
    /\ current.stage = "starting"
    /\ reported' = NotReported(current.task)
    /\ current' = [current EXCEPT !.stage = "runs"]
    /\ UNCHANGED <<outcomes, background, runs>>
    /\ downUntil' \in {downUntil, TRUE}

\* Monitor.finished, which Laravel does not reach when the task throws.
Finished ==
    /\ current.stage = "runs" /\ current.fate # "throws"
    /\ current' = [current EXCEPT !.stage = IF current.fate = "exits non-zero" THEN "finished" ELSE "over"]
    /\ IF current.fate \in {"overlaps", "goes to the background"}
       THEN UNCHANGED <<reported, outcomes, downUntil>>
       ELSE /\ reported' = reported \cup {current.task}
            /\ Ping(IF current.fate = "succeeds" THEN "zero" ELSE "non-zero")
    /\ background' = IF current.fate = "goes to the background" THEN background \cup {current.task} ELSE background
    /\ UNCHANGED runs

\* Monitor.failed, after finished or instead of it.
Failed ==
    /\ current.stage = "finished" \/ (current.stage = "runs" /\ current.fate = "throws")
    /\ current' = [current EXCEPT !.stage = "over"]
    /\ reported' = reported \ {current.task}
    /\ IF current.task \in reported THEN UNCHANGED <<outcomes, downUntil>> ELSE Ping("fail")
    /\ UNCHANGED <<background, runs>>

\* Monitor.backgroundFinished, in the process that ran it.
BackgroundFinished(task) ==
    /\ task \in background
    /\ background' = background \ {task}
    /\ UNCHANGED <<current, reported, outcomes, downUntil, runs>>

MinuteLater ==
    /\ downUntil
    /\ downUntil' = FALSE
    /\ UNCHANGED <<current, reported, outcomes, background, runs>>

RunsNext ==
    \/ Starting \/ Finished \/ Failed \/ MinuteLater
    \/ \E task \in LaravelTasks : BackgroundFinished(task) \/ \E fate \in Fates : StartTask(task, fate)

RunsSpec == RunsInit /\ [][RunsNext]_runVars

\* Monitor.failed: "A command that exits non-zero is reported as finished first, with
\* its exit code; the failure Laravel raises after it is the same run." Every run that
\* ends here is told once, and by its own outcome, whatever the task's last run did.
OneOutcomePerRun ==
    current.stage = "over" =>
        outcomes = CASE current.fate = "succeeds" -> <<"zero">>
                     [] current.fate = "exits non-zero" -> <<"non-zero">>
                     [] current.fate = "throws" -> <<"fail">>
                     [] OTHER -> <<>>
===============================================================================
