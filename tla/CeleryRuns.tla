------------------------------ MODULE CeleryRuns ------------------------------
(***************************************************************************)
(* The Celery integration in one process of a worker's pool, with a beat   *)
(* schedule that django-celery-beat keeps in the database: the thread that *)
(* watches the schedule, and the signals around every run of a task.       *)
(* Celery and the tables are modelled from how the integration uses them.  *)
(***************************************************************************)
EXTENDS Integers, Sequences, FiniteSets

CONSTANTS
    BeatTasks,
    Executions,     \* task ids
    MaxEdits,       \* bound: edits of the schedule
    MaxAttempts,    \* bound: runs of one task id, which Celery may retry
    ReadsMayFail    \* whether reading the entries may fail

ASSUME CeleryAssumption == MaxEdits \in Nat /\ MaxAttempts \in Nat \ {0} /\ ReadsMayFail \in BOOLEAN

VARIABLES
    table,      \* the database: its tasks, the change marker, a marker still to be written
    reader,     \* the thread inside register: its step, and what it found
    watched,    \* the watcher of this process runs
    seen,       \* _database_seen
    beatKeys,   \* _keys
    execution,  \* Celery's runs: the task, the attempts, the stage
    timed,      \* _started
    told,       \* what the monitor was told of a run
    always      \* history: tasks that have been scheduled since the worker started

celeryVars == <<table, reader, watched, seen, beatKeys, execution, timed, told, always>>

States == {"SUCCESS", "FAILURE", "RETRY"}

CeleryTypeOK ==
    /\ table \in [tasks : SUBSET BeatTasks, change : 0..MaxEdits, unmarked : BOOLEAN]
    /\ reader \in [at : {"idle", "marker", "entries", "keys"}, found : SUBSET BeatTasks, starting : BOOLEAN]
    /\ watched \in BOOLEAN /\ seen \in -1..MaxEdits /\ beatKeys \subseteq BeatTasks /\ always \subseteq BeatTasks
    /\ execution \in [Executions -> [task : BeatTasks, attempts : 0..MaxAttempts, stage : {"waiting", "running", "over"}]]
    /\ timed \subseteq Executions
    /\ told \in [Executions -> Seq({"start", "SUCCESS", "FAILURE"})]

CeleryInit ==
    /\ \E tasks \in SUBSET BeatTasks : table = [tasks |-> tasks, change |-> 0, unmarked |-> FALSE] /\ always = tasks
    /\ reader = [at |-> "marker", found |-> {}, starting |-> TRUE]
    /\ watched = FALSE /\ seen = -1 /\ beatKeys = {} /\ timed = {}
    /\ \E tasks \in [Executions -> BeatTasks] :
        execution = [e \in Executions |-> [task |-> tasks[e], attempts |-> 0, stage |-> "waiting"]]
    /\ told = [e \in Executions |-> <<>>]

\* The admin saves an entry; django-celery-beat writes its change marker after it.
EditSchedule(tasks) ==
    /\ ~table.unmarked /\ table.change < MaxEdits /\ tasks # table.tasks
    /\ table' = [table EXCEPT !.tasks = tasks, !.unmarked = TRUE]
    /\ always' = always \cap tasks
    /\ UNCHANGED <<reader, watched, seen, beatKeys, execution, timed, told>>

MarkChange ==
    /\ table.unmarked
    /\ table' = [table EXCEPT !.change = @ + 1, !.unmarked = FALSE]
    /\ UNCHANGED <<reader, watched, seen, beatKeys, execution, timed, told, always>>

\* CeleryIntegration.check_database, once a minute.
CheckDatabase ==
    /\ watched /\ reader.at = "idle" /\ table.change # seen
    /\ reader' = [reader EXCEPT !.at = "marker"]
    /\ UNCHANGED <<table, watched, seen, beatKeys, execution, timed, told, always>>

\* CeleryIntegration._entries: "The marker first".
ReadMarker ==
    /\ reader.at = "marker"
    /\ seen' = table.change
    /\ reader' = [reader EXCEPT !.at = "entries"]
    /\ UNCHANGED <<table, watched, beatKeys, execution, timed, told, always>>

\* Mutant: the keys are emptied, to be filled again.
ReadEntriesAnew ==
    /\ reader.at = "entries"
    /\ reader' = [reader EXCEPT !.at = "keys", !.found = table.tasks]
    /\ beatKeys' = {}
    /\ UNCHANGED <<table, watched, seen, execution, timed, told, always>>

\* django_celery_beat.entries. What it raises, register swallows.
ReadEntries ==
    /\ reader.at = "entries"
    /\ \/ reader' = [reader EXCEPT !.at = "keys", !.found = table.tasks]
       \/ ReadsMayFail /\ reader' = [at |-> "idle", found |-> {}, starting |-> FALSE]
    /\ UNCHANGED <<table, watched, seen, beatKeys, execution, timed, told, always>>

\* Mutant: the marker is looked at again when the entries have been read.
KeepKeysAndMarker ==
    /\ reader.at = "keys"
    /\ beatKeys' = reader.found /\ seen' = table.change
    /\ reader' = [at |-> "idle", found |-> {}, starting |-> FALSE]
    /\ UNCHANGED <<table, watched, execution, timed, told, always>>

\* CeleryIntegration.discover, once the entries are read.
KeepKeys ==
    /\ reader.at = "keys"
    /\ beatKeys' = reader.found
    /\ reader' = [at |-> "idle", found |-> {}, starting |-> FALSE]
    /\ UNCHANGED <<table, watched, seen, execution, timed, told, always>>

HasKey(e) == execution[e].task \in beatKeys

\* CeleryIntegration._on_prerun: the first run starts the watcher.
Prerun(e) ==
    /\ ~reader.starting
    /\ execution[e].stage = "waiting"
    /\ execution' = [execution EXCEPT ![e].stage = "running", ![e].attempts = @ + 1]
    /\ watched' = TRUE
    /\ IF HasKey(e) THEN timed' = timed \cup {e} /\ told' = [told EXCEPT ![e] = Append(@, "start")]
                    ELSE UNCHANGED <<timed, told>>
    /\ UNCHANGED <<table, reader, seen, beatKeys, always>>

\* CeleryIntegration._on_postrun.
Postrun(e, state) ==
    /\ execution[e].stage = "running"
    /\ state = "RETRY" => execution[e].attempts < MaxAttempts
    /\ execution' = [execution EXCEPT ![e].stage = IF state = "RETRY" THEN "waiting" ELSE "over"]
    /\ timed' = IF HasKey(e) THEN timed \ {e} ELSE timed
    /\ told' = IF HasKey(e) /\ state # "RETRY" THEN [told EXCEPT ![e] = Append(@, state)] ELSE told
    /\ UNCHANGED <<table, reader, watched, seen, beatKeys, always>>

CeleryNext ==
    \/ MarkChange \/ CheckDatabase \/ ReadMarker \/ ReadEntries \/ KeepKeys
    \/ \E tasks \in SUBSET BeatTasks : EditSchedule(tasks)
    \/ \E e \in Executions : Prerun(e) \/ \E state \in States : Postrun(e, state)

CelerySpec == CeleryInit /\ [][CeleryNext]_celeryVars

(***************************************************************************)
(* Properties.                                                             *)
(***************************************************************************)
\* CeleryIntegration._entries: "a change made while the entries are read is seen next
\* time". A process that has nothing left to notice has the schedule there is.
ScheduleIsFollowed ==
    reader.at = "idle" /\ seen = table.change /\ ~table.unmarked => beatKeys = table.tasks

\* CeleryIntegration.discover: the keys are "replaced whole: a worker thread may be
\* reading it". Every attempt of a task that stays on the schedule is told, and its
\* end once, whatever else changes meanwhile.
KeptTasksAreTold ==
    \A e \in Executions :
        execution[e].stage = "over" /\ execution[e].task \in always =>
            /\ Len(told[e]) = execution[e].attempts + 1
            /\ \A n \in 1..execution[e].attempts : told[e][n] = "start"
            /\ told[e][execution[e].attempts + 1] # "start"
===============================================================================
