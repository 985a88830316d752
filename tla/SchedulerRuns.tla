---------------------------- MODULE SchedulerRuns -----------------------------
(***************************************************************************)
(* The APScheduler integration: the jobs are read again a moment after the *)
(* last of a burst of changes, and the scheduler's events become a start   *)
(* and an outcome for every run. APScheduler is modelled from the events   *)
(* it sends; a run it was late for may be submitted with the next one.     *)
(***************************************************************************)
EXTENDS Integers, Sequences, FiniteSets

CONSTANTS
    ApJobs,
    MaxJobEdits,     \* bound: jobs added or removed
    MaxSubmissions,  \* bound: moments at which the executor accepts runs
    SlowReads        \* whether reading the jobs may outlast the timer

ASSUME SchedulerAssumption == MaxJobEdits \in Nat /\ MaxSubmissions \in Nat /\ SlowReads \in BOOLEAN

VARIABLES
    ap,        \* the scheduler: its jobs, whether it runs, an event not yet handled
    edits,
    timer,     \* _timer, which is kept after it fired
    readings,  \* calls of register under way: the jobs each has read, in the order they began
    apKeys,    \* _keys
    now,       \* the moment of the last submission
    started,   \* _started
    going,     \* runs under way: their job, the time they were scheduled for, their submission
    ends       \* outcomes told: the run, whether it had a key at both ends, and since when it was timed

schedulerVars == <<ap, edits, timer, readings, apKeys, now, started, going, ends>>

Times == 1..2 * MaxSubmissions
NoMoment == 0
ApRuns == [job : ApJobs, time : Times, since : 1..MaxSubmissions, known : BOOLEAN]

SchedulerTypeOK ==
    /\ ap \in [jobs : SUBSET ApJobs, up : BOOLEAN, unheard : BOOLEAN] /\ edits \in 0..MaxJobEdits
    /\ timer \in {"off", "armed", "fired"} /\ readings \in Seq([read : BOOLEAN, jobs : SUBSET ApJobs])
    /\ apKeys \subseteq ApJobs /\ now \in 0..MaxSubmissions
    /\ started \in [ApJobs \X Times -> 0..MaxSubmissions]
    /\ going \subseteq ApRuns
    /\ \A told \in ends : told.run \in ApRuns /\ told.from \in 0..MaxSubmissions

SchedulerInit ==
    /\ \E jobs \in SUBSET ApJobs : ap = [jobs |-> jobs, up |-> FALSE, unheard |-> FALSE]
    /\ edits = 0 /\ timer = "off" /\ readings = <<>> /\ apKeys = {} /\ now = 0
    /\ started = [run \in ApJobs \X Times |-> NoMoment] /\ going = {} /\ ends = {}

ReadAgain == readings' = Append(readings, [read |-> FALSE, jobs |-> {}])

\* EVENT_SCHEDULER_STARTED.
StartScheduler ==
    /\ ~ap.up
    /\ ap' = [ap EXCEPT !.up = TRUE]
    /\ ReadAgain
    /\ UNCHANGED <<edits, timer, apKeys, now, started, going, ends>>

\* The application adds or removes a job; the event follows. Before the scheduler runs
\* a change is only part of what it starts with.
EditJobs(jobs) ==
    /\ edits < MaxJobEdits /\ jobs # ap.jobs /\ ~ap.unheard
    /\ edits' = edits + 1
    /\ ap' = [ap EXCEPT !.jobs = jobs, !.unheard = ap.up]
    /\ UNCHANGED <<timer, readings, apKeys, now, started, going, ends>>

\* Mutant: a timer there was is left alone.
ArmedOnce == IF timer = "off" THEN "armed" ELSE timer

Rearmed == "armed"

\* EVENT_JOB_ADDED, EVENT_JOB_REMOVED: _schedule_redeclaration, the timer starts over.
OnJobsChanged ==
    /\ ap.unheard
    /\ ap' = [ap EXCEPT !.unheard = FALSE]
    /\ timer' = Rearmed
    /\ UNCHANGED <<edits, readings, apKeys, now, started, going, ends>>

TimerFires ==
    /\ timer = "armed" /\ (readings = <<>> \/ SlowReads)
    /\ timer' = "fired"
    /\ ReadAgain
    /\ UNCHANGED <<ap, edits, apKeys, now, started, going, ends>>

\* APSchedulerIntegration.discover: scheduler.get_jobs, then the keys.
ReadJobs(n) ==
    /\ ~readings[n].read
    /\ readings' = [readings EXCEPT ![n] = [read |-> TRUE, jobs |-> ap.jobs]]
    /\ UNCHANGED <<ap, edits, timer, apKeys, now, started, going, ends>>

KeepJobs(n) ==
    /\ readings[n].read
    /\ apKeys' = readings[n].jobs
    /\ readings' = SubSeq(readings, 1, n - 1) \o SubSeq(readings, n + 1, Len(readings))
    /\ UNCHANGED <<ap, edits, timer, now, started, going, ends>>

\* Mutant: a job's runs share one start.
EntryOfJob(job, time) == <<job, 1>>

Entry(job, time) == <<job, time>>

\* EVENT_JOB_SUBMITTED, for one scheduled time or two.
SubmitRuns(job, times) ==
    /\ ap.up /\ job \in ap.jobs /\ now < MaxSubmissions
    /\ now' = now + 1
    /\ LET run(time) == [job |-> job, time |-> time, since |-> now + 1, known |-> job \in apKeys] IN
       going' = going \cup {run(2 * now + n) : n \in 1..times}
    /\ started' = IF job \notin apKeys THEN started
                  ELSE [entry \in ApJobs \X Times |->
                           IF \E n \in 1..times : entry = Entry(job, 2 * now + n) THEN now + 1 ELSE started[entry]]
    /\ UNCHANGED <<ap, edits, timer, readings, apKeys, ends>>

\* EVENT_JOB_EXECUTED, EVENT_JOB_ERROR: one for each scheduled time.
RunEnds(run) ==
    /\ run \in going
    /\ going' = going \ {run}
    /\ IF run.job \in apKeys
       THEN /\ ends' = ends \cup {[run |-> run, from |-> started[Entry(run.job, run.time)]]}
            /\ started' = [started EXCEPT ![Entry(run.job, run.time)] = NoMoment]
       ELSE UNCHANGED <<ends, started>>
    /\ UNCHANGED <<ap, edits, timer, readings, apKeys, now>>

SchedulerNext ==
    \/ StartScheduler \/ OnJobsChanged \/ TimerFires
    \/ \E jobs \in SUBSET ApJobs : EditJobs(jobs)
    \/ \E n \in DOMAIN readings : ReadJobs(n) \/ KeepJobs(n)
    \/ \E job \in ApJobs : \E times \in 1..2 : SubmitRuns(job, times)
    \/ \E run \in going : RunEnds(run)

SchedulerSpec == SchedulerInit /\ [][SchedulerNext]_schedulerVars

(***************************************************************************)
(* Properties.                                                             *)
(***************************************************************************)
\* apscheduler.py: jobs are declared "again, a couple of seconds later, whenever a job is
\* added or removed". When nothing more is to come, the jobs watched are the scheduler's.
JobsAreFollowed ==
    ap.up /\ ~ap.unheard /\ timer # "armed" /\ readings = <<>> => apKeys = ap.jobs

\* APSchedulerIntegration._on_run: a run is timed "from the moment the executor accepted
\* it", also when it overlaps another run of its job or was submitted along with one.
RunsAreTimedFromTheirOwnStart ==
    \A told \in ends : told.from = IF told.run.known THEN told.run.since ELSE NoMoment
===============================================================================
