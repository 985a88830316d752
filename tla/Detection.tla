------------------------------ MODULE Detection ------------------------------
(***************************************************************************)
(* Silence detection (detection.service.ts).                               *)
(*                                                                         *)
(* Every server instance runs the same tick against one PostgreSQL         *)
(* database: advance overdue checks in batches, open an incident for every *)
(* DOWN check that has none, resolve the incidents of checks that came     *)
(* back.  Each statement is split where another session can get in         *)
(* between: the snapshot a statement reads and the rows it then locks, the *)
(* rows it locks and its commit, the commit of an incident and the         *)
(* separate statement that queues its alerts.                              *)
(*                                                                         *)
(* Pings and edits of checks are single statements of other sessions; they *)
(* wait for a row lock, they never skip it.                                *)
(***************************************************************************)
EXTENDS Integers, FiniteSets

CONSTANTS
    Schedules,      \* the schedules a check may be given: records [type, period]
    Grace,          \* grace_seconds, in units of the clock
    Checks,
    Servers,
    BatchSize,      \* DETECTION_BATCH_SIZE
    MaxBatches,     \* the bound of advanceOverdueChecks' loop (25 in the code)
    MaxIncidents,   \* bound: incidents a check may have over a behaviour
    MaxFailures,    \* bound: ticks that fail over a behaviour
    MaxTime         \* bound: the last instant of the clock

\* For the value of Schedules: a job that runs in every unit of the clock, and
\* one that runs in every second.
IntervalOnly == {[type |-> "interval", period |-> 1]}
CronOnly == {[type |-> "cron", period |-> 2]}

ASSUME ScheduleAssumption ==
    /\ Schedules \subseteq [type : {"interval", "cron"}, period : Nat \ {0}]
    /\ Grace \in Nat

ASSUME DetectionAssumption ==
    /\ BatchSize \in Nat \ {0}
    /\ MaxBatches \in Nat \ {0}
    /\ MaxIncidents \in Nat
    /\ MaxFailures \in Nat
    /\ MaxTime \in Nat

VARIABLES
    now,        \* the database clock
    check,      \* the "check" table
    incident,   \* the incident table
    tick,       \* what each instance's tick is doing
    failures    \* how many ticks have failed

detectionVars == <<now, check, incident, tick, failures>>

-----------------------------------------------------------------------------
(* One row of the "check" table, and what each UPDATE does to it.  Times   *)
(* are natural numbers; a NULL deadline is the value Never.                *)

States == {"NEW", "UP", "LATE", "DOWN", "PAUSED"}

\* The kinds of ping_kind; "none" stands for a check that never reported.
Kinds == {"start", "success", "fail"}

\* SQL NULL in next_due_at.
Never == -1

Deadlines == Nat \cup {Never}

(***************************************************************************)
(* lastPing is the kind of the newest row of the ping table, which is      *)
(* written in the same statement as the check row.                         *)
(***************************************************************************)
Rows == [state     : States,
         nextDueAt : Deadlines,
         schedule  : Schedules,
         lastPing  : Kinds \cup {"none"}]

(***************************************************************************)
(* The instant by which the next heartbeat must have arrived.  An interval *)
(* runs from the last signal; a cron expression names absolute instants,   *)
(* here the multiples of its period, and the next one lies strictly after. *)
(***************************************************************************)
computeNextDueAt(schedule, from) ==
    IF schedule.type = "interval"
    THEN from + schedule.period
    ELSE ((from \div schedule.period) + 1) * schedule.period

NewRow(schedule, at) ==
    [state     |-> "NEW",
     nextDueAt |-> computeNextDueAt(schedule, at),
     schedule  |-> schedule,
     lastPing  |-> "none"]

-----------------------------------------------------------------------------
(* Ingestion.                                                              *)

\* What a recorded ping makes of the row.  A /start says only that a run
\* began: state and deadline stay as they are.
Pinged(row, kind, due) ==
    IF kind = "start"
    THEN [row EXCEPT !.lastPing = "start"]
    ELSE [row EXCEPT !.lastPing  = kind,
                     !.nextDueAt = due,
                     !.state     = IF kind = "fail" THEN "DOWN" ELSE "UP"]

-----------------------------------------------------------------------------
(* The checks API.                                                         *)

\* { paused: true }: the deadline is kept.
Paused(row) == [row EXCEPT !.state = "PAUSED"]

\* { paused: false } on a paused check: the clock restarts.
Resumed(row, at) ==
    [row EXCEPT !.state     = "NEW",
                !.nextDueAt = computeNextDueAt(row.schedule, at)]

\* A new schedule moves the deadline and leaves the state alone.
Rescheduled(row, schedule, at) ==
    [row EXCEPT !.schedule  = schedule,
                !.nextDueAt = computeNextDueAt(schedule, at)]

-----------------------------------------------------------------------------
(* Detection.                                                              *)

\* The deadline plus grace is spent at time t.
GraceSpent(row, t) == row.nextDueAt # Never /\ row.nextDueAt + Grace <= t

\* Mutant: a LATE check is not looked at again.
OverdueOnce(row, t) ==
    row.nextDueAt # Never /\ row.nextDueAt < t /\ row.state \in {"UP", "NEW"}

\* The rows ADVANCE_SQL selects at time t.
Overdue(row, t) ==
    /\ row.nextDueAt # Never
    /\ row.nextDueAt < t
    /\ row.state \in {"UP", "NEW", "LATE"}
    /\ row.state = "LATE" => GraceSpent(row, t)

\* Mutant: the kind of the ping is stored as it is.
CauseUnclassified(row) == row.lastPing

\* Why an incident is opened, from the newest ping.
CauseOf(row) == IF row.lastPing = "fail" THEN "reported" ELSE "missed"

-----------------------------------------------------------------------------
(* Incidents and ticks.                                                    *)

\* The n-th incident of a check.
IncidentIds == Checks \X (1 .. MaxIncidents)

IncidentRows == [status : {"none", "open", "resolved"},
                 cause  : {"missed", "reported"}]

TickPhases == {"idle", "advance", "commit", "open", "insert", "enqueueDown",
               "resolve", "close", "enqueueUp"}

(***************************************************************************)
(* A tick's local state: batch counts the batches done, rows are the       *)
(* checks it holds or has read, down those of them it will write DOWN,     *)
(* causes what it read about their last ping, refs the incidents it has    *)
(* read or claimed.                                                        *)
(***************************************************************************)
Ticks == [pc     : TickPhases,
          batch  : Nat,
          rows   : SUBSET Checks,
          down   : SUBSET Checks,
          causes : [Checks -> {"missed", "reported"}],
          refs   : SUBSET IncidentIds]

IdleTick == [pc     |-> "idle",
             batch  |-> 0,
             rows   |-> {},
             down   |-> {},
             causes |-> [c \in Checks |-> "missed"],
             refs   |-> {}]

DetectionTypeOK ==
    /\ now \in Nat
    /\ check \in [Checks -> Rows]
    /\ incident \in [IncidentIds -> IncidentRows]
    /\ tick \in [Servers -> Ticks]
    /\ failures \in Nat

\* Checks exist, freshly created, on any of the schedules.
DetectionInit ==
    /\ now = 0
    /\ \E schedule \in [Checks -> Schedules] :
          check = [c \in Checks |-> NewRow(schedule[c], 0)]
    /\ incident = [i \in IncidentIds |-> [status |-> "none", cause |-> "missed"]]
    /\ tick = [s \in Servers |-> IdleTick]
    /\ failures = 0

-----------------------------------------------------------------------------
(* Reading the tables.                                                     *)

\* The check has an incident that is not resolved.
HasOpenIncident(c) ==
    \E n \in 1 .. MaxIncidents : incident[<<c, n>>].status = "open"

\* Mutant: rows are selected without FOR UPDATE.
LockedByNobody(c) == FALSE

\* A tick's open transaction holds the row lock of the check.
Locked(c) == \E s \in Servers : tick[s].pc = "commit" /\ c \in tick[s].rows

\* The ways a LIMIT of BatchSize can cut a set of candidates.
Limited(S) ==
    {T \in SUBSET S : \/ T = S /\ Cardinality(S) <= BatchSize
                      \/ Cardinality(T) = BatchSize}

\* The same, ORDER BY next_due_at.
OldestFirst(S) ==
    {T \in Limited(S) :
        \A c \in T, d \in S \ T : check[c].nextDueAt <= check[d].nextDueAt}

\* The id a new incident of the check gets.
IsFreshIncident(c, n) ==
    /\ incident[<<c, n>>].status = "none"
    /\ \A m \in 1 .. (n - 1) : incident[<<c, m>>].status # "none"

-----------------------------------------------------------------------------
(* The tick.                                                               *)

SetTick(s, t) == tick' = [tick EXCEPT ![s] = t]

StartTick(s) ==
    /\ tick[s].pc = "idle"
    /\ SetTick(s, [tick[s] EXCEPT !.pc = "advance"])
    /\ UNCHANGED <<now, check, incident, failures>>

\* BEGIN, and the SELECT ... FOR UPDATE SKIP LOCKED LIMIT of ADVANCE_SQL: the
\* next state of every row is decided here, from the row as it was locked.
LockOverdue(s) ==
    /\ tick[s].pc = "advance"
    /\ \E rows \in OldestFirst({c \in Checks : Overdue(check[c], now) /\ ~Locked(c)}) :
          SetTick(s, [tick[s] EXCEPT
                        !.pc   = "commit",
                        !.rows = rows,
                        !.down = {c \in rows : GraceSpent(check[c], now)}])
    /\ UNCHANGED <<now, check, incident, failures>>

\* Every selected row transitions, so a short batch means drained.
Drained(s) ==
    \/ Cardinality(tick[s].rows) < BatchSize
    \/ tick[s].batch + 1 >= MaxBatches

\* The UPDATE of ADVANCE_SQL and COMMIT.
AdvanceOverdue(s) ==
    /\ tick[s].pc = "commit"
    /\ check' = [c \in Checks |->
                    IF c \in tick[s].rows
                    THEN [check[c] EXCEPT
                            !.state = IF c \in tick[s].down THEN "DOWN" ELSE "LATE"]
                    ELSE check[c]]
    /\ SetTick(s, [tick[s] EXCEPT
                      !.pc    = IF Drained(s) THEN "open" ELSE "advance",
                      !.batch = IF Drained(s) THEN 0 ELSE @ + 1,
                      !.rows  = {},
                      !.down  = {}])
    /\ UNCHANGED <<now, incident, failures>>

\* The snapshot OPEN_INCIDENTS_SQL reads: checks, open incidents and pings.
ReadDownChecks(s) ==
    /\ tick[s].pc = "open"
    /\ SetTick(s, [tick[s] EXCEPT
            !.pc     = "insert",
            !.rows   = {c \in Checks : check[c].state = "DOWN" /\ ~HasOpenIncident(c)},
            !.causes = [c \in Checks |-> CauseOf(check[c])]])
    /\ UNCHANGED <<now, check, incident, failures>>

\* Mutant: the candidates as they were read, without FOR UPDATE OF c.
StillDownAsRead(s) ==
    {c \in tick[s].rows : \E n \in 1 .. MaxIncidents : incident[<<c, n>>].status = "none"}

\* The candidates still DOWN when their row is locked.  Bound: a check whose
\* ids are spent is not a candidate.
StillDown(s) ==
    {c \in tick[s].rows :
        /\ check[c].state = "DOWN"
        /\ ~Locked(c)
        /\ \E n \in 1 .. MaxIncidents : incident[<<c, n>>].status = "none"}

\* Mutant: no unique index.
InsertableUnindexed(candidates) == candidates

\* Rows the unique partial index on open incidents lets in (ON CONFLICT DO
\* NOTHING drops the others).
Insertable(candidates) == {c \in candidates : ~HasOpenIncident(c)}

\* The locks, the INSERT of OPEN_INCIDENTS_SQL and COMMIT.
OpenIncidents(s) ==
    /\ tick[s].pc = "insert"
    /\ \E candidates \in Limited(StillDown(s)) :
          LET opened == {i \in IncidentIds : /\ i[1] \in Insertable(candidates)
                                             /\ IsFreshIncident(i[1], i[2])}
          IN  /\ incident' = [i \in IncidentIds |->
                                IF i \in opened
                                THEN [status |-> "open", cause |-> tick[s].causes[i[1]]]
                                ELSE incident[i]]
              /\ SetTick(s, [tick[s] EXCEPT
                    !.pc     = IF opened = {} THEN "resolve" ELSE "enqueueDown",
                    !.rows   = {},
                    !.causes = IdleTick.causes,
                    !.refs   = opened])
    /\ UNCHANGED <<now, check, failures>>

\* notifications.enqueue(opened, 'down'), a statement of its own.
EnqueueDown(s) ==
    /\ tick[s].pc = "enqueueDown"
    /\ SetTick(s, [tick[s] EXCEPT !.pc = "resolve", !.refs = {}])
    /\ UNCHANGED <<now, check, incident, failures>>

\* Mutant: only a pause ends an incident.
RecoveredByPause(i) == incident[i].status = "open" /\ check[i[1]].state = "PAUSED"

\* The incidents whose check came back or was paused.
Recovered(i) == incident[i].status = "open" /\ check[i[1]].state \in {"UP", "PAUSED"}

\* The snapshot RESOLVE_INCIDENTS_SQL reads.
ReadRecovered(s) ==
    /\ tick[s].pc = "resolve"
    /\ SetTick(s, [tick[s] EXCEPT
            !.pc   = "close",
            !.refs = {i \in IncidentIds : Recovered(i)}])
    /\ UNCHANGED <<now, check, incident, failures>>

\* Only the incident is locked and re-examined, not the check.
ResolveIncidents(s) ==
    /\ tick[s].pc = "close"
    /\ \E resolved \in Limited({i \in tick[s].refs : incident[i].status = "open"}) :
          /\ incident' = [i \in IncidentIds |->
                            IF i \in resolved
                            THEN [incident[i] EXCEPT !.status = "resolved"]
                            ELSE incident[i]]
          /\ SetTick(s, [tick[s] EXCEPT
                !.pc   = IF resolved = {} THEN "idle" ELSE "enqueueUp",
                !.refs = resolved])
    /\ UNCHANGED <<now, check, failures>>

\* notifications.enqueue(resolved, 'up'), a statement of its own.
EnqueueUp(s) ==
    /\ tick[s].pc = "enqueueUp"
    /\ SetTick(s, IdleTick)
    /\ UNCHANGED <<now, check, incident, failures>>

\* A statement throws or the process dies: the open transaction rolls back,
\* IntervalRunner logs it, and the next tick starts from the top.
TickFails(s) ==
    /\ tick[s].pc # "idle"
    /\ failures < MaxFailures
    /\ SetTick(s, IdleTick)
    /\ failures' = failures + 1
    /\ UNCHANGED <<now, check, incident>>

TickStep(s) ==
    \/ StartTick(s)
    \/ LockOverdue(s)
    \/ AdvanceOverdue(s)
    \/ ReadDownChecks(s)
    \/ OpenIncidents(s)
    \/ EnqueueDown(s)
    \/ ReadRecovered(s)
    \/ ResolveIncidents(s)
    \/ EnqueueUp(s)

-----------------------------------------------------------------------------
(* The other sessions.                                                     *)

ClockTick ==
    /\ now < MaxTime
    /\ now' = now + 1
    /\ UNCHANGED <<check, incident, tick, failures>>

\* INGEST_SQL, which leaves a paused check alone.
Ping(c, kind) ==
    /\ ~Locked(c)
    /\ check[c].state # "PAUSED"
    /\ check' = [check EXCEPT
            ![c] = Pinged(@, kind, computeNextDueAt(@.schedule, now))]
    /\ UNCHANGED <<now, incident, tick, failures>>

\* The writes of ChecksService.update.
Pause(c) ==
    /\ ~Locked(c)
    /\ check' = [check EXCEPT ![c] = Paused(@)]
    /\ UNCHANGED <<now, incident, tick, failures>>

Resume(c) ==
    /\ ~Locked(c)
    /\ check[c].state = "PAUSED"
    /\ check' = [check EXCEPT ![c] = Resumed(@, now)]
    /\ UNCHANGED <<now, incident, tick, failures>>

Reschedule(c, schedule) ==
    /\ ~Locked(c)
    /\ check' = [check EXCEPT ![c] = Rescheduled(@, schedule, now)]
    /\ UNCHANGED <<now, incident, tick, failures>>

OtherSessions ==
    \/ ClockTick
    \/ \E c \in Checks, kind \in Kinds : Ping(c, kind)
    \/ \E c \in Checks : Pause(c)
    \/ \E c \in Checks : Resume(c)
    \/ \E c \in Checks, schedule \in Schedules : Reschedule(c, schedule)

DetectionNext ==
    \/ OtherSessions
    \/ \E s \in Servers : TickStep(s)
    \/ \E s \in Servers : TickFails(s)

DetectionSpec == DetectionInit /\ [][DetectionNext]_detectionVars

(***************************************************************************)
(* setInterval keeps starting ticks and a started statement returns; the   *)
(* failures of a behaviour are finitely many.  Nothing is assumed of the   *)
(* clock, of the jobs that ping or of the people who edit checks.          *)
(***************************************************************************)
FairDetectionSpec ==
    DetectionSpec /\ \A s \in Servers : WF_detectionVars(TickStep(s))

-----------------------------------------------------------------------------
(* Properties.                                                             *)

(***************************************************************************)
(* Two instances that both found a DOWN check without an incident never    *)
(* leave it with two open ones, whatever statements and rollbacks come in  *)
(* between (OPEN_INCIDENTS_SQL, incident_open_per_check_uniq).             *)
(***************************************************************************)
OneOpenIncident ==
    \A c \in Checks, m, n \in 1 .. MaxIncidents :
        /\ incident[<<c, m>>].status = "open"
        /\ incident[<<c, n>>].status = "open"
        => m = n

(***************************************************************************)
(* No false alarm: a heartbeat, a resume or a new schedule that lands      *)
(* while a tick is about to write LATE or DOWN is never overwritten by     *)
(* what the tick had read.  A check goes LATE only past the deadline it    *)
(* has at that moment, and DOWN only past its grace or by a /fail (the row *)
(* locks of ADVANCE_SQL).                                                  *)
(***************************************************************************)
NoFalseAlarm ==
    [][\A c \in Checks :
          /\ check[c].state # "LATE" /\ check'[c].state = "LATE"
             => check[c].nextDueAt # Never /\ check[c].nextDueAt < now
          /\ check[c].state # "DOWN" /\ check'[c].state = "DOWN"
             => Ping(c, "fail") \/ GraceSpent(check[c], now)]_detectionVars

(***************************************************************************)
(* An incident is opened only for a check that is down at that moment: one *)
(* that recovered after the tick read it is dropped (the row lock and      *)
(* re-check of OPEN_INCIDENTS_SQL).                                        *)
(***************************************************************************)
NoIncidentForHealthyCheck ==
    [][\A i \in IncidentIds :
          incident[i].status # "open" /\ incident'[i].status = "open"
          => check[i[1]].state = "DOWN"]_detectionVars

\* The check has missed its deadline and grace, and nobody paused it.
Silent(c) ==
    /\ check[c].state # "PAUSED"
    /\ check[c].nextDueAt < now
    /\ GraceSpent(check[c], now)

\* Bound: the check still has an incident id to use.
HasRoom(c) == \E n \in 1 .. MaxIncidents : incident[<<c, n>>].status = "none"

(***************************************************************************)
(* Silence is noticed: a check that stays silent ends up with an open      *)
(* incident, although ticks fail, run concurrently, and take bounded       *)
(* batches.                                                                *)
(***************************************************************************)
SilenceIsNoticed ==
    \A c \in Checks :
        Silent(c) ~> (HasOpenIncident(c) \/ ~Silent(c) \/ ~HasRoom(c))

(***************************************************************************)
(* Recovery is noticed: the incident of a check that stays up (or paused)  *)
(* is eventually resolved.                                                 *)
(***************************************************************************)
RecoveryIsNoticed ==
    \A c \in Checks :
        (HasOpenIncident(c) /\ check[c].state \in {"UP", "PAUSED"})
        ~> (~HasOpenIncident(c) \/ check[c].state \notin {"UP", "PAUSED"})

(***************************************************************************)
(* What happens is noticed, in either direction (tick()).                  *)
(***************************************************************************)
EverythingIsNoticed == SilenceIsNoticed /\ RecoveryIsNoticed

=============================================================================
