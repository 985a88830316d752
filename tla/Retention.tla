------------------------------- MODULE Retention -------------------------------
(***************************************************************************)
(* The nightly purge (retention.service.ts) of one project, beside what it *)
(* purges: heartbeats, incidents and the alerts of one channel. A pass is  *)
(* a sequence of statements, the first two in batches; any may fail, which *)
(* ends the pass. Days are whole.                                          *)
(***************************************************************************)
EXTENDS Integers, Sequences, FiniteSets

CONSTANTS
    DefaultDays,   \* PING_RETENTION_DAYS
    Settings,      \* what the project may ask for; 0 leaves it to the default
    Caps,          \* retentionDays of the owner's plan; 0 is none
    DeliveryDays,  \* 30 in PURGE_DELIVERIES_SQL
    RowsPerBatch,  \* BATCH_SIZE
    MaxBatch,      \* MAX_BATCHES
    Outages,       \* ids of incidents
    LongestOutage, \* days an outage lasts at most
    LastDay        \* bound

ASSUME RetentionAssumption ==
    /\ DefaultDays \in Nat \ {0} /\ Settings \subseteq Nat /\ Caps \subseteq Nat /\ DeliveryDays \in Nat
    /\ RowsPerBatch \in Nat \ {0} /\ MaxBatch \in Nat \ {0} /\ LongestOutage \in Nat /\ LastDay \in Nat
    /\ IsFiniteSet(Outages)

VARIABLES
    day,
    setting, cap,
    pings,    \* days with a heartbeat on record
    outages,  \* each incident and its deliveries
    pass,     \* what the purge is doing
    whole     \* whether nothing it goes by changed since this pass began, and no batches were left

retentionVars == <<day, setting, cap, pings, outages, pass, whole>>

Open == -1
NoDelivery == [status |-> "none", created |-> 0]
NoOutage == [state |-> "none", started |-> 0, resolved |-> Open, down |-> NoDelivery, up |-> NoDelivery, told |-> FALSE]
NoPass == [stage |-> "idle", batch |-> 0, began |-> 0]
Stages == {"idle", "pings", "incidents", "deliveries", "rest"}
Deliveries == [status : {"none", "pending", "sent", "failed"}, created : 0..LastDay]

RetentionTypeOK ==
    /\ day \in 0..LastDay /\ setting \in Settings /\ cap \in Caps
    /\ pings \subseteq 0..LastDay
    /\ outages \in [Outages -> [state : {"none", "there", "purged"}, started : 0..LastDay,
                                resolved : {Open} \cup (0..LastDay), down : Deliveries, up : Deliveries, told : BOOLEAN]]
    /\ pass \in [stage : Stages, batch : 0..MaxBatch, began : 0..LastDay]
    /\ whole \in BOOLEAN

RetentionInit ==
    /\ day = 0 /\ setting \in Settings /\ cap \in Caps /\ pings = {}
    /\ outages = [i \in Outages |-> NoOutage]
    /\ pass = NoPass /\ whole = TRUE

There(i) == outages[i].state = "there"

\* RETENTION_CTES: what the project asked for, capped by what the plan allows.
KeptDays ==
    LET asked == IF setting = 0 THEN DefaultDays ELSE setting
    IN IF cap # 0 /\ cap < asked THEN cap ELSE asked

(***************************************************************************)
(* The purge.                                                              *)
(***************************************************************************)
Overdue(d, kept) == d < day - kept

StartPass ==
    /\ pass = NoPass
    /\ pass' = [stage |-> "pings", batch |-> 0, began |-> day] /\ whole' = TRUE
    /\ UNCHANGED <<day, setting, cap, pings, outages>>

\* Mutant: a full batch is taken for the last.
LastBatchIfAny(rows) == rows <= RowsPerBatch

LastBatch(rows) == rows < RowsPerBatch

NextStage(rows, after) ==
    /\ pass' = IF LastBatch(rows) \/ pass.batch + 1 = MaxBatch THEN [pass EXCEPT !.stage = after, !.batch = 0]
               ELSE [pass EXCEPT !.batch = @ + 1]
    /\ whole' = (whole /\ (pass.batch + 1 = MaxBatch => LastBatch(rows)))

\* PURGE_PINGS_SQL: any of those, as many as a batch takes.
PurgePings ==
    LET doomed == {d \in pings : Overdue(d, KeptDays)} IN
    /\ pass.stage = "pings"
    /\ \E rows \in SUBSET doomed :
        /\ Cardinality(rows) = IF Cardinality(doomed) < RowsPerBatch THEN Cardinality(doomed) ELSE RowsPerBatch
        /\ pings' = pings \ rows
        /\ NextStage(Cardinality(rows), "incidents")
    /\ UNCHANGED <<day, setting, cap, outages>>

\* Mutant: by their start, open or not.
DoomedByStart == {i \in Outages : There(i) /\ Overdue(outages[i].started, KeptDays)}

DoomedOutages == {i \in Outages : There(i) /\ outages[i].resolved # Open /\ Overdue(outages[i].resolved, KeptDays)}

\* PURGE_INCIDENTS_SQL: deliveries go with them.
PurgeIncidents ==
    /\ pass.stage = "incidents"
    /\ \E rows \in SUBSET DoomedOutages :
        /\ Cardinality(rows) =
               IF Cardinality(DoomedOutages) < RowsPerBatch THEN Cardinality(DoomedOutages) ELSE RowsPerBatch
        /\ outages' = [i \in Outages |-> 
           IF i \in rows THEN [outages[i] EXCEPT !.state = "purged", !.down = NoDelivery, !.up = NoDelivery] ELSE outages[i]]
        /\ NextStage(Cardinality(rows), "deliveries")
    /\ UNCHANGED <<day, setting, cap, pings>>

\* Mutant: a day early.
FinishedEarly(delivery) == delivery.status \in {"sent", "failed"} /\ delivery.created <= day - DeliveryDays

Finished(delivery) == delivery.status \in {"sent", "failed"} /\ delivery.created < day - DeliveryDays

\* PURGE_DELIVERIES_SQL, whether the incident is open or not.
PurgeDeliveries ==
    /\ pass.stage = "deliveries"
    /\ outages' = [i \in Outages |-> [outages[i] EXCEPT !.down = IF Finished(@) THEN NoDelivery ELSE @,
                                                       !.up = IF Finished(@) THEN NoDelivery ELSE @]]
    /\ pass' = [pass EXCEPT !.stage = "rest"]
    /\ UNCHANGED <<day, setting, cap, pings, whole>>

\* Sessions, dead keys, setup links, sign-up attempts, audit events.
PurgeRest ==
    /\ pass.stage = "rest" /\ pass' = NoPass
    /\ UNCHANGED <<day, setting, cap, pings, outages, whole>>

\* Logged, and nothing after it is purged tonight.
PurgeFails ==
    /\ pass # NoPass /\ pass' = NoPass
    /\ UNCHANGED <<day, setting, cap, pings, outages, whole>>

(***************************************************************************)
(* What goes on meanwhile.                                                 *)
(***************************************************************************)
PingArrives ==
    /\ day \notin pings /\ pings' = pings \cup {day}
    /\ UNCHANGED <<day, setting, cap, outages, pass, whole>>

\* claimIncidents and enqueue.
OutageStarts(i) ==
    /\ outages[i].state = "none" /\ (\A j \in Outages : There(j) => outages[j].resolved # Open)
    /\ outages' = [outages EXCEPT ![i] = [NoOutage EXCEPT !.state = "there", !.started = day,
                                                          !.down = [status |-> "pending", created |-> day]]]
    /\ UNCHANGED <<day, setting, cap, pings, pass, whole>>

DownIsSent(i, status) ==
    /\ There(i) /\ outages[i].down.status = "pending" /\ status \in {"sent", "failed"}
    /\ outages' = [outages EXCEPT ![i].down.status = status, ![i].told = (status = "sent" /\ outages[i].resolved = Open)]
    /\ UNCHANGED <<day, setting, cap, pings, pass, whole>>

\* RESOLVE_SQL and ENQUEUE_SQL: the recovery goes to where a sent outage alert is on record.
OutageEnds(i) ==
    /\ There(i) /\ outages[i].resolved = Open
    /\ outages' = [outages EXCEPT ![i].resolved = day,
           ![i].up = IF outages[i].down.status = "sent" THEN [status |-> "pending", created |-> day] ELSE NoDelivery]
    /\ UNCHANGED <<day, setting, cap, pings, pass, whole>>

UpIsSent(i) ==
    /\ There(i) /\ outages[i].up.status = "pending"
    /\ outages' = [outages EXCEPT ![i].up.status = "sent", ![i].told = FALSE]
    /\ UNCHANGED <<day, setting, cap, pings, pass, whole>>

\* The owner edits the project, or changes plan.
Reconfigure ==
    /\ setting' \in Settings /\ cap' \in Caps /\ <<setting, cap>> # <<setting', cap'>>
    /\ whole' = FALSE
    /\ UNCHANGED <<day, pings, outages, pass>>

\* What is queued is settled the same day: its attempts are spent within hours.
DayPasses ==
    /\ day < LastDay /\ day' = day + 1
    /\ \A i \in Outages : There(i) /\ outages[i].resolved = Open => day - outages[i].started < LongestOutage
    /\ \A i \in Outages : outages[i].down.status # "pending" /\ outages[i].up.status # "pending"
    /\ UNCHANGED <<setting, cap, pings, outages, pass, whole>>

RetentionNext ==
    \/ StartPass \/ PurgePings \/ PurgeIncidents \/ PurgeDeliveries \/ PurgeRest \/ PurgeFails
    \/ PingArrives \/ Reconfigure \/ DayPasses
    \/ \E i \in Outages :
        \/ OutageStarts(i) \/ OutageEnds(i) \/ UpIsSent(i)
        \/ \E status \in {"sent", "failed"} : DownIsSent(i, status)

RetentionSpec == RetentionInit /\ [][RetentionNext]_retentionVars

(***************************************************************************)
(* Properties.                                                             *)
(***************************************************************************)
\* ENQUEUE_SQL looks for the outage alert that the purge deletes: who was told of an
\* outage is told of its end (or is about to be), however the purge falls between the
\* two. Not so for an outage that is longer than deliveries are kept.
RecoveryReachesWhoWasTold ==
    \A i \in Outages :
        There(i) /\ outages[i].told /\ outages[i].resolved # Open => outages[i].up.status # "none"

\* RetentionService: where a pass has been, with nothing it goes by changed meanwhile and
\* batches to spare, nothing of before the window of its day is left; and no outage that
\* was still open is ever gone.
PassLeavesTheWindow ==
    /\ whole /\ pass.stage \in {"incidents", "deliveries", "rest"} =>
           \A d \in pings : ~(d < pass.began - KeptDays)
    /\ whole /\ pass.stage \in {"deliveries", "rest"} =>
           \A i \in Outages : There(i) /\ outages[i].resolved # Open => ~(outages[i].resolved < pass.began - KeptDays)
    /\ \A i \in Outages : outages[i].state = "purged" => outages[i].resolved # Open
===============================================================================
