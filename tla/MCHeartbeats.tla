----------------------------- MODULE MCHeartbeats -----------------------------
(***************************************************************************)
(* Where heartbeats go and what comes of those that do not: Ingestion with *)
(* its cache, and detection with the queue (Alerting) while a tick fails.  *)
(* A behaviour here is one of one of them.                                 *)
(***************************************************************************)
EXTENDS Ingestion, Alerting, TLC

VARIABLE part  \* the component that moves

heartbeatsVars == <<part, ingestionVars, alertingVars>>

\* The one that does not move has no state.
Off == 0

HeartbeatsInit ==
    /\ part \in {"Ingestion", "Alerting"}
    /\ IF part = "Ingestion" THEN IngestionInit
       ELSE /\ row = Off /\ cache = Off /\ load = Off /\ heard = Off /\ listening = Off /\ edited = Off
            /\ request = Off /\ sinceEdit = Off /\ breaks = Off
    /\ IF part = "Alerting" THEN AlertingInit
       ELSE /\ now = Off /\ check = Off /\ incident = Off /\ tick = Off /\ failures = Off
            /\ delivery = Off /\ enabled = Off /\ worker = Off /\ counted = Off /\ told = Off /\ losses = Off

HeartbeatsNext ==
    \/ part = "Ingestion" /\ IngestionNext /\ UNCHANGED <<part, alertingVars>>
    \/ part = "Alerting" /\ AlertingNext /\ UNCHANGED <<part, ingestionVars>>

HeartbeatsSpec == HeartbeatsInit /\ [][HeartbeatsNext]_heartbeatsVars

HeartbeatsTypeOK ==
    /\ part = "Ingestion" => IngestionTypeOK
    /\ part = "Alerting" => AlertingTypeOK

\* CheckMetadataCache, DetectionService: what the cache serves is so or was so a moment
\* ago, and what is queued is of an incident in that stage, though a tick fails.
NothingIsMadeUp ==
    /\ part = "Ingestion" => CacheIsTrue
    /\ part = "Alerting" => AlertsMatchIncidents

\* IngestService.ingest: the deadline a heartbeat writes is that of the schedule of its
\* check, or of one that was replaced a moment ago.
DeadlinesAreOfSchedules == [][part = "Ingestion" => DeadlineBySchedule]_heartbeatsVars

HeartbeatsSymmetry == Permutations(Requests)
===============================================================================
