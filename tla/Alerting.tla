------------------------------ MODULE Alerting ------------------------------
(***************************************************************************)
(* Detection and the alert queue together, from the first silence to the   *)
(* message a person reads.  Both run on every instance and share the       *)
(* database; the detection tick calls enqueue() as a statement of its own, *)
(* after the transaction that opened or resolved the incidents.            *)
(***************************************************************************)
EXTENDS Detection

CONSTANTS
    Channels,
    ClaimBatch,
    MaxAttempts,
    Lease,
    SendTimeout,
    BackoffBase,
    BackoffCap,
    Ceiling,
    Hour,
    MaxLosses

VARIABLES delivery, enabled, worker, counted, told, losses

Q == INSTANCE NotificationQueue WITH Incidents <- IncidentIds

ASSUME AlertingAssumption == Q!QueueAssumption

queueVars == <<delivery, enabled, worker, counted, told, losses>>

alertingVars == <<detectionVars, queueVars>>

AlertingTypeOK == DetectionTypeOK /\ Q!QueueTypeOK

AlertingInit == DetectionInit /\ Q!QueueInit

-----------------------------------------------------------------------------

\* The steps of a tick that write only the tables detection owns.
SilentTickStep(s) ==
    /\ \/ StartTick(s)
       \/ LockOverdue(s)
       \/ AdvanceOverdue(s)
       \/ ReadDownChecks(s)
       \/ OpenIncidents(s)
       \/ ReadRecovered(s)
       \/ ResolveIncidents(s)
    /\ UNCHANGED queueVars

\* openIncidents() and resolveIncidents() hand over what they claimed.
AnnounceDown(s) == EnqueueDown(s) /\ Q!Enqueue(tick[s].refs, "down")

\* Mutant: the claimed incidents are cleared before they are handed over.
AnnounceUpCleared(s) == EnqueueUp(s) /\ Q!Enqueue({}, "up")

AnnounceUp(s) == EnqueueUp(s) /\ Q!Enqueue(tick[s].refs, "up")

AlertingTick(s) == SilentTickStep(s) \/ AnnounceDown(s) \/ AnnounceUp(s)

\* One clock for both.  Bound: past MaxTime only the queue's timers move.
AlertingClock ==
    /\ Q!QueueClock
    /\ now' = IF now < MaxTime THEN now + 1 ELSE now
    /\ UNCHANGED <<check, incident, tick, failures>>

\* A tick that fails, pings and edits of checks do not touch the queue.
DetectionAside ==
    /\ \/ \E s \in Servers : TickFails(s)
       \/ \E c \in Checks, kind \in Kinds : Ping(c, kind)
       \/ \E c \in Checks : Pause(c)
       \/ \E c \in Checks : Resume(c)
       \/ \E c \in Checks, schedule \in Schedules : Reschedule(c, schedule)
    /\ UNCHANGED queueVars

AlertingNext ==
    \/ \E s \in Servers : AlertingTick(s)
    \/ \E s \in Servers : Q!DrainStep(s) /\ UNCHANGED detectionVars
    \/ \E s \in Servers : Q!Loss(s) /\ UNCHANGED detectionVars
    \/ \E ch \in Channels : Q!SetEnabled(ch) /\ UNCHANGED detectionVars
    \/ AlertingClock
    \/ DetectionAside

AlertingSpec == AlertingInit /\ [][AlertingNext]_alertingVars

(***************************************************************************)
(* The loops keep running and time passes; nothing is assumed of jobs,     *)
(* people or providers.                                                    *)
(***************************************************************************)
FairAlertingSpec ==
    /\ AlertingSpec
    /\ WF_alertingVars(AlertingClock)
    /\ \A s \in Servers : WF_alertingVars(AlertingTick(s))
    /\ \A s \in Servers : WF_queueVars(Q!DrainStep(s))

-----------------------------------------------------------------------------
(* Properties.                                                             *)

(***************************************************************************)
(* The messages of one incident agree with the incident: nothing is queued *)
(* for an incident that was never committed, a recovery is queued only for *)
(* an incident that is resolved, and by then the outage has reached        *)
(* somebody (claimIncidents commits before enqueue() runs; ENQUEUE_SQL).   *)
(***************************************************************************)
AlertsMatchIncidents ==
    \A i \in IncidentIds, ch \in Channels :
        /\ delivery[<<i, ch, "down">>].status # "absent" => incident[i].status # "none"
        /\ delivery[<<i, ch, "up">>].status # "absent"
           => /\ incident[i].status = "resolved"
              /\ \E c \in Channels : told[<<i, c, "down">>] > 0

\* Nobody can be told: no channel of the project is enabled.
Muted == \A ch \in Channels : ~enabled[ch]

\* The alert of the incident exists, whatever became of it.
Raised(i, kind) == \E ch \in Channels : delivery[<<i, ch, kind>>].status # "absent"

(***************************************************************************)
(* Every incident is raised: an incident that was opened is eventually     *)
(* queued to some channel, if the project always has an enabled one        *)
(* (openIncidents).                                                        *)
(***************************************************************************)
EveryIncidentIsRaised ==
    []~Muted => \A i \in IncidentIds : incident[i].status = "open" ~> Raised(i, "down")

\* The outage's alert has gone as far as it will go on some channel.
Settled(i) == \E ch \in Channels : delivery[<<i, ch, "down">>].status \in {"sent", "failed"}

\* Bound: the check's incident ids are spent.
OutOfIncidents(c) == ~HasRoom(c) /\ ~HasOpenIncident(c)

(***************************************************************************)
(* Silence is heard: a check that stays silent ends up with an open        *)
(* incident whose alert was delivered, or given up after MaxAttempts,      *)
(* although drains crash, sends time out and outcomes go unrecorded, as    *)
(* long as no tick fails.                                                  *)
(***************************************************************************)
SilenceIsHeard ==
    []~Muted =>
        \A c \in Checks :
            Silent(c) ~> \/ \E n \in 1 .. MaxIncidents :
                              incident[<<c, n>>].status = "open" /\ Settled(<<c, n>>)
                         \/ ~Silent(c) \/ OutOfIncidents(c)

(***************************************************************************)
(* An outage whose alert is on record as sent while the incident is still  *)
(* open gets its recovery alert once the incident is resolved, as long as  *)
(* no tick fails (resolveIncidents, ENQUEUE_SQL).                          *)
(***************************************************************************)
AnnouncedOutageIsClosed ==
    [](~Muted /\ failures = 0) =>
        \A i \in IncidentIds :
            []((incident[i].status = "open" /\ Q!Announced(i))
               => [](incident[i].status = "resolved" => <>Raised(i, "up")))

(***************************************************************************)
(* Alerts and incidents go together: each incident gets its alert, one     *)
(* that was announced gets its recovery, and nothing is queued otherwise.  *)
(***************************************************************************)
AlertsFollowIncidents ==
    EveryIncidentIsRaised /\ AnnouncedOutageIsClosed /\ []AlertsMatchIncidents

(***************************************************************************)
(* Every recovery is raised: when people were told of an outage and it is  *)
(* over, a recovery alert follows (detection.service.ts, step 3).          *)
(***************************************************************************)
EveryRecoveryIsRaised ==
    []~Muted =>
        \A i \in IncidentIds :
            (incident[i].status = "resolved" /\ Q!Announced(i)) ~> Raised(i, "up")

=============================================================================
