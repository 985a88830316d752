---------------------------- MODULE HeartbeatsProofs ----------------------------
(***************************************************************************)
(* Where heartbeats go, and what comes of those that do not: what is       *)
(* proved of the heartbeat path and of detection with its queue, said of   *)
(* the specification that runs either.                                     *)
(***************************************************************************)
EXTENDS MCHeartbeats, DetectionProofs, FiniteSetTheorems

-----------------------------------------------------------------------------
(***************************************************************************)
(* Detection and the alert queue together: each part behaves as it does on *)
(* its own, so what is proved of the parts holds of the whole, and their   *)
(* tables agree.  For any checks, incidents, channels and instances.       *)
(***************************************************************************)
\* What is proved of the queue, of the queue in Alerting.
QP == INSTANCE QueueProofs WITH Incidents <- IncidentIds

(***************************************************************************)
(* A tick announces what was committed: openIncidents() enqueues incidents *)
(* that exist, resolveIncidents() incidents that are resolved.             *)
(***************************************************************************)
RefsAreCommitted ==
    \A s \in Servers :
        /\ tick[s].pc = "enqueueDown" => \A i \in tick[s].refs : incident[i].status # "none"
        /\ tick[s].pc = "enqueueUp" => \A i \in tick[s].refs : incident[i].status = "resolved"

\* The alerts in the table are of incidents in that stage.
AlertsInStage ==
    \A i \in IncidentIds, ch \in Channels :
        /\ delivery[<<i, ch, "down">>].status # "absent" => incident[i].status # "none"
        /\ delivery[<<i, ch, "up">>].status # "absent" => incident[i].status = "resolved"

AlertingInv ==
    DetectionTypeOK /\ QP!TruthInv /\ QP!IsTable /\ RefsAreCommitted /\ AlertsInStage

-----------------------------------------------------------------------------
(* The queue of Alerting is the queue of QueueProofs.                      *)

LEMMA SameInit == Q!QueueInit <=> QP!QueueInit
BY Zenon
DEF Q!QueueInit, Q!Deliveries, Q!AlertKinds, Q!AbsentRow, Q!IdleWorker,
    QP!QueueInit, QP!Deliveries, QP!AlertKinds, QP!AbsentRow, QP!IdleWorker

LEMMA SameEnqueue ==
    ASSUME NEW incidents, NEW kind
    PROVE  /\ Q!Enqueued(incidents, kind) = QP!Enqueued(incidents, kind)
           /\ Q!Enqueue(incidents, kind) <=> QP!Enqueue(incidents, kind)
BY Zenon
DEF Q!Enqueue, Q!Enqueued, Q!Announced, Q!AbsentRow, Q!Deliveries, Q!AlertKinds,
    QP!Enqueue, QP!Enqueued, QP!Announced, QP!AbsentRow, QP!Deliveries, QP!AlertKinds

LEMMA SameDrain ==
    ASSUME NEW w
    PROVE  Q!DrainStep(w) <=> QP!DrainStep(w)
BY Zenon
DEF Q!DrainStep, Q!Claim, Q!Claimable, Q!ReadContext, Q!SentLastHour, Q!Refuse, Q!NextRow,
    Q!OverCeiling, Q!BeginSend, Q!SendOk, Q!SendFails, Q!Retried, Q!Backoff, Q!EndLoop,
    Q!MarkSent, Q!CountSent, Q!SetWorker, Q!IdleWorker, Q!Deliveries, Q!AlertKinds, Q!Cardinality,
    QP!DrainStep, QP!Claim, QP!Claimable, QP!ReadContext, QP!SentLastHour, QP!Refuse, QP!NextRow,
    QP!OverCeiling, QP!BeginSend, QP!SendOk, QP!SendFails, QP!Retried, QP!Backoff, QP!EndLoop,
    QP!MarkSent, QP!CountSent, QP!SetWorker, QP!IdleWorker, QP!Deliveries, QP!AlertKinds, QP!Cardinality

LEMMA SameRest ==
    /\ \A w : Q!Loss(w) <=> QP!Loss(w)
    /\ \A ch : Q!SetEnabled(ch) <=> QP!SetEnabled(ch)
    /\ Q!QueueClock <=> QP!QueueClock
BY Zenon
DEF Q!Loss, Q!Crash, Q!OutcomeUnrecorded, Q!NextRow, Q!OverCeiling, Q!SetWorker, Q!IdleWorker,
    Q!SetEnabled, Q!QueueClock, Q!Unhurried, Q!Less, Q!Deliveries, Q!AlertKinds,
    QP!Loss, QP!Crash, QP!OutcomeUnrecorded, QP!NextRow, QP!OverCeiling, QP!SetWorker, QP!IdleWorker,
    QP!SetEnabled, QP!QueueClock, QP!Unhurried, QP!Less, QP!Deliveries, QP!AlertKinds

LEMMA SameNext == Q!QueueNext <=> QP!QueueNext
BY Zenon, SameEnqueue, SameDrain, SameRest
DEF Q!QueueNext, Q!EnqueueAny, Q!AlertKinds, QP!QueueNext, QP!EnqueueAny, QP!AlertKinds

-----------------------------------------------------------------------------
(* Detection, in the composition, is detection.                            *)

LEMMA DetectionOrStutter == [AlertingNext]_alertingVars => [DetectionNext]_detectionVars
<1> SUFFICES ASSUME [AlertingNext]_alertingVars
             PROVE  [DetectionNext]_detectionVars
  OBVIOUS
<1>1. ASSUME NEW s \in Servers, AlertingTick(s)
      PROVE  TickStep(s)
  BY <1>1 DEF AlertingTick, SilentTickStep, AnnounceDown, AnnounceUp, TickStep
<1>2. CASE AlertingClock
  BY <1>2 DEF AlertingClock, DetectionNext, OtherSessions, ClockTick, detectionVars
<1>3. CASE DetectionAside
  BY <1>3 DEF DetectionAside, DetectionNext, OtherSessions
<1>4. CASE UNCHANGED detectionVars
  BY <1>4
<1> QED
  BY <1>1, <1>2, <1>3, <1>4 DEF AlertingNext, DetectionNext, alertingVars

(***************************************************************************)
(* Detection with the queue is detection: what the queue does meanwhile is *)
(* a stuttering step of detection, so each of its theorems holds here too. *)
(***************************************************************************)
THEOREM AlertingDetects == AlertingSpec => DetectionSpec
<1>1. AlertingInit => DetectionInit
  BY DEF AlertingInit
<1> QED
  BY <1>1, DetectionOrStutter, PTL DEF AlertingSpec, DetectionSpec

-----------------------------------------------------------------------------
(* The queue, in the composition, is the queue.                            *)

\* What a tick hands over is an enqueue() of the queue, or nothing new.
LEMMA AnnounceIsEnqueue ==
    ASSUME QP!IsTable, NEW incidents \in SUBSET IncidentIds, NEW kind \in {"down", "up"},
           Q!Enqueue(incidents, kind)
    PROVE  [QP!QueueNext]_queueVars
<1>1. QP!Enqueue(incidents, kind)
  BY SameEnqueue
<1>2. CASE QP!Enqueued(incidents, kind) = {}
  <2>1. delivery' = [d \in QP!Deliveries |-> delivery[d]]
    BY <1>1, <1>2 DEF QP!Enqueue
  <2>2. delivery' = delivery
    BY <2>1 DEF QP!IsTable
  <2> QED
    BY <1>1, <2>2 DEF QP!Enqueue, queueVars
<1>3. CASE QP!Enqueued(incidents, kind) # {}
  BY <1>1, <1>3 DEF QP!QueueNext, QP!EnqueueAny, QP!AlertKinds
<1> QED
  BY <1>2, <1>3

LEMMA QueueOrStutter ==
    DetectionTypeOK /\ QP!IsTable /\ [AlertingNext]_alertingVars => [QP!QueueNext]_queueVars
<1> SUFFICES ASSUME DetectionTypeOK, QP!IsTable, [AlertingNext]_alertingVars
             PROVE  [QP!QueueNext]_queueVars
  OBVIOUS
<1>1. ASSUME NEW s \in Servers, AlertingTick(s)
      PROVE  [QP!QueueNext]_queueVars
  <2>1. tick[s].refs \in SUBSET IncidentIds
    BY DEF DetectionTypeOK, Ticks
  <2> QED
    BY <1>1, <2>1, AnnounceIsEnqueue DEF AlertingTick, SilentTickStep, AnnounceDown, AnnounceUp
<1>2. ASSUME NEW s \in Servers, Q!DrainStep(s) \/ Q!Loss(s)
      PROVE  QP!QueueNext
  BY <1>2, SameDrain, SameRest DEF QP!QueueNext
<1>3. ASSUME NEW ch \in Channels, Q!SetEnabled(ch)
      PROVE  QP!QueueNext
  BY <1>3, SameRest DEF QP!QueueNext
<1>4. CASE AlertingClock
  BY <1>4, SameRest DEF AlertingClock, QP!QueueNext
<1>5. CASE UNCHANGED queueVars
  BY <1>5
<1> QED
  BY <1>1, <1>2, <1>3, <1>4, <1>5 DEF AlertingNext, DetectionAside, alertingVars

-----------------------------------------------------------------------------
(* The two tables agree.                                                   *)

\* An incident is opened once and resolved once.
LEMMA IncidentsMoveOn ==
    ASSUME DetectionTypeOK, [DetectionNext]_detectionVars, NEW i \in IncidentIds
    PROVE  /\ incident[i].status # "none" => incident'[i].status # "none"
           /\ incident[i].status = "resolved" => incident'[i].status = "resolved"
<1>1. ASSUME NEW s \in Servers, OpenIncidents(s), incident[i].status # "none"
      PROVE  incident'[i] = incident[i]
  <2>1. i[1] \in Checks /\ i = <<i[1], i[2]>>
    BY DEF IncidentIds
  <2>2. ~IsFreshIncident(i[1], i[2])
    BY <1>1, <2>1 DEF IsFreshIncident
  <2> QED
    BY <1>1, <2>2 DEF OpenIncidents
<1>2. ASSUME NEW s \in Servers, ResolveIncidents(s)
      PROVE  /\ incident[i].status # "none" => incident'[i].status # "none"
             /\ incident[i].status = "resolved" => incident'[i].status = "resolved"
  <2>1. incident[i] \in IncidentRows
    BY DEF DetectionTypeOK
  <2> QED
    BY <1>2, <2>1 DEF ResolveIncidents, IncidentRows
<1>3. CASE incident' = incident
  BY <1>3
<1> QED
  BY <1>1, <1>2, <1>3
  DEF DetectionNext, TickStep, OtherSessions, ClockTick, Ping, Pause, Resume, Reschedule,
      StartTick, LockOverdue, AdvanceOverdue, ReadDownChecks, EnqueueDown, ReadRecovered,
      EnqueueUp, TickFails, detectionVars

\* What a tick is about to announce was committed by the statement before.
LEMMA NextKeepsRefs ==
    DetectionTypeOK /\ RefsAreCommitted /\ [DetectionNext]_detectionVars => RefsAreCommitted'
<1> SUFFICES ASSUME DetectionTypeOK, RefsAreCommitted, [DetectionNext]_detectionVars,
                    NEW s \in Servers
             PROVE  /\ tick'[s].pc = "enqueueDown"
                       => \A i \in tick'[s].refs : incident'[i].status # "none"
                    /\ tick'[s].pc = "enqueueUp"
                       => \A i \in tick'[s].refs : incident'[i].status = "resolved"
  BY DEF RefsAreCommitted
<1>1. tick \in [Servers -> Ticks] /\ incident \in [IncidentIds -> IncidentRows]
  BY DEF DetectionTypeOK
<1>2. CASE tick'[s] = tick[s]
  <2>1. tick[s].refs \in SUBSET IncidentIds
    BY <1>1 DEF Ticks
  <2> QED
    BY <1>2, <2>1, IncidentsMoveOn DEF RefsAreCommitted
<1>3. CASE OpenIncidents(s)
  <2>1. PICK opened \in SUBSET IncidentIds :
          /\ incident' = [i \in IncidentIds |->
                            IF i \in opened
                            THEN [status |-> "open", cause |-> tick[s].causes[i[1]]]
                            ELSE incident[i]]
          /\ tick' = [tick EXCEPT ![s] = [tick[s] EXCEPT
                !.pc     = IF opened = {} THEN "resolve" ELSE "enqueueDown",
                !.rows   = {},
                !.causes = IdleTick.causes,
                !.refs   = opened]]
    BY <1>3 DEF OpenIncidents, SetTick
  <2>2. tick'[s].refs = opened /\ tick'[s].pc # "enqueueUp"
    BY <1>1, <2>1 DEF Ticks
  <2> QED
    BY <2>1, <2>2
<1>4. CASE ResolveIncidents(s)
  <2>1. PICK resolved \in SUBSET IncidentIds :
          /\ incident' = [i \in IncidentIds |->
                            IF i \in resolved
                            THEN [incident[i] EXCEPT !.status = "resolved"]
                            ELSE incident[i]]
          /\ tick' = [tick EXCEPT ![s] = [tick[s] EXCEPT
                !.pc   = IF resolved = {} THEN "idle" ELSE "enqueueUp",
                !.refs = resolved]]
    <3>1. tick[s].refs \in SUBSET IncidentIds
      BY <1>1 DEF Ticks
    <3> QED
      BY <1>4, <3>1, LimitedIsSubset DEF ResolveIncidents, SetTick
  <2>2. tick'[s].refs = resolved /\ tick'[s].pc # "enqueueDown"
    BY <1>1, <2>1 DEF Ticks
  <2>3. \A i \in resolved : incident'[i].status = "resolved"
    BY <1>1, <2>1 DEF IncidentRows
  <2> QED
    BY <2>2, <2>3
<1>5. CASE tick'[s].pc \notin {"enqueueDown", "enqueueUp"}
  BY <1>5
<1>6. ASSUME TickStep(s) \/ TickFails(s), ~OpenIncidents(s), ~ResolveIncidents(s)
      PROVE  tick'[s].pc \notin {"enqueueDown", "enqueueUp"}
  <2>1. \A t : SetTick(s, t) => tick'[s] = t
    BY <1>1 DEF SetTick
  <2>2. tick[s] = [pc |-> tick[s].pc, batch |-> tick[s].batch, rows |-> tick[s].rows,
                   down |-> tick[s].down, causes |-> tick[s].causes, refs |-> tick[s].refs]
    BY <1>1 DEF Ticks
  <2>3. CASE StartTick(s) \/ LockOverdue(s) \/ AdvanceOverdue(s)
    BY <2>1, <2>2, <2>3 DEF StartTick, LockOverdue, AdvanceOverdue
  <2>4. CASE ReadDownChecks(s) \/ EnqueueDown(s) \/ ReadRecovered(s)
    BY <2>1, <2>2, <2>4 DEF ReadDownChecks, EnqueueDown, ReadRecovered
  <2>5. CASE EnqueueUp(s) \/ TickFails(s)
    BY <2>1, <2>5 DEF EnqueueUp, TickFails, IdleTick
  <2> QED
    BY <1>6, <2>3, <2>4, <2>5 DEF TickStep
<1>7. ASSUME NEW t \in Servers, t # s, TickStep(t) \/ TickFails(t)
      PROVE  tick'[s] = tick[s]
  BY <1>1, <1>7
  DEF TickStep, StartTick, LockOverdue, AdvanceOverdue, ReadDownChecks, OpenIncidents, EnqueueDown,
      ReadRecovered, ResolveIncidents, EnqueueUp, TickFails, SetTick
<1>8. CASE OtherSessions \/ UNCHANGED detectionVars
  BY <1>2, <1>8 DEF OtherSessions, ClockTick, Ping, Pause, Resume, Reschedule, detectionVars
<1> QED
  BY <1>2, <1>3, <1>4, <1>5, <1>6, <1>7, <1>8 DEF DetectionNext

\* enqueue() adds rows for the incidents it is given.
LEMMA AnnouncedInStage ==
    ASSUME AlertsInStage, NEW incidents \in SUBSET IncidentIds, NEW kind \in {"down", "up"},
           Q!Enqueue(incidents, kind), incident' = incident,
           kind = "down" => \A i \in incidents : incident[i].status # "none",
           kind = "up" => \A i \in incidents : incident[i].status = "resolved"
    PROVE  AlertsInStage'
<1> SUFFICES ASSUME NEW i \in IncidentIds, NEW ch \in Channels, NEW k \in {"down", "up"},
                    delivery'[<<i, ch, k>>].status # "absent"
             PROVE  /\ k = "down" => incident[i].status # "none"
                    /\ k = "up" => incident[i].status = "resolved"
  BY DEF AlertsInStage
<1>1. <<i, ch, k>> \in QP!Deliveries
  BY DEF QP!Deliveries, QP!AlertKinds
<1>2. QP!Enqueue(incidents, kind)
  BY SameEnqueue
<1>3. CASE <<i, ch, k>> \in QP!Enqueued(incidents, kind)
  <2>1. i \in incidents /\ k = kind
    BY <1>3 DEF QP!Enqueued
  <2> QED
    BY <2>1
<1>4. CASE <<i, ch, k>> \notin QP!Enqueued(incidents, kind)
  <2>1. delivery'[<<i, ch, k>>] = delivery[<<i, ch, k>>]
    BY <1>1, <1>2, <1>4 DEF QP!Enqueue
  <2> QED
    BY <2>1 DEF AlertsInStage
<1> QED
  BY <1>3, <1>4

LEMMA NextKeepsStages == AlertingInv /\ [AlertingNext]_alertingVars => AlertsInStage'
<1> SUFFICES ASSUME AlertingInv, [AlertingNext]_alertingVars
             PROVE  AlertsInStage'
  OBVIOUS
<1> USE DEF AlertingInv
<1>1. \A i \in IncidentIds :
         /\ incident[i].status # "none" => incident'[i].status # "none"
         /\ incident[i].status = "resolved" => incident'[i].status = "resolved"
  BY DetectionOrStutter, IncidentsMoveOn
<1>2. ASSUME \A d \in QP!Deliveries :
                delivery'[d].status # "absent" => delivery[d].status # "absent"
      PROVE  AlertsInStage'
  BY <1>1, <1>2 DEF AlertsInStage, QP!Deliveries, QP!AlertKinds
<1>3. CASE QP!QuietStep
  BY <1>2, <1>3, QP!OnlyEnqueueQueues, AlertingAssumption
<1>4. CASE UNCHANGED queueVars
  BY <1>2, <1>4 DEF queueVars
<1>5. ASSUME NEW s \in Servers, AnnounceDown(s) \/ AnnounceUp(s)
      PROVE  AlertsInStage'
  <2>1. tick[s].refs \in SUBSET IncidentIds /\ incident' = incident
    BY <1>5 DEF DetectionTypeOK, Ticks, AnnounceDown, AnnounceUp, EnqueueDown, EnqueueUp
  <2> QED
    BY <1>5, <2>1, AnnouncedInStage DEF AnnounceDown, AnnounceUp, EnqueueDown, EnqueueUp, RefsAreCommitted
<1>6. ASSUME NEW s \in Servers, Q!DrainStep(s) \/ Q!Loss(s)
      PROVE  QP!QuietStep
  BY <1>6, SameDrain, SameRest DEF QP!QuietStep
<1>7. ASSUME NEW ch \in Channels, Q!SetEnabled(ch)
      PROVE  QP!QuietStep
  BY <1>7, SameRest DEF QP!QuietStep
<1>8. CASE AlertingClock
  BY <1>3, <1>8, SameRest DEF AlertingClock, QP!QuietStep
<1> QED
  BY <1>3, <1>4, <1>5, <1>6, <1>7, <1>8
  DEF AlertingNext, AlertingTick, SilentTickStep, DetectionAside, alertingVars

LEMMA AlertingInvInit == AlertingInit => AlertingInv
<1> SUFFICES ASSUME AlertingInit PROVE AlertingInv
  OBVIOUS
<1>1. DetectionTypeOK
  BY InitTypeOK DEF AlertingInit
<1>2. QP!QueueInit
  BY SameInit DEF AlertingInit
<1>3. QP!TruthInv /\ QP!IsTable
  BY <1>2, QP!TruthInit, AlertingAssumption DEF QP!IsTable, QP!QueueInit
<1>4. RefsAreCommitted
  BY DEF AlertingInit, DetectionInit, IdleTick, RefsAreCommitted
<1>5. \A d \in QP!Deliveries : delivery[d].status = "absent"
  BY <1>2 DEF QP!QueueInit, QP!AbsentRow
<1>6. AlertsInStage
  BY <1>5 DEF AlertsInStage, QP!Deliveries, QP!AlertKinds
<1> QED
  BY <1>1, <1>3, <1>4, <1>6 DEF AlertingInv

LEMMA AlertingInvStep == AlertingInv /\ [AlertingNext]_alertingVars => AlertingInv'
<1> SUFFICES ASSUME AlertingInv, [AlertingNext]_alertingVars
             PROVE  AlertingInv'
  OBVIOUS
<1>1. [DetectionNext]_detectionVars /\ [QP!QueueNext]_queueVars
  BY DetectionOrStutter, QueueOrStutter DEF AlertingInv
<1>2. DetectionTypeOK' /\ RefsAreCommitted'
  BY <1>1, NextTypeOK, NextKeepsRefs DEF AlertingInv
<1>3. QP!TruthInv' /\ QP!IsTable'
  BY <1>1, QP!TruthStep, QP!TableStep, AlertingAssumption
  DEF AlertingInv, queueVars, QP!queueVars
<1> QED
  BY <1>2, <1>3, NextKeepsStages DEF AlertingInv

LEMMA AlertingInvariance == AlertingSpec => []AlertingInv
BY AlertingInvInit, AlertingInvStep, PTL DEF AlertingSpec

-----------------------------------------------------------------------------
(* What follows.                                                           *)

(***************************************************************************)
(* Detection with the queue is the queue, fed with the incidents its ticks *)
(* claim: enqueue() is the only way in, so each of the queue's theorems    *)
(* holds here too.                                                         *)
(***************************************************************************)
THEOREM AlertingQueues == AlertingSpec => Q!QueueSpec
<1>1. AlertingInit => Q!QueueInit
  BY DEF AlertingInit
<1>2. AlertingInv /\ [AlertingNext]_alertingVars => [Q!QueueNext]_(Q!queueVars)
  BY QueueOrStutter, SameNext DEF AlertingInv, queueVars, Q!queueVars
<1> QED
  BY <1>1, <1>2, AlertingInvariance, PTL DEF AlertingSpec, Q!QueueSpec

LEMMA AlertsAgree == AlertingInv => AlertsMatchIncidents
BY DEF AlertingInv, AlertsInStage, AlertsMatchIncidents, QP!TruthInv, QP!NoRecoveryOutOfTheBlue

(***************************************************************************)
(* What is queued is of an incident in that stage: an outage's alert of    *)
(* one that was committed, a recovery's of one that is resolved and whose  *)
(* outage somebody was told of, though ticks fail and passes die           *)
(* (openIncidents, resolveIncidents, ENQUEUE_SQL).                         *)
(***************************************************************************)
THEOREM AlertsAgreeWithIncidents == AlertingSpec => []AlertsMatchIncidents
<1> QED
  BY AlertsAgree, AlertingInvariance, PTL

(***************************************************************************)
(* The promises of the parts hold of the whole: one open incident per      *)
(* check, no false alarm, no incident for a healthy check, and nothing is  *)
(* called sent that was not handed to a provider.                          *)
(***************************************************************************)
THEOREM AlertingKeepsPromises ==
    AlertingSpec => /\ []OneOpenIncident /\ NoFalseAlarm /\ NoIncidentForHealthyCheck
                    /\ []QP!SentMeansTold
<1>1. AlertingInv => QP!SentMeansTold
  BY DEF AlertingInv, QP!TruthInv
<1> QED
  BY <1>1, AlertingDetects, AtMostOneOpenIncident, NeverFalseAlarm, IncidentsOnlyForDownChecks,
     AlertingInvariance, PTL

-----------------------------------------------------------------------------
(* The types of the whole.                                                 *)

LEMMA IncidentsAreFinite ==
    IsFiniteSet(Checks) /\ IsFiniteSet(Channels) => QP!QueueIsFinite
<1> SUFFICES ASSUME IsFiniteSet(Checks), IsFiniteSet(Channels)
             PROVE  IsFiniteSet(IncidentIds) /\ IsFiniteSet(Channels)
  BY DEF QP!QueueIsFinite, QP!IsFiniteSet, IsFiniteSet
<1>1. IsFiniteSet(1 .. MaxIncidents)
  BY DetectionAssumption, FS_Interval
<1> QED
  BY <1>1, FS_Product DEF IncidentIds

AlertingTypeInv == AlertingInv /\ QP!QueueTypeInv

LEMMA AlertingTypeInit == AlertingInit => AlertingTypeInv
<1> SUFFICES ASSUME AlertingInit PROVE AlertingTypeInv
  OBVIOUS
<1>1. QP!QueueInit
  BY SameInit DEF AlertingInit
<1> QED
  BY <1>1, AlertingInvInit, QP!QueueTypeInit, AlertingAssumption DEF AlertingTypeInv

LEMMA AlertingTypeStep ==
    ASSUME IsFiniteSet(Checks), IsFiniteSet(Channels),
           AlertingTypeInv, [AlertingNext]_alertingVars
    PROVE  AlertingTypeInv'
<1>1. [QP!QueueNext]_(QP!queueVars) /\ QP!QueueIsFinite
  BY QueueOrStutter, IncidentsAreFinite DEF AlertingTypeInv, AlertingInv, queueVars, QP!queueVars
<1>2. QP!QueueTypeInv'
  BY <1>1, QP!QueueTypeStep, AlertingAssumption DEF AlertingTypeInv, AlertingInv
<1> QED
  BY <1>2, AlertingInvStep DEF AlertingTypeInv

LEMMA SameTypes == Q!QueueTypeOK <=> QP!QueueTypeOK
BY Zenon
DEF Q!QueueTypeOK, QP!QueueTypeOK, Q!Deliveries, QP!Deliveries, Q!AlertKinds, QP!AlertKinds,
    Q!DeliveryRows, QP!DeliveryRows, Q!Workers, QP!Workers

LEMMA AlertingTypes == AlertingTypeInv => AlertingTypeOK
BY SameTypes DEF AlertingTypeInv, AlertingInv, QP!QueueTypeInv, AlertingTypeOK

-----------------------------------------------------------------------------
(***************************************************************************)
(* The heartbeat path: what the cache serves is so, or was a moment ago,   *)
(* and so are the deadlines computed from it, for any instances,           *)
(* heartbeats, schedules, keys and lifetimes, whatever notifications are   *)
(* lost.                                                                   *)
(***************************************************************************)

(***************************************************************************)
(* Nobody has asked for a key the check is yet to be given, so its first   *)
(* answer is not a negative one.                                           *)
(***************************************************************************)
KeysToComeAreUnseen ==
    \A s \in Instances, k \in Keys :
        k > row.key => cache[s][k].left = 0 /\ load[s][k].pc = "none"

\* A lookup crossed by an edit is stored before time passes.
LoadsAreRecent ==
    \A s \in Instances, k \in Keys :
        load[s][k].pc = "answered" /\ load[s][k].metadata # MetadataOf(k) => sinceEdit = 0

\* What a heartbeat goes by is so, or was less than a positive lifetime ago.
RequestsAreRecent ==
    \A r \in Requests :
        /\ request[r].pc \in {"ready", "locked"}
           => /\ request[r].metadata \in ScheduleNames
              /\ request[r].metadata = row.schedule \/ sinceEdit < PositiveTtl
        /\ request[r].pc = "locked" /\ ~row.alive => sinceEdit < PositiveTtl

IngestionInv ==
    /\ IngestionTypeOK
    /\ CacheIsTrue
    /\ KeysToComeAreUnseen /\ LoadsAreRecent /\ RequestsAreRecent

-----------------------------------------------------------------------------
(* Types.                                                                  *)

LEMMA NothingIsKnown ==
    /\ NoEntry \in Entries /\ NoLoad \in Loads
    /\ IdleRequest \in RequestStates /\ IdleRequest.pc = "idle"
    /\ \A k : MetadataOf(k) = row.schedule \/ MetadataOf(k) = Unknown
    /\ \A m \in Metadata : Stored(m) \in Entries
BY IngestionAssumption
DEF NoEntry, Entries, NoLoad, Loads, IdleRequest, RequestStates, Keys, PingKinds, Metadata,
    MetadataOf, Stored

\* One entry changes.
LEMMA OneEntry ==
    ASSUME IngestionTypeOK, NEW s \in Instances, NEW k \in Keys, NEW entry \in Entries,
           SetEntry(s, k, entry)
    PROVE  /\ cache' \in [Instances -> [Keys -> Entries]]
           /\ cache'[s][k] = entry
           /\ \A t \in Instances, j \in Keys : t # s \/ j # k => cache'[t][j] = cache[t][j]
BY DEF IngestionTypeOK, SetEntry

\* One lookup changes.
LEMMA OneLoad ==
    ASSUME IngestionTypeOK, NEW s \in Instances, NEW k \in Keys, NEW answer \in Loads,
           load' = [load EXCEPT ![s][k] = answer]
    PROVE  /\ load' \in [Instances -> [Keys -> Loads]]
           /\ load'[s][k] = answer
           /\ \A t \in Instances, j \in Keys : t # s \/ j # k => load'[t][j] = load[t][j]
BY DEF IngestionTypeOK

LEMMA InitIngestionTypeOK == IngestionInit => IngestionTypeOK
<1> SUFFICES ASSUME IngestionInit PROVE IngestionTypeOK
  OBVIOUS
<1>1. row \in CheckRows
  BY IngestionAssumption DEF IngestionInit, CheckRows, Keys
<1> QED
  BY <1>1, NothingIsKnown, IngestionAssumption DEF IngestionInit, IngestionTypeOK

LEMMA CacheStepTypeOK ==
    ASSUME IngestionTypeOK, NEW s \in Instances, NEW k \in Keys, CacheStep(s, k)
    PROVE  IngestionTypeOK'
<1> USE DEF IngestionTypeOK
<1>1. CASE LookUp(s, k)
  <2>1. [pc |-> "answered", metadata |-> MetadataOf(k)] \in Loads
    BY NothingIsKnown DEF Loads, Metadata, CheckRows
  <2> QED
    BY <1>1, <2>1, OneLoad DEF LookUp
<1>2. CASE Store(s, k)
  <2>1. load[s][k].metadata \in Metadata
    BY DEF Loads
  <2>2. cache' \in [Instances -> [Keys -> Entries]] /\ load' \in [Instances -> [Keys -> Loads]]
    BY <1>2, <2>1, NothingIsKnown, OneEntry, OneLoad DEF Store
  <2>3. request' \in [Requests -> RequestStates]
    BY <1>2, <2>1, NothingIsKnown DEF Store, RequestStates
  <2> QED
    BY <1>2, <2>2, <2>3 DEF Store
<1>3. CASE LookUpFails(s, k)
  <2>1. load' \in [Instances -> [Keys -> Loads]]
    BY <1>3, NothingIsKnown, OneLoad DEF LookUpFails
  <2> QED
    BY <1>3, <2>1, NothingIsKnown DEF LookUpFails
<1>4. CASE Evict(s, k)
  BY <1>4, NothingIsKnown, OneEntry DEF Evict
<1>5. CASE Invalidate(s, k)
  BY <1>5, NothingIsKnown, OneEntry DEF Invalidate
<1>6. CASE Hear(s, k)
  <2>1. heard' \in [Instances -> [Keys -> 0 .. MaxPending]]
    BY <1>6, IngestionAssumption DEF Hear
  <2> QED
    BY <1>6, <2>1, NothingIsKnown, OneEntry DEF Hear
<1> QED
  BY <1>1, <1>2, <1>3, <1>4, <1>5, <1>6 DEF CacheStep

LEMMA RequestStepTypeOK ==
    ASSUME IngestionTypeOK, RequestsAreRecent, NEW r \in Requests, RequestStep(r)
    PROVE  IngestionTypeOK'
<1> USE DEF IngestionTypeOK
<1>1. ASSUME NEW s \in Instances, NEW k \in Keys, NEW kind \in PingKinds, Receive(r, s, k, kind)
      PROVE  IngestionTypeOK'
  <2> DEFINE arrived == [pc |-> "ready", server |-> s, key |-> k, kind |-> kind,
                         metadata |-> cache[s][k].metadata]
  <2>1. arrived \in RequestStates
    BY DEF RequestStates, Entries
  <2>2. [arrived EXCEPT !.pc = "waiting", !.metadata = Unknown] \in RequestStates
    BY <2>1 DEF RequestStates, Metadata
  <2>3. request' \in [Requests -> RequestStates]
    <3> HIDE DEF arrived
    <3>1. \/ request' = [request EXCEPT ![r] = IdleRequest]
          \/ request' = [request EXCEPT ![r] = arrived]
          \/ request' = [request EXCEPT ![r] = [arrived EXCEPT !.pc = "waiting", !.metadata = Unknown]]
      BY <1>1 DEF Receive, arrived
    <3> QED
      BY <2>1, <2>2, <3>1, NothingIsKnown
  <2>4. cache' \in [Instances -> [Keys -> Entries]]
    <3>1. cache[s][k] \in Entries
      OBVIOUS
    <3>2. UNCHANGED cache \/ SetEntry(s, k, cache[s][k])
      BY <1>1 DEF Receive, Touched
    <3> QED
      BY <3>1, <3>2, OneEntry
  <2>5. load' \in [Instances -> [Keys -> Loads]]
    <3>1. [NoLoad EXCEPT !.pc = "asked"] \in Loads
      BY NothingIsKnown DEF Loads
    <3>2. load' = load \/ load' = [load EXCEPT ![s][k] = [NoLoad EXCEPT !.pc = "asked"]]
      BY <1>1 DEF Receive
    <3> QED
      BY <3>1, <3>2, OneLoad
  <2> QED
    BY <1>1, <2>3, <2>4, <2>5 DEF Receive
<1>2. CASE ReadSnapshot(r)
  <2>1. [request[r] EXCEPT !.pc = "locked"] \in RequestStates
    BY DEF RequestStates
  <2> QED
    BY <1>2, <2>1, NothingIsKnown DEF ReadSnapshot
<1>3. CASE WritePing(r)
  <2>1. request[r].metadata \in ScheduleNames
    BY <1>3 DEF WritePing, RequestsAreRecent
  <2> QED
    BY <1>3, <2>1, NothingIsKnown DEF WritePing, CheckRows
<1>4. CASE PingFails(r)
  BY <1>4, NothingIsKnown DEF PingFails
<1> QED
  BY <1>1, <1>2, <1>3, <1>4 DEF RequestStep

LEMMA EditStepTypeOK ==
    ASSUME IngestionTypeOK, NEW s \in Editors, EditStep(s)
    PROVE  IngestionTypeOK'
<1> USE DEF IngestionTypeOK
<1>1. row.key \in Keys /\ row.schedule \in ScheduleNames
  BY DEF CheckRows
<1>2. ASSUME NEW keys \in SUBSET Keys
      PROVE  ToInvalidate(s, keys) \in [Instances -> SUBSET Keys]
  BY DEF ToInvalidate, Editors
<1>3. RoomToNotify(row.key) => Notified(row.key) \in [Instances -> [Keys -> 0 .. MaxPending]]
  BY <1>1, IngestionAssumption DEF RoomToNotify, Notified
<1>4. 0 \in 0 .. PositiveTtl
  BY IngestionAssumption
<1>5. CASE PauseCheck(s)
  BY <1>1, <1>2, <1>5 DEF PauseCheck, CheckRows
<1>6. CASE ResumeCheck(s)
  BY <1>1, <1>2, <1>6 DEF ResumeCheck, CheckRows
<1>7. ASSUME NEW schedule \in ScheduleNames, RescheduleCheck(s, schedule)
      PROVE  IngestionTypeOK'
  BY <1>1, <1>2, <1>3, <1>4, <1>7 DEF RescheduleCheck, CheckRows
<1>8. CASE Rotate(s)
  <2>1. row.key + 1 \in Keys
    BY <1>1, <1>8, IngestionAssumption DEF Rotate, Keys
  <2>2. row' \in CheckRows
    BY <1>8, <2>1 DEF Rotate, CheckRows
  <2>3. {row.key, row.key + 1} \in SUBSET Keys
    BY <1>1, <2>1
  <2> QED
    BY <1>2, <1>4, <1>8, <2>2, <2>3 DEF Rotate
<1>9. CASE Delete(s)
  <2>1. row' \in CheckRows
    BY <1>9 DEF Delete, CheckRows
  <2> QED
    BY <1>1, <1>2, <1>3, <1>4, <1>9, <2>1 DEF Delete
<1> QED
  BY <1>5, <1>6, <1>7, <1>8, <1>9 DEF EditStep

LEMMA ClockTypeOK ==
    ASSUME IngestionTypeOK, IngestionClock
    PROVE  IngestionTypeOK'
<1>1. ASSUME NEW s \in Instances, NEW k \in Keys
      PROVE  cache[s][k] \in Entries
  BY DEF IngestionTypeOK
<1>2. ASSUME NEW entry \in Entries
      PROVE  [entry EXCEPT !.left = Less(@)] \in Entries
  BY IngestionAssumption DEF Entries, Less
<1>3. cache' = [s \in Instances |-> [k \in Keys |->
                  IF cache[s][k].left <= 1 THEN NoEntry
                  ELSE [cache[s][k] EXCEPT !.left = Less(@)]]]
  BY DEF IngestionClock
<1>4. cache' \in [Instances -> [Keys -> Entries]]
  <2> DEFINE Older(entry) == [entry EXCEPT !.left = Less(@)]
  <2>1. cache' = [s \in Instances |-> [k \in Keys |->
                    IF cache[s][k].left <= 1 THEN NoEntry ELSE Older(cache[s][k])]]
    BY <1>3, Zenon
  <2>2. \A entry \in Entries : Older(entry) \in Entries
    BY <1>2, Zenon
  <2> HIDE DEF Older
  <2> QED
    BY <1>1, <2>1, <2>2, NothingIsKnown
<1>5. sinceEdit' \in 0 .. PositiveTtl
  <2>1. sinceEdit' = IF sinceEdit = PositiveTtl THEN sinceEdit ELSE sinceEdit + 1
    BY DEF IngestionClock
  <2> QED
    BY <2>1, IngestionAssumption DEF IngestionTypeOK
<1> QED
  BY <1>4, <1>5 DEF IngestionClock, IngestionTypeOK

LEMMA IngestionNextTypeOK ==
    ASSUME IngestionTypeOK, RequestsAreRecent, IngestionNext
    PROVE  IngestionTypeOK'
<1>1. ASSUME NEW s \in Instances, Disconnect(s) \/ Reconnect(s)
      PROVE  IngestionTypeOK'
  <2>1. CASE Disconnect(s)
    BY <2>1, IngestionAssumption DEF Disconnect, IngestionTypeOK
  <2>2. CASE Reconnect(s)
    BY <2>2 DEF Reconnect, IngestionTypeOK
  <2> QED
    BY <1>1, <2>1, <2>2
<1> QED
  BY <1>1, RequestStepTypeOK, EditStepTypeOK, CacheStepTypeOK, ClockTypeOK DEF IngestionNext

-----------------------------------------------------------------------------
(* The steps that edit nothing.                                            *)

\* What LOOKUP_SQL reads of the row.
SameCheck == row'.alive = row.alive /\ row'.key = row.key /\ row'.schedule = row.schedule

LEMMA SameMetadata ==
    SameCheck => \A k \in Keys : MetadataOf(k)' = MetadataOf(k)
BY DEF SameCheck, MetadataOf

Kept == IngestionInv /\ IngestionTypeOK' /\ SameCheck /\ sinceEdit' = sinceEdit

LEMMA EntriesKept ==
    ASSUME Kept,
           \A s \in Instances, k \in Keys :
              cache'[s][k] = cache[s][k] \/ cache'[s][k] = NoEntry
    PROVE  StalenessIsBounded'
<1> SUFFICES ASSUME NEW s \in Instances, NEW k \in Keys, Stale(s, k)'
             PROVE  cache'[s][k].left + sinceEdit' <= PositiveTtl
  BY DEF StalenessIsBounded
<1>1. cache'[s][k] = cache[s][k]
  BY DEF Stale, Fresh, NoEntry
<1>2. MetadataOf(k)' = MetadataOf(k)
  BY SameMetadata DEF Kept
<1>3. Stale(s, k)
  BY <1>1, <1>2 DEF Stale, Fresh
<1> QED
  BY <1>1, <1>3 DEF Kept, IngestionInv, CacheIsTrue, StalenessIsBounded

\* Entries are dropped, lookups begin or are given up, heartbeats end.
LEMMA NothingIsLearnt ==
    ASSUME Kept,
           \A s \in Instances, k \in Keys :
              cache'[s][k] = cache[s][k] \/ cache'[s][k] = NoEntry,
           \A s \in Instances, k \in Keys :
              \/ load'[s][k] = load[s][k]
              \/ load'[s][k].pc = "none"
              \/ load'[s][k].pc = "asked" /\ k <= row.key
    PROVE  CacheIsTrue' /\ KeysToComeAreUnseen' /\ LoadsAreRecent'
<1> USE DEF Kept, IngestionInv
<1>1. \A k \in Keys : MetadataOf(k)' = MetadataOf(k)
  BY SameMetadata
<1>2. row'.key = row.key /\ row.key \in Nat /\ Keys \subseteq Nat
  BY DEF SameCheck, IngestionTypeOK, CheckRows, Keys
<1>3. NegativeEntriesAreTrue'
  BY <1>1, <1>2 DEF CacheIsTrue, NegativeEntriesAreTrue, Fresh, NoEntry
<1>4. KeysToComeAreUnseen'
  <2> SUFFICES ASSUME NEW s \in Instances, NEW k \in Keys, k > row.key
               PROVE  cache'[s][k].left = 0 /\ load'[s][k].pc = "none"
    BY <1>2 DEF KeysToComeAreUnseen
  <2>1. cache[s][k].left = 0 /\ load[s][k].pc = "none" /\ ~(k <= row.key)
    BY <1>2 DEF KeysToComeAreUnseen
  <2>2. cache'[s][k].left = 0
    BY <2>1 DEF NoEntry
  <2>3. load'[s][k].pc = "none"
    BY <2>1
  <2> QED
    BY <2>2, <2>3
<1>5. LoadsAreRecent'
  BY <1>1 DEF LoadsAreRecent
<1> QED
  BY <1>3, <1>4, <1>5, EntriesKept DEF CacheIsTrue

\* A heartbeat that is on its way goes by what it went by, and the row is the same.
LEMMA RequestsKept ==
    ASSUME Kept,
           \A r \in Requests :
              \/ request'[r] = request[r]
              \/ request'[r].pc \notin {"ready", "locked"}
    PROVE  RequestsAreRecent'
BY DEF Kept, IngestionInv, RequestsAreRecent, SameCheck

LEMMA StoreStep ==
    ASSUME Kept, NEW s \in Instances, NEW k \in Keys, Store(s, k)
    PROVE  IngestionInv'
<1> DEFINE answer == load[s][k].metadata
<1>1. /\ \A j \in Keys : MetadataOf(j)' = MetadataOf(j)
      /\ row'.key = row.key /\ row.key \in Nat /\ Keys \subseteq Nat
  BY SameMetadata DEF Kept, SameCheck, IngestionInv, IngestionTypeOK, CheckRows, Keys
<1>2. answer \in Metadata /\ Stored(answer) \in Entries
  BY NothingIsKnown DEF Kept, IngestionInv, IngestionTypeOK, Loads
<1>3. /\ cache'[s][k] = Stored(answer)
      /\ \A t \in Instances, j \in Keys : t # s \/ j # k => cache'[t][j] = cache[t][j]
  BY <1>2, OneEntry DEF Store, Kept, IngestionInv
<1>4. /\ load'[s][k] = NoLoad
      /\ \A t \in Instances, j \in Keys : t # s \/ j # k => load'[t][j] = load[t][j]
  <2>1. load' = [load EXCEPT ![s][k] = NoLoad] /\ load \in [Instances -> [Keys -> Loads]]
    BY DEF Store, Kept, IngestionInv, IngestionTypeOK
  <2> HIDE DEF answer
  <2>2. load'[s][k] = NoLoad
    BY <2>1
  <2>3. ASSUME NEW t \in Instances, NEW j \in Keys, t # s \/ j # k
        PROVE  load'[t][j] = load[t][j]
    BY <2>1, <2>3
  <2> QED
    BY <2>2, <2>3
<1>5. load[s][k].pc = "answered" /\ (answer = MetadataOf(k) \/ sinceEdit = 0)
  BY DEF Store, Kept, IngestionInv, LoadsAreRecent
<1>6. ~(k > row.key) /\ k <= row.key
  BY <1>1, <1>5 DEF Kept, IngestionInv, KeysToComeAreUnseen
<1>7. StalenessIsBounded'
  <2> SUFFICES ASSUME NEW t \in Instances, NEW j \in Keys, Stale(t, j)'
               PROVE  cache'[t][j].left + sinceEdit' <= PositiveTtl
    BY DEF StalenessIsBounded
  <2>1. CASE t = s /\ j = k
    <3>1. sinceEdit' = 0
      BY <1>1, <1>3, <1>5, <2>1 DEF Stale, Stored, Kept
    <3>2. cache'[t][j].left \in 0 .. PositiveTtl
      BY DEF Kept, IngestionTypeOK, Entries
    <3> QED
      BY <3>1, <3>2, IngestionAssumption
  <2>2. CASE t # s \/ j # k
    <3>1. cache'[t][j] = cache[t][j] /\ Stale(t, j)
      BY <1>1, <1>3, <2>2 DEF Stale, Fresh
    <3> QED
      BY <3>1 DEF Kept, IngestionInv, CacheIsTrue, StalenessIsBounded
  <2> QED
    BY <2>1, <2>2
<1>8. NegativeEntriesAreTrue'
  <2> SUFFICES ASSUME NEW t \in Instances, NEW j \in Keys, j <= row.key
               PROVE  /\ Fresh(t, j)' /\ cache'[t][j].metadata = Unknown
                         => MetadataOf(j) = Unknown
                      /\ load'[t][j].pc = "answered" /\ load'[t][j].metadata = Unknown
                         => MetadataOf(j) = Unknown
    BY <1>1 DEF NegativeEntriesAreTrue
  <2>1. /\ Fresh(t, j) /\ cache[t][j].metadata = Unknown => MetadataOf(j) = Unknown
        /\ load[t][j].pc = "answered" /\ load[t][j].metadata = Unknown
           => MetadataOf(j) = Unknown
    BY DEF Kept, IngestionInv, CacheIsTrue, NegativeEntriesAreTrue
  <2>2. CASE t = s /\ j = k
    BY <1>3, <1>4, <1>5, <2>1, <2>2 DEF Stored, NoLoad
  <2>3. CASE t # s \/ j # k
    BY <1>3, <1>4, <2>1, <2>3 DEF Fresh
  <2> QED
    BY <2>2, <2>3
<1>9. KeysToComeAreUnseen'
  BY <1>1, <1>3, <1>4, <1>6 DEF Kept, IngestionInv, KeysToComeAreUnseen
<1>10. LoadsAreRecent'
  BY <1>1, <1>4 DEF Kept, IngestionInv, LoadsAreRecent, NoLoad
<1>11. RequestsAreRecent'
  <2> SUFFICES ASSUME NEW r \in Requests
               PROVE  /\ request'[r].pc \in {"ready", "locked"}
                         => /\ request'[r].metadata \in ScheduleNames
                            /\ request'[r].metadata = row'.schedule \/ sinceEdit' < PositiveTtl
                      /\ request'[r].pc = "locked" /\ ~row'.alive => sinceEdit' < PositiveTtl
    BY DEF RequestsAreRecent
  <2>1. request[r] \in RequestStates
    BY DEF Kept, IngestionInv, IngestionTypeOK
  <2>2. \/ request'[r] = request[r]
        \/ request'[r].pc = "idle"
        \/ /\ request'[r].pc = "ready" /\ request'[r].metadata = answer
           /\ answer # Unknown
    BY <2>1, NothingIsKnown DEF Store, RequestStates
  <2>3. CASE request'[r] = request[r]
    BY <2>3 DEF Kept, SameCheck, IngestionInv, RequestsAreRecent
  <2>4. CASE request'[r].pc = "ready" /\ request'[r].metadata = answer /\ answer # Unknown
    <3>1. answer \in ScheduleNames
      BY <1>2, <2>4 DEF Metadata
    <3>2. answer = row.schedule \/ sinceEdit = 0
      BY <1>5, <2>4, NothingIsKnown
    <3>3. sinceEdit = 0 => sinceEdit < PositiveTtl
      BY IngestionAssumption
    <3> QED
      BY <2>4, <3>1, <3>2, <3>3 DEF Kept, SameCheck
  <2> QED
    BY <2>2, <2>3, <2>4
<1> QED
  BY <1>7, <1>8, <1>9, <1>10, <1>11 DEF IngestionInv, CacheIsTrue, Kept

LEMMA LookUpStep ==
    ASSUME Kept, NEW s \in Instances, NEW k \in Keys, LookUp(s, k)
    PROVE  IngestionInv'
<1> DEFINE answered == [pc |-> "answered", metadata |-> MetadataOf(k)]
<1>1. /\ \A j \in Keys : MetadataOf(j)' = MetadataOf(j)
      /\ row'.key = row.key /\ row.key \in Nat /\ Keys \subseteq Nat
  BY SameMetadata DEF Kept, SameCheck, IngestionInv, IngestionTypeOK, CheckRows, Keys
<1>2. answered \in Loads
  BY NothingIsKnown DEF Kept, IngestionInv, IngestionTypeOK, CheckRows, Loads, Metadata
<1>3. load' = [load EXCEPT ![s][k] = answered] /\ load[s][k].pc = "asked"
  BY DEF LookUp
<1>4. /\ load'[s][k] = answered
      /\ \A t \in Instances, j \in Keys : t # s \/ j # k => load'[t][j] = load[t][j]
  <2> HIDE DEF answered
  <2> QED
    BY <1>2, <1>3, OneLoad DEF Kept, IngestionInv
<1>5. ~(k > row.key)
  BY <1>1, <1>3 DEF Kept, IngestionInv, KeysToComeAreUnseen
<1>6. UNCHANGED <<cache, request>>
  BY DEF LookUp
<1>7. StalenessIsBounded' /\ RequestsAreRecent'
  <2>1. /\ \A t \in Instances, j \in Keys : cache'[t][j] = cache[t][j]
        /\ \A r \in Requests : request'[r] = request[r]
    BY <1>6
  <2> QED
    BY <2>1, EntriesKept, RequestsKept
<1>8. NegativeEntriesAreTrue'
  <2> SUFFICES ASSUME NEW t \in Instances, NEW j \in Keys, j <= row.key
               PROVE  /\ Fresh(t, j)' /\ cache'[t][j].metadata = Unknown
                         => MetadataOf(j) = Unknown
                      /\ load'[t][j].pc = "answered" /\ load'[t][j].metadata = Unknown
                         => MetadataOf(j) = Unknown
    BY <1>1 DEF NegativeEntriesAreTrue
  <2>1. /\ Fresh(t, j) /\ cache[t][j].metadata = Unknown => MetadataOf(j) = Unknown
        /\ load[t][j].pc = "answered" /\ load[t][j].metadata = Unknown
           => MetadataOf(j) = Unknown
    BY DEF Kept, IngestionInv, CacheIsTrue, NegativeEntriesAreTrue
  <2>2. Fresh(t, j)' /\ cache'[t][j].metadata = Unknown => MetadataOf(j) = Unknown
    BY <1>6, <2>1 DEF Fresh
  <2>3. load'[t][j].pc = "answered" /\ load'[t][j].metadata = Unknown
        => MetadataOf(j) = Unknown
    BY <1>4, <2>1
  <2> QED
    BY <2>2, <2>3
<1>9. KeysToComeAreUnseen'
  BY <1>1, <1>4, <1>5, <1>6 DEF Kept, IngestionInv, KeysToComeAreUnseen
<1>10. LoadsAreRecent'
  BY <1>1, <1>4 DEF Kept, IngestionInv, LoadsAreRecent
<1> QED
  BY <1>7, <1>8, <1>9, <1>10 DEF IngestionInv, CacheIsTrue, Kept

LEMMA CacheStepInv ==
    ASSUME IngestionInv, NEW s \in Instances, NEW k \in Keys, CacheStep(s, k)
    PROVE  IngestionInv'
<1>1. Kept
  <2>1. UNCHANGED <<row, sinceEdit>>
    BY DEF CacheStep, LookUp, Store, LookUpFails, Evict, Invalidate, Hear
  <2> QED
    BY <2>1, CacheStepTypeOK DEF Kept, SameCheck, IngestionInv
<1>2. CASE LookUp(s, k) \/ Store(s, k)
  BY <1>1, <1>2, LookUpStep, StoreStep
<1>3. CASE LookUpFails(s, k)
  <2>1. \A t \in Instances, j \in Keys : cache'[t][j] = cache[t][j]
    BY <1>3 DEF LookUpFails
  <2>2. \A t \in Instances, j \in Keys : load'[t][j] = load[t][j] \/ load'[t][j].pc = "none"
    <3>1. IngestionTypeOK /\ load' = [load EXCEPT ![s][k] = NoLoad]
      BY <1>3 DEF LookUpFails, IngestionInv
    <3> QED
      BY <3>1, NothingIsKnown, OneLoad DEF NoLoad
  <2>3. \A r \in Requests :
           request'[r] = request[r] \/ request'[r].pc \notin {"ready", "locked"}
    BY <1>3, NothingIsKnown DEF LookUpFails
  <2> QED
    BY <1>1, <2>1, <2>2, <2>3, NothingIsLearnt, RequestsKept DEF IngestionInv, Kept
<1>4. CASE Evict(s, k) \/ Invalidate(s, k) \/ Hear(s, k)
  <2>1. SetEntry(s, k, NoEntry) /\ UNCHANGED <<load, request>>
    BY <1>4 DEF Evict, Invalidate, Hear
  <2>2. \A t \in Instances, j \in Keys : cache'[t][j] = cache[t][j] \/ cache'[t][j] = NoEntry
    BY <2>1, NothingIsKnown, OneEntry DEF IngestionInv
  <2>3. /\ \A t \in Instances, j \in Keys : load'[t][j] = load[t][j]
        /\ \A r \in Requests : request'[r] = request[r]
    BY <2>1
  <2> QED
    BY <1>1, <2>2, <2>3, NothingIsLearnt, RequestsKept DEF IngestionInv, Kept
<1> QED
  BY <1>2, <1>3, <1>4 DEF CacheStep

LEMMA RequestStepInv ==
    ASSUME IngestionInv, NEW r \in Requests, RequestStep(r)
    PROVE  IngestionInv'
<1>1. IngestionTypeOK /\ IngestionTypeOK' /\ RequestsAreRecent
  BY RequestStepTypeOK DEF IngestionInv
<1>2. ASSUME NEW s \in Instances, NEW k \in Keys, NEW kind \in PingKinds, Receive(r, s, k, kind)
      PROVE  IngestionInv'
  <2>1. Kept
    BY <1>1, <1>2 DEF Receive, Kept, SameCheck
  <2>2. \A t \in Instances, j \in Keys : cache'[t][j] = cache[t][j]
    <3>1. cache[s][k] \in Entries
      BY <1>1 DEF IngestionTypeOK
    <3>2. UNCHANGED cache \/ SetEntry(s, k, cache[s][k])
      BY <1>2 DEF Receive, Touched
    <3> QED
      BY <1>1, <3>1, <3>2, OneEntry
  <2>3. \A t \in Instances, j \in Keys :
           \/ load'[t][j] = load[t][j]
           \/ load'[t][j].pc = "asked" /\ j <= row.key
    <3>1. [NoLoad EXCEPT !.pc = "asked"] \in Loads
      BY NothingIsKnown DEF Loads
    <3>2. load' = load \/ load' = [load EXCEPT ![s][k] = [NoLoad EXCEPT !.pc = "asked"]]
      BY <1>2 DEF Receive
    <3>3. k <= row.key
      BY <1>2 DEF Receive
    <3> QED
      BY <1>1, <3>1, <3>2, <3>3, OneLoad DEF NoLoad
  <2>4. CacheIsTrue' /\ KeysToComeAreUnseen' /\ LoadsAreRecent'
    BY <2>1, <2>2, <2>3, NothingIsLearnt
  <2>5. CASE /\ Fresh(s, k) /\ cache[s][k].metadata # Unknown
             /\ request' = [request EXCEPT ![r] =
                   [pc |-> "ready", server |-> s, key |-> k, kind |-> kind,
                    metadata |-> cache[s][k].metadata]]
    <3>1. cache[s][k].metadata \in ScheduleNames /\ sinceEdit \in Nat
      BY <1>1, <2>5, IngestionAssumption DEF IngestionTypeOK, Entries, Metadata
    <3>2. cache[s][k].metadata = row.schedule \/ sinceEdit < PositiveTtl
      <4>1. CASE cache[s][k].metadata = MetadataOf(k)
        BY <2>5, <4>1, NothingIsKnown
      <4>2. CASE cache[s][k].metadata # MetadataOf(k)
        <5>1. cache[s][k].left + sinceEdit <= PositiveTtl /\ cache[s][k].left > 0
          BY <2>5, <4>2 DEF IngestionInv, CacheIsTrue, StalenessIsBounded, Stale, Fresh
        <5>2. cache[s][k].left \in Nat
          BY <1>1, IngestionAssumption DEF IngestionTypeOK, Entries
        <5> QED
          BY <3>1, <5>1, <5>2, IngestionAssumption
      <4> QED
        BY <4>1, <4>2
    <3>3. \A q \in Requests \ {r} : request'[q] = request[q]
      BY <1>1, <2>5 DEF IngestionTypeOK
    <3>4. request'[r].pc = "ready" /\ request'[r].metadata = cache[s][k].metadata
      BY <1>1, <2>5 DEF IngestionTypeOK
    <3>5. RequestsAreRecent'
      BY <1>1, <2>1, <3>1, <3>2, <3>3, <3>4 DEF RequestsAreRecent, Kept, SameCheck
    <3> QED
      BY <1>1, <2>4, <3>5 DEF IngestionInv
  <2>6. CASE \A q \in Requests :
                request'[q] = request[q] \/ request'[q].pc \in {"idle", "waiting"}
    BY <1>1, <2>1, <2>4, <2>6, RequestsKept DEF IngestionInv
  <2> QED
    BY <1>1, <1>2, <2>5, <2>6, NothingIsKnown DEF Receive, IngestionTypeOK
<1>3. CASE ReadSnapshot(r) \/ WritePing(r) \/ PingFails(r)
  <2>1. Kept
    <3>1. SameCheck
      BY <1>1, <1>3 DEF ReadSnapshot, WritePing, PingFails, SameCheck, IngestionTypeOK, CheckRows
    <3>2. sinceEdit' = sinceEdit
      BY <1>3 DEF ReadSnapshot, WritePing, PingFails
    <3> QED
      BY <1>1, <3>1, <3>2 DEF Kept
  <2>2. UNCHANGED <<cache, load>>
    BY <1>3 DEF ReadSnapshot, WritePing, PingFails
  <2>3. /\ \A t \in Instances, j \in Keys : cache'[t][j] = cache[t][j]
        /\ \A t \in Instances, j \in Keys : load'[t][j] = load[t][j]
    BY <2>2
  <2>4. CacheIsTrue' /\ KeysToComeAreUnseen' /\ LoadsAreRecent'
    BY <2>1, <2>3, NothingIsLearnt
  <2>5. \/ request' = [request EXCEPT ![r] = IdleRequest]
        \/ /\ request[r].pc = "ready" /\ row.alive
           /\ request' = [request EXCEPT ![r].pc = "locked"]
    BY <1>3 DEF ReadSnapshot, WritePing, PingFails
  <2>6. RequestsAreRecent'
    <3>1. CASE request' = [request EXCEPT ![r] = IdleRequest]
      BY <1>1, <2>1, <3>1, NothingIsKnown, RequestsKept DEF IngestionTypeOK
    <3>2. CASE /\ request[r].pc = "ready" /\ row.alive
               /\ request' = [request EXCEPT ![r].pc = "locked"]
      <4>1. /\ request'[r].metadata = request[r].metadata
            /\ \A q \in Requests \ {r} : request'[q] = request[q]
        BY <1>1, <3>2 DEF IngestionTypeOK, RequestStates
      <4> QED
        BY <1>1, <2>1, <3>2, <4>1 DEF RequestsAreRecent, Kept, SameCheck
    <3> QED
      BY <2>5, <3>1, <3>2
  <2> QED
    BY <1>1, <2>4, <2>6 DEF IngestionInv
<1> QED
  BY <1>2, <1>3 DEF RequestStep

-----------------------------------------------------------------------------
(* Edits, connections and time.                                            *)

LEMMA EditStepInv ==
    ASSUME IngestionInv, NEW s \in Editors, EditStep(s)
    PROVE  IngestionInv'
<1>1. IngestionTypeOK /\ IngestionTypeOK' /\ UNCHANGED <<cache, load, request>>
  BY EditStepTypeOK
  DEF IngestionInv, EditStep, PauseCheck, ResumeCheck, RescheduleCheck, Rotate, Delete
<1>2. CASE PauseCheck(s) \/ ResumeCheck(s)
  <2>1. Kept
    <3>1. SameCheck /\ sinceEdit' = sinceEdit
      BY <1>1, <1>2 DEF PauseCheck, ResumeCheck, SameCheck, IngestionTypeOK, CheckRows
    <3> QED
      BY <1>1, <3>1 DEF Kept
  <2>2. /\ \A t \in Instances, j \in Keys : cache'[t][j] = cache[t][j]
        /\ \A t \in Instances, j \in Keys : load'[t][j] = load[t][j]
        /\ \A r \in Requests : request'[r] = request[r]
    BY <1>1
  <2> QED
    BY <1>1, <2>1, <2>2, NothingIsLearnt, RequestsKept DEF IngestionInv
<1>3. CASE sinceEdit' = 0 /\ (Rotate(s) \/ Delete(s)
                               \/ \E schedule \in ScheduleNames : RescheduleCheck(s, schedule))
  <2>1. sinceEdit' = 0 /\ 0 < PositiveTtl
    BY <1>3, IngestionAssumption
  <2>2. /\ row.key \in Nat /\ row'.key \in Nat /\ Keys \subseteq Nat
        /\ row'.key = row.key \/ row'.key = row.key + 1
        /\ row'.key = row.key
           => \A j \in Keys : MetadataOf(j) = Unknown => MetadataOf(j)' = Unknown
        /\ row'.key = row.key + 1
           => \A j \in Keys : j # row'.key => MetadataOf(j)' = Unknown
    <3>1. /\ row \in CheckRows /\ row' \in CheckRows /\ row.key \in Nat /\ row'.key \in Nat
          /\ Keys \subseteq Nat
      BY <1>1 DEF IngestionTypeOK, CheckRows, Keys
    <3>2. CASE Rotate(s)
      <4>1. row.alive /\ row' = [row EXCEPT !.key = row.key + 1]
        BY <3>2 DEF Rotate
      <4>2. row'.key = row.key + 1
        BY <3>1, <4>1 DEF CheckRows
      <4> QED
        BY <3>1, <4>2 DEF MetadataOf
    <3>3. CASE Delete(s)
      <4>1. row'.key = row.key /\ ~row'.alive
        BY <3>1, <3>3 DEF Delete, CheckRows
      <4> QED
        BY <3>1, <4>1 DEF MetadataOf
    <3>4. CASE \E schedule \in ScheduleNames : RescheduleCheck(s, schedule)
      <4>1. row'.key = row.key /\ row.alive /\ row.schedule \in ScheduleNames
        BY <3>1, <3>4 DEF RescheduleCheck, CheckRows
      <4>2. row'.alive = row.alive
        BY <3>1, <3>4 DEF RescheduleCheck, CheckRows
      <4> QED
        BY <3>1, <4>1, <4>2, IngestionAssumption DEF MetadataOf
    <3> QED
      BY <1>3, <3>2, <3>3, <3>4
  <2>3. StalenessIsBounded'
    <3> SUFFICES ASSUME NEW t \in Instances, NEW j \in Keys
                 PROVE  cache'[t][j].left + sinceEdit' <= PositiveTtl
      BY DEF StalenessIsBounded
    <3>1. cache'[t][j].left \in 0 .. PositiveTtl
      BY <1>1 DEF IngestionTypeOK, Entries
    <3> QED
      BY <2>1, <3>1, IngestionAssumption
  <2>4. NegativeEntriesAreTrue'
    <3> SUFFICES ASSUME NEW t \in Instances, NEW j \in Keys, j <= row'.key,
                        \/ cache[t][j].left > 0 /\ cache[t][j].metadata = Unknown
                        \/ load[t][j].pc = "answered" /\ load[t][j].metadata = Unknown
                 PROVE  MetadataOf(j)' = Unknown
      BY <1>1 DEF NegativeEntriesAreTrue, Fresh
    <3>1. ~(j > row.key)
      BY DEF IngestionInv, KeysToComeAreUnseen
    <3>2. j <= row.key
      BY <2>2, <3>1
    <3>3. MetadataOf(j) = Unknown
      BY <3>2 DEF IngestionInv, CacheIsTrue, NegativeEntriesAreTrue, Fresh
    <3> QED
      BY <2>2, <3>2, <3>3
  <2>5. KeysToComeAreUnseen'
    <3> SUFFICES ASSUME NEW t \in Instances, NEW j \in Keys, j > row'.key
                 PROVE  cache[t][j].left = 0 /\ load[t][j].pc = "none"
      BY <1>1 DEF KeysToComeAreUnseen
    <3>1. j > row.key
      BY <2>2
    <3> QED
      BY <3>1 DEF IngestionInv, KeysToComeAreUnseen
  <2>6. LoadsAreRecent'
    BY <2>1 DEF LoadsAreRecent
  <2>7. RequestsAreRecent'
    BY <1>1, <2>1 DEF RequestsAreRecent, IngestionInv
  <2> QED
    BY <1>1, <2>3, <2>4, <2>5, <2>6, <2>7 DEF IngestionInv, CacheIsTrue
<1> QED
  BY <1>2, <1>3 DEF EditStep, RescheduleCheck, Rotate, Delete

LEMMA ConnectionStepInv ==
    ASSUME IngestionInv, NEW s \in Instances, Disconnect(s) \/ Reconnect(s)
    PROVE  IngestionInv'
<1>1. IngestionTypeOK' /\ UNCHANGED <<row, cache, load, request, sinceEdit>>
  BY IngestionNextTypeOK DEF IngestionInv, IngestionNext, Disconnect, Reconnect
<1>2. Kept
  BY <1>1 DEF Kept, SameCheck
<1>3. /\ \A t \in Instances, j \in Keys : cache'[t][j] = cache[t][j]
      /\ \A t \in Instances, j \in Keys : load'[t][j] = load[t][j]
      /\ \A r \in Requests : request'[r] = request[r]
  BY <1>1
<1> QED
  BY <1>1, <1>2, <1>3, NothingIsLearnt, RequestsKept DEF IngestionInv

LEMMA ClockInv ==
    ASSUME IngestionInv, IngestionClock
    PROVE  IngestionInv'
<1>1. /\ IngestionTypeOK /\ IngestionTypeOK' /\ UNCHANGED <<row, load, request>>
      /\ \A t \in Instances, j \in Keys : load[t][j].pc = "none"
      /\ \A r \in Requests : request[r].pc = "idle"
  BY ClockTypeOK DEF IngestionInv, IngestionClock
<1>2. \A k \in Keys : MetadataOf(k)' = MetadataOf(k)
  BY <1>1 DEF MetadataOf
<1>3. sinceEdit \in Nat /\ sinceEdit' \in Nat /\ sinceEdit' <= sinceEdit + 1
  <2>1. sinceEdit' = IF sinceEdit = PositiveTtl THEN sinceEdit ELSE sinceEdit + 1
    BY DEF IngestionClock
  <2> QED
    BY <1>1, <2>1, IngestionAssumption DEF IngestionTypeOK
<1>4. ASSUME NEW t \in Instances, NEW j \in Keys
      PROVE  /\ cache[t][j].left \in Nat
             /\ \/ cache'[t][j].left = 0
                \/ /\ cache[t][j].left > 1
                   /\ cache'[t][j].left = cache[t][j].left - 1
                   /\ cache'[t][j].metadata = cache[t][j].metadata
  <2>1. cache[t][j] \in Entries /\ cache[t][j].left \in Nat
    BY <1>1, IngestionAssumption DEF IngestionTypeOK, Entries
  <2>2. cache'[t][j] = IF cache[t][j].left <= 1 THEN NoEntry
                       ELSE [cache[t][j] EXCEPT !.left = Less(@)]
    BY DEF IngestionClock
  <2>3. CASE cache[t][j].left <= 1
    BY <2>1, <2>2, <2>3 DEF NoEntry
  <2>4. CASE ~(cache[t][j].left <= 1)
    <3>1. Less(cache[t][j].left) = cache[t][j].left - 1 /\ cache[t][j].left > 1
      BY <2>1, <2>4 DEF Less
    <3>2. cache'[t][j] = [cache[t][j] EXCEPT !.left = Less(@)]
      BY <2>2, <2>4
    <3> QED
      BY <2>1, <3>1, <3>2 DEF Entries
  <2> QED
    BY <2>3, <2>4
<1>5. StalenessIsBounded'
  <2> SUFFICES ASSUME NEW t \in Instances, NEW j \in Keys, Stale(t, j)'
               PROVE  cache'[t][j].left + sinceEdit' <= PositiveTtl
    BY DEF StalenessIsBounded
  <2>1. /\ cache[t][j].left \in Nat /\ cache[t][j].left > 1
        /\ cache'[t][j].left = cache[t][j].left - 1
        /\ cache'[t][j].metadata = cache[t][j].metadata
    BY <1>4 DEF Stale, Fresh
  <2>2. Stale(t, j)
    BY <1>2, <2>1 DEF Stale, Fresh
  <2>3. cache[t][j].left + sinceEdit <= PositiveTtl
    BY <2>2 DEF IngestionInv, CacheIsTrue, StalenessIsBounded
  <2> QED
    BY <1>3, <2>1, <2>3, IngestionAssumption
<1>6. NegativeEntriesAreTrue'
  <2> SUFFICES ASSUME NEW t \in Instances, NEW j \in Keys, j <= row.key,
                      cache'[t][j].left > 0 /\ cache'[t][j].metadata = Unknown
               PROVE  MetadataOf(j)' = Unknown
    BY <1>1 DEF NegativeEntriesAreTrue, Fresh
  <2>1. cache[t][j].left > 0 /\ cache[t][j].metadata = Unknown
    BY <1>4
  <2> QED
    BY <1>2, <2>1 DEF IngestionInv, CacheIsTrue, NegativeEntriesAreTrue, Fresh
<1>7. KeysToComeAreUnseen'
  BY <1>1, <1>4 DEF IngestionInv, KeysToComeAreUnseen
<1>8. LoadsAreRecent' /\ RequestsAreRecent'
  BY <1>1 DEF LoadsAreRecent, RequestsAreRecent
<1> QED
  BY <1>1, <1>5, <1>6, <1>7, <1>8 DEF IngestionInv, CacheIsTrue

-----------------------------------------------------------------------------
(* The component keeps its promises.                                       *)

LEMMA IngestionInvInit == IngestionInit => IngestionInv
<1> SUFFICES ASSUME IngestionInit PROVE IngestionInv
  OBVIOUS
<1>1. /\ \A s \in Instances, k \in Keys : cache[s][k].left = 0 /\ load[s][k].pc = "none"
      /\ \A r \in Requests : request[r].pc = "idle"
  BY NothingIsKnown DEF IngestionInit, NoEntry, NoLoad
<1> QED
  BY <1>1, InitIngestionTypeOK
  DEF IngestionInv, CacheIsTrue, StalenessIsBounded, NegativeEntriesAreTrue, Stale, Fresh,
      KeysToComeAreUnseen, LoadsAreRecent, RequestsAreRecent

LEMMA IngestionInvStep == IngestionInv /\ [IngestionNext]_ingestionVars => IngestionInv'
<1> SUFFICES ASSUME IngestionInv, [IngestionNext]_ingestionVars PROVE IngestionInv'
  OBVIOUS
<1>1. CASE IngestionNext
  BY <1>1, RequestStepInv, EditStepInv, ConnectionStepInv, CacheStepInv, ClockInv
  DEF IngestionNext
<1>2. CASE UNCHANGED ingestionVars
  BY <1>2
  DEF ingestionVars, IngestionInv, IngestionTypeOK, CacheIsTrue, StalenessIsBounded,
      NegativeEntriesAreTrue, Stale, Fresh, MetadataOf, KeysToComeAreUnseen, LoadsAreRecent,
      RequestsAreRecent
<1> QED
  BY <1>1, <1>2

\* A locked heartbeat of a deleted check writes nothing; another writes what it goes by.
LEMMA DeadlineStep == IngestionInv => DeadlineBySchedule
<1> SUFFICES ASSUME IngestionInv, NEW r \in Requests, WritePing(r),
                    row'.dueBy # row'.schedule, request[r].kind # "start"
             PROVE  sinceEdit < PositiveTtl
  BY DEF DeadlineBySchedule
<1>1. CASE row.alive
  <2>1. row'.dueBy = request[r].metadata /\ row'.schedule = row.schedule
    BY <1>1 DEF WritePing, IngestionInv, IngestionTypeOK, CheckRows
  <2> QED
    BY <2>1 DEF WritePing, IngestionInv, RequestsAreRecent
<1>2. CASE ~row.alive
  BY <1>2 DEF WritePing, IngestionInv, RequestsAreRecent
<1> QED
  BY <1>1, <1>2

(***************************************************************************)
(* The cache, the lookups and the heartbeats are of their types in every   *)
(* state, whatever is edited and lost in between (ingest.service.ts).      *)
(***************************************************************************)
THEOREM IngestionTypeCorrect == IngestionSpec => []IngestionTypeOK
<1>1. IngestionInv => IngestionTypeOK
  BY DEF IngestionInv
<1> QED
  BY <1>1, IngestionInvInit, IngestionInvStep, PTL DEF IngestionSpec

(***************************************************************************)
(* An entry that no longer says what the database says is younger than     *)
(* positiveTtlMs less the time since the edit, and a key that works is     *)
(* never held to be unknown: for any instances, keys, lifetimes and losses *)
(* (CheckMetadataCache).                                                   *)
(***************************************************************************)
THEOREM CacheStaysTrue == IngestionSpec => []CacheIsTrue
<1>1. IngestionInv => CacheIsTrue
  BY DEF IngestionInv
<1> QED
  BY <1>1, IngestionInvInit, IngestionInvStep, PTL DEF IngestionSpec

(***************************************************************************)
(* A heartbeat moves the deadline to that of a replaced schedule only      *)
(* within positiveTtlMs of the edit (IngestService.ingest).                *)
(***************************************************************************)
THEOREM DeadlinesFollowTheSchedule == IngestionSpec => [][DeadlineBySchedule]_ingestionVars
<1>1. IngestionInv /\ [IngestionNext]_ingestionVars => [DeadlineBySchedule]_ingestionVars
  BY DeadlineStep
<1> QED
  BY <1>1, IngestionInvInit, IngestionInvStep, PTL DEF IngestionSpec

-----------------------------------------------------------------------------
(***************************************************************************)
(* The two together.                                                       *)
(***************************************************************************)

HeartbeatsInv ==
    /\ part \in {"Ingestion", "Alerting"}
    /\ part = "Ingestion" => IngestionInv
    /\ part = "Alerting" => AlertingInv

HeartbeatsTypeInv == HeartbeatsInv /\ (part = "Alerting" => AlertingTypeInv)

LEMMA HeartbeatsInvInit == HeartbeatsInit => HeartbeatsInv
<1> SUFFICES ASSUME HeartbeatsInit PROVE HeartbeatsInv
  OBVIOUS
<1>1. CASE part = "Ingestion"
  BY <1>1, IngestionInvInit DEF HeartbeatsInit, HeartbeatsInv
<1>2. CASE part = "Alerting"
  BY <1>2, AlertingInvInit DEF HeartbeatsInit, HeartbeatsInv
<1> QED
  BY <1>1, <1>2 DEF HeartbeatsInit

\* One component moves, as it does on its own.
LEMMA OneMoves ==
    HeartbeatsInv /\ [HeartbeatsNext]_heartbeatsVars
    => /\ part' = part
       /\ part = "Ingestion" => [IngestionNext]_ingestionVars
       /\ part = "Alerting" => [AlertingNext]_alertingVars
BY Zenon DEF HeartbeatsNext, heartbeatsVars

LEMMA HeartbeatsInvStep == HeartbeatsInv /\ [HeartbeatsNext]_heartbeatsVars => HeartbeatsInv'
BY OneMoves, IngestionInvStep, AlertingInvStep DEF HeartbeatsInv

(***************************************************************************)
(* What the cache serves is so or was so a moment ago, and what is queued  *)
(* is of an incident in that stage (CheckMetadataCache, DetectionService). *)
(***************************************************************************)
THEOREM NothingIsEverMadeUp == HeartbeatsSpec => []NothingIsMadeUp
<1>1. HeartbeatsInv => NothingIsMadeUp
  BY AlertsAgree DEF HeartbeatsInv, IngestionInv, NothingIsMadeUp
<1> QED
  BY <1>1, HeartbeatsInvInit, HeartbeatsInvStep, PTL DEF HeartbeatsSpec

(***************************************************************************)
(* The deadline a heartbeat writes is that of the schedule of its check,   *)
(* or of one replaced less than positiveTtlMs ago (IngestService.ingest).  *)
(***************************************************************************)
THEOREM DeadlinesStayOfSchedules == HeartbeatsSpec => DeadlinesAreOfSchedules
<1>1. HeartbeatsInv /\ [HeartbeatsNext]_heartbeatsVars
      => [part = "Ingestion" => DeadlineBySchedule]_heartbeatsVars
  BY DeadlineStep DEF HeartbeatsInv
<1> QED
  BY <1>1, HeartbeatsInvInit, HeartbeatsInvStep, PTL DEF HeartbeatsSpec, DeadlinesAreOfSchedules

(***************************************************************************)
(* Every table, cache, pass and counter is of its type in every state.     *)
(***************************************************************************)
THEOREM HeartbeatsTypeCorrect ==
    IsFiniteSet(Checks) /\ IsFiniteSet(Channels) => (HeartbeatsSpec => []HeartbeatsTypeOK)
<1> SUFFICES ASSUME IsFiniteSet(Checks), IsFiniteSet(Channels)
             PROVE  HeartbeatsSpec => []HeartbeatsTypeOK
  OBVIOUS
<1>1. HeartbeatsInit => HeartbeatsTypeInv
  BY HeartbeatsInvInit, AlertingTypeInit DEF HeartbeatsInit, HeartbeatsTypeInv
<1>2. HeartbeatsTypeInv /\ [HeartbeatsNext]_heartbeatsVars => HeartbeatsTypeInv'
  BY HeartbeatsInvStep, OneMoves, AlertingTypeStep DEF HeartbeatsTypeInv
<1>3. HeartbeatsTypeInv => HeartbeatsTypeOK
  BY AlertingTypes DEF HeartbeatsTypeInv, HeartbeatsInv, IngestionInv, HeartbeatsTypeOK
<1> QED
  BY <1>1, <1>2, <1>3, PTL DEF HeartbeatsSpec

=================================================================================
