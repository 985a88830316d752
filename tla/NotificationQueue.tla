-------------------------- MODULE NotificationQueue --------------------------
(***************************************************************************)
(* The alert queue (notification-queue.service.ts): a PostgreSQL table     *)
(* that the notification loop of every instance claims batches from,       *)
(* delivers one by one, and marks at the end.                              *)
(*                                                                         *)
(* Time is kept as timers that run down, so behaviours are unbounded in    *)
(* length and the state space is finite: wait is what is left until        *)
(* next_attempt_at, recent what is left of the hour that began at sent_at. *)
(* Database statements take no time; a send takes up to SendTimeout.       *)
(* Timers nobody will read again (of a settled row, or of the hour when no *)
(* ceiling is set) are kept at 0.                                          *)
(***************************************************************************)
EXTENDS Integers, FiniteSets

CONSTANTS
    Incidents,
    Channels,
    Servers,
    ClaimBatch,     \* NOTIFICATION_BATCH_SIZE
    MaxAttempts,    \* NOTIFICATION_MAX_ATTEMPTS
    Lease,          \* CLAIM_LEASE
    SendTimeout,    \* NOTIFICATION_TIMEOUT_MS
    BackoffBase,    \* the 30 s of RETRY_SQL
    BackoffCap,     \* the 3600 s of RETRY_SQL
    Ceiling,        \* ALERT_MAX_PER_CHANNEL_PER_HOUR, 0 for none
    Hour,
    MaxLosses       \* bound: crashes and failed statements over a behaviour

ASSUME QueueAssumption ==
    /\ ClaimBatch \in Nat \ {0}
    /\ MaxAttempts \in Nat \ {0}
    /\ Lease \in Nat /\ SendTimeout \in Nat
    /\ BackoffBase \in Nat /\ BackoffCap \in Nat
    /\ Ceiling \in Nat /\ Hour \in Nat
    /\ MaxLosses \in Nat

VARIABLES
    delivery,   \* the notification_delivery table, by (incident, channel, kind)
    enabled,    \* notification_channel.enabled
    worker,     \* what each instance's drain() is doing
    counted,    \* incident.notifications_sent
    told,       \* how many times the provider was handed each delivery
    losses      \* crashes and failed statements so far

queueVars == <<delivery, enabled, worker, counted, told, losses>>

AlertKinds == {"down", "up"}

\* The unique index makes the triple an identity.
Deliveries == Incidents \X Channels \X AlertKinds

DeliveryRows == [status   : {"absent", "pending", "sent", "failed"},
                 attempts : Nat,
                 wait     : Nat,
                 recent   : Nat]

AbsentRow == [status |-> "absent", attempts |-> 0, wait |-> 0, recent |-> 0]

(***************************************************************************)
(* A pass: todo are the claimed rows not yet tried, sending the one in     *)
(* flight, delivered the ones a provider took, sentLastHour the counts it  *)
(* goes by.                                                                *)
(***************************************************************************)
Workers == [pc           : {"idle", "context", "loop", "mark", "count"},
            todo         : SUBSET Deliveries,
            sending      : SUBSET Deliveries,
            elapsed      : Nat,
            delivered    : SUBSET Deliveries,
            sentLastHour : [Channels -> Nat]]

IdleWorker == [pc           |-> "idle",
               todo         |-> {},
               sending      |-> {},
               elapsed      |-> 0,
               delivered    |-> {},
               sentLastHour |-> [ch \in Channels |-> 0]]

QueueTypeOK ==
    /\ delivery \in [Deliveries -> DeliveryRows]
    /\ enabled \in [Channels -> BOOLEAN]
    /\ worker \in [Servers -> Workers]
    /\ counted \in [Incidents -> Nat]
    /\ told \in [Deliveries -> Nat]
    /\ losses \in Nat

QueueInit ==
    /\ delivery = [d \in Deliveries |-> AbsentRow]
    /\ enabled = [ch \in Channels |-> TRUE]
    /\ worker = [w \in Servers |-> IdleWorker]
    /\ counted = [i \in Incidents |-> 0]
    /\ told = [d \in Deliveries |-> 0]
    /\ losses = 0

-----------------------------------------------------------------------------
(* enqueue().                                                              *)

\* Mutant: an alert that is merely queued counts as announced.
AnnouncedOrQueued(i) == \E ch \in Channels : delivery[<<i, ch, "down">>].status # "absent"

\* Somebody was told of the outage, as far as the table knows.
Announced(i) == \E ch \in Channels : delivery[<<i, ch, "down">>].status = "sent"

\* Mutant: the EXISTS is asked of an outage's own alert too.
EnqueuedIfAnnounced(incidents, kind) ==
    {d \in Deliveries :
        /\ d[1] \in incidents
        /\ enabled[d[2]]
        /\ d[3] = kind
        /\ Announced(d[1])
        /\ delivery[d].status = "absent"}

\* The rows ENQUEUE_SQL inserts: every enabled channel, never twice.
Enqueued(incidents, kind) ==
    {d \in Deliveries :
        /\ d[1] \in incidents
        /\ enabled[d[2]]
        /\ d[3] = kind
        /\ kind = "up" => Announced(d[1])
        /\ delivery[d].status = "absent"}

Enqueue(incidents, kind) ==
    /\ delivery' = [d \in Deliveries |->
                      IF d \in Enqueued(incidents, kind)
                      THEN [AbsentRow EXCEPT !.status = "pending"]
                      ELSE delivery[d]]
    /\ UNCHANGED <<enabled, worker, counted, told, losses>>

-----------------------------------------------------------------------------
(* drain().                                                                *)

SetWorker(w, v) == worker' = [worker EXCEPT ![w] = v]

\* Mutant: the lease is ignored.
ClaimableAtOnce == {d \in Deliveries : delivery[d].status = "pending"}

\* Mutant: everything that is not sent is tried again.
ClaimableUnlessSent ==
    {d \in Deliveries : delivery[d].status \in {"pending", "failed"} /\ delivery[d].wait = 0}

\* Mutant: a row that used up its attempts is not claimed, even if its last
\* outcome was never written.
ClaimableBelowMax ==
    {d \in Deliveries : /\ delivery[d].status = "pending" /\ delivery[d].wait = 0
                        /\ delivery[d].attempts < MaxAttempts}

\* The pending rows whose next_attempt_at has come.
Claimable == {d \in Deliveries : delivery[d].status = "pending" /\ delivery[d].wait = 0}

\* CLAIM_SQL.  Which of the rows already due come first is left open.
Claim(w) ==
    /\ worker[w].pc = "idle"
    /\ \E batch \in SUBSET Claimable :
          /\ batch # {}
          /\ batch = Claimable \/ Cardinality(batch) = ClaimBatch
          /\ Cardinality(batch) <= ClaimBatch
          /\ delivery' = [d \in Deliveries |->
                            IF d \in batch
                            THEN [delivery[d] EXCEPT !.attempts = @ + 1, !.wait = Lease]
                            ELSE delivery[d]]
          /\ SetWorker(w, [IdleWorker EXCEPT !.pc = "context", !.todo = batch])
    /\ UNCHANGED <<enabled, counted, told, losses>>

\* What the table says a channel delivered within the last hour.
SentLastHour(ch) ==
    Cardinality({d \in Deliveries : /\ d[2] = ch
                                    /\ delivery[d].status = "sent"
                                    /\ delivery[d].recent > 0})

\* CONTEXT_SQL and sentLastHour().
ReadContext(w) ==
    /\ worker[w].pc = "context"
    /\ SetWorker(w, [worker[w] EXCEPT
            !.pc           = "loop",
            !.sentLastHour = [ch \in Channels |-> IF Ceiling = 0 THEN 0 ELSE SentLastHour(ch)]])
    /\ UNCHANGED <<delivery, enabled, counted, told, losses>>

\* Mutant: off by one.
OverCeilingByOne(w, ch) == Ceiling > 0 /\ worker[w].sentLastHour[ch] > Ceiling

OverCeiling(w, ch) == Ceiling > 0 /\ worker[w].sentLastHour[ch] >= Ceiling

\* The next row of the loop, in no particular order.
NextRow(w, d) ==
    /\ worker[w].pc = "loop"
    /\ worker[w].sending = {}
    /\ d \in worker[w].todo

\* REFUSE_SQL: final.
Refuse(w, d) ==
    /\ NextRow(w, d)
    /\ OverCeiling(w, d[2])
    /\ delivery' = [delivery EXCEPT ![d] = [@ EXCEPT !.status = "failed", !.wait = 0]]
    /\ SetWorker(w, [worker[w] EXCEPT !.todo = @ \ {d}])
    /\ UNCHANGED <<enabled, counted, told, losses>>

\* Mutant: delivered.push(row.id) before deliver() has returned.
BeginSendDelivered(w, d) ==
    /\ NextRow(w, d)
    /\ ~OverCeiling(w, d[2])
    /\ SetWorker(w, [worker[w] EXCEPT !.todo = @ \ {d}, !.sending = {d}, !.elapsed = 0,
                                      !.delivered = @ \cup {d}])
    /\ UNCHANGED <<delivery, enabled, counted, told, losses>>

\* deliver() hands the alert to the channel's sender.
BeginSend(w, d) ==
    /\ NextRow(w, d)
    /\ ~OverCeiling(w, d[2])
    /\ SetWorker(w, [worker[w] EXCEPT !.todo = @ \ {d}, !.sending = {d}, !.elapsed = 0])
    /\ UNCHANGED <<delivery, enabled, counted, told, losses>>

\* The provider took it.  Nothing is written yet.
SendOk(w, d) ==
    /\ d \in worker[w].sending
    /\ told' = [told EXCEPT ![d] = @ + 1]
    /\ SetWorker(w, [worker[w] EXCEPT
            !.sending            = {},
            !.elapsed            = 0,
            !.delivered          = @ \cup {d},
            !.sentLastHour[d[2]] = IF Ceiling = 0 THEN 0 ELSE @ + 1])
    /\ UNCHANGED <<delivery, enabled, counted, losses>>

\* LEAST(3600, 30 * power(2, attempts - 1)).
Backoff(attempts) ==
    LET delay == BackoffBase * 2 ^ (attempts - 1)
    IN  IF delay > BackoffCap THEN BackoffCap ELSE delay

\* Mutant: a retry starts counting afresh.
RetriedFromZero(row) ==
    IF row.attempts >= MaxAttempts
    THEN [row EXCEPT !.status = "failed", !.wait = 0]
    ELSE [row EXCEPT !.status = "pending", !.wait = Backoff(row.attempts), !.attempts = 0]

\* Mutant: a CASE without its ELSE.
RetriedWithoutElse(row) ==
    IF row.attempts >= MaxAttempts
    THEN [row EXCEPT !.status = "failed", !.wait = 0]
    ELSE [row EXCEPT !.status = "null", !.wait = Backoff(row.attempts)]

\* What RETRY_SQL makes of a row, whatever its status has become.
Retried(row) ==
    IF row.attempts >= MaxAttempts
    THEN [row EXCEPT !.status = "failed", !.wait = 0]
    ELSE [row EXCEPT !.status = "pending", !.wait = Backoff(row.attempts)]

\* The send throws: refused at once, or timed out, in which case the provider
\* may have taken it all the same.
SendFails(w, d) ==
    /\ d \in worker[w].sending
    /\ \/ UNCHANGED told
       \/ worker[w].elapsed = SendTimeout /\ told' = [told EXCEPT ![d] = @ + 1]
    /\ delivery' = [delivery EXCEPT ![d] = Retried(@)]
    /\ SetWorker(w, [worker[w] EXCEPT !.sending = {}, !.elapsed = 0])
    /\ UNCHANGED <<enabled, counted, losses>>

\* A refusal or a failure that could not be written is logged and forgotten:
\* the row stays pending behind its lease.
OutcomeUnrecorded(w, d) ==
    /\ losses < MaxLosses
    /\ losses' = losses + 1
    /\ \/ NextRow(w, d) /\ OverCeiling(w, d[2])
       \/ d \in worker[w].sending
    /\ SetWorker(w, [worker[w] EXCEPT !.todo = @ \ {d}, !.sending = {}, !.elapsed = 0])
    /\ UNCHANGED <<delivery, enabled, counted, told>>

\* The loop is over.
EndLoop(w) ==
    /\ worker[w].pc = "loop"
    /\ worker[w].todo = {} /\ worker[w].sending = {}
    /\ SetWorker(w, IF worker[w].delivered = {}
                    THEN IdleWorker
                    ELSE [worker[w] EXCEPT !.pc = "mark"])
    /\ UNCHANGED <<delivery, enabled, counted, told, losses>>

\* MARK_SENT_SQL, for the whole batch and whatever the rows have become.
MarkSent(w) ==
    /\ worker[w].pc = "mark"
    /\ delivery' = [d \in Deliveries |->
                      IF d \in worker[w].delivered
                      THEN [delivery[d] EXCEPT
                              !.status = "sent",
                              !.wait   = 0,
                              !.recent = IF Ceiling = 0 THEN 0 ELSE Hour]
                      ELSE delivery[d]]
    /\ SetWorker(w, [worker[w] EXCEPT !.pc = "count"])
    /\ UNCHANGED <<enabled, counted, told, losses>>

\* Mutant: counts what the incident's rows say instead of this batch.
CountSentEver(w) ==
    /\ worker[w].pc = "count"
    /\ counted' = [i \in Incidents |->
                     counted[i] + Cardinality({d \in Deliveries :
                                     d[1] = i /\ delivery[d].status = "sent"})]
    /\ SetWorker(w, IdleWorker)
    /\ UNCHANGED <<delivery, enabled, told, losses>>

\* COUNT_SENT_SQL.
CountSent(w) ==
    /\ worker[w].pc = "count"
    /\ counted' = [i \in Incidents |->
                     counted[i] + Cardinality({d \in worker[w].delivered : d[1] = i})]
    /\ SetWorker(w, IdleWorker)
    /\ UNCHANGED <<delivery, enabled, told, losses>>

\* The process dies, or a statement outside the loop's own catch throws:
\* everything the pass knew is forgotten.
Crash(w) ==
    /\ worker[w].pc # "idle"
    /\ losses < MaxLosses
    /\ losses' = losses + 1
    /\ SetWorker(w, IdleWorker)
    /\ UNCHANGED <<delivery, enabled, counted, told>>

DrainStep(w) ==
    \/ Claim(w)
    \/ ReadContext(w)
    \/ \E d \in Deliveries :
          Refuse(w, d) \/ BeginSend(w, d) \/ SendOk(w, d) \/ SendFails(w, d)
    \/ EndLoop(w)
    \/ MarkSent(w)
    \/ CountSent(w)

Loss(w) == Crash(w) \/ \E d \in Deliveries : OutcomeUnrecorded(w, d)

-----------------------------------------------------------------------------
(* The rest of the system.                                                 *)

\* A send that has used up its timeout, or a pass between two statements,
\* comes before the clock.
Unhurried(w) ==
    \/ worker[w].pc = "idle"
    \/ worker[w].sending # {} /\ worker[w].elapsed < SendTimeout

Less(t) == IF t = 0 THEN 0 ELSE t - 1

\* Timers run down.
QueueClock ==
    /\ \A w \in Servers : Unhurried(w)
    /\ delivery' = [d \in Deliveries |->
                      [delivery[d] EXCEPT !.wait = Less(@), !.recent = Less(@)]]
    /\ worker' = [w \in Servers |->
                    IF worker[w].sending = {} THEN worker[w]
                    ELSE [worker[w] EXCEPT !.elapsed = @ + 1]]
    /\ UNCHANGED <<enabled, counted, told, losses>>

\* ChannelsService.update: { enabled }.
SetEnabled(ch) ==
    /\ enabled' = [enabled EXCEPT ![ch] = ~@]
    /\ UNCHANGED <<delivery, worker, counted, told, losses>>

\* Detection calls enqueue with whatever it has opened or resolved at once.
EnqueueAny ==
    \E incidents \in SUBSET Incidents, kind \in AlertKinds :
        Enqueued(incidents, kind) # {} /\ Enqueue(incidents, kind)

QueueNext ==
    \/ EnqueueAny
    \/ \E ch \in Channels : SetEnabled(ch)
    \/ QueueClock
    \/ \E w \in Servers : DrainStep(w)
    \/ \E w \in Servers : Loss(w)

QueueSpec == QueueInit /\ [][QueueNext]_queueVars

(***************************************************************************)
(* Every instance keeps draining, time passes, and losses are finitely     *)
(* many.  Providers may refuse or stall every single send.                 *)
(***************************************************************************)
FairQueueSpec ==
    /\ QueueSpec
    /\ WF_queueVars(QueueClock)
    /\ \A w \in Servers : WF_queueVars(DrainStep(w))

-----------------------------------------------------------------------------
(* Properties.                                                             *)

(***************************************************************************)
(* A delivery the table calls sent was handed to its provider at least     *)
(* once, after any crashes, overlaps and failed statements (MARK_SENT_SQL  *)
(* marks only what deliver() returned from).                               *)
(***************************************************************************)
SentMeansTold == \A d \in Deliveries : delivery[d].status = "sent" => told[d] > 0

(***************************************************************************)
(* A recovery is never announced for an outage nobody was told about       *)
(* (ENQUEUE_SQL): an 'up' is queued only after some channel really         *)
(* received the 'down' of that incident.                                   *)
(***************************************************************************)
NoRecoveryOutOfTheBlue ==
    \A i \in Incidents, ch \in Channels :
        delivery[<<i, ch, "up">>].status # "absent"
        => \E c \in Channels : told[<<i, c, "down">>] > 0

(***************************************************************************)
(* A provider is handed an alert at most once per claim of its row, so     *)
(* attempts is an upper bound of what the recipient saw even when passes   *)
(* overlap (CLAIM_SQL counts the attempt before the send).                 *)
(***************************************************************************)
SendsWithinAttempts == \A d \in Deliveries : told[d] <= delivery[d].attempts

\* What a pass has claimed and not finished with.
Holding(w) == worker[w].todo \cup worker[w].sending
              \cup IF worker[w].pc = "count" THEN {} ELSE worker[w].delivered

(***************************************************************************)
(* Two instances claim disjoint batches: as long as a whole batch fits in  *)
(* the lease, no row is in the hands of two passes (CLAIM_SQL).            *)
(***************************************************************************)
DisjointBatches ==
    \A v, w \in Servers : v # w => Holding(v) \cap Holding(w) = {}

(***************************************************************************)
(* As long as a whole batch fits in the lease, sent and failed are final:  *)
(* no late RETRY_SQL or MARK_SENT_SQL of another pass reopens or rewrites  *)
(* the outcome.                                                            *)
(***************************************************************************)
OutcomeIsFinal ==
    \A d \in Deliveries :
        delivery[d].status \in {"sent", "failed"} => delivery'[d].status = delivery[d].status

\* What providers were handed for an incident, each delivery as often as it was.
Handings(i) == UNION {{d} \X (1 .. told[d]) : d \in {d \in Deliveries : d[1] = i}}

(***************************************************************************)
(* The reporting counter of an incident never exceeds what providers were  *)
(* handed for it; it may fall short (COUNT_SENT_SQL is a statement of its  *)
(* own, after MARK_SENT_SQL).                                              *)
(***************************************************************************)
CounterNeverInflated == \A i \in Incidents : counted[i] <= Cardinality(Handings(i))

(***************************************************************************)
(* A channel is not marked with more than its ceiling of alerts per hour   *)
(* by one instance, across crashes and clock ticks in the middle of a      *)
(* batch (the count is read once per batch and kept up in memory).         *)
(***************************************************************************)
CeilingHolds == Ceiling > 0 => \A ch \in Channels : SentLastHour(ch) <= Ceiling

(***************************************************************************)
(* Every queued alert is settled: it ends up sent or failed, whatever      *)
(* crashes and provider failures come in between.                          *)
(***************************************************************************)
EveryAlertSettles ==
    \A d \in Deliveries :
        delivery[d].status = "pending" ~> delivery[d].status \in {"sent", "failed"}

=============================================================================
