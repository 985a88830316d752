------------------------------ MODULE QueueProofs ------------------------------
(***************************************************************************)
(* What the delivery table says was said: for any incidents, channels and  *)
(* instances, batches, leases and timeouts, and wherever passes die or     *)
(* overlap.                                                                *)
(*                                                                         *)
(* Times take no part in these proofs, so nothing is assumed of them: the  *)
(* invariant speaks of the fields it needs and of no type of the others.   *)
(***************************************************************************)
EXTENDS NotificationQueue, FiniteSetTheorems, TLAPS

Statuses == {"absent", "pending", "sent", "failed"}

RowsAreRows ==
    /\ DOMAIN delivery = Deliveries
    /\ \A d \in Deliveries :
        /\ DOMAIN delivery[d] = {"status", "attempts", "wait", "recent"}
        /\ delivery[d].status \in Statuses
        /\ delivery[d].attempts \in Nat
        /\ delivery[d].status = "absent" => delivery[d].attempts = 0
    /\ told \in [Deliveries -> Nat]

PassesArePasses ==
    /\ DOMAIN worker = Servers
    /\ \A w \in Servers :
        /\ DOMAIN worker[w] = {"pc", "todo", "sending", "elapsed", "delivered", "sentLastHour"}
        /\ worker[w].todo \in SUBSET Deliveries
        /\ worker[w].sending \in SUBSET Deliveries
        /\ worker[w].delivered \in SUBSET Deliveries

(***************************************************************************)
(* What a pass has claimed is in the table, and what it will mark as sent  *)
(* was handed over.                                                        *)
(***************************************************************************)
PassesKnow ==
    \A w \in Servers :
        /\ \A d \in worker[w].todo \cup worker[w].sending : delivery[d].status # "absent"
        /\ \A d \in worker[w].delivered : delivery[d].status # "absent" /\ told[d] > 0

TruthInv ==
    /\ RowsAreRows /\ PassesArePasses /\ PassesKnow
    /\ SentMeansTold /\ NoRecoveryOutOfTheBlue

-----------------------------------------------------------------------------
(* A step that keeps every row in the table, hands over no less than       *)
(* before, and calls nothing sent that was not handed over keeps the truth *)
(* if its passes do.                                                       *)
LEMMA RowsKeepTheTruth ==
    ASSUME TruthInv, RowsAreRows',
           \A d \in Deliveries : told[d] > 0 => told'[d] > 0,
           \A d \in Deliveries : delivery[d].status = "absent" <=> delivery'[d].status = "absent",
           \A d \in Deliveries : delivery'[d].status = "sent" => told'[d] > 0
    PROVE  SentMeansTold' /\ NoRecoveryOutOfTheBlue'
<1>1. SentMeansTold'
  BY DEF SentMeansTold
<1>2. ASSUME NEW i \in Incidents, NEW ch \in Channels, delivery'[<<i, ch, "up">>].status # "absent"
      PROVE  \E c \in Channels : told'[<<i, c, "down">>] > 0
  <2>1. \A c \in Channels : <<i, c, "down">> \in Deliveries /\ <<i, c, "up">> \in Deliveries
    BY DEF Deliveries, AlertKinds
  <2>2. PICK c \in Channels : told[<<i, c, "down">>] > 0
    BY <1>2, <2>1 DEF TruthInv, NoRecoveryOutOfTheBlue
  <2> QED
    BY <2>1, <2>2
<1> QED
  BY <1>1, <1>2 DEF NoRecoveryOutOfTheBlue

(* A pass that looks at nothing new in a table that is as it was.          *)
LEMMA PassesKeepTheTruth ==
    ASSUME TruthInv, NEW w \in Servers, NEW v,
           worker' = [worker EXCEPT ![w] = v],
           DOMAIN v = {"pc", "todo", "sending", "elapsed", "delivered", "sentLastHour"},
           v.todo \cup v.sending \subseteq worker[w].todo \cup worker[w].sending,
           v.delivered \subseteq worker[w].delivered,
           UNCHANGED <<delivery, told>>
    PROVE  TruthInv'
<1>1. /\ DOMAIN worker' = Servers
      /\ \A u \in Servers : worker'[u] = IF u = w THEN v ELSE worker[u]
  BY DEF TruthInv, PassesArePasses
<1>2. PassesArePasses'
  BY <1>1 DEF TruthInv, PassesArePasses
<1>3. PassesKnow'
  BY <1>1 DEF TruthInv, PassesKnow
<1> QED
  BY <1>2, <1>3 DEF TruthInv, RowsAreRows, SentMeansTold, NoRecoveryOutOfTheBlue

(* enqueue(): a recovery is only queued where an outage was announced.     *)
LEMMA EnqueueKeepsTheTruth ==
    ASSUME TruthInv, NEW incidents \in SUBSET Incidents, NEW kind \in AlertKinds,
           Enqueue(incidents, kind)
    PROVE  TruthInv'
<1>1. \A d \in Deliveries :
        delivery'[d] = IF d \in Enqueued(incidents, kind)
                       THEN [AbsentRow EXCEPT !.status = "pending"] ELSE delivery[d]
  BY DEF Enqueue
<1>2. \A d \in Deliveries : d \in Enqueued(incidents, kind) => delivery[d].status = "absent"
  BY DEF Enqueued
<1>3. UNCHANGED <<worker, told>>
  BY DEF Enqueue
<1>4. RowsAreRows'
  BY <1>1, <1>3 DEF Enqueue, TruthInv, RowsAreRows, AbsentRow, Statuses
<1>5. PassesArePasses' /\ PassesKnow'
  BY <1>1, <1>2, <1>3 DEF TruthInv, PassesArePasses, PassesKnow
<1>6. SentMeansTold'
  BY <1>1, <1>3 DEF TruthInv, SentMeansTold, AbsentRow
<1>7. ASSUME NEW i \in Incidents, NEW ch \in Channels, delivery'[<<i, ch, "up">>].status # "absent"
      PROVE  \E c \in Channels : told'[<<i, c, "down">>] > 0
  <2>1. <<i, ch, "up">> \in Deliveries /\ \A c \in Channels : <<i, c, "down">> \in Deliveries
    BY DEF Deliveries, AlertKinds
  <2>2. CASE <<i, ch, "up">> \in Enqueued(incidents, kind)
    <3>1. Announced(i)
      BY <2>2 DEF Enqueued
    <3> QED
      BY <1>3, <2>1, <3>1 DEF Announced, TruthInv, SentMeansTold
  <2>3. CASE <<i, ch, "up">> \notin Enqueued(incidents, kind)
    BY <1>1, <1>3, <1>7, <2>1, <2>3 DEF TruthInv, NoRecoveryOutOfTheBlue
  <2> QED
    BY <2>2, <2>3
<1> QED
  BY <1>4, <1>5, <1>6, <1>7 DEF TruthInv, NoRecoveryOutOfTheBlue

LEMMA TruthStep == TruthInv /\ [QueueNext]_queueVars => TruthInv'
<1> SUFFICES ASSUME TruthInv, [QueueNext]_queueVars
             PROVE  TruthInv'
  OBVIOUS
<1> USE DEF TruthInv
<1>1. CASE EnqueueAny
  BY <1>1, EnqueueKeepsTheTruth DEF EnqueueAny
<1>2. ASSUME NEW w \in Servers, Claim(w)
      PROVE  TruthInv'
  <2>1. PICK batch \in SUBSET Claimable :
          /\ delivery' = [d \in Deliveries |->
                            IF d \in batch
                            THEN [delivery[d] EXCEPT !.attempts = @ + 1, !.wait = Lease]
                            ELSE delivery[d]]
          /\ worker' = [worker EXCEPT ![w] = [IdleWorker EXCEPT !.pc = "context", !.todo = batch]]
    BY <1>2 DEF Claim, SetWorker
  <2>2. told' = told
    BY <1>2 DEF Claim
  <2>3. ASSUME NEW d \in Deliveries
        PROVE  /\ DOMAIN delivery'[d] = DOMAIN delivery[d]
               /\ delivery'[d].status = delivery[d].status
               /\ delivery'[d].attempts \in Nat
               /\ delivery[d].status = "absent" => delivery'[d].attempts = 0
    <3>1. CASE d \in batch
      <4>1. delivery'[d] = [delivery[d] EXCEPT !.attempts = @ + 1, !.wait = Lease]
        BY <2>1, <3>1
      <4>2. delivery[d].status = "pending"
        BY <2>1, <3>1 DEF Claimable
      <4> QED
        BY <4>1, <4>2 DEF RowsAreRows
    <3>2. CASE d \notin batch
      BY <2>1, <3>2 DEF RowsAreRows
    <3> QED
      BY <3>1, <3>2
  <2>4. RowsAreRows'
    BY <2>1, <2>2, <2>3 DEF RowsAreRows
  <2>5. batch \in SUBSET Deliveries /\ \A d \in batch : delivery[d].status = "pending"
    BY <2>1 DEF Claimable
  <2>6. /\ DOMAIN worker' = Servers
        /\ \A u \in Servers : u # w => worker'[u] = worker[u]
        /\ worker'[w] = [IdleWorker EXCEPT !.pc = "context", !.todo = batch]
    BY <2>1 DEF PassesArePasses
  <2>7. PassesArePasses'
    BY <2>5, <2>6 DEF PassesArePasses, IdleWorker
  <2>8. PassesKnow'
    <3>1. worker'[w].todo = batch /\ worker'[w].sending = {} /\ worker'[w].delivered = {}
      BY <2>6 DEF IdleWorker
    <3>2. \A d \in Deliveries : delivery'[d].status = delivery[d].status
      BY <2>3
    <3> QED
      BY <2>2, <2>5, <2>6, <3>1, <3>2 DEF PassesKnow, PassesArePasses
  <2> QED
    BY <2>2, <2>3, <2>4, <2>7, <2>8, RowsKeepTheTruth DEF RowsAreRows, SentMeansTold
<1>3. ASSUME NEW w \in Servers, ReadContext(w)
      PROVE  TruthInv'
  BY <1>3, PassesKeepTheTruth DEF ReadContext, SetWorker, PassesArePasses
<1>4. ASSUME NEW w \in Servers, NEW d \in Deliveries, Refuse(w, d)
      PROVE  TruthInv'
  <2>1. /\ d \in worker[w].todo
        /\ delivery' = [delivery EXCEPT ![d] = [delivery[d] EXCEPT !.status = "failed", !.wait = 0]]
        /\ worker' = [worker EXCEPT ![w] = [worker[w] EXCEPT !.todo = @ \ {d}]]
        /\ told' = told
    BY <1>4 DEF Refuse, NextRow, SetWorker
  <2>2. /\ DOMAIN delivery' = Deliveries
        /\ \A e \in Deliveries : e # d => delivery'[e] = delivery[e]
        /\ DOMAIN delivery'[d] = DOMAIN delivery[d]
        /\ delivery'[d].status = "failed" /\ delivery'[d].attempts = delivery[d].attempts
    BY <2>1 DEF RowsAreRows
  <2>3. RowsAreRows' /\ delivery[d].status # "absent"
    BY <2>1, <2>2 DEF RowsAreRows, Statuses, PassesKnow
  <2>4. /\ DOMAIN worker' = Servers
        /\ \A u \in Servers : u # w => worker'[u] = worker[u]
        /\ worker'[w] = [worker[w] EXCEPT !.todo = @ \ {d}]
    BY <2>1 DEF PassesArePasses
  <2>5. PassesArePasses' /\ PassesKnow'
    BY <2>1, <2>2, <2>4 DEF PassesArePasses, PassesKnow
  <2> QED
    BY <2>1, <2>2, <2>3, <2>5, RowsKeepTheTruth DEF RowsAreRows, SentMeansTold
<1>5. ASSUME NEW w \in Servers, NEW d \in Deliveries, BeginSend(w, d)
      PROVE  TruthInv'
  BY <1>5, PassesKeepTheTruth DEF BeginSend, NextRow, SetWorker, PassesArePasses
<1>6. ASSUME NEW w \in Servers, NEW d \in Deliveries, SendOk(w, d)
      PROVE  TruthInv'
  <2>1. /\ d \in worker[w].sending /\ delivery' = delivery
        /\ told' = [told EXCEPT ![d] = @ + 1]
    BY <1>6 DEF SendOk
  <2>2. \A e \in Deliveries : told[e] > 0 => told'[e] > 0
    BY <2>1 DEF RowsAreRows
  <2>3. RowsAreRows' /\ told'[d] > 0
    BY <2>1 DEF RowsAreRows
  <2>4. /\ DOMAIN worker' = Servers
        /\ \A u \in Servers : u # w => worker'[u] = worker[u]
        /\ DOMAIN worker'[w] = DOMAIN worker[w]
        /\ worker'[w].todo = worker[w].todo /\ worker'[w].sending = {}
        /\ worker'[w].delivered = worker[w].delivered \cup {d}
    BY <1>6 DEF SendOk, SetWorker, PassesArePasses
  <2>5. PassesArePasses'
    BY <2>4 DEF PassesArePasses
  <2>6. ASSUME NEW u \in Servers, NEW e \in worker'[u].delivered
        PROVE  delivery'[e].status # "absent" /\ told'[e] > 0
    <3>1. CASE e = d
      BY <2>1, <2>3, <3>1 DEF PassesKnow
    <3>2. CASE e # d
      <4>1. e \in worker[u].delivered
        BY <2>4, <2>6, <3>2
      <4>2. told[e] > 0 /\ delivery[e].status # "absent" /\ told'[e] = told[e]
        BY <2>1, <3>2, <4>1 DEF PassesKnow, PassesArePasses, RowsAreRows
      <4> QED
        BY <2>1, <4>2
    <3> QED
      BY <3>1, <3>2
  <2>7. PassesKnow'
    BY <2>1, <2>4, <2>6 DEF PassesKnow
  <2>8. \A e \in Deliveries : delivery'[e].status = "sent" => told'[e] > 0
    BY <2>1, <2>2 DEF SentMeansTold, RowsAreRows
  <2> QED
    BY <2>1, <2>2, <2>3, <2>5, <2>7, <2>8, RowsKeepTheTruth
<1>7. ASSUME NEW w \in Servers, NEW d \in Deliveries, SendFails(w, d)
      PROVE  TruthInv'
  <2>1. /\ d \in worker[w].sending
        /\ delivery' = [delivery EXCEPT ![d] = Retried(delivery[d])]
        /\ (told' = told \/ told' = [told EXCEPT ![d] = @ + 1])
    BY <1>7 DEF SendFails
  <2>2. \A e \in Deliveries : told[e] > 0 => told'[e] > 0
    BY <2>1 DEF RowsAreRows
  <2>3. told' \in [Deliveries -> Nat]
    BY <2>1 DEF RowsAreRows
  <2>4. /\ DOMAIN delivery' = Deliveries
        /\ \A e \in Deliveries : e # d => delivery'[e] = delivery[e]
        /\ DOMAIN delivery'[d] = DOMAIN delivery[d]
        /\ delivery'[d].status \in {"failed", "pending"} /\ delivery'[d].attempts = delivery[d].attempts
    BY <2>1 DEF RowsAreRows, Retried
  <2>5. RowsAreRows' /\ delivery[d].status # "absent"
    BY <2>1, <2>3, <2>4 DEF RowsAreRows, Statuses, PassesKnow
  <2>6. /\ DOMAIN worker' = Servers
        /\ \A u \in Servers : u # w => worker'[u] = worker[u]
        /\ worker'[w] = [worker[w] EXCEPT !.sending = {}, !.elapsed = 0]
    BY <1>7 DEF SendFails, SetWorker, PassesArePasses
  <2>7. PassesArePasses'
    BY <2>6 DEF PassesArePasses
  <2>8. PassesKnow'
    <3>1. \A u \in Servers : /\ worker'[u].todo \subseteq worker[u].todo
                             /\ worker'[u].sending \subseteq worker[u].sending
                             /\ worker'[u].delivered = worker[u].delivered
      BY <2>6 DEF PassesArePasses
    <3>2. \A e \in Deliveries : /\ delivery[e].status # "absent" => delivery'[e].status # "absent"
                                /\ told[e] > 0 => told'[e] > 0
      BY <2>2, <2>4
    <3> QED
      BY <3>1, <3>2 DEF PassesKnow, PassesArePasses
  <2>9. \A e \in Deliveries : delivery'[e].status = "sent" => told'[e] > 0
    BY <2>2, <2>4 DEF SentMeansTold
  <2> QED
    BY <2>2, <2>4, <2>5, <2>7, <2>8, <2>9, RowsKeepTheTruth
<1>8. ASSUME NEW w \in Servers, EndLoop(w) \/ Crash(w)
      PROVE  TruthInv'
  <2>1. DOMAIN IdleWorker = {"pc", "todo", "sending", "elapsed", "delivered", "sentLastHour"}
        /\ IdleWorker.todo = {} /\ IdleWorker.sending = {} /\ IdleWorker.delivered = {}
    BY DEF IdleWorker
  <2>2. ASSUME worker' = [worker EXCEPT ![w] = IdleWorker], UNCHANGED <<delivery, told>>
        PROVE  TruthInv'
    BY <2>1, <2>2, PassesKeepTheTruth
  <2>3. ASSUME worker' = [worker EXCEPT ![w] = [worker[w] EXCEPT !.pc = "mark"]], UNCHANGED <<delivery, told>>
        PROVE  TruthInv'
    BY <2>3, PassesKeepTheTruth DEF PassesArePasses
  <2> QED
    BY <1>8, <2>2, <2>3 DEF EndLoop, Crash, SetWorker
<1>9. ASSUME NEW w \in Servers, MarkSent(w)
      PROVE  TruthInv'
  <2>1. /\ delivery' = [d \in Deliveries |->
                          IF d \in worker[w].delivered
                          THEN [delivery[d] EXCEPT !.status = "sent", !.wait = 0,
                                                   !.recent = IF Ceiling = 0 THEN 0 ELSE Hour]
                          ELSE delivery[d]]
        /\ told' = told
    BY <1>9 DEF MarkSent
  <2>2. \A d \in Deliveries :
          /\ DOMAIN delivery'[d] = DOMAIN delivery[d]
          /\ delivery'[d].attempts = delivery[d].attempts
          /\ delivery'[d].status = IF d \in worker[w].delivered THEN "sent" ELSE delivery[d].status
    BY <2>1 DEF RowsAreRows
  <2>3. RowsAreRows'
    BY <2>1, <2>2 DEF RowsAreRows, Statuses, PassesKnow
  <2>4. \A d \in Deliveries : delivery[d].status = "absent" <=> delivery'[d].status = "absent"
    BY <2>2 DEF PassesKnow
  <2>5. \A d \in Deliveries : delivery'[d].status = "sent" => told'[d] > 0
    BY <2>1, <2>2 DEF PassesKnow, SentMeansTold
  <2>6. /\ DOMAIN worker' = Servers
        /\ \A u \in Servers : u # w => worker'[u] = worker[u]
        /\ worker'[w] = [worker[w] EXCEPT !.pc = "count"]
    BY <1>9 DEF MarkSent, SetWorker, PassesArePasses
  <2>7. \A u \in Servers : /\ DOMAIN worker'[u] = DOMAIN worker[u]
                           /\ worker'[u].todo = worker[u].todo
                           /\ worker'[u].sending = worker[u].sending
                           /\ worker'[u].delivered = worker[u].delivered
    BY <2>6 DEF PassesArePasses
  <2>8. PassesArePasses'
    BY <2>6, <2>7 DEF PassesArePasses
  <2>9. PassesKnow'
    BY <2>1, <2>4, <2>7 DEF PassesArePasses, PassesKnow
  <2> QED
    BY <2>1, <2>3, <2>4, <2>5, <2>8, <2>9, RowsKeepTheTruth
<1>10. ASSUME NEW w \in Servers, CountSent(w)
       PROVE  TruthInv'
  <2>1. DOMAIN IdleWorker = {"pc", "todo", "sending", "elapsed", "delivered", "sentLastHour"}
        /\ IdleWorker.todo = {} /\ IdleWorker.sending = {} /\ IdleWorker.delivered = {}
    BY DEF IdleWorker
  <2> QED
    BY <1>10, <2>1, PassesKeepTheTruth DEF CountSent, SetWorker
<1>11. ASSUME NEW w \in Servers, NEW d \in Deliveries, OutcomeUnrecorded(w, d)
       PROVE  TruthInv'
  BY <1>11, PassesKeepTheTruth DEF OutcomeUnrecorded, SetWorker, PassesArePasses
<1>12. CASE QueueClock
  <2>1. /\ told' = told
        /\ DOMAIN delivery' = Deliveries
        /\ \A d \in Deliveries : /\ DOMAIN delivery'[d] = DOMAIN delivery[d]
                                 /\ delivery'[d].status = delivery[d].status
                                 /\ delivery'[d].attempts = delivery[d].attempts
    BY <1>12 DEF QueueClock, RowsAreRows
  <2>2. RowsAreRows'
    BY <2>1 DEF RowsAreRows
  <2>3. /\ DOMAIN worker' = Servers
        /\ \A w \in Servers : /\ DOMAIN worker'[w] = DOMAIN worker[w]
                              /\ worker'[w].todo = worker[w].todo
                              /\ worker'[w].sending = worker[w].sending
                              /\ worker'[w].delivered = worker[w].delivered
    BY <1>12 DEF QueueClock, PassesArePasses
  <2>4. PassesArePasses' /\ PassesKnow'
    BY <2>1, <2>3 DEF PassesArePasses, PassesKnow
  <2> QED
    BY <2>1, <2>2, <2>4, RowsKeepTheTruth DEF RowsAreRows, SentMeansTold
<1>13. CASE UNCHANGED <<delivery, told, worker>>
  BY <1>13 DEF RowsAreRows, PassesArePasses, PassesKnow, SentMeansTold, NoRecoveryOutOfTheBlue
<1> QED
  BY <1>1, <1>2, <1>3, <1>4, <1>5, <1>6, <1>7, <1>8, <1>9, <1>10, <1>11, <1>12, <1>13
  DEF QueueNext, DrainStep, Loss, SetEnabled, queueVars

\* The steps other than enqueue().
QuietStep ==
    \/ \E w \in Servers : DrainStep(w)
    \/ \E w \in Servers : Loss(w)
    \/ \E ch \in Channels : SetEnabled(ch)
    \/ QueueClock

\* Rows enter the table by enqueue() and by nothing else.
LEMMA OnlyEnqueueQueues ==
    ASSUME TruthInv, QuietStep, NEW d \in Deliveries, delivery'[d].status # "absent"
    PROVE  delivery[d].status # "absent"
<1>1. ASSUME NEW w \in Servers, Claim(w)
      PROVE  delivery[d].status # "absent"
  <2>1. PICK batch \in SUBSET Claimable :
          delivery' = [e \in Deliveries |->
                         IF e \in batch
                         THEN [delivery[e] EXCEPT !.attempts = @ + 1, !.wait = Lease]
                         ELSE delivery[e]]
    BY <1>1 DEF Claim
  <2>2. CASE d \in batch
    BY <2>2 DEF Claimable
  <2>3. CASE d \notin batch
    BY <2>1, <2>3
  <2> QED
    BY <2>2, <2>3
<1>2. ASSUME NEW w \in Servers, NEW e \in Deliveries, Refuse(w, e) \/ SendFails(w, e)
      PROVE  delivery[d].status # "absent"
  <2>1. CASE d = e
    BY <1>2, <2>1 DEF Refuse, NextRow, SendFails, PassesKnow, TruthInv
  <2>2. CASE d # e
    BY <1>2, <2>2 DEF Refuse, SendFails, TruthInv, RowsAreRows
  <2> QED
    BY <2>1, <2>2
<1>3. ASSUME NEW w \in Servers, MarkSent(w)
      PROVE  delivery[d].status # "absent"
  <2>1. CASE d \in worker[w].delivered
    BY <2>1 DEF PassesKnow, TruthInv
  <2>2. CASE d \notin worker[w].delivered
    BY <1>3, <2>2 DEF MarkSent
  <2> QED
    BY <2>1, <2>2
<1>4. CASE QueueClock
  <2>1. delivery'[d] = [delivery[d] EXCEPT !.wait = Less(@), !.recent = Less(@)]
    BY <1>4 DEF QueueClock
  <2> QED
    BY <2>1 DEF TruthInv, RowsAreRows
<1>5. CASE delivery' = delivery
  BY <1>5
<1>6. ASSUME NEW w \in Servers, DrainStep(w)
      PROVE  delivery[d].status # "absent"
  BY <1>1, <1>2, <1>3, <1>5, <1>6
  DEF DrainStep, ReadContext, BeginSend, SendOk, EndLoop, CountSent
<1> QED
  BY <1>4, <1>5, <1>6 DEF QuietStep, Loss, Crash, OutcomeUnrecorded, SetEnabled

\* The table has a row for each delivery and no others.
IsTable == delivery = [d \in Deliveries |-> delivery[d]]

LEMMA TableStep == IsTable /\ [QueueNext]_queueVars => IsTable'
<1> SUFFICES ASSUME IsTable, [QueueNext]_queueVars
             PROVE  IsTable'
  OBVIOUS
<1>1. ASSUME NEW d \in Deliveries, NEW v, delivery' = [delivery EXCEPT ![d] = v]
      PROVE  IsTable'
  BY <1>1 DEF IsTable
<1>2. CASE delivery' = delivery
  BY <1>2 DEF IsTable
<1>3. ASSUME NEW incidents, NEW kind, Enqueue(incidents, kind)
      PROVE  IsTable'
  BY <1>3 DEF IsTable, Enqueue
<1>4. ASSUME NEW w \in Servers, Claim(w) \/ MarkSent(w)
      PROVE  IsTable'
  <2>1. CASE Claim(w)
    <3>1. PICK batch : delivery' = [d \in Deliveries |->
                                      IF d \in batch
                                      THEN [delivery[d] EXCEPT !.attempts = @ + 1, !.wait = Lease]
                                      ELSE delivery[d]]
      BY <2>1 DEF Claim
    <3> QED
      BY <3>1 DEF IsTable
  <2>2. CASE MarkSent(w)
    BY <2>2 DEF IsTable, MarkSent
  <2> QED
    BY <1>4, <2>1, <2>2
<1>5. ASSUME NEW w \in Servers, NEW d \in Deliveries, Refuse(w, d) \/ SendFails(w, d)
      PROVE  IsTable'
  BY <1>1, <1>5 DEF Refuse, SendFails
<1>6. CASE QueueClock
  BY <1>6 DEF IsTable, QueueClock
<1>7. ASSUME NEW w \in Servers, DrainStep(w) \/ Loss(w)
      PROVE  IsTable'
  BY <1>2, <1>4, <1>5, <1>7
  DEF DrainStep, ReadContext, BeginSend, SendOk, EndLoop, CountSent, Loss, Crash, OutcomeUnrecorded
<1> QED
  BY <1>2, <1>3, <1>6, <1>7 DEF QueueNext, EnqueueAny, SetEnabled, queueVars

LEMMA TruthInit == QueueInit => TruthInv
  BY DEF QueueInit, TruthInv, RowsAreRows, PassesArePasses, PassesKnow, SentMeansTold,
     NoRecoveryOutOfTheBlue, AbsentRow, IdleWorker, Statuses, Deliveries, AlertKinds

(***************************************************************************)
(* MARK_SENT_SQL: whatever crashes and overlaps, an alert that the table   *)
(* calls sent was handed to its provider.                                  *)
(***************************************************************************)
THEOREM SentWasTold == QueueSpec => []SentMeansTold
<1>1. TruthInv => SentMeansTold
  BY DEF TruthInv
<1> QED
  BY <1>1, TruthInit, TruthStep, PTL DEF QueueSpec

(***************************************************************************)
(* ENQUEUE_SQL: a recovery is queued only for an outage that some channel  *)
(* really received.                                                        *)
(***************************************************************************)
THEOREM RecoveriesFollowOutages == QueueSpec => []NoRecoveryOutOfTheBlue
<1>1. TruthInv => NoRecoveryOutOfTheBlue
  BY DEF TruthInv
<1> QED
  BY <1>1, TruthInit, TruthStep, PTL DEF QueueSpec

-----------------------------------------------------------------------------
\* The instances that hold a claim of the delivery and have not sent it yet.
Trying(d) == {w \in Servers : d \in worker[w].todo \cup worker[w].sending}

(***************************************************************************)
(* Each claim of a row is one attempt, and is spent by sending or by       *)
(* forgetting: so what was sent and what may yet be sent without another   *)
(* claim is never more than the attempts counted.                          *)
(***************************************************************************)
ClaimsAreCounted ==
    \A d \in Deliveries : told[d] + Cardinality(Trying(d)) <= delivery[d].attempts

\* A pass begins to send what it takes off its list.
SendsOffTheList == \A w \in Servers : worker[w].todo \cap worker[w].sending = {}

AttemptsInv == TruthInv /\ ClaimsAreCounted /\ SendsOffTheList

\* A delivery that nobody claims and nobody hands over.
LEMMA Undisturbed ==
    ASSUME IsFiniteSet(Servers), AttemptsInv, TruthInv', NEW d \in Deliveries,
           Trying(d)' \subseteq Trying(d), told'[d] = told[d],
           delivery'[d].attempts = delivery[d].attempts
    PROVE  told'[d] + Cardinality(Trying(d)') <= delivery'[d].attempts
<1>1. IsFiniteSet(Trying(d))
  BY FS_Subset DEF Trying
<1>2. /\ Cardinality(Trying(d)') <= Cardinality(Trying(d))
      /\ Cardinality(Trying(d)) \in Nat /\ Cardinality(Trying(d)') \in Nat
  BY <1>1, FS_Subset, FS_CardinalityType
<1>3. told[d] \in Nat /\ delivery[d].attempts \in Nat /\ delivery'[d].attempts \in Nat
  BY DEF AttemptsInv, TruthInv, RowsAreRows
<1>4. told[d] + Cardinality(Trying(d)) <= delivery[d].attempts
  BY DEF AttemptsInv, ClaimsAreCounted
<1> QED
  BY <1>2, <1>3, <1>4

\* A delivery that is handed over by an instance that claimed it.
LEMMA HandedOver ==
    ASSUME IsFiniteSet(Servers), AttemptsInv, TruthInv', NEW d \in Deliveries, NEW w \in Trying(d),
           Trying(d)' \subseteq Trying(d) \ {w}, told'[d] = told[d] + 1,
           delivery'[d].attempts = delivery[d].attempts
    PROVE  told'[d] + Cardinality(Trying(d)') <= delivery'[d].attempts
<1>1. IsFiniteSet(Trying(d))
  BY FS_Subset DEF Trying
<1>2. /\ IsFiniteSet(Trying(d) \ {w})
      /\ Cardinality(Trying(d) \ {w}) = Cardinality(Trying(d)) - 1
  BY <1>1, FS_RemoveElement
<1>3. /\ Cardinality(Trying(d)') <= Cardinality(Trying(d) \ {w})
      /\ Cardinality(Trying(d)) \in Nat /\ Cardinality(Trying(d)') \in Nat
  BY <1>1, <1>2, FS_Subset, FS_CardinalityType
<1>4. told[d] \in Nat /\ delivery[d].attempts \in Nat
  BY DEF AttemptsInv, TruthInv, RowsAreRows
<1>5. told[d] + Cardinality(Trying(d)) <= delivery[d].attempts
  BY DEF AttemptsInv, ClaimsAreCounted
<1> QED
  BY <1>2, <1>3, <1>4, <1>5

\* A delivery that is claimed.
LEMMA Claimed ==
    ASSUME IsFiniteSet(Servers), AttemptsInv, TruthInv', NEW d \in Deliveries, NEW w \in Servers,
           Trying(d)' \subseteq Trying(d) \cup {w}, told'[d] = told[d],
           delivery'[d].attempts = delivery[d].attempts + 1
    PROVE  told'[d] + Cardinality(Trying(d)') <= delivery'[d].attempts
<1>1. IsFiniteSet(Trying(d))
  BY FS_Subset DEF Trying
<1>2. /\ IsFiniteSet(Trying(d) \cup {w})
      /\ Cardinality(Trying(d) \cup {w}) <= Cardinality(Trying(d)) + 1
  <2> DEFINE n == Cardinality(Trying(d))
  <2>1. IsFiniteSet(Trying(d) \cup {w})
    BY <1>1, FS_AddElement
  <2>2. Cardinality(Trying(d) \cup {w}) = IF w \in Trying(d) THEN n ELSE n + 1
    BY <1>1, FS_AddElement
  <2>3. n \in Nat
    BY <1>1, FS_CardinalityType
  <2> HIDE DEF n
  <2>4. Cardinality(Trying(d) \cup {w}) <= n + 1
    BY <2>2, <2>3
  <2> QED
    BY <2>1, <2>4 DEF n
<1>3. /\ Cardinality(Trying(d)') <= Cardinality(Trying(d) \cup {w})
      /\ Cardinality(Trying(d)) \in Nat /\ Cardinality(Trying(d)') \in Nat
      /\ Cardinality(Trying(d) \cup {w}) \in Nat
  BY <1>1, <1>2, FS_Subset, FS_CardinalityType
<1>4. told[d] \in Nat /\ delivery[d].attempts \in Nat
  BY DEF AttemptsInv, TruthInv, RowsAreRows
<1>5. told[d] + Cardinality(Trying(d)) <= delivery[d].attempts
  BY DEF AttemptsInv, ClaimsAreCounted
<1> QED
  BY <1>2, <1>3, <1>4, <1>5

LEMMA AttemptsStep ==
    ASSUME IsFiniteSet(Servers), AttemptsInv, [QueueNext]_queueVars
    PROVE  AttemptsInv'
<1>1. TruthInv'
  BY TruthStep DEF AttemptsInv
<1>2. DOMAIN worker = Servers /\ DOMAIN delivery = Deliveries /\ told \in [Deliveries -> Nat]
  BY DEF AttemptsInv, TruthInv, RowsAreRows, PassesArePasses
<1>3. \A d \in Deliveries : delivery[d].attempts \in Nat /\ DOMAIN delivery[d] = {"status", "attempts", "wait", "recent"}
  BY DEF AttemptsInv, TruthInv, RowsAreRows
<1>4. \A w \in Servers : DOMAIN worker[w] = {"pc", "todo", "sending", "elapsed", "delivered", "sentLastHour"}
  BY DEF AttemptsInv, TruthInv, PassesArePasses
(* A pass that forgets, or sends nothing new, beside rows that keep their attempts. *)
<1>5. ASSUME NEW w \in Servers, NEW v, worker' = [worker EXCEPT ![w] = v],
             v.todo \cup v.sending \subseteq worker[w].todo \cup worker[w].sending,
             v.todo \cap v.sending = {},
             told' = told,
             \A d \in Deliveries : delivery'[d].attempts = delivery[d].attempts
      PROVE  AttemptsInv'
  <2>1. \A u \in Servers : worker'[u] = IF u = w THEN v ELSE worker[u]
    BY <1>2, <1>5
  <2>2. \A d \in Deliveries : Trying(d)' \subseteq Trying(d)
    BY <1>5, <2>1 DEF Trying
  <2>3. SendsOffTheList'
    BY <1>5, <2>1 DEF AttemptsInv, SendsOffTheList
  <2>4. ClaimsAreCounted'
    BY <1>1, <1>5, <2>2, Undisturbed DEF ClaimsAreCounted
  <2> QED
    BY <1>1, <2>3, <2>4 DEF AttemptsInv
<1>6. ASSUME NEW w \in Servers, Claim(w)
      PROVE  AttemptsInv'
  <2>1. PICK batch \in SUBSET Claimable :
          /\ delivery' = [d \in Deliveries |->
                            IF d \in batch
                            THEN [delivery[d] EXCEPT !.attempts = @ + 1, !.wait = Lease]
                            ELSE delivery[d]]
          /\ worker' = [worker EXCEPT ![w] = [IdleWorker EXCEPT !.pc = "context", !.todo = batch]]
    BY <1>6 DEF Claim, SetWorker
  <2>2. told' = told
    BY <1>6 DEF Claim
  <2>3. worker'[w].todo = batch /\ worker'[w].sending = {}
        /\ \A u \in Servers : u # w => worker'[u] = worker[u]
    BY <1>2, <2>1 DEF IdleWorker
  <2>4. SendsOffTheList'
    BY <2>3 DEF AttemptsInv, SendsOffTheList
  <2>5. ASSUME NEW d \in Deliveries
        PROVE  told'[d] + Cardinality(Trying(d)') <= delivery'[d].attempts
    <3>1. CASE d \in batch
      <4>1. delivery'[d].attempts = delivery[d].attempts + 1
        BY <1>3, <2>1, <3>1
      <4>2. Trying(d)' \subseteq Trying(d) \cup {w}
        BY <2>3 DEF Trying
      <4> QED
        BY <1>1, <2>2, <4>1, <4>2, Claimed
    <3>2. CASE d \notin batch
      <4>1. delivery'[d].attempts = delivery[d].attempts
        BY <1>3, <2>1, <3>2
      <4>2. Trying(d)' \subseteq Trying(d)
        BY <2>3, <3>2 DEF Trying
      <4> QED
        BY <1>1, <2>2, <4>1, <4>2, Undisturbed
    <3> QED
      BY <3>1, <3>2
  <2> QED
    BY <1>1, <2>4, <2>5 DEF AttemptsInv, ClaimsAreCounted
<1>7. ASSUME NEW w \in Servers, NEW d \in Deliveries, d \in worker[w].sending,
             NEW v, worker' = [worker EXCEPT ![w] = v],
             v.todo = worker[w].todo, v.sending = {},
             told' = [told EXCEPT ![d] = @ + 1],
             \A e \in Deliveries : delivery'[e].attempts = delivery[e].attempts
      PROVE  AttemptsInv'
  <2>1. \A u \in Servers : worker'[u] = IF u = w THEN v ELSE worker[u]
    BY <1>2, <1>7
  <2>2. SendsOffTheList'
    BY <1>7, <2>1 DEF AttemptsInv, SendsOffTheList
  <2>3. d \notin v.todo /\ w \in Trying(d)
    BY <1>7 DEF AttemptsInv, SendsOffTheList, Trying
  <2>4. Trying(d)' \subseteq Trying(d) \ {w} /\ \A e \in Deliveries : Trying(e)' \subseteq Trying(e)
    BY <1>7, <2>1, <2>3 DEF Trying
  <2>5. told'[d] = told[d] + 1 /\ \A e \in Deliveries : e # d => told'[e] = told[e]
    BY <1>2, <1>7
  <2>6. \A e \in Deliveries : delivery'[e].attempts = delivery[e].attempts
    BY <1>3, <1>7
  <2>7. ASSUME NEW e \in Deliveries
        PROVE  told'[e] + Cardinality(Trying(e)') <= delivery'[e].attempts
    <3>1. CASE e = d
      BY <1>1, <1>7, <2>3, <2>4, <2>5, <3>1, HandedOver
    <3>2. CASE e # d
      BY <1>1, <2>4, <2>5, <2>6, <3>2, Undisturbed
    <3> QED
      BY <3>1, <3>2
  <2> QED
    BY <1>1, <2>2, <2>7 DEF AttemptsInv, ClaimsAreCounted
<1>8. ASSUME NEW w \in Servers, NEW d \in Deliveries, SendOk(w, d)
      PROVE  AttemptsInv'
  <2> DEFINE v == [worker[w] EXCEPT
            !.sending            = {},
            !.elapsed            = 0,
            !.delivered          = @ \cup {d},
            !.sentLastHour[d[2]] = IF Ceiling = 0 THEN 0 ELSE @ + 1]
  <2>1. worker' = [worker EXCEPT ![w] = v] /\ d \in worker[w].sending
        /\ told' = [told EXCEPT ![d] = @ + 1] /\ delivery' = delivery
    BY <1>8 DEF SendOk, SetWorker
  <2>2. v.todo = worker[w].todo /\ v.sending = {}
    BY <1>4
  <2> HIDE DEF v
  <2> QED
    BY <1>7, <2>1, <2>2
<1>9. ASSUME NEW w \in Servers, NEW d \in Deliveries, SendFails(w, d)
      PROVE  AttemptsInv'
  <2> DEFINE v == [worker[w] EXCEPT !.sending = {}, !.elapsed = 0]
  <2>1. /\ worker' = [worker EXCEPT ![w] = v]
        /\ d \in worker[w].sending
        /\ delivery' = [delivery EXCEPT ![d] = Retried(delivery[d])]
        /\ (told' = told \/ told' = [told EXCEPT ![d] = @ + 1])
    BY <1>9 DEF SendFails, SetWorker
  <2>2. v.todo = worker[w].todo /\ v.sending = {}
    BY <1>4
  <2> HIDE DEF v
  <2>3. ASSUME NEW e \in Deliveries
        PROVE  delivery'[e].attempts = delivery[e].attempts
    <3>1. CASE e = d
      <4>1. delivery'[d] = Retried(delivery[d])
        BY <1>2, <2>1, <3>1
      <4>2. Retried(delivery[d]).attempts = delivery[d].attempts
        BY <1>3, <3>1 DEF Retried
      <4> QED
        BY <3>1, <4>1, <4>2
    <3>2. CASE e # d
      BY <1>2, <2>1, <3>2
    <3> QED
      BY <3>1, <3>2
  <2>4. CASE told' = told
    <3>1. v.todo \cap v.sending = {} /\ v.todo \cup v.sending \subseteq worker[w].todo \cup worker[w].sending
      BY <2>2
    <3>2. worker' = [worker EXCEPT ![w] = v]
      BY <2>1
    <3> QED
      BY <1>5, <2>3, <2>4, <3>1, <3>2
  <2>5. CASE told' = [told EXCEPT ![d] = @ + 1]
    <3>1. worker' = [worker EXCEPT ![w] = v] /\ d \in worker[w].sending
      BY <2>1
    <3> QED
      BY <1>7, <2>2, <2>3, <2>5, <3>1
  <2> QED
    BY <2>1, <2>4, <2>5
<1>10. ASSUME NEW w \in Servers, NEW d \in Deliveries, BeginSend(w, d)
       PROVE  AttemptsInv'
  <2> DEFINE v == [worker[w] EXCEPT !.todo = @ \ {d}, !.sending = {d}, !.elapsed = 0]
  <2>1. worker' = [worker EXCEPT ![w] = v] /\ d \in worker[w].todo /\ told' = told /\ delivery' = delivery
    BY <1>10 DEF BeginSend, NextRow, SetWorker
  <2>2. v.todo = worker[w].todo \ {d} /\ v.sending = {d}
    BY <1>4
  <2> HIDE DEF v
  <2> QED
    BY <1>3, <1>5, <2>1, <2>2
<1>11. ASSUME NEW w \in Servers, NEW d \in Deliveries, Refuse(w, d)
       PROVE  AttemptsInv'
  <2> DEFINE v == [worker[w] EXCEPT !.todo = @ \ {d}]
  <2>1. worker' = [worker EXCEPT ![w] = v] /\ told' = told /\ worker[w].sending = {}
        /\ delivery' = [delivery EXCEPT ![d] = [delivery[d] EXCEPT !.status = "failed", !.wait = 0]]
    BY <1>11 DEF Refuse, NextRow, SetWorker
  <2>2. v.todo = worker[w].todo \ {d} /\ v.sending = worker[w].sending
    BY <1>4
  <2> HIDE DEF v
  <2>3. \A e \in Deliveries : delivery'[e].attempts = delivery[e].attempts
    BY <1>2, <1>3, <2>1
  <2> QED
    BY <1>5, <2>1, <2>2, <2>3
<1>12. ASSUME NEW w \in Servers, NEW d \in Deliveries, OutcomeUnrecorded(w, d)
       PROVE  AttemptsInv'
  <2> DEFINE v == [worker[w] EXCEPT !.todo = @ \ {d}, !.sending = {}, !.elapsed = 0]
  <2>1. worker' = [worker EXCEPT ![w] = v] /\ told' = told /\ delivery' = delivery
    BY <1>12 DEF OutcomeUnrecorded, SetWorker
  <2>2. v.todo = worker[w].todo \ {d} /\ v.sending = {}
    BY <1>4
  <2> HIDE DEF v
  <2> QED
    BY <1>3, <1>5, <2>1, <2>2
<1>13. ASSUME NEW w \in Servers, worker' = [worker EXCEPT ![w] = IdleWorker], UNCHANGED <<delivery, told>>
       PROVE  AttemptsInv'
  <2>1. IdleWorker.todo = {} /\ IdleWorker.sending = {}
    BY DEF IdleWorker
  <2> QED
    BY <1>3, <1>5, <1>13, <2>1
<1>14. ASSUME NEW w \in Servers, NEW v, worker' = [worker EXCEPT ![w] = v], told' = told,
              v.todo = worker[w].todo, v.sending = worker[w].sending,
              \A e \in Deliveries : delivery'[e].attempts = delivery[e].attempts
       PROVE  AttemptsInv'
  <2>1. v.todo \cap v.sending = {}
    BY <1>14 DEF AttemptsInv, SendsOffTheList
  <2> QED
    BY <1>5, <1>14, <2>1
<1>15. ASSUME NEW w \in Servers, ReadContext(w)
       PROVE  AttemptsInv'
  <2> DEFINE v == [worker[w] EXCEPT
            !.pc           = "loop",
            !.sentLastHour = [ch \in Channels |-> IF Ceiling = 0 THEN 0 ELSE SentLastHour(ch)]]
  <2>1. worker' = [worker EXCEPT ![w] = v] /\ told' = told /\ delivery' = delivery
    BY <1>15 DEF ReadContext, SetWorker
  <2>2. v.todo = worker[w].todo /\ v.sending = worker[w].sending
    BY <1>4
  <2> HIDE DEF v
  <2> QED
    BY <1>3, <1>14, <2>1, <2>2
<1>16. ASSUME NEW w \in Servers, EndLoop(w) \/ CountSent(w) \/ Crash(w)
       PROVE  AttemptsInv'
  <2>1. CASE worker' = [worker EXCEPT ![w] = [worker[w] EXCEPT !.pc = "mark"]] /\ UNCHANGED <<delivery, told>>
    <3>1. /\ [worker[w] EXCEPT !.pc = "mark"].todo = worker[w].todo
          /\ [worker[w] EXCEPT !.pc = "mark"].sending = worker[w].sending
      BY <1>4
    <3> QED
      BY <1>3, <1>14, <2>1, <3>1
  <2> QED
    BY <1>13, <1>16, <2>1 DEF EndLoop, CountSent, Crash, SetWorker
<1>17. ASSUME NEW w \in Servers, MarkSent(w)
       PROVE  AttemptsInv'
  <2> DEFINE v == [worker[w] EXCEPT !.pc = "count"]
  <2>1. worker' = [worker EXCEPT ![w] = v] /\ told' = told
    BY <1>17 DEF MarkSent, SetWorker
  <2>2. v.todo = worker[w].todo /\ v.sending = worker[w].sending
    BY <1>4
  <2>3. \A d \in Deliveries : delivery'[d].attempts = delivery[d].attempts
    BY <1>3, <1>17 DEF MarkSent
  <2> HIDE DEF v
  <2> QED
    BY <1>14, <2>1, <2>2, <2>3
<1>18. ASSUME told' = told,
              \A w \in Servers : worker'[w].todo = worker[w].todo /\ worker'[w].sending = worker[w].sending,
              \A d \in Deliveries : delivery'[d].attempts = delivery[d].attempts
       PROVE  AttemptsInv'
  <2>1. \A d \in Deliveries : Trying(d)' \subseteq Trying(d)
    BY <1>18 DEF Trying
  <2>2. SendsOffTheList'
    BY <1>18 DEF AttemptsInv, SendsOffTheList
  <2>3. ClaimsAreCounted'
    BY <1>1, <1>18, <2>1, Undisturbed DEF ClaimsAreCounted
  <2> QED
    BY <1>1, <2>2, <2>3 DEF AttemptsInv
<1>19. CASE QueueClock
  <2>1. \A d \in Deliveries : delivery'[d].attempts = delivery[d].attempts
    BY <1>3, <1>19 DEF QueueClock
  <2>2. \A w \in Servers : worker'[w].todo = worker[w].todo /\ worker'[w].sending = worker[w].sending
    BY <1>4, <1>19 DEF QueueClock
  <2> QED
    BY <1>18, <1>19, <2>1, <2>2 DEF QueueClock
<1>20. ASSUME NEW incidents, NEW kind, Enqueue(incidents, kind)
       PROVE  AttemptsInv'
  <2>1. ASSUME NEW d \in Deliveries
        PROVE  delivery'[d].attempts = delivery[d].attempts
    <3>1. CASE d \in Enqueued(incidents, kind)
      <4>1. delivery[d].attempts = 0
        BY <3>1 DEF Enqueued, AttemptsInv, TruthInv, RowsAreRows
      <4> QED
        BY <1>20, <3>1, <4>1 DEF Enqueue, AbsentRow
    <3>2. CASE d \notin Enqueued(incidents, kind)
      BY <1>3, <1>20, <3>2 DEF Enqueue
    <3> QED
      BY <3>1, <3>2
  <2> QED
    BY <1>18, <1>20, <2>1 DEF Enqueue
<1>21. CASE UNCHANGED <<delivery, told, worker>>
  BY <1>3, <1>18, <1>21
<1> QED
  BY <1>6, <1>8, <1>9, <1>10, <1>11, <1>12, <1>15, <1>16, <1>17, <1>19, <1>20, <1>21
  DEF QueueNext, EnqueueAny, DrainStep, Loss, SetEnabled, queueVars

LEMMA AttemptsInit ==
    ASSUME IsFiniteSet(Servers), QueueInit
    PROVE  AttemptsInv
<1>1. \A w \in Servers : worker[w].todo = {} /\ worker[w].sending = {}
  BY DEF QueueInit, IdleWorker
<1>2. \A d \in Deliveries : Trying(d) = {}
  BY <1>1 DEF Trying
<1>3. ClaimsAreCounted
  BY <1>2, FS_EmptySet DEF ClaimsAreCounted, QueueInit, AbsentRow
<1> QED
  BY <1>1, <1>3, TruthInit DEF AttemptsInv, SendsOffTheList

LEMMA AttemptsAreEnough == IsFiniteSet(Servers) /\ AttemptsInv => SendsWithinAttempts
<1> SUFFICES ASSUME IsFiniteSet(Servers), AttemptsInv, NEW d \in Deliveries
             PROVE  told[d] <= delivery[d].attempts
  BY DEF SendsWithinAttempts
<1>1. IsFiniteSet(Trying(d))
  BY FS_Subset DEF Trying
<1>2. Cardinality(Trying(d)) \in Nat /\ told[d] \in Nat /\ delivery[d].attempts \in Nat
  BY <1>1, FS_CardinalityType DEF AttemptsInv, TruthInv, RowsAreRows
<1> QED
  BY <1>2 DEF AttemptsInv, ClaimsAreCounted

(***************************************************************************)
(* CLAIM_SQL counts the attempt before the send: a provider is handed an   *)
(* alert no more often than attempts says, though leases expire and passes *)
(* overlap.                                                                *)
(***************************************************************************)
THEOREM AttemptsBoundSends == IsFiniteSet(Servers) => (QueueSpec => []SendsWithinAttempts)
<1> SUFFICES ASSUME IsFiniteSet(Servers)
             PROVE  QueueSpec => []SendsWithinAttempts
  OBVIOUS
<1>1. QueueInit => AttemptsInv
  BY AttemptsInit
<1>2. AttemptsInv /\ [QueueNext]_queueVars => AttemptsInv'
  BY AttemptsStep
<1>3. AttemptsInv => SendsWithinAttempts
  BY AttemptsAreEnough
<1> QED
  BY <1>1, <1>2, <1>3, PTL DEF QueueSpec

-----------------------------------------------------------------------------
(* Types.  The counts of a pass are of finite sets, and the backoff of a   *)
(* row is that of an attempt that was made.                                *)

QueueIsFinite == IsFiniteSet(Incidents) /\ IsFiniteSet(Channels)

ClaimsWereAttempts ==
    \A w \in Servers : \A d \in worker[w].todo \cup worker[w].sending :
        delivery[d].attempts > 0

QueueTypeInv == QueueTypeOK /\ ClaimsWereAttempts

LEMMA DeliveriesAreFinite ==
    ASSUME QueueIsFinite
    PROVE  \A S \in SUBSET Deliveries : IsFiniteSet(S) /\ Cardinality(S) \in Nat
<1>1. IsFiniteSet(AlertKinds)
  <2>1. IsFiniteSet({} \cup {"down"})
    BY FS_EmptySet, FS_AddElement
  <2>2. IsFiniteSet(({} \cup {"down"}) \cup {"up"})
    BY <2>1, FS_AddElement
  <2>3. AlertKinds = ({} \cup {"down"}) \cup {"up"}
    BY DEF AlertKinds
  <2> QED
    BY <2>2, <2>3
<1>2. IsFiniteSet(Channels \X AlertKinds)
  BY <1>1, FS_Product DEF QueueIsFinite
<1>3. IsFiniteSet(Incidents \X (Channels \X AlertKinds))
  BY <1>2, FS_Product DEF QueueIsFinite
<1> DEFINE f == [d \in Deliveries |-> <<d[1], <<d[2], d[3]>>>>]
<1>4. f \in Injection(Deliveries, Incidents \X (Channels \X AlertKinds))
  <2>1. f \in [Deliveries -> Incidents \X (Channels \X AlertKinds)]
    BY DEF Deliveries
  <2>2. ASSUME NEW c \in Deliveries, NEW d \in Deliveries, f[c] = f[d]
        PROVE  c = d
    BY <2>2 DEF Deliveries
  <2> HIDE DEF f
  <2> QED
    BY <2>1, <2>2 DEF Injection, IsInjective
<1>5. IsFiniteSet(Deliveries)
  <2> HIDE DEF f
  <2> QED
    BY <1>3, <1>4, FS_Injection
<1> QED
  BY <1>5, FS_Subset, FS_CardinalityType

LEMMA PowersAreNaturals == \A n \in Nat : 2 ^ n \in Nat
<1> SUFFICES ASSUME NEW n \in Nat PROVE 2 ^ n \in Nat
  OBVIOUS
<1>1. IsFiniteSet(1 .. n) /\ Cardinality(1 .. n) = n
  BY FS_Interval
<1>2. IsFiniteSet(SUBSET (1 .. n)) /\ Cardinality(SUBSET (1 .. n)) = 2 ^ n
  BY <1>1, FS_SUBSET
<1> QED
  BY <1>2, FS_CardinalityType

LEMMA BackoffIsTime ==
    ASSUME NEW attempts \in Nat, attempts > 0
    PROVE  Backoff(attempts) \in Nat
<1> DEFINE power == 2 ^ (attempts - 1)
<1>1. power \in Nat
  <2>1. attempts - 1 \in Nat
    OBVIOUS
  <2> QED
    BY <2>1, PowersAreNaturals
<1>2. Backoff(attempts) = IF BackoffBase * power > BackoffCap THEN BackoffCap
                          ELSE BackoffBase * power
  BY DEF Backoff
<1> HIDE DEF power
<1>3. BackoffBase * power \in Nat
  BY <1>1, QueueAssumption
<1> QED
  BY <1>2, <1>3, QueueAssumption

LEMMA RetriedIsRow ==
    ASSUME NEW r \in DeliveryRows, r.attempts > 0
    PROVE  Retried(r) \in DeliveryRows /\ Retried(r).attempts = r.attempts
<1>1. Backoff(r.attempts) \in Nat
  BY BackoffIsTime DEF DeliveryRows
<1> QED
  BY <1>1 DEF Retried, DeliveryRows

LEMMA ClaimedAndOlder ==
    \A r \in DeliveryRows :
        /\ [r EXCEPT !.attempts = @ + 1, !.wait = Lease] \in DeliveryRows
        /\ [r EXCEPT !.attempts = @ + 1, !.wait = Lease].attempts = r.attempts + 1
        /\ [r EXCEPT !.wait = Less(@), !.recent = Less(@)] \in DeliveryRows
        /\ [r EXCEPT !.wait = Less(@), !.recent = Less(@)].attempts = r.attempts
<1> SUFFICES ASSUME NEW r \in DeliveryRows
             PROVE  /\ [r EXCEPT !.attempts = @ + 1, !.wait = Lease] \in DeliveryRows
                    /\ [r EXCEPT !.attempts = @ + 1, !.wait = Lease].attempts = r.attempts + 1
                    /\ [r EXCEPT !.wait = Less(@), !.recent = Less(@)] \in DeliveryRows
                    /\ [r EXCEPT !.wait = Less(@), !.recent = Less(@)].attempts = r.attempts
  BY Zenon
<1> DEFINE wait == Less(r.wait)
           recent == Less(r.recent)
           attempts == r.attempts + 1
<1>1. wait \in Nat /\ recent \in Nat /\ attempts \in Nat /\ Lease \in Nat
  BY QueueAssumption DEF DeliveryRows, Less
<1> HIDE DEF wait, recent, attempts
<1>2. /\ [r EXCEPT !.attempts = attempts, !.wait = Lease] \in DeliveryRows
      /\ [r EXCEPT !.attempts = attempts, !.wait = Lease].attempts = attempts
  BY <1>1 DEF DeliveryRows
<1>3. /\ [r EXCEPT !.wait = wait, !.recent = recent] \in DeliveryRows
      /\ [r EXCEPT !.wait = wait, !.recent = recent].attempts = r.attempts
  BY <1>1 DEF DeliveryRows
<1> QED
  BY <1>2, <1>3, Zenon DEF wait, recent, attempts

LEMMA IdleIsWorker == IdleWorker \in Workers
BY DEF IdleWorker, Workers

LEMMA CountsAreNumbers ==
    QueueIsFinite => \A ch \in Channels : SentLastHour(ch) \in Nat
BY DeliveriesAreFinite DEF SentLastHour

\* A pass goes on with no more than it had claimed.
LEMMA PassGoesOn ==
    ASSUME QueueTypeInv, NEW w \in Servers, NEW v \in Workers, SetWorker(w, v),
           v.todo \cup v.sending \subseteq worker[w].todo \cup worker[w].sending,
           \A d \in Deliveries : delivery'[d].attempts = delivery[d].attempts
    PROVE  worker' \in [Servers -> Workers] /\ ClaimsWereAttempts'
<1>1. worker \in [Servers -> Workers] /\ worker' = [worker EXCEPT ![w] = v]
  BY DEF QueueTypeInv, QueueTypeOK, SetWorker
<1>2. \A u \in Servers : worker'[u] = IF u = w THEN v ELSE worker[u]
  BY <1>1
<1>3. \A u \in Servers : worker[u].todo \cup worker[u].sending \subseteq Deliveries
  BY <1>1 DEF Workers
<1>4. ClaimsWereAttempts'
  <2> SUFFICES ASSUME NEW u \in Servers, NEW d \in worker'[u].todo \cup worker'[u].sending
               PROVE  delivery'[d].attempts > 0
    BY DEF ClaimsWereAttempts
  <2>1. d \in worker[u].todo \cup worker[u].sending
    BY <1>2
  <2>2. delivery[d].attempts > 0 /\ d \in Deliveries
    BY <1>3, <2>1 DEF QueueTypeInv, ClaimsWereAttempts
  <2> QED
    BY <2>2
<1> QED
  BY <1>1, <1>4

\* The rows change and nobody claims.
LEMMA RowsGoOn ==
    ASSUME QueueTypeInv, UNCHANGED worker,
           \A d \in Deliveries : delivery'[d].attempts = delivery[d].attempts
    PROVE  worker' \in [Servers -> Workers] /\ ClaimsWereAttempts'
BY DEF QueueTypeInv, QueueTypeOK, ClaimsWereAttempts, Workers

LEMMA QueueTypeStep ==
    ASSUME QueueIsFinite, TruthInv, QueueTypeInv, [QueueNext]_queueVars
    PROVE  QueueTypeInv'
<1> DEFINE SameAttempts == \A d \in Deliveries : delivery'[d].attempts = delivery[d].attempts
<1>1. /\ delivery \in [Deliveries -> DeliveryRows] /\ enabled \in [Channels -> BOOLEAN]
      /\ worker \in [Servers -> Workers] /\ counted \in [Incidents -> Nat]
      /\ told \in [Deliveries -> Nat] /\ losses \in Nat
  BY DEF QueueTypeInv, QueueTypeOK
<1>2. \A d \in Deliveries :
         /\ delivery[d] \in DeliveryRows /\ delivery[d].attempts \in Nat
         /\ delivery[d].wait \in Nat /\ delivery[d].recent \in Nat
  BY <1>1 DEF DeliveryRows
<1>3. ASSUME NEW w \in Servers
      PROVE  /\ worker[w] \in Workers
             /\ worker[w].todo \in SUBSET Deliveries /\ worker[w].sending \in SUBSET Deliveries
             /\ worker[w].delivered \in SUBSET Deliveries
             /\ worker[w].elapsed \in Nat /\ worker[w].sentLastHour \in [Channels -> Nat]
  BY <1>1 DEF Workers
<1>4. ASSUME delivery' \in [Deliveries -> DeliveryRows], worker' \in [Servers -> Workers],
             ClaimsWereAttempts', enabled' \in [Channels -> BOOLEAN],
             counted' \in [Incidents -> Nat], told' \in [Deliveries -> Nat], losses' \in Nat
      PROVE  QueueTypeInv'
  BY <1>4 DEF QueueTypeInv, QueueTypeOK
<1>5. IdleWorker.todo = {} /\ IdleWorker.sending = {}
  BY DEF IdleWorker
<1>6. ASSUME NEW incidents, NEW kind, Enqueue(incidents, kind)
      PROVE  QueueTypeInv'
  <2> DEFINE queued == [AbsentRow EXCEPT !.status = "pending"]
  <2>1. queued \in DeliveryRows /\ queued.attempts = 0
    BY DEF AbsentRow, DeliveryRows
  <2>2. \A d \in Enqueued(incidents, kind) : delivery[d].attempts = 0
    BY DEF Enqueued, TruthInv, RowsAreRows
  <2>3. delivery' = [d \in Deliveries |->
                       IF d \in Enqueued(incidents, kind) THEN queued ELSE delivery[d]]
    BY <1>6 DEF Enqueue
  <2> HIDE DEF queued
  <2>4. delivery' \in [Deliveries -> DeliveryRows] /\ SameAttempts
    BY <1>2, <2>1, <2>2, <2>3
  <2>5. worker' \in [Servers -> Workers] /\ ClaimsWereAttempts'
    BY <1>6, <2>4, RowsGoOn DEF Enqueue
  <2> QED
    BY <1>1, <1>4, <1>6, <2>4, <2>5 DEF Enqueue
<1>7. ASSUME NEW w \in Servers, Claim(w)
      PROVE  QueueTypeInv'
  <2>1. PICK batch \in SUBSET Claimable :
          /\ delivery' = [d \in Deliveries |->
                            IF d \in batch
                            THEN [delivery[d] EXCEPT !.attempts = @ + 1, !.wait = Lease]
                            ELSE delivery[d]]
          /\ SetWorker(w, [IdleWorker EXCEPT !.pc = "context", !.todo = batch])
    BY <1>7 DEF Claim
  <2>2. batch \in SUBSET Deliveries
    BY DEF Claimable
  <2> DEFINE v == [IdleWorker EXCEPT !.pc = "context", !.todo = batch]
             claimed(d) == [delivery[d] EXCEPT !.attempts = @ + 1, !.wait = Lease]
  <2>3. v \in Workers /\ v.todo = batch /\ v.sending = {}
    BY <2>2 DEF IdleWorker, Workers
  <2>4. \A d \in Deliveries :
           claimed(d) \in DeliveryRows /\ claimed(d).attempts = delivery[d].attempts + 1
    BY <1>2, ClaimedAndOlder, Zenon
  <2>5. worker' = [worker EXCEPT ![w] = v]
    BY <2>1 DEF SetWorker
  <2>6. delivery' = [d \in Deliveries |-> IF d \in batch THEN claimed(d) ELSE delivery[d]]
    BY <2>1
  <2> HIDE DEF v, claimed
  <2>7. /\ delivery' \in [Deliveries -> DeliveryRows]
        /\ \A d \in Deliveries : delivery'[d].attempts =
              IF d \in batch THEN delivery[d].attempts + 1 ELSE delivery[d].attempts
    BY <1>2, <2>4, <2>6
  <2>8. worker' \in [Servers -> Workers]
    BY <1>1, <2>3, <2>5
  <2>9. ClaimsWereAttempts'
    <3> SUFFICES ASSUME NEW u \in Servers, NEW d \in worker'[u].todo \cup worker'[u].sending
                 PROVE  delivery'[d].attempts > 0
      BY DEF ClaimsWereAttempts
    <3>1. CASE u = w
      <4>1. d \in batch /\ d \in Deliveries
        BY <1>1, <2>2, <2>3, <2>5, <3>1
      <4> QED
        BY <1>2, <2>7, <4>1
    <3>2. CASE u # w
      <4>1. d \in worker[u].todo \cup worker[u].sending /\ d \in Deliveries
        BY <1>1, <1>3, <2>5, <3>2
      <4>2. delivery[d].attempts > 0
        BY <4>1 DEF QueueTypeInv, ClaimsWereAttempts
      <4> QED
        BY <1>2, <2>7, <4>1, <4>2
    <3> QED
      BY <3>1, <3>2
  <2> QED
    BY <1>1, <1>4, <1>7, <2>7, <2>8, <2>9 DEF Claim
<1>8. ASSUME NEW w \in Servers, ReadContext(w)
      PROVE  QueueTypeInv'
  <2> DEFINE counts == [ch \in Channels |-> IF Ceiling = 0 THEN 0 ELSE SentLastHour(ch)]
             v == [worker[w] EXCEPT !.pc = "loop", !.sentLastHour = counts]
  <2>1. counts \in [Channels -> Nat]
    BY CountsAreNumbers
  <2>2. SetWorker(w, v)
    BY <1>8 DEF ReadContext
  <2> HIDE DEF counts
  <2>3. v \in Workers /\ v.todo = worker[w].todo /\ v.sending = worker[w].sending
    BY <1>3, <2>1 DEF Workers
  <2>4. SameAttempts
    BY <1>8 DEF ReadContext
  <2> HIDE DEF v
  <2>5. worker' \in [Servers -> Workers] /\ ClaimsWereAttempts'
    BY <2>2, <2>3, <2>4, PassGoesOn
  <2> QED
    BY <1>1, <1>4, <1>8, <2>5 DEF ReadContext
\* What becomes of one row and one pass.
<1>9. ASSUME NEW w \in Servers, NEW d \in Deliveries, NEW r \in DeliveryRows, NEW v \in Workers,
             delivery' = [delivery EXCEPT ![d] = r], r.attempts = delivery[d].attempts,
             SetWorker(w, v),
             v.todo \cup v.sending \subseteq worker[w].todo \cup worker[w].sending
      PROVE  /\ delivery' \in [Deliveries -> DeliveryRows]
             /\ worker' \in [Servers -> Workers] /\ ClaimsWereAttempts'
  <2>1. delivery' \in [Deliveries -> DeliveryRows] /\ SameAttempts
    BY <1>1, <1>9
  <2> QED
    BY <1>9, <2>1, PassGoesOn
<1>10. ASSUME NEW w \in Servers, NEW d \in Deliveries, Refuse(w, d)
       PROVE  QueueTypeInv'
  <2> DEFINE r == [delivery[d] EXCEPT !.status = "failed", !.wait = 0]
             v == [worker[w] EXCEPT !.todo = @ \ {d}]
  <2>1. r \in DeliveryRows /\ r.attempts = delivery[d].attempts
    BY <1>2 DEF DeliveryRows
  <2>2. v \in Workers /\ v.todo = worker[w].todo \ {d} /\ v.sending = worker[w].sending
    BY <1>3 DEF Workers
  <2>3. delivery' = [delivery EXCEPT ![d] = r] /\ SetWorker(w, v)
    BY <1>10 DEF Refuse
  <2> HIDE DEF r, v
  <2>4. /\ delivery' \in [Deliveries -> DeliveryRows]
        /\ worker' \in [Servers -> Workers] /\ ClaimsWereAttempts'
    BY <1>9, <2>1, <2>2, <2>3
  <2> QED
    BY <1>1, <1>4, <1>10, <2>4 DEF Refuse
<1>11. ASSUME NEW w \in Servers, NEW d \in Deliveries, BeginSend(w, d)
       PROVE  QueueTypeInv'
  <2> DEFINE v == [worker[w] EXCEPT !.todo = @ \ {d}, !.sending = {d}, !.elapsed = 0]
  <2>1. v \in Workers /\ v.todo = worker[w].todo \ {d} /\ v.sending = {d}
    BY <1>3 DEF Workers
  <2>2. SetWorker(w, v) /\ d \in worker[w].todo
    BY <1>11 DEF BeginSend, NextRow
  <2>3. SameAttempts
    BY <1>11 DEF BeginSend
  <2> HIDE DEF v
  <2>4. worker' \in [Servers -> Workers] /\ ClaimsWereAttempts'
    BY <2>1, <2>2, <2>3, PassGoesOn
  <2> QED
    BY <1>1, <1>4, <1>11, <2>4 DEF BeginSend
<1>12. ASSUME NEW w \in Servers, NEW d \in Deliveries, SendOk(w, d)
       PROVE  QueueTypeInv'
  <2> DEFINE counts == [worker[w].sentLastHour EXCEPT ![d[2]] = IF Ceiling = 0 THEN 0 ELSE @ + 1]
             v == [worker[w] EXCEPT
                     !.sending            = {},
                     !.elapsed            = 0,
                     !.delivered          = @ \cup {d},
                     !.sentLastHour[d[2]] = IF Ceiling = 0 THEN 0 ELSE @ + 1]
  <2>1. counts \in [Channels -> Nat]
    <3>1. d[2] \in Channels
      BY DEF Deliveries
    <3> QED
      BY <1>3, <3>1
  <2>2. SetWorker(w, v)
    BY <1>12 DEF SendOk
  <2>3. v \in Workers /\ v.todo = worker[w].todo /\ v.sending = {}
    <3>1. v = [worker[w] EXCEPT !.sending = {}, !.elapsed = 0, !.delivered = @ \cup {d},
                                !.sentLastHour = counts]
      OBVIOUS
    <3> HIDE DEF counts
    <3> QED
      BY <1>3, <2>1, <3>1 DEF Workers
  <2>4. SameAttempts /\ told' \in [Deliveries -> Nat]
    BY <1>1, <1>12 DEF SendOk
  <2> HIDE DEF v
  <2>5. worker' \in [Servers -> Workers] /\ ClaimsWereAttempts'
    BY <2>2, <2>3, <2>4, PassGoesOn
  <2> QED
    BY <1>1, <1>4, <1>12, <2>4, <2>5 DEF SendOk
<1>13. ASSUME NEW w \in Servers, NEW d \in Deliveries, SendFails(w, d)
       PROVE  QueueTypeInv'
  <2> DEFINE v == [worker[w] EXCEPT !.sending = {}, !.elapsed = 0]
  <2>1. delivery[d].attempts > 0
    BY <1>13 DEF SendFails, QueueTypeInv, ClaimsWereAttempts
  <2>2. Retried(delivery[d]) \in DeliveryRows
        /\ Retried(delivery[d]).attempts = delivery[d].attempts
    BY <1>2, <2>1, RetriedIsRow
  <2>3. v \in Workers /\ v.todo = worker[w].todo /\ v.sending = {}
    BY <1>3 DEF Workers
  <2>4. delivery' = [delivery EXCEPT ![d] = Retried(delivery[d])] /\ SetWorker(w, v)
    BY <1>13 DEF SendFails
  <2> HIDE DEF v
  <2>5. /\ delivery' \in [Deliveries -> DeliveryRows]
        /\ worker' \in [Servers -> Workers] /\ ClaimsWereAttempts'
    BY <1>9, <2>2, <2>3, <2>4
  <2>6. told' \in [Deliveries -> Nat]
    BY <1>1, <1>13 DEF SendFails
  <2> QED
    BY <1>1, <1>4, <1>13, <2>5, <2>6 DEF SendFails
<1>14. ASSUME NEW w \in Servers, NEW d \in Deliveries, OutcomeUnrecorded(w, d)
       PROVE  QueueTypeInv'
  <2> DEFINE v == [worker[w] EXCEPT !.todo = @ \ {d}, !.sending = {}, !.elapsed = 0]
  <2>1. v \in Workers /\ v.todo = worker[w].todo \ {d} /\ v.sending = {}
    BY <1>3 DEF Workers
  <2>2. SetWorker(w, v) /\ SameAttempts
    BY <1>14 DEF OutcomeUnrecorded
  <2> HIDE DEF v
  <2>3. worker' \in [Servers -> Workers] /\ ClaimsWereAttempts'
    BY <2>1, <2>2, PassGoesOn
  <2> QED
    BY <1>1, <1>4, <1>14, <2>3 DEF OutcomeUnrecorded
\* A pass ends, or goes on to its last statements.
<1>15. ASSUME NEW w \in Servers, EndLoop(w)
       PROVE  QueueTypeInv'
  <2> DEFINE v == IF worker[w].delivered = {} THEN IdleWorker
                  ELSE [worker[w] EXCEPT !.pc = "mark"]
  <2>1. v \in Workers /\ v.todo \cup v.sending \subseteq worker[w].todo \cup worker[w].sending
    BY <1>3, <1>5, IdleIsWorker DEF Workers
  <2>2. SetWorker(w, v) /\ SameAttempts
    BY <1>15 DEF EndLoop
  <2> HIDE DEF v
  <2>3. worker' \in [Servers -> Workers] /\ ClaimsWereAttempts'
    BY <2>1, <2>2, PassGoesOn
  <2> QED
    BY <1>1, <1>4, <1>15, <2>3 DEF EndLoop
<1>16. ASSUME NEW w \in Servers, MarkSent(w)
       PROVE  QueueTypeInv'
  <2> DEFINE marked(d) == [delivery[d] EXCEPT !.status = "sent", !.wait = 0,
                                              !.recent = IF Ceiling = 0 THEN 0 ELSE Hour]
             v == [worker[w] EXCEPT !.pc = "count"]
  <2>1. \A d \in Deliveries :
           marked(d) \in DeliveryRows /\ marked(d).attempts = delivery[d].attempts
    BY <1>2, QueueAssumption DEF DeliveryRows
  <2>2. v \in Workers /\ v.todo = worker[w].todo /\ v.sending = worker[w].sending
    BY <1>3 DEF Workers
  <2>3. /\ delivery' = [d \in Deliveries |->
                          IF d \in worker[w].delivered THEN marked(d) ELSE delivery[d]]
        /\ SetWorker(w, v)
    BY <1>16 DEF MarkSent
  <2> HIDE DEF marked, v
  <2>4. delivery' \in [Deliveries -> DeliveryRows] /\ SameAttempts
    BY <1>2, <2>1, <2>3
  <2>5. worker' \in [Servers -> Workers] /\ ClaimsWereAttempts'
    BY <2>2, <2>3, <2>4, PassGoesOn
  <2> QED
    BY <1>1, <1>4, <1>16, <2>4, <2>5 DEF MarkSent
<1>17. ASSUME NEW w \in Servers, CountSent(w)
       PROVE  QueueTypeInv'
  <2>1. \A i \in Incidents : Cardinality({d \in worker[w].delivered : d[1] = i}) \in Nat
    BY <1>3, DeliveriesAreFinite
  <2>2. counted' \in [Incidents -> Nat]
    BY <1>1, <1>17, <2>1 DEF CountSent
  <2>3. SetWorker(w, IdleWorker) /\ SameAttempts
    BY <1>17 DEF CountSent
  <2>4. worker' \in [Servers -> Workers] /\ ClaimsWereAttempts'
    BY <1>5, <2>3, IdleIsWorker, PassGoesOn
  <2> QED
    BY <1>1, <1>4, <1>17, <2>2, <2>4 DEF CountSent
<1>18. ASSUME NEW w \in Servers, Crash(w)
       PROVE  QueueTypeInv'
  <2>1. SetWorker(w, IdleWorker) /\ SameAttempts
    BY <1>18 DEF Crash
  <2>2. worker' \in [Servers -> Workers] /\ ClaimsWereAttempts'
    BY <1>5, <2>1, IdleIsWorker, PassGoesOn
  <2> QED
    BY <1>1, <1>4, <1>18, <2>2 DEF Crash
<1>19. ASSUME NEW ch \in Channels, SetEnabled(ch)
       PROVE  QueueTypeInv'
  BY <1>1, <1>4, <1>19, RowsGoOn DEF SetEnabled
<1>20. CASE QueueClock
  <2> DEFINE older(d) == [delivery[d] EXCEPT !.wait = Less(@), !.recent = Less(@)]
             on(w) == IF worker[w].sending = {} THEN worker[w]
                      ELSE [worker[w] EXCEPT !.elapsed = @ + 1]
  <2>1. \A d \in Deliveries :
           older(d) \in DeliveryRows /\ older(d).attempts = delivery[d].attempts
    BY <1>2, ClaimedAndOlder, Zenon
  <2>2. \A w \in Servers : /\ on(w) \in Workers
                           /\ on(w).todo = worker[w].todo /\ on(w).sending = worker[w].sending
    BY <1>3 DEF Workers
  <2>3. delivery' = [d \in Deliveries |-> older(d)] /\ worker' = [w \in Servers |-> on(w)]
    BY <1>20 DEF QueueClock
  <2> HIDE DEF older, on
  <2>4. delivery' \in [Deliveries -> DeliveryRows] /\ SameAttempts
    BY <2>1, <2>3
  <2>5. /\ worker' \in [Servers -> Workers]
        /\ \A w \in Servers : /\ worker'[w].todo = worker[w].todo
                              /\ worker'[w].sending = worker[w].sending
    BY <2>2, <2>3
  <2>6. ClaimsWereAttempts'
    BY <1>3, <2>4, <2>5 DEF ClaimsWereAttempts, QueueTypeInv
  <2> QED
    BY <1>1, <1>4, <1>20, <2>4, <2>5, <2>6 DEF QueueClock
<1>21. CASE UNCHANGED queueVars
  BY <1>1, <1>4, <1>21, RowsGoOn DEF queueVars
<1> QED
  BY <1>6, <1>7, <1>8, <1>10, <1>11, <1>12, <1>13, <1>14, <1>15, <1>16, <1>17, <1>18, <1>19,
     <1>20, <1>21
  DEF QueueNext, EnqueueAny, DrainStep, Loss

LEMMA QueueTypeInit == QueueInit => QueueTypeInv
<1> SUFFICES ASSUME QueueInit PROVE QueueTypeInv
  OBVIOUS
<1>1. AbsentRow \in DeliveryRows /\ IdleWorker.todo = {} /\ IdleWorker.sending = {}
  BY DEF AbsentRow, DeliveryRows, IdleWorker
<1> QED
  BY <1>1, IdleIsWorker DEF QueueInit, QueueTypeInv, QueueTypeOK, ClaimsWereAttempts

(***************************************************************************)
(* The table, the passes and the counters are of their types in every      *)
(* state (notification-queue.service.ts): no attempt count, lease, backoff *)
(* or hourly count ever leaves the naturals, whatever is lost.             *)
(***************************************************************************)
THEOREM QueueTypeCorrect == QueueIsFinite => (QueueSpec => []QueueTypeOK)
<1> SUFFICES ASSUME QueueIsFinite PROVE QueueSpec => []QueueTypeOK
  OBVIOUS
<1>1. QueueInit => TruthInv /\ QueueTypeInv
  BY TruthInit, QueueTypeInit
<1>2. (TruthInv /\ QueueTypeInv) /\ [QueueNext]_queueVars => (TruthInv /\ QueueTypeInv)'
  BY TruthStep, QueueTypeStep
<1>3. QueueTypeInv => QueueTypeOK
  BY DEF QueueTypeInv
<1> QED
  BY <1>1, <1>2, <1>3, PTL DEF QueueSpec

-----------------------------------------------------------------------------
(* The hourly ceiling of a single instance.  What a pass counts is at      *)
(* least what the hour holds together with what the pass will mark, and    *)
(* nothing is sent at the ceiling.                                         *)

OneInstance == \A v, w \in Servers : v = w

\* What each channel delivered within the last hour.
Recently ==
    [ch \in Channels |-> {d \in Deliveries : /\ d[2] = ch
                                            /\ delivery[d].status = "sent"
                                            /\ delivery[d].recent > 0}]

ToMark(pass, ch) == {d \in pass.delivered : d[2] = ch}

CountIsKept(recently, pass) ==
    /\ pass.pc = "context" => pass.delivered = {}
    /\ pass.sending # {} => pass.pc = "loop"
    /\ \A d \in pass.sending : pass.sentLastHour[d[2]] < Ceiling
    /\ pass.pc \in {"loop", "mark"}
       => \A ch \in Channels :
            /\ Cardinality(recently[ch] \cup ToMark(pass, ch)) <= pass.sentLastHour[ch]
            /\ pass.sentLastHour[ch] <= Ceiling

CeilingInv ==
    /\ \A ch \in Channels : Cardinality(Recently[ch]) <= Ceiling
    /\ \A w \in Servers : CountIsKept(Recently, worker[w])

LEMMA CountOfFewer ==
    ASSUME QueueIsFinite, NEW S \in SUBSET Deliveries, NEW T \in SUBSET S
    PROVE  Cardinality(T) <= Cardinality(S) /\ Cardinality(T) \in Nat /\ Cardinality(S) \in Nat
BY DeliveriesAreFinite, FS_Subset

LEMMA RecentlyIsSent ==
    /\ Recently \in [Channels -> SUBSET Deliveries]
    /\ \A ch \in Channels : SentLastHour(ch) = Cardinality(Recently[ch])
BY DEF Recently, SentLastHour

\* The hour moves on, and a pass with it that counts what it counted.
LEMMA CountStaysKept ==
    ASSUME QueueIsFinite, Ceiling > 0,
           NEW r \in [Channels -> SUBSET Deliveries], NEW s \in [Channels -> SUBSET Deliveries],
           \A ch \in Channels : s[ch] \subseteq r[ch],
           NEW p \in Workers, NEW q \in Workers, CountIsKept(r, p),
           q.delivered = p.delivered, q.sentLastHour = p.sentLastHour,
           q.sending \subseteq p.sending,
           q.pc = p.pc \/ (q.pc = "mark" /\ p.pc = "loop" /\ q.sending = {})
    PROVE  CountIsKept(s, q)
<1>1. ASSUME q.pc \in {"loop", "mark"}, NEW ch \in Channels
      PROVE  /\ Cardinality(s[ch] \cup ToMark(q, ch)) <= q.sentLastHour[ch]
             /\ q.sentLastHour[ch] <= Ceiling
  <2> DEFINE T == s[ch] \cup ToMark(q, ch)
             S == r[ch] \cup ToMark(p, ch)
  <2>1. S \in SUBSET Deliveries /\ T \in SUBSET S
    BY DEF ToMark, Workers
  <2>2. Cardinality(S) <= p.sentLastHour[ch] /\ p.sentLastHour[ch] <= Ceiling
    BY <1>1 DEF CountIsKept
  <2>3. p.sentLastHour[ch] \in Nat
    BY DEF Workers
  <2> HIDE DEF S, T
  <2>4. Cardinality(T) <= Cardinality(S) /\ Cardinality(T) \in Nat /\ Cardinality(S) \in Nat
    BY <2>1, CountOfFewer
  <2>5. Cardinality(T) <= q.sentLastHour[ch]
    BY <2>2, <2>3, <2>4
  <2> QED
    BY <2>2, <2>5 DEF T
<1>2. /\ q.pc = "context" => q.delivered = {}
      /\ q.sending # {} => q.pc = "loop"
      /\ \A d \in q.sending : q.sentLastHour[d[2]] < Ceiling
  BY DEF CountIsKept
<1> QED
  BY <1>1, <1>2 DEF CountIsKept

LEMMA IdleCountIsKept ==
    ASSUME NEW r PROVE CountIsKept(r, IdleWorker)
BY DEF CountIsKept, IdleWorker

LEMMA CeilingStep ==
    ASSUME QueueIsFinite, OneInstance, Ceiling > 0,
           QueueTypeOK, QueueTypeOK', CeilingInv, [QueueNext]_queueVars
    PROVE  CeilingInv'
<1> DEFINE HourMovesOn == \A ch \in Channels : Recently'[ch] \subseteq Recently[ch]
<1>1. /\ delivery \in [Deliveries -> DeliveryRows] /\ worker \in [Servers -> Workers]
      /\ delivery' \in [Deliveries -> DeliveryRows] /\ worker' \in [Servers -> Workers]
  BY DEF QueueTypeOK
<1>2. /\ Recently \in [Channels -> SUBSET Deliveries]
      /\ Recently' \in [Channels -> SUBSET Deliveries]
  BY RecentlyIsSent DEF Recently
<1>3. ASSUME NEW w \in Servers
      PROVE  /\ worker[w] \in Workers /\ CountIsKept(Recently, worker[w])
             /\ worker[w].delivered \in SUBSET Deliveries
             /\ worker[w].sentLastHour \in [Channels -> Nat]
  BY <1>1 DEF Workers, CeilingInv
<1>4. ASSUME \A d \in Deliveries :
                /\ delivery'[d].status = "sent" => delivery[d].status = "sent"
                /\ delivery'[d].recent > 0 => delivery[d].recent > 0
      PROVE  HourMovesOn
  BY <1>4 DEF Recently
<1>5. ASSUME UNCHANGED delivery
      PROVE  HourMovesOn
  BY <1>4, <1>5
<1>6. ASSUME HourMovesOn
      PROVE  \A ch \in Channels : Cardinality(Recently'[ch]) <= Ceiling
  <2> SUFFICES ASSUME NEW ch \in Channels PROVE Cardinality(Recently'[ch]) <= Ceiling
    OBVIOUS
  <2>1. Recently[ch] \in SUBSET Deliveries /\ Recently'[ch] \in SUBSET Recently[ch]
    BY <1>2, <1>6
  <2>2. /\ Cardinality(Recently'[ch]) <= Cardinality(Recently[ch])
        /\ Cardinality(Recently'[ch]) \in Nat /\ Cardinality(Recently[ch]) \in Nat
    BY <2>1, CountOfFewer
  <2>3. Cardinality(Recently[ch]) <= Ceiling
    BY DEF CeilingInv
  <2> QED
    BY <2>2, <2>3, QueueAssumption
\* There is no pass but that of w.
<1>7. ASSUME NEW w \in Servers, NEW v, SetWorker(w, v), CountIsKept(Recently', v),
             \A ch \in Channels : Cardinality(Recently'[ch]) <= Ceiling
      PROVE  CeilingInv'
  <2>1. \A u \in Servers : worker'[u] = v
    BY <1>1, <1>7 DEF SetWorker, OneInstance
  <2> QED
    BY <1>7, <2>1 DEF CeilingInv
\* A pass that counts what it counted, and sends no more.
<1>8. ASSUME NEW w \in Servers, NEW v \in Workers, SetWorker(w, v), HourMovesOn,
             v.delivered = worker[w].delivered, v.sentLastHour = worker[w].sentLastHour,
             v.sending \subseteq worker[w].sending,
             v.pc = worker[w].pc \/ (v.pc = "mark" /\ worker[w].pc = "loop" /\ v.sending = {})
      PROVE  CeilingInv'
  <2>1. CountIsKept(Recently', v)
    BY <1>2, <1>3, <1>8, CountStaysKept
  <2> QED
    BY <1>6, <1>7, <1>8, <2>1
\* The pass rests.
<1>9. ASSUME UNCHANGED worker, HourMovesOn
      PROVE  CeilingInv'
  <2>1. \A w \in Servers : CountIsKept(Recently', worker[w])
    BY <1>2, <1>3, <1>9, CountStaysKept
  <2> QED
    BY <1>6, <1>9, <2>1 DEF CeilingInv
<1>10. ASSUME NEW incidents, NEW kind, Enqueue(incidents, kind)
       PROVE  CeilingInv'
  <2>1. \A d \in Deliveries :
           delivery'[d].status = "pending" \/ delivery'[d] = delivery[d]
    BY <1>10 DEF Enqueue, AbsentRow
  <2>2. HourMovesOn
    BY <2>1 DEF Recently
  <2> QED
    BY <1>9, <1>10, <2>2 DEF Enqueue
<1>11. ASSUME NEW w \in Servers, Claim(w)
       PROVE  CeilingInv'
  <2>1. PICK batch \in SUBSET Claimable :
          /\ delivery' = [d \in Deliveries |->
                            IF d \in batch
                            THEN [delivery[d] EXCEPT !.attempts = @ + 1, !.wait = Lease]
                            ELSE delivery[d]]
          /\ SetWorker(w, [IdleWorker EXCEPT !.pc = "context", !.todo = batch])
    BY <1>11 DEF Claim
  <2> DEFINE v == [IdleWorker EXCEPT !.pc = "context", !.todo = batch]
             claimed(d) == [delivery[d] EXCEPT !.attempts = @ + 1, !.wait = Lease]
  <2>2. CountIsKept(Recently', v)
    BY DEF CountIsKept, IdleWorker
  <2>3. \A d \in Deliveries : /\ claimed(d).status = delivery[d].status
                              /\ claimed(d).recent = delivery[d].recent
    BY <1>1 DEF DeliveryRows
  <2>4. delivery' = [d \in Deliveries |-> IF d \in batch THEN claimed(d) ELSE delivery[d]]
        /\ SetWorker(w, v)
    BY <2>1
  <2> HIDE DEF claimed, v
  <2>5. HourMovesOn
    BY <1>4, <2>3, <2>4
  <2> QED
    BY <1>6, <1>7, <2>2, <2>4, <2>5
<1>12. ASSUME NEW w \in Servers, ReadContext(w)
       PROVE  CeilingInv'
  <2> DEFINE counts == [ch \in Channels |-> IF Ceiling = 0 THEN 0 ELSE SentLastHour(ch)]
             v == [worker[w] EXCEPT !.pc = "loop", !.sentLastHour = counts]
  <2>1. worker[w].pc = "context" /\ SetWorker(w, v) /\ UNCHANGED delivery
    BY <1>12 DEF ReadContext
  <2>2. worker[w].delivered = {} /\ worker[w].sending = {}
    BY <1>3, <2>1 DEF CountIsKept
  <2>3. \A ch \in Channels : counts[ch] = Cardinality(Recently[ch])
    BY RecentlyIsSent
  <2> HIDE DEF counts
  <2>4. v.pc = "loop" /\ v.sending = {} /\ v.delivered = {} /\ v.sentLastHour = counts
    BY <1>3, <2>2 DEF Workers
  <2> HIDE DEF v
  <2>5. Recently' = Recently
    BY <2>1 DEF Recently
  <2>6. ASSUME NEW ch \in Channels
        PROVE  /\ Cardinality(Recently[ch] \cup ToMark(v, ch)) <= v.sentLastHour[ch]
               /\ v.sentLastHour[ch] <= Ceiling
    <3>1. Recently[ch] \cup ToMark(v, ch) = Recently[ch]
      BY <2>4 DEF ToMark
    <3>2. Cardinality(Recently[ch]) \in Nat
      BY <1>2, DeliveriesAreFinite
    <3>3. Cardinality(Recently[ch]) <= Ceiling
      BY DEF CeilingInv
    <3> QED
      BY <2>3, <2>4, <3>1, <3>2, <3>3
  <2>7. CountIsKept(Recently', v)
    BY <2>4, <2>5, <2>6 DEF CountIsKept
  <2> QED
    BY <1>5, <1>6, <1>7, <2>1, <2>7
<1>13. ASSUME NEW w \in Servers, NEW d \in Deliveries, Refuse(w, d)
       PROVE  CeilingInv'
  <2> DEFINE v == [worker[w] EXCEPT !.todo = @ \ {d}]
  <2>1. SetWorker(w, v) /\ delivery' = [delivery EXCEPT ![d] = [@ EXCEPT !.status = "failed", !.wait = 0]]
    BY <1>13 DEF Refuse
  <2>2. \A c \in Deliveries : delivery'[c].status = "failed" \/ delivery'[c] = delivery[c]
    BY <1>1, <2>1 DEF DeliveryRows
  <2>3. HourMovesOn
    BY <2>2 DEF Recently
  <2>4. /\ v \in Workers /\ v.pc = worker[w].pc /\ v.sending = worker[w].sending
        /\ v.delivered = worker[w].delivered /\ v.sentLastHour = worker[w].sentLastHour
    BY <1>3 DEF Workers
  <2> HIDE DEF v
  <2> QED
    BY <1>8, <2>1, <2>3, <2>4
<1>14. ASSUME NEW w \in Servers, NEW d \in Deliveries, BeginSend(w, d)
       PROVE  CeilingInv'
  <2> DEFINE v == [worker[w] EXCEPT !.todo = @ \ {d}, !.sending = {d}, !.elapsed = 0]
  <2>1. /\ SetWorker(w, v) /\ UNCHANGED delivery /\ worker[w].pc = "loop"
        /\ ~OverCeiling(w, d[2])
    BY <1>14 DEF BeginSend, NextRow
  <2>2. /\ v.pc = worker[w].pc /\ v.sending = {d}
        /\ v.delivered = worker[w].delivered /\ v.sentLastHour = worker[w].sentLastHour
    BY <1>3 DEF Workers
  <2> HIDE DEF v
  <2>3. d[2] \in Channels
    BY DEF Deliveries
  <2>4. v.sentLastHour[d[2]] < Ceiling
    BY <1>3, <2>1, <2>2, <2>3, QueueAssumption DEF OverCeiling
  <2>5. Recently' = Recently /\ \A ch \in Channels : ToMark(v, ch) = ToMark(worker[w], ch)
    BY <2>1, <2>2 DEF Recently, ToMark
  <2>6. CountIsKept(Recently', v)
    BY <1>3, <2>1, <2>2, <2>4, <2>5 DEF CountIsKept
  <2> QED
    BY <1>5, <1>6, <1>7, <2>1, <2>6
<1>15. ASSUME NEW w \in Servers, NEW d \in Deliveries, SendOk(w, d)
       PROVE  CeilingInv'
  <2> DEFINE v == [worker[w] EXCEPT
                     !.sending            = {},
                     !.elapsed            = 0,
                     !.delivered          = @ \cup {d},
                     !.sentLastHour[d[2]] = IF Ceiling = 0 THEN 0 ELSE @ + 1]
  <2>1. SetWorker(w, v) /\ d \in worker[w].sending /\ UNCHANGED delivery
    BY <1>15 DEF SendOk
  <2>2. d[2] \in Channels
    BY DEF Deliveries
  <2>3. /\ v.pc = worker[w].pc /\ v.sending = {} /\ v.delivered = worker[w].delivered \cup {d}
        /\ \A ch \in Channels : v.sentLastHour[ch] =
              IF ch = d[2] THEN worker[w].sentLastHour[ch] + 1 ELSE worker[w].sentLastHour[ch]
    BY <1>3, <2>2, QueueAssumption DEF Workers
  <2> HIDE DEF v
  <2>4. worker[w].pc = "loop" /\ worker[w].sentLastHour[d[2]] < Ceiling
    BY <1>3, <2>1 DEF CountIsKept
  <2>5. Recently' = Recently
    BY <2>1 DEF Recently
  <2>6. ASSUME NEW ch \in Channels
        PROVE  /\ Cardinality(Recently[ch] \cup ToMark(v, ch)) <= v.sentLastHour[ch]
               /\ v.sentLastHour[ch] <= Ceiling
    <3> DEFINE S == Recently[ch] \cup ToMark(worker[w], ch)
               T == Recently[ch] \cup ToMark(v, ch)
    <3>1. S \in SUBSET Deliveries
      BY <1>2, <1>3 DEF ToMark
    <3>2. Cardinality(S) <= worker[w].sentLastHour[ch] /\ worker[w].sentLastHour[ch] <= Ceiling
      BY <1>3, <2>4 DEF CountIsKept
    <3>3. worker[w].sentLastHour[ch] \in Nat
      BY <1>3
    <3>4. CASE ch = d[2]
      <4>1. T = S \cup {d}
        BY <2>3, <3>4 DEF ToMark
      <4> HIDE DEF S, T
      <4>2. IsFiniteSet(S) /\ Cardinality(S) \in Nat
        BY <3>1, DeliveriesAreFinite
      <4>3. Cardinality(S \cup {d}) = IF d \in S THEN Cardinality(S) ELSE Cardinality(S) + 1
        BY <4>2, FS_AddElement
      <4>4. Cardinality(T) <= v.sentLastHour[ch] /\ v.sentLastHour[ch] <= Ceiling
        BY <2>3, <2>4, <3>2, <3>3, <3>4, <4>1, <4>2, <4>3, QueueAssumption
      <4> QED
        BY <4>4 DEF T
    <3>5. CASE ch # d[2]
      <4>1. T = S
        BY <2>3, <3>5 DEF ToMark
      <4> QED
        BY <2>3, <3>2, <3>5, <4>1
    <3> QED
      BY <3>4, <3>5
  <2>7. CountIsKept(Recently', v)
    BY <2>3, <2>4, <2>5, <2>6 DEF CountIsKept
  <2> QED
    BY <1>5, <1>6, <1>7, <2>1, <2>7
<1>16. ASSUME NEW w \in Servers, NEW d \in Deliveries, SendFails(w, d)
       PROVE  CeilingInv'
  <2> DEFINE v == [worker[w] EXCEPT !.sending = {}, !.elapsed = 0]
  <2>1. SetWorker(w, v) /\ delivery' = [delivery EXCEPT ![d] = Retried(delivery[d])]
    BY <1>16 DEF SendFails
  <2>2. Retried(delivery[d]).status \in {"pending", "failed"}
    BY <1>1 DEF Retried, DeliveryRows
  <2>3. \A c \in Deliveries : delivery'[c].status # "sent" \/ delivery'[c] = delivery[c]
    BY <1>1, <2>1, <2>2
  <2>4. HourMovesOn
    BY <2>3 DEF Recently
  <2>5. /\ v \in Workers /\ v.pc = worker[w].pc /\ v.sending = {}
        /\ v.delivered = worker[w].delivered /\ v.sentLastHour = worker[w].sentLastHour
    BY <1>3 DEF Workers
  <2> HIDE DEF v
  <2> QED
    BY <1>8, <2>1, <2>4, <2>5
<1>17. ASSUME NEW w \in Servers, NEW d \in Deliveries, OutcomeUnrecorded(w, d)
       PROVE  CeilingInv'
  <2> DEFINE v == [worker[w] EXCEPT !.todo = @ \ {d}, !.sending = {}, !.elapsed = 0]
  <2>1. SetWorker(w, v) /\ UNCHANGED delivery
    BY <1>17 DEF OutcomeUnrecorded
  <2>2. /\ v \in Workers /\ v.pc = worker[w].pc /\ v.sending = {}
        /\ v.delivered = worker[w].delivered /\ v.sentLastHour = worker[w].sentLastHour
    BY <1>3 DEF Workers
  <2> HIDE DEF v
  <2> QED
    BY <1>5, <1>8, <2>1, <2>2
<1>18. ASSUME NEW w \in Servers, SetWorker(w, IdleWorker), UNCHANGED delivery
       PROVE  CeilingInv'
  BY <1>5, <1>6, <1>7, <1>18, IdleCountIsKept
<1>19. ASSUME NEW w \in Servers, EndLoop(w)
       PROVE  CeilingInv'
  <2>1. CASE worker[w].delivered = {}
    BY <1>18, <1>19, <2>1 DEF EndLoop
  <2>2. CASE worker[w].delivered # {}
    <3> DEFINE v == [worker[w] EXCEPT !.pc = "mark"]
    <3>1. /\ SetWorker(w, v) /\ UNCHANGED delivery
          /\ worker[w].pc = "loop" /\ worker[w].sending = {}
      BY <1>19, <2>2 DEF EndLoop
    <3>2. /\ v \in Workers /\ v.pc = "mark" /\ v.sending = worker[w].sending
          /\ v.delivered = worker[w].delivered /\ v.sentLastHour = worker[w].sentLastHour
      BY <1>3 DEF Workers
    <3> HIDE DEF v
    <3> QED
      BY <1>5, <1>8, <3>1, <3>2
  <2> QED
    BY <2>1, <2>2
<1>20. ASSUME NEW w \in Servers, MarkSent(w)
       PROVE  CeilingInv'
  <2> DEFINE v == [worker[w] EXCEPT !.pc = "count"]
  <2>1. SetWorker(w, v) /\ worker[w].pc = "mark"
    BY <1>20 DEF MarkSent
  <2>2. \A d \in Deliveries : d \in worker[w].delivered \/ delivery'[d] = delivery[d]
    BY <1>20 DEF MarkSent
  <2>3. v.pc = "count" /\ v.sending = worker[w].sending
    BY <1>3 DEF Workers
  <2> HIDE DEF v
  <2>4. CountIsKept(Recently', v)
    BY <1>3, <2>1, <2>3 DEF CountIsKept
  <2>5. ASSUME NEW ch \in Channels
        PROVE  Cardinality(Recently'[ch]) <= Ceiling
    <3> DEFINE S == Recently[ch] \cup ToMark(worker[w], ch)
    <3>1. Recently'[ch] \in SUBSET S
      BY <2>2 DEF Recently, ToMark
    <3>2. S \in SUBSET Deliveries
      BY <1>2, <1>3 DEF ToMark
    <3>3. Cardinality(S) <= worker[w].sentLastHour[ch] /\ worker[w].sentLastHour[ch] <= Ceiling
      BY <1>3, <2>1 DEF CountIsKept
    <3>4. worker[w].sentLastHour[ch] \in Nat
      BY <1>3
    <3> HIDE DEF S
    <3>5. Cardinality(Recently'[ch]) <= Cardinality(S) /\ Cardinality(Recently'[ch]) \in Nat
          /\ Cardinality(S) \in Nat
      BY <3>1, <3>2, CountOfFewer
    <3> QED
      BY <3>3, <3>4, <3>5, QueueAssumption
  <2> QED
    BY <1>7, <2>1, <2>4, <2>5
<1>21. CASE QueueClock
  <2> DEFINE older(d) == [delivery[d] EXCEPT !.wait = Less(@), !.recent = Less(@)]
             on(w) == IF worker[w].sending = {} THEN worker[w]
                      ELSE [worker[w] EXCEPT !.elapsed = @ + 1]
  <2>1. /\ delivery' = [d \in Deliveries |-> older(d)]
        /\ worker' = [w \in Servers |-> on(w)]
    BY <1>21 DEF QueueClock
  <2>2. \A d \in Deliveries : /\ older(d).status = delivery[d].status
                              /\ older(d).recent = Less(delivery[d].recent)
    BY <1>1 DEF DeliveryRows
  <2>3. \A w \in Servers : /\ on(w) \in Workers /\ on(w).pc = worker[w].pc
                           /\ on(w).sending = worker[w].sending
                           /\ on(w).delivered = worker[w].delivered
                           /\ on(w).sentLastHour = worker[w].sentLastHour
    BY <1>3 DEF Workers
  <2> HIDE DEF older, on
  <2>4. \A n \in Nat : Less(n) > 0 => n > 0
    BY DEF Less
  <2>5. \A d \in Deliveries : delivery[d].recent \in Nat
    BY <1>1 DEF DeliveryRows
  <2>6. HourMovesOn
    BY <1>4, <2>1, <2>2, <2>4, <2>5
  <2>7. ASSUME NEW w \in Servers
        PROVE  CountIsKept(Recently', worker'[w])
    <3>1. worker'[w] = on(w)
      BY <2>1
    <3>2. CountIsKept(Recently', on(w))
      BY <1>2, <1>3, <2>3, <2>6, CountStaysKept
    <3> QED
      BY <3>1, <3>2
  <2> QED
    BY <1>6, <2>6, <2>7 DEF CeilingInv
<1> QED
  <2>1. CASE UNCHANGED <<delivery, worker>>
    BY <1>5, <1>9, <2>1
  <2>2. ASSUME NEW w \in Servers, CountSent(w) \/ Crash(w)
        PROVE  CeilingInv'
    BY <1>18, <2>2 DEF CountSent, Crash
  <2> QED
    BY <1>10, <1>11, <1>12, <1>13, <1>14, <1>15, <1>16, <1>17, <1>19, <1>20, <1>21, <2>1, <2>2
    DEF QueueNext, EnqueueAny, DrainStep, Loss, SetEnabled, queueVars

(***************************************************************************)
(* A single instance never marks more than ALERT_MAX_PER_CHANNEL_PER_HOUR  *)
(* alerts of a channel within an hour, though the count is read once per   *)
(* batch, the hour moves on under the batch, and passes die                *)
(* (NotificationQueueService.drain()).                                     *)
(***************************************************************************)
THEOREM CeilingIsKept ==
    QueueIsFinite /\ OneInstance => (QueueSpec => []CeilingHolds)
<1> SUFFICES ASSUME QueueIsFinite, OneInstance PROVE QueueSpec => []CeilingHolds
  OBVIOUS
<1>1. CASE Ceiling > 0
  <2>1. QueueInit => CeilingInv
    <3> SUFFICES ASSUME QueueInit PROVE CeilingInv
      OBVIOUS
    <3>1. \A ch \in Channels : Recently[ch] = {}
      BY DEF Recently, QueueInit, AbsentRow
    <3>2. \A w \in Servers : worker[w] = IdleWorker
      BY DEF QueueInit
    <3> QED
      BY <1>1, <3>1, <3>2, FS_EmptySet, IdleCountIsKept, QueueAssumption DEF CeilingInv
  <2>2. QueueTypeOK /\ QueueTypeOK' /\ CeilingInv /\ [QueueNext]_queueVars => CeilingInv'
    BY <1>1, CeilingStep
  <2>3. CeilingInv => CeilingHolds
    BY RecentlyIsSent DEF CeilingInv, CeilingHolds
  <2>4. QueueSpec => []QueueTypeOK
    BY QueueTypeCorrect
  <2> QED
    BY <2>1, <2>2, <2>3, <2>4, PTL DEF QueueSpec
<1>2. CASE ~(Ceiling > 0)
  <2>1. CeilingHolds
    BY <1>2 DEF CeilingHolds
  <2> QED
    BY <2>1, PTL
<1> QED
  BY <1>1, <1>2

-----------------------------------------------------------------------------
(* Leases.  A row stays in the hands of one pass as long as its wait lasts *)
(* for what the pass still has to send.                                    *)

\* A whole batch fits in the lease, each of its sends up to its timeout.
BatchesFit == ClaimBatch * SendTimeout < Lease

HeldBy(pass) == pass.todo \cup pass.sending \cup IF pass.pc = "count" THEN {} ELSE pass.delivered

Left(pass) == Cardinality(pass.todo \cup pass.sending)

\* What may have passed of the lease when n rows of a batch are left.
Spent(n) == (ClaimBatch - n) * SendTimeout

InTime(pass, row) == row.wait + Spent(Left(pass)) + pass.elapsed >= Lease

KeepsLease(pass, rows) ==
    /\ pass.todo \cap pass.sending = {}
    /\ (pass.todo \cup pass.sending) \cap pass.delivered = {}
    /\ \A c, d \in pass.sending : c = d
    /\ Left(pass) <= ClaimBatch
    /\ pass.elapsed <= SendTimeout
    /\ pass.sending = {} => pass.elapsed = 0
    /\ pass.pc = "idle" => HeldBy(pass) = {}
    /\ \A d \in HeldBy(pass) : rows[d].status = "pending" /\ InTime(pass, rows[d])

LeaseInv == DisjointBatches /\ \A w \in Servers : KeepsLease(worker[w], delivery)

LEMMA SpentGrows ==
    /\ \A m, n \in 0 .. ClaimBatch :
          m <= n => /\ Spent(n) \in Nat /\ Spent(m) >= Spent(n)
                    /\ m < n => Spent(m) >= Spent(n) + SendTimeout
    /\ Spent(0) = ClaimBatch * SendTimeout
<1>1. ASSUME NEW m \in 0 .. ClaimBatch, NEW n \in 0 .. ClaimBatch, m <= n
      PROVE  /\ Spent(n) \in Nat /\ Spent(m) >= Spent(n)
             /\ m < n => Spent(m) >= Spent(n) + SendTimeout
  <2> DEFINE a == ClaimBatch - n
             b == n - m
  <2>1. a \in Nat /\ b \in Nat /\ SendTimeout \in Nat /\ ClaimBatch - m = a + b
    BY <1>1, QueueAssumption
  <2>2. Spent(n) = a * SendTimeout /\ Spent(m) = (a + b) * SendTimeout
    BY <2>1 DEF Spent
  <2>3. m < n => b >= 1
    BY <1>1
  <2> HIDE DEF a, b
  <2>4. (a + b) * SendTimeout = a * SendTimeout + b * SendTimeout
    BY <2>1
  <2>5. b * SendTimeout \in Nat /\ a * SendTimeout \in Nat /\ (b >= 1 => b * SendTimeout >= SendTimeout)
    BY <2>1
  <2> QED
    BY <2>1, <2>2, <2>3, <2>4, <2>5
<1>2. Spent(0) = ClaimBatch * SendTimeout
  BY QueueAssumption DEF Spent
<1> QED
  BY <1>1, <1>2

LEMMA LeftIsNumber ==
    ASSUME QueueIsFinite, NEW p \in Workers
    PROVE  Left(p) \in Nat
BY DeliveriesAreFinite DEF Left, Workers

\* A pass that has no more to do than before has no less time for it.
LEMMA TimeIsLeft ==
    ASSUME QueueIsFinite, NEW p \in Workers, NEW q \in Workers,
           Left(p) <= ClaimBatch, p.elapsed <= SendTimeout, p.sending = {} => p.elapsed = 0,
           p.todo \cap p.sending = {},
           q.todo \cup q.sending \subseteq p.todo \cup p.sending,
           q.elapsed = p.elapsed \/ (q.elapsed = 0 /\ q.sending = {} /\ q.todo \subseteq p.todo)
    PROVE  /\ Left(q) <= ClaimBatch
           /\ \A n \in Nat : n + Spent(Left(p)) + p.elapsed >= Lease
                             => n + Spent(Left(q)) + q.elapsed >= Lease
<1> DEFINE P == p.todo \cup p.sending
           Q == q.todo \cup q.sending
<1>1. P \in SUBSET Deliveries /\ Q \in SUBSET P
  BY DEF Workers
<1>2. Left(p) \in Nat /\ Left(q) \in Nat /\ Left(q) <= Left(p)
  BY <1>1, CountOfFewer DEF Left
<1>3. Left(p) \in 0 .. ClaimBatch /\ Left(q) \in 0 .. ClaimBatch
  BY <1>2, QueueAssumption
<1>4. p.elapsed \in Nat /\ q.elapsed \in Nat /\ SendTimeout \in Nat /\ Lease \in Nat
  BY QueueAssumption DEF Workers
<1>5. /\ Spent(Left(p)) \in Nat /\ Spent(Left(q)) \in Nat
      /\ Spent(Left(q)) >= Spent(Left(p))
      /\ Left(q) < Left(p) => Spent(Left(q)) >= Spent(Left(p)) + SendTimeout
  BY <1>2, <1>3, SpentGrows
<1>6. Spent(Left(q)) + q.elapsed >= Spent(Left(p)) + p.elapsed
  <2>1. CASE q.elapsed = p.elapsed
    BY <1>4, <1>5, <2>1
  <2>2. CASE q.elapsed = 0 /\ q.sending = {} /\ q.todo \subseteq p.todo
    <3>1. CASE p.sending = {}
      BY <1>4, <1>5, <2>2, <3>1
    <3>2. CASE p.sending # {}
      <4>1. PICK d \in p.sending : TRUE
        BY <3>2
      <4>2. d \in P /\ Q \in SUBSET (P \ {d})
        BY <2>2, <4>1
      <4>3. IsFiniteSet(P)
        BY <1>1, DeliveriesAreFinite
      <4> HIDE DEF P, Q
      <4>4. Cardinality(P \ {d}) = Cardinality(P) - 1 /\ P \ {d} \in SUBSET Deliveries
        BY <1>1, <4>2, <4>3, FS_RemoveElement
      <4>5. Cardinality(Q) <= Cardinality(P \ {d})
        BY <4>2, <4>4, CountOfFewer
      <4>6. Left(q) < Left(p)
        BY <1>2, <4>4, <4>5 DEF Left, P, Q
      <4> QED
        BY <1>4, <1>5, <2>2, <4>6
    <3> QED
      BY <3>1, <3>2
  <2> QED
    BY <2>1, <2>2
<1> QED
  BY <1>3, <1>4, <1>5, <1>6, QueueAssumption

\* A row in the hands of a pass is not due.
LEMMA HeldIsNotDue ==
    ASSUME QueueIsFinite, BatchesFit, QueueTypeOK, LeaseInv, NEW w \in Servers, NEW d \in Holding(w)
    PROVE  d \in Deliveries /\ delivery[d].wait > 0 /\ delivery[d].status = "pending"
<1> DEFINE p == worker[w]
<1>1. p \in Workers /\ KeepsLease(p, delivery)
  BY DEF QueueTypeOK, LeaseInv
<1>2. d \in HeldBy(p) /\ d \in Deliveries
  BY <1>1 DEF Holding, HeldBy, Workers
<1>3. delivery[d].status = "pending" /\ delivery[d].wait + Spent(Left(p)) + p.elapsed >= Lease
  BY <1>1, <1>2 DEF KeepsLease, InTime
<1>4. delivery[d].wait \in Nat /\ p.elapsed \in Nat
  BY <1>1, <1>2 DEF QueueTypeOK, DeliveryRows, Workers
<1>5. Left(p) \in 0 .. ClaimBatch
  BY <1>1, LeftIsNumber, QueueAssumption DEF KeepsLease
<1>6. Spent(Left(p)) \in Nat /\ Spent(Left(p)) + p.elapsed <= ClaimBatch * SendTimeout
  <2>1. /\ Spent(Left(p)) \in Nat /\ Spent(0) = ClaimBatch * SendTimeout /\ Spent(0) >= Spent(Left(p))
        /\ 0 < Left(p) => Spent(0) >= Spent(Left(p)) + SendTimeout
    <3>1. 0 \in 0 .. ClaimBatch /\ 0 <= Left(p)
      BY <1>5, QueueAssumption
    <3>2. \A n \in 0 .. ClaimBatch :
            0 <= n => /\ Spent(n) \in Nat /\ Spent(0) >= Spent(n)
                      /\ 0 < n => Spent(0) >= Spent(n) + SendTimeout
      BY <3>1, SpentGrows, Zenon
    <3>3. /\ Spent(Left(p)) \in Nat /\ Spent(0) >= Spent(Left(p))
          /\ 0 < Left(p) => Spent(0) >= Spent(Left(p)) + SendTimeout
      BY <1>5, <3>1, <3>2, Zenon
    <3> QED
      BY <3>3, SpentGrows, Zenon
  <2>2. CASE p.sending = {}
    BY <1>1, <1>4, <2>1, <2>2, QueueAssumption DEF KeepsLease
  <2>3. CASE p.sending # {}
    <3>1. 0 < Left(p)
      <4>1. IsFiniteSet(p.todo \cup p.sending)
        BY <1>1, DeliveriesAreFinite DEF Workers
      <4>2. Left(p) # 0
        BY <2>3, <4>1, FS_EmptySet DEF Left
      <4> QED
        BY <1>5, <4>2
    <3>2. p.elapsed <= SendTimeout
      BY <1>1 DEF KeepsLease
    <3> QED
      BY <1>4, <2>1, <3>1, <3>2, QueueAssumption
  <2> QED
    BY <2>2, <2>3
<1>7. ClaimBatch * SendTimeout \in Nat /\ Lease \in Nat
  BY QueueAssumption
<1> HIDE DEF p
<1>8. delivery[d].wait > 0
  BY <1>3, <1>4, <1>6, <1>7 DEF BatchesFit
<1> QED
  BY <1>2, <1>3, <1>8

\* A pass moves, and the rows of the others are left alone.
LEMMA HoldsAlone ==
    ASSUME QueueTypeOK, LeaseInv, NEW w \in Servers, NEW v, SetWorker(w, v), KeepsLease(v, delivery'),
           HeldBy(v) \subseteq HeldBy(worker[w]),
           \A d \in Deliveries \ HeldBy(worker[w]) : delivery'[d] = delivery[d]
    PROVE  LeaseInv'
<1>1. \A u \in Servers : worker'[u] = IF u = w THEN v ELSE worker[u]
  BY DEF SetWorker, QueueTypeOK
<1>2. \A u \in Servers : /\ HeldBy(worker[u]) = Holding(u)
                         /\ HeldBy(worker'[u]) = Holding(u)'
                         /\ HeldBy(worker[u]) \subseteq Deliveries
  BY DEF HeldBy, Holding, QueueTypeOK, Workers
<1>3. \A u \in Servers : Holding(u)' \subseteq Holding(u)
  BY <1>1, <1>2
<1>4. DisjointBatches'
  BY <1>3 DEF LeaseInv, DisjointBatches
<1>5. ASSUME NEW u \in Servers
      PROVE  KeepsLease(worker'[u], delivery')
  <2>1. CASE u = w
    BY <1>1, <2>1
  <2>2. CASE u # w
    <3>1. worker'[u] = worker[u] /\ KeepsLease(worker[u], delivery)
      BY <1>1, <2>2 DEF LeaseInv
    <3>2. \A d \in HeldBy(worker[u]) : delivery'[d] = delivery[d]
      BY <1>2, <2>2 DEF LeaseInv, DisjointBatches
    <3> QED
      BY <3>1, <3>2 DEF KeepsLease
  <2> QED
    BY <2>1, <2>2
<1> QED
  BY <1>4, <1>5 DEF LeaseInv

(***************************************************************************)
(* A pass that works off what it holds keeps its lease, if it leaves the   *)
(* rows alone that it goes on holding.                                     *)
(***************************************************************************)
LEMMA WorksOff ==
    ASSUME QueueIsFinite, QueueTypeOK, LeaseInv, NEW w \in Servers, NEW v \in Workers, SetWorker(w, v),
           worker[w].pc # "idle", v.pc # "idle", v.pc = "count" \/ worker[w].pc # "count",
           v.todo \cup v.sending \subseteq worker[w].todo \cup worker[w].sending,
           v.todo \cap v.sending = {}, \A c, d \in v.sending : c = d,
           v.elapsed = worker[w].elapsed \/ (v.elapsed = 0 /\ v.sending = {} /\ v.todo \subseteq worker[w].todo),
           v.sending = {} => v.elapsed = 0,
           v.delivered \subseteq worker[w].delivered \cup worker[w].sending,
           (v.todo \cup v.sending) \cap v.delivered = {},
           \A d \in Deliveries : d \in HeldBy(v) \/ d \notin HeldBy(worker[w]) => delivery'[d] = delivery[d]
    PROVE  LeaseInv'
<1> DEFINE p == worker[w]
<1>1. p \in Workers /\ KeepsLease(p, delivery) /\ delivery \in [Deliveries -> DeliveryRows]
  BY DEF QueueTypeOK, LeaseInv
<1>2. /\ Left(p) <= ClaimBatch /\ p.elapsed <= SendTimeout /\ (p.sending = {} => p.elapsed = 0)
      /\ p.todo \cap p.sending = {}
      /\ \A d \in HeldBy(p) : delivery[d].status = "pending" /\ InTime(p, delivery[d])
  BY <1>1 DEF KeepsLease
<1> HIDE DEF p
<1>3. /\ Left(v) <= ClaimBatch
      /\ \A n \in Nat : n + Spent(Left(p)) + p.elapsed >= Lease => n + Spent(Left(v)) + v.elapsed >= Lease
  BY <1>1, <1>2, TimeIsLeft DEF p
<1>4. v.elapsed <= SendTimeout
  BY <1>1, <1>2, QueueAssumption DEF p
<1>5. HeldBy(v) \subseteq HeldBy(p) /\ HeldBy(p) \subseteq Deliveries
  BY <1>1 DEF HeldBy, Workers, p
<1>6. ASSUME NEW d \in HeldBy(v)
      PROVE  delivery'[d].status = "pending" /\ InTime(v, delivery'[d])
  <2>1. delivery'[d] = delivery[d] /\ d \in HeldBy(p) /\ d \in Deliveries
    BY <1>5
  <2>2. delivery[d].status = "pending" /\ delivery[d].wait + Spent(Left(p)) + p.elapsed >= Lease
    BY <1>2, <2>1 DEF InTime
  <2>3. delivery[d].wait \in Nat
    BY <1>1, <2>1 DEF DeliveryRows
  <2>4. delivery[d].wait + Spent(Left(v)) + v.elapsed >= Lease
    BY <1>3, <2>2, <2>3
  <2> QED
    BY <2>1, <2>2, <2>4 DEF InTime
<1>7. KeepsLease(v, delivery')
  BY <1>3, <1>4, <1>6 DEF KeepsLease
<1> QED
  BY <1>5, <1>7, HoldsAlone DEF p

LEMMA IdleKeepsLease ==
    ASSUME NEW rows PROVE KeepsLease(IdleWorker, rows) /\ HeldBy(IdleWorker) = {}
BY FS_EmptySet, QueueAssumption DEF KeepsLease, HeldBy, Left, IdleWorker

\* A pass ends and lets go of what it held.
LEMMA LetsGo ==
    ASSUME QueueTypeOK, LeaseInv, NEW w \in Servers, SetWorker(w, IdleWorker), UNCHANGED delivery
    PROVE  LeaseInv'
BY IdleKeepsLease, HoldsAlone

\* Nobody claims what another holds.
LEMMA ClaimsAlone ==
    ASSUME QueueIsFinite, BatchesFit, QueueTypeOK, LeaseInv, NEW w \in Servers, Claim(w)
    PROVE  LeaseInv'
<1>1. PICK batch \in SUBSET Claimable :
        /\ Cardinality(batch) <= ClaimBatch
        /\ delivery' = [d \in Deliveries |->
                          IF d \in batch
                          THEN [delivery[d] EXCEPT !.attempts = @ + 1, !.wait = Lease]
                          ELSE delivery[d]]
        /\ SetWorker(w, [IdleWorker EXCEPT !.pc = "context", !.todo = batch])
  BY DEF Claim
<1> DEFINE v == [IdleWorker EXCEPT !.pc = "context", !.todo = batch]
<1>2. /\ v.todo = batch /\ v.sending = {} /\ v.delivered = {} /\ v.elapsed = 0 /\ v.pc = "context"
      /\ SetWorker(w, v)
  BY <1>1 DEF IdleWorker
<1> HIDE DEF v
<1>3. \A u \in Servers : worker'[u] = IF u = w THEN v ELSE worker[u]
  BY <1>2 DEF SetWorker, QueueTypeOK
<1>4. /\ \A u \in Servers : /\ HeldBy(worker[u]) = Holding(u)
                            /\ HeldBy(worker'[u]) = Holding(u)'
                            /\ HeldBy(worker[u]) \subseteq Deliveries
      /\ HeldBy(v) = batch
  BY <1>2 DEF HeldBy, Holding, QueueTypeOK, Workers
<1>5. \A u \in Servers : Holding(u) \cap batch = {}
  BY HeldIsNotDue DEF Claimable
<1>6. DisjointBatches'
  BY <1>3, <1>4, <1>5 DEF LeaseInv, DisjointBatches
<1>7. KeepsLease(v, delivery')
  <2>1. Left(v) = Cardinality(batch) /\ Left(v) \in 0 .. ClaimBatch
    <3>1. Left(v) = Cardinality(batch)
      BY <1>2 DEF Left
    <3>2. Cardinality(batch) \in Nat
      BY DeliveriesAreFinite DEF Claimable
    <3>3. Cardinality(batch) <= ClaimBatch
      BY <1>1, Zenon
    <3> QED
      BY <3>1, <3>2, <3>3, QueueAssumption
  <2>2. Spent(Left(v)) \in Nat
    BY <2>1, SpentGrows
  <2>3. \A d \in batch : delivery'[d].status = "pending" /\ delivery'[d].wait = Lease
    BY <1>1 DEF Claimable, QueueTypeOK, DeliveryRows
  <2>4. \A d \in batch : InTime(v, delivery'[d])
    BY <1>2, <2>2, <2>3, QueueAssumption DEF InTime
  <2> QED
    BY <1>2, <1>4, <2>1, <2>3, <2>4, QueueAssumption DEF KeepsLease
<1>8. ASSUME NEW u \in Servers, u # w
      PROVE  KeepsLease(worker'[u], delivery')
  <2>1. worker'[u] = worker[u] /\ KeepsLease(worker[u], delivery)
    BY <1>3, <1>8 DEF LeaseInv
  <2>2. \A d \in HeldBy(worker[u]) : delivery'[d] = delivery[d]
    BY <1>1, <1>4, <1>5
  <2> QED
    BY <2>1, <2>2 DEF KeepsLease
<1> QED
  BY <1>3, <1>6, <1>7, <1>8 DEF LeaseInv

\* Timers run down, and nobody in between two sends lets them.
LEMMA TicksAreInTime ==
    ASSUME QueueIsFinite, QueueTypeOK, LeaseInv, QueueClock
    PROVE  LeaseInv'
<1> DEFINE older(row) == [row EXCEPT !.wait = Less(@), !.recent = Less(@)]
<1>1. \A d \in Deliveries : delivery'[d] = older(delivery[d])
  BY DEF QueueClock
<1>2. \A d \in Deliveries : /\ delivery[d].wait \in Nat
                            /\ delivery'[d].status = delivery[d].status
                            /\ delivery'[d].wait = Less(delivery[d].wait)
  BY <1>1 DEF QueueTypeOK, DeliveryRows
<1> HIDE DEF older
<1>3. ASSUME NEW w \in Servers
      PROVE  /\ KeepsLease(worker'[w], delivery')
             /\ HeldBy(worker'[w]) = HeldBy(worker[w])
  <2> DEFINE p == worker[w]
             q == worker'[w]
  <2>1. p \in Workers /\ KeepsLease(p, delivery) /\ Unhurried(w)
    BY DEF QueueTypeOK, LeaseInv, QueueClock
  <2>2. CASE p.sending = {}
    <3>1. q = p
      BY <2>2 DEF QueueClock
    <3>2. HeldBy(p) = {}
      BY <2>1, <2>2 DEF Unhurried, KeepsLease
    <3> QED
      BY <2>1, <3>1, <3>2 DEF KeepsLease
  <2>3. CASE p.sending # {}
    <3>1. q = [p EXCEPT !.elapsed = @ + 1]
      BY <2>3 DEF QueueClock
    <3>2. /\ q.pc = p.pc /\ q.todo = p.todo /\ q.sending = p.sending /\ q.delivered = p.delivered
          /\ q.elapsed = p.elapsed + 1 /\ p.elapsed \in Nat
      BY <2>1, <3>1 DEF Workers
    <3>3. p.elapsed < SendTimeout
      <4>1. p.pc # "idle"
        BY <2>1, <2>3 DEF KeepsLease, HeldBy
      <4> QED
        BY <2>1, <4>1 DEF Unhurried
    <3> HIDE DEF p, q
    <3>4. Left(q) = Left(p) /\ HeldBy(q) = HeldBy(p)
      BY <3>2 DEF Left, HeldBy
    <3>5. ASSUME NEW d \in HeldBy(p)
          PROVE  delivery'[d].status = "pending" /\ InTime(q, delivery'[d])
      <4>1. d \in Deliveries /\ delivery[d].status = "pending"
            /\ delivery[d].wait + Spent(Left(p)) + p.elapsed >= Lease
        BY <2>1 DEF KeepsLease, InTime, HeldBy, Workers
      <4>2. delivery'[d].wait >= delivery[d].wait - 1 /\ delivery'[d].wait \in Nat
        BY <1>2, <4>1 DEF Less
      <4>3. Spent(Left(p)) \in Nat
        <5>1. Left(p) \in 0 .. ClaimBatch
          BY <2>1, LeftIsNumber, QueueAssumption DEF KeepsLease
        <5> QED
          BY <5>1, SpentGrows
      <4>4. delivery'[d].wait + Spent(Left(p)) + q.elapsed >= Lease
        BY <1>2, <3>2, <4>1, <4>2, <4>3, QueueAssumption
      <4> QED
        BY <1>2, <3>4, <4>1, <4>4 DEF InTime
    <3>6. q.elapsed <= SendTimeout
      BY <3>2, <3>3, QueueAssumption
    <3>7. KeepsLease(q, delivery')
      BY <2>1, <2>3, <3>2, <3>4, <3>5, <3>6 DEF KeepsLease, p
    <3> QED
      BY <3>4, <3>7 DEF p, q
  <2> QED
    BY <2>2, <2>3
<1>4. \A w \in Servers : HeldBy(worker[w]) = Holding(w) /\ HeldBy(worker'[w]) = Holding(w)'
  BY DEF HeldBy, Holding
<1> QED
  BY <1>3, <1>4 DEF LeaseInv, DisjointBatches

LEMMA LeaseStep ==
    ASSUME QueueIsFinite, BatchesFit, QueueTypeOK, QueueTypeOK', LeaseInv, [QueueNext]_queueVars
    PROVE  LeaseInv'
<1>1. /\ delivery \in [Deliveries -> DeliveryRows] /\ worker \in [Servers -> Workers]
      /\ delivery' \in [Deliveries -> DeliveryRows] /\ worker' \in [Servers -> Workers]
  BY DEF QueueTypeOK
<1>2. ASSUME NEW w \in Servers
      PROVE  worker[w] \in Workers /\ worker'[w] \in Workers /\ KeepsLease(worker[w], delivery)
  BY <1>1 DEF LeaseInv
<1>3. ASSUME UNCHANGED worker,
             \A d \in Deliveries : delivery[d].status = "pending" => delivery'[d] = delivery[d]
      PROVE  LeaseInv'
  <2>1. ASSUME NEW w \in Servers
        PROVE  KeepsLease(worker[w], delivery')
    <3>1. \A d \in HeldBy(worker[w]) : d \in Deliveries /\ delivery[d].status = "pending"
      BY <1>2 DEF KeepsLease, HeldBy, Workers
    <3> QED
      BY <1>2, <1>3, <3>1 DEF KeepsLease
  <2> QED
    BY <1>3, <2>1 DEF LeaseInv, DisjointBatches, Holding
<1>4. CASE EnqueueAny
  <2>1. PICK incidents \in SUBSET Incidents, kind \in AlertKinds : Enqueue(incidents, kind)
    BY <1>4 DEF EnqueueAny
  <2>2. \A d \in Deliveries : delivery[d].status = "pending" => delivery'[d] = delivery[d]
    BY <2>1 DEF Enqueue, Enqueued
  <2> QED
    BY <1>3, <2>1, <2>2 DEF Enqueue
<1>5. CASE UNCHANGED <<worker, delivery>>
  BY <1>3, <1>5
<1>6. ASSUME NEW w \in Servers, ReadContext(w)
      PROVE  LeaseInv'
  <2> DEFINE v == worker'[w]
  <2>1. /\ v.pc = "loop" /\ v.todo = worker[w].todo /\ v.sending = worker[w].sending
        /\ v.elapsed = worker[w].elapsed /\ v.delivered = worker[w].delivered /\ worker[w].pc = "context"
        /\ SetWorker(w, v) /\ UNCHANGED delivery
    BY <1>1, <1>6 DEF ReadContext, SetWorker, Workers
  <2> HIDE DEF v
  <2>2. v \in Workers
    BY <1>2 DEF v
  <2> QED
    BY <1>2, <2>1, <2>2, WorksOff DEF KeepsLease
<1>7. ASSUME NEW w \in Servers, NEW d \in Deliveries, Refuse(w, d)
      PROVE  LeaseInv'
  <2> DEFINE v == worker'[w]
  <2>1. /\ v.pc = "loop" /\ v.todo = worker[w].todo \ {d} /\ v.sending = worker[w].sending
        /\ v.elapsed = worker[w].elapsed /\ v.delivered = worker[w].delivered /\ worker[w].pc = "loop"
        /\ SetWorker(w, v)
    BY <1>1, <1>7 DEF Refuse, NextRow, SetWorker, Workers
  <2>2. d \in worker[w].todo /\ \A e \in Deliveries : e # d => delivery'[e] = delivery[e]
    BY <1>1, <1>7 DEF Refuse, NextRow
  <2> HIDE DEF v
  <2>3. v \in Workers
    BY <1>2 DEF v
  <2>4. d \in HeldBy(worker[w]) /\ d \notin HeldBy(v)
    BY <1>2, <2>1, <2>2 DEF HeldBy, KeepsLease
  <2> QED
    BY <1>2, <2>1, <2>2, <2>3, <2>4, WorksOff DEF KeepsLease
<1>8. ASSUME NEW w \in Servers, NEW d \in Deliveries, BeginSend(w, d)
      PROVE  LeaseInv'
  <2> DEFINE v == worker'[w]
  <2>1. /\ v.pc = "loop" /\ v.todo = worker[w].todo \ {d} /\ v.sending = {d}
        /\ v.elapsed = 0 /\ v.delivered = worker[w].delivered /\ worker[w].pc = "loop"
        /\ SetWorker(w, v) /\ UNCHANGED delivery
    BY <1>1, <1>8 DEF BeginSend, NextRow, SetWorker, Workers
  <2>2. d \in worker[w].todo /\ worker[w].sending = {} /\ worker[w].elapsed = 0
    BY <1>2, <1>8 DEF BeginSend, NextRow, KeepsLease
  <2> HIDE DEF v
  <2>3. v \in Workers
    BY <1>2 DEF v
  <2> QED
    BY <1>2, <2>1, <2>2, <2>3, WorksOff DEF KeepsLease
\* What the provider answered, or the pass forgot, of the send in flight.
<1>9. ASSUME NEW w \in Servers, NEW d \in worker[w].sending, NEW v \in Workers, SetWorker(w, v),
             v.pc = worker[w].pc, v.todo = worker[w].todo, v.sending = {}, v.elapsed = 0,
             v.delivered = worker[w].delivered \/ (v.delivered = worker[w].delivered \cup {d} /\ UNCHANGED delivery),
             \A e \in Deliveries : e # d => delivery'[e] = delivery[e]
      PROVE  LeaseInv'
  <2>1. worker[w].pc # "idle" /\ \A e \in worker[w].sending : e = d
    BY <1>2, <1>9 DEF KeepsLease, HeldBy
  <2>2. d \notin worker[w].delivered /\ d \notin worker[w].todo /\ d \in HeldBy(worker[w])
    BY <1>2 DEF KeepsLease, HeldBy
  <2>3. \A e \in Deliveries : e \in HeldBy(v) \/ e \notin HeldBy(worker[w]) => delivery'[e] = delivery[e]
    BY <1>9, <2>2 DEF HeldBy
  <2>4. v.pc = "count" \/ worker[w].pc # "count"
    BY <1>9
  <2>5. (v.todo \cup v.sending) \cap v.delivered = {}
    BY <1>2, <1>9, <2>2 DEF KeepsLease
  <2> QED
    BY <1>9, <2>1, <2>3, <2>4, <2>5, WorksOff
<1>10. ASSUME NEW w \in Servers, NEW d \in Deliveries, SendOk(w, d)
       PROVE  LeaseInv'
  <2> DEFINE v == worker'[w]
  <2>1. /\ v.pc = worker[w].pc /\ v.todo = worker[w].todo /\ v.sending = {}
        /\ v.elapsed = 0 /\ v.delivered = worker[w].delivered \cup {d}
        /\ SetWorker(w, v) /\ UNCHANGED delivery
    BY <1>1, <1>10 DEF SendOk, SetWorker, Workers
  <2>2. d \in worker[w].sending
    BY <1>10 DEF SendOk
  <2> HIDE DEF v
  <2>3. v \in Workers
    BY <1>2 DEF v
  <2> QED
    BY <1>9, <2>1, <2>2, <2>3
<1>11. ASSUME NEW w \in Servers, NEW d \in Deliveries, SendFails(w, d)
       PROVE  LeaseInv'
  <2> DEFINE v == worker'[w]
  <2>1. /\ v.pc = worker[w].pc /\ v.todo = worker[w].todo /\ v.sending = {}
        /\ v.elapsed = 0 /\ v.delivered = worker[w].delivered
        /\ SetWorker(w, v)
    BY <1>1, <1>11 DEF SendFails, SetWorker, Workers
  <2>2. d \in worker[w].sending /\ \A e \in Deliveries : e # d => delivery'[e] = delivery[e]
    BY <1>1, <1>11 DEF SendFails
  <2> HIDE DEF v
  <2>3. v \in Workers
    BY <1>2 DEF v
  <2> QED
    BY <1>9, <2>1, <2>2, <2>3
<1>12. ASSUME NEW w \in Servers, NEW d \in Deliveries, OutcomeUnrecorded(w, d)
       PROVE  LeaseInv'
  <2> DEFINE v == worker'[w]
  <2>1. /\ v.pc = worker[w].pc /\ v.todo = worker[w].todo \ {d} /\ v.sending = {}
        /\ v.elapsed = 0 /\ v.delivered = worker[w].delivered
        /\ SetWorker(w, v) /\ UNCHANGED delivery
    BY <1>1, <1>12 DEF OutcomeUnrecorded, SetWorker, Workers
  <2>2. worker[w].pc # "idle"
    BY <1>2, <1>12 DEF OutcomeUnrecorded, NextRow, KeepsLease, HeldBy
  <2> HIDE DEF v
  <2>3. v \in Workers
    BY <1>2 DEF v
  <2> QED
    BY <1>2, <2>1, <2>2, <2>3, WorksOff DEF KeepsLease
<1>13. ASSUME NEW w \in Servers, EndLoop(w), worker[w].delivered # {}
       PROVE  LeaseInv'
  <2> DEFINE v == worker'[w]
  <2>1. /\ v.pc = "mark" /\ v.todo = worker[w].todo /\ v.sending = worker[w].sending
        /\ v.elapsed = worker[w].elapsed /\ v.delivered = worker[w].delivered /\ worker[w].pc = "loop"
        /\ SetWorker(w, v) /\ UNCHANGED delivery
    BY <1>1, <1>13 DEF EndLoop, SetWorker, Workers
  <2> HIDE DEF v
  <2>2. v \in Workers
    BY <1>2 DEF v
  <2> QED
    BY <1>2, <2>1, <2>2, WorksOff DEF KeepsLease
<1>14. ASSUME NEW w \in Servers, MarkSent(w)
       PROVE  LeaseInv'
  <2> DEFINE v == worker'[w]
  <2>1. /\ v.pc = "count" /\ v.todo = worker[w].todo /\ v.sending = worker[w].sending
        /\ v.elapsed = worker[w].elapsed /\ v.delivered = worker[w].delivered /\ worker[w].pc = "mark"
        /\ SetWorker(w, v)
    BY <1>1, <1>14 DEF MarkSent, SetWorker, Workers
  <2>2. \A d \in Deliveries : d \notin worker[w].delivered => delivery'[d] = delivery[d]
    BY <1>14 DEF MarkSent
  <2> HIDE DEF v
  <2>3. v \in Workers
    BY <1>2 DEF v
  <2>4. \A d \in HeldBy(v) : d \notin worker[w].delivered
    BY <1>2, <2>1 DEF HeldBy, KeepsLease
  <2>5. worker[w].delivered \subseteq HeldBy(worker[w])
    BY <2>1 DEF HeldBy
  <2> QED
    BY <1>2, <2>1, <2>2, <2>3, <2>4, <2>5, WorksOff DEF KeepsLease
<1>15. ASSUME NEW w \in Servers, SetWorker(w, IdleWorker), UNCHANGED delivery
       PROVE  LeaseInv'
  BY <1>15, LetsGo
<1>16. ASSUME NEW w \in Servers, EndLoop(w), worker[w].delivered = {}
       PROVE  LeaseInv'
  BY <1>15, <1>16 DEF EndLoop
<1>17. ASSUME NEW w \in Servers, CountSent(w) \/ Crash(w)
       PROVE  LeaseInv'
  BY <1>15, <1>17 DEF CountSent, Crash
<1>18. ASSUME NEW ch \in Channels, SetEnabled(ch)
       PROVE  LeaseInv'
  BY <1>5, <1>18 DEF SetEnabled
<1> QED
  BY <1>4, <1>5, <1>6, <1>7, <1>8, <1>10, <1>11, <1>12, <1>13, <1>14, <1>16, <1>17, <1>18, ClaimsAlone, TicksAreInTime
  DEF QueueNext, DrainStep, Loss, queueVars

\* Statements write rows that are pending, which a settled one is not.
LEMMA SettledIsLeftAlone ==
    ASSUME QueueTypeOK, LeaseInv, [QueueNext]_queueVars
    PROVE  OutcomeIsFinal
<1> SUFFICES ASSUME NEW d \in Deliveries, delivery[d].status \in {"sent", "failed"}
             PROVE  delivery'[d].status = delivery[d].status
  BY DEF OutcomeIsFinal
<1>1. ASSUME NEW w \in Servers
      PROVE  d \notin HeldBy(worker[w])
  BY DEF LeaseInv, KeepsLease
<1>2. ASSUME NEW w \in Servers, Claim(w)
      PROVE  delivery'[d] = delivery[d]
  BY <1>2 DEF Claim, Claimable
<1>3. ASSUME NEW w \in Servers, NEW e \in Deliveries, Refuse(w, e) \/ SendFails(w, e)
      PROVE  delivery'[d] = delivery[d]
  <2>1. e # d
    BY <1>1, <1>3 DEF Refuse, NextRow, SendFails, HeldBy
  <2> QED
    BY <1>3, <2>1 DEF Refuse, SendFails, QueueTypeOK
<1>4. ASSUME NEW w \in Servers, MarkSent(w)
      PROVE  delivery'[d] = delivery[d]
  BY <1>1, <1>4 DEF MarkSent, HeldBy
<1>5. CASE EnqueueAny
  BY <1>5 DEF EnqueueAny, Enqueue, Enqueued
<1>6. CASE QueueClock
  BY <1>6 DEF QueueClock, QueueTypeOK, DeliveryRows
<1>7. CASE UNCHANGED delivery
  BY <1>7
<1> QED
  BY <1>2, <1>3, <1>4, <1>5, <1>6, <1>7
  DEF QueueNext, DrainStep, Loss, queueVars, SetEnabled, ReadContext, BeginSend, SendOk, EndLoop, CountSent,
      Crash, OutcomeUnrecorded

LEMMA LeaseInit == QueueInit => LeaseInv
<1>1. QueueInit => \A w \in Servers : worker[w] = IdleWorker
  BY DEF QueueInit
<1> QED
  BY <1>1, IdleKeepsLease DEF LeaseInv, DisjointBatches, Holding, IdleWorker

LEMMA LeaseInvariance ==
    QueueIsFinite /\ BatchesFit => (QueueSpec => [](QueueTypeOK /\ LeaseInv))
<1> SUFFICES ASSUME QueueIsFinite, BatchesFit
             PROVE  QueueSpec => [](QueueTypeOK /\ LeaseInv)
  OBVIOUS
<1>1. QueueInit => LeaseInv
  BY LeaseInit
<1>2. QueueTypeOK /\ QueueTypeOK' /\ LeaseInv /\ [QueueNext]_queueVars => LeaseInv'
  BY LeaseStep
<1>3. QueueSpec => []QueueTypeOK
  BY QueueTypeCorrect
<1> QED
  BY <1>1, <1>2, <1>3, PTL DEF QueueSpec

(***************************************************************************)
(* Any number of instances claim disjoint batches, as long as a whole      *)
(* batch fits in the lease: no row is in the hands of two passes           *)
(* (CLAIM_SQL).                                                            *)
(***************************************************************************)
THEOREM BatchesAreDisjoint ==
    QueueIsFinite /\ BatchesFit => (QueueSpec => []DisjointBatches)
<1>1. LeaseInv => DisjointBatches
  BY DEF LeaseInv
<1> QED
  BY <1>1, LeaseInvariance, PTL

(***************************************************************************)
(* And so sent and failed are final: no late statement of another pass     *)
(* reopens or rewrites an outcome (RETRY_SQL, MARK_SENT_SQL).              *)
(***************************************************************************)
THEOREM OutcomesStay ==
    QueueIsFinite /\ BatchesFit => (QueueSpec => [][OutcomeIsFinal]_queueVars)
<1>1. QueueTypeOK /\ LeaseInv /\ [QueueNext]_queueVars => [OutcomeIsFinal]_queueVars
  BY SettledIsLeftAlone
<1> QED
  BY <1>1, LeaseInvariance, PTL DEF QueueSpec

-----------------------------------------------------------------------------
(* The reporting counter.                                                  *)

\* What passes have delivered and not counted yet.
Uncounted(i) == {p \in Servers \X Deliveries : p[2] \in worker[p[1]].delivered /\ p[2][1] = i}

(***************************************************************************)
(* Whatever was counted, and whatever a pass will still count, is one of   *)
(* what providers were handed.                                             *)
(***************************************************************************)
CountersInv ==
    \A i \in Incidents :
        /\ IsFiniteSet(Handings(i))
        /\ counted[i] + Cardinality(Uncounted(i)) <= Cardinality(Handings(i))

LEMMA UncountedIsFinite ==
    ASSUME QueueIsFinite, IsFiniteSet(Servers), NEW i
    PROVE  \A S \in SUBSET Uncounted(i) : IsFiniteSet(S) /\ Cardinality(S) \in Nat
<1>1. IsFiniteSet(Deliveries)
  BY DeliveriesAreFinite
<1>2. IsFiniteSet(Servers \X Deliveries)
  BY <1>1, FS_Product
<1> QED
  BY <1>2, FS_Subset, FS_CardinalityType DEF Uncounted

\* Nothing more is counted, or to be counted, than before.
LEMMA NothingCounted ==
    ASSUME QueueIsFinite, IsFiniteSet(Servers), QueueTypeOK, CountersInv, NEW i \in Incidents,
           counted'[i] = counted[i], Uncounted(i)' \subseteq Uncounted(i),
           Handings(i)' = Handings(i) \/ \E h : Handings(i)' = Handings(i) \cup {h}
    PROVE  /\ IsFiniteSet(Handings(i)')
           /\ counted'[i] + Cardinality(Uncounted(i)') <= Cardinality(Handings(i)')
<1>1. /\ IsFiniteSet(Handings(i)) /\ Cardinality(Handings(i)) \in Nat /\ counted[i] \in Nat
      /\ counted[i] + Cardinality(Uncounted(i)) <= Cardinality(Handings(i))
  BY FS_CardinalityType DEF CountersInv, QueueTypeOK
<1>2. /\ IsFiniteSet(Handings(i)') /\ Cardinality(Handings(i)') \in Nat
      /\ Cardinality(Handings(i)) <= Cardinality(Handings(i)')
  <2>1. IsFiniteSet(Handings(i)') /\ Handings(i) \in SUBSET Handings(i)'
    BY <1>1, FS_AddElement
  <2> QED
    BY <2>1, FS_Subset, FS_CardinalityType
<1>3. /\ Cardinality(Uncounted(i)') <= Cardinality(Uncounted(i))
      /\ Cardinality(Uncounted(i)) \in Nat /\ Cardinality(Uncounted(i)') \in Nat
  BY UncountedIsFinite, FS_Subset
<1> QED
  BY <1>1, <1>2, <1>3

\* One more is handed over, and one more to be counted.
LEMMA OneMoreHanded ==
    ASSUME QueueIsFinite, IsFiniteSet(Servers), QueueTypeOK, CountersInv, NEW i \in Incidents,
           counted'[i] = counted[i],
           NEW p, Uncounted(i)' \subseteq Uncounted(i) \cup {p},
           NEW h, h \notin Handings(i), Handings(i)' = Handings(i) \cup {h}
    PROVE  /\ IsFiniteSet(Handings(i)')
           /\ counted'[i] + Cardinality(Uncounted(i)') <= Cardinality(Handings(i)')
<1>1. /\ IsFiniteSet(Handings(i)) /\ Cardinality(Handings(i)) \in Nat /\ counted[i] \in Nat
      /\ counted[i] + Cardinality(Uncounted(i)) <= Cardinality(Handings(i))
  BY FS_CardinalityType DEF CountersInv, QueueTypeOK
<1>2. IsFiniteSet(Handings(i)') /\ Cardinality(Handings(i)') = Cardinality(Handings(i)) + 1
  BY <1>1, FS_AddElement
<1> DEFINE U == Uncounted(i)
           V == Uncounted(i)'
<1>3. IsFiniteSet(U) /\ Cardinality(U) \in Nat
  BY UncountedIsFinite
<1>4. V \in SUBSET (U \cup {p})
  OBVIOUS
<1> HIDE DEF U, V
<1>5. IsFiniteSet(U \cup {p}) /\ Cardinality(U \cup {p}) <= Cardinality(U) + 1
  <2>1. /\ IsFiniteSet(U \cup {p})
        /\ Cardinality(U \cup {p}) = IF p \in U THEN Cardinality(U) ELSE Cardinality(U) + 1
    BY <1>3, FS_AddElement
  <2> QED
    BY <1>3, <2>1
<1>6. Cardinality(V) <= Cardinality(U \cup {p}) /\ Cardinality(V) \in Nat /\ Cardinality(U \cup {p}) \in Nat
  BY <1>4, <1>5, FS_Subset, FS_CardinalityType
<1>7. Cardinality(V) <= Cardinality(U) + 1
  BY <1>3, <1>5, <1>6
<1>8. counted[i] + Cardinality(U) <= Cardinality(Handings(i))
  BY <1>1 DEF U
<1> QED
  BY <1>1, <1>2, <1>3, <1>6, <1>7, <1>8 DEF V

\* A pass counts what it delivered.
LEMMA OnePassCounts ==
    ASSUME QueueIsFinite, IsFiniteSet(Servers), QueueTypeOK, CountersInv, NEW i \in Incidents,
           NEW w \in Servers, CountSent(w)
    PROVE  counted'[i] + Cardinality(Uncounted(i)') <= Cardinality(Handings(i))
<1> DEFINE own == {d \in worker[w].delivered : d[1] = i}
           U == Uncounted(i)
           V == Uncounted(i)'
<1>1. counted'[i] = counted[i] + Cardinality(own)
  BY DEF CountSent
<1>2. own \in SUBSET Deliveries
  BY DEF QueueTypeOK, Workers
<1>3. \A u \in Servers : worker'[u].delivered = IF u = w THEN {} ELSE worker[u].delivered
  BY DEF CountSent, SetWorker, QueueTypeOK, IdleWorker
<1>4. U = V \cup ({w} \X own) /\ V \cap ({w} \X own) = {}
  <2>1. \A p \in Servers \X Deliveries : p \in {w} \X own <=> p[1] = w /\ p[2] \in worker[w].delivered /\ p[2][1] = i
    BY <1>2
  <2>2. {w} \X own \subseteq Servers \X Deliveries
    BY <1>2
  <2> HIDE DEF own
  <2>3. \A p \in Servers \X Deliveries :
            /\ p \in U <=> p[2] \in worker[p[1]].delivered /\ p[2][1] = i
            /\ p \in V <=> p[2] \in worker'[p[1]].delivered /\ p[2][1] = i
    BY DEF Uncounted
  <2>4. \A p \in Servers \X Deliveries : p[1] \in Servers
    OBVIOUS
  <2>5. U \subseteq Servers \X Deliveries /\ V \subseteq Servers \X Deliveries
    BY DEF Uncounted
  <2> HIDE DEF U, V
  <2>6. \A p \in Servers \X Deliveries : /\ p \in U <=> p \in V \/ p \in {w} \X own
                                         /\ ~(p \in V /\ p \in {w} \X own)
    BY <1>3, <2>1, <2>3, <2>4
  <2> QED
    BY <2>2, <2>5, <2>6
<1>5. V \in SUBSET U /\ {w} \X own \in SUBSET U
  BY <1>4
<1>6. IsFiniteSet(V) /\ IsFiniteSet({w} \X own) /\ Cardinality(V) \in Nat
  BY <1>5, UncountedIsFinite
<1>7. IsFiniteSet(own) /\ Cardinality(own) \in Nat
  BY <1>2, DeliveriesAreFinite
<1> HIDE DEF own, U, V
<1>8. Cardinality({w} \X own) = Cardinality(own)
  <2>1. Cardinality({w} \X own) = Cardinality({w}) * Cardinality(own)
    BY <1>7, FS_Singleton, FS_Product
  <2>2. Cardinality({w}) = 1
    BY FS_Singleton
  <2>3. \A n \in Nat : 1 * n = n
    OBVIOUS
  <2> QED
    BY <1>7, <2>1, <2>2, <2>3
<1>9. Cardinality(U) = Cardinality(V) + Cardinality(own)
  <2>1. Cardinality(V \cup ({w} \X own)) =
          Cardinality(V) + Cardinality({w} \X own) - Cardinality(V \cap ({w} \X own))
    BY <1>6, FS_Union
  <2>2. Cardinality(V \cap ({w} \X own)) = 0
    BY <1>4, FS_EmptySet
  <2> QED
    BY <1>4, <1>6, <1>7, <1>8, <2>1, <2>2
<1>10. counted[i] \in Nat /\ counted[i] + Cardinality(U) <= Cardinality(Handings(i))
  BY DEF CountersInv, QueueTypeOK, U
<1>11. Cardinality(Handings(i)) \in Nat
  BY FS_CardinalityType DEF CountersInv
<1>12. counted'[i] + Cardinality(V) <= Cardinality(Handings(i))
  BY <1>1, <1>6, <1>7, <1>9, <1>10, <1>11
<1> QED
  BY <1>12 DEF V

LEMMA CountersStep ==
    ASSUME QueueIsFinite, IsFiniteSet(Servers), QueueTypeOK, QueueTypeOK', CountersInv, [QueueNext]_queueVars
    PROVE  CountersInv'
<1>1. /\ told \in [Deliveries -> Nat] /\ told' \in [Deliveries -> Nat]
      /\ worker \in [Servers -> Workers]
  BY DEF QueueTypeOK
<1>2. ASSUME UNCHANGED told, NEW i
      PROVE  Handings(i)' = Handings(i)
  BY <1>2 DEF Handings
\* One delivery is handed over once more.
<1>3. ASSUME NEW d \in Deliveries, told' = [told EXCEPT ![d] = @ + 1], NEW i \in Incidents
      PROVE  /\ d[1] # i => Handings(i)' = Handings(i)
             /\ d[1] = i => /\ <<d, told[d] + 1>> \notin Handings(i)
                            /\ Handings(i)' = Handings(i) \cup {<<d, told[d] + 1>>}
  <2> DEFINE Of(h, t) == \E e \in Deliveries : e[1] = i /\ \E n \in 1 .. t[e] : h = <<e, n>>
  <2>1. \A h : (h \in Handings(i) <=> Of(h, told)) /\ (h \in Handings(i)' <=> Of(h, told'))
    BY DEF Handings
  <2>2. \A e \in Deliveries : told[e] \in Nat /\ told'[e] = IF e = d THEN told[e] + 1 ELSE told[e]
    BY <1>1, <1>3
  <2>3. \A e \in Deliveries : e # d => 1 .. told'[e] = 1 .. told[e]
    BY <2>2
  <2>4. 1 .. told'[d] = 1 .. told[d] \cup {told[d] + 1} /\ told[d] + 1 \notin 1 .. told[d]
    BY <2>2
  <2>5. \A h : Of(h, told') <=> Of(h, told) \/ (d[1] = i /\ h = <<d, told[d] + 1>>)
    BY <2>3, <2>4
  <2>6. ~Of(<<d, told[d] + 1>>, told)
    BY <2>4
  <2> HIDE DEF Of
  <2> QED
    BY <2>1, <2>5, <2>6
<1>4. ASSUME \A w \in Servers : worker'[w].delivered \subseteq worker[w].delivered, NEW i
      PROVE  Uncounted(i)' \subseteq Uncounted(i)
  BY <1>4 DEF Uncounted
<1>5. ASSUME UNCHANGED <<told, counted>>, \A w \in Servers : worker'[w].delivered \subseteq worker[w].delivered
      PROVE  CountersInv'
  BY <1>2, <1>4, <1>5, NothingCounted DEF CountersInv
<1>6. ASSUME NEW w \in Servers, NEW v, SetWorker(w, v)
      PROVE  worker'[w] = v /\ \A u \in Servers : u # w => worker'[u] = worker[u]
  BY <1>1, <1>6 DEF SetWorker
<1>7. ASSUME NEW w \in Servers,
             Claim(w) \/ ReadContext(w) \/ EndLoop(w) \/ MarkSent(w) \/ Crash(w)
      PROVE  CountersInv'
  <2>1. /\ worker'[w].delivered \subseteq worker[w].delivered
        /\ \A u \in Servers : u # w => worker'[u] = worker[u]
    <3>1. worker[w] \in Workers
      BY <1>1
    <3>2. CASE Claim(w)
      <4>1. PICK batch : SetWorker(w, [IdleWorker EXCEPT !.pc = "context", !.todo = batch])
        BY <3>2 DEF Claim
      <4>2. [IdleWorker EXCEPT !.pc = "context", !.todo = batch].delivered = {}
        BY DEF IdleWorker
      <4> QED
        BY Zenon, <1>6, <4>1, <4>2
    <3>3. CASE ReadContext(w)
      <4>1. PICK s : SetWorker(w, [worker[w] EXCEPT !.pc = "loop", !.sentLastHour = s])
        BY Zenon, <3>3 DEF ReadContext
      <4>2. [worker[w] EXCEPT !.pc = "loop", !.sentLastHour = s].delivered = worker[w].delivered
        BY <3>1 DEF Workers
      <4> QED
        BY Zenon, <1>6, <4>1, <4>2
    <3>4. CASE EndLoop(w)
      <4>1. SetWorker(w, IF worker[w].delivered = {} THEN IdleWorker ELSE [worker[w] EXCEPT !.pc = "mark"])
        BY <3>4 DEF EndLoop
      <4> QED
        BY <1>6, <3>1, <4>1 DEF IdleWorker, Workers
    <3>5. CASE MarkSent(w)
      <4>1. SetWorker(w, [worker[w] EXCEPT !.pc = "count"])
        BY <3>5 DEF MarkSent
      <4> QED
        BY <1>6, <3>1, <4>1 DEF Workers
    <3>6. CASE Crash(w)
      BY <1>6, <3>6 DEF Crash, IdleWorker
    <3> QED
      BY <1>7, <3>2, <3>3, <3>4, <3>5, <3>6
  <2>2. UNCHANGED <<told, counted>>
    BY <1>7 DEF Claim, ReadContext, EndLoop, MarkSent, Crash
  <2> QED
    BY <1>5, <2>1, <2>2
<1>8. ASSUME NEW w \in Servers, NEW d \in Deliveries,
             SetWorker(w, [worker[w] EXCEPT !.todo = @ \ {d}])
             \/ SetWorker(w, [worker[w] EXCEPT !.todo = @ \ {d}, !.sending = {d}, !.elapsed = 0])
             \/ SetWorker(w, [worker[w] EXCEPT !.todo = @ \ {d}, !.sending = {}, !.elapsed = 0])
             \/ SetWorker(w, [worker[w] EXCEPT !.sending = {}, !.elapsed = 0])
      PROVE  \A u \in Servers : worker'[u].delivered = worker[u].delivered
  <2>1. worker[w] \in Workers
    BY <1>1
  <2>2. PICK t, g, n : SetWorker(w, [worker[w] EXCEPT !.todo = t, !.sending = g, !.elapsed = n])
    <3>1. /\ [worker[w] EXCEPT !.todo = @ \ {d}]
               = [worker[w] EXCEPT !.todo = @ \ {d}, !.sending = worker[w].sending, !.elapsed = worker[w].elapsed]
          /\ [worker[w] EXCEPT !.sending = {}, !.elapsed = 0]
               = [worker[w] EXCEPT !.todo = worker[w].todo, !.sending = {}, !.elapsed = 0]
      BY <2>1 DEF Workers
    <3>2. ASSUME NEW t, NEW g, NEW n,
                 SetWorker(w, [worker[w] EXCEPT !.todo = t, !.sending = g, !.elapsed = n])
          PROVE  \E x, y, z : SetWorker(w, [worker[w] EXCEPT !.todo = x, !.sending = y, !.elapsed = z])
      BY <3>2
    <3>3. CASE SetWorker(w, [worker[w] EXCEPT !.todo = @ \ {d}])
      <4>1. SetWorker(w, [worker[w] EXCEPT !.todo = @ \ {d}, !.sending = worker[w].sending,
                                           !.elapsed = worker[w].elapsed])
        BY Zenon, <3>1, <3>3
      <4> QED
        BY Zenon, <3>2, <4>1
    <3>4. CASE SetWorker(w, [worker[w] EXCEPT !.todo = @ \ {d}, !.sending = {d}, !.elapsed = 0])
      BY Zenon, <3>2, <3>4
    <3>5. CASE SetWorker(w, [worker[w] EXCEPT !.todo = @ \ {d}, !.sending = {}, !.elapsed = 0])
      BY Zenon, <3>2, <3>5
    <3>6. CASE SetWorker(w, [worker[w] EXCEPT !.sending = {}, !.elapsed = 0])
      BY Zenon, <3>1, <3>2, <3>6
    <3> QED
      BY Zenon, <1>8, <3>3, <3>4, <3>5, <3>6
  <2>3. [worker[w] EXCEPT !.todo = t, !.sending = g, !.elapsed = n].delivered = worker[w].delivered
    BY <2>1 DEF Workers
  <2> QED
    BY <1>6, <2>2, <2>3
<1>14. ASSUME NEW w \in Servers, NEW d \in Deliveries,
             Refuse(w, d) \/ BeginSend(w, d) \/ OutcomeUnrecorded(w, d)
      PROVE  CountersInv'
  <2>1. SetWorker(w, [worker[w] EXCEPT !.todo = @ \ {d}])
        \/ SetWorker(w, [worker[w] EXCEPT !.todo = @ \ {d}, !.sending = {d}, !.elapsed = 0])
        \/ SetWorker(w, [worker[w] EXCEPT !.todo = @ \ {d}, !.sending = {}, !.elapsed = 0])
    BY <1>14 DEF Refuse, BeginSend, OutcomeUnrecorded
  <2>2. UNCHANGED <<told, counted>>
    BY <1>14 DEF Refuse, BeginSend, OutcomeUnrecorded
  <2> QED
    BY <1>5, <1>8, <2>1, <2>2
<1>9. ASSUME NEW w \in Servers, NEW d \in Deliveries, SendFails(w, d)
      PROVE  CountersInv'
  <2>1. SetWorker(w, [worker[w] EXCEPT !.sending = {}, !.elapsed = 0])
    BY <1>9 DEF SendFails
  <2>2. \A u \in Servers : worker'[u].delivered = worker[u].delivered
    BY <1>8, <2>1
  <2>3. \A i \in Incidents : Handings(i)' = Handings(i) \/ \E h : Handings(i)' = Handings(i) \cup {h}
    BY <1>2, <1>3, <1>9 DEF SendFails
  <2>4. UNCHANGED counted
    BY <1>9 DEF SendFails
  <2> QED
    BY <1>4, <2>2, <2>3, <2>4, NothingCounted DEF CountersInv
<1>10. ASSUME NEW w \in Servers, NEW d \in Deliveries, SendOk(w, d)
       PROVE  CountersInv'
  <2>1. /\ told' = [told EXCEPT ![d] = @ + 1] /\ UNCHANGED counted
        /\ \A u \in Servers : worker'[u].delivered = IF u = w THEN worker[u].delivered \cup {d}
                                                     ELSE worker[u].delivered
    BY <1>1, <1>10 DEF SendOk, SetWorker, Workers
  <2>3. \A p \in Servers \X Deliveries : p = <<p[1], p[2]>> /\ p[1] \in Servers
    OBVIOUS
  <2>2. ASSUME NEW i \in Incidents
        PROVE  /\ IsFiniteSet(Handings(i)')
               /\ counted'[i] + Cardinality(Uncounted(i)') <= Cardinality(Handings(i)')
    <3>1. CASE d[1] = i
      <4>1. \A p \in Servers \X Deliveries :
              p[2] \in worker'[p[1]].delivered => p[2] \in worker[p[1]].delivered \/ p = <<w, d>>
        BY <2>1, <2>3
      <4>2. Uncounted(i)' \subseteq Uncounted(i) \cup {<<w, d>>}
        BY <4>1 DEF Uncounted
      <4> QED
        BY <1>3, <2>1, <3>1, <4>2, OneMoreHanded
    <3>2. CASE d[1] # i
      <4>1. \A p \in Servers \X Deliveries :
              p[2] \in worker'[p[1]].delivered => p[2] \in worker[p[1]].delivered \/ p = <<w, d>>
        BY <2>1, <2>3
      <4>2. Uncounted(i)' \subseteq Uncounted(i)
        BY <3>2, <4>1 DEF Uncounted
      <4> QED
        BY <1>3, <2>1, <3>2, <4>2, NothingCounted
    <3> QED
      BY <3>1, <3>2
  <2> QED
    BY <2>2 DEF CountersInv
<1>11. ASSUME NEW w \in Servers, CountSent(w)
       PROVE  CountersInv'
  <2>1. \A i \in Incidents : Handings(i)' = Handings(i)
    BY <1>2, <1>11 DEF CountSent
  <2> QED
    BY <1>11, <2>1, OnePassCounts DEF CountersInv
<1>12. CASE QueueClock
  <2>1. \A w \in Servers : worker'[w].delivered = worker[w].delivered
    BY <1>1, <1>12 DEF QueueClock, Workers
  <2> QED
    BY <1>5, <1>12, <2>1 DEF QueueClock
<1>13. CASE UNCHANGED <<told, counted, worker>>
  BY <1>5, <1>13
<1> QED
  BY <1>7, <1>9, <1>10, <1>11, <1>12, <1>13, <1>14
  DEF QueueNext, EnqueueAny, Enqueue, SetEnabled, DrainStep, Loss, queueVars

LEMMA CountersInit == QueueInit => CountersInv
<1> SUFFICES ASSUME QueueInit, NEW i \in Incidents
             PROVE  /\ IsFiniteSet(Handings(i))
                    /\ counted[i] + Cardinality(Uncounted(i)) <= Cardinality(Handings(i))
  BY DEF CountersInv
<1>1. Handings(i) = {}
  BY DEF QueueInit, Handings
<1>2. Uncounted(i) = {}
  BY DEF QueueInit, Uncounted, IdleWorker
<1> QED
  BY <1>1, <1>2, FS_EmptySet DEF QueueInit

LEMMA CountersAreTrue ==
    ASSUME QueueIsFinite, IsFiniteSet(Servers), QueueTypeOK, CountersInv
    PROVE  CounterNeverInflated
<1> SUFFICES ASSUME NEW i \in Incidents
             PROVE  counted[i] <= Cardinality(Handings(i))
  BY DEF CounterNeverInflated
<1>1. /\ counted[i] \in Nat /\ Cardinality(Handings(i)) \in Nat
      /\ counted[i] + Cardinality(Uncounted(i)) <= Cardinality(Handings(i))
  BY FS_CardinalityType DEF QueueTypeOK, CountersInv
<1>2. Cardinality(Uncounted(i)) \in Nat
  BY UncountedIsFinite
<1> QED
  BY <1>1, <1>2

(***************************************************************************)
(* For any finite set of instances, an incident's counter of notifications *)
(* never exceeds what providers were handed for it, though the count is a  *)
(* statement of its own and passes overlap and die (COUNT_SENT_SQL).       *)
(***************************************************************************)
THEOREM CountersStayTrue ==
    QueueIsFinite /\ IsFiniteSet(Servers) => (QueueSpec => []CounterNeverInflated)
<1> SUFFICES ASSUME QueueIsFinite, IsFiniteSet(Servers)
             PROVE  QueueSpec => []CounterNeverInflated
  OBVIOUS
<1>1. QueueInit => CountersInv
  BY CountersInit
<1>2. QueueTypeOK /\ QueueTypeOK' /\ CountersInv /\ [QueueNext]_queueVars => CountersInv'
  BY CountersStep
<1>3. QueueTypeOK /\ CountersInv => CounterNeverInflated
  BY CountersAreTrue
<1>4. QueueSpec => []QueueTypeOK
  BY QueueTypeCorrect
<1> QED
  BY <1>1, <1>2, <1>3, <1>4, PTL DEF QueueSpec

=============================================================================
