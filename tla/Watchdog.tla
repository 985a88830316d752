------------------------------- MODULE Watchdog --------------------------------
(***************************************************************************)
(* A loop of the server, and who watches it: the runner of its ticks       *)
(* (interval-runner.ts), callers that want a tick of their own             *)
(* (NotificationQueueService.enqueue and flush), the health endpoint and   *)
(* the heartbeat sent to a third party (health.controller.ts,              *)
(* outbound-heartbeat.service.ts). One beat of the clock is one interval   *)
(* of the loop; a tick may take for ever.                                  *)
(***************************************************************************)
EXTENDS Integers, FiniteSets

CONSTANTS
    Flushers,     \* callers of flush()
    MaxTicks,     \* bound
    MaxBeats,     \* bound
    FetchBeats,   \* how long a request to the third party takes at most
    FirstTickEnds \* whether the first tick completes within six intervals

ASSUME WatchdogAssumption == MaxTicks \in Nat /\ MaxBeats \in Nat /\ FetchBeats \in Nat /\ FirstTickEnds \in BOOLEAN

VARIABLES
    beat,         \* now
    timerOn,
    current,      \* the tick in flight, 0 when none
    flying,       \* the ticks that have begun and not ended
    begun,        \* how many ticks there were
    completed,    \* how many ended well
    lastSuccess,  \* when the last of those did
    flusher,      \* what each caller is doing
    fetching,     \* the request to the third party
    heard         \* how old the last success was when the third party last heard

watchdogVars == <<beat, timerOn, current, flying, begun, completed, lastSuccess, flusher, fetching, heard>>

NotYet == -1
NoFetch == [since |-> NotYet, success |-> NotYet]
IdleFlusher == [pc |-> "idle", calledAt |-> 0, tick |-> 0]

WatchdogTypeOK ==
    /\ beat \in 0..MaxBeats /\ timerOn \in BOOLEAN
    /\ begun \in 0..MaxTicks /\ current \in 0..begun /\ flying \subseteq 1..begun
    /\ completed \in 0..begun /\ lastSuccess \in NotYet..MaxBeats
    /\ flusher \in [Flushers -> [pc : {"idle", "settling", "ready", "joined", "done"}, calledAt : 0..MaxTicks, tick : 0..MaxTicks]]
    /\ fetching.since \in NotYet..MaxBeats
    /\ heard \in NotYet..MaxBeats

WatchdogInit ==
    /\ beat = 0 /\ timerOn = TRUE /\ current = 0 /\ flying = {} /\ begun = 0
    /\ completed = 0 /\ lastSuccess = NotYet
    /\ flusher = [d \in Flushers |-> IdleFlusher]
    /\ fetching = NoFetch /\ heard = NotYet

(***************************************************************************)
(* IntervalRunner.                                                         *)
(***************************************************************************)
\* Mutant: it does not join.
JoinedNever == FALSE

Joined == current # 0

\* run: joins the tick in flight, or starts one.
Run ==
    IF Joined THEN UNCHANGED <<current, flying, begun>>
    ELSE /\ begun < MaxTicks
         /\ begun' = begun + 1 /\ current' = begun' /\ flying' = flying \cup {begun'}

\* setInterval, and enqueue, which does not wait.
TimerFires ==
    /\ timerOn /\ ~Joined /\ Run
    /\ UNCHANGED <<beat, timerOn, completed, lastSuccess, flusher, fetching, heard>>

\* execute: the loop survives what its task throws.
TickEnds(t, well) ==
    /\ t \in flying
    /\ flying' = flying \ {t} /\ current' = 0
    /\ completed' = IF well THEN completed + 1 ELSE completed
    /\ lastSuccess' = IF well THEN beat ELSE lastSuccess
    /\ flusher' = [d \in Flushers |-> IF flusher[d].pc = "joined" /\ flusher[d].tick = t
                                      THEN [flusher[d] EXCEPT !.pc = "done"] ELSE flusher[d]]
    /\ UNCHANGED <<beat, timerOn, begun, fetching, heard>>

\* onModuleDestroy
StopTimer ==
    /\ timerOn /\ timerOn' = FALSE
    /\ UNCHANGED <<beat, current, flying, begun, completed, lastSuccess, flusher, fetching, heard>>

(***************************************************************************)
(* NotificationQueueService.flush: settle, and then a tick.                *)
(***************************************************************************)
CallFlush(d) ==
    /\ flusher[d].pc = "idle"
    /\ flusher' = [flusher EXCEPT ![d] = [pc |-> "settling", calledAt |-> begun, tick |-> 0]]
    /\ UNCHANGED <<beat, timerOn, current, flying, begun, completed, lastSuccess, fetching, heard>>

\* Mutant: it does not wait for the tick in flight.
SettledAtOnce == TRUE

Settled == current = 0

SettleReturns(d) ==
    /\ flusher[d].pc = "settling" /\ Settled
    /\ flusher' = [flusher EXCEPT ![d].pc = "ready"]
    /\ UNCHANGED <<beat, timerOn, current, flying, begun, completed, lastSuccess, fetching, heard>>

\* Another tick may have begun in between, which it joins.
Flush(d) ==
    /\ flusher[d].pc = "ready"
    /\ Run
    /\ flusher' = [flusher EXCEPT ![d].pc = "joined", ![d].tick = current']
    /\ UNCHANGED <<beat, timerOn, completed, lastSuccess, fetching, heard>>

(***************************************************************************)
(* The health endpoint, and the heartbeat to a third party.                *)
(***************************************************************************)
\* HealthController.health
DetectionHealthy == lastSuccess # NotYet /\ beat - lastSuccess < 6

Healthy(databaseUp) == databaseUp /\ (DetectionHealthy \/ completed = 0)

\* Mutant: any tick ever.
NeverStale == lastSuccess # NotYet

FreshEnough == lastSuccess # NotYet /\ beat - lastSuccess <= 3

\* OutboundHeartbeatService.beat: withheld, or begun.
SendBeat ==
    /\ timerOn /\ fetching = NoFetch /\ FreshEnough
    /\ fetching' = [since |-> beat, success |-> lastSuccess]
    /\ UNCHANGED <<beat, timerOn, current, flying, begun, completed, lastSuccess, flusher, heard>>

\* It arrives, or it fails or is aborted.
BeatEnds(arrives) ==
    /\ fetching # NoFetch /\ fetching' = NoFetch
    /\ heard' = IF arrives THEN beat - fetching.success ELSE heard
    /\ UNCHANGED <<beat, timerOn, current, flying, begun, completed, lastSuccess, flusher>>

BeatPasses ==
    /\ beat < MaxBeats /\ beat' = beat + 1
    /\ fetching # NoFetch => beat - fetching.since < FetchBeats
    /\ FirstTickEnds => completed > 0 \/ beat < 5
    /\ UNCHANGED <<timerOn, current, flying, begun, completed, lastSuccess, flusher, fetching, heard>>

WatchdogNext ==
    \/ TimerFires \/ StopTimer \/ SendBeat \/ BeatPasses
    \/ \E t \in flying, well \in BOOLEAN : TickEnds(t, well)
    \/ \E d \in Flushers : CallFlush(d) \/ SettleReturns(d) \/ Flush(d)
    \/ \E arrives \in BOOLEAN : BeatEnds(arrives)

WatchdogSpec == WatchdogInit /\ [][WatchdogNext]_watchdogVars

(***************************************************************************)
(* Properties.                                                             *)
(***************************************************************************)
\* IntervalRunner: "a slow tick is skipped rather than queued", however many want one.
TicksDoNotOverlap == Cardinality(flying) <= 1

\* NotificationQueueService.flush: what it waited for is a tick that began after the
\* call, so that it saw every row that was there.
FlushSeesWhatWasThere == \A d \in Flushers : flusher[d].pc = "done" => flusher[d].tick > flusher[d].calledAt

\* OutboundHeartbeatService: "only while the detection loop is provably alive". What the
\* third party hears, however long it was on its way, is of a loop that completed a tick.
OutsideIsNotMisled == heard <= 3 + FetchBeats

\* HealthController: "a stalled detection loop is a failed instance even though HTTP still
\* works: reporting healthy here would hide the only outage that really matters". Not so
\* for a loop that never completed its first tick.
StalledLoopIsReported ==
    beat >= 6 /\ beat - (IF lastSuccess = NotYet THEN 0 ELSE lastSuccess) >= 6 => ~Healthy(TRUE)
===============================================================================
