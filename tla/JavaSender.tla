------------------------------ MODULE JavaSender ------------------------------
(***************************************************************************)
(* HeartbeatSender of the Spring Boot starter: every run of a declared job *)
(* hands its heartbeats to a thread pool. The pool is the JDK's, modelled  *)
(* from how it is set up: one worker, a bounded queue, a second worker     *)
(* when the queue is full, and a handler for what neither takes.           *)
(***************************************************************************)
EXTENDS Integers, Sequences, FiniteSets

CONSTANTS
    JobThreads,     \* threads of the application's scheduler
    QueueCapacity,
    MaxHeartbeats   \* bound

ASSUME SenderAssumption ==
    QueueCapacity \in Nat \ {0} /\ MaxHeartbeats \in Nat /\ IsFiniteSet(JobThreads)

VARIABLES
    run,    \* what each job thread is doing
    pool,   \* the executor: its state, queue and workers
    tally   \* heartbeats made, and those counted as sent, failed and dropped

senderVars == <<run, pool, tally>>

Workers == 1..2
Heartbeats == 1..MaxHeartbeats
Free == 0
Retired == -1

SenderTypeOK ==
    /\ run \in [JobThreads -> [pc : {"idle", "runs", "execute", "poll", "offer"}, over : BOOLEAN,
                               heartbeat : Heartbeats \cup {0}]]
    /\ pool.state \in {"running", "shutdown", "stopped"}
    /\ pool.queue \in Seq(Heartbeats) /\ Len(pool.queue) <= QueueCapacity
    /\ pool.worker \in [Workers -> Heartbeats \cup {Free, Retired}]
    /\ tally.made \in 0..MaxHeartbeats
    /\ tally.sent + tally.failed \in 0..tally.made
    /\ tally.dropped \in 0..2 * MaxHeartbeats

SenderInit ==
    /\ run = [t \in JobThreads |-> [pc |-> "idle", over |-> FALSE, heartbeat |-> 0]]
    /\ pool = [state |-> "running", queue |-> <<>>, worker |-> [w \in Workers |-> Retired]]
    /\ tally = [made |-> 0, sent |-> 0, failed |-> 0, dropped |-> 0]

(***************************************************************************)
(* HeartbeatMethodInterceptor.invoke, SilenceWatchJobListener.             *)
(***************************************************************************)
Submitting(t) == [pc |-> "execute", over |-> run[t].pc = "runs", heartbeat |-> tally.made + 1]

\* The run begins: a job without a key runs as if nothing were there.
Begin(t) ==
    /\ run[t].pc = "idle" /\ tally.made < MaxHeartbeats
    /\ run' = [run EXCEPT ![t] = Submitting(t)]
    /\ tally' = [tally EXCEPT !.made = @ + 1]
    /\ UNCHANGED pool

\* It ends, well or not.
End(t) ==
    /\ run[t].pc = "runs" /\ tally.made < MaxHeartbeats
    /\ run' = [run EXCEPT ![t] = Submitting(t)]
    /\ tally' = [tally EXCEPT !.made = @ + 1]
    /\ UNCHANGED pool

(***************************************************************************)
(* HeartbeatSender.                                                        *)
(***************************************************************************)
Alive == {w \in Workers : pool.worker[w] # Retired}

Proceed(t) == run' = [run EXCEPT ![t] = [pc |-> IF run[t].over THEN "idle" ELSE "runs", over |-> FALSE, heartbeat |-> 0]]

\* ThreadPoolExecutor.execute: a first worker, the queue, a second worker, the handler.
Execute(t) ==
    LET heartbeat == run[t].heartbeat
        hire == \E w \in Workers \ Alive :
                    /\ \A v \in Workers \ Alive : w <= v
                    /\ pool' = [pool EXCEPT !.worker[w] = heartbeat]
    IN
    /\ run[t].pc = "execute"
    /\ \/ pool.state = "running" /\ Alive = {} /\ hire /\ Proceed(t)
       \/ /\ pool.state = "running" /\ Alive # {} /\ Len(pool.queue) < QueueCapacity
          /\ pool' = [pool EXCEPT !.queue = Append(@, heartbeat)]
          /\ Proceed(t)
       \/ /\ pool.state = "running" /\ Cardinality(Alive) = 1 /\ Len(pool.queue) = QueueCapacity
          /\ hire /\ Proceed(t)
       \/ /\ pool.state # "running" \/ (Alive = Workers /\ Len(pool.queue) = QueueCapacity)
          /\ run' = [run EXCEPT ![t].pc = "poll"]
          /\ UNCHANGED pool
    /\ UNCHANGED tally

\* The handler: drop the oldest, whoever took it meanwhile,
PollOldest(t) ==
    /\ run[t].pc = "poll"
    /\ pool' = [pool EXCEPT !.queue = IF @ = <<>> THEN @ ELSE Tail(@)]
    /\ tally' = [tally EXCEPT !.dropped = @ + 1]
    /\ run' = [run EXCEPT ![t].pc = "offer"]

\* Mutant: the one that finds no place after all is not counted.
OfferUncounted(t) ==
    /\ run[t].pc = "offer"
    /\ pool' = [pool EXCEPT !.queue = IF Len(@) < QueueCapacity THEN Append(@, run[t].heartbeat) ELSE @]
    /\ Proceed(t)
    /\ UNCHANGED tally

\* and offer the new one.
Offer(t) ==
    /\ run[t].pc = "offer"
    /\ IF Len(pool.queue) < QueueCapacity
       THEN pool' = [pool EXCEPT !.queue = Append(@, run[t].heartbeat)] /\ UNCHANGED tally
       ELSE /\ tally' = [tally EXCEPT !.dropped = @ + 1]
            /\ UNCHANGED pool
    /\ Proceed(t)

Take(w) ==
    /\ pool.worker[w] = Free /\ pool.queue # <<>>
    /\ pool' = [pool EXCEPT !.worker[w] = Head(pool.queue), !.queue = Tail(@)]
    /\ UNCHANGED <<run, tally>>

\* deliver(): the server answers, refuses or is not there.
Deliver(w) ==
    /\ pool.worker[w] \in Heartbeats
    /\ pool' = [pool EXCEPT !.worker[w] = Free]
    /\ \/ tally' = [tally EXCEPT !.sent = @ + 1]
       \/ tally' = [tally EXCEPT !.failed = @ + 1]
    /\ UNCHANGED <<run>>

\* After 30 s without work, which no handler takes; at once when shut down.
Retire(w) ==
    /\ pool.worker[w] = Free /\ pool.queue = <<>>
    /\ pool.state = "running" => \A t \in JobThreads : run[t].pc \notin {"poll", "offer"}
    /\ pool' = [pool EXCEPT !.worker[w] = Retired]
    /\ UNCHANGED <<run, tally>>

\* destroy(): what is queued gets two seconds.
Destroy ==
    /\ pool.state = "running"
    /\ pool' = [pool EXCEPT !.state = "shutdown"]
    /\ UNCHANGED <<run, tally>>

\* They are over, or nothing is left: workers are interrupted, the queue is emptied.
ShutdownNow ==
    /\ pool.state = "shutdown"
    /\ tally' = [tally EXCEPT !.failed = @ + Cardinality({w \in Workers : pool.worker[w] \in Heartbeats})]
    /\ pool' = [state |-> "stopped", queue |-> <<>>, worker |-> [w \in Workers |-> Retired]]
    /\ UNCHANGED <<run>>

SenderNext ==
    \/ \E t \in JobThreads : Begin(t) \/ End(t) \/ Execute(t) \/ PollOldest(t) \/ Offer(t)
    \/ \E w \in Workers : Take(w) \/ Deliver(w) \/ Retire(w)
    \/ Destroy
    \/ ShutdownNow

SenderSpec == SenderInit /\ [][SenderNext]_senderVars

(***************************************************************************)
(* Properties.                                                             *)
(***************************************************************************)
Undecided == Len(pool.queue) + Cardinality({w \in Workers : pool.worker[w] \in Heartbeats})
             + Cardinality({t \in JobThreads : run[t].pc \in {"execute", "poll", "offer"}})

\* HeartbeatSender.stats: "Counters, exposed for tests and for the application's own
\* diagnostics". Until the application stops, no heartbeat leaves without being
\* counted, whichever of the pool, its handler and its workers had it.
EveryHeartbeatIsCounted ==
    pool.state = "running" => tally.made <= tally.sent + tally.failed + tally.dropped + Undecided
===============================================================================
