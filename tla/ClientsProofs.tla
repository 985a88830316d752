---------------------------- MODULE ClientsProofs ------------------------------
(***************************************************************************)
(* What the client libraries promise the application that carries them,    *)
(* for any jobs, instances, processes, threads, queues and schedules: a    *)
(* section for each part that it takes, then the specification that runs   *)
(* any one of them.                                                        *)
(***************************************************************************)
EXTENDS MCClients, FiniteSetTheorems, SequenceTheorems, TLAPS

-----------------------------------------------------------------------------
(***************************************************************************)
(* The heartbeats of the Spring Boot starter.                              *)
(***************************************************************************)
Busy == {w \in Workers : pool.worker[w] \in Heartbeats}
Handing == {t \in JobThreads : run[t].pc \in {"execute", "poll", "offer"}}

RunStates == [pc : {"idle", "runs", "execute", "poll", "offer"}, over : BOOLEAN, heartbeat : Nat]

SenderInv ==
    /\ run \in [JobThreads -> RunStates]
    /\ \A t \in JobThreads : run[t].pc \in {"execute", "poll", "offer"} => run[t].heartbeat \in Heartbeats
    /\ pool \in [state : {"running", "shutdown", "stopped"}, queue : Seq(Heartbeats),
                 worker : [Workers -> Heartbeats \cup {Free, Retired}]]
    /\ tally \in [made : 0..MaxHeartbeats, sent : Nat, failed : Nat, dropped : Nat]
    /\ EveryHeartbeatIsCounted

LEMMA UndecidedAre == Undecided = Len(pool.queue) + Cardinality(Busy) + Cardinality(Handing)
BY DEF Undecided, Busy, Handing

\* One more in a finite set, or one less.
LEMMA OneMore ==
    ASSUME NEW S, IsFiniteSet(S), NEW x, x \notin S
    PROVE  Cardinality(S \cup {x}) = Cardinality(S) + 1 /\ Cardinality(S) \in Nat
BY FS_AddElement, FS_CardinalityType

LEMMA OneLess ==
    ASSUME NEW S, IsFiniteSet(S), NEW x \in S
    PROVE  Cardinality(S) = Cardinality(S \ {x}) + 1 /\ Cardinality(S \ {x}) \in Nat
<1>1. IsFiniteSet(S \ {x}) /\ x \notin S \ {x} /\ S = (S \ {x}) \cup {x}
  BY FS_Subset
<1> QED
  BY <1>1, OneMore

LEMMA NoneWithoutWork ==
    /\ IsFiniteSet(Busy) /\ Cardinality(Busy) \in Nat
    /\ IsFiniteSet(Handing) /\ Cardinality(Handing) \in Nat
    /\ Free \notin Heartbeats /\ Retired \notin Heartbeats
<1>1. IsFiniteSet(Workers)
  <2>1. 1 \in Int /\ 2 \in Int
    OBVIOUS
  <2> QED
    BY <2>1, FS_Interval DEF Workers
<1>2. Busy \subseteq Workers /\ Handing \subseteq JobThreads /\ IsFiniteSet(JobThreads)
  BY SenderAssumption DEF Busy, Handing
<1>3. IsFiniteSet(Busy) /\ IsFiniteSet(Handing)
  BY <1>1, <1>2, FS_Subset
<1> QED
  BY <1>3, FS_CardinalityType DEF Heartbeats, Free, Retired

LEMMA SenderInitially == ASSUME SenderInit PROVE SenderInv
<1> USE SenderAssumption
<1>1. run \in [JobThreads -> RunStates] /\ \A t \in JobThreads : run[t].pc = "idle"
  BY DEF SenderInit, RunStates
<1>2. /\ pool \in [state : {"running", "shutdown", "stopped"}, queue : Seq(Heartbeats),
                   worker : [Workers -> Heartbeats \cup {Free, Retired}]]
      /\ pool.queue = <<>>
  BY DEF SenderInit
<1>3. tally \in [made : 0..MaxHeartbeats, sent : Nat, failed : Nat, dropped : Nat] /\ tally.made = 0
  BY DEF SenderInit
<1>4. Undecided \in Nat
  BY <1>2, UndecidedAre, NoneWithoutWork
<1>5. EveryHeartbeatIsCounted
  BY <1>3, <1>4 DEF EveryHeartbeatIsCounted
<1> QED
  BY <1>1, <1>2, <1>3, <1>5 DEF SenderInv

LEMMA QueueMoves ==
    ASSUME NEW S, NEW s \in Seq(S), NEW x \in S
    PROVE  /\ Append(s, x) \in Seq(S) /\ Len(Append(s, x)) = Len(s) + 1 /\ Len(s) \in Nat
           /\ s # <<>> => Head(s) \in S /\ Tail(s) \in Seq(S) /\ Len(s) = Len(Tail(s)) + 1
BY AppendProperties, HeadTailProperties, LenProperties

\* A thread goes on: it has a heartbeat in hand, or no more.
LEMMA HandingMoves ==
    ASSUME run \in [JobThreads -> RunStates], NEW t \in JobThreads, NEW v \in RunStates,
           run' = [run EXCEPT ![t] = v]
    PROVE  /\ run' \in [JobThreads -> RunStates] /\ run'[t] = v /\ \A u \in JobThreads : u # t => run'[u] = run[u]
           /\ Cardinality(Handing) \in Nat /\ Cardinality(Handing)' \in Nat
           /\ Cardinality(Handing') + (IF run[t].pc \in {"execute", "poll", "offer"} THEN 1 ELSE 0)
              = Cardinality(Handing) + (IF v.pc \in {"execute", "poll", "offer"} THEN 1 ELSE 0)
<1> DEFINE hands == v.pc \in {"execute", "poll", "offer"}
<1>1. run' \in [JobThreads -> RunStates] /\ run'[t] = v /\ \A u \in JobThreads : u # t => run'[u] = run[u]
  OBVIOUS
<1>2. t \in Handing <=> run[t].pc \in {"execute", "poll", "offer"}
  BY DEF Handing
<1>3. t \in Handing' <=> hands
  BY <1>1 DEF Handing
<1>4. \A u \in JobThreads \ {t} : u \in Handing' <=> u \in Handing
  BY <1>1 DEF Handing
<1>5. Handing \subseteq JobThreads /\ Handing' \subseteq JobThreads
  BY DEF Handing
<1>6. IsFiniteSet(Handing) /\ Cardinality(Handing) \in Nat
  BY NoneWithoutWork
<1>7. CASE hands /\ t \notin Handing
  <2>1. Handing' = Handing \cup {t}
    BY <1>3, <1>4, <1>5, <1>7
  <2> QED
    BY <1>1, <1>2, <1>6, <1>7, <2>1, OneMore
<1>8. CASE ~hands /\ t \in Handing
  <2>1. Handing' = Handing \ {t}
    BY <1>3, <1>4, <1>5, <1>8
  <2> QED
    BY <1>1, <1>2, <1>6, <1>8, <2>1, OneLess
<1>9. CASE hands <=> t \in Handing
  <2>1. Handing' = Handing
    BY <1>3, <1>4, <1>5, <1>9
  <2> QED
    BY <1>1, <1>2, <1>6, <1>9, <2>1
<1> QED
  BY <1>7, <1>8, <1>9

\* A worker takes a heartbeat, or is done with one.
LEMMA BusyMoves ==
    ASSUME pool.worker \in [Workers -> Heartbeats \cup {Free, Retired}], NEW w \in Workers,
           NEW v \in Heartbeats \cup {Free, Retired}, pool'.worker = [pool.worker EXCEPT ![w] = v]
    PROVE  /\ pool'.worker \in [Workers -> Heartbeats \cup {Free, Retired}]
           /\ Cardinality(Busy) \in Nat /\ Cardinality(Busy)' \in Nat
           /\ Cardinality(Busy') + (IF pool.worker[w] \in Heartbeats THEN 1 ELSE 0)
              = Cardinality(Busy) + (IF v \in Heartbeats THEN 1 ELSE 0)
<1>1. /\ pool'.worker \in [Workers -> Heartbeats \cup {Free, Retired}]
      /\ pool'.worker[w] = v /\ \A u \in Workers : u # w => pool'.worker[u] = pool.worker[u]
  OBVIOUS
<1>2. w \in Busy <=> pool.worker[w] \in Heartbeats
  BY DEF Busy
<1>3. w \in Busy' <=> v \in Heartbeats
  BY <1>1 DEF Busy
<1>4. \A u \in Workers \ {w} : u \in Busy' <=> u \in Busy
  BY <1>1 DEF Busy
<1>5. Busy \subseteq Workers /\ Busy' \subseteq Workers
  BY DEF Busy
<1>6. IsFiniteSet(Busy) /\ Cardinality(Busy) \in Nat
  BY NoneWithoutWork
<1>7. CASE v \in Heartbeats /\ w \notin Busy
  <2>1. Busy' = Busy \cup {w}
    BY <1>3, <1>4, <1>5, <1>7
  <2> QED
    BY <1>1, <1>2, <1>6, <1>7, <2>1, OneMore
<1>8. CASE v \notin Heartbeats /\ w \in Busy
  <2>1. Busy' = Busy \ {w}
    BY <1>3, <1>4, <1>5, <1>8
  <2> QED
    BY <1>1, <1>2, <1>6, <1>8, <2>1, OneLess
<1>9. CASE v \in Heartbeats <=> w \in Busy
  <2>1. Busy' = Busy
    BY <1>3, <1>4, <1>5, <1>9
  <2> QED
    BY <1>1, <1>2, <1>6, <1>9, <2>1
<1> QED
  BY <1>7, <1>8, <1>9

Pools == [state : {"running", "shutdown", "stopped"}, queue : Seq(Heartbeats),
          worker : [Workers -> Heartbeats \cup {Free, Retired}]]
Tallies == [made : 0..MaxHeartbeats, sent : Nat, failed : Nat, dropped : Nat]

LEMMA HandingStays == ASSUME UNCHANGED run PROVE Cardinality(Handing') = Cardinality(Handing)
<1>1. Handing' = Handing
  BY DEF Handing
<1> QED
  BY <1>1

LEMMA BusyStays == ASSUME pool'.worker = pool.worker PROVE Cardinality(Busy') = Cardinality(Busy)
<1>1. Busy' = Busy
  BY DEF Busy
<1> QED
  BY <1>1

Decided == tally.sent + tally.failed + tally.dropped

LEMMA DecidedIs == ASSUME tally \in Tallies PROVE Decided \in Nat
BY DEF Decided, Tallies

LEMMA DecidedStays == ASSUME UNCHANGED tally PROVE Decided' = Decided
BY DEF Decided

LEMMA UndecidedIs == ASSUME pool \in Pools PROVE Undecided \in Nat
<1>1. Len(pool.queue) \in Nat
  BY LenProperties DEF Pools
<1> QED
  BY <1>1, UndecidedAre, NoneWithoutWork

\* What moves between the queue, the workers and the threads.
LEMMA UndecidedMoves ==
    ASSUME NEW queue \in Nat, Len(pool.queue)' = queue, NEW busy \in Nat, Cardinality(Busy)' = busy,
           NEW handing \in Nat, Cardinality(Handing)' = handing
    PROVE  Undecided' = queue + busy + handing
BY DEF Undecided, Busy, Handing

LEMMA StillCounted ==
    ASSUME EveryHeartbeatIsCounted, tally \in Tallies, tally' \in Tallies, Undecided \in Nat, Undecided' \in Nat,
           pool'.state = "running" =>
               /\ pool.state = "running"
               /\ tally'.made + Decided + Undecided <= tally.made + Decided' + Undecided'
    PROVE  EveryHeartbeatIsCounted'
<1>1. /\ Decided \in Nat /\ Decided' \in Nat /\ tally.made \in Nat /\ tally'.made \in Nat
      /\ Decided = tally.sent + tally.failed + tally.dropped
      /\ Decided' = tally'.sent + tally'.failed + tally'.dropped
  BY SenderAssumption DEF Decided, Tallies
<1>2. pool.state = "running" => tally.made <= Decided + Undecided
  BY <1>1 DEF EveryHeartbeatIsCounted
<1>3. pool'.state = "running" => tally'.made <= Decided' + Undecided'
  BY <1>1, <1>2
<1> QED
  BY <1>1, <1>3 DEF EveryHeartbeatIsCounted

LEMMA SenderStep == ASSUME SenderInv, SenderNext \/ UNCHANGED senderVars PROVE SenderInv'
<1> USE SenderAssumption
<1> DEFINE Hands(v) == v.pc \in {"execute", "poll", "offer"}
           queue == Len(pool.queue)
           busy == Cardinality(Busy)
           handing == Cardinality(Handing)
           hands == \A t \in JobThreads : Hands(run[t]) => run[t].heartbeat \in Heartbeats
<1>1. run \in [JobThreads -> RunStates] /\ pool \in Pools /\ tally \in Tallies /\ hands
  BY DEF SenderInv, Pools, Tallies
<1>2. /\ pool.queue \in Seq(Heartbeats) /\ pool.worker \in [Workers -> Heartbeats \cup {Free, Retired}]
      /\ Free \notin Heartbeats /\ Retired \notin Heartbeats
  BY <1>1, NoneWithoutWork DEF Pools
<1>3. /\ queue \in Nat /\ busy \in Nat /\ handing \in Nat /\ Decided \in Nat
      /\ Undecided = queue + busy + handing
  BY <1>1, <1>2, NoneWithoutWork, LenProperties, DecidedIs, UndecidedAre
<1>4. tally.made \in Nat /\ tally.made <= MaxHeartbeats
  BY <1>1 DEF Tallies
<1>5. ASSUME run' \in [JobThreads -> RunStates], pool' \in Pools, tally' \in Tallies, hands',
             queue' \in Nat, busy' \in Nat, handing' \in Nat, Decided' \in Nat, tally'.made \in Nat,
             pool'.state = pool.state,
             tally'.made + Decided + (queue + busy + handing) <= tally.made + Decided' + (queue' + busy' + handing')
      PROVE  SenderInv'
  <2>1. Undecided' = queue' + busy' + handing'
    BY <1>5, UndecidedMoves
  <2>2. EveryHeartbeatIsCounted'
    <3>1. Undecided \in Nat /\ Undecided' \in Nat
      <4>1. queue' \in Nat /\ busy' \in Nat /\ handing' \in Nat
        BY <1>5
      <4> QED
        BY <1>3, <2>1, <4>1
    <3>2. tally'.made + Decided + Undecided <= tally.made + Decided' + Undecided'
      BY <1>3, <1>5, <2>1
    <3> HIDE DEF queue, busy, handing, hands
    <3>3. EveryHeartbeatIsCounted
      BY DEF SenderInv
    <3> QED
      BY <1>1, <1>5, <3>1, <3>2, <3>3, StillCounted
  <2> QED
    BY <1>5, <2>2 DEF SenderInv, Pools, Tallies
<1>6. UNCHANGED run => run' \in [JobThreads -> RunStates] /\ handing' = handing /\ hands'
  BY <1>1, HandingStays
<1>7. pool'.worker = pool.worker => busy' = busy
  BY BusyStays
<1>8. UNCHANGED tally => tally' \in Tallies /\ Decided' = Decided /\ tally'.made = tally.made
  BY <1>1, DecidedStays
<1>9. ASSUME NEW t \in JobThreads, NEW v \in RunStates, run' = [run EXCEPT ![t] = v],
             Hands(v) => v.heartbeat \in Heartbeats
      PROVE  /\ run' \in [JobThreads -> RunStates] /\ hands' /\ handing' \in Nat
             /\ Hands(v) /\ ~Hands(run[t]) => handing' = handing + 1
             /\ Hands(v) /\ Hands(run[t]) => handing' = handing
             /\ ~Hands(v) /\ Hands(run[t]) => handing' + 1 = handing
  <2>1. /\ run' \in [JobThreads -> RunStates] /\ run'[t] = v /\ \A u \in JobThreads : u # t => run'[u] = run[u]
        /\ handing' \in Nat
        /\ handing' + (IF Hands(run[t]) THEN 1 ELSE 0) = handing + (IF Hands(v) THEN 1 ELSE 0)
    BY <1>1, <1>9, HandingMoves
  <2>2. hands'
    BY <1>1, <1>9, <2>1
  <2>3. handing \in Nat /\ handing' \in Nat
    BY <1>3, <2>1
  <2>4. CASE Hands(v) /\ ~Hands(run[t])
    <3>1. handing' + 0 = handing + 1
      BY <2>1, <2>4
    <3> QED
      BY <2>1, <2>2, <2>3, <2>4, <3>1
  <2>5. CASE Hands(v) /\ Hands(run[t])
    <3>1. handing' + 1 = handing + 1
      BY <2>1, <2>5
    <3> QED
      BY <2>1, <2>2, <2>3, <2>5, <3>1
  <2>6. CASE ~Hands(v) /\ Hands(run[t])
    <3>1. handing' + 1 = handing + 0
      BY <2>1, <2>6
    <3> QED
      BY <2>1, <2>2, <2>3, <2>6, <3>1
  <2> QED
    BY <2>1, <2>2, <2>4, <2>5, <2>6
<1>10. ASSUME NEW t \in JobThreads, Begin(t) \/ End(t)
       PROVE  SenderInv'
  <2> DEFINE v == Submitting(t)
  <2>1. /\ run[t].pc \in {"idle", "runs"} /\ tally.made < MaxHeartbeats /\ run' = [run EXCEPT ![t] = v]
        /\ tally' = [tally EXCEPT !.made = tally.made + 1] /\ UNCHANGED pool
    BY <1>10 DEF Begin, End
  <2>2. v \in RunStates /\ v.pc = "execute" /\ v.heartbeat \in Heartbeats
    BY <1>1, <2>1 DEF Submitting, RunStates, Tallies, Heartbeats
  <2>3. run' \in [JobThreads -> RunStates] /\ hands' /\ handing' = handing + 1
    <3>1. Hands(v) /\ ~Hands(run[t])
      BY <2>1, <2>2
    <3> HIDE DEF v, handing, hands, Hands
    <3> QED
      BY <1>3, <1>9, <2>1, <2>2, <3>1
  <2> HIDE DEF v
  <2>4. /\ tally' \in Tallies /\ tally'.made = tally.made + 1 /\ tally'.sent = tally.sent
        /\ tally'.failed = tally.failed /\ tally'.dropped = tally.dropped
    BY <1>1, <2>1 DEF Tallies
  <2>5. Decided' = Decided
    BY <2>4 DEF Decided
  <2>6. queue' = queue /\ busy' = busy /\ pool' \in Pools /\ pool'.state = pool.state
    BY <1>1, <1>7, <2>1
  <2> HIDE DEF queue, busy, handing, hands
  <2>20. /\ queue' \in Nat /\ busy' \in Nat /\ handing' \in Nat /\ Decided' \in Nat /\ tally'.made \in Nat
        /\ tally'.made + Decided + (queue + busy + handing) <= tally.made + Decided' + (queue' + busy' + handing')
    BY <1>3, <1>4, <2>3, <2>4, <2>5, <2>6
  <2> QED
    BY <1>3, <1>4, <1>5, <2>3, <2>4, <2>5, <2>6, <2>20
<1>11. ASSUME NEW t \in JobThreads, Hands(run[t]), Proceed(t)
       PROVE  run' \in [JobThreads -> RunStates] /\ hands' /\ handing' \in Nat /\ handing' + 1 = handing
  <2> DEFINE v == [pc |-> IF run[t].over THEN "idle" ELSE "runs", over |-> FALSE, heartbeat |-> 0]
  <2>1. v \in RunStates /\ ~Hands(v) /\ run' = [run EXCEPT ![t] = v]
    BY <1>11 DEF RunStates, Proceed
  <2> HIDE DEF v, handing, hands, Hands
  <2> QED
    BY <1>3, <1>9, <1>11, <2>1
<1>12. ASSUME NEW t \in JobThreads, NEW pc \in {"poll", "offer"}, Hands(run[t]), run' = [run EXCEPT ![t].pc = pc]
       PROVE  run' \in [JobThreads -> RunStates] /\ hands' /\ handing' = handing
  <2> DEFINE v == [run[t] EXCEPT !.pc = pc]
  <2>1. v \in RunStates /\ Hands(v) /\ run' = [run EXCEPT ![t] = v] /\ v.heartbeat = run[t].heartbeat
    BY <1>1, <1>12 DEF RunStates
  <2>2. v.heartbeat \in Heartbeats
    BY <1>1, <1>12, <2>1
  <2> HIDE DEF v, handing, hands, Hands
  <2> QED
    BY <1>3, <1>9, <1>12, <2>1, <2>2
<1>13. ASSUME NEW t \in JobThreads, Execute(t)
       PROVE  SenderInv'
  <2> DEFINE heartbeat == run[t].heartbeat
  <2>1. Hands(run[t]) /\ heartbeat \in Heartbeats /\ UNCHANGED tally
    BY <1>1, <1>13 DEF Execute
  <2>2. ASSUME NEW w \in Workers \ Alive, pool' = [pool EXCEPT !.worker[w] = heartbeat], Proceed(t)
        PROVE  SenderInv'
    <3>1. pool.worker[w] = Retired
      BY <2>2 DEF Alive
    <3>2. /\ pool' \in Pools /\ pool'.state = pool.state /\ queue' = queue
          /\ pool'.worker = [pool.worker EXCEPT ![w] = heartbeat]
      BY <1>1, <2>1, <2>2 DEF Pools
    <3>3. busy' \in Nat /\ busy' = busy + 1
      <4> HIDE DEF heartbeat
      <4> QED
        BY <1>2, <1>3, <2>1, <2>2, <3>1, <3>2, BusyMoves
    <3>4. run' \in [JobThreads -> RunStates] /\ hands' /\ handing' \in Nat /\ handing' + 1 = handing
      BY <1>11, <2>1, <2>2
    <3> HIDE DEF queue, busy, handing, hands
    <3>20. /\ queue' \in Nat /\ busy' \in Nat /\ handing' \in Nat /\ Decided' \in Nat /\ tally'.made \in Nat
          /\ tally'.made + Decided + (queue + busy + handing) <= tally.made + Decided' + (queue' + busy' + handing')
      BY <1>3, <1>4, <1>8, <2>1, <3>2, <3>3, <3>4
    <3> QED
      BY <1>3, <1>4, <1>5, <1>8, <2>1, <3>2, <3>3, <3>4, <3>20
  <2>3. ASSUME pool' = [pool EXCEPT !.queue = Append(@, heartbeat)], Proceed(t)
        PROVE  SenderInv'
    <3>1. Append(pool.queue, heartbeat) \in Seq(Heartbeats) /\ Len(Append(pool.queue, heartbeat)) = queue + 1
      BY <1>2, <2>1, QueueMoves
    <3>2. /\ pool' \in Pools /\ pool'.state = pool.state /\ pool'.worker = pool.worker
          /\ queue' = queue + 1
      BY <1>1, <2>3, <3>1 DEF Pools
    <3>3. run' \in [JobThreads -> RunStates] /\ hands' /\ handing' \in Nat /\ handing' + 1 = handing
      BY <1>11, <2>1, <2>3
    <3>4. queue' \in Nat /\ busy' = busy
      BY <1>3, <1>7, <3>2
    <3> HIDE DEF queue, busy, handing, hands
    <3>20. /\ queue' \in Nat /\ busy' \in Nat /\ handing' \in Nat /\ Decided' \in Nat /\ tally'.made \in Nat
          /\ tally'.made + Decided + (queue + busy + handing) <= tally.made + Decided' + (queue' + busy' + handing')
      BY <1>3, <1>4, <1>8, <2>1, <3>2, <3>3, <3>4
    <3> QED
      BY <1>3, <1>4, <1>5, <1>8, <2>1, <3>2, <3>3, <3>4, <3>20
  <2>4. ASSUME run' = [run EXCEPT ![t].pc = "poll"], UNCHANGED pool
        PROVE  SenderInv'
    <3>1. run' \in [JobThreads -> RunStates] /\ hands' /\ handing' = handing
      BY <1>12, <2>1, <2>4
    <3>2. queue' = queue /\ busy' = busy /\ pool' \in Pools /\ pool'.state = pool.state
      BY <1>1, <1>7, <2>4
    <3> HIDE DEF queue, busy, handing, hands
    <3>20. /\ queue' \in Nat /\ busy' \in Nat /\ handing' \in Nat /\ Decided' \in Nat /\ tally'.made \in Nat
          /\ tally'.made + Decided + (queue + busy + handing) <= tally.made + Decided' + (queue' + busy' + handing')
      BY <1>3, <1>4, <1>8, <2>1, <3>1, <3>2
    <3> QED
      BY <1>3, <1>4, <1>5, <1>8, <2>1, <3>1, <3>2, <3>20
  <2> QED
    BY <1>13, <2>2, <2>3, <2>4 DEF Execute
<1>14. ASSUME tally' = [tally EXCEPT !.dropped = tally.dropped + 1]
       PROVE  tally' \in Tallies /\ Decided' = Decided + 1 /\ tally'.made = tally.made
  <2>1. /\ tally' \in Tallies /\ tally'.made = tally.made /\ tally'.sent = tally.sent /\ tally'.failed = tally.failed
        /\ tally'.dropped = tally.dropped + 1
        /\ tally.sent \in Nat /\ tally.failed \in Nat /\ tally.dropped \in Nat
    BY <1>1, <1>14 DEF Tallies
  <2> QED
    BY <2>1 DEF Decided
<1>15. ASSUME NEW t \in JobThreads, PollOldest(t)
       PROVE  SenderInv'
  <2>1. /\ Hands(run[t]) /\ run' = [run EXCEPT ![t].pc = "offer"]
        /\ tally' = [tally EXCEPT !.dropped = tally.dropped + 1]
        /\ pool' = [pool EXCEPT !.queue = IF @ = <<>> THEN @ ELSE Tail(@)]
    BY <1>15 DEF PollOldest
  <2>2. run' \in [JobThreads -> RunStates] /\ hands' /\ handing' = handing
    BY <1>12, <2>1
  <2>3. /\ pool' \in Pools /\ pool'.state = pool.state /\ pool'.worker = pool.worker
        /\ queue' \in Nat /\ queue <= queue' + 1
    <3> DEFINE rest == IF pool.queue = <<>> THEN pool.queue ELSE Tail(pool.queue)
    <3>1. pool.queue # <<>> => Tail(pool.queue) \in Seq(Heartbeats) /\ queue = Len(Tail(pool.queue)) + 1
                               /\ Len(Tail(pool.queue)) \in Nat
      BY <1>2, HeadTailProperties, LenProperties
    <3>2. rest \in Seq(Heartbeats) /\ Len(rest) \in Nat /\ queue <= Len(rest) + 1 /\ pool' = [pool EXCEPT !.queue = rest]
      BY <1>2, <1>3, <2>1, <3>1
    <3> HIDE DEF rest
    <3> QED
      BY <1>1, <3>2 DEF Pools
  <2>4. tally' \in Tallies /\ Decided' = Decided + 1 /\ tally'.made = tally.made
    BY <1>14, <2>1
  <2>5. busy' = busy
    BY <1>7, <2>3
  <2> HIDE DEF queue, busy, handing, hands
  <2>20. /\ queue' \in Nat /\ busy' \in Nat /\ handing' \in Nat /\ Decided' \in Nat /\ tally'.made \in Nat
        /\ tally'.made + Decided + (queue + busy + handing) <= tally.made + Decided' + (queue' + busy' + handing')
    <3>1. queue' \in Nat /\ queue <= queue' + 1 /\ handing' = handing /\ busy' = busy
      BY <2>2, <2>3, <2>5
    <3>2. Decided' = Decided + 1 /\ tally'.made = tally.made
      BY <2>4
    <3>3. queue \in Nat /\ busy \in Nat /\ handing \in Nat /\ Decided \in Nat /\ tally.made \in Nat
      BY <1>3, <1>4
    <3>4. ASSUME NEW m \in Nat, NEW d \in Nat, NEW q \in Nat, NEW q2 \in Nat, NEW b \in Nat, NEW h \in Nat,
                 q <= q2 + 1
          PROVE  m + d + (q + b + h) <= m + (d + 1) + (q2 + b + h)
      BY <3>4
    <3>5. tally.made + Decided + (queue + busy + handing) <= tally.made + (Decided + 1) + (queue' + busy + handing)
      BY <3>1, <3>3, <3>4
    <3>6. tally'.made + Decided + (queue + busy + handing) <= tally.made + Decided' + (queue' + busy' + handing')
      BY <3>1, <3>2, <3>5
    <3>7. Decided + 1 \in Nat
      BY <3>3
    <3> QED
      BY <3>1, <3>2, <3>3, <3>6, <3>7
  <2> QED
    BY <1>3, <1>4, <1>5, <2>2, <2>3, <2>4, <2>20
<1>16. ASSUME NEW t \in JobThreads, Offer(t)
       PROVE  SenderInv'
  <2>1. Hands(run[t]) /\ Proceed(t) /\ run[t].heartbeat \in Heartbeats
    BY <1>1, <1>16 DEF Offer
  <2>2. run' \in [JobThreads -> RunStates] /\ hands' /\ handing' \in Nat /\ handing' + 1 = handing
    BY <1>11, <2>1
  <2>3. CASE Len(pool.queue) < QueueCapacity
    <3>1. /\ Append(pool.queue, run[t].heartbeat) \in Seq(Heartbeats)
          /\ Len(Append(pool.queue, run[t].heartbeat)) = queue + 1
      BY <1>2, <2>1, QueueMoves
    <3>2. pool' = [pool EXCEPT !.queue = Append(@, run[t].heartbeat)] /\ UNCHANGED tally
      BY <1>16, <2>3 DEF Offer
    <3>3. /\ pool' \in Pools /\ pool'.state = pool.state /\ pool'.worker = pool.worker
          /\ queue' = queue + 1
      BY <1>1, <3>1, <3>2 DEF Pools
    <3>4. queue' \in Nat /\ busy' = busy
      BY <1>3, <1>7, <3>3
    <3> HIDE DEF queue, busy, handing, hands
    <3>20. /\ queue' \in Nat /\ busy' \in Nat /\ handing' \in Nat /\ Decided' \in Nat /\ tally'.made \in Nat
          /\ tally'.made + Decided + (queue + busy + handing) <= tally.made + Decided' + (queue' + busy' + handing')
      BY <1>3, <1>4, <1>8, <2>2, <3>2, <3>3, <3>4
    <3> QED
      BY <1>3, <1>4, <1>5, <1>8, <2>2, <3>2, <3>3, <3>4, <3>20
  <2>4. CASE ~(Len(pool.queue) < QueueCapacity)
    <3>1. tally' = [tally EXCEPT !.dropped = tally.dropped + 1] /\ UNCHANGED pool
      BY <1>16, <2>4 DEF Offer
    <3>2. queue' = queue /\ busy' = busy /\ pool' \in Pools /\ pool'.state = pool.state
      BY <1>1, <1>7, <3>1
    <3> HIDE DEF queue, busy, handing, hands
    <3>20. /\ queue' \in Nat /\ busy' \in Nat /\ handing' \in Nat /\ Decided' \in Nat /\ tally'.made \in Nat
          /\ tally'.made + Decided + (queue + busy + handing) <= tally.made + Decided' + (queue' + busy' + handing')
      BY <1>3, <1>4, <1>14, <2>2, <3>1, <3>2
    <3> QED
      BY <1>3, <1>4, <1>5, <1>14, <2>2, <3>1, <3>2, <3>20
  <2> QED
    BY <2>3, <2>4
<1>17. ASSUME NEW w \in Workers, Take(w)
       PROVE  SenderInv'
  <2> DEFINE v == Head(pool.queue)
             rest == Tail(pool.queue)
  <2>1. pool.queue # <<>> /\ pool.worker[w] = Free /\ UNCHANGED <<run, tally>>
        /\ pool' = [pool EXCEPT !.worker[w] = v, !.queue = rest]
    BY <1>17 DEF Take
  <2>2. v \in Heartbeats /\ rest \in Seq(Heartbeats) /\ queue = Len(rest) + 1 /\ Len(rest) \in Nat
    BY <1>2, <2>1, HeadTailProperties, LenProperties
  <2> HIDE DEF v, rest
  <2>3. /\ pool' \in Pools /\ pool'.state = pool.state /\ queue' = Len(rest)
        /\ pool'.worker = [pool.worker EXCEPT ![w] = v]
    BY <1>1, <2>1, <2>2 DEF Pools
  <2>4. busy' \in Nat /\ busy' = busy + 1
    BY <1>2, <1>3, <2>1, <2>2, <2>3, BusyMoves
  <2> HIDE DEF queue, busy, handing, hands
  <2>20. /\ queue' \in Nat /\ busy' \in Nat /\ handing' \in Nat /\ Decided' \in Nat /\ tally'.made \in Nat
        /\ tally'.made + Decided + (queue + busy + handing) <= tally.made + Decided' + (queue' + busy' + handing')
    BY <1>3, <1>4, <1>6, <1>8, <2>1, <2>2, <2>3, <2>4
  <2> QED
    BY <1>3, <1>4, <1>5, <1>6, <1>8, <2>1, <2>2, <2>3, <2>4, <2>20
<1>18. ASSUME NEW w \in Workers, Deliver(w)
       PROVE  SenderInv'
  <2>1. pool.worker[w] \in Heartbeats /\ pool' = [pool EXCEPT !.worker[w] = Free] /\ UNCHANGED run
    BY <1>18 DEF Deliver
  <2>2. /\ pool' \in Pools /\ pool'.state = pool.state /\ queue' = queue
        /\ pool'.worker = [pool.worker EXCEPT ![w] = Free]
    BY <1>1, <2>1 DEF Pools
  <2>3. busy' \in Nat /\ busy' + 1 = busy
    BY <1>2, <1>3, <2>1, <2>2, BusyMoves
  <2>4. tally' \in Tallies /\ Decided' = Decided + 1 /\ tally'.made = tally.made
    <3>1. /\ tally' \in Tallies /\ tally'.made = tally.made /\ tally'.dropped = tally.dropped
          /\ \/ tally'.sent = tally.sent + 1 /\ tally'.failed = tally.failed
             \/ tally'.sent = tally.sent /\ tally'.failed = tally.failed + 1
          /\ tally.sent \in Nat /\ tally.failed \in Nat /\ tally.dropped \in Nat
      BY <1>1, <1>18 DEF Deliver, Tallies
    <3> QED
      BY <3>1 DEF Decided
  <2> HIDE DEF queue, busy, handing, hands
  <2>20. /\ queue' \in Nat /\ busy' \in Nat /\ handing' \in Nat /\ Decided' \in Nat /\ tally'.made \in Nat
        /\ tally'.made + Decided + (queue + busy + handing) <= tally.made + Decided' + (queue' + busy' + handing')
    BY <1>3, <1>4, <1>6, <2>1, <2>2, <2>3, <2>4
  <2> QED
    BY <1>3, <1>4, <1>5, <1>6, <2>1, <2>2, <2>3, <2>4, <2>20
<1>19. ASSUME NEW w \in Workers, Retire(w)
       PROVE  SenderInv'
  <2>1. pool.worker[w] = Free /\ pool' = [pool EXCEPT !.worker[w] = Retired] /\ UNCHANGED <<run, tally>>
    BY <1>19 DEF Retire
  <2>2. /\ pool' \in Pools /\ pool'.state = pool.state /\ queue' = queue
        /\ pool'.worker = [pool.worker EXCEPT ![w] = Retired]
    BY <1>1, <2>1 DEF Pools
  <2>3. busy' = busy
    BY <1>2, <1>3, <2>1, <2>2, BusyMoves
  <2> HIDE DEF queue, busy, handing, hands
  <2>20. /\ queue' \in Nat /\ busy' \in Nat /\ handing' \in Nat /\ Decided' \in Nat /\ tally'.made \in Nat
        /\ tally'.made + Decided + (queue + busy + handing) <= tally.made + Decided' + (queue' + busy' + handing')
    BY <1>3, <1>4, <1>6, <1>8, <2>1, <2>2, <2>3
  <2> QED
    BY <1>3, <1>4, <1>5, <1>6, <1>8, <2>1, <2>2, <2>3, <2>20
<1>20. ASSUME run' \in [JobThreads -> RunStates], pool' \in Pools, tally' \in Tallies, hands', pool'.state # "running"
       PROVE  SenderInv'
  BY <1>20 DEF SenderInv, Pools, Tallies, EveryHeartbeatIsCounted
<1>21. CASE Destroy
  <2>1. pool' \in Pools /\ pool'.state # "running" /\ UNCHANGED <<run, tally>>
    BY <1>1, <1>21 DEF Destroy, Pools
  <2> HIDE DEF queue, busy, handing, hands
  <2> QED
    BY <1>6, <1>8, <1>20, <2>1
<1>22. CASE ShutdownNow
  <2>1. pool' \in Pools /\ pool'.state # "running" /\ UNCHANGED run
    BY <1>22 DEF ShutdownNow, Pools
  <2>2. tally' = [tally EXCEPT !.failed = tally.failed + Cardinality(Busy)]
    BY <1>22 DEF ShutdownNow, Busy
  <2>3. tally' \in Tallies
    BY <1>1, <1>3, <2>2 DEF Tallies
  <2> HIDE DEF queue, busy, handing, hands
  <2> QED
    BY <1>6, <1>20, <2>1, <2>3
<1>23. CASE UNCHANGED senderVars
  <2>1. UNCHANGED <<run, pool, tally>>
    BY <1>23 DEF senderVars
  <2>2. queue' = queue /\ busy' = busy /\ pool' \in Pools /\ pool'.state = pool.state
    BY <1>1, <1>7, <2>1
  <2> HIDE DEF queue, busy, handing, hands
  <2>20. /\ queue' \in Nat /\ busy' \in Nat /\ handing' \in Nat /\ Decided' \in Nat /\ tally'.made \in Nat
        /\ tally'.made + Decided + (queue + busy + handing) <= tally.made + Decided' + (queue' + busy' + handing')
    BY <1>3, <1>4, <1>6, <1>8, <2>1, <2>2
  <2> QED
    BY <1>3, <1>4, <1>5, <1>6, <1>8, <2>1, <2>2, <2>20
<1> QED
  BY <1>10, <1>13, <1>15, <1>16, <1>17, <1>18, <1>19, <1>21, <1>22, <1>23 DEF SenderNext

-----------------------------------------------------------------------------
(***************************************************************************)
(* The runs of Laravel's tasks.                                            *)
(***************************************************************************)
RunsInv ==
    /\ current \in [task : LaravelTasks, fate : Fates, stage : {"starting", "runs", "finished", "over"}] \cup {NoRun}
    /\ current.stage \in {"starting", "runs"} => outcomes = <<>>
    /\ current.stage = "runs" => current.task \notin reported
    /\ current.stage = "finished" =>
          current.fate = "exits non-zero" /\ outcomes = <<"non-zero">> /\ current.task \in reported
    /\ OneOutcomePerRun

LEMMA RunsInitially == ASSUME RunsInit PROVE RunsInv
BY DEF RunsInit, RunsInv, NoRun, OneOutcomePerRun

LEMMA RunsStep == ASSUME RunsInv, RunsNext \/ UNCHANGED runVars PROVE RunsInv'
<1>1. current \in [task : LaravelTasks, fate : Fates, stage : {"starting", "runs", "finished", "over"}] \cup {NoRun}
  BY DEF RunsInv
<1>2. \/ current = NoRun /\ current.stage = "none"
      \/ /\ current \in [task : LaravelTasks, fate : Fates, stage : {"starting", "runs", "finished", "over"}]
         /\ current.task \in LaravelTasks /\ current.fate \in Fates
  BY <1>1 DEF NoRun
<1>3. ASSUME NEW task \in LaravelTasks, NEW fate \in Fates, StartTask(task, fate)
      PROVE  RunsInv'
  BY <1>3 DEF StartTask, RunsInv, OneOutcomePerRun
<1>4. CASE Starting
  <2>1. current.stage = "starting" /\ outcomes = <<>> /\ UNCHANGED outcomes /\ reported' = reported \ {current.task}
    BY <1>4 DEF Starting, RunsInv, NotReported
  <2>2. current' = [current EXCEPT !.stage = "runs"]
    BY <1>4 DEF Starting
  <2> QED
    BY <1>2, <2>1, <2>2 DEF RunsInv, OneOutcomePerRun
<1>5. CASE Finished
  <2>1. current.stage = "runs" /\ current.fate # "throws" /\ outcomes = <<>>
    BY <1>5 DEF Finished, RunsInv
  <2>2. current' = [current EXCEPT !.stage = IF current.fate = "exits non-zero" THEN "finished" ELSE "over"]
    BY <1>5 DEF Finished
  <2>3. IF current.fate \in {"overlaps", "goes to the background"} THEN outcomes' = <<>>
        ELSE /\ reported' = reported \cup {current.task}
             /\ outcomes' = IF current.fate = "succeeds" THEN <<"zero">> ELSE <<"non-zero">>
    <3>1. Append(<<>>, "zero") = <<"zero">> /\ Append(<<>>, "non-zero") = <<"non-zero">>
      OBVIOUS
    <3>2. CASE current.fate \in {"overlaps", "goes to the background"}
      BY <1>5, <2>1, <3>2 DEF Finished
    <3>3. CASE current.fate \notin {"overlaps", "goes to the background"}
      <4>1. reported' = reported \cup {current.task}
            /\ outcomes' = Append(<<>>, IF current.fate = "succeeds" THEN "zero" ELSE "non-zero")
        BY <1>5, <2>1, <3>3 DEF Finished, Ping
      <4> QED
        BY <3>1, <3>3, <4>1
    <3> QED
      BY <3>2, <3>3
  <2> QED
    BY <1>2, <2>1, <2>2, <2>3 DEF RunsInv, OneOutcomePerRun, Fates
<1>6. CASE Failed
  <2>1. current' = [current EXCEPT !.stage = "over"]
    BY <1>6 DEF Failed
  <2>2. CASE current.stage = "finished"
    <3>1. UNCHANGED outcomes
      BY <1>6, <2>2 DEF Failed, RunsInv
    <3> QED
      BY <1>2, <2>1, <2>2, <3>1 DEF RunsInv, OneOutcomePerRun
  <2>3. CASE current.stage = "runs" /\ current.fate = "throws"
    <3>1. outcomes' = <<"fail">>
      BY <1>6, <2>3 DEF Failed, RunsInv, Ping
    <3> QED
      BY <1>2, <2>1, <2>3, <3>1 DEF RunsInv, OneOutcomePerRun
  <2> QED
    BY <1>6, <2>2, <2>3 DEF Failed
<1>7. CASE UNCHANGED <<current, reported, outcomes>>
  BY <1>7 DEF RunsInv, OneOutcomePerRun
<1>8. (UNCHANGED runVars \/ MinuteLater \/ \E task \in LaravelTasks : BackgroundFinished(task)) => RunsInv'
  BY <1>7 DEF runVars, MinuteLater, BackgroundFinished
<1> QED
  BY <1>3, <1>4, <1>5, <1>6, <1>8 DEF RunsNext

-----------------------------------------------------------------------------
(***************************************************************************)
(* Celery's runs, and the schedule they are of.                            *)
(***************************************************************************)
Told == {"start", "SUCCESS", "FAILURE"}

CeleryTypes ==
    /\ table \in [tasks : SUBSET BeatTasks, change : Nat, unmarked : BOOLEAN]
    /\ reader \in [at : {"idle", "marker", "entries", "keys"}, found : SUBSET BeatTasks, starting : BOOLEAN]
    /\ seen \in Int
    /\ execution \in [Executions -> [task : BeatTasks, attempts : Nat, stage : {"waiting", "running", "over"}]]
    /\ told \in [Executions -> Seq(Told)]

\* What a process has of the schedule: never a marker newer than the entries it read.
ReadingFollows ==
    /\ seen <= table.change
    /\ reader.at = "keys" /\ seen = table.change /\ ~table.unmarked => reader.found = table.tasks
    /\ ScheduleIsFollowed

\* A task that was always scheduled is in whatever was read.
AlwaysHeld ==
    /\ always \subseteq table.tasks
    /\ reader.at = "keys" => always \subseteq reader.found
    /\ ~reader.starting => always \subseteq beatKeys
    /\ reader.starting => /\ reader.at # "idle"
                          /\ \A e \in Executions : execution[e].stage = "waiting" /\ execution[e].attempts = 0
                                                   /\ told[e] = <<>>

OnlyStarts(e) == Len(told[e]) = execution[e].attempts /\ \A n \in 1..execution[e].attempts : told[e][n] = "start"
OneEnd(e) ==
    /\ Len(told[e]) = execution[e].attempts + 1
    /\ \A n \in 1..execution[e].attempts : told[e][n] = "start"
    /\ told[e][execution[e].attempts + 1] # "start"

AttemptsAreTold ==
    \A e \in Executions :
        execution[e].task \in always => IF execution[e].stage = "over" THEN OneEnd(e) ELSE OnlyStarts(e)

CeleryInv == CeleryTypes /\ ReadingFollows /\ AlwaysHeld /\ AttemptsAreTold

LEMMA CeleryIsKept == CeleryInv => ScheduleIsFollowed /\ KeptTasksAreTold
BY DEF CeleryInv, ReadingFollows, AttemptsAreTold, OneEnd, KeptTasksAreTold

LEMMA CeleryInitially == ASSUME CeleryInit PROVE CeleryInv
<1>1. CeleryTypes
  BY DEF CeleryInit, CeleryTypes
<1>2. ReadingFollows
  BY DEF CeleryInit, ReadingFollows, ScheduleIsFollowed
<1>3. AlwaysHeld
  BY DEF CeleryInit, AlwaysHeld
<1>4. AttemptsAreTold
  BY DEF CeleryInit, AttemptsAreTold, OnlyStarts
<1> QED
  BY <1>1, <1>2, <1>3, <1>4 DEF CeleryInv

\* What is told of a run is added at the end.
LEMMA OneMoreTold ==
    ASSUME NEW s \in Seq(Told), NEW what \in Told
    PROVE  /\ Append(s, what) \in Seq(Told) /\ Len(Append(s, what)) = Len(s) + 1 /\ Len(s) \in Nat
           /\ \A n \in 1..Len(s) : Append(s, what)[n] = s[n]
           /\ Append(s, what)[Len(s) + 1] = what
BY AppendProperties, LenProperties

LEMMA RowGoesOn ==
    ASSUME NEW row \in [task : BeatTasks, attempts : Nat, stage : {"waiting", "running", "over"}],
           NEW stage, NEW attempts
    PROVE  [row EXCEPT !.stage = stage, !.attempts = attempts]
           = [task |-> row.task, attempts |-> attempts, stage |-> stage]
<1> DEFINE half == [row EXCEPT !.stage = stage]
<1>1. half = [task |-> row.task, attempts |-> row.attempts, stage |-> stage]
  OBVIOUS
<1>2. [half EXCEPT !.attempts = attempts] = [task |-> row.task, attempts |-> attempts, stage |-> stage]
  <2> HIDE DEF half
  <2> QED
    BY <1>1
<1>3. [row EXCEPT !.stage = stage, !.attempts = attempts] = [half EXCEPT !.attempts = attempts]
  OBVIOUS
<1> QED
  BY <1>2, <1>3

LEMMA CeleryStep ==
    ASSUME CeleryInv, ~ReadsMayFail, CeleryNext \/ UNCHANGED celeryVars
    PROVE  CeleryInv'
<1>1. CeleryTypes /\ ReadingFollows /\ AlwaysHeld /\ AttemptsAreTold
  BY DEF CeleryInv
<1>2. ASSUME UNCHANGED <<execution, told>>, always' \subseteq always
      PROVE  AttemptsAreTold'
  BY <1>1, <1>2 DEF AttemptsAreTold, OneEnd, OnlyStarts
<1>3. ASSUME NEW tasks \in SUBSET BeatTasks, EditSchedule(tasks)
      PROVE  CeleryInv'
  <2>1. UNCHANGED <<reader, seen, beatKeys, execution, told>> /\ always' = always \cap tasks
        /\ table' = [table EXCEPT !.tasks = tasks, !.unmarked = TRUE]
    BY <1>3 DEF EditSchedule
  <2>2. table' \in [tasks : SUBSET BeatTasks, change : Nat, unmarked : BOOLEAN]
        /\ table'.tasks = tasks /\ table'.unmarked /\ table'.change = table.change
    BY <1>1, <2>1 DEF CeleryTypes
  <2>3. CeleryTypes'
    BY <1>1, <2>1, <2>2 DEF CeleryTypes
  <2>4. ReadingFollows'
    BY <1>1, <2>1, <2>2 DEF ReadingFollows, ScheduleIsFollowed
  <2>5. AlwaysHeld'
    BY <1>1, <2>1, <2>2 DEF AlwaysHeld
  <2> QED
    BY <1>2, <2>1, <2>3, <2>4, <2>5 DEF CeleryInv
<1>4. CASE MarkChange
  <2>1. UNCHANGED <<reader, seen, beatKeys, execution, told, always>>
        /\ table' = [table EXCEPT !.change = table.change + 1, !.unmarked = FALSE]
    BY <1>4 DEF MarkChange
  <2>2. table' \in [tasks : SUBSET BeatTasks, change : Nat, unmarked : BOOLEAN]
        /\ table'.tasks = table.tasks /\ table'.change = table.change + 1 /\ table.change \in Nat /\ seen \in Int
    <3> DEFINE next == table.change + 1
    <3>1. table.change \in Nat /\ seen \in Int /\ next \in Nat
      BY <1>1 DEF CeleryTypes
    <3>2. table' = [table EXCEPT !.change = next, !.unmarked = FALSE]
      BY <2>1
    <3> HIDE DEF next
    <3>3. table' \in [tasks : SUBSET BeatTasks, change : Nat, unmarked : BOOLEAN]
          /\ table'.tasks = table.tasks /\ table'.change = next
      BY <1>1, <3>1, <3>2 DEF CeleryTypes
    <3> QED
      BY <3>1, <3>3 DEF next
  <2>3. CeleryTypes'
    BY <1>1, <2>1, <2>2 DEF CeleryTypes
  <2>4. ReadingFollows'
    <3>1. seen <= table'.change /\ seen # table'.change
      BY <1>1, <2>2 DEF ReadingFollows
    <3> QED
      BY <2>1, <3>1 DEF ReadingFollows, ScheduleIsFollowed
  <2>5. AlwaysHeld'
    BY <1>1, <2>1, <2>2 DEF AlwaysHeld
  <2> QED
    BY <1>2, <2>1, <2>3, <2>4, <2>5 DEF CeleryInv
<1>5. CASE CheckDatabase
  <2>1. UNCHANGED <<table, seen, beatKeys, execution, told, always>> /\ reader' = [reader EXCEPT !.at = "marker"]
    BY <1>5 DEF CheckDatabase
  <2>2. reader' \in [at : {"idle", "marker", "entries", "keys"}, found : SUBSET BeatTasks, starting : BOOLEAN]
        /\ reader'.at = "marker" /\ reader'.starting = reader.starting
    BY <1>1, <2>1 DEF CeleryTypes
  <2>3. CeleryTypes'
    BY <1>1, <2>1, <2>2 DEF CeleryTypes
  <2>4. ReadingFollows' /\ AlwaysHeld'
    BY <1>1, <2>1, <2>2 DEF ReadingFollows, ScheduleIsFollowed, AlwaysHeld
  <2> QED
    BY <1>2, <2>1, <2>3, <2>4 DEF CeleryInv
<1>6. CASE ReadMarker
  <2>1. /\ UNCHANGED <<table, beatKeys, execution, told, always>> /\ reader' = [reader EXCEPT !.at = "entries"]
        /\ seen' = table.change
    BY <1>6 DEF ReadMarker
  <2>2. reader' \in [at : {"idle", "marker", "entries", "keys"}, found : SUBSET BeatTasks, starting : BOOLEAN]
        /\ reader'.at = "entries" /\ reader'.starting = reader.starting
    BY <1>1, <2>1 DEF CeleryTypes
  <2>3. CeleryTypes' /\ table.change \in Nat
    BY <1>1, <2>1, <2>2 DEF CeleryTypes
  <2>4. ReadingFollows' /\ AlwaysHeld'
    BY <1>1, <2>1, <2>2, <2>3 DEF ReadingFollows, ScheduleIsFollowed, AlwaysHeld
  <2> QED
    BY <1>2, <2>1, <2>3, <2>4 DEF CeleryInv
<1>7. CASE ReadEntries
  <2>1. /\ UNCHANGED <<table, seen, beatKeys, execution, told, always>>
        /\ reader' = [reader EXCEPT !.at = "keys", !.found = table.tasks]
    BY <1>7 DEF ReadEntries
  <2>2. reader' \in [at : {"idle", "marker", "entries", "keys"}, found : SUBSET BeatTasks, starting : BOOLEAN]
        /\ reader'.at = "keys" /\ reader'.starting = reader.starting /\ reader'.found = table.tasks
    BY <1>1, <2>1 DEF CeleryTypes
  <2>3. CeleryTypes'
    BY <1>1, <2>1, <2>2 DEF CeleryTypes
  <2>4. ReadingFollows' /\ AlwaysHeld'
    BY <1>1, <2>1, <2>2 DEF ReadingFollows, ScheduleIsFollowed, AlwaysHeld
  <2> QED
    BY <1>2, <2>1, <2>3, <2>4 DEF CeleryInv
<1>8. CASE KeepKeys
  <2>1. /\ UNCHANGED <<table, seen, execution, told, always>> /\ reader.at = "keys" /\ beatKeys' = reader.found
        /\ reader' = [at |-> "idle", found |-> {}, starting |-> FALSE]
    BY <1>8 DEF KeepKeys
  <2>2. reader' \in [at : {"idle", "marker", "entries", "keys"}, found : SUBSET BeatTasks, starting : BOOLEAN]
        /\ reader'.at = "idle" /\ ~reader'.starting
    BY <2>1
  <2>3. CeleryTypes'
    BY <1>1, <2>1, <2>2 DEF CeleryTypes
  <2>4. ReadingFollows' /\ AlwaysHeld'
    BY <1>1, <2>1, <2>2 DEF ReadingFollows, ScheduleIsFollowed, AlwaysHeld
  <2> QED
    BY <1>2, <2>1, <2>3, <2>4 DEF CeleryInv
<1>9. ASSUME UNCHANGED <<table, reader, seen, beatKeys, always>>, ~reader.starting
      PROVE  ReadingFollows' /\ AlwaysHeld'
  BY <1>1, <1>9 DEF ReadingFollows, ScheduleIsFollowed, AlwaysHeld
<1>10. ASSUME NEW e \in Executions, execution[e].task \in always, ~reader.starting
       PROVE  HasKey(e)
  BY <1>1, <1>10 DEF AlwaysHeld, HasKey
<1>11. ASSUME NEW e \in Executions, NEW attempts \in Nat, NEW stage \in {"waiting", "running", "over"},
              execution' = [execution EXCEPT ![e] = [task |-> execution[e].task, attempts |-> attempts, stage |-> stage]],
              NEW tells \in Seq(Told), told' = [told EXCEPT ![e] = tells],
              UNCHANGED <<table, reader, seen, beatKeys, always>>, ~reader.starting,
              execution[e].task \in always =>
                  IF stage = "over" THEN /\ Len(tells) = attempts + 1 /\ \A n \in 1..attempts : tells[n] = "start"
                                         /\ tells[attempts + 1] # "start"
                                    ELSE Len(tells) = attempts /\ \A n \in 1..attempts : tells[n] = "start"
       PROVE  CeleryInv'
  <2> DEFINE row == [task |-> execution[e].task, attempts |-> attempts, stage |-> stage]
  <2>1. row \in [task : BeatTasks, attempts : Nat, stage : {"waiting", "running", "over"}]
    BY <1>1, <1>11 DEF CeleryTypes
  <2>2. row.task = execution[e].task /\ row.attempts = attempts /\ row.stage = stage
    OBVIOUS
  <2> HIDE DEF row
  <2>3. /\ execution' \in [Executions -> [task : BeatTasks, attempts : Nat, stage : {"waiting", "running", "over"}]]
        /\ execution'[e] = row /\ \A f \in Executions : f # e => execution'[f] = execution[f]
        /\ told' \in [Executions -> Seq(Told)] /\ told'[e] = tells
        /\ \A f \in Executions : f # e => told'[f] = told[f]
    BY <1>1, <1>11, <2>1 DEF CeleryTypes, row
  <2>4. CeleryTypes'
    BY <1>1, <1>11, <2>3 DEF CeleryTypes
  <2>5. AttemptsAreTold'
    <3>1. ASSUME NEW f \in Executions, execution'[f].task \in always', f # e
          PROVE  IF execution'[f].stage = "over" THEN OneEnd(f)' ELSE OnlyStarts(f)'
      BY <1>1, <1>11, <2>3, <3>1 DEF AttemptsAreTold, OneEnd, OnlyStarts
    <3>2. ASSUME execution'[e].task \in always'
          PROVE  IF execution'[e].stage = "over" THEN OneEnd(e)' ELSE OnlyStarts(e)'
      BY <1>11, <2>2, <2>3, <3>2 DEF OneEnd, OnlyStarts
    <3> QED
      BY <3>1, <3>2 DEF AttemptsAreTold
  <2> QED
    BY <1>9, <1>11, <2>4, <2>5 DEF CeleryInv
<1>12. ASSUME NEW e \in Executions
       PROVE  /\ execution[e].task \in BeatTasks /\ execution[e].attempts \in Nat /\ told[e] \in Seq(Told)
              /\ told = [told EXCEPT ![e] = told[e]]
  BY <1>1 DEF CeleryTypes
<1>13. ASSUME NEW e \in Executions, Prerun(e)
       PROVE  CeleryInv'
  <2> DEFINE attempts == execution[e].attempts + 1
             tells == IF HasKey(e) THEN Append(told[e], "start") ELSE told[e]
  <2>1. /\ ~reader.starting /\ execution[e].stage = "waiting" /\ UNCHANGED <<table, reader, seen, beatKeys, always>>
        /\ execution' = [execution EXCEPT ![e] = [task |-> execution[e].task, attempts |-> attempts, stage |-> "running"]]
    <3>1. execution' = [execution EXCEPT ![e] = [execution[e] EXCEPT !.stage = "running", !.attempts = attempts]]
      BY <1>13 DEF Prerun
    <3>2. [execution[e] EXCEPT !.stage = "running", !.attempts = attempts]
          = [task |-> execution[e].task, attempts |-> attempts, stage |-> "running"]
      <4>1. execution[e] \in [task : BeatTasks, attempts : Nat, stage : {"waiting", "running", "over"}]
        BY <1>1 DEF CeleryTypes
      <4> HIDE DEF attempts
      <4> QED
        BY <4>1, RowGoesOn
    <3> QED
      BY <1>13, <3>1, <3>2 DEF Prerun
  <2>2. tells \in Seq(Told) /\ attempts \in Nat /\ "start" \in Told
    <3>1. "start" \in Told
      BY DEF Told
    <3> QED
      BY <1>12, <3>1, OneMoreTold
  <2>3. told' = [told EXCEPT ![e] = tells]
    BY <1>12, <1>13 DEF Prerun
  <2>4. ASSUME execution[e].task \in always
        PROVE  Len(tells) = attempts /\ \A n \in 1..attempts : tells[n] = "start"
    <3>1. Len(told[e]) = execution[e].attempts /\ \A n \in 1..execution[e].attempts : told[e][n] = "start"
      BY <1>1, <2>1, <2>4 DEF AttemptsAreTold, OnlyStarts
    <3>2. tells = Append(told[e], "start")
      BY <1>10, <2>1, <2>4
    <3>3. /\ Len(tells) = Len(told[e]) + 1
          /\ \A n \in 1..Len(told[e]) : tells[n] = told[e][n]
          /\ tells[Len(told[e]) + 1] = "start"
      <4> HIDE DEF tells
      <4> QED
        BY <1>12, <2>2, <3>2, OneMoreTold
    <3> HIDE DEF tells
    <3> QED
      BY <1>12, <3>1, <3>3
  <2> HIDE DEF tells, attempts
  <2> QED
    BY <1>11, <2>1, <2>2, <2>3, <2>4
<1>14. ASSUME NEW e \in Executions, NEW state \in States, Postrun(e, state)
       PROVE  CeleryInv'
  <2> DEFINE attempts == execution[e].attempts
             stage == IF state = "RETRY" THEN "waiting" ELSE "over"
             tells == IF HasKey(e) /\ state # "RETRY" THEN Append(told[e], state) ELSE told[e]
  <2>1. /\ execution[e].stage = "running" /\ UNCHANGED <<table, reader, seen, beatKeys, always>>
        /\ execution' = [execution EXCEPT ![e] = [task |-> execution[e].task, attempts |-> attempts, stage |-> stage]]
    <3>1. execution' = [execution EXCEPT ![e] = [execution[e] EXCEPT !.stage = stage]]
      BY <1>14 DEF Postrun
    <3>2. [execution[e] EXCEPT !.stage = stage] = [task |-> execution[e].task, attempts |-> attempts, stage |-> stage]
      <4> HIDE DEF stage
      <4> QED
        BY <1>1 DEF CeleryTypes
    <3> QED
      BY <1>14, <3>1, <3>2 DEF Postrun
  <2>2. ~reader.starting
    BY <1>1, <2>1 DEF AlwaysHeld
  <2>3. state # "RETRY" => state \in Told /\ state # "start"
    BY DEF States, Told
  <2>4. tells \in Seq(Told) /\ attempts \in Nat /\ stage \in {"waiting", "running", "over"}
    BY <1>12, <2>3, OneMoreTold
  <2>5. told' = [told EXCEPT ![e] = tells]
    BY <1>12, <1>14 DEF Postrun
  <2>6. ASSUME execution[e].task \in always
        PROVE  IF stage = "over" THEN /\ Len(tells) = attempts + 1 /\ \A n \in 1..attempts : tells[n] = "start"
                                      /\ tells[attempts + 1] # "start"
               ELSE Len(tells) = attempts /\ \A n \in 1..attempts : tells[n] = "start"
    <3>1. Len(told[e]) = attempts /\ \A n \in 1..attempts : told[e][n] = "start"
      BY <1>1, <2>1, <2>6 DEF AttemptsAreTold, OnlyStarts
    <3>2. CASE state = "RETRY"
      BY <3>1, <3>2
    <3>3. CASE state # "RETRY"
      <4>1. tells = Append(told[e], state) /\ stage = "over"
        BY <1>10, <2>2, <2>6, <3>3
      <4>2. /\ Len(tells) = Len(told[e]) + 1
            /\ \A n \in 1..Len(told[e]) : tells[n] = told[e][n]
            /\ tells[Len(told[e]) + 1] = state
        <5> HIDE DEF tells
        <5> QED
          BY <1>12, <2>3, <3>3, <4>1, OneMoreTold
      <4> HIDE DEF tells
      <4> QED
        BY <1>12, <2>3, <3>1, <3>3, <4>1, <4>2
    <3> QED
      BY <3>2, <3>3
  <2> HIDE DEF tells, attempts, stage
  <2> QED
    BY <1>11, <2>1, <2>2, <2>4, <2>5, <2>6
<1>15. CASE UNCHANGED celeryVars
  BY <1>1, <1>2, <1>15 DEF celeryVars, CeleryInv, CeleryTypes, ReadingFollows, ScheduleIsFollowed, AlwaysHeld
<1> QED
  BY <1>3, <1>4, <1>5, <1>6, <1>7, <1>8, <1>13, <1>14, <1>15 DEF CeleryNext

-----------------------------------------------------------------------------
(***************************************************************************)
(* APScheduler's jobs and runs.                                            *)
(***************************************************************************)
Readings == [read : BOOLEAN, jobs : SUBSET ApJobs]

JobTypes ==
    /\ ap \in [jobs : SUBSET ApJobs, up : BOOLEAN, unheard : BOOLEAN]
    /\ readings \in Seq(Readings) /\ Len(readings) <= 1

TimeTypes ==
    /\ now \in 0..MaxSubmissions
    /\ started \in [ApJobs \X Times -> 0..MaxSubmissions]
    /\ going \subseteq ApRuns

\* At most one reading is under way, and what it has read is the schedule, unless the
\* timer is about to have it read again.
Rereads ==
    /\ ~ap.up => readings = <<>> /\ timer = "off" /\ ~ap.unheard
    /\ ap.up /\ ~ap.unheard /\ timer # "armed" /\ readings # <<>> /\ readings[1].read => readings[1].jobs = ap.jobs
    /\ JobsAreFollowed

\* A run under way has an entry of its own, which holds its start if it had a key then.
OwnEntries ==
    /\ \A r \in going : /\ r.time <= 2 * now
                        /\ started[<<r.job, r.time>>] = IF r.known THEN r.since ELSE NoMoment
    /\ \A r, s \in going : r.job = s.job /\ r.time = s.time => r = s
    /\ \A job \in ApJobs : \A time \in Times : time > 2 * now => started[<<job, time>>] = NoMoment
    /\ RunsAreTimedFromTheirOwnStart

JobsInv == JobTypes /\ Rereads
TimesInv == TimeTypes /\ OwnEntries

LEMMA SchedulerInitially == ASSUME SchedulerInit PROVE JobsInv /\ TimesInv
<1> USE SchedulerAssumption
<1>1. JobTypes /\ TimeTypes
  <2>1. readings = <<>> /\ <<>> \in Seq(Readings) /\ Len(<<>>) = 0
    BY DEF SchedulerInit
  <2>2. started \in [ApJobs \X Times -> 0..MaxSubmissions]
    BY DEF SchedulerInit, NoMoment
  <2> QED
    BY <2>1, <2>2 DEF SchedulerInit, JobTypes, TimeTypes
<1>2. Rereads
  BY DEF SchedulerInit, Rereads, JobsAreFollowed
<1>3. OwnEntries
  BY DEF SchedulerInit, OwnEntries, RunsAreTimedFromTheirOwnStart
<1> QED
  BY <1>1, <1>2, <1>3 DEF JobsInv, TimesInv

LEMMA OneReading ==
    ASSUME NEW s \in Seq(Readings), Len(s) <= 1
    PROVE  /\ s # <<>> => Len(s) = 1 /\ s[1] \in Readings /\ DOMAIN s = {1}
           /\ s = <<>> => Len(s) = 0 /\ DOMAIN s = {}
           /\ s = <<>> => \A r \in Readings : Append(s, r) \in Seq(Readings) /\ Len(Append(s, r)) = 1 /\ Append(s, r)[1] = r
                                              /\ Append(s, r) # <<>>
           /\ \A r \in Readings : s # <<>> => /\ [s EXCEPT ![1] = r] \in Seq(Readings) /\ Len([s EXCEPT ![1] = r]) = 1
                                              /\ [s EXCEPT ![1] = r][1] = r /\ [s EXCEPT ![1] = r] # <<>>
           /\ s # <<>> => SubSeq(s, 1, 0) \o SubSeq(s, 2, Len(s)) = <<>>
<1>1. Len(s) \in Nat /\ DOMAIN s = 1..Len(s) /\ (s = <<>> <=> Len(s) = 0) /\ \A n \in 1..Len(s) : s[n] \in Readings
  BY LenProperties, ElementOfSeq, EmptySeq
<1>2. s # <<>> => Len(s) = 1 /\ s[1] \in Readings /\ DOMAIN s = {1}
  BY <1>1
<1>3. s = <<>> => Len(s) = 0 /\ DOMAIN s = {}
  BY <1>1
<1>4. ASSUME NEW r \in Readings, s = <<>>
      PROVE  Append(s, r) \in Seq(Readings) /\ Len(Append(s, r)) = 1 /\ Append(s, r)[1] = r /\ Append(s, r) # <<>>
  BY <1>1, <1>4, AppendProperties
<1>5. ASSUME NEW r \in Readings, s # <<>>
      PROVE  /\ [s EXCEPT ![1] = r] \in Seq(Readings) /\ Len([s EXCEPT ![1] = r]) = 1
             /\ [s EXCEPT ![1] = r][1] = r /\ [s EXCEPT ![1] = r] # <<>>
  BY <1>1, <1>2, <1>5, ExceptSeq
<1>6. s # <<>> => SubSeq(s, 1, 0) \o SubSeq(s, 2, Len(s)) = <<>>
  <2>1. SUFFICES ASSUME s # <<>> PROVE SubSeq(s, 1, 0) = <<>> /\ SubSeq(s, 2, Len(s)) = <<>> /\ <<>> \o <<>> = <<>>
    OBVIOUS
  <2>2. SubSeq(s, 1, 0) = <<>> /\ SubSeq(s, 2, 1) = <<>>
    BY SubSeqEmpty
  <2> QED
    BY <1>2, <2>1, <2>2
<1> QED
  BY <1>2, <1>3, <1>4, <1>5, <1>6

LEMMA RereadsStep ==
    ASSUME JobsInv, ~SlowReads,
           \/ StartScheduler \/ OnJobsChanged \/ TimerFires
           \/ \E jobs \in SUBSET ApJobs : EditJobs(jobs)
           \/ \E n \in DOMAIN readings : ReadJobs(n) \/ KeepJobs(n)
    PROVE  JobsInv'
<1>1. JobTypes /\ Rereads
  BY DEF JobsInv
<1>2. readings \in Seq(Readings) /\ Len(readings) <= 1
      /\ ap \in [jobs : SUBSET ApJobs, up : BOOLEAN, unheard : BOOLEAN]
  BY <1>1 DEF JobTypes
<1>4. ASSUME ap' \in [jobs : SUBSET ApJobs, up : BOOLEAN, unheard : BOOLEAN],
             readings' \in Seq(Readings), Len(readings') <= 1, Rereads'
      PROVE  JobsInv'
  BY <1>4 DEF JobTypes, JobsInv
<1> DEFINE unread == [read |-> FALSE, jobs |-> {}]
<1>5. unread \in Readings /\ ~unread.read
  BY DEF Readings
<1>6. CASE StartScheduler
  <2>1. /\ ~ap.up /\ ap' = [ap EXCEPT !.up = TRUE] /\ readings' = Append(readings, unread) /\ readings = <<>>
    BY <1>1, <1>6 DEF StartScheduler, ReadAgain, Rereads
  <2> HIDE DEF unread
  <2>2. readings' \in Seq(Readings) /\ Len(readings') = 1 /\ readings'[1] = unread /\ readings' # <<>>
    BY <1>2, <1>5, <2>1, OneReading
  <2>3. ap' \in [jobs : SUBSET ApJobs, up : BOOLEAN, unheard : BOOLEAN] /\ ap'.up
    BY <1>2, <2>1
  <2>4. Rereads'
    BY <1>5, <2>2, <2>3 DEF Rereads, JobsAreFollowed
  <2> QED
    BY <1>4, <2>2, <2>3, <2>4
<1>7. CASE OnJobsChanged
  <2>1. /\ ap.unheard /\ ap' = [ap EXCEPT !.unheard = FALSE] /\ timer' = "armed" /\ UNCHANGED readings
    BY <1>7 DEF OnJobsChanged, Rearmed
  <2>2. ap' \in [jobs : SUBSET ApJobs, up : BOOLEAN, unheard : BOOLEAN] /\ ap'.up = ap.up /\ ap.up
    BY <1>1, <1>2, <2>1 DEF Rereads
  <2>3. Rereads'
    BY <2>1, <2>2 DEF Rereads, JobsAreFollowed
  <2> QED
    BY <1>2, <1>4, <2>1, <2>2, <2>3
<1>8. CASE TimerFires
  <2>1. /\ timer = "armed" /\ readings = <<>> /\ timer' = "fired" /\ readings' = Append(readings, unread) /\ UNCHANGED ap
    BY <1>8 DEF TimerFires, ReadAgain
  <2>2. ap.up
    BY <1>1, <2>1 DEF Rereads
  <2> HIDE DEF unread
  <2>3. readings' \in Seq(Readings) /\ Len(readings') = 1 /\ readings'[1] = unread /\ readings' # <<>>
    BY <1>2, <1>5, <2>1, OneReading
  <2>4. Rereads'
    BY <1>5, <2>1, <2>2, <2>3 DEF Rereads, JobsAreFollowed
  <2> QED
    BY <1>2, <1>4, <2>1, <2>3, <2>4
<1>9. ASSUME NEW jobs \in SUBSET ApJobs, EditJobs(jobs)
      PROVE  JobsInv'
  <2>1. /\ ~ap.unheard /\ ap' = [ap EXCEPT !.jobs = jobs, !.unheard = ap.up] /\ UNCHANGED <<timer, readings, apKeys>>
    BY <1>9 DEF EditJobs
  <2>2. ap' \in [jobs : SUBSET ApJobs, up : BOOLEAN, unheard : BOOLEAN] /\ ap'.up = ap.up /\ ap'.unheard = ap.up
    BY <1>2, <2>1
  <2>3. Rereads'
    BY <1>1, <2>1, <2>2 DEF Rereads, JobsAreFollowed
  <2> QED
    BY <1>2, <1>4, <2>1, <2>2, <2>3
<1>10. ASSUME NEW n \in DOMAIN readings, ReadJobs(n)
       PROVE  JobsInv'
  <2> DEFINE reading == [read |-> TRUE, jobs |-> ap.jobs]
  <2>1. readings # <<>> /\ n = 1
    BY <1>2, OneReading
  <2>2. readings' = [readings EXCEPT ![1] = reading] /\ UNCHANGED <<ap, timer>> /\ reading.jobs = ap.jobs /\ reading \in Readings
    BY <1>2, <1>10, <2>1 DEF ReadJobs, Readings
  <2> HIDE DEF reading
  <2>3. readings' \in Seq(Readings) /\ Len(readings') = 1 /\ readings'[1] = reading /\ readings' # <<>>
    BY <1>2, <2>1, <2>2, OneReading
  <2>4. Rereads'
    BY <1>1, <2>1, <2>2, <2>3 DEF Rereads, JobsAreFollowed
  <2> QED
    BY <1>2, <1>4, <2>2, <2>3, <2>4
<1>11. ASSUME NEW n \in DOMAIN readings, KeepJobs(n)
       PROVE  JobsInv'
  <2>1. readings # <<>> /\ n = 1
    BY <1>2, OneReading
  <2>2. /\ readings[1].read /\ apKeys' = readings[1].jobs /\ UNCHANGED <<ap, timer>>
        /\ readings' = SubSeq(readings, 1, 0) \o SubSeq(readings, 2, Len(readings))
    BY <1>11, <2>1 DEF KeepJobs
  <2>3. readings' = <<>> /\ Len(<<>>) = 0 /\ <<>> \in Seq(Readings)
    BY <1>2, <2>1, <2>2, OneReading, EmptySeq
  <2>4. Rereads'
    BY <1>1, <2>1, <2>2, <2>3 DEF Rereads, JobsAreFollowed
  <2> QED
    BY <1>2, <1>4, <2>2, <2>3, <2>4
<1> QED
  BY <1>6, <1>7, <1>8, <1>9, <1>10, <1>11

LEMMA Between == \A x, y, z \in Nat : (x <= y /\ y <= z => x <= z) /\ (z > y /\ x <= y => z > x) /\ ~(y > z /\ y <= z)
OBVIOUS

LEMMA RunsOfJobsStep ==
    ASSUME TimesInv,
           \/ \E job \in ApJobs : \E times \in 1..2 : SubmitRuns(job, times)
           \/ \E ending \in going : RunEnds(ending)
    PROVE  TimesInv'
<1> USE SchedulerAssumption
<1>1. TimeTypes /\ OwnEntries
  BY DEF TimesInv
<1>2. now \in 0..MaxSubmissions /\ started \in [ApJobs \X Times -> 0..MaxSubmissions] /\ going \subseteq ApRuns
      /\ now \in Nat
  BY <1>1 DEF TimeTypes
<1>3. ASSUME now' \in 0..MaxSubmissions,
             started' \in [ApJobs \X Times -> 0..MaxSubmissions], going' \subseteq ApRuns, OwnEntries'
      PROVE  TimesInv'
  BY <1>1, <1>3 DEF TimeTypes, TimesInv
<1>4. \A r \in going : /\ r.job \in ApJobs /\ r.time \in Times /\ r.time \in Nat /\ r.known \in BOOLEAN
                       /\ r.since \in 1..MaxSubmissions
                       /\ r = [job |-> r.job, time |-> r.time, since |-> r.since, known |-> r.known]
  BY <1>2 DEF ApRuns, Times
<1>5. ASSUME NEW job \in ApJobs, NEW times \in 1..2, SubmitRuns(job, times)
      PROVE  TimesInv'
  <2> DEFINE new(time) == [job |-> job, time |-> time, since |-> now + 1, known |-> job \in apKeys]
             moments == {2 * now + n : n \in 1..times}
             fresh == {new(2 * now + n) : n \in 1..times}
  <2>1. /\ now < MaxSubmissions /\ now' = now + 1 /\ going' = going \cup fresh /\ UNCHANGED <<ap, timer, readings, apKeys, ends>>
        /\ started' = IF job \notin apKeys THEN started
                      ELSE [entry \in ApJobs \X Times |->
                               IF \E n \in 1..times : entry = <<job, 2 * now + n>> THEN now + 1 ELSE started[entry]]
    BY <1>5 DEF SubmitRuns, Entry
  <2>2. \A m \in moments : m \in Times /\ m > 2 * now /\ m <= 2 * now' /\ m \in Nat
    <3>1. \A n \in 1..2 : 2 * now + n \in Times /\ 2 * now + n > 2 * now /\ 2 * now + n <= 2 * now'
                          /\ 2 * now + n \in Nat
      BY <1>2, <2>1 DEF Times
    <3>2. 1..times \subseteq 1..2
      OBVIOUS
    <3> QED
      BY <3>1, <3>2
  <2>3. \A r \in fresh : /\ r.time \in moments /\ r.job = job /\ r.since = now + 1 /\ r.known = (job \in apKeys)
                         /\ r = new(r.time)
    OBVIOUS
  <2>4. now + 1 \in 1..MaxSubmissions /\ now' \in 0..MaxSubmissions /\ now' \in Nat /\ 2 * now <= 2 * now'
    BY <1>2, <2>1
  <2>5. going' \subseteq ApRuns
    <3>1. \A m \in moments : new(m) \in ApRuns
      BY <2>2, <2>4 DEF ApRuns
    <3> HIDE DEF new, moments
    <3>2. \A r \in fresh : r \in ApRuns
      BY <2>3, <3>1
    <3> QED
      BY <1>2, <2>1, <3>2
  <2>6. started' \in [ApJobs \X Times -> 0..MaxSubmissions]
        /\ \A j \in ApJobs : \A time \in Times :
               started'[<<j, time>>] = IF job \in apKeys /\ j = job /\ time \in moments THEN now + 1 ELSE started[<<j, time>>]
    BY <1>2, <2>1, <2>4
  <2>8. 2 * now \in Nat /\ 2 * now' \in Nat /\ 2 * now <= 2 * now'
    <3>1. \A n \in Nat : 2 * n \in Nat /\ 2 * n <= 2 * (n + 1)
      OBVIOUS
    <3>2. now \in Nat /\ now' \in Nat /\ now' = now + 1
      BY <1>2, <2>1
    <3> QED
      BY <3>1, <3>2
  <2>7. OwnEntries'
    <3> HIDE DEF new, moments, fresh
    <3>1. ASSUME NEW r \in going
          PROVE  r.time \notin moments /\ r.time <= 2 * now' /\ started'[<<r.job, r.time>>] = started[<<r.job, r.time>>]
      <4>1. r.time <= 2 * now /\ r.time \in Nat /\ r.job \in ApJobs /\ r.time \in Times
        BY <1>1, <1>4 DEF OwnEntries
      <4>2. r.time \notin moments
        BY <1>2, <2>2, <4>1
      <4>3. r.time <= 2 * now'
        BY <2>8, <4>1, Between
      <4>4. started'[<<r.job, r.time>>] = started[<<r.job, r.time>>]
        BY <2>6, <4>1, <4>2
      <4> QED
        BY <4>2, <4>3, <4>4
    <3>2. ASSUME NEW r \in fresh
          PROVE  r.time <= 2 * now' /\ started'[<<r.job, r.time>>] = IF r.known THEN r.since ELSE NoMoment
      <4>1. r.time \in Times /\ r.time > 2 * now /\ r.time <= 2 * now' /\ r.job = job
        BY <2>2, <2>3
      <4>2. started[<<job, r.time>>] = NoMoment
        BY <1>1, <4>1 DEF OwnEntries
      <4> QED
        BY <2>3, <2>6, <4>1, <4>2
    <3>3. \A r \in going' : /\ r.time <= 2 * now'
                            /\ started'[<<r.job, r.time>>] = IF r.known THEN r.since ELSE NoMoment
      BY <1>1, <2>1, <3>1, <3>2 DEF OwnEntries
    <3>4. \A r, s \in going' : r.job = s.job /\ r.time = s.time => r = s
      <4>1. \A r \in going : \A s \in fresh : r.time # s.time
        BY <2>3, <3>1
      <4>2. \A r, s \in fresh : r.time = s.time => r = s
        BY <2>3
      <4> QED
        BY <1>1, <2>1, <4>1, <4>2 DEF OwnEntries
    <3>5. ASSUME NEW j \in ApJobs, NEW time \in Times, time > 2 * now'
          PROVE  started'[<<j, time>>] = NoMoment
      <4>1. time > 2 * now /\ time \notin moments
        <5>1. time \in Nat
          BY DEF Times
        <5>2. time > 2 * now
          BY <2>8, <3>5, <5>1, Between
        <5>3. \A m \in moments : m \in Nat /\ m <= 2 * now'
          BY <2>2
        <5>4. time \notin moments
          BY <2>8, <3>5, <5>1, <5>3, Between
        <5> QED
          BY <5>2, <5>4
      <4> QED
        BY <1>1, <2>6, <4>1 DEF OwnEntries
    <3>6. RunsAreTimedFromTheirOwnStart'
      BY <1>1, <2>1 DEF OwnEntries, RunsAreTimedFromTheirOwnStart
    <3> QED
      BY <3>3, <3>4, <3>5, <3>6 DEF OwnEntries
  <2> QED
    BY <1>3, <2>1, <2>4, <2>5, <2>6, <2>7
<1>6. ASSUME NEW ending \in going, RunEnds(ending)
      PROVE  TimesInv'
  <2> DEFINE entry == <<ending.job, ending.time>>
  <2>1. going' = going \ {ending} /\ UNCHANGED <<ap, timer, readings, apKeys, now>>
    BY <1>6 DEF RunEnds
  <2>2. CASE ending.job \notin apKeys
    <3>1. UNCHANGED <<ends, started>>
      BY <1>6, <2>2 DEF RunEnds
    <3>2. OwnEntries'
      BY <1>1, <2>1, <3>1 DEF OwnEntries, RunsAreTimedFromTheirOwnStart
    <3> QED
      BY <1>2, <1>3, <2>1, <3>1, <3>2
  <2>3. CASE ending.job \in apKeys
    <3>1. /\ ends' = ends \cup {[run |-> ending, from |-> started[entry]]}
          /\ started' = [started EXCEPT ![entry] = NoMoment]
      BY <1>6, <2>3 DEF RunEnds, Entry
    <3>2. entry \in ApJobs \X Times
      BY <1>4
    <3>3. started' \in [ApJobs \X Times -> 0..MaxSubmissions]
      BY <1>2, <3>1, <3>2 DEF NoMoment
    <3>4. \A r \in going' : started'[<<r.job, r.time>>] = started[<<r.job, r.time>>]
      <4>1. \A r \in going' : <<r.job, r.time>> # entry /\ <<r.job, r.time>> \in ApJobs \X Times
        BY <1>1, <1>4, <2>1 DEF OwnEntries
      <4> HIDE DEF entry
      <4> QED
        BY <1>2, <3>1, <4>1
    <3>5. \A job \in ApJobs : \A time \in Times : time > 2 * now' => started'[<<job, time>>] = NoMoment
      <4>1. \A pair \in ApJobs \X Times : started'[pair] \in {NoMoment, started[pair]}
        BY <1>2, <3>1, <3>2
      <4> QED
        BY <1>1, <2>1, <4>1 DEF OwnEntries
    <3>6. RunsAreTimedFromTheirOwnStart'
      <4>1. started[entry] = IF ending.known THEN ending.since ELSE NoMoment
        BY <1>1 DEF OwnEntries
      <4> QED
        BY <1>1, <3>1, <4>1 DEF OwnEntries, RunsAreTimedFromTheirOwnStart
    <3>7. OwnEntries'
      BY <1>1, <2>1, <3>4, <3>5, <3>6 DEF OwnEntries
    <3> QED
      BY <1>2, <1>3, <2>1, <3>3, <3>7
  <2> QED
    BY <2>2, <2>3
<1> QED
  BY <1>5, <1>6

LEMMA SchedulerStep ==
    ASSUME SchedulerNext \/ UNCHANGED schedulerVars
    PROVE  (~SlowReads /\ JobsInv => JobsInv') /\ (TimesInv => TimesInv')
<1>1. ASSUME UNCHANGED <<ap, timer, readings, apKeys>>, JobsInv
      PROVE  JobsInv'
  BY <1>1 DEF JobsInv, JobTypes, Rereads, JobsAreFollowed
<1>2. ASSUME UNCHANGED <<now, started, going, ends>>, TimesInv
      PROVE  TimesInv'
  BY <1>2 DEF TimesInv, TimeTypes, OwnEntries, RunsAreTimedFromTheirOwnStart
<1>3. CASE UNCHANGED schedulerVars
  BY <1>1, <1>2, <1>3 DEF schedulerVars
<1>4. CASE \/ StartScheduler \/ OnJobsChanged \/ TimerFires
           \/ \E jobs \in SUBSET ApJobs : EditJobs(jobs)
           \/ \E n \in DOMAIN readings : ReadJobs(n) \/ KeepJobs(n)
  <2>1. UNCHANGED <<now, started, going, ends>>
    BY <1>4 DEF StartScheduler, OnJobsChanged, TimerFires, EditJobs, ReadJobs, KeepJobs
  <2>2. ASSUME ~SlowReads, JobsInv
        PROVE  JobsInv'
    BY <1>4, <2>2, RereadsStep
  <2> QED
    BY <1>2, <2>1, <2>2
<1>5. CASE \/ \E job \in ApJobs : \E times \in 1..2 : SubmitRuns(job, times)
           \/ \E ending \in going : RunEnds(ending)
  <2>1. UNCHANGED <<ap, timer, readings, apKeys>>
    BY <1>5 DEF SubmitRuns, RunEnds
  <2>2. TimesInv => TimesInv'
    BY <1>5, RunsOfJobsStep
  <2> QED
    BY <1>1, <2>1, <2>2
<1> QED
  BY <1>3, <1>4, <1>5 DEF SchedulerNext

-----------------------------------------------------------------------------
(***************************************************************************)
(* The heartbeats of a Python process.                                     *)
(***************************************************************************)
Outboxes ==
    [state : {"absent", "up", "exited"}, queue : Seq(Beats), thread : [Threads -> Beats \cup {Waiting, NoThread}],
     made : Nat, last : Nat]

\* What waits and what is being sent is newer than what was sent, each in its turn.
InOrder(box) ==
    /\ box.thread[2] = NoThread /\ box.last <= box.made
    /\ \A n \in 1..Len(box.queue) : box.queue[n].number > box.last /\ box.queue[n].number <= box.made
    /\ \A n, m \in 1..Len(box.queue) : n < m => box.queue[n].number < box.queue[m].number
    /\ box.thread[1] \in Beats =>
          /\ box.thread[1].number > box.last /\ box.thread[1].number <= box.made
          /\ \A n \in 1..Len(box.queue) : box.thread[1].number < box.queue[n].number

PySenderInv ==
    /\ outbox \in [PyProcesses -> Outboxes]
    /\ \A p \in PyProcesses : InOrder(outbox[p]) /\ (outbox[p].state = "absent" => outbox[p].last = 0)

LEMMA NoBeats == Waiting \notin Beats /\ NoThread \notin Beats /\ Waiting # NoThread
BY DEF Waiting, NoThread, Beats

LEMMA FreshIs ==
    ASSUME NEW state \in {"absent", "up", "exited"}
    PROVE  Fresh(state) \in Outboxes /\ InOrder(Fresh(state)) /\ Fresh(state).last = 0
<1>1. /\ Fresh(state).queue = <<>> /\ Fresh(state).last = 0 /\ Fresh(state).made = 0
      /\ Fresh(state).thread = [t \in Threads |-> NoThread]
  BY DEF Fresh
<1>2. Len(<<>>) = 0 /\ <<>> \in Seq(Beats)
  OBVIOUS
<1>3. Fresh(state) \in Outboxes
  BY <1>2 DEF Fresh, Outboxes
<1>4. Fresh(state).thread[1] = NoThread /\ Fresh(state).thread[2] = NoThread
  BY <1>1 DEF Threads
<1> QED
  BY <1>1, <1>2, <1>3, <1>4, NoBeats DEF InOrder

LEMMA PySenderInitially == ASSUME PySenderInit PROVE PySenderInv
<1> DEFINE state(p) == IF p = "parent" THEN "up" ELSE "absent"
<1>1. outbox = [p \in PyProcesses |-> Fresh(state(p))]
  BY DEF PySenderInit
<1>2. \A p \in PyProcesses : /\ Fresh(state(p)) \in Outboxes /\ InOrder(Fresh(state(p)))
                             /\ Fresh(state(p)).last = 0
  BY FreshIs
<1> QED
  BY <1>1, <1>2 DEF PySenderInv

\* One process goes on.
LEMMA OutboxMoves ==
    ASSUME PySenderInv, NEW p \in PyProcesses, NEW box \in Outboxes, outbox' = [outbox EXCEPT ![p] = box],
           InOrder(box), box.state # "absent", box.last >= outbox[p].last
    PROVE  PySenderInv' /\ \A q \in PyProcesses : outbox[q].last' # outbox[q].last => outbox[q].last' > outbox[q].last
<1>1. /\ outbox' \in [PyProcesses -> Outboxes] /\ outbox'[p] = box
      /\ \A q \in PyProcesses : q # p => outbox'[q] = outbox[q]
  BY DEF PySenderInv
<1>2. PySenderInv'
  BY <1>1 DEF PySenderInv
<1>3. box.last \in Nat /\ outbox[p].last \in Nat
  BY DEF PySenderInv, Outboxes
<1>4. \A q \in PyProcesses : outbox'[q].last # outbox[q].last => outbox'[q].last > outbox[q].last
  BY <1>1, <1>3
<1> QED
  BY <1>2, <1>4

\* The queue without its first, and with one more at its end.
LEMMA QueueShrinks ==
    ASSUME NEW s \in Seq(Beats), s # <<>>
    PROVE  /\ Tail(s) \in Seq(Beats) /\ Len(Tail(s)) = Len(s) - 1 /\ Len(s) \in Nat \ {0} /\ Head(s) = s[1]
           /\ s[1] \in Beats /\ \A n \in 1..Len(s) - 1 : Tail(s)[n] = s[n + 1]
BY HeadTailProperties, LenProperties, EmptySeq, ElementOfSeq

LEMMA ShrunkInOrder ==
    ASSUME NEW s \in Seq(Beats), s # <<>>, \A n, m \in 1..Len(s) : n < m => s[n].number < s[m].number
    PROVE  /\ \A n \in 1..Len(Tail(s)) : n + 1 \in 1..Len(s) /\ Tail(s)[n] = s[n + 1] /\ s[1].number < Tail(s)[n].number
           /\ \A n, m \in 1..Len(Tail(s)) : n < m => Tail(s)[n].number < Tail(s)[m].number
<1>1. /\ Len(Tail(s)) = Len(s) - 1 /\ Len(s) \in Nat \ {0} /\ \A n \in 1..Len(s) - 1 : Tail(s)[n] = s[n + 1]
  BY QueueShrinks
<1>2. \A n \in 1..Len(Tail(s)) : n + 1 \in 1..Len(s) /\ 1 \in 1..Len(s) /\ 1 < n + 1 /\ Tail(s)[n] = s[n + 1]
  BY <1>1
<1>3. \A n, m \in 1..Len(Tail(s)) : n < m => n + 1 < m + 1
  OBVIOUS
<1> QED
  BY <1>2, <1>3

LEMMA GrownInOrder ==
    ASSUME NEW s \in Seq(Beats), NEW beat \in Beats,
           \A n \in 1..Len(s) : s[n].number < beat.number,
           \A n, m \in 1..Len(s) : n < m => s[n].number < s[m].number
    PROVE  /\ Append(s, beat) \in Seq(Beats)
           /\ \A n \in 1..Len(Append(s, beat)) : Append(s, beat)[n] = beat \/ (n \in 1..Len(s) /\ Append(s, beat)[n] = s[n])
           /\ \A n, m \in 1..Len(Append(s, beat)) : n < m => Append(s, beat)[n].number < Append(s, beat)[m].number
<1>1. /\ Append(s, beat) \in Seq(Beats) /\ Len(Append(s, beat)) = Len(s) + 1 /\ Len(s) \in Nat
      /\ \A n \in 1..Len(s) : Append(s, beat)[n] = s[n]
      /\ Append(s, beat)[Len(s) + 1] = beat
  BY AppendProperties, LenProperties
<1> DEFINE r == Append(s, beat)
<1> HIDE DEF r
<1>2. \A n \in 1..Len(s) + 1 : n = Len(s) + 1 \/ n \in 1..Len(s)
  BY <1>1
<1>3. \A n, m \in 1..Len(s) + 1 : n < m => n \in 1..Len(s)
  BY <1>1
<1> QED
  BY <1>1, <1>2, <1>3

LEMMA PySenderStep ==
    ASSUME PySenderInv, PySenderNext \/ UNCHANGED pySenderVars
    PROVE  PySenderInv' /\ \A q \in PyProcesses : outbox[q].last' # outbox[q].last => outbox[q].last' > outbox[q].last
<1>1. ASSUME NEW p \in PyProcesses
      PROVE  /\ outbox[p] \in Outboxes /\ InOrder(outbox[p]) /\ outbox[p].queue \in Seq(Beats)
             /\ Len(outbox[p].queue) \in Nat /\ outbox[p].made \in Nat /\ outbox[p].last \in Nat
             /\ outbox[p].thread \in [Threads -> Beats \cup {Waiting, NoThread}]
             /\ \A n \in 1..Len(outbox[p].queue) : outbox[p].queue[n] \in Beats
  <2>1. outbox[p] \in Outboxes /\ InOrder(outbox[p])
    BY DEF PySenderInv
  <2>2. outbox[p].queue \in Seq(Beats) /\ outbox[p].thread \in [Threads -> Beats \cup {Waiting, NoThread}]
        /\ outbox[p].made \in Nat /\ outbox[p].last \in Nat
    BY <2>1 DEF Outboxes
  <2> QED
    BY <2>1, <2>2, LenProperties, ElementOfSeq
<1>2. \A beat \in Beats : beat.number \in Nat
  BY DEF Beats
<1>3. 1 \in Threads /\ 2 \in Threads /\ \A t \in Threads : t = 1 \/ t = 2
  BY DEF Threads
<1>4. CASE UNCHANGED outbox
  <2>1. PySenderInv'
    BY <1>4 DEF PySenderInv
  <2>2. \A q \in PyProcesses : outbox'[q].last = outbox[q].last
    BY <1>4
  <2> QED
    BY <2>1, <2>2
<1>5. CASE ForkSender
  <2>1. /\ outbox["child"].state = "absent" /\ outbox' = [outbox EXCEPT !["child"] = Fresh("up")]
        /\ "child" \in PyProcesses
    BY <1>5 DEF ForkSender, PyProcesses
  <2>2. Fresh("up") \in Outboxes /\ InOrder(Fresh("up")) /\ Fresh("up").last = 0 /\ Fresh("up").state = "up"
    <3>1. Fresh("up").state = "up"
      BY DEF Fresh
    <3> QED
      BY <3>1, FreshIs
  <2>3. outbox["child"].last = 0
    BY <2>1 DEF PySenderInv
  <2>4. Fresh("up").last >= outbox["child"].last
    BY <2>2, <2>3
  <2> QED
    BY <2>1, <2>2, <2>4, OutboxMoves
<1>6. ASSUME NEW p \in PyProcesses, FlushAndExit(p)
      PROVE  PySenderInv' /\ \A q \in PyProcesses : outbox[q].last' # outbox[q].last => outbox[q].last' > outbox[q].last
  <2> DEFINE box == [outbox[p] EXCEPT !.state = "exited"]
  <2>1. outbox' = [outbox EXCEPT ![p] = box]
    BY <1>6 DEF FlushAndExit
  <2>2. /\ box \in Outboxes /\ box.state = "exited" /\ box.queue = outbox[p].queue /\ box.thread = outbox[p].thread
        /\ box.made = outbox[p].made /\ box.last = outbox[p].last
    BY <1>1 DEF Outboxes
  <2> HIDE DEF box
  <2>3. InOrder(box) /\ box.last >= outbox[p].last
    BY <1>1, <2>2 DEF InOrder
  <2> QED
    BY <2>1, <2>2, <2>3, OutboxMoves
<1>7. ASSUME NEW p \in PyProcesses, NEW job \in PyJobs, Submit(p, job)
      PROVE  PySenderInv' /\ \A q \in PyProcesses : outbox[q].last' # outbox[q].last => outbox[q].last' > outbox[q].last
  <2> DEFINE old == outbox[p].queue
             made == outbox[p].made + 1
             beat == [number |-> made, job |-> job]
             kept == IF Len(old) = PyCapacity THEN Tail(old) ELSE old
             queue == Append(kept, beat)
             thread == EnsureThread(outbox[p].thread)
             box == [outbox[p] EXCEPT !.made = made, !.thread = thread, !.queue = queue]
  <2>1. outbox' = [outbox EXCEPT ![p] = box] /\ outbox[p].state = "up" /\ outbox[p].made < MaxReports
    BY <1>7 DEF Submit
  <2>2. beat \in Beats /\ made \in Nat /\ beat.number = made
    BY <1>1, <2>1, PythonSenderAssumption DEF Beats
  <2>3. /\ \A n \in 1..Len(old) : old[n].number > outbox[p].last /\ old[n].number <= outbox[p].made /\ old[n] \in Beats
        /\ \A n, m \in 1..Len(old) : n < m => old[n].number < old[m].number
        /\ outbox[p].thread[1] \in Beats => \A n \in 1..Len(old) : outbox[p].thread[1].number < old[n].number
        /\ old \in Seq(Beats) /\ Len(old) \in Nat
    BY <1>1 DEF InOrder
  <2>4. /\ kept \in Seq(Beats)
        /\ \A n \in 1..Len(kept) : \E m \in 1..Len(old) : kept[n] = old[m]
        /\ \A n, m \in 1..Len(kept) : n < m => kept[n].number < kept[m].number
    <3>1. CASE Len(old) = PyCapacity
      <4>1. old # <<>> /\ kept = Tail(old)
        BY <3>1, PythonSenderAssumption
      <4> HIDE DEF old, kept
      <4>2. /\ Tail(old) \in Seq(Beats)
            /\ \A n \in 1..Len(Tail(old)) : n + 1 \in 1..Len(old) /\ Tail(old)[n] = old[n + 1]
            /\ \A n, m \in 1..Len(Tail(old)) : n < m => Tail(old)[n].number < Tail(old)[m].number
        BY <2>3, <4>1, QueueShrinks, ShrunkInOrder
      <4> QED
        BY <4>1, <4>2
    <3>2. CASE Len(old) # PyCapacity
      <4>1. kept = old
        BY <3>2
      <4> HIDE DEF old, kept
      <4> QED
        BY <2>3, <4>1
    <3> QED
      BY <3>1, <3>2
  <2>5. \A n \in 1..Len(kept) : kept[n].number > outbox[p].last /\ kept[n].number <= outbox[p].made /\ kept[n] \in Beats
                                /\ (outbox[p].thread[1] \in Beats => outbox[p].thread[1].number < kept[n].number)
    <3> HIDE DEF old, kept
    <3> QED
      BY <2>3, <2>4
  <2>6. \A n \in 1..Len(kept) : kept[n].number < made /\ kept[n].number <= made
    <3>1. \A x \in Nat : x <= outbox[p].made => x < made /\ x <= made
      BY <1>1
    <3> HIDE DEF kept, made
    <3> QED
      BY <1>2, <2>5, <3>1
  <2>7. /\ queue \in Seq(Beats)
        /\ \A n \in 1..Len(queue) : queue[n] = beat \/ (n \in 1..Len(kept) /\ queue[n] = kept[n])
        /\ \A n, m \in 1..Len(queue) : n < m => queue[n].number < queue[m].number
    <3> HIDE DEF kept, beat, made
    <3> QED
      BY <2>2, <2>4, <2>6, GrownInOrder
  <2>8. /\ thread \in [Threads -> Beats \cup {Waiting, NoThread}] /\ thread[2] = NoThread
        /\ thread[1] \in Beats => thread[1] = outbox[p].thread[1]
    <3>1. thread \in [Threads -> Beats \cup {Waiting, NoThread}]
      BY <1>1, <1>3 DEF EnsureThread
    <3>2. outbox[p].thread[2] = NoThread
      BY <1>1 DEF InOrder
    <3> QED
      BY <1>1, <1>3, <3>1, <3>2, NoBeats DEF EnsureThread
  <2>9. /\ box \in Outboxes /\ box.state = "up" /\ box.queue = queue /\ box.thread = thread
        /\ box.made = made /\ box.last = outbox[p].last
    <3> HIDE DEF queue, thread, made
    <3> QED
      BY <1>1, <2>1, <2>2, <2>7, <2>8 DEF Outboxes
  <2>10. made > outbox[p].last /\ outbox[p].last <= made /\ made > outbox[p].made
    BY <1>1 DEF InOrder
  <2>11. outbox[p].thread[1] \in Beats => /\ outbox[p].thread[1].number > outbox[p].last
                                         /\ outbox[p].thread[1].number <= outbox[p].made
                                         /\ outbox[p].thread[1].number < made
    <3>1. outbox[p].thread[1] \in Beats => /\ outbox[p].thread[1].number > outbox[p].last
                                           /\ outbox[p].thread[1].number <= outbox[p].made
      BY <1>1 DEF InOrder
    <3> QED
      BY <1>1, <1>2, <3>1
  <2> HIDE DEF box, queue, kept, beat, thread, made
  <2>12. InOrder(box)
    <3>1. \A n \in 1..Len(queue) : queue[n].number > outbox[p].last /\ queue[n].number <= made
                                   /\ (outbox[p].thread[1] \in Beats => outbox[p].thread[1].number < queue[n].number)
      BY <2>2, <2>5, <2>6, <2>7, <2>10, <2>11
    <3>2. outbox[p].thread[1] \in Beats => outbox[p].thread[1].number <= made
      BY <1>2, <2>2, <2>11
    <3> QED
      BY <2>7, <2>8, <2>9, <2>10, <2>11, <3>1, <3>2 DEF InOrder
  <2>13. box.last >= outbox[p].last
    BY <1>1, <2>9
  <2> QED
    BY <2>1, <2>9, <2>12, <2>13, OutboxMoves
<1>8. ASSUME NEW p \in PyProcesses, NEW t \in Threads, TakeBeat(p, t)
      PROVE  PySenderInv' /\ \A q \in PyProcesses : outbox[q].last' # outbox[q].last => outbox[q].last' > outbox[q].last
  <2> DEFINE old == outbox[p].queue
             box == [outbox[p] EXCEPT !.thread = [outbox[p].thread EXCEPT ![1] = Head(old)], !.queue = Tail(old)]
  <2>1. outbox[p].thread[t] = Waiting /\ old # <<>> /\ outbox[p].state = "up"
    BY <1>8 DEF TakeBeat
  <2>2. t = 1
    BY <1>1, <1>3, <2>1, NoBeats DEF InOrder
  <2>3. outbox' = [outbox EXCEPT ![p] = box]
    BY <1>8, <2>2 DEF TakeBeat
  <2>4. /\ \A n \in 1..Len(old) : old[n].number > outbox[p].last /\ old[n].number <= outbox[p].made
        /\ \A n, m \in 1..Len(old) : n < m => old[n].number < old[m].number
        /\ old \in Seq(Beats) /\ outbox[p].thread[2] = NoThread /\ outbox[p].last <= outbox[p].made
    BY <1>1 DEF InOrder
  <2>5. /\ Tail(old) \in Seq(Beats) /\ Head(old) = old[1] /\ old[1] \in Beats /\ 1 \in 1..Len(old)
        /\ \A n \in 1..Len(Tail(old)) : n + 1 \in 1..Len(old) /\ Tail(old)[n] = old[n + 1] /\ old[1].number < Tail(old)[n].number
        /\ \A n, m \in 1..Len(Tail(old)) : n < m => Tail(old)[n].number < Tail(old)[m].number
    <3>1. Len(old) \in Nat \ {0}
      BY <2>1, <2>4, QueueShrinks
    <3> HIDE DEF old
    <3> QED
      BY <2>1, <2>4, <3>1, QueueShrinks, ShrunkInOrder
  <2> DEFINE thread == [outbox[p].thread EXCEPT ![1] = old[1]]
  <2>6. thread \in [Threads -> Beats \cup {Waiting, NoThread}] /\ thread[1] = old[1] /\ thread[2] = NoThread
    BY <1>1, <1>3, <2>4, <2>5
  <2>7. /\ box \in Outboxes /\ box.state = "up" /\ box.queue = Tail(old) /\ box.thread = thread
        /\ box.made = outbox[p].made /\ box.last = outbox[p].last
    <3> DEFINE rest == Tail(old)
    <3>1. box = [outbox[p] EXCEPT !.thread = thread, !.queue = rest]
      BY <2>5
    <3> HIDE DEF box, thread, rest
    <3>2. rest \in Seq(Beats)
      BY <2>5 DEF rest
    <3>3. /\ box \in Outboxes /\ box.state = "up" /\ box.queue = rest /\ box.thread = thread
          /\ box.made = outbox[p].made /\ box.last = outbox[p].last
      BY <1>1, <2>1, <2>6, <3>1, <3>2 DEF Outboxes
    <3> QED
      BY <3>3 DEF rest
  <2> HIDE DEF box, thread
  <2>8. InOrder(box)
    BY <2>4, <2>5, <2>6, <2>7 DEF InOrder
  <2>9. box.last >= outbox[p].last
    BY <1>1, <2>7
  <2> QED
    BY <2>3, <2>7, <2>8, <2>9, OutboxMoves
<1>9. ASSUME NEW p \in PyProcesses, NEW t \in Threads, DeliverBeat(p, t)
      PROVE  PySenderInv' /\ \A q \in PyProcesses : outbox[q].last' # outbox[q].last => outbox[q].last' > outbox[q].last
  <2> DEFINE beat == outbox[p].thread[1]
             last == IF beat.job \in pingKeys[p] THEN beat.number ELSE outbox[p].last
             thread == [outbox[p].thread EXCEPT ![1] = Waiting]
             box == [outbox[p] EXCEPT !.thread = thread, !.last = last]
  <2>1. outbox[p].thread[t] \in Beats /\ outbox[p].state = "up"
    BY <1>9 DEF DeliverBeat
  <2>2. t = 1
    BY <1>1, <1>3, <2>1, NoBeats DEF InOrder
  <2>3. outbox' = [outbox EXCEPT ![p] = box]
    BY <1>9, <2>2 DEF DeliverBeat
  <2>4. /\ beat \in Beats /\ beat.number \in Nat /\ beat.number > outbox[p].last /\ beat.number <= outbox[p].made
        /\ \A n \in 1..Len(outbox[p].queue) : beat.number < outbox[p].queue[n].number
    BY <1>1, <1>2, <2>1, <2>2 DEF InOrder
  <2>5. /\ last \in Nat /\ last >= outbox[p].last /\ last <= outbox[p].made
        /\ \A n \in 1..Len(outbox[p].queue) : outbox[p].queue[n].number > last
    <3>1. CASE last = beat.number
      BY <1>1, <1>2, <2>4, <3>1
    <3>2. CASE last = outbox[p].last
      BY <1>1, <3>2 DEF InOrder
    <3> QED
      BY <3>1, <3>2
  <2>6. thread \in [Threads -> Beats \cup {Waiting, NoThread}] /\ thread[1] = Waiting /\ thread[2] = NoThread
    BY <1>1, <1>3 DEF InOrder
  <2> HIDE DEF last, thread
  <2>7. /\ box \in Outboxes /\ box.state = "up" /\ box.queue = outbox[p].queue /\ box.thread = thread
        /\ box.made = outbox[p].made /\ box.last = last
    BY <1>1, <2>1, <2>5, <2>6 DEF Outboxes
  <2> HIDE DEF box
  <2>8. InOrder(box)
    BY <1>1, <2>5, <2>6, <2>7, NoBeats DEF InOrder
  <2> QED
    BY <2>3, <2>5, <2>7, <2>8, OutboxMoves
<1>10. (UNCHANGED pySenderVars \/ \E p \in PyProcesses : \E given \in SUBSET PyJobs : Register(p, given)) => UNCHANGED outbox
  BY DEF pySenderVars, Register
<1> QED
  BY <1>4, <1>5, <1>6, <1>7, <1>8, <1>9, <1>10 DEF PySenderNext

-----------------------------------------------------------------------------
(***************************************************************************)
(* The Python monitor: whoever holds its lock goes through what it knew    *)
(* when it took it, and nothing it knows changes until it lets go.         *)
(***************************************************************************)
Monitors == [up : BOOLEAN, known : SUBSET Jobs, registered : BOOLEAN, backedOff : BOOLEAN, keys : SUBSET Jobs]
Stages == {"idle", "lock", "sync", "ready"}
Progress == [todo : [Environments -> SUBSET Jobs], found : SUBSET Jobs, complete : BOOLEAN]

MonitorTypes ==
    /\ process \in [Processes -> Monitors]
    /\ holder \in [Processes -> Callers \cup {"nobody", "lost"}]
    /\ declaration \in [Processes -> Progress]
    /\ caller \in [Processes -> [Callers -> Stages]]

\* Nothing else is left to do, and nothing is missing unless a call has failed.
GoesThrough(d, jobs) ==
    /\ jobs # {} /\ d.found \subseteq jobs
    /\ d.complete => \A j \in jobs : j \in d.found \/ \E e \in Environments : j \in d.todo[e]
    /\ \A e \in Environments : d.todo[e] \subseteq jobs

HoldersGoThrough ==
    \A p \in Processes :
        IF holder[p] \in Callers
        THEN GoesThrough(declaration[p], SupportedJobs(process[p].known))
        ELSE declaration[p] = NoDeclaration

\* A process that does not run yet.
NotForked ==
    /\ process["parent"].up
    /\ \A p \in Processes : ~process[p].up => holder[p] = "nobody" /\ \A c \in Callers : caller[p][c] = "idle"

MonitorInv == MonitorTypes /\ HoldersGoThrough /\ NotForked /\ RegisteredIsComplete

LEMMA MonitorInitially == ASSUME PythonInit PROVE MonitorInv
<1> USE DEF PythonInit
<1>1. MonitorTypes
  <2>1. process \in [Processes -> Monitors]
    BY DEF Monitors
  <2>2. NoDeclaration \in Progress
    BY DEF NoDeclaration, NoGroups, Progress
  <2>3. holder \in [Processes -> Callers \cup {"nobody", "lost"}] /\ declaration \in [Processes -> Progress]
    BY <2>2
  <2>4. caller \in [Processes -> [Callers -> Stages]]
    BY DEF Stages
  <2> QED
    BY <2>1, <2>3, <2>4 DEF MonitorTypes
<1>2. HoldersGoThrough
  BY DEF HoldersGoThrough, Callers, Processes
<1>3. NotForked /\ RegisteredIsComplete
  BY DEF NotForked, RegisteredIsComplete, Processes, Callers
<1> QED
  BY <1>1, <1>2, <1>3 DEF MonitorInv

\* Every job has its group.
LEMMA SplitCovers ==
    ASSUME NEW jobs \in SUBSET Jobs
    PROVE  /\ Split(jobs) \in [Environments -> SUBSET Jobs]
           /\ \A e \in Environments : Split(jobs)[e] \subseteq jobs
           /\ \A j \in jobs : \E e \in Environments : j \in Split(jobs)[e]
<1> DEFINE apart == IF Host \in Named THEN jobs \cap (PerInstance \ SingleRun) ELSE {}
<1>1. Shared \in Environments /\ Host \in Environments /\ Host # Shared
  BY PythonAssumption, DeclarationAssumption DEF Environments
<1>2. Split(jobs) = [e \in Environments |-> CASE e = Shared -> jobs \ apart
                                              [] e = Host /\ e # Shared -> apart
                                              [] OTHER -> {}]
  BY DEF Split, Groups
<1>3. apart \subseteq jobs
  OBVIOUS
<1> HIDE DEF apart
<1>4. Split(jobs)[Shared] = jobs \ apart /\ Split(jobs)[Host] = apart
  BY <1>1, <1>2
<1>5. \A e \in Environments : Split(jobs)[e] = jobs \ apart \/ Split(jobs)[e] = apart \/ Split(jobs)[e] = {}
  BY <1>1, <1>2
<1>6. \A e \in Environments : Split(jobs)[e] \subseteq jobs
  BY <1>3, <1>5
<1> QED
  BY <1>1, <1>2, <1>3, <1>4, <1>6

\* One process goes on, or starts.
Sound(m, h, d) ==
    /\ IF h \in Callers THEN GoesThrough(d, SupportedJobs(m.known)) ELSE d = NoDeclaration
    /\ m.registered => m.keys = SupportedJobs(m.known)

LEMMA MonitorMoves ==
    ASSUME MonitorInv, NEW p \in Processes, NEW m \in Monitors, NEW h \in Callers \cup {"nobody", "lost"}, NEW d \in Progress,
           process' = [process EXCEPT ![p] = m], holder' = [holder EXCEPT ![p] = h],
           declaration' = [declaration EXCEPT ![p] = d], Sound(m, h, d),
           caller' \in [Processes -> [Callers -> Stages]], \A q \in Processes : q # p => caller'[q] = caller[q],
           m.up \/ (m.up = process[p].up /\ h = holder[p] /\ caller'[p] = caller[p])
    PROVE  MonitorInv'
<1>1. /\ process \in [Processes -> Monitors] /\ holder \in [Processes -> Callers \cup {"nobody", "lost"}]
      /\ declaration \in [Processes -> Progress]
  BY DEF MonitorInv, MonitorTypes
<1>2. /\ process' \in [Processes -> Monitors] /\ process'[p] = m
      /\ \A q \in Processes : q # p => process'[q] = process[q]
  BY <1>1
<1>3. /\ holder' \in [Processes -> Callers \cup {"nobody", "lost"}] /\ holder'[p] = h
      /\ \A q \in Processes : q # p => holder'[q] = holder[q]
  BY <1>1
<1>4. /\ declaration' \in [Processes -> Progress] /\ declaration'[p] = d
      /\ \A q \in Processes : q # p => declaration'[q] = declaration[q]
  BY <1>1
<1>5. MonitorTypes'
  BY <1>2, <1>3, <1>4 DEF MonitorTypes
<1>6. \A q \in Processes : Sound(process'[q], holder'[q], declaration'[q])
  <2> SUFFICES ASSUME NEW q \in Processes, q # p
               PROVE  Sound(process[q], holder[q], declaration[q])
    BY <1>2, <1>3, <1>4
  <2> QED
    BY DEF MonitorInv, HoldersGoThrough, RegisteredIsComplete, Sound
<1>7. HoldersGoThrough' /\ RegisteredIsComplete'
  BY <1>6 DEF HoldersGoThrough, RegisteredIsComplete, Sound, GoesThrough, SupportedJobs
<1>8. NotForked'
  <2>1. NotForked
    BY DEF MonitorInv
  <2>2. process'["parent"].up
    BY <1>2, <2>1 DEF NotForked, Processes
  <2>3. ASSUME NEW q \in Processes, ~process'[q].up
        PROVE  holder'[q] = "nobody" /\ \A c \in Callers : caller'[q][c] = "idle"
    BY <1>2, <1>3, <2>1, <2>3 DEF NotForked
  <2> QED
    BY <2>2, <2>3 DEF NotForked
<1> QED
  BY <1>5, <1>7, <1>8 DEF MonitorInv

\* Its threads go on, and nothing else.
LEMMA CallersMove ==
    ASSUME MonitorInv, NEW p \in Processes, process[p].up, UNCHANGED <<process, holder, declaration>>,
           caller' \in [Processes -> [Callers -> Stages]], \A q \in Processes : q # p => caller'[q] = caller[q]
    PROVE  MonitorInv'
<1>1. MonitorTypes'
  BY DEF MonitorInv, MonitorTypes
<1>2. HoldersGoThrough' /\ RegisteredIsComplete'
  BY DEF MonitorInv, HoldersGoThrough, RegisteredIsComplete, GoesThrough, SupportedJobs
<1>3. NotForked'
  BY DEF MonitorInv, NotForked
<1> QED
  BY <1>1, <1>2, <1>3 DEF MonitorInv

LEMMA CallerMoves ==
    ASSUME MonitorInv, NEW p \in Processes, NEW c \in Callers, NEW pc \in Stages, Go(p, c, pc)
    PROVE  /\ caller' \in [Processes -> [Callers -> Stages]]
           /\ \A q \in Processes : q # p => caller'[q] = caller[q]
<1>1. caller \in [Processes -> [Callers -> Stages]]
  BY DEF MonitorInv, MonitorTypes
<1>2. caller' = [caller EXCEPT ![p] = [caller[p] EXCEPT ![c] = pc]]
  BY DEF Go
<1>3. [caller[p] EXCEPT ![c] = pc] \in [Callers -> Stages]
  BY <1>1
<1> HIDE DEF Go
<1> QED
  BY <1>1, <1>2, <1>3

LEMMA MonitorStep == ASSUME MonitorInv, PythonNext \/ UNCHANGED ownPython PROVE MonitorInv'
<1>0. /\ "job" \in Callers /\ "hook" \in Callers /\ "nobody" \notin Callers /\ "lost" \notin Callers
      /\ "child" \in Processes /\ "parent" \in Processes
  BY DEF Callers, Processes
<1>12. "idle" \in Stages /\ "lock" \in Stages /\ "sync" \in Stages /\ "ready" \in Stages
  BY DEF Stages
<1>1. ASSUME NEW p \in Processes
      PROVE  /\ process[p] \in Monitors /\ holder[p] \in Callers \cup {"nobody", "lost"} /\ declaration[p] \in Progress
             /\ Sound(process[p], holder[p], declaration[p])
             /\ ~process[p].up => holder[p] = "nobody" /\ \A c \in Callers : caller[p][c] = "idle"
  <2>1. process[p] \in Monitors /\ holder[p] \in Callers \cup {"nobody", "lost"} /\ declaration[p] \in Progress
    BY DEF MonitorInv, MonitorTypes
  <2>2. Sound(process[p], holder[p], declaration[p])
    BY DEF MonitorInv, HoldersGoThrough, RegisteredIsComplete, Sound
  <2> QED
    BY <2>1, <2>2 DEF MonitorInv, NotForked
<1>2. caller \in [Processes -> [Callers -> Stages]] /\ process["parent"].up
  BY DEF MonitorInv, MonitorTypes, NotForked
<1>11. ASSUME NEW p \in Processes
       PROVE  /\ process = [process EXCEPT ![p] = process[p]] /\ holder = [holder EXCEPT ![p] = holder[p]]
              /\ declaration = [declaration EXCEPT ![p] = declaration[p]]
  BY DEF MonitorInv, MonitorTypes
<1>3. ASSUME UNCHANGED ownPython
      PROVE  MonitorInv'
  <2>1. UNCHANGED <<process, holder, declaration, caller>>
    BY <1>3 DEF ownPython
  <2> QED
    BY <1>0, <1>2, <2>1, CallersMove
<1>4. ASSUME Fork
      PROVE  MonitorInv'
  <2> DEFINE h == IF holder["parent"] = "nobody" THEN "nobody" ELSE "lost"
  <2>1. /\ process' = [process EXCEPT !["child"] = process["parent"]] /\ UNCHANGED <<declaration, caller>>
        /\ holder' = [holder EXCEPT !["child"] = h] /\ ~process["child"].up
    BY <1>4 DEF Fork
  <2>2. h \in {"nobody", "lost"}
    OBVIOUS
  <2> HIDE DEF h
  <2>3. declaration["child"] = NoDeclaration /\ declaration["child"] \in Progress /\ process["parent"] \in Monitors
    BY <1>0, <1>1, <2>1 DEF Sound
  <2>4. Sound(process["parent"], h, declaration["child"])
    BY <1>0, <1>1, <2>2, <2>3 DEF Sound
  <2>5. declaration' = [declaration EXCEPT !["child"] = declaration["child"]]
    BY <1>0, <1>11, <2>1
  <2>6. \A q \in Processes : q # "child" => caller'[q] = caller[q]
    BY <2>1
  <2>7. caller' \in [Processes -> [Callers -> Stages]] /\ h \in Callers \cup {"nobody", "lost"}
    BY <1>2, <2>1, <2>2
  <2> QED
    BY <1>0, <1>2, <2>1, <2>3, <2>4, <2>5, <2>6, <2>7, MonitorMoves
<1>5. ASSUME NEW p \in Processes, Report(p) \/ Reported(p)
      PROVE  MonitorInv'
  <2>1. process[p].up
    BY <1>0, <1>1, <1>5 DEF Report, Reported
  <2>2. UNCHANGED <<process, holder, declaration>> /\ (Go(p, "job", "lock") \/ Go(p, "job", "idle"))
    BY <1>5 DEF Report, Reported
  <2>3. caller' \in [Processes -> [Callers -> Stages]] /\ \A q \in Processes : q # p => caller'[q] = caller[q]
    BY <1>0, <1>12, <2>2, CallerMoves
  <2> QED
    BY <2>1, <2>2, <2>3, CallersMove
<1>6. ASSUME NEW p \in Processes, MinutePasses(p)
      PROVE  MonitorInv'
  <2> DEFINE m == [process[p] EXCEPT !.backedOff = FALSE]
  <2>1. process' = [process EXCEPT ![p] = m] /\ UNCHANGED <<holder, declaration, caller>>
    BY <1>6 DEF MinutePasses
  <2>2. m \in Monitors /\ m.up = process[p].up /\ m.known = process[p].known /\ m.keys = process[p].keys
        /\ m.registered = process[p].registered
    BY <1>1 DEF Monitors
  <2>3. holder' = [holder EXCEPT ![p] = holder[p]] /\ declaration' = [declaration EXCEPT ![p] = declaration[p]]
    BY <1>11, <2>1
  <2>4. caller' \in [Processes -> [Callers -> Stages]] /\ \A q \in Processes : caller'[q] = caller[q]
    BY <1>2, <2>1
  <2> HIDE DEF m
  <2>5. Sound(m, holder[p], declaration[p])
    BY <1>1, <2>2 DEF Sound
  <2> QED
    BY <1>1, <2>1, <2>2, <2>3, <2>4, <2>5, MonitorMoves
<1>7. ASSUME NEW p \in Processes, NEW found \in Listings, Declare(p, found)
      PROVE  MonitorInv'
  <2> DEFINE m1 == [process[p] EXCEPT !.known = found]
             m2 == [m1 EXCEPT !.registered = FALSE]
             m == [m2 EXCEPT !.backedOff = FALSE]
  <2>1. /\ process[p].up /\ holder[p] = "nobody" /\ Go(p, "hook", "lock") /\ UNCHANGED <<holder, declaration>>
        /\ process' = [process EXCEPT ![p].known = found, ![p].registered = FALSE, ![p].backedOff = FALSE]
    BY <1>7 DEF Declare
  <2>2. process' = [process EXCEPT ![p] = m]
    BY <2>1 DEF MonitorInv, MonitorTypes
  <2>3. m \in Monitors /\ m.up = process[p].up /\ ~m.registered
    <3>1. m1 \in Monitors /\ m1.up = process[p].up
      BY <1>1, PythonAssumption DEF Monitors
    <3> HIDE DEF m1
    <3>2. m2 \in Monitors /\ m2.up = process[p].up /\ ~m2.registered
      BY <3>1 DEF Monitors
    <3> HIDE DEF m2
    <3> QED
      BY <3>2 DEF Monitors
  <2>4. caller' \in [Processes -> [Callers -> Stages]] /\ \A q \in Processes : q # p => caller'[q] = caller[q]
    BY <1>0, <1>12, <2>1, CallerMoves
  <2>5. holder' = [holder EXCEPT ![p] = holder[p]] /\ declaration' = [declaration EXCEPT ![p] = declaration[p]]
    BY <1>11, <2>1
  <2> HIDE DEF m, m1, m2
  <2>6. Sound(m, holder[p], declaration[p])
    BY <1>0, <1>1, <2>1, <2>3 DEF Sound
  <2> QED
    BY <1>1, <2>1, <2>2, <2>3, <2>4, <2>5, <2>6, MonitorMoves
<1>8. ASSUME NEW p \in Processes, NEW c \in Callers, EnsureRegistered(p, c)
      PROVE  MonitorInv'
  <2> DEFINE jobs == SupportedJobs(process[p].known)
             d == [declaration[p] EXCEPT !.todo = Split(jobs)]
  <2>1. process[p].up /\ holder[p] = "nobody" /\ UNCHANGED process
    BY <1>1, <1>8 DEF EnsureRegistered
  <2>2. \E pc \in Stages : Go(p, c, pc)
    BY <1>8, <1>12 DEF EnsureRegistered, Leave
  <2>3. caller' \in [Processes -> [Callers -> Stages]] /\ \A q \in Processes : q # p => caller'[q] = caller[q]
    BY <2>2, CallerMoves
  <2>4. CASE UNCHANGED <<holder, declaration>>
    BY <2>1, <2>3, <2>4, CallersMove
  <2>5. CASE jobs # {} /\ holder' = [holder EXCEPT ![p] = c] /\ declaration' = [declaration EXCEPT ![p].todo = Split(jobs)]
    <3>1. jobs \in SUBSET Jobs
      BY <1>1 DEF SupportedJobs, Monitors
    <3>2. declaration' = [declaration EXCEPT ![p] = d]
      BY <2>5
    <3>3. declaration[p] = NoDeclaration /\ declaration[p] \in Progress
      BY <1>0, <1>1, <2>1 DEF Sound
    <3>4. Split(jobs) \in [Environments -> SUBSET Jobs]
      BY <3>1, SplitCovers
    <3>10. declaration[p].found = {}
      BY <3>3 DEF NoDeclaration
    <3>5. d \in Progress /\ d.todo = Split(jobs) /\ d.found = {}
      BY <3>3, <3>4, <3>10 DEF Progress
    <3>6. jobs = SupportedJobs(process[p].known)
      OBVIOUS
    <3> HIDE DEF jobs, d
    <3>7. GoesThrough(d, jobs)
      BY <2>5, <3>1, <3>5, SplitCovers DEF GoesThrough
    <3>8. Sound(process[p], c, d)
      BY <1>1, <3>6, <3>7 DEF Sound
    <3>9. process' = [process EXCEPT ![p] = process[p]]
      BY <1>11, <2>1
    <3> QED
      BY <1>1, <2>1, <2>3, <2>5, <3>2, <3>5, <3>8, <3>9, MonitorMoves
  <2> QED
    BY <1>8, <2>4, <2>5 DEF EnsureRegistered
<1>9. ASSUME NEW p \in Processes, NEW e \in Environments, SyncGroup(p, e)
      PROVE  MonitorInv'
  <2> DEFINE old == declaration[p]
             jobs == SupportedJobs(process[p].known)
  <2>1. PICK answered \in BOOLEAN :
           declaration' = [declaration EXCEPT ![p].todo[e] = {}, ![p].complete = @ /\ answered,
               ![p].found = @ \cup IF answered THEN declaration[p].todo[e] ELSE {}]
    BY <1>9 DEF SyncGroup
  <2> DEFINE todo == [old.todo EXCEPT ![e] = {}]
             found == old.found \cup IF answered THEN old.todo[e] ELSE {}
             d1 == [old EXCEPT !.todo = todo]
             d2 == [d1 EXCEPT !.complete = @ /\ answered]
             d == [d2 EXCEPT !.found = found]
  <2>2. old.todo[e] # {} /\ UNCHANGED <<process, holder, caller>>
    BY <1>9 DEF SyncGroup
  <2>3. holder[p] \in Callers
    BY <1>1, <2>2 DEF Sound, NoDeclaration, NoGroups
  <2>13. GoesThrough(old, jobs)
    BY <1>1, <2>3 DEF Sound
  <2>4. old \in Progress /\ old.todo \in [Environments -> SUBSET Jobs] /\ old.found \in SUBSET Jobs /\ old.complete \in BOOLEAN
    BY <1>1 DEF Progress
  <2>14. /\ d1 \in Progress /\ d1.todo = todo /\ d1.found = old.found /\ d1.complete = old.complete
    BY <2>4 DEF Progress
  <2>15. d2 \in Progress /\ d2.todo = todo /\ d2.found = old.found /\ (d2.complete => old.complete /\ answered)
    <3> HIDE DEF d1, todo
    <3>1. d1.complete \in BOOLEAN
      BY <2>14 DEF Progress
    <3> QED
      BY <2>14, <3>1 DEF Progress
  <2>5. declaration' = [declaration EXCEPT ![p] = d]
    BY <2>1 DEF MonitorInv, MonitorTypes
  <2>6. /\ d \in Progress /\ d.todo = todo /\ d.found = found /\ (d.complete => old.complete /\ answered)
        /\ todo[e] = {} /\ \A env \in Environments : env # e => todo[env] = old.todo[env]
    <3>1. found \in SUBSET Jobs
      BY <2>4
    <3>2. todo[e] = {} /\ \A env \in Environments : env # e => todo[env] = old.todo[env]
      BY <2>4
    <3> HIDE DEF d2, todo, found
    <3> QED
      BY <2>15, <3>1, <3>2 DEF Progress
  <2>7. found \subseteq old.found \cup old.todo[e] /\ old.found \subseteq found /\ (answered => old.todo[e] \subseteq found)
    OBVIOUS
  <2>8. jobs = SupportedJobs(process[p].known)
    OBVIOUS
  <2> HIDE DEF d, d1, d2, todo, found, jobs
  <2>9. GoesThrough(d, jobs)
    BY <2>13, <2>6, <2>7 DEF GoesThrough
  <2>10. Sound(process[p], holder[p], d)
    BY <1>1, <2>3, <2>8, <2>9 DEF Sound
  <2>11. process' = [process EXCEPT ![p] = process[p]] /\ holder' = [holder EXCEPT ![p] = holder[p]]
    BY <1>11, <2>2
  <2>12. caller' \in [Processes -> [Callers -> Stages]] /\ \A q \in Processes : caller'[q] = caller[q]
    BY <1>2, <2>2
  <2> QED
    BY <1>1, <2>5, <2>6, <2>10, <2>11, <2>12, MonitorMoves
<1>10. ASSUME NEW p \in Processes, NEW c \in Callers, Conclude(p, c)
      PROVE  MonitorInv'
  <2> DEFINE d == declaration[p]
             jobs == SupportedJobs(process[p].known)
             m1 == [process[p] EXCEPT !.registered = d.complete]
             m2 == [m1 EXCEPT !.backedOff = ~d.complete]
             m == [m2 EXCEPT !.keys = IF d.found = {} THEN @ ELSE d.found]
  <2>1. /\ holder[p] = c /\ d.todo = NoGroups
        /\ process' = [process EXCEPT ![p] = Concluded(p, d.found, d.complete)]
        /\ declaration' = [declaration EXCEPT ![p] = NoDeclaration] /\ holder' = [holder EXCEPT ![p] = "nobody"]
    BY <1>10 DEF Conclude
  <2>2. Go(p, c, "ready") \/ Go(p, c, "idle")
    BY <1>10 DEF Conclude, Leave
  <2>3. caller' \in [Processes -> [Callers -> Stages]] /\ \A q \in Processes : q # p => caller'[q] = caller[q]
    BY <1>12, <2>2, CallerMoves
  <2>4. process[p].up /\ GoesThrough(d, jobs) /\ d.found \in SUBSET Jobs /\ d.complete \in BOOLEAN
    <3>1. process[p].up
      BY <1>0, <1>1, <2>1
    <3>2. GoesThrough(d, jobs)
      BY <1>1, <2>1 DEF Sound
    <3> QED
      BY <1>1, <3>1, <3>2 DEF Progress
  <2>5. NoDeclaration \in Progress
    BY DEF NoDeclaration, NoGroups, Progress
  <2>6. d.complete => d.found = jobs /\ d.found # {}
    BY <2>1, <2>4 DEF GoesThrough, NoGroups
  <2>7. Concluded(p, d.found, d.complete) = m
    BY DEF Concluded
  <2>8. m \in Monitors /\ m.up = process[p].up /\ m.known = process[p].known /\ m.registered = d.complete
        /\ (d.found # {} => m.keys = d.found)
    <3> HIDE DEF d
    <3>1. m1 \in Monitors /\ m1.up = process[p].up /\ m1.known = process[p].known /\ m1.registered = d.complete
      <4>1. process[p] \in Monitors /\ d.complete \in BOOLEAN
        BY <1>1, <2>4
      <4> QED
        BY <4>1 DEF Monitors
    <3> HIDE DEF m1
    <3>2. m2 \in Monitors /\ m2.up = process[p].up /\ m2.known = process[p].known /\ m2.registered = d.complete
      BY <2>4, <3>1 DEF Monitors
    <3> HIDE DEF m2
    <3> QED
      BY <2>4, <3>2 DEF Monitors
  <2>9. m.up /\ (m.registered => m.keys = SupportedJobs(m.known))
    BY <2>4, <2>6, <2>8
  <2> HIDE DEF d, m, m1, m2, jobs
  <2>10. Sound(m, "nobody", NoDeclaration)
    BY <1>0, <2>9 DEF Sound
  <2>11. process' = [process EXCEPT ![p] = m]
    BY <2>1, <2>7
  <2> QED
    BY <2>1, <2>3, <2>5, <2>8, <2>9, <2>10, <2>11, MonitorMoves
<1> QED
  BY <1>3, <1>4, <1>5, <1>6, <1>7, <1>8, <1>9, <1>10 DEF PythonNext

-----------------------------------------------------------------------------
(***************************************************************************)
(* The Laravel monitor: what a server with a name has declared is under a  *)
(* cache key that no other server writes to.                               *)
(***************************************************************************)
Payloads == [Environments -> SUBSET Jobs]
MinuteRuns == [pc : {"off", "run", "sync"}, payloads : Payloads, todo : Payloads, found : SUBSET Jobs,
                   keys : (SUBSET Jobs) \cup {NotKnown}]

CacheTypes ==
    /\ release \in [Instances -> SUBSET Jobs] /\ changes \in Nat
    /\ scheduler \in [Instances -> MinuteRuns]
    /\ cache \in [CacheKeys -> [payloads : Payloads, keys : SUBSET Jobs]]
    /\ settled \in [Instances -> Payloads]

SettledIsCached == \A i \in Named : settled[i] # NoPayloads => cache[i].payloads = settled[i]

CacheInv == CacheTypes /\ SettledIsCached

LEMMA EmptyPayloads == NoPayloads \in Payloads /\ Off \in MinuteRuns /\ NoEntry \in [payloads : Payloads, keys : SUBSET Jobs]
<1>1. NoPayloads \in Payloads
  BY DEF NoPayloads, Payloads
<1>2. NoEntry \in [payloads : Payloads, keys : SUBSET Jobs]
  BY <1>1 DEF NoEntry
<1>3. Off \in MinuteRuns
  BY <1>1 DEF Off, MinuteRuns
<1> QED
  BY <1>1, <1>2, <1>3

LEMMA NamesAreKeys ==
    /\ \A i \in Named : i \in Instances /\ i \in CacheKeys /\ CacheKeyOf(i) = i
    /\ \A i \in Instances : CacheKeyOf(i) \in CacheKeys
    /\ \A i \in Named : \A j \in Instances : j # i => CacheKeyOf(j) # i
BY DeclarationAssumption DEF CacheKeys, Environments, CacheKeyOf

LEMMA CacheInitially == ASSUME LaravelInit PROVE CacheInv
<1>1. release \in [Instances -> SUBSET Jobs] /\ changes \in Nat
  BY LaravelAssumption DEF LaravelInit
<1>2. scheduler \in [Instances -> MinuteRuns] /\ settled \in [Instances -> Payloads]
  BY EmptyPayloads DEF LaravelInit
<1>3. cache \in [CacheKeys -> [payloads : Payloads, keys : SUBSET Jobs]]
  BY EmptyPayloads DEF LaravelInit
<1>4. SettledIsCached
  BY NamesAreKeys DEF LaravelInit, SettledIsCached
<1> QED
  BY <1>1, <1>2, <1>3, <1>4 DEF CacheInv, CacheTypes

LEMMA SplitIsPayloads ==
    ASSUME NEW i \in Instances, NEW tasks \in SUBSET Jobs
    PROVE  LaravelSplit(i, tasks) \in Payloads
<1> DEFINE apart == IF i \in Named THEN tasks \cap (PerInstance \ SingleRun) ELSE {}
<1>1. apart \in SUBSET Jobs /\ tasks \ apart \in SUBSET Jobs
  OBVIOUS
<1>2. LaravelSplit(i, tasks) = [e \in Environments |-> CASE e = Shared -> tasks \ apart
                                                         [] e = i /\ e # Shared -> apart
                                                         [] OTHER -> {}]
  BY DEF LaravelSplit, Groups
<1> HIDE DEF apart
<1> QED
  BY <1>1, <1>2 DEF Payloads

\* What a step of the server's own process makes of it.
LEMMA ProcessMoves ==
    ASSUME CacheInv, NEW i \in Instances,
           StartRun(i) \/ ReadCache(i) \/ SyncCommand(i) \/ PutCache(i) \/ EndRun(i) \/ \E e \in Environments : SyncPayload(i, e)
    PROVE  \E s \in MinuteRuns :
              /\ scheduler' = [scheduler EXCEPT ![i] = s]
              /\ scheduler[i].pc = "run" /\ s.pc = "sync" /\ changes' = changes =>
                    scheduler[i].payloads # NoPayloads /\ cache[CacheKeyOf(i)].payloads # scheduler[i].payloads
<1>1. /\ scheduler \in [Instances -> MinuteRuns] /\ scheduler[i] \in MinuteRuns /\ changes \in Nat
      /\ scheduler[i].payloads \in Payloads /\ scheduler[i].todo \in Payloads /\ scheduler[i].found \in SUBSET Jobs
      /\ CacheKeyOf(i) \in CacheKeys /\ cache[CacheKeyOf(i)].keys \in SUBSET Jobs /\ release[i] \in SUBSET Jobs
  <2>1. scheduler \in [Instances -> MinuteRuns] /\ changes \in Nat /\ release[i] \in SUBSET Jobs
    BY DEF CacheInv, CacheTypes
  <2>2. scheduler[i].payloads \in Payloads /\ scheduler[i].todo \in Payloads /\ scheduler[i].found \in SUBSET Jobs
    BY <2>1 DEF MinuteRuns
  <2>3. CacheKeyOf(i) \in CacheKeys
    BY NamesAreKeys
  <2>4. cache[CacheKeyOf(i)].keys \in SUBSET Jobs
    BY <2>3 DEF CacheInv, CacheTypes
  <2> QED
    BY <2>1, <2>2, <2>3, <2>4
<1>2. CASE StartRun(i)
  <2> DEFINE payloads == LaravelSplit(i, release[i] \ Unsupported)
             s1 == [Off EXCEPT !.pc = "run"]
             s == [s1 EXCEPT !.payloads = payloads]
  <2>1. payloads \in Payloads
    BY <1>1, SplitIsPayloads
  <2>2. scheduler' = [scheduler EXCEPT ![i] = s] /\ scheduler[i].pc = "off"
    BY <1>2 DEF StartRun
  <2> HIDE DEF payloads
  <2>3. s1 \in MinuteRuns /\ s1.pc = "run"
    BY EmptyPayloads DEF MinuteRuns
  <2> HIDE DEF s1
  <2>4. s \in MinuteRuns
    BY <2>1, <2>3 DEF MinuteRuns
  <2> QED
    BY <2>2, <2>4
<1>3. CASE EndRun(i)
  <2>1. scheduler' = [scheduler EXCEPT ![i] = Off] /\ Off \in MinuteRuns /\ Off.pc = "off"
    BY <1>3, EmptyPayloads DEF EndRun, Off
  <2> QED
    BY <2>1
<1>4. ASSUME scheduler' = Asking(i),
             changes' = changes => scheduler[i].payloads # NoPayloads /\ cache[CacheKeyOf(i)].payloads # scheduler[i].payloads
      PROVE  \E s \in MinuteRuns :
                /\ scheduler' = [scheduler EXCEPT ![i] = s]
                /\ scheduler[i].pc = "run" /\ s.pc = "sync" /\ changes' = changes =>
                      scheduler[i].payloads # NoPayloads /\ cache[CacheKeyOf(i)].payloads # scheduler[i].payloads
  <2> DEFINE s1 == [scheduler[i] EXCEPT !.pc = "sync"]
             s == [s1 EXCEPT !.todo = scheduler[i].payloads]
  <2>1. scheduler' = [scheduler EXCEPT ![i] = s]
    BY <1>1, <1>4 DEF Asking
  <2>2. s1 \in MinuteRuns
    BY <1>1 DEF MinuteRuns
  <2> HIDE DEF s1
  <2>3. s \in MinuteRuns
    BY <1>1, <2>2 DEF MinuteRuns
  <2> HIDE DEF s
  <2> QED
    BY <1>4, <2>1, <2>3
<1>5. CASE SyncCommand(i)
  <2>1. scheduler' = Asking(i) /\ changes' = changes + 1
    BY <1>5 DEF SyncCommand, Change
  <2>2. changes' # changes
    BY <1>1, <2>1
  <2> QED
    BY <1>4, <2>1, <2>2
<1>6. CASE ReadCache(i)
  <2>1. CASE scheduler[i].payloads # NoPayloads /\ cache[CacheKeyOf(i)].payloads # scheduler[i].payloads
    <3>1. scheduler' = Asking(i)
      BY <1>6, <2>1 DEF ReadCache
    <3> QED
      BY <1>4, <2>1, <3>1
  <2>2. CASE scheduler[i].payloads = NoPayloads \/ cache[CacheKeyOf(i)].payloads = scheduler[i].payloads
    <3>1. PICK found \in SUBSET Jobs : scheduler' = [scheduler EXCEPT ![i].keys = found]
      <4>1. CASE scheduler[i].payloads = NoPayloads
        BY <1>6, <4>1 DEF ReadCache
      <4>2. CASE scheduler[i].payloads # NoPayloads
        <5>1. scheduler' = [scheduler EXCEPT ![i].keys = cache[CacheKeyOf(i)].keys]
          BY <1>6, <2>2, <4>2 DEF ReadCache
        <5> QED
          BY <1>1, <5>1
      <4> QED
        BY <4>1, <4>2
    <3> DEFINE s == [scheduler[i] EXCEPT !.keys = found]
    <3>2. scheduler' = [scheduler EXCEPT ![i] = s] /\ s.pc = scheduler[i].pc
      BY <1>1, <3>1 DEF MinuteRuns
    <3>3. s \in MinuteRuns
      BY <1>1 DEF MinuteRuns
    <3> HIDE DEF s
    <3> QED
      BY <3>2, <3>3
  <2> QED
    BY <2>1, <2>2
<1>7. CASE PutCache(i)
  <2> DEFINE s1 == [scheduler[i] EXCEPT !.pc = "run"]
             s2 == [s1 EXCEPT !.found = {}]
             s == [s2 EXCEPT !.keys = scheduler[i].found]
  <2>1. scheduler' = [scheduler EXCEPT ![i] = s] /\ scheduler[i].pc = "sync"
    BY <1>1, <1>7 DEF PutCache
  <2>2. s1 \in MinuteRuns
    BY <1>1 DEF MinuteRuns
  <2> HIDE DEF s1
  <2>3. s2 \in MinuteRuns
    BY <2>2 DEF MinuteRuns
  <2> HIDE DEF s2
  <2>4. s \in MinuteRuns
    BY <1>1, <2>3 DEF MinuteRuns
  <2> HIDE DEF s
  <2> QED
    BY <2>1, <2>4
<1>8. ASSUME NEW e \in Environments, SyncPayload(i, e)
      PROVE  \E s \in MinuteRuns :
                /\ scheduler' = [scheduler EXCEPT ![i] = s]
                /\ scheduler[i].pc = "run" /\ s.pc = "sync" /\ changes' = changes =>
                      scheduler[i].payloads # NoPayloads /\ cache[CacheKeyOf(i)].payloads # scheduler[i].payloads
  <2> DEFINE todo == [scheduler[i].todo EXCEPT ![e] = {}]
             found == scheduler[i].found \cup scheduler[i].todo[e]
             a1 == [scheduler[i] EXCEPT !.todo = todo]
             a == [a1 EXCEPT !.found = found]
             b1 == [scheduler[i] EXCEPT !.pc = "run"]
             b2 == [b1 EXCEPT !.todo = NoPayloads]
             b3 == [b2 EXCEPT !.found = {}]
             b == [b3 EXCEPT !.keys = {}]
  <2>1. scheduler[i].pc = "sync"
    BY <1>8 DEF SyncPayload
  <2>2. \/ scheduler' = [scheduler EXCEPT ![i].todo[e] = {}, ![i].found = @ \cup scheduler[i].todo[e]]
        \/ scheduler' = [scheduler EXCEPT ![i].pc = "run", ![i].todo = NoPayloads, ![i].found = {}, ![i].keys = {}]
    BY <1>8 DEF SyncPayload
  <2>3. ASSUME scheduler' = [scheduler EXCEPT ![i].todo[e] = {}, ![i].found = @ \cup scheduler[i].todo[e]]
        PROVE  scheduler' = [scheduler EXCEPT ![i] = a]
    BY <1>1, <2>3 DEF MinuteRuns
  <2>4. ASSUME scheduler' = [scheduler EXCEPT ![i].pc = "run", ![i].todo = NoPayloads, ![i].found = {}, ![i].keys = {}]
        PROVE  scheduler' = [scheduler EXCEPT ![i] = b]
    BY <1>1, <2>4 DEF MinuteRuns
  <2>5. a \in MinuteRuns
    <3>1. todo \in Payloads /\ found \in SUBSET Jobs
      BY <1>1 DEF Payloads
    <3> HIDE DEF todo, found
    <3>2. a1 \in MinuteRuns
      BY <1>1, <3>1 DEF MinuteRuns
    <3> HIDE DEF a1
    <3> QED
      BY <3>1, <3>2 DEF MinuteRuns
  <2>6. b \in MinuteRuns
    <3>1. b1 \in MinuteRuns
      BY <1>1 DEF MinuteRuns
    <3> HIDE DEF b1
    <3>2. b2 \in MinuteRuns
      BY <3>1, EmptyPayloads DEF MinuteRuns
    <3> HIDE DEF b2
    <3>3. b3 \in MinuteRuns
      BY <3>2 DEF MinuteRuns
    <3> HIDE DEF b3
    <3> QED
      BY <3>3 DEF MinuteRuns
  <2> HIDE DEF a, b
  <2> QED
    BY <2>1, <2>2, <2>3, <2>4, <2>5, <2>6
<1> QED
  BY <1>2, <1>3, <1>5, <1>6, <1>7, <1>8

LEMMA CacheStep ==
    ASSUME CacheInv, LaravelNext \/ UNCHANGED ownLaravel
    PROVE  /\ CacheInv'
           /\ \A i \in Named :
                 scheduler[i].pc = "run" /\ scheduler'[i].pc = "sync" /\ changes' = changes =>
                     settled[i] # scheduler[i].payloads
<1> DEFINE Asked == \A i \in Named :
                        scheduler[i].pc = "run" /\ scheduler'[i].pc = "sync" /\ changes' = changes =>
                            settled[i] # scheduler[i].payloads
<1>1. /\ scheduler \in [Instances -> MinuteRuns] /\ changes \in Nat /\ settled \in [Instances -> Payloads]
      /\ cache \in [CacheKeys -> [payloads : Payloads, keys : SUBSET Jobs]] /\ release \in [Instances -> SUBSET Jobs]
      /\ SettledIsCached
  BY DEF CacheInv, CacheTypes
<1>2. CASE UNCHANGED ownLaravel
  <2>1. CacheInv'
    BY <1>2 DEF ownLaravel, CacheInv, CacheTypes, SettledIsCached
  <2> QED
    BY <1>2, <2>1 DEF ownLaravel
<1>3. ASSUME NEW i \in Instances, NEW s \in MinuteRuns, scheduler' = [scheduler EXCEPT ![i] = s],
             scheduler[i].pc = "run" /\ s.pc = "sync" /\ changes' = changes =>
                 scheduler[i].payloads # NoPayloads /\ cache[CacheKeyOf(i)].payloads # scheduler[i].payloads
      PROVE  scheduler' \in [Instances -> MinuteRuns] /\ Asked
  <2>1. scheduler' \in [Instances -> MinuteRuns] /\ scheduler'[i] = s /\ \A j \in Instances : j # i => scheduler'[j] = scheduler[j]
    BY <1>1, <1>3
  <2>2. ASSUME NEW j \in Named, scheduler[j].pc = "run", scheduler'[j].pc = "sync", changes' = changes
        PROVE  settled[j] # scheduler[j].payloads
    <3>1. j = i
      BY <2>1, <2>2, NamesAreKeys
    <3>2. scheduler[j].payloads # NoPayloads /\ cache[j].payloads # scheduler[j].payloads
      BY <1>3, <2>1, <2>2, <3>1, NamesAreKeys
    <3> QED
      BY <1>1, <3>2 DEF SettledIsCached
  <2> QED
    BY <2>1, <2>2
<1>4. ASSUME NEW i \in Instances,
             StartRun(i) \/ ReadCache(i) \/ SyncCommand(i) \/ PutCache(i) \/ EndRun(i) \/ \E e \in Environments : SyncPayload(i, e)
      PROVE  scheduler' \in [Instances -> MinuteRuns] /\ Asked
  BY <1>3, <1>4, ProcessMoves
<1>5. ASSUME NEW i \in Instances,
             StartRun(i) \/ ReadCache(i) \/ EndRun(i) \/ \E e \in Environments : SyncPayload(i, e)
      PROVE  CacheInv'
  <2>1. UNCHANGED <<release, cache, settled, changes>>
    BY <1>5 DEF StartRun, ReadCache, EndRun, SyncPayload
  <2>2. scheduler' \in [Instances -> MinuteRuns]
    BY <1>4, <1>5
  <2> QED
    BY <1>1, <2>1, <2>2 DEF CacheInv, CacheTypes, SettledIsCached
<1>6. ASSUME NEW i \in Instances, SyncCommand(i)
      PROVE  CacheInv'
  <2>1. UNCHANGED <<release, cache>> /\ changes' = changes + 1 /\ settled' = [settled EXCEPT ![i] = NoPayloads]
    BY <1>6 DEF SyncCommand, Change
  <2>2. scheduler' \in [Instances -> MinuteRuns] /\ changes' \in Nat
    BY <1>1, <1>4, <1>6, <2>1
  <2>3. settled' \in [Instances -> Payloads] /\ \A j \in Instances : settled'[j] = settled[j] \/ settled'[j] = NoPayloads
    BY <1>1, <2>1, EmptyPayloads
  <2>4. SettledIsCached'
    BY <1>1, <2>1, <2>3, NamesAreKeys DEF SettledIsCached
  <2> QED
    BY <1>1, <2>1, <2>2, <2>3, <2>4 DEF CacheInv, CacheTypes
<1>7. ASSUME NEW i \in Instances, PutCache(i)
      PROVE  CacheInv'
  <2> DEFINE entry == [payloads |-> scheduler[i].payloads, keys |-> scheduler[i].found]
  <2>1. /\ UNCHANGED <<release, changes>> /\ settled' = [settled EXCEPT ![i] = scheduler[i].payloads]
        /\ cache' = [cache EXCEPT ![CacheKeyOf(i)] = entry]
    BY <1>7 DEF PutCache
  <2>2. scheduler' \in [Instances -> MinuteRuns]
    BY <1>4, <1>7
  <2>3. scheduler[i].payloads \in Payloads /\ scheduler[i].found \in SUBSET Jobs
    BY <1>1 DEF MinuteRuns
  <2>4. entry \in [payloads : Payloads, keys : SUBSET Jobs] /\ entry.payloads = scheduler[i].payloads
    BY <2>3
  <2> HIDE DEF entry
  <2>5. /\ cache' \in [CacheKeys -> [payloads : Payloads, keys : SUBSET Jobs]] /\ cache'[CacheKeyOf(i)] = entry
        /\ \A k \in CacheKeys : k # CacheKeyOf(i) => cache'[k] = cache[k]
    BY <1>1, <2>1, <2>4, NamesAreKeys
  <2>6. /\ settled' \in [Instances -> Payloads] /\ settled'[i] = scheduler[i].payloads
        /\ \A j \in Instances : j # i => settled'[j] = settled[j]
    BY <1>1, <2>1, <2>3
  <2>7. ASSUME NEW j \in Named, settled'[j] # NoPayloads
        PROVE  cache'[j].payloads = settled'[j]
    <3>1. CASE j = i
      BY <2>4, <2>5, <2>6, <3>1, NamesAreKeys
    <3>2. CASE j # i
      <4>1. cache'[j] = cache[j] /\ settled'[j] = settled[j]
        BY <2>5, <2>6, <3>2, NamesAreKeys
      <4> QED
        BY <1>1, <2>7, <4>1 DEF SettledIsCached
    <3> QED
      BY <3>1, <3>2
  <2>8. SettledIsCached'
    BY <2>7 DEF SettledIsCached
  <2> QED
    BY <1>1, <2>1, <2>2, <2>5, <2>6, <2>8 DEF CacheInv, CacheTypes
<1>8. ASSUME NEW i \in Instances, NEW tasks \in Releases, Deploy(i, tasks)
      PROVE  CacheInv' /\ Asked
  <2>1. /\ UNCHANGED <<scheduler, cache>> /\ changes' = changes + 1 /\ settled' = [settled EXCEPT ![i] = NoPayloads]
        /\ release' = [release EXCEPT ![i] = tasks]
    BY <1>8 DEF Deploy, Change
  <2>2. changes' \in Nat /\ release' \in [Instances -> SUBSET Jobs]
    BY <1>1, <2>1, LaravelAssumption
  <2>3. settled' \in [Instances -> Payloads] /\ \A j \in Instances : settled'[j] = settled[j] \/ settled'[j] = NoPayloads
    BY <1>1, <2>1, EmptyPayloads
  <2>4. SettledIsCached'
    BY <1>1, <2>1, <2>3, NamesAreKeys DEF SettledIsCached
  <2>5. CacheInv'
    BY <1>1, <2>1, <2>2, <2>3, <2>4 DEF CacheInv, CacheTypes
  <2> QED
    BY <2>1, <2>5
<1>9. ASSUME NEW k \in Environments, Expire(k)
      PROVE  CacheInv' /\ Asked
  <2>1. /\ UNCHANGED <<scheduler, release>> /\ changes' = changes + 1 /\ cache' = [cache EXCEPT ![k] = NoEntry]
        /\ settled' = [i \in Instances |-> IF CacheKeyOf(i) = k THEN NoPayloads ELSE settled[i]]
    BY <1>9 DEF Expire, Change
  <2>2. changes' \in Nat /\ settled' \in [Instances -> Payloads]
    BY <1>1, <2>1, EmptyPayloads
  <2>3. /\ cache' \in [CacheKeys -> [payloads : Payloads, keys : SUBSET Jobs]]
        /\ \A j \in CacheKeys : j # k => cache'[j] = cache[j]
    BY <1>1, <2>1, EmptyPayloads DEF CacheKeys
  <2>4. ASSUME NEW i \in Named, settled'[i] # NoPayloads
        PROVE  cache'[i].payloads = settled'[i]
    BY <1>1, <2>1, <2>3, <2>4, NamesAreKeys DEF SettledIsCached
  <2>5. CacheInv'
    BY <1>1, <2>1, <2>2, <2>3, <2>4 DEF CacheInv, CacheTypes, SettledIsCached
  <2> QED
    BY <2>1, <2>5
<1> QED
  BY <1>2, <1>4, <1>5, <1>6, <1>7, <1>8, <1>9 DEF LaravelNext

-----------------------------------------------------------------------------
(***************************************************************************)
(* The registrar of the Spring Boot starter, when every instance keeps the *)
(* same jobs apart: then two of them never disagree on what an environment *)
(* has, and none orphans what another has declared.                        *)
(***************************************************************************)
SameNaming == Named \in {{}, Instances} \/ PerInstance \subseteq Unsupported

Declarable == Jobs \ Unsupported
AllGroups(i) == JavaGroups(i, Declarable)
Live(i, e) == \A j \in AllGroups(i)[e] : checks[e][j] = "live"
Registers == [pc : {"new", "declare", "done"}, todo : Payloads, found : SUBSET Jobs]

RegistrarTypes ==
    /\ registrar \in [Instances -> Registers] /\ keys \in [Instances -> SUBSET Jobs]
    /\ checks \in [Environments -> [Jobs -> CheckStates]] /\ faults \in Nat

GoesWell(i) ==
    CASE registrar[i].pc = "new" -> keys[i] = {} /\ registrar[i].found = {}
      [] registrar[i].pc = "declare" ->
            /\ keys[i] = {} /\ registrar[i].found \subseteq Declarable
            /\ \A e \in Environments :
                  \/ registrar[i].todo[e] = AllGroups(i)[e]
                  \/ registrar[i].todo[e] = {} /\ AllGroups(i)[e] \subseteq registrar[i].found /\ Live(i, e)
      [] OTHER -> keys[i] = Declarable /\ \A e \in Environments : Live(i, e)

RegistrarInv == RegistrarTypes /\ (faults = 0 => \A i \in Instances : GoesWell(i))

LEMMA RegistrarIsKept == ASSUME RegistrarInv PROVE JavaJobsAreWatched
<1> SUFFICES ASSUME NEW i \in Instances, registrar[i].pc = "done", faults = 0
             PROVE  keys[i] = Declarable /\ Watched(i, AllGroups(i))
  BY DEF JavaJobsAreWatched, Declarable, AllGroups
<1>1. GoesWell(i)
  BY DEF RegistrarInv
<1>2. keys[i] = Declarable /\ \A e \in Environments : Live(i, e)
  BY <1>1 DEF GoesWell
<1> QED
  BY <1>2 DEF Watched, Live

LEMMA RegistrarInitially == ASSUME RegistrarInit PROVE RegistrarInv
<1>1. Nothing \in Payloads
  BY DEF Nothing, Payloads
<1>2. registrar \in [Instances -> Registers] /\ keys \in [Instances -> SUBSET Jobs]
  BY <1>1 DEF RegistrarInit, Registers
<1>3. checks \in [Environments -> [Jobs -> CheckStates]] /\ faults \in Nat
  BY DEF RegistrarInit, DeclarationsInit, CheckStates
<1>4. \A i \in Instances : GoesWell(i)
  BY DEF RegistrarInit, GoesWell
<1> QED
  BY <1>2, <1>3, <1>4 DEF RegistrarInv, RegistrarTypes

\* What an instance is to declare.
LEMMA JavaGroupsAre ==
    ASSUME NEW i \in Instances, NEW jobs \in SUBSET Jobs
    PROVE  /\ JavaGroups(i, jobs) \in Payloads
           /\ JavaGroups(i, jobs)[Shared] = jobs \ (IF i \in Named THEN PerInstance ELSE {})
           /\ JavaGroups(i, jobs)[i] = IF i \in Named THEN jobs \cap PerInstance ELSE {}
           /\ \A e \in Environments : e # Shared /\ e # i => JavaGroups(i, jobs)[e] = {}
<1> DEFINE apart == IF i \in Named THEN jobs \cap PerInstance ELSE {}
<1>1. Shared \in Environments /\ i \in Environments /\ i # Shared
  BY DeclarationAssumption DEF Environments
<1>2. JavaGroups(i, jobs) = [e \in Environments |-> CASE e = Shared -> jobs \ apart
                                                      [] e = i /\ e # Shared -> apart
                                                      [] OTHER -> {}]
  BY DEF JavaGroups, Groups
<1>3. apart \in SUBSET Jobs /\ jobs \ apart \in SUBSET Jobs /\ jobs \ apart = jobs \ (IF i \in Named THEN PerInstance ELSE {})
  OBVIOUS
<1>4. apart = IF i \in Named THEN jobs \cap PerInstance ELSE {}
  OBVIOUS
<1> HIDE DEF apart
<1>5. JavaGroups(i, jobs) \in Payloads
  BY <1>2, <1>3 DEF Payloads
<1>6. JavaGroups(i, jobs)[Shared] = jobs \ apart /\ JavaGroups(i, jobs)[i] = apart
  BY <1>1, <1>2
<1>7. \A e \in Environments : e # Shared /\ e # i => JavaGroups(i, jobs)[e] = {}
  BY <1>2
<1> QED
  BY <1>3, <1>4, <1>5, <1>6, <1>7

LEMMA AllGroupsAgree ==
    ASSUME SameNaming, NEW i \in Instances
    PROVE  /\ AllGroups(i) \in Payloads
           /\ \A e \in Environments : AllGroups(i)[e] \subseteq Declarable
           /\ \A j \in Declarable : \E e \in Environments : j \in AllGroups(i)[e]
           /\ \A k \in Instances : \A e \in Environments : AllGroups(i)[e] # {} => AllGroups(k)[e] \subseteq AllGroups(i)[e]
<1>1. Declarable \in SUBSET Jobs /\ Shared \in Environments /\ i \in Environments /\ i # Shared
  BY DeclarationAssumption DEF Declarable, Environments
<1>2. ASSUME NEW k \in Instances
      PROVE  /\ AllGroups(k) \in Payloads
             /\ AllGroups(k)[Shared] = Declarable \ (IF k \in Named THEN PerInstance ELSE {})
             /\ AllGroups(k)[k] = IF k \in Named THEN Declarable \cap PerInstance ELSE {}
             /\ \A e \in Environments : e # Shared /\ e # k => AllGroups(k)[e] = {}
  BY <1>1, JavaGroupsAre DEF AllGroups
<1>3. ASSUME NEW k \in Instances
      PROVE  AllGroups(k)[Shared] = AllGroups(i)[Shared]
  <2>1. CASE PerInstance \subseteq Unsupported
    <3>1. Declarable \ PerInstance = Declarable \ {}
      BY <2>1 DEF Declarable
    <3> QED
      BY <1>2, <3>1
  <2>2. CASE Named \in {{}, Instances}
    BY <1>2, <2>2
  <2> QED
    BY <2>1, <2>2 DEF SameNaming
<1>4. \A e \in Environments : AllGroups(i)[e] \subseteq Declarable
  BY <1>2
<1>5. \A j \in Declarable : j \in AllGroups(i)[Shared] \/ j \in AllGroups(i)[i]
  BY <1>2
<1>6. ASSUME NEW k \in Instances, NEW e \in Environments, AllGroups(i)[e] # {}
      PROVE  AllGroups(k)[e] \subseteq AllGroups(i)[e]
  <2>1. CASE e = Shared
    BY <1>3, <2>1
  <2>2. CASE e # Shared
    <3>1. e = i
      BY <1>2, <1>6, <2>2
    <3> QED
      BY <1>2, <2>2, <3>1
  <2> QED
    BY <2>1, <2>2
<1> QED
  BY <1>1, <1>2, <1>4, <1>5, <1>6

LEMMA RegistrarStep == ASSUME SameNaming, RegistrarInv, RegistrarNext PROVE RegistrarInv'
<1>0. /\ registrar \in [Instances -> Registers] /\ keys \in [Instances -> SUBSET Jobs]
      /\ checks \in [Environments -> [Jobs -> CheckStates]] /\ faults \in Nat
      /\ faults = 0 => \A i \in Instances : GoesWell(i)
  BY DEF RegistrarInv, RegistrarTypes
<1>1. ASSUME Fault
      PROVE  faults' \in Nat /\ faults' # 0
  BY <1>0, <1>1 DEF Fault
<1>2. ASSUME NEW i \in Instances
      PROVE  registrar[i] \in Registers /\ registrar[i].todo \in Payloads /\ registrar[i].found \in SUBSET Jobs
  BY <1>0 DEF Registers
<1>3. ASSUME NEW i \in Instances, Ready(i)
      PROVE  RegistrarInv'
  <2>1. PICK found \in SUBSET Jobs :
           /\ IF found = Jobs THEN UNCHANGED faults ELSE Fault
           /\ registrar' = [registrar EXCEPT ![i].pc = "declare", ![i].todo = JavaGroups(i, JavaDiscovered(found))]
    BY <1>3 DEF Ready
  <2> DEFINE groups == JavaGroups(i, JavaDiscovered(found))
             r1 == [registrar[i] EXCEPT !.pc = "declare"]
             r == [r1 EXCEPT !.todo = groups]
  <2>2. groups \in Payloads
    <3>1. JavaDiscovered(found) \in SUBSET Jobs
      BY DEF JavaDiscovered
    <3> QED
      BY <3>1, JavaGroupsAre
  <2>3. registrar' = [registrar EXCEPT ![i] = r]
    BY <1>0, <2>1
  <2>4. r \in Registers /\ r.pc = "declare" /\ r.todo = groups /\ r.found = registrar[i].found
    <3> HIDE DEF groups
    <3>1. r1 \in Registers /\ r1.pc = "declare" /\ r1.found = registrar[i].found
      BY <1>2 DEF Registers
    <3> HIDE DEF r1
    <3> QED
      BY <2>2, <3>1 DEF Registers
  <2>5. UNCHANGED <<checks, keys>> /\ registrar[i].pc = "new"
    BY <1>3 DEF Ready
  <2>6. faults' \in Nat /\ (faults' = 0 => faults = 0 /\ found = Jobs)
    BY <1>0, <1>1, <2>1
  <2>7. found = Jobs => groups = AllGroups(i)
    BY DEF AllGroups, Declarable, JavaDiscovered
  <2> HIDE DEF groups, r
  <2>8. /\ registrar' \in [Instances -> Registers] /\ registrar'[i] = r
        /\ \A k \in Instances : k # i => registrar'[k] = registrar[k]
    BY <1>0, <2>3, <2>4
  <2>9. ASSUME faults' = 0, NEW k \in Instances
        PROVE  GoesWell(k)'
    <3>1. GoesWell(k)
      BY <1>0, <2>6, <2>9
    <3>2. CASE k # i
      <4>1. registrar'[k] = registrar[k] /\ keys'[k] = keys[k] /\ checks' = checks
        BY <2>5, <2>8, <3>2
      <4> QED
        BY <3>1, <4>1 DEF GoesWell, Live
    <3>3. CASE k = i
      <4>1. registrar[i].found = {} /\ keys[i] = {}
        BY <2>5, <3>1, <3>3 DEF GoesWell
      <4>2. registrar'[i].pc = "declare" /\ registrar'[i].found = {} /\ keys'[i] = {} /\ registrar'[i].todo = AllGroups(i)
        BY <2>4, <2>5, <2>6, <2>7, <2>8, <2>9, <4>1
      <4> QED
        BY <3>3, <4>2 DEF GoesWell
    <3> QED
      BY <3>2, <3>3
  <2> QED
    BY <1>0, <2>5, <2>6, <2>8, <2>9 DEF RegistrarInv, RegistrarTypes
<1>4. ASSUME NEW i \in Instances, Registered(i)
      PROVE  RegistrarInv'
  <2> DEFINE r == [registrar[i] EXCEPT !.pc = "done"]
  <2>1. /\ registrar[i].pc = "declare" /\ registrar[i].todo = Nothing /\ UNCHANGED <<checks, faults>>
        /\ keys' = [keys EXCEPT ![i] = @ \cup registrar[i].found] /\ registrar' = [registrar EXCEPT ![i] = r]
    BY <1>4 DEF Registered
  <2>2. r \in Registers /\ r.pc = "done"
    BY <1>2 DEF Registers
  <2> HIDE DEF r
  <2>3. /\ registrar' \in [Instances -> Registers] /\ registrar'[i] = r
        /\ \A k \in Instances : k # i => registrar'[k] = registrar[k]
    BY <1>0, <2>1, <2>2
  <2>4. /\ keys' \in [Instances -> SUBSET Jobs] /\ keys'[i] = keys[i] \cup registrar[i].found
        /\ \A k \in Instances : k # i => keys'[k] = keys[k]
    BY <1>0, <1>2, <2>1
  <2>5. ASSUME faults' = 0, NEW k \in Instances
        PROVE  GoesWell(k)'
    <3>1. GoesWell(k)
      BY <1>0, <2>1, <2>5
    <3>2. CASE k # i
      <4>1. registrar'[k] = registrar[k] /\ keys'[k] = keys[k] /\ checks' = checks
        BY <2>1, <2>3, <2>4, <3>2
      <4> QED
        BY <3>1, <4>1 DEF GoesWell, Live
    <3>3. CASE k = i
      <4>1. /\ keys[i] = {} /\ registrar[i].found \subseteq Declarable
            /\ \A e \in Environments : AllGroups(i)[e] \subseteq registrar[i].found /\ Live(i, e)
        BY <2>1, <3>1, <3>3 DEF GoesWell, Nothing, Live
      <4>2. Declarable \subseteq registrar[i].found
        BY <4>1, AllGroupsAgree
      <4>3. keys'[i] = Declarable
        BY <2>4, <4>1, <4>2
      <4>4. registrar'[i].pc = "done" /\ \A e \in Environments : Live(i, e)'
        BY <2>1, <2>2, <2>3, <4>1 DEF Live
      <4> QED
        BY <3>3, <4>3, <4>4 DEF GoesWell
    <3> QED
      BY <3>2, <3>3
  <2> QED
    BY <1>0, <2>1, <2>3, <2>4, <2>5 DEF RegistrarInv, RegistrarTypes
<1>5. ASSUME NEW i \in Instances, NEW e \in Environments, Sync(i, e)
      PROVE  RegistrarInv'
  <2>1. PICK answered \in BOOLEAN :
           /\ Declaration(e, registrar[i].todo[e], answered)
           /\ registrar' = [registrar EXCEPT ![i].todo[e] = {},
                  ![i].found = @ \cup IF answered THEN registrar[i].todo[e] ELSE {}]
    BY <1>5 DEF Sync
  <2> DEFINE jobs == registrar[i].todo[e]
             todo == [registrar[i].todo EXCEPT ![e] = {}]
             found == registrar[i].found \cup IF answered THEN jobs ELSE {}
             r1 == [registrar[i] EXCEPT !.todo = todo]
             r == [r1 EXCEPT !.found = found]
  <2>2. registrar[i].pc = "declare" /\ jobs # {} /\ UNCHANGED keys
    BY <1>5 DEF Sync
  <2>3. registrar' = [registrar EXCEPT ![i] = r]
    BY <1>0, <2>1 DEF Registers
  <2>4. /\ jobs \in SUBSET Jobs /\ todo \in Payloads /\ found \in SUBSET Jobs /\ todo[e] = {}
        /\ \A env \in Environments : env # e => todo[env] = registrar[i].todo[env]
        /\ registrar[i].found \subseteq found /\ found \subseteq registrar[i].found \cup jobs /\ (answered => jobs \subseteq found)
    BY <1>2 DEF Payloads
  <2>5. r \in Registers /\ r.pc = "declare" /\ r.todo = todo /\ r.found = found
    <3> HIDE DEF todo, found
    <3>1. r1 \in Registers /\ r1.pc = "declare" /\ r1.todo = todo
      BY <1>2, <2>2, <2>4 DEF Registers
    <3> HIDE DEF r1
    <3> QED
      BY <2>4, <3>1 DEF Registers
  <2>6. Declaration(e, jobs, answered)
    BY <2>1
  <2>7. jobs = registrar[i].todo[e]
    OBVIOUS
  <2> HIDE DEF jobs, todo, found, r1, r
  <2>8. /\ registrar' \in [Instances -> Registers] /\ registrar'[i] = r
        /\ \A k \in Instances : k # i => registrar'[k] = registrar[k]
    BY <1>0, <2>3, <2>5
  <2>9. Pruned(e, jobs) \in [Environments -> [Jobs -> CheckStates]]
    BY <1>0 DEF Pruned, CheckStates
  <2>10. checks' \in [Environments -> [Jobs -> CheckStates]] /\ faults' \in Nat
    BY <1>0, <1>1, <2>6, <2>9 DEF Declaration
  <2>11. faults' = 0 => /\ faults = 0
                        /\ jobs \cap Unsupported = {} => answered /\ checks' = Pruned(e, jobs)
    BY <1>0, <1>1, <2>6 DEF Declaration
  <2>12. ASSUME faults' = 0
         PROVE  \A k \in Instances : GoesWell(k)'
    <3>1. \A k \in Instances : GoesWell(k)
      BY <1>0, <2>11, <2>12
    <3>2. jobs = AllGroups(i)[e] /\ registrar[i].found \subseteq Declarable /\ keys[i] = {}
      BY <2>2, <2>7, <3>1 DEF GoesWell
    <3>3. jobs \subseteq Declarable /\ jobs \cap Unsupported = {}
      <4>1. jobs \subseteq Declarable
        BY <3>2, AllGroupsAgree
      <4> QED
        BY <4>1 DEF Declarable
    <3>4. answered /\ checks' = Pruned(e, jobs)
      BY <2>11, <2>12, <3>3
    <3>5. /\ \A j \in jobs : checks'[e][j] = "live"
          /\ \A env \in Environments : env # e => checks'[env] = checks[env]
      BY <1>0, <2>4, <3>4 DEF Pruned
    <3>6. ASSUME NEW k \in Instances, NEW env \in Environments, Live(k, env)
          PROVE  Live(k, env)'
      <4>1. CASE env # e
        BY <3>5, <3>6, <4>1 DEF Live
      <4>2. CASE env = e
        <5>1. AllGroups(k)[e] \subseteq jobs
          BY <2>2, <3>2, AllGroupsAgree
        <5> QED
          BY <3>5, <4>2, <5>1 DEF Live
      <4> QED
        BY <4>1, <4>2
    <3>7. ASSUME NEW k \in Instances, k # i
          PROVE  GoesWell(k)'
      <4>1. registrar'[k] = registrar[k] /\ keys'[k] = keys[k]
        BY <2>2, <2>8, <3>7
      <4>2. GoesWell(k)
        BY <3>1
      <4> QED
        BY <3>6, <4>1, <4>2 DEF GoesWell
    <3>8. GoesWell(i)'
      <4>1. registrar'[i].pc = "declare" /\ registrar'[i].todo = todo /\ registrar'[i].found = found /\ keys'[i] = {}
        BY <2>2, <2>5, <2>8, <3>2
      <4>2. found \subseteq Declarable
        BY <2>4, <3>2, <3>3
      <4>3. ASSUME NEW env \in Environments
            PROVE  \/ todo[env] = AllGroups(i)[env]
                   \/ todo[env] = {} /\ AllGroups(i)[env] \subseteq found /\ Live(i, env)'
        <5>1. CASE env = e
          <6>1. Live(i, e)'
            BY <3>2, <3>5 DEF Live
          <6> QED
            BY <2>4, <3>2, <3>4, <5>1, <6>1
        <5>2. CASE env # e
          <6>1. \/ registrar[i].todo[env] = AllGroups(i)[env]
                \/ registrar[i].todo[env] = {} /\ AllGroups(i)[env] \subseteq registrar[i].found /\ Live(i, env)
            BY <2>2, <3>1 DEF GoesWell
          <6> QED
            BY <2>4, <3>6, <5>2, <6>1
        <5> QED
          BY <5>1, <5>2
      <4> QED
        BY <4>1, <4>2, <4>3 DEF GoesWell
    <3> QED
      BY <3>7, <3>8
  <2>13. keys' \in [Instances -> SUBSET Jobs]
    BY <1>0, <2>2
  <2> QED
    BY <2>8, <2>10, <2>12, <2>13 DEF RegistrarInv, RegistrarTypes
<1> QED
  BY <1>3, <1>4, <1>5 DEF RegistrarNext

-----------------------------------------------------------------------------
(***************************************************************************)
(* The specification that runs any one of the libraries' parts.            *)
(***************************************************************************)
ClientStep == [ClientsNext]_clientsVars

LEMMA PartsBegin ==
    ASSUME ClientsInit
    PROVE  /\ SenderInv /\ RunsInv /\ CeleryInv /\ JobsInv /\ TimesInv /\ PySenderInv
           /\ MonitorInv /\ CacheInv /\ RegistrarInv
BY SenderInitially, RunsInitially, CeleryInitially, SchedulerInitially, PySenderInitially,
   MonitorInitially, CacheInitially, RegistrarInitially DEF ClientsInit

\* What a step of one part leaves of the others.
LEMMA PartsMove ==
    ASSUME ClientStep
    PROVE  /\ part' = part
           /\ SenderNext \/ UNCHANGED senderVars
           /\ RunsNext \/ UNCHANGED runVars
           /\ CeleryNext \/ UNCHANGED celeryVars
           /\ SchedulerNext \/ UNCHANGED schedulerVars
           /\ PySenderNext \/ UNCHANGED pySenderVars
           /\ PythonNext \/ UNCHANGED ownPython
           /\ LaravelNext \/ UNCHANGED ownLaravel
           /\ part = "JavaRegistrar" => RegistrarNext \/ UNCHANGED registrarVars
           /\ part # "JavaRegistrar" => UNCHANGED ownRegistrar
<1>1. CASE UNCHANGED clientsVars
  BY <1>1 DEF clientsVars, pythonRunVars, ownRegistrar, registrarVars
<1>2. CASE Declaring /\ UNCHANGED part
  BY <1>2 DEF Declaring, pythonRunVars
<1>3. CASE OnItsOwn /\ UNCHANGED part
  BY <1>3 DEF OnItsOwn, pythonRunVars
<1>4. CASE PythonRuns /\ UNCHANGED part
  BY <1>4 DEF PythonRuns
<1> QED
  BY <1>1, <1>2, <1>3, <1>4 DEF ClientStep, ClientsNext

(***************************************************************************)
(* Every run a library is told of is reported once, with its own outcome   *)
(* and duration, or counted as dropped (HeartbeatSender of the Spring Boot *)
(* starter, Monitor.failed of the Laravel package, the Celery and the      *)
(* APScheduler integrations): for any number of runs, threads, retries,    *)
(* edits and reports in any order, where the Celery integration can read   *)
(* its entries.                                                            *)
(***************************************************************************)
THEOREM RunsAreReportedForAll == ~ReadsMayFail => (ClientsSpec => []RunsAreReported)
<1> SUFFICES ASSUME ~ReadsMayFail PROVE ClientsSpec => []RunsAreReported
  OBVIOUS
<1> DEFINE Inv == SenderInv /\ RunsInv /\ CeleryInv /\ TimesInv
<1>1. Inv => RunsAreReported
  BY CeleryIsKept DEF SenderInv, RunsInv, TimesInv, OwnEntries, RunsAreReported
<1>2. ClientsInit => Inv
  BY PartsBegin
<1>3. Inv /\ [ClientsNext]_clientsVars => Inv'
  <2> SUFFICES ASSUME Inv, ClientStep PROVE Inv'
    BY DEF ClientStep
  <2>1. SenderInv'
    BY PartsMove, SenderStep
  <2>2. RunsInv'
    BY PartsMove, RunsStep
  <2>3. CeleryInv'
    BY PartsMove, CeleryStep
  <2>4. TimesInv'
    BY PartsMove, SchedulerStep
  <2> QED
    BY <2>1, <2>2, <2>3, <2>4
<1> QED
  BY <1>1, <1>2, <1>3, PTL DEF ClientsSpec

(***************************************************************************)
(* A library that has declared has the key of every job the server can     *)
(* watch, where the server watches it (SilenceWatchRegistrar,              *)
(* Monitor.ensure_registered), and follows the schedule that changes while *)
(* it runs (the Celery and the APScheduler integrations): for any jobs,    *)
(* instances, listings, forks and lost answers, where the instances of a   *)
(* Spring Boot application have all a name or none (or no job is kept      *)
(* apart), the Celery integration can read its entries, and no reading of  *)
(* APScheduler's jobs is overtaken by the next.                            *)
(***************************************************************************)
THEOREM DeclaredMeansWatchedForAll ==
    ~ReadsMayFail /\ ~SlowReads /\ SameNaming => (ClientsSpec => []DeclaredMeansWatched)
<1> SUFFICES ASSUME ~ReadsMayFail, ~SlowReads, SameNaming PROVE ClientsSpec => []DeclaredMeansWatched
  OBVIOUS
<1> DEFINE Unstarted == \A i \in Instances : registrar[i].pc = "new"
           Inv == /\ MonitorInv /\ CeleryInv /\ JobsInv
                  /\ part = "JavaRegistrar" => RegistrarInv
                  /\ part # "JavaRegistrar" => Unstarted
<1>1. Inv => DeclaredMeansWatched
  <2> SUFFICES ASSUME Inv PROVE DeclaredMeansWatched
    OBVIOUS
  <2>1. JavaJobsAreWatched
    <3>1. CASE part = "JavaRegistrar"
      BY <3>1, RegistrarIsKept
    <3>2. CASE part # "JavaRegistrar"
      BY <3>2 DEF JavaJobsAreWatched
    <3> QED
      BY <3>1, <3>2
  <2> QED
    BY <2>1, CeleryIsKept DEF MonitorInv, JobsInv, Rereads, DeclaredMeansWatched
<1>2. ClientsInit => Inv
  <2>1. ClientsInit => Unstarted
    BY DEF ClientsInit, RegistrarInit
  <2> QED
    BY <2>1, PartsBegin
<1>3. Inv /\ [ClientsNext]_clientsVars => Inv'
  <2> SUFFICES ASSUME Inv, ClientStep PROVE Inv'
    BY DEF ClientStep
  <2>1. MonitorInv'
    BY PartsMove, MonitorStep
  <2>2. CeleryInv'
    BY PartsMove, CeleryStep
  <2>3. JobsInv'
    BY PartsMove, SchedulerStep
  <2>4. ASSUME part = "JavaRegistrar"
        PROVE  RegistrarInv'
    <3>1. CASE RegistrarNext
      BY <2>4, <3>1, RegistrarStep
    <3>2. CASE UNCHANGED registrarVars
      BY <2>4, <3>2 DEF registrarVars, RegistrarInv, RegistrarTypes, GoesWell, Live
    <3> QED
      BY <2>4, <3>1, <3>2, PartsMove
  <2>5. ASSUME part # "JavaRegistrar"
        PROVE  Unstarted'
    BY <2>5, PartsMove DEF ownRegistrar
  <2> QED
    BY <2>1, <2>2, <2>3, <2>4, <2>5, PartsMove
<1> QED
  BY <1>1, <1>2, <1>3, PTL DEF ClientsSpec

BeatsFollow == \A p \in PyProcesses : outbox[p].last' # outbox[p].last => outbox[p].last' > outbox[p].last
AskedWhenChanged ==
    \A i \in Named :
        scheduler[i].pc = "run" /\ scheduler'[i].pc = "sync" /\ changes' = changes =>
            settled[i] # scheduler[i].payloads

(***************************************************************************)
(* A process sends no heartbeat after a newer one (HeartbeatSender of the  *)
(* Python library), and a server that has a name does not send again a     *)
(* declaration that nothing has undone (Monitor.declare of the Laravel     *)
(* package): for any number of reports, forks, servers, deploys and lost   *)
(* answers.                                                                *)
(***************************************************************************)
THEOREM NoStepIsRepeatedForAll == ClientsSpec => NoStepIsRepeated
<1> DEFINE Inv == PySenderInv /\ CacheInv
<1>1. ClientsInit => Inv
  BY PartsBegin
<1>2. Inv /\ [ClientsNext]_clientsVars => Inv' /\ [BeatsFollow]_pySenderVars /\ [AskedWhenChanged]_laravelVars
  <2> SUFFICES ASSUME Inv, ClientStep PROVE Inv' /\ BeatsFollow /\ AskedWhenChanged
    BY DEF ClientStep
  <2>1. PySenderInv' /\ BeatsFollow
    BY PartsMove, PySenderStep DEF BeatsFollow
  <2>2. CacheInv' /\ AskedWhenChanged
    BY PartsMove, CacheStep DEF AskedWhenChanged
  <2> QED
    BY <2>1, <2>2
<1>3. ClientsSpec => [][BeatsFollow]_pySenderVars /\ [][AskedWhenChanged]_laravelVars
  BY <1>1, <1>2, PTL DEF ClientsSpec
<1> QED
  BY <1>3 DEF NoStepIsRepeated, BeatsInOrder, DeclaredOnlyWhenChanged, BeatsFollow, AskedWhenChanged

===============================================================================
