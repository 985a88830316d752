----------------------------- MODULE ServicesProofs ---------------------------
(***************************************************************************)
(* The services around detection and alerting keep what they promise, for  *)
(* any number of requests, instances, plans, limits and clocks: a section  *)
(* for each of those that RequestsProofs leaves, then the specification    *)
(* that runs any one of them.                                              *)
(***************************************************************************)
EXTENDS MCServices, RequestsProofs

-----------------------------------------------------------------------------
(***************************************************************************)
(* What the watchdog, and those who ask it, can tell of the detection.     *)
(***************************************************************************)
FlusherRows == [pc : {"idle", "settling", "ready", "joined", "done"}, calledAt : Nat, tick : Nat]

\* What a caller of flush waits for began after it called: n ticks have begun, and c is in flight.
IsAhead(f, n, c) ==
    /\ f.pc \in {"settling", "ready"} => f.calledAt <= n
    /\ f.pc = "ready" => c = 0 \/ c > f.calledAt
    /\ f.pc \in {"joined", "done"} => f.tick > f.calledAt

WatchdogInv ==
    /\ beat \in Nat /\ begun \in Nat /\ current \in 0..begun /\ flying = IF current = 0 THEN {} ELSE {current}
    /\ completed \in Nat /\ lastSuccess \in NotYet..beat /\ (lastSuccess = NotYet <=> completed = 0)
    /\ flusher \in [Flushers -> FlusherRows] /\ \A d \in Flushers : IsAhead(flusher[d], begun, current)
    /\ fetching # NoFetch => /\ fetching.since \in Nat /\ fetching.success \in Nat
                             /\ fetching.since - fetching.success <= 3 /\ beat - fetching.since <= FetchBeats
    /\ heard \in Int /\ heard <= 3 + FetchBeats
    /\ FirstTickEnds => completed > 0 \/ beat <= 5

LEMMA RunKeepsOrder ==
    ASSUME begun \in Nat, current \in 0..begun, flying = IF current = 0 THEN {} ELSE {current}, Run
    PROVE  /\ begun' \in Nat /\ current' \in 0..begun' /\ flying' = IF current' = 0 THEN {} ELSE {current'}
           /\ begun' \in {begun, begun + 1} /\ current' # 0
           /\ current' = current \/ current' = begun + 1
<1>1. CASE current # 0
  BY <1>1 DEF Run, Joined
<1>2. CASE current = 0
  BY <1>2 DEF Run, Joined
<1> QED
  BY <1>1, <1>2

LEMMA StaysAhead ==
    ASSUME begun \in Nat, current \in 0..begun, begun' \in {begun, begun + 1}, current' = current \/ current' = begun + 1,
           NEW f \in FlusherRows, IsAhead(f, begun, current)
    PROVE  IsAhead(f, begun', current')
<1>1. f.calledAt \in Nat /\ f.tick \in Nat
  BY DEF FlusherRows
<1> QED
  BY <1>1 DEF IsAhead

LEMMA WatchdogStep == WatchdogInv /\ [WatchdogNext]_watchdogVars => WatchdogInv'
<1> SUFFICES ASSUME WatchdogInv, [WatchdogNext]_watchdogVars PROVE WatchdogInv'
  OBVIOUS
<1>t. /\ beat \in Nat /\ begun \in Nat /\ current \in 0..begun /\ flying = IF current = 0 THEN {} ELSE {current}
      /\ completed \in Nat /\ lastSuccess \in NotYet..beat /\ (lastSuccess = NotYet <=> completed = 0)
      /\ flusher \in [Flushers -> FlusherRows] /\ \A d \in Flushers : IsAhead(flusher[d], begun, current)
      /\ fetching # NoFetch => /\ fetching.since \in Nat /\ fetching.success \in Nat
                               /\ fetching.since - fetching.success <= 3 /\ beat - fetching.since <= FetchBeats
      /\ heard \in Int /\ heard <= 3 + FetchBeats
      /\ FirstTickEnds => completed > 0 \/ beat <= 5
  BY DEF WatchdogInv
<1>n. FetchBeats \in Nat
  BY WatchdogAssumption
<1>1. CASE TimerFires
  <2>1. Run /\ UNCHANGED <<beat, completed, lastSuccess, flusher, fetching, heard>>
    BY <1>1 DEF TimerFires
  <2>2. /\ begun' \in Nat /\ current' \in 0..begun' /\ flying' = IF current' = 0 THEN {} ELSE {current'}
        /\ begun' \in {begun, begun + 1} /\ (current' = current \/ current' = begun + 1)
    BY <1>t, <2>1, RunKeepsOrder
  <2>3. \A d \in Flushers : IsAhead(flusher[d], begun', current')
    BY <1>t, <2>2, StaysAhead
  <2> QED
    BY <1>t, <2>1, <2>2, <2>3 DEF WatchdogInv
<1>2. ASSUME NEW t \in flying, NEW well \in BOOLEAN, TickEnds(t, well) PROVE WatchdogInv'
  <2>1. /\ flying' = flying \ {t} /\ current' = 0
        /\ completed' = IF well THEN completed + 1 ELSE completed
        /\ lastSuccess' = IF well THEN beat ELSE lastSuccess
        /\ flusher' = [d \in Flushers |-> IF flusher[d].pc = "joined" /\ flusher[d].tick = t
                                          THEN [flusher[d] EXCEPT !.pc = "done"] ELSE flusher[d]]
        /\ UNCHANGED <<beat, begun, fetching, heard>>
    BY <1>2 DEF TickEnds
  <2>2. flying' = {}
    BY <1>2, <1>t, <2>1
  <2>3. completed' \in Nat /\ lastSuccess' \in NotYet..beat /\ (lastSuccess' = NotYet <=> completed' = 0)
    BY <1>t, <2>1 DEF NotYet
  <2>4. ASSUME NEW d \in Flushers PROVE flusher'[d] \in FlusherRows /\ IsAhead(flusher'[d], begun, 0)
    <3> DEFINE f == flusher[d]
               done == [f EXCEPT !.pc = "done"]
    <3>1. f \in FlusherRows /\ IsAhead(f, begun, current)
      BY <1>t, <2>4
    <3>2. flusher'[d] = f \/ (f.pc = "joined" /\ flusher'[d] = done)
      BY <2>1, <2>4
    <3> HIDE DEF f
    <3>3. done \in FlusherRows /\ done.pc = "done" /\ done.tick = f.tick /\ done.calledAt = f.calledAt
      BY <3>1 DEF FlusherRows
    <3> HIDE DEF done
    <3> QED
      BY <3>1, <3>2, <3>3 DEF IsAhead
  <2>5. flusher' \in [Flushers -> FlusherRows]
    <3>1. flusher' = [d \in Flushers |-> flusher'[d]]
      BY <2>1
    <3> QED
      BY <2>4, <3>1
  <2>6. FirstTickEnds => completed' > 0 \/ beat <= 5
    BY <1>t, <2>1, <2>3
  <2> QED
    BY <1>t, <2>1, <2>2, <2>3, <2>4, <2>5, <2>6 DEF WatchdogInv
<1>3. CASE StopTimer \/ UNCHANGED watchdogVars
  BY <1>3, <1>t DEF StopTimer, watchdogVars, WatchdogInv
\* A caller goes a step further.
<1>4. ASSUME NEW d \in Flushers, NEW f \in FlusherRows, flusher' = [flusher EXCEPT ![d] = f],
             IsAhead(f, begun', current'), UNCHANGED <<beat, completed, lastSuccess, fetching, heard>>,
             Run \/ UNCHANGED <<begun, current, flying>>
      PROVE  WatchdogInv'
  <2>1. /\ begun' \in Nat /\ current' \in 0..begun' /\ flying' = IF current' = 0 THEN {} ELSE {current'}
        /\ begun' \in {begun, begun + 1} /\ (current' = current \/ current' = begun + 1)
    <3>1. CASE Run
      BY <1>t, <3>1, RunKeepsOrder
    <3>2. CASE UNCHANGED <<begun, current, flying>>
      BY <1>t, <3>2
    <3> QED
      BY <1>4, <3>1, <3>2
  <2>2. flusher' \in [Flushers -> FlusherRows] /\ flusher'[d] = f /\ \A e \in Flushers : e # d => flusher'[e] = flusher[e]
    BY <1>4, <1>t
  <2>3. \A e \in Flushers : IsAhead(flusher'[e], begun', current')
    BY <1>4, <1>t, <2>1, <2>2, StaysAhead
  <2> QED
    BY <1>4, <1>t, <2>1, <2>2, <2>3 DEF WatchdogInv
<1>5. ASSUME NEW d \in Flushers, CallFlush(d) PROVE WatchdogInv'
  <2> DEFINE f == [pc |-> "settling", calledAt |-> begun, tick |-> 0]
  <2>1. /\ flusher' = [flusher EXCEPT ![d] = f]
        /\ UNCHANGED <<beat, begun, current, flying, completed, lastSuccess, fetching, heard>>
    BY <1>5 DEF CallFlush
  <2>2. f \in FlusherRows /\ IsAhead(f, begun', current')
    BY <1>t, <2>1 DEF FlusherRows, IsAhead
  <2> HIDE DEF f
  <2> QED
    BY <1>4, <1>5, <2>1, <2>2
<1>6. ASSUME NEW d \in Flushers, SettleReturns(d) PROVE WatchdogInv'
  <2> DEFINE f == [flusher[d] EXCEPT !.pc = "ready"]
  <2>1. /\ flusher[d].pc = "settling" /\ current = 0 /\ flusher' = [flusher EXCEPT ![d] = f]
        /\ UNCHANGED <<beat, begun, current, flying, completed, lastSuccess, fetching, heard>>
    BY <1>6 DEF SettleReturns, Settled
  <2>2. f \in FlusherRows /\ f.pc = "ready" /\ f.calledAt = flusher[d].calledAt
    BY <1>6, <1>t DEF FlusherRows
  <2>3. flusher[d].calledAt <= begun
    BY <1>6, <1>t, <2>1 DEF IsAhead
  <2> HIDE DEF f
  <2>4. IsAhead(f, begun', current')
    BY <2>1, <2>2, <2>3 DEF IsAhead
  <2> QED
    BY <1>4, <1>6, <2>1, <2>2, <2>4
<1>7. ASSUME NEW d \in Flushers, Flush(d) PROVE WatchdogInv'
  <2> DEFINE v1 == [flusher[d] EXCEPT !.pc = "joined"]
             f == [v1 EXCEPT !.tick = current']
  <2>1. /\ flusher[d].pc = "ready" /\ Run
        /\ flusher' = [flusher EXCEPT ![d].pc = "joined", ![d].tick = current']
        /\ UNCHANGED <<beat, completed, lastSuccess, fetching, heard>>
    BY <1>7 DEF Flush
  <2>2. flusher' = [flusher EXCEPT ![d] = f]
    BY <1>7, <1>t, <2>1
  <2>3. /\ current' \in Nat /\ current' # 0 /\ (current' = current \/ current' = begun + 1)
    BY <1>t, <2>1, RunKeepsOrder
  <2>4. v1 \in FlusherRows /\ v1.pc = "joined" /\ v1.calledAt = flusher[d].calledAt
    BY <1>7, <1>t DEF FlusherRows
  <2> HIDE DEF v1
  <2>5. f \in FlusherRows /\ f.pc = "joined" /\ f.calledAt = flusher[d].calledAt /\ f.tick = current'
    BY <2>3, <2>4 DEF FlusherRows
  <2> HIDE DEF f
  <2>6. flusher[d].calledAt \in Nat /\ flusher[d].calledAt <= begun /\ (current = 0 \/ current > flusher[d].calledAt)
    BY <1>7, <1>t, <2>1 DEF IsAhead, FlusherRows
  <2>7. current' > flusher[d].calledAt
    BY <1>t, <2>3, <2>6
  <2>8. IsAhead(f, begun', current')
    BY <2>5, <2>7 DEF IsAhead
  <2> QED
    BY <1>4, <1>7, <2>1, <2>2, <2>5, <2>8
<1>8. CASE SendBeat
  <2>1. /\ FreshEnough /\ fetching' = [since |-> beat, success |-> lastSuccess]
        /\ UNCHANGED <<beat, current, flying, begun, completed, lastSuccess, flusher, heard>>
    BY <1>8 DEF SendBeat
  <2>2. lastSuccess \in Nat /\ beat - lastSuccess <= 3
    BY <1>t, <2>1 DEF FreshEnough, NotYet
  <2>3. /\ fetching'.since \in Nat /\ fetching'.success \in Nat
        /\ fetching'.since - fetching'.success <= 3 /\ beat - fetching'.since <= FetchBeats
    BY <1>n, <1>t, <2>1, <2>2
  <2> QED
    BY <1>t, <2>1, <2>3 DEF WatchdogInv
<1>9. ASSUME NEW arrives \in BOOLEAN, BeatEnds(arrives) PROVE WatchdogInv'
  <2>1. /\ fetching # NoFetch /\ fetching' = NoFetch
        /\ heard' \in {heard, beat - fetching.success}
        /\ UNCHANGED <<beat, current, flying, begun, completed, lastSuccess, flusher>>
    BY <1>9 DEF BeatEnds
  <2>2. heard' \in Int /\ heard' <= 3 + FetchBeats
    BY <1>n, <1>t, <2>1
  <2> QED
    BY <1>t, <2>1, <2>2 DEF WatchdogInv
<1>10. CASE BeatPasses
  <2>1. /\ beat' = beat + 1 /\ (fetching # NoFetch => beat - fetching.since < FetchBeats)
        /\ FirstTickEnds => completed > 0 \/ beat < 5
        /\ UNCHANGED <<current, flying, begun, completed, lastSuccess, flusher, fetching, heard>>
    BY <1>10 DEF BeatPasses
  <2>2. /\ beat' \in Nat /\ lastSuccess \in NotYet..beat'
        /\ fetching # NoFetch => beat' - fetching.since <= FetchBeats
        /\ FirstTickEnds => completed > 0 \/ beat' <= 5
    BY <1>n, <1>t, <2>1 DEF NotYet
  <2> QED
    BY <1>t, <2>1, <2>2 DEF WatchdogInv
<1> QED
  BY <1>1, <1>2, <1>3, <1>5, <1>6, <1>7, <1>8, <1>9, <1>10 DEF WatchdogNext

LEMMA WatchdogInitially == WatchdogInit => WatchdogInv
<1> SUFFICES ASSUME WatchdogInit PROVE WatchdogInv
  OBVIOUS
<1>1. IdleFlusher \in FlusherRows /\ IsAhead(IdleFlusher, 0, 0)
  BY DEF IdleFlusher, FlusherRows, IsAhead
<1>2. flusher \in [Flushers -> FlusherRows] /\ \A d \in Flushers : IsAhead(flusher[d], begun, current)
  BY <1>1 DEF WatchdogInit
<1> QED
  BY <1>2, WatchdogAssumption DEF WatchdogInit, WatchdogInv, NotYet

LEMMA WatchdogIsKept ==
    WatchdogInv => /\ TicksDoNotOverlap /\ FlushSeesWhatWasThere /\ OutsideIsNotMisled
                   /\ FirstTickEnds => StalledLoopIsReported
<1> SUFFICES ASSUME WatchdogInv
             PROVE  /\ TicksDoNotOverlap /\ FlushSeesWhatWasThere /\ OutsideIsNotMisled
                    /\ FirstTickEnds => StalledLoopIsReported
  OBVIOUS
<1>1. TicksDoNotOverlap
  <2>1. flying = {} \/ flying = {current}
    BY DEF WatchdogInv
  <2>2. Cardinality({}) = 0 /\ Cardinality({current}) = 1
    BY FS_EmptySet, FS_Singleton
  <2> QED
    BY <2>1, <2>2 DEF TicksDoNotOverlap
<1>2. FlushSeesWhatWasThere /\ OutsideIsNotMisled
  BY DEF WatchdogInv, IsAhead, FlushSeesWhatWasThere, OutsideIsNotMisled
<1>3. ASSUME FirstTickEnds, beat >= 6, beat - (IF lastSuccess = NotYet THEN 0 ELSE lastSuccess) >= 6 PROVE ~Healthy(TRUE)
  <2>1. beat \in Nat /\ completed \in Nat /\ lastSuccess \in NotYet..beat /\ completed # 0 /\ lastSuccess # NotYet
    BY <1>3 DEF WatchdogInv
  <2>2. ~DetectionHealthy
    BY <1>3, <2>1 DEF DetectionHealthy, NotYet
  <2> QED
    BY <2>1, <2>2 DEF Healthy
<1> QED
  BY <1>1, <1>2, <1>3 DEF StalledLoopIsReported

-----------------------------------------------------------------------------
(***************************************************************************)
(* What a retention pass leaves, and whom a recovery still reaches.        *)
(***************************************************************************)
OutageRows == [state : {"none", "there", "purged"}, started : 0..LastDay, resolved : {Open} \cup (0..LastDay),
               down : Deliveries, up : Deliveries, told : BOOLEAN]
PassRows == [stage : Stages, batch : 0..(MaxBatch - 1), began : 0..LastDay]

\* Who was told of an outage is still on record as told, or is being told of its end.
IsToldRightly(o, today) ==
    /\ o.state = "purged" => o.resolved # Open
    /\ o.state = "none" => o = NoOutage
    /\ o.state = "there" /\ o.down.status # "none" => o.down.created = o.started
    /\ o.state = "there" /\ o.resolved = Open => today - o.started <= LongestOutage /\ (o.told => o.down.status = "sent")
    /\ o.state = "there" /\ o.resolved # Open /\ o.told => o.up.status = "pending"

\* Nothing of before a day is left.
PingsFrom(first) == \A d \in pings : d >= first
OutagesFrom(first) == \A i \in Outages : outages[i].state = "there" /\ outages[i].resolved # Open => outages[i].resolved >= first

RetentionInv ==
    /\ day \in 0..LastDay /\ setting \in Settings /\ cap \in Caps /\ pings \subseteq 0..LastDay
    /\ outages \in [Outages -> OutageRows] /\ pass \in PassRows /\ pass.began <= day /\ whole \in BOOLEAN
    /\ \A i \in Outages : IsToldRightly(outages[i], day)
    /\ whole /\ pass.stage \in {"incidents", "deliveries", "rest"} => PingsFrom(pass.began - KeptDays)
    /\ whole /\ pass.stage \in {"deliveries", "rest"} => OutagesFrom(pass.began - KeptDays)

LEMMA KeptDaysAre == setting \in Settings /\ cap \in Caps => KeptDays \in Nat
BY RetentionAssumption DEF KeptDays

LEMMA NoOutageIs ==
    /\ NoDelivery \in Deliveries /\ NoDelivery.status = "none"
    /\ NoOutage \in OutageRows /\ NoOutage.state = "none" /\ NoOutage.resolved = Open /\ NoOutage.told = FALSE
    /\ NoOutage.down = NoDelivery /\ NoOutage.up = NoDelivery
<1>1. NoDelivery \in Deliveries /\ NoDelivery.status = "none" /\ 0 \in 0..LastDay
  BY RetentionAssumption DEF NoDelivery, Deliveries
<1>2. /\ NoOutage.state = "none" /\ NoOutage.resolved = Open /\ NoOutage.told = FALSE
      /\ NoOutage.down = NoDelivery /\ NoOutage.up = NoDelivery
  BY DEF NoOutage
<1>3. NoOutage \in OutageRows
  BY <1>1 DEF NoOutage, OutageRows
<1> QED
  BY <1>1, <1>2, <1>3

LEMMA NoPassIs == NoPass \in PassRows /\ NoPass.stage = "idle" /\ NoPass.began = 0
BY RetentionAssumption DEF NoPass, PassRows, Stages

\* A batch that was not full took all there was.
LEMMA TheLastBatch ==
    ASSUME NEW doomed, IsFiniteSet(doomed), NEW rows \in SUBSET doomed, LastBatch(Cardinality(rows)),
           Cardinality(rows) = IF Cardinality(doomed) < RowsPerBatch THEN Cardinality(doomed) ELSE RowsPerBatch
    PROVE  rows = doomed
<1>1. Cardinality(doomed) \in Nat /\ RowsPerBatch \in Nat
  BY FS_CardinalityType, RetentionAssumption
<1>2. Cardinality(rows) = Cardinality(doomed)
  BY <1>1 DEF LastBatch
<1> QED
  BY <1>2, FS_Subset

\* The pass goes on to its next batch, or after the last to what comes next.
LEMMA PassGoesOn ==
    ASSUME pass \in PassRows, whole \in BOOLEAN, NEW rows \in Nat, NEW after \in Stages, NextStage(rows, after)
    PROVE  /\ pass' \in PassRows /\ pass'.began = pass.began /\ whole' \in BOOLEAN /\ (whole' => whole)
           /\ (pass'.stage = after /\ (LastBatch(rows) \/ ~whole')) \/ pass'.stage = pass.stage
<1> DEFINE v1 == [pass EXCEPT !.stage = after]
           v2 == [v1 EXCEPT !.batch = 0]
           v3 == [pass EXCEPT !.batch = pass.batch + 1]
<1>1. pass' = IF LastBatch(rows) \/ pass.batch + 1 = MaxBatch THEN v2 ELSE v3
  BY DEF NextStage
<1>2. whole' = (whole /\ (pass.batch + 1 = MaxBatch => LastBatch(rows)))
  BY DEF NextStage
<1>3. pass.batch \in 0..(MaxBatch - 1) /\ MaxBatch \in Nat \ {0} /\ 0 \in 0..(MaxBatch - 1)
  BY RetentionAssumption DEF PassRows
<1>4. v1 \in PassRows /\ v1.stage = after /\ v1.began = pass.began
  BY DEF PassRows
<1> HIDE DEF v1
<1>5. v2 \in PassRows /\ v2.stage = after /\ v2.began = pass.began
  BY <1>3, <1>4 DEF PassRows
<1> HIDE DEF v2
<1>6. pass.batch + 1 # MaxBatch => v3 \in PassRows /\ v3.stage = pass.stage /\ v3.began = pass.began
  BY <1>3 DEF PassRows
<1> HIDE DEF v3
<1>7. whole' \in BOOLEAN /\ (whole' => whole)
  BY <1>2, Zenon
<1>8. CASE LastBatch(rows)
  BY <1>1, <1>5, <1>7, <1>8
<1>9. CASE ~LastBatch(rows) /\ pass.batch + 1 = MaxBatch
  <2>1. ~whole'
    BY <1>2, <1>9, Zenon
  <2> QED
    BY <1>1, <1>5, <1>7, <1>9, <2>1
<1>10. CASE ~LastBatch(rows) /\ pass.batch + 1 # MaxBatch
  BY <1>1, <1>6, <1>7, <1>10
<1> QED
  BY <1>8, <1>9, <1>10

\* What became of one outage.
LEMMA OutageMoves ==
    ASSUME RetentionInv, NEW i \in Outages, NEW one \in OutageRows, outages' = [outages EXCEPT ![i] = one],
           IsToldRightly(one, day),
           one.state = "there" /\ one.resolved # Open => one.resolved = day \/ (outages[i].state = "there" /\ one.resolved = outages[i].resolved),
           UNCHANGED <<day, setting, cap, pings, pass, whole>>
    PROVE  RetentionInv'
<1>1. outages' \in [Outages -> OutageRows] /\ outages'[i] = one /\ \A j \in Outages : j # i => outages'[j] = outages[j]
  BY DEF RetentionInv
<1>2. \A j \in Outages : IsToldRightly(outages'[j], day)
  BY <1>1 DEF RetentionInv
<1>3. KeptDays' = KeptDays /\ KeptDays \in Nat
  BY KeptDaysAre DEF RetentionInv, KeptDays
<1>4. ASSUME NEW first \in Int, OutagesFrom(first), first <= day PROVE OutagesFrom(first)'
  <2>1. day \in Nat
    BY DEF RetentionInv
  <2>2. one.state = "there" /\ one.resolved # Open => one.resolved >= first
    BY <1>4, <2>1 DEF OutagesFrom
  <2> QED
    BY <1>1, <1>4, <2>2 DEF OutagesFrom
<1>5. pass.began - KeptDays \in Int /\ pass.began - KeptDays <= day
  BY <1>3 DEF RetentionInv, PassRows
<1> DEFINE first == pass.began - KeptDays
<1>6. (whole /\ pass.stage \in {"deliveries", "rest"} => OutagesFrom(first))'
  <2>1. first' = first
    BY <1>3
  <2>2. whole /\ pass.stage \in {"deliveries", "rest"} => OutagesFrom(first)
    BY DEF RetentionInv
  <2> HIDE DEF first
  <2> QED
    BY <1>4, <1>5, <2>1, <2>2 DEF first, OutagesFrom
<1>7. (whole /\ pass.stage \in {"incidents", "deliveries", "rest"} => PingsFrom(pass.began - KeptDays))'
  BY <1>3 DEF RetentionInv, PingsFrom
<1> QED
  BY <1>1, <1>2, <1>6, <1>7 DEF RetentionInv

\* A statement that leaves each outage told rightly.
LEMMA EachStaysRight ==
    ASSUME NEW next, outages' = [i \in Outages |-> next[i]],
           \A i \in Outages : next[i] \in OutageRows /\ IsToldRightly(next[i], day)
    PROVE  outages' \in [Outages -> OutageRows] /\ \A i \in Outages : IsToldRightly(outages'[i], day)
OBVIOUS

Purged(o) == [o EXCEPT !.state = "purged", !.down = NoDelivery, !.up = NoDelivery]
Left(o, down, up) == [o EXCEPT !.down = down, !.up = up]

LEMMA PurgedIs ==
    ASSUME NEW o \in OutageRows, o.resolved # Open
    PROVE  Purged(o) \in OutageRows /\ Purged(o).state = "purged" /\ \A today \in Nat : IsToldRightly(Purged(o), today)
<1> DEFINE v1 == [o EXCEPT !.state = "purged"]
           v2 == [v1 EXCEPT !.down = NoDelivery]
           v3 == [v2 EXCEPT !.up = NoDelivery]
<1>1. Purged(o) = v3
  BY DEF Purged
<1>2. v1 \in OutageRows /\ v1.state = "purged" /\ v1.resolved # Open
  BY DEF OutageRows
<1> HIDE DEF v1
<1>3. v2 \in OutageRows /\ v2.state = "purged" /\ v2.resolved # Open
  BY <1>2, NoOutageIs DEF OutageRows
<1> HIDE DEF v2
<1>4. v3 \in OutageRows /\ v3.state = "purged" /\ v3.resolved # Open
  BY <1>3, NoOutageIs DEF OutageRows
<1> HIDE DEF v3
<1>5. \A today \in Nat : IsToldRightly(v3, today)
  BY <1>4 DEF IsToldRightly
<1> QED
  BY <1>1, <1>4, <1>5

\* What goes with the deliveries that are finished and old: never the alert of an outage
\* that is still open, which is younger than they are kept, if no outage is longer.
LEMMA WithoutFinishedIs ==
    ASSUME LongestOutage <= DeliveryDays, day \in Nat, NEW o \in OutageRows, IsToldRightly(o, day),
           NEW down \in {o.down, NoDelivery}, NEW up \in {o.up, NoDelivery},
           down # o.down => Finished(o.down), up # o.up => Finished(o.up)
    PROVE  /\ Left(o, down, up) \in OutageRows /\ Left(o, down, up).state = o.state
           /\ Left(o, down, up).resolved = o.resolved /\ IsToldRightly(Left(o, down, up), day)
<1> DEFINE v1 == [o EXCEPT !.down = down]
           v2 == [v1 EXCEPT !.up = up]
<1>1. Left(o, down, up) = v2
  BY DEF Left
<1>2. o.down \in Deliveries /\ o.up \in Deliveries /\ o.started \in Nat /\ down \in Deliveries /\ up \in Deliveries
  BY NoOutageIs DEF OutageRows
<1>3. v1 \in OutageRows /\ v1.down = down /\ v1.state = o.state /\ v1.resolved = o.resolved /\ v1.started = o.started
      /\ v1.told = o.told
  BY <1>2 DEF OutageRows
<1> HIDE DEF v1
<1>4. v2 \in OutageRows /\ v2.down = down /\ v2.state = o.state /\ v2.resolved = o.resolved /\ v2.started = o.started
      /\ v2.told = o.told /\ v2.up = up
  BY <1>2, <1>3 DEF OutageRows
<1>5. o.state = "none" => v2 = o
  <2> SUFFICES ASSUME o = NoOutage, o.state = "none" PROVE v2 = o
    BY DEF IsToldRightly
  <2>1. down = NoDelivery /\ up = NoDelivery
    BY NoOutageIs
  <2> QED
    BY <2>1, NoOutageIs DEF v1, OutageRows
<1> HIDE DEF v2
<1>6. DeliveryDays \in Nat /\ LongestOutage \in Nat /\ o.down.created \in Nat
  BY <1>2, RetentionAssumption DEF Deliveries
<1>7. ASSUME o.state = "there", o.resolved = Open, o.told PROVE down = o.down
  <2>1. o.down.status = "sent" /\ o.down.created = o.started /\ day - o.started <= LongestOutage
    BY <1>7 DEF IsToldRightly
  <2>2. ~Finished(o.down)
    BY <1>2, <1>6, <2>1 DEF Finished
  <2> QED
    BY <2>2
<1>8. ASSUME o.state = "there", o.resolved # Open, o.told PROVE up = o.up
  BY <1>8 DEF IsToldRightly, Finished
<1>9. ASSUME v2.state = "there", v2.down.status # "none" PROVE v2.down.created = v2.started
  BY <1>4, <1>9, NoOutageIs DEF IsToldRightly
<1>10. IsToldRightly(v2, day)
  BY <1>4, <1>5, <1>7, <1>8, <1>9 DEF IsToldRightly
<1> QED
  BY <1>1, <1>4, <1>10

LEMMA RetentionStep ==
    LongestOutage <= DeliveryDays /\ RetentionInv /\ [RetentionNext]_retentionVars => RetentionInv'
<1> SUFFICES ASSUME LongestOutage <= DeliveryDays, RetentionInv, [RetentionNext]_retentionVars PROVE RetentionInv'
  OBVIOUS
<1>t. /\ day \in 0..LastDay /\ setting \in Settings /\ cap \in Caps /\ pings \subseteq 0..LastDay
      /\ outages \in [Outages -> OutageRows] /\ pass \in PassRows /\ pass.began <= day /\ whole \in BOOLEAN
      /\ \A i \in Outages : IsToldRightly(outages[i], day)
      /\ whole /\ pass.stage \in {"incidents", "deliveries", "rest"} => PingsFrom(pass.began - KeptDays)
      /\ whole /\ pass.stage \in {"deliveries", "rest"} => OutagesFrom(pass.began - KeptDays)
  BY DEF RetentionInv
<1>n. day \in Nat /\ LastDay \in Nat /\ pass.began \in Nat /\ KeptDays \in Nat /\ pass.began - KeptDays <= day - KeptDays
  BY <1>t, KeptDaysAre, RetentionAssumption DEF PassRows
<1>1. CASE StartPass
  <2>1. /\ pass' = [stage |-> "pings", batch |-> 0, began |-> day] /\ whole' = TRUE
        /\ UNCHANGED <<day, setting, cap, pings, outages>>
    BY <1>1 DEF StartPass
  <2>2. pass' \in PassRows /\ pass'.stage = "pings" /\ pass'.began <= day
    BY <1>n, <1>t, <2>1, RetentionAssumption DEF PassRows, Stages
  <2> QED
    BY <1>t, <2>1, <2>2 DEF RetentionInv
<1>2. CASE PurgePings
  <2> DEFINE doomed == {d \in pings : Overdue(d, KeptDays)}
  <2>1. PICK rows \in SUBSET doomed :
            /\ Cardinality(rows) = IF Cardinality(doomed) < RowsPerBatch THEN Cardinality(doomed) ELSE RowsPerBatch
            /\ pings' = pings \ rows /\ NextStage(Cardinality(rows), "incidents")
    BY <1>2 DEF PurgePings
  <2>2. pass.stage = "pings" /\ UNCHANGED <<day, setting, cap, outages>>
    BY <1>2 DEF PurgePings
  <2>3. IsFiniteSet(doomed) /\ Cardinality(rows) \in Nat
    <3>0. 0 \in Int /\ LastDay \in Int
      BY <1>n
    <3>1. doomed \in SUBSET (0..LastDay)
      BY <1>t
    <3>2. IsFiniteSet(0..LastDay)
      BY <3>0, FS_Interval
    <3>3. IsFiniteSet(doomed)
      BY <3>1, <3>2, FS_Subset
    <3>4. IsFiniteSet(rows)
      BY <2>1, <3>3, FS_Subset
    <3> QED
      BY <3>3, <3>4, FS_CardinalityType
  <2>4. /\ pass' \in PassRows /\ pass'.began = pass.began /\ whole' \in BOOLEAN /\ (whole' => whole)
        /\ (pass'.stage = "incidents" /\ (LastBatch(Cardinality(rows)) \/ ~whole')) \/ pass'.stage = pass.stage
    BY <1>t, <2>1, <2>3, PassGoesOn DEF Stages
  <2>5. ASSUME LastBatch(Cardinality(rows)) PROVE PingsFrom(pass.began - KeptDays)'
    <3>1. rows = doomed
      BY <2>1, <2>3, <2>5, TheLastBatch
    <3>2. \A d \in pings' : d \in pings /\ ~(d < day - KeptDays)
      BY <2>1, <3>1 DEF Overdue
    <3>3. KeptDays' = KeptDays
      BY <2>2 DEF KeptDays
    <3>4. \A d \in pings : d \in Nat
      BY <1>n, <1>t
    <3>5. \A d \in pings' : d >= pass.began - KeptDays
      BY <1>n, <3>2, <3>4
    <3> QED
      BY <2>4, <3>3, <3>5 DEF PingsFrom
  <2> HIDE DEF doomed
  <2> QED
    BY <1>t, <2>1, <2>2, <2>4, <2>5 DEF RetentionInv
<1>3. CASE PurgeIncidents
  <2>1. PICK rows \in SUBSET DoomedOutages :
            /\ Cardinality(rows) = IF Cardinality(DoomedOutages) < RowsPerBatch THEN Cardinality(DoomedOutages) ELSE RowsPerBatch
            /\ outages' = [i \in Outages |-> IF i \in rows THEN [outages[i] EXCEPT !.state = "purged", !.down = NoDelivery,
                                                                                  !.up = NoDelivery] ELSE outages[i]]
            /\ NextStage(Cardinality(rows), "deliveries")
    BY <1>3 DEF PurgeIncidents
  <2>2. pass.stage = "incidents" /\ UNCHANGED <<day, setting, cap, pings>>
    BY <1>3 DEF PurgeIncidents
  <2>3. IsFiniteSet(DoomedOutages) /\ Cardinality(rows) \in Nat
    <3>1. DoomedOutages \in SUBSET Outages
      BY DEF DoomedOutages
    <3>2. IsFiniteSet(DoomedOutages)
      BY <3>1, FS_Subset, RetentionAssumption
    <3>3. IsFiniteSet(rows)
      BY <2>1, <3>2, FS_Subset
    <3> QED
      BY <3>2, <3>3, FS_CardinalityType
  <2>4. /\ pass' \in PassRows /\ pass'.began = pass.began /\ whole' \in BOOLEAN /\ (whole' => whole)
        /\ (pass'.stage = "deliveries" /\ (LastBatch(Cardinality(rows)) \/ ~whole')) \/ pass'.stage = pass.stage
    BY <1>t, <2>1, <2>3, PassGoesOn DEF Stages
  <2>5. ASSUME NEW i \in Outages
        PROVE  /\ outages'[i] \in OutageRows /\ IsToldRightly(outages'[i], day)
               /\ i \in rows => outages'[i].state = "purged"
               /\ i \notin rows => outages'[i] = outages[i]
    <3>1. outages[i] \in OutageRows /\ IsToldRightly(outages[i], day)
      BY <1>t, <2>5
    <3>2. CASE i \in rows
      <4>1. outages[i].resolved # Open
        BY <2>1, <3>2 DEF DoomedOutages
      <4>2. outages'[i] = Purged(outages[i])
        BY <2>1, <2>5, <3>2 DEF Purged
      <4> QED
        BY <1>n, <3>1, <3>2, <4>1, <4>2, PurgedIs
    <3>3. CASE i \notin rows
      BY <2>1, <2>5, <3>1, <3>3
    <3> QED
      BY <3>2, <3>3
  <2>6. outages' \in [Outages -> OutageRows]
    <3>1. outages' = [i \in Outages |-> outages'[i]]
      BY <2>1
    <3> QED
      BY <2>5, <3>1
  <2>7. KeptDays' = KeptDays
    BY <2>2 DEF KeptDays
  <2>8. ASSUME LastBatch(Cardinality(rows)) PROVE OutagesFrom(pass.began - KeptDays)'
    <3>1. rows = DoomedOutages
      BY <2>1, <2>3, <2>8, TheLastBatch
    <3>2. ASSUME NEW i \in Outages, outages'[i].state = "there", outages'[i].resolved # Open
          PROVE  outages'[i].resolved >= pass.began - KeptDays
      <4>1. i \notin rows /\ outages'[i] = outages[i] /\ outages[i] \in OutageRows
        BY <1>t, <2>5, <3>2
      <4>2. outages[i].resolved \in Nat
        BY <1>n, <3>2, <4>1 DEF OutageRows
      <4>3. ~(outages[i].resolved < day - KeptDays)
        BY <3>1, <3>2, <4>1 DEF DoomedOutages, There, Overdue
      <4> QED
        BY <1>n, <4>1, <4>2, <4>3
    <3> QED
      BY <2>4, <2>7, <3>2 DEF OutagesFrom
  <2>9. (whole => PingsFrom(pass.began - KeptDays))'
    BY <1>t, <2>2, <2>4, <2>7 DEF PingsFrom
  <2> QED
    BY <1>t, <2>2, <2>4, <2>5, <2>6, <2>8, <2>9 DEF RetentionInv
<1>4. CASE PurgeDeliveries
  <2>1. /\ outages' = [i \in Outages |-> [outages[i] EXCEPT !.down = IF Finished(@) THEN NoDelivery ELSE @,
                                                            !.up = IF Finished(@) THEN NoDelivery ELSE @]]
        /\ pass.stage = "deliveries" /\ pass' = [pass EXCEPT !.stage = "rest"]
        /\ UNCHANGED <<day, setting, cap, pings, whole>>
    BY <1>4 DEF PurgeDeliveries
  <2>2. ASSUME NEW i \in Outages
        PROVE  /\ outages'[i] \in OutageRows /\ IsToldRightly(outages'[i], day)
               /\ outages'[i].state = outages[i].state /\ outages'[i].resolved = outages[i].resolved
    <3> DEFINE o == outages[i]
               down == IF Finished(o.down) THEN NoDelivery ELSE o.down
               up == IF Finished(o.up) THEN NoDelivery ELSE o.up
    <3>1. outages'[i] = Left(o, down, up) /\ o \in OutageRows /\ IsToldRightly(o, day)
      BY <1>t, <2>1, <2>2 DEF OutageRows, Left
    <3>2. /\ down \in {o.down, NoDelivery} /\ up \in {o.up, NoDelivery}
          /\ (down # o.down => Finished(o.down)) /\ (up # o.up => Finished(o.up))
      OBVIOUS
    <3> HIDE DEF o, down, up
    <3>3. /\ Left(o, down, up) \in OutageRows /\ Left(o, down, up).state = o.state
          /\ Left(o, down, up).resolved = o.resolved /\ IsToldRightly(Left(o, down, up), day)
      BY <1>n, <3>1, <3>2, WithoutFinishedIs
    <3> QED
      BY <3>1, <3>3 DEF o
  <2>3. outages' \in [Outages -> OutageRows]
    <3>1. outages' = [i \in Outages |-> outages'[i]]
      BY <2>1
    <3> QED
      BY <2>2, <3>1
  <2>4. pass' \in PassRows /\ pass'.stage = "rest" /\ pass'.began = pass.began
    BY <1>t, <2>1 DEF PassRows, Stages
  <2>5. KeptDays' = KeptDays
    BY <2>1 DEF KeptDays
  <2>6. (whole => OutagesFrom(pass.began - KeptDays))'
    BY <1>t, <2>1, <2>2, <2>4, <2>5 DEF OutagesFrom
  <2>7. (whole => PingsFrom(pass.began - KeptDays))'
    BY <1>t, <2>1, <2>4, <2>5 DEF PingsFrom
  <2> QED
    BY <1>t, <2>1, <2>2, <2>3, <2>4, <2>6, <2>7 DEF RetentionInv
<1>5. CASE PurgeRest \/ PurgeFails
  <2>1. pass' = NoPass /\ UNCHANGED <<day, setting, cap, pings, outages, whole>>
    BY <1>5 DEF PurgeRest, PurgeFails
  <2>2. pass' \in PassRows /\ pass'.stage = "idle" /\ pass'.began <= day
    BY <1>n, <2>1, NoPassIs
  <2> QED
    BY <1>t, <2>1, <2>2 DEF RetentionInv
<1>6. CASE PingArrives
  <2>1. pings' = pings \cup {day} /\ UNCHANGED <<day, setting, cap, outages, pass, whole>>
    BY <1>6 DEF PingArrives
  <2>2. KeptDays' = KeptDays /\ day >= pass.began - KeptDays
    BY <1>n, <1>t, <2>1 DEF KeptDays
  <2>3. (whole /\ pass.stage \in {"incidents", "deliveries", "rest"} => PingsFrom(pass.began - KeptDays))'
    BY <1>t, <2>1, <2>2 DEF PingsFrom
  <2>4. (whole /\ pass.stage \in {"deliveries", "rest"} => OutagesFrom(pass.began - KeptDays))'
    BY <1>t, <2>1, <2>2 DEF OutagesFrom
  <2> QED
    BY <1>t, <2>1, <2>3, <2>4 DEF RetentionInv
<1>7. ASSUME NEW i \in Outages, OutageStarts(i) PROVE RetentionInv'
  <2> DEFINE pending == [status |-> "pending", created |-> day]
             v1 == [NoOutage EXCEPT !.state = "there"]
             v2 == [v1 EXCEPT !.started = day]
             one == [v2 EXCEPT !.down = pending]
  <2>1. outages' = [outages EXCEPT ![i] = one] /\ UNCHANGED <<day, setting, cap, pings, pass, whole>>
    BY <1>7 DEF OutageStarts
  <2>2. pending \in Deliveries /\ pending.created = day /\ pending.status = "pending"
    BY <1>t DEF Deliveries
  <2> HIDE DEF pending
  <2>3. v1 \in OutageRows /\ v1.state = "there" /\ v1.resolved = Open /\ v1.told = FALSE
    BY NoOutageIs DEF OutageRows
  <2> HIDE DEF v1
  <2>4. v2 \in OutageRows /\ v2.state = "there" /\ v2.resolved = Open /\ v2.told = FALSE /\ v2.started = day
    BY <1>t, <2>3 DEF OutageRows
  <2> HIDE DEF v2
  <2>5. /\ one \in OutageRows /\ one.state = "there" /\ one.resolved = Open /\ one.told = FALSE /\ one.started = day
        /\ one.down = pending
    BY <2>2, <2>4 DEF OutageRows
  <2> HIDE DEF one
  <2>6. IsToldRightly(one, day)
    BY <1>n, <2>2, <2>5, RetentionAssumption DEF IsToldRightly
  <2> QED
    BY <1>7, <2>1, <2>5, <2>6, OutageMoves
<1>8. ASSUME NEW i \in Outages, NEW status \in {"sent", "failed"}, DownIsSent(i, status) PROVE RetentionInv'
  <2> DEFINE o == outages[i]
             told == status = "sent" /\ o.resolved = Open
             down == [o.down EXCEPT !.status = status]
             v1 == [o EXCEPT !.down = down]
             one == [v1 EXCEPT !.told = told]
  <2>0. o \in OutageRows /\ IsToldRightly(o, day)
    BY <1>8, <1>t
  <2>1. outages' = [outages EXCEPT ![i] = one] /\ UNCHANGED <<day, setting, cap, pings, pass, whole>>
    BY <1>8, <1>t DEF DownIsSent
  <2>2. o.state = "there" /\ o.down.status = "pending"
    BY <1>8 DEF DownIsSent, There
  <2>3. told \in BOOLEAN /\ (told => status = "sent" /\ o.resolved = Open)
    OBVIOUS
  <2> HIDE DEF o, told
  <2>4. down \in Deliveries /\ down.status = status /\ down.created = o.down.created
    BY <1>8, <2>0 DEF OutageRows, Deliveries
  <2> HIDE DEF down
  <2>5. /\ v1 \in OutageRows /\ v1.down = down /\ v1.state = o.state /\ v1.resolved = o.resolved /\ v1.started = o.started
    BY <2>0, <2>4 DEF OutageRows
  <2> HIDE DEF v1
  <2>6. /\ one \in OutageRows /\ one.down = down /\ one.state = o.state /\ one.resolved = o.resolved
        /\ one.started = o.started /\ one.told = told
    BY <2>3, <2>5 DEF OutageRows
  <2> HIDE DEF one
  <2>7. IsToldRightly(one, day)
    BY <1>8, <2>0, <2>2, <2>3, <2>4, <2>6 DEF IsToldRightly
  <2>8. one.resolved = outages[i].resolved /\ outages[i].state = "there"
    BY <2>2, <2>6 DEF o
  <2> QED
    BY <1>8, <2>1, <2>6, <2>7, <2>8, OutageMoves
<1>9. ASSUME NEW i \in Outages, OutageEnds(i) PROVE RetentionInv'
  <2> DEFINE o == outages[i]
             up == IF o.down.status = "sent" THEN [status |-> "pending", created |-> day] ELSE NoDelivery
             v1 == [o EXCEPT !.resolved = day]
             one == [v1 EXCEPT !.up = up]
  <2>0. o \in OutageRows /\ IsToldRightly(o, day)
    BY <1>9, <1>t
  <2>1. outages' = [outages EXCEPT ![i] = one] /\ UNCHANGED <<day, setting, cap, pings, pass, whole>>
    BY <1>9, <1>t DEF OutageEnds
  <2>2. o.state = "there" /\ o.resolved = Open
    BY <1>9 DEF OutageEnds, There
  <2>3. up \in Deliveries /\ (o.down.status = "sent" => up.status = "pending")
    BY <1>t, NoOutageIs DEF Deliveries
  <2> HIDE DEF o, up
  <2>4. /\ v1 \in OutageRows /\ v1.down = o.down /\ v1.state = o.state /\ v1.resolved = day /\ v1.started = o.started
        /\ v1.told = o.told
    BY <1>t, <2>0 DEF OutageRows
  <2> HIDE DEF v1
  <2>5. /\ one \in OutageRows /\ one.down = o.down /\ one.state = o.state /\ one.resolved = day /\ one.started = o.started
        /\ one.told = o.told /\ one.up = up
    BY <2>3, <2>4 DEF OutageRows
  <2> HIDE DEF one
  <2>6. day # Open
    BY <1>n DEF Open
  <2>7. IsToldRightly(one, day)
    BY <2>0, <2>2, <2>3, <2>5, <2>6 DEF IsToldRightly
  <2> QED
    BY <1>9, <2>1, <2>5, <2>7, OutageMoves
<1>10. ASSUME NEW i \in Outages, UpIsSent(i) PROVE RetentionInv'
  <2> DEFINE o == outages[i]
             up == [o.up EXCEPT !.status = "sent"]
             v1 == [o EXCEPT !.up = up]
             one == [v1 EXCEPT !.told = FALSE]
  <2>0. o \in OutageRows /\ IsToldRightly(o, day)
    BY <1>10, <1>t
  <2>1. outages' = [outages EXCEPT ![i] = one] /\ UNCHANGED <<day, setting, cap, pings, pass, whole>>
    BY <1>10, <1>t DEF UpIsSent
  <2>2. o.state = "there"
    BY <1>10 DEF UpIsSent, There
  <2> HIDE DEF o
  <2>3. up \in Deliveries
    BY <2>0 DEF OutageRows, Deliveries
  <2> HIDE DEF up
  <2>4. v1 \in OutageRows /\ v1.down = o.down /\ v1.state = o.state /\ v1.resolved = o.resolved /\ v1.started = o.started
    BY <2>0, <2>3 DEF OutageRows
  <2> HIDE DEF v1
  <2>5. /\ one \in OutageRows /\ one.down = o.down /\ one.state = o.state /\ one.resolved = o.resolved
        /\ one.started = o.started /\ one.told = FALSE
    BY <2>4 DEF OutageRows
  <2> HIDE DEF one
  <2>6. IsToldRightly(one, day)
    BY <2>0, <2>2, <2>5 DEF IsToldRightly
  <2>7. one.resolved = outages[i].resolved /\ outages[i].state = "there"
    BY <2>2, <2>5 DEF o
  <2> QED
    BY <1>10, <2>1, <2>5, <2>6, <2>7, OutageMoves
<1>11. CASE Reconfigure
  BY <1>11, <1>t DEF Reconfigure, RetentionInv
<1>12. CASE DayPasses
  <2>1. /\ day < LastDay /\ day' = day + 1 /\ UNCHANGED <<setting, cap, pings, outages, pass, whole>>
        /\ \A i \in Outages : There(i) /\ outages[i].resolved = Open => day - outages[i].started < LongestOutage
    BY <1>12 DEF DayPasses
  <2>2. day' \in 0..LastDay /\ pass'.began <= day'
    BY <1>n, <1>t, <2>1
  <2>3. ASSUME NEW i \in Outages PROVE IsToldRightly(outages[i], day + 1)
    <3> DEFINE o == outages[i]
    <3>1. o \in OutageRows /\ IsToldRightly(o, day) /\ (o.state = "there" /\ o.resolved = Open => day - o.started < LongestOutage)
      BY <1>t, <2>1, <2>3 DEF There
    <3> HIDE DEF o
    <3>2. o.started \in Nat /\ LongestOutage \in Nat
      BY <3>1, <1>n, RetentionAssumption DEF OutageRows
    <3>3. o.state = "there" /\ o.resolved = Open => (day + 1) - o.started <= LongestOutage
      BY <1>n, <3>1, <3>2
    <3> QED
      BY <3>1, <3>3 DEF IsToldRightly, o
  <2>4. KeptDays' = KeptDays
    BY <2>1 DEF KeptDays
  <2>5. (whole /\ pass.stage \in {"incidents", "deliveries", "rest"} => PingsFrom(pass.began - KeptDays))'
    BY <1>t, <2>1, <2>4 DEF PingsFrom
  <2>6. (whole /\ pass.stage \in {"deliveries", "rest"} => OutagesFrom(pass.began - KeptDays))'
    BY <1>t, <2>1, <2>4 DEF OutagesFrom
  <2> QED
    BY <1>t, <2>1, <2>2, <2>3, <2>5, <2>6 DEF RetentionInv
<1>13. CASE UNCHANGED retentionVars
  BY <1>13, <1>t DEF retentionVars, RetentionInv, KeptDays, PingsFrom, OutagesFrom
<1> QED
  BY <1>1, <1>2, <1>3, <1>4, <1>5, <1>6, <1>7, <1>8, <1>9, <1>10, <1>11, <1>12, <1>13 DEF RetentionNext

LEMMA RetentionInitially == RetentionInit => RetentionInv
<1> SUFFICES ASSUME RetentionInit PROVE RetentionInv
  OBVIOUS
<1>1. 0 \in 0..LastDay
  BY RetentionAssumption
<1>2. \A today \in Nat : IsToldRightly(NoOutage, today)
  BY NoOutageIs DEF IsToldRightly
<1> QED
  BY <1>1, <1>2, NoOutageIs, NoPassIs DEF RetentionInit, RetentionInv

LEMMA RetentionIsKept == RetentionInv => RecoveryReachesWhoWasTold /\ PassLeavesTheWindow
<1> SUFFICES ASSUME RetentionInv PROVE RecoveryReachesWhoWasTold /\ PassLeavesTheWindow
  OBVIOUS
<1>1. RecoveryReachesWhoWasTold
  BY DEF RetentionInv, IsToldRightly, RecoveryReachesWhoWasTold, There
<1>2. KeptDays \in Nat /\ pass.began \in Nat /\ LastDay \in Nat
  BY KeptDaysAre, RetentionAssumption DEF RetentionInv, PassRows
<1>3. \A d \in pings : d \in Nat
  BY <1>2 DEF RetentionInv
<1>4. \A i \in Outages : outages[i].resolved # Open => outages[i].resolved \in Nat
  BY <1>2 DEF RetentionInv, OutageRows
<1>5. whole /\ pass.stage \in {"incidents", "deliveries", "rest"} => \A d \in pings : ~(d < pass.began - KeptDays)
  <2> SUFFICES ASSUME PingsFrom(pass.began - KeptDays) PROVE \A d \in pings : ~(d < pass.began - KeptDays)
    BY DEF RetentionInv
  <2> QED
    BY <1>2, <1>3 DEF PingsFrom
<1>6. whole /\ pass.stage \in {"deliveries", "rest"} =>
          \A i \in Outages : There(i) /\ outages[i].resolved # Open => ~(outages[i].resolved < pass.began - KeptDays)
  <2> SUFFICES ASSUME OutagesFrom(pass.began - KeptDays), NEW i \in Outages, There(i), outages[i].resolved # Open
               PROVE  ~(outages[i].resolved < pass.began - KeptDays)
    BY DEF RetentionInv
  <2> QED
    BY <1>2, <1>4 DEF OutagesFrom, There
<1>7. \A i \in Outages : outages[i].state = "purged" => outages[i].resolved # Open
  BY DEF RetentionInv, IsToldRightly
<1> QED
  BY <1>1, <1>5, <1>6, <1>7 DEF PassLeavesTheWindow

-----------------------------------------------------------------------------
(***************************************************************************)
(* The budget of a key over every window, and the windows that are kept.   *)
(***************************************************************************)
WindowRows == [count : 0..HitLimit, resetAt : Nat]
Hits == Nat \X Nat

\* The hits of the window a key has, those before it being of the window it had.
HitsOf(w, hits) == {hit \in hits : w.count > 0 /\ hit[1] >= w.resetAt - WindowSpan}

\* A key with its window, the hits it was let through with, what it was promised, and now.
KeyIsRight(w, hits, promise, now) ==
    /\ w \in WindowRows /\ hits \in SUBSET Hits /\ IsFiniteSet(hits) /\ promise \in Nat /\ now \in Nat
    /\ w.count = 0 => w.resetAt = 0
    /\ w.resetAt <= now + WindowSpan /\ (promise > 0 => w.resetAt <= promise)
    /\ \A hit \in hits : hit[1] <= now /\ hit[1] + WindowSpan > now /\ (w.resetAt > now \/ hit[1] < now)
    /\ Cardinality(HitsOf(w, hits)) <= w.count /\ Cardinality(hits \ HitsOf(w, hits)) <= HitLimit

LEMMA HitsAreFinite ==
    ASSUME NEW w, NEW hits, IsFiniteSet(hits)
    PROVE  /\ IsFiniteSet(HitsOf(w, hits)) /\ IsFiniteSet(hits \ HitsOf(w, hits))
           /\ Cardinality(HitsOf(w, hits)) \in Nat /\ Cardinality(hits \ HitsOf(w, hits)) \in Nat
           /\ Cardinality(hits) \in Nat
           /\ Cardinality(hits) = Cardinality(HitsOf(w, hits)) + Cardinality(hits \ HitsOf(w, hits))
<1> DEFINE A == HitsOf(w, hits)
           B == hits \ HitsOf(w, hits)
<1>1. A \in SUBSET hits /\ B \in SUBSET hits /\ A \cup B = hits /\ A \cap B = {}
  BY DEF HitsOf
<1> HIDE DEF A, B
<1>2. IsFiniteSet(A) /\ IsFiniteSet(B)
  BY <1>1, FS_Subset
<1>3. Cardinality(A) \in Nat /\ Cardinality(B) \in Nat
  BY <1>2, FS_CardinalityType
<1>4. Cardinality(A \cup B) = Cardinality(A) + Cardinality(B) - Cardinality(A \cap B)
  BY <1>2, FS_Union
<1>5. Cardinality(A \cap B) = 0
  BY <1>1, FS_EmptySet
<1>6. Cardinality(hits) = Cardinality(A) + Cardinality(B)
  <2>1. Cardinality(A \cup B) = Cardinality(hits)
    BY <1>1
  <2> QED
    BY <1>3, <1>4, <1>5, <2>1
<1>7. Cardinality(hits) \in Nat
  BY FS_CardinalityType
<1> QED
  BY <1>2, <1>3, <1>6, <1>7 DEF A, B

\* Of a window that has run out every hit that still counts is a hit.
LEMMA WindowIsOver ==
    ASSUME NEW w, NEW hits, NEW promise, NEW now, KeyIsRight(w, hits, promise, now), ~(w.resetAt > now)
    PROVE  Cardinality(hits) \in Nat /\ Cardinality(hits) <= HitLimit /\ (\A hit \in hits : hit[1] < now)
<1>t. /\ w.count \in 0..HitLimit /\ w.resetAt \in Nat /\ HitLimit \in Nat /\ WindowSpan \in Nat /\ now \in Nat
      /\ \A hit \in hits : hit[1] \in Nat
  BY RateLimitAssumption DEF KeyIsRight, WindowRows, Hits
<1>1. Cardinality(hits) \in Nat
  BY HitsAreFinite DEF KeyIsRight
<1>2. CASE w.count = 0
  <2>1. HitsOf(w, hits) = {}
    BY <1>t, <1>2 DEF HitsOf
  <2>2. hits \ HitsOf(w, hits) = hits
    BY <2>1
  <2> QED
    BY <1>1, <2>2 DEF KeyIsRight
<1>3. CASE w.count > 0
  <2>1. HitsOf(w, hits) = hits
    BY <1>t, <1>3 DEF HitsOf, KeyIsRight
  <2>2. Cardinality(hits) <= w.count
    BY <2>1 DEF KeyIsRight
  <2> QED
    BY <1>1, <1>t, <2>2 DEF KeyIsRight
<1> QED
  BY <1>t, <1>2, <1>3

LEMMA NoWindowIs == NoWindow \in WindowRows /\ NoWindow.count = 0 /\ NoWindow.resetAt = 0
BY RateLimitAssumption DEF NoWindow, WindowRows

LEMMA WindowGoes ==
    ASSUME NEW w, NEW hits, NEW promise, NEW now, KeyIsRight(w, hits, promise, now)
    PROVE  KeyIsRight(NoWindow, IF w.resetAt > now THEN {} ELSE hits, promise, now)
<1>0. HitLimit \in Nat /\ WindowSpan \in Nat /\ now \in Nat /\ promise \in Nat
  BY RateLimitAssumption DEF KeyIsRight
<1>1. CASE w.resetAt > now
  <2>1. HitsOf(NoWindow, {}) = {} /\ {} \ HitsOf(NoWindow, {}) = {}
    BY DEF HitsOf
  <2>2. Cardinality({}) = 0 /\ IsFiniteSet({})
    BY FS_EmptySet
  <2> QED
    BY <1>0, <1>1, <2>1, <2>2, NoWindowIs DEF KeyIsRight
<1>2. CASE ~(w.resetAt > now)
  <2>1. HitsOf(NoWindow, hits) = {} /\ hits \ HitsOf(NoWindow, hits) = hits
    <3>1. HitsOf(NoWindow, hits) = {}
      BY NoWindowIs DEF HitsOf
    <3> QED
      BY <3>1
  <2>2. Cardinality({}) = 0
    BY FS_EmptySet
  <2>3. Cardinality(hits) <= HitLimit /\ (\A hit \in hits : hit[1] < now)
    BY <1>2, WindowIsOver
  <2>4. KeyIsRight(NoWindow, hits, promise, now)
    BY <1>0, <2>1, <2>2, <2>3, NoWindowIs DEF KeyIsRight
  <2> QED
    BY <1>2, <2>4
<1> QED
  BY <1>1, <1>2

LEMMA WindowOpens ==
    ASSUME NEW w, NEW hits, NEW promise, NEW now, KeyIsRight(w, hits, promise, now), ~(w.resetAt > now)
    PROVE  KeyIsRight([count |-> 1, resetAt |-> now + WindowSpan], hits \cup {<<now, 1>>}, 0, now)
<1>0. /\ HitLimit \in Nat \ {0} /\ WindowSpan \in Nat \ {0} /\ now \in Nat /\ hits \in SUBSET Hits /\ IsFiniteSet(hits)
      /\ \A hit \in hits : hit[1] \in Nat
  BY RateLimitAssumption DEF KeyIsRight, Hits
<1> DEFINE opened == [count |-> 1, resetAt |-> now + WindowSpan]
           one == <<now, 1>>
           all == hits \cup {one}
<1>1. opened \in WindowRows /\ opened.count = 1 /\ opened.resetAt = now + WindowSpan
  BY <1>0 DEF WindowRows
<1>2. one \in Hits /\ one[1] = now
  BY <1>0 DEF Hits
<1> HIDE DEF opened, one
<1>3. all \in SUBSET Hits /\ IsFiniteSet(all) /\ \A hit \in all : hit \in hits \/ hit = one
  BY <1>0, <1>2, FS_AddElement
<1>4. Cardinality(hits) <= HitLimit /\ \A hit \in hits : hit[1] < now
  BY WindowIsOver
<1>5. \A hit \in hits : hit[1] + WindowSpan > now
  BY DEF KeyIsRight
<1>6. HitsOf(opened, all) = {one} /\ all \ HitsOf(opened, all) = hits
  <2>1. \A hit : hit \in HitsOf(opened, all) <=> hit \in all /\ hit[1] >= now
    BY <1>0, <1>1 DEF HitsOf
  <2>2. one \in HitsOf(opened, all)
    BY <1>0, <1>2, <2>1
  <2>3. \A hit \in hits : hit \notin HitsOf(opened, all)
    BY <1>0, <1>4, <2>1
  <2> QED
    BY <2>1, <2>2, <2>3
<1>7. Cardinality({one}) = 1
  BY FS_Singleton
<1>8. \A hit \in all : hit[1] <= now /\ hit[1] + WindowSpan > now /\ opened.resetAt > now
  BY <1>0, <1>1, <1>2, <1>3, <1>4, <1>5
<1> HIDE DEF all
<1>9. KeyIsRight(opened, all, 0, now)
  <2>1. 0 \in Nat /\ opened.count # 0 /\ opened.resetAt <= now + WindowSpan /\ ~(0 > 0)
    BY <1>0, <1>1
  <2>2. Cardinality(HitsOf(opened, all)) <= opened.count /\ Cardinality(all \ HitsOf(opened, all)) <= HitLimit
    <3>1. Cardinality(HitsOf(opened, all)) = 1 /\ Cardinality(all \ HitsOf(opened, all)) = Cardinality(hits)
      BY <1>6, <1>7, Zenon
    <3> QED
      BY <1>1, <1>4, <3>1
  <2>3. \A hit \in all : hit[1] <= now /\ hit[1] + WindowSpan > now /\ (opened.resetAt > now \/ hit[1] < now)
    BY <1>8
  <2> QED
    BY <1>0, <1>1, <1>3, <2>1, <2>2, <2>3 DEF KeyIsRight
<1> QED
  BY <1>9 DEF opened, all, one

LEMMA HitCounts ==
    ASSUME NEW w, NEW hits, NEW promise, NEW now, KeyIsRight(w, hits, promise, now),
           w.resetAt > now, w.count < HitLimit
    PROVE  KeyIsRight([w EXCEPT !.count = @ + 1], hits \cup {<<now, w.count + 1>>}, promise, now)
<1>0. /\ HitLimit \in Nat \ {0} /\ WindowSpan \in Nat \ {0} /\ now \in Nat /\ hits \in SUBSET Hits /\ IsFiniteSet(hits)
      /\ w \in WindowRows /\ w.count \in 0..HitLimit /\ w.resetAt \in Nat /\ promise \in Nat
      /\ w.resetAt <= now + WindowSpan /\ (promise > 0 => w.resetAt <= promise) /\ w.count > 0
      /\ \A hit \in hits : hit[1] \in Nat /\ hit[1] <= now /\ hit[1] + WindowSpan > now
  BY RateLimitAssumption DEF KeyIsRight, Hits, WindowRows
<1> DEFINE after == [w EXCEPT !.count = @ + 1]
           one == <<now, w.count + 1>>
           all == hits \cup {one}
<1>1. after \in WindowRows /\ after.count = w.count + 1 /\ after.resetAt = w.resetAt
  BY <1>0 DEF WindowRows
<1>2. one \in Hits /\ one[1] = now
  BY <1>0 DEF Hits
<1> HIDE DEF after, one
<1>3. all \in SUBSET Hits /\ IsFiniteSet(all) /\ \A hit \in all : hit \in hits \/ hit = one
  BY <1>0, <1>2, FS_AddElement
<1>4. HitsOf(after, all) = HitsOf(w, hits) \cup {one} /\ all \ HitsOf(after, all) \in SUBSET (hits \ HitsOf(w, hits))
  <2>1. \A hit : hit \in HitsOf(after, all) <=> hit \in all /\ hit[1] >= w.resetAt - WindowSpan
    BY <1>0, <1>1 DEF HitsOf
  <2>2. \A hit : hit \in HitsOf(w, hits) <=> hit \in hits /\ hit[1] >= w.resetAt - WindowSpan
    BY <1>0 DEF HitsOf
  <2>3. one[1] >= w.resetAt - WindowSpan
    BY <1>0, <1>2
  <2> QED
    BY <2>1, <2>2, <2>3
<1>5. /\ Cardinality(HitsOf(w, hits) \cup {one}) \in Nat
      /\ Cardinality(HitsOf(w, hits) \cup {one}) <= w.count + 1
      /\ Cardinality(all \ HitsOf(after, all)) <= HitLimit
  <2> DEFINE A == HitsOf(w, hits)
             B == hits \ A
             C == all \ HitsOf(after, all)
  <2>1. /\ IsFiniteSet(A) /\ IsFiniteSet(B) /\ Cardinality(A) \in Nat /\ Cardinality(B) \in Nat
        /\ Cardinality(A) <= w.count /\ Cardinality(B) <= HitLimit
    BY <1>0, HitsAreFinite DEF KeyIsRight
  <2>2. C \in SUBSET B
    BY <1>4
  <2> HIDE DEF A, B, C
  <2>3. IsFiniteSet(A \cup {one}) /\ Cardinality(A \cup {one}) \in {Cardinality(A), Cardinality(A) + 1}
    BY <2>1, FS_AddElement
  <2>4. IsFiniteSet(C) /\ Cardinality(C) <= Cardinality(B)
    BY <2>1, <2>2, FS_Subset
  <2>5. Cardinality(C) \in Nat
    BY <2>4, FS_CardinalityType
  <2>6. /\ Cardinality(A \cup {one}) \in Nat /\ Cardinality(A \cup {one}) <= w.count + 1 /\ Cardinality(C) <= HitLimit
    BY <1>0, <2>1, <2>3, <2>4, <2>5
  <2> QED
    BY <2>6 DEF A, C
<1>6. \A hit \in all : hit[1] <= now /\ hit[1] + WindowSpan > now
  BY <1>0, <1>2, <1>3
<1> HIDE DEF all
<1>7. KeyIsRight(after, all, promise, now)
  BY <1>0, <1>1, <1>3, <1>4, <1>5, <1>6 DEF KeyIsRight
<1> QED
  BY <1>7 DEF after, all, one

LEMMA KeyIsRefused ==
    ASSUME NEW w, NEW hits, NEW promise, NEW now, KeyIsRight(w, hits, promise, now), w.resetAt > now
    PROVE  KeyIsRight(w, hits, now + 2 * ((w.resetAt - now + 1) \div 2), now)
<1>1. w.resetAt \in Nat /\ now \in Nat
  BY DEF KeyIsRight, WindowRows
<1>2. now + 2 * ((w.resetAt - now + 1) \div 2) \in Nat /\ w.resetAt <= now + 2 * ((w.resetAt - now + 1) \div 2)
  BY <1>1
<1> QED
  BY <1>2 DEF KeyIsRight

LEMMA TimeGoesOn ==
    ASSUME NEW w, NEW hits, NEW promise, NEW now, KeyIsRight(w, hits, promise, now)
    PROVE  KeyIsRight(w, {hit \in hits : hit[1] + WindowSpan > now + 1}, promise, now + 1)
<1> DEFINE left == {hit \in hits : hit[1] + WindowSpan > now + 1}
<1>0. /\ HitLimit \in Nat \ {0} /\ WindowSpan \in Nat \ {0} /\ now \in Nat /\ hits \in SUBSET Hits /\ IsFiniteSet(hits)
      /\ w \in WindowRows /\ w.count \in 0..HitLimit /\ w.resetAt \in Nat /\ promise \in Nat
      /\ \A hit \in hits : hit[1] \in Nat /\ hit[1] <= now
  BY RateLimitAssumption DEF KeyIsRight, Hits, WindowRows
<1>1. left \in SUBSET hits /\ \A hit \in left : hit[1] < now + 1 /\ hit[1] + WindowSpan > now + 1
  BY <1>0
<1> HIDE DEF left
<1>2. IsFiniteSet(left)
  BY <1>0, <1>1, FS_Subset
<1>3. HitsOf(w, left) \in SUBSET HitsOf(w, hits) /\ left \ HitsOf(w, left) \in SUBSET (hits \ HitsOf(w, hits))
  BY <1>1 DEF HitsOf
<1>4. /\ Cardinality(HitsOf(w, left)) <= Cardinality(HitsOf(w, hits))
      /\ Cardinality(left \ HitsOf(w, left)) <= Cardinality(hits \ HitsOf(w, hits))
  BY <1>0, <1>3, HitsAreFinite, FS_Subset
<1>5. /\ Cardinality(HitsOf(w, left)) \in Nat /\ Cardinality(HitsOf(w, hits)) \in Nat
      /\ Cardinality(left \ HitsOf(w, left)) \in Nat /\ Cardinality(hits \ HitsOf(w, hits)) \in Nat
  BY <1>0, <1>2, HitsAreFinite
<1>6. Cardinality(HitsOf(w, left)) <= w.count /\ Cardinality(left \ HitsOf(w, left)) <= HitLimit
  <2>1. Cardinality(HitsOf(w, hits)) <= w.count /\ Cardinality(hits \ HitsOf(w, hits)) <= HitLimit
    BY DEF KeyIsRight
  <2> QED
    BY <1>0, <1>4, <1>5, <2>1
<1>7. w.resetAt <= now + 1 + WindowSpan
  BY <1>0 DEF KeyIsRight
<1>8. KeyIsRight(w, left, promise, now + 1)
  <2>1. left \in SUBSET Hits /\ now + 1 \in Nat
    BY <1>0, <1>1
  <2>2. (w.count = 0 => w.resetAt = 0) /\ (promise > 0 => w.resetAt <= promise)
    BY DEF KeyIsRight
  <2>3. \A hit \in left : hit[1] <= now + 1
    BY <1>0, <1>1
  <2> QED
    BY <1>0, <1>1, <1>2, <1>6, <1>7, <2>1, <2>2, <2>3 DEF KeyIsRight
<1> QED
  BY <1>8 DEF left

RateInv ==
    /\ windows \in [ClientKeys -> WindowRows] /\ moment \in Nat
    /\ passed \in [ClientKeys -> SUBSET Hits] /\ promised \in [ClientKeys -> Nat]
    /\ \A k \in ClientKeys : KeyIsRight(windows[k], passed[k], promised[k], moment)
    /\ IsFiniteSet(Tracked) /\ Cardinality(Tracked) <= MaxWindows

LEMMA MapHasRoom ==
    ASSUME RateInv, NEW held \in SUBSET Tracked,
           IF Cardinality(Tracked) >= MaxWindows THEN KeptByEvict(held) ELSE held = Tracked
    PROVE  IsFiniteSet(held) /\ Cardinality(held) \in Nat /\ Cardinality(held) < MaxWindows
<1>1. IsFiniteSet(held)
  BY FS_Subset DEF RateInv
<1>2. Cardinality(held) \in Nat
  BY <1>1, FS_CardinalityType
<1>3. Cardinality(Tracked) \in Nat
  BY FS_CardinalityType DEF RateInv
<1>4. MaxWindows \in Nat \ {0} /\ (MaxWindows * 9) \div 10 < MaxWindows
  BY RateLimitAssumption
<1> DEFINE running == {k \in Tracked : InWindow(k)}
           room == (MaxWindows * 9) \div 10
<1>5. CASE Cardinality(Tracked) >= MaxWindows
  <2>1. Cardinality(held) < MaxWindows \/ Cardinality(held) = room
    <3>1. IF Cardinality(running) < MaxWindows THEN held = running ELSE Cardinality(held) = room
      BY <1>5 DEF KeptByEvict
    <3> HIDE DEF running, room
    <3> QED
      BY <3>1, Zenon
  <2>2. room < MaxWindows
    BY <1>4
  <2> HIDE DEF room
  <2> QED
    BY <1>1, <1>2, <2>1, <2>2
<1>6. CASE ~(Cardinality(Tracked) >= MaxWindows)
  <2>1. Cardinality(held) = Cardinality(Tracked)
    BY <1>6
  <2> QED
    BY <1>1, <1>3, <1>4, <1>6, <2>1
<1> QED
  BY <1>1, <1>2, <1>5, <1>6

LEMMA RateStep == RateInv /\ [RateLimitNext]_rateVars => RateInv'
<1> SUFFICES ASSUME RateInv, [RateLimitNext]_rateVars PROVE RateInv'
  OBVIOUS
<1>t. /\ windows \in [ClientKeys -> WindowRows] /\ moment \in Nat
      /\ passed \in [ClientKeys -> SUBSET Hits] /\ promised \in [ClientKeys -> Nat]
      /\ \A k \in ClientKeys : KeyIsRight(windows[k], passed[k], promised[k], moment)
      /\ IsFiniteSet(Tracked) /\ Cardinality(Tracked) <= MaxWindows
  BY DEF RateInv
\* One key is moved, the others keep all they have.
<1>k. ASSUME NEW k \in ClientKeys, NEW w, NEW hits, NEW promise,
             KeyIsRight(w, hits, promise, moment), moment' = moment,
             windows' = [windows EXCEPT ![k] = w], passed' = [passed EXCEPT ![k] = hits],
             promised' = [promised EXCEPT ![k] = promise], windows[k].count > 0, w.count > 0
      PROVE  RateInv'
  <2>1. w \in WindowRows /\ hits \in SUBSET Hits /\ promise \in Nat
    BY <1>k DEF KeyIsRight
  <2>2. windows' \in [ClientKeys -> WindowRows] /\ \A j \in ClientKeys : windows'[j] = IF j = k THEN w ELSE windows[j]
    BY <1>t, <1>k, <2>1
  <2>3. passed' \in [ClientKeys -> SUBSET Hits] /\ \A j \in ClientKeys : passed'[j] = IF j = k THEN hits ELSE passed[j]
    BY <1>t, <1>k, <2>1
  <2>4. promised' \in [ClientKeys -> Nat] /\ \A j \in ClientKeys : promised'[j] = IF j = k THEN promise ELSE promised[j]
    BY <1>t, <1>k, <2>1
  <2>5. ASSUME NEW j \in ClientKeys PROVE KeyIsRight(windows'[j], passed'[j], promised'[j], moment')
    <3>1. CASE j = k
      <4>1. windows'[j] = w /\ passed'[j] = hits /\ promised'[j] = promise
        BY <2>2, <2>3, <2>4, <3>1, Zenon
      <4> QED
        BY <1>k, <4>1, Zenon
    <3>2. CASE j # k
      <4>1. windows'[j] = windows[j] /\ passed'[j] = passed[j] /\ promised'[j] = promised[j]
        BY <2>2, <2>3, <2>4, <3>2, Zenon
      <4>2. KeyIsRight(windows[j], passed[j], promised[j], moment)
        BY <1>t
      <4> QED
        BY <1>k, <4>1, <4>2, Zenon
    <3> QED
      BY <3>1, <3>2
  <2>6. Tracked' = Tracked
    BY <1>k, <2>2 DEF Tracked
  <2> QED
    BY <1>t, <1>k, <2>2, <2>3, <2>4, <2>5, <2>6 DEF RateInv
<1>1. ASSUME NEW k \in ClientKeys, OpenWindow(k) PROVE RateInv'
  <2>1. PICK held \in SUBSET Tracked :
            /\ ~InWindow(k)
            /\ IF Cardinality(Tracked) >= MaxWindows THEN KeptByEvict(held) ELSE held = Tracked
            /\ windows' = [j \in ClientKeys |-> IF j = k THEN [count |-> 1, resetAt |-> moment + WindowSpan]
                                                ELSE IF j \in held THEN windows[j] ELSE NoWindow]
            /\ passed' = [j \in ClientKeys |-> IF j = k THEN passed[k] \cup {<<moment, 1>>}
                                               ELSE IF InWindow(j) /\ j \notin held THEN {} ELSE passed[j]]
            /\ promised' = [promised EXCEPT ![k] = 0] /\ moment' = moment
    BY <1>1 DEF OpenWindow
  <2> DEFINE opened == [count |-> 1, resetAt |-> moment + WindowSpan]
             all == passed[k] \cup {<<moment, 1>>}
  <2>2. opened.count = 1
    OBVIOUS
  <2>3. KeyIsRight(opened, all, 0, moment)
    BY <1>t, <2>1, WindowOpens DEF InWindow
  <2> HIDE DEF opened, all
  <2>4. /\ windows' = [j \in ClientKeys |-> IF j = k THEN opened ELSE IF j \in held THEN windows[j] ELSE NoWindow]
        /\ passed' = [j \in ClientKeys |-> IF j = k THEN all ELSE IF InWindow(j) /\ j \notin held THEN {} ELSE passed[j]]
    BY <2>1 DEF opened, all
  <2>5. opened \in WindowRows /\ all \in SUBSET Hits
    BY <2>3 DEF KeyIsRight
  <2>6. /\ windows' \in [ClientKeys -> WindowRows] /\ passed' \in [ClientKeys -> SUBSET Hits]
        /\ promised' \in [ClientKeys -> Nat] /\ moment' \in Nat
    <3>1. \A j \in ClientKeys : windows[j] \in WindowRows /\ passed[j] \in SUBSET Hits
      BY <1>t
    <3> QED
      BY <1>t, <2>1, <2>4, <2>5, <3>1, NoWindowIs
  <2>7. ASSUME NEW j \in ClientKeys PROVE KeyIsRight(windows'[j], passed'[j], promised'[j], moment')
    <3>1. CASE j = k
      BY <1>t, <2>1, <2>3, <2>4, <3>1
    <3>2. CASE j # k /\ j \in held
      <4>1. windows'[j] = windows[j] /\ passed'[j] = passed[j] /\ promised'[j] = promised[j]
        BY <1>t, <2>1, <2>4, <3>2
      <4> QED
        BY <1>t, <2>1, <4>1
    <3>3. CASE j # k /\ j \notin held
      <4>1. /\ windows'[j] = NoWindow /\ promised'[j] = promised[j]
            /\ passed'[j] = IF windows[j].resetAt > moment THEN {} ELSE passed[j]
        BY <1>t, <2>1, <2>4, <3>3 DEF InWindow
      <4>2. KeyIsRight(NoWindow, IF windows[j].resetAt > moment THEN {} ELSE passed[j], promised[j], moment)
        BY <1>t, WindowGoes
      <4> QED
        BY <2>1, <4>1, <4>2
    <3> QED
      BY <3>1, <3>2, <3>3
  <2>8. IsFiniteSet(Tracked') /\ Cardinality(Tracked') <= MaxWindows
    <3>1. IsFiniteSet(held) /\ Cardinality(held) \in Nat /\ Cardinality(held) < MaxWindows
      BY <2>1, MapHasRoom
    <3>2. Tracked' \in SUBSET (held \cup {k})
      BY <2>4, NoWindowIs DEF Tracked
    <3>3. IsFiniteSet(held \cup {k}) /\ Cardinality(held \cup {k}) \in {Cardinality(held), Cardinality(held) + 1}
      BY <3>1, FS_AddElement
    <3>4. IsFiniteSet(Tracked') /\ Cardinality(Tracked') <= Cardinality(held \cup {k})
      BY <3>2, <3>3, FS_Subset
    <3>5. Cardinality(Tracked') \in Nat
      BY <3>4, FS_CardinalityType
    <3> QED
      BY <3>1, <3>3, <3>4, <3>5, RateLimitAssumption
  <2> QED
    BY <2>6, <2>7, <2>8 DEF RateInv
<1>2. ASSUME NEW k \in ClientKeys, Count(k) PROVE RateInv'
  <2> DEFINE w == [windows[k] EXCEPT !.count = @ + 1]
             hits == passed[k] \cup {<<moment, windows[k].count + 1>>}
  <2>1. KeyIsRight(windows[k], passed[k], promised[k], moment) /\ windows[k] \in WindowRows /\ promised[k] \in Nat
    BY <1>t
  <2>2. windows[k].resetAt > moment /\ windows[k].count < HitLimit /\ moment' = moment
    BY <1>2, <1>t, <2>1, RateLimitAssumption DEF Count, Spent, InWindow, WindowRows
  <2>3. KeyIsRight(w, hits, promised[k], moment)
    BY <2>1, <2>2, HitCounts
  <2>4. windows[k].count > 0 /\ w.count > 0
    BY <1>t, <2>1, <2>2 DEF KeyIsRight, WindowRows
  <2>5. /\ windows' = [windows EXCEPT ![k] = w] /\ passed' = [passed EXCEPT ![k] = hits]
        /\ promised' = promised
    BY <1>2 DEF Count
  <2> HIDE DEF w, hits
  <2>6. promised' = [promised EXCEPT ![k] = promised[k]]
    BY <1>t, <2>5
  <2> QED
    BY <1>k, <2>2, <2>3, <2>4, <2>5, <2>6
<1>3. ASSUME NEW k \in ClientKeys, Refuse(k) PROVE RateInv'
  <2> DEFINE promise == moment + 2 * ((windows[k].resetAt - moment + 1) \div 2)
  <2>1. KeyIsRight(windows[k], passed[k], promised[k], moment) /\ windows[k] \in WindowRows
    BY <1>t
  <2>2. windows[k].resetAt > moment /\ moment' = moment /\ UNCHANGED <<windows, passed>>
    BY <1>3 DEF Refuse, Spent, InWindow
  <2>3. KeyIsRight(windows[k], passed[k], promise, moment)
    BY <2>1, <2>2, KeyIsRefused
  <2>4. windows[k].count > 0
    BY <1>t, <2>1, <2>2 DEF KeyIsRight, WindowRows
  <2>5. promised' = [promised EXCEPT ![k] = promise]
    BY <1>3 DEF Refuse, RetryAfter
  <2> HIDE DEF promise
  <2>6. windows' = [windows EXCEPT ![k] = windows[k]] /\ passed' = [passed EXCEPT ![k] = passed[k]]
    BY <1>t, <2>2
  <2> QED
    BY <1>k, <2>2, <2>3, <2>4, <2>5, <2>6
<1>4. CASE MomentPasses
  <2>1. /\ moment' = moment + 1 /\ UNCHANGED <<windows, promised>>
        /\ passed' = [k \in ClientKeys |-> {hit \in passed[k] : hit[1] + WindowSpan > moment + 1}]
    BY <1>4 DEF MomentPasses
  <2>2. moment' \in Nat /\ passed' \in [ClientKeys -> SUBSET Hits] /\ Tracked' = Tracked
    BY <1>t, <2>1 DEF Tracked
  <2>3. \A k \in ClientKeys : KeyIsRight(windows'[k], passed'[k], promised'[k], moment')
    BY <1>t, <2>1, TimeGoesOn
  <2> QED
    BY <1>t, <2>1, <2>2, <2>3 DEF RateInv
<1>5. CASE UNCHANGED rateVars
  BY <1>t, <1>5 DEF RateInv, rateVars, Tracked
<1> QED
  BY <1>1, <1>2, <1>3, <1>4, <1>5 DEF RateLimitNext

LEMMA RateInitially == RateLimitInit => RateInv
<1> SUFFICES ASSUME RateLimitInit PROVE RateInv
  OBVIOUS
<1>0. HitLimit \in Nat /\ WindowSpan \in Nat /\ MaxWindows \in Nat
  BY RateLimitAssumption
<1>1. /\ windows = [k \in ClientKeys |-> NoWindow] /\ moment = 0 /\ passed = [k \in ClientKeys |-> {}]
      /\ promised = [k \in ClientKeys |-> 0]
  BY DEF RateLimitInit
<1>2. IsFiniteSet({}) /\ Cardinality({}) = 0
  BY FS_EmptySet
<1>3. HitsOf(NoWindow, {}) = {} /\ {} \ HitsOf(NoWindow, {}) = {}
  BY DEF HitsOf
<1>4. KeyIsRight(NoWindow, {}, 0, 0)
  BY <1>0, <1>2, <1>3, NoWindowIs DEF KeyIsRight
<1>5. Tracked = {}
  BY <1>1, NoWindowIs DEF Tracked
<1> QED
  BY <1>0, <1>1, <1>2, <1>4, <1>5, NoWindowIs DEF RateInv

LEMMA RateIsKept == RateInv => BudgetHolds /\ RetryAfterSuffices /\ WindowsAreBounded
<1> SUFFICES ASSUME RateInv PROVE BudgetHolds /\ RetryAfterSuffices /\ WindowsAreBounded
  OBVIOUS
<1>1. ASSUME NEW k \in ClientKeys
      PROVE  Cardinality(passed[k]) <= 2 * HitLimit /\ (promised[k] > 0 /\ moment >= promised[k] => ~Spent(k))
  <2>1. KeyIsRight(windows[k], passed[k], promised[k], moment)
    BY DEF RateInv
  <2>2. /\ windows[k].count \in 0..HitLimit /\ windows[k].resetAt \in Nat /\ HitLimit \in Nat
        /\ promised[k] \in Nat /\ moment \in Nat
    BY <2>1, RateLimitAssumption DEF KeyIsRight, WindowRows
  <2>3. /\ Cardinality(HitsOf(windows[k], passed[k])) \in Nat
        /\ Cardinality(passed[k] \ HitsOf(windows[k], passed[k])) \in Nat
        /\ Cardinality(passed[k]) = Cardinality(HitsOf(windows[k], passed[k])) + Cardinality(passed[k] \ HitsOf(windows[k], passed[k]))
    BY <2>1, HitsAreFinite DEF KeyIsRight
  <2>4. /\ Cardinality(HitsOf(windows[k], passed[k])) <= windows[k].count
        /\ Cardinality(passed[k] \ HitsOf(windows[k], passed[k])) <= HitLimit
        /\ promised[k] > 0 => windows[k].resetAt <= promised[k]
    BY <2>1 DEF KeyIsRight
  <2>5. Cardinality(passed[k]) <= 2 * HitLimit
    BY <2>2, <2>3, <2>4
  <2>6. promised[k] > 0 /\ moment >= promised[k] => ~Spent(k)
    BY <2>2, <2>4 DEF Spent, InWindow
  <2> QED
    BY <2>5, <2>6
<1>2. Cardinality(Tracked) <= MaxWindows
  BY DEF RateInv
<1> QED
  BY <1>1, <1>2 DEF BudgetHolds, RetryAfterSuffices, WindowsAreBounded

-----------------------------------------------------------------------------
(***************************************************************************)
(* Finite sets in order.                                                   *)
(***************************************************************************)
\* An order of a set, and the sequences that follow it.
IsAnOrder(order, S) ==
    /\ \A a, b \in S : a # b => <<a, b>> \in order \/ <<b, a>> \in order
    /\ \A a, b, c \in S : <<a, b>> \in order /\ <<b, c>> \in order => <<a, c>> \in order
    /\ \A a \in S : <<a, a>> \notin order
Follows(s, order, n) == \A i, j \in 1..n : i < j => <<s[i], s[j]>> \in order

\* What comes before an element, itself, and what comes after it.
LEMMA PartsFollow ==
    ASSUME NEW T, NEW order, IsAnOrder(order, T), NEW x \in T, NEW A, NEW B,
           A = {a \in T : <<a, x>> \in order}, B = {b \in T : <<x, b>> \in order},
           NEW m \in Nat, NEW n \in Nat, NEW f \in [1..m -> A], NEW g \in [1..n -> B],
           Follows(f, order, m), Follows(g, order, n)
    PROVE  \E s \in [1..(m + 1 + n) -> T] : Follows(s, order, m + 1 + n)
<1> DEFINE s == [i \in 1..(m + 1 + n) |-> IF i <= m THEN f[i] ELSE IF i = m + 1 THEN x ELSE g[i - (m + 1)]]
<1>1. /\ \A i \in 1..m : i \in 1..(m + 1 + n) /\ s[i] = f[i] /\ f[i] \in T /\ <<f[i], x>> \in order
      /\ s[m + 1] = x
      /\ \A i \in (m + 2)..(m + 1 + n) : /\ s[i] = g[i - (m + 1)] /\ g[i - (m + 1)] \in T
                                         /\ <<x, g[i - (m + 1)]>> \in order /\ i - (m + 1) \in 1..n
  <2>1. \A i \in 1..m : i \in 1..(m + 1 + n) /\ s[i] = f[i]
    OBVIOUS
  <2>2. \A i \in 1..m : f[i] \in A
    OBVIOUS
  <2>3. s[m + 1] = x
    OBVIOUS
  <2>4. \A i \in (m + 2)..(m + 1 + n) : i - (m + 1) \in 1..n /\ i \in 1..(m + 1 + n) /\ ~(i <= m) /\ i # m + 1
    OBVIOUS
  <2>5. \A i \in (m + 2)..(m + 1 + n) : s[i] = g[i - (m + 1)] /\ g[i - (m + 1)] \in B
    BY <2>4
  <2> HIDE DEF s
  <2> QED
    BY <2>1, <2>2, <2>3, <2>4, <2>5
<1>2. \A i \in 1..(m + 1 + n) : i \in 1..m \/ i = m + 1 \/ i \in (m + 2)..(m + 1 + n)
  OBVIOUS
<1>3. s \in [1..(m + 1 + n) -> T]
  <2>1. \A i \in 1..(m + 1 + n) : s[i] \in T
    BY <1>1, <1>2, Zenon
  <2>2. s = [i \in 1..(m + 1 + n) |-> s[i]]
    OBVIOUS
  <2> HIDE DEF s
  <2> QED
    BY <2>1, <2>2
<1> HIDE DEF s
<1>4. Follows(s, order, m + 1 + n)
  <2> SUFFICES ASSUME NEW i \in 1..(m + 1 + n), NEW j \in 1..(m + 1 + n), i < j PROVE <<s[i], s[j]>> \in order
    BY DEF Follows
  <2>1. CASE i \in 1..m /\ j \in 1..m
    BY <1>1, <2>1 DEF Follows
  <2>2. CASE i \in 1..m /\ j = m + 1
    BY <1>1, <2>2
  <2>3. CASE i \in 1..m /\ j \in (m + 2)..(m + 1 + n)
    <3>1. <<s[i], x>> \in order /\ <<x, s[j]>> \in order /\ s[i] \in T /\ s[j] \in T
      BY <1>1, <2>3
    <3> QED
      BY <3>1 DEF IsAnOrder
  <2>4. CASE i = m + 1 /\ j \in (m + 2)..(m + 1 + n)
    BY <1>1, <2>4
  <2>5. CASE i \in (m + 2)..(m + 1 + n) /\ j \in (m + 2)..(m + 1 + n)
    <3>1. i - (m + 1) \in 1..n /\ j - (m + 1) \in 1..n /\ i - (m + 1) < j - (m + 1)
      BY <2>5
    <3> QED
      BY <1>1, <2>5, <3>1 DEF Follows
  <2> QED
    BY <1>2, <2>1, <2>2, <2>3, <2>4, <2>5
<1> QED
  BY <1>3, <1>4

\* Every finite set can be put in order.
LEMMA OrderExists ==
    ASSUME NEW S, IsFiniteSet(S), NEW order, IsAnOrder(order, S)
    PROVE  \E s \in [1..Cardinality(S) -> S] : Follows(s, order, Cardinality(S))
<1> DEFINE Ordered(T) == \E s \in [1..Cardinality(T) -> T] : Follows(s, order, Cardinality(T))
           sizes == {n \in Nat : \E T \in SUBSET S : Cardinality(T) = n /\ ~Ordered(T)}
<1> HIDE DEF Ordered
<1>1. SUFFICES sizes = {}
  <2>1. Cardinality(S) \in Nat
    BY FS_CardinalityType
  <2>2. Ordered(S)
    BY <1>1, <2>1
  <2> QED
    BY <2>2 DEF Ordered
<1>2. SUFFICES ASSUME sizes # {} PROVE FALSE
  OBVIOUS
<1>3. PICK n \in sizes : \A m \in sizes : n <= m
  <2>1. sizes \in SUBSET Nat
    OBVIOUS
  <2> HIDE DEF sizes
  <2> QED
    BY <1>2, <2>1, LeastOf
<1>4. PICK T \in SUBSET S : Cardinality(T) = n /\ ~Ordered(T)
  BY <1>3
<1>5. IsFiniteSet(T) /\ n \in Nat
  BY <1>3, FS_Subset
<1>6. T # {}
  <2> SUFFICES ASSUME T = {} PROVE FALSE
    OBVIOUS
  <2>1. Cardinality(T) = 0
    BY FS_EmptySet
  <2> DEFINE s == [i \in 1..0 |-> i]
  <2>2. s \in [1..0 -> T] /\ Follows(s, order, 0)
    BY DEF Follows
  <2>3. Ordered(T)
    BY <2>1, <2>2 DEF Ordered
  <2> QED
    BY <1>4, <2>3
<1>7. PICK x \in T : TRUE
  BY <1>6
<1> DEFINE A == {a \in T : <<a, x>> \in order}
           B == {b \in T : <<x, b>> \in order}
<1>8. A \in SUBSET T /\ B \in SUBSET T /\ x \notin A /\ x \notin B /\ A \cap B = {} /\ T = (A \cup B) \cup {x}
  BY <1>4 DEF IsAnOrder
<1>9. IsAnOrder(order, T)
  BY <1>4 DEF IsAnOrder
<1>10. /\ IsFiniteSet(A) /\ IsFiniteSet(B) /\ Cardinality(A) \in Nat /\ Cardinality(B) \in Nat
       /\ n = Cardinality(A) + 1 + Cardinality(B)
  <2> HIDE DEF A, B
  <2>1. IsFiniteSet(A) /\ IsFiniteSet(B)
    BY <1>5, <1>8, FS_Subset
  <2>2. Cardinality(A) \in Nat /\ Cardinality(B) \in Nat
    BY <2>1, FS_CardinalityType
  <2>3. IsFiniteSet(A \cup B) /\ Cardinality(A \cup B) = Cardinality(A) + Cardinality(B) - Cardinality(A \cap B)
    BY <2>1, FS_Union
  <2>4. Cardinality(A \cap B) = 0
    BY <1>8, FS_EmptySet
  <2>5. Cardinality((A \cup B) \cup {x}) = Cardinality(A \cup B) + 1
    <3>1. x \notin A \cup B
      BY <1>8
    <3> QED
      BY <2>3, <3>1, FS_AddElement
  <2>6. Cardinality((A \cup B) \cup {x}) = n
    BY <1>4, <1>8, Zenon
  <2> QED
    BY <2>1, <2>2, <2>3, <2>4, <2>5, <2>6
<1>11. Ordered(A) /\ Ordered(B)
  <2>1. A \in SUBSET S /\ B \in SUBSET S
    BY <1>8
  <2> HIDE DEF A, B
  <2>2. Cardinality(A) < n /\ Cardinality(B) < n
    BY <1>10
  <2>3. Cardinality(A) \notin sizes /\ Cardinality(B) \notin sizes
    <3> HIDE DEF sizes
    <3> QED
      BY <1>3, <1>5, <1>10, <2>2
  <2> QED
    BY <1>10, <2>1, <2>3
<1>12. Ordered(T)
  <2> DEFINE m == Cardinality(A)
             k == Cardinality(B)
  <2>1. PICK f \in [1..m -> A] : Follows(f, order, m)
    BY <1>11 DEF Ordered
  <2>2. PICK g \in [1..k -> B] : Follows(g, order, k)
    BY <1>11 DEF Ordered
  <2>3. \E s \in [1..n -> T] : Follows(s, order, n)
    <3>1. m \in Nat /\ k \in Nat /\ n = m + 1 + k
      BY <1>10
    <3>2. A = {a \in T : <<a, x>> \in order} /\ B = {b \in T : <<x, b>> \in order}
      OBVIOUS
    <3> HIDE DEF m, k, A, B
    <3>3. \E s \in [1..(m + 1 + k) -> T] : Follows(s, order, m + 1 + k)
      BY <1>7, <1>9, <2>1, <2>2, <3>1, <3>2, PartsFollow
    <3> QED
      BY <3>1, <3>3
  <2> QED
    BY <1>4, <2>3 DEF Ordered
<1> QED
  BY <1>4, <1>12

\* A sequence that follows an order of a set and is as long as the set has all of it.
LEMMA OrderedHasAll ==
    ASSUME NEW S, IsFiniteSet(S), NEW order, IsAnOrder(order, S), NEW n, n = Cardinality(S),
           NEW s \in [1..n -> S], Follows(s, order, n)
    PROVE  s \in Seq(S) /\ Len(s) = n /\ n \in Nat /\ \A x \in S : \E i \in 1..n : s[i] = x
<1>1. n \in Nat
  BY FS_CardinalityType
<1>2. \A i, j \in 1..n : s[i] = s[j] => i = j
  <2> SUFFICES ASSUME NEW i \in 1..n, NEW j \in 1..n, s[i] = s[j], i # j PROVE FALSE
    OBVIOUS
  <2>1. s[i] \in S /\ s[j] \in S
    OBVIOUS
  <2>2. i < j \/ j < i
    BY <1>1
  <2> QED
    BY <2>1, <2>2 DEF Follows, IsAnOrder
<1>3. s \in Injection(1..n, S)
  BY <1>2 DEF Injection, IsInjective
<1>4. IsFiniteSet(1..n) /\ Cardinality(1..n) = n
  <2>1. 1 \in Int /\ n \in Int
    BY <1>1
  <2> QED
    BY <1>1, <2>1, FS_Interval
<1>5. s \in Surjection(1..n, S)
  BY <1>3, <1>4, FS_Injection
<1>6. s \in Seq(S) /\ Len(s) = n
  BY <1>1
<1> QED
  BY <1>1, <1>5, <1>6 DEF Surjection

-----------------------------------------------------------------------------
(***************************************************************************)
(* The journal, read page by page while it is written.                     *)
(***************************************************************************)
IsDescending(s) == \A i, j \in DOMAIN s : i < j => s[i] > s[j]
Descending(rows) == CHOOSE s \in [1..Cardinality(rows) -> rows] : \A i, j \in DOMAIN s : i < j => s[i] > s[j]

LEMMA DescendingIs ==
    ASSUME NEW rows \in SUBSET Nat, IsFiniteSet(rows), NEW s, s = Descending(rows)
    PROVE  s \in Seq(rows) /\ Len(s) = Cardinality(rows) /\ IsDescending(s) /\ \A x \in rows : \E i \in 1..Len(s) : s[i] = x
<1> DEFINE order == {pair \in rows \X rows : pair[1] > pair[2]}
           n == Cardinality(rows)
<1>1. \A a, b \in rows : <<a, b>> \in order <=> a > b
  OBVIOUS
<1>2. IsAnOrder(order, rows)
  <2>1. \A a \in rows : a \in Nat
    OBVIOUS
  <2> HIDE DEF order
  <2> QED
    BY <1>1, <2>1 DEF IsAnOrder
<1>3. n \in Nat
  BY FS_CardinalityType
<1> HIDE DEF order
<1>4. PICK t \in [1..n -> rows] : Follows(t, order, n)
  BY <1>2, OrderExists
<1>5. \A i, j \in DOMAIN t : i < j => t[i] > t[j]
  BY <1>1, <1>4 DEF Follows
<1>6. s \in [1..n -> rows] /\ \A i, j \in DOMAIN s : i < j => s[i] > s[j]
  BY <1>4, <1>5 DEF Descending
<1>7. Follows(s, order, n)
  BY <1>1, <1>6 DEF Follows
<1>8. s \in Seq(rows) /\ Len(s) = n /\ \A x \in rows : \E i \in 1..n : s[i] = x
  BY <1>2, <1>6, <1>7, OrderedHasAll
<1> QED
  BY <1>6, <1>8 DEF IsDescending

\* A page of the latest: all there are, or as many as fit, the rest being before its last.
IsLatest(page, rows, bound) ==
    /\ page \in Seq(rows) /\ IsDescending(page) /\ DOMAIN page = 1..Len(page)
    /\ Cardinality(rows) > bound => /\ Len(page) = bound /\ page[Len(page)] \in rows
                                    /\ \A x \in rows : (\E i \in 1..Len(page) : page[i] = x) \/ x < page[Len(page)]
                                    /\ \A i \in 1..Len(page) : page[i] >= page[Len(page)]
    /\ ~(Cardinality(rows) > bound) => /\ Len(page) = Cardinality(rows)
                                       /\ \A x \in rows : \E i \in 1..Len(page) : page[i] = x
LatestOf(rows, bound) == IF Cardinality(rows) > bound THEN SubSeq(Descending(rows), 1, bound) ELSE Descending(rows)

LEMMA PageIs ==
    ASSUME NEW rows \in SUBSET Nat, IsFiniteSet(rows), NEW bound \in Nat \ {0}
    PROVE  IsLatest(LatestOf(rows, bound), rows, bound)
<1> DEFINE page == LatestOf(rows, bound)
<1> DEFINE s == Descending(rows)
<1>1. s \in Seq(rows) /\ Len(s) = Cardinality(rows) /\ IsDescending(s) /\ \A x \in rows : \E i \in 1..Len(s) : s[i] = x
  BY DescendingIs
<1>2. page = IF Cardinality(rows) > bound THEN SubSeq(s, 1, bound) ELSE s
  BY DEF LatestOf
<1> HIDE DEF s, page
<1>3. Len(s) \in Nat /\ DOMAIN s = 1..Len(s) /\ \A i \in 1..Len(s) : s[i] \in rows /\ s[i] \in Nat
  BY <1>1, LenProperties, ElementOfSeq
<1>4. ASSUME Cardinality(rows) > bound PROVE IsLatest(page, rows, bound)
  <2>1. bound \in 1..Len(s) /\ 1 \in Int /\ bound \in Int
    BY <1>1, <1>3, <1>4
  <2>2. \A i \in 1..bound : i \in 1..Len(s) /\ s[i] \in rows
    BY <1>3, <2>1
  <2>3. page = SubSeq(s, 1, bound)
    BY <1>2, <1>4
  <2>4. page \in Seq(rows) /\ Len(page) = bound /\ \A i \in 1..bound : page[i] = s[i]
    <3>1. /\ SubSeq(s, 1, bound) \in Seq(rows)
          /\ Len(SubSeq(s, 1, bound)) = IF 1 <= bound THEN bound - 1 + 1 ELSE 0
          /\ \A i \in 1..(bound - 1 + 1) : SubSeq(s, 1, bound)[i] = s[1 + i - 1]
      BY <2>1, <2>2, SubSeqProperties
    <3>2. bound - 1 + 1 = bound /\ 1 <= bound /\ \A i \in 1..bound : 1 + i - 1 = i
      BY <2>1
    <3> QED
      BY <2>3, <3>1, <3>2
  <2>5. DOMAIN page = 1..bound
    BY <2>4, LenProperties
  <2>6. IsDescending(page)
    BY <1>1, <1>3, <2>2, <2>4, <2>5 DEF IsDescending
  <2>7. page[bound] \in rows /\ page[bound] \in Nat /\ page[bound] = s[bound]
    BY <1>3, <2>1, <2>2, <2>4
  <2>8. \A i \in 1..bound : page[i] >= page[bound]
    <3> SUFFICES ASSUME NEW i \in 1..bound PROVE page[i] >= page[bound]
      OBVIOUS
    <3>1. page[i] = s[i] /\ s[i] \in Nat /\ i \in 1..Len(s)
      BY <1>3, <2>2, <2>4
    <3>2. i < bound => s[i] > s[bound]
      BY <1>1, <1>3, <2>1, <3>1 DEF IsDescending
    <3> QED
      BY <2>1, <2>7, <3>1, <3>2
  <2>9. \A x \in rows : (\E i \in 1..bound : page[i] = x) \/ x < page[bound]
    <3> SUFFICES ASSUME NEW x \in rows PROVE (\E i \in 1..bound : page[i] = x) \/ x < page[bound]
      OBVIOUS
    <3>1. PICK i \in 1..Len(s) : s[i] = x
      BY <1>1
    <3>2. CASE i \in 1..bound
      BY <2>4, <3>1, <3>2
    <3>3. CASE bound < i
      BY <1>1, <1>3, <2>1, <2>7, <3>1, <3>3 DEF IsDescending
    <3> QED
      BY <2>1, <1>3, <3>2, <3>3
  <2> QED
    BY <1>4, <2>4, <2>5, <2>6, <2>7, <2>8, <2>9 DEF IsLatest
<1>5. ASSUME ~(Cardinality(rows) > bound) PROVE IsLatest(page, rows, bound)
  BY <1>1, <1>2, <1>3, <1>5 DEF IsLatest
<1>6. IsLatest(page, rows, bound)
  BY <1>4, <1>5
<1> QED
  BY <1>6 DEF page

\* What is shown stays in order when a page of what is before it follows.
LEMMA DescendingGoesOn ==
    ASSUME NEW s \in Seq(Nat), NEW t \in Seq(Nat), IsDescending(s), IsDescending(t),
           \A i \in 1..Len(s), j \in 1..Len(t) : s[i] > t[j]
    PROVE  /\ s \o t \in Seq(Nat) /\ IsDescending(s \o t) /\ ToSet(s \o t) = ToSet(s) \cup ToSet(t)
<1>1. /\ s \o t \in Seq(Nat) /\ Len(s \o t) = Len(s) + Len(t)
      /\ \A i \in 1..(Len(s) + Len(t)) : (s \o t)[i] = IF i <= Len(s) THEN s[i] ELSE t[i - Len(s)]
  BY ConcatProperties
<1>2. Len(s) \in Nat /\ Len(t) \in Nat /\ DOMAIN s = 1..Len(s) /\ DOMAIN t = 1..Len(t)
  BY LenProperties
<1>3. DOMAIN (s \o t) = 1..(Len(s) + Len(t))
  BY <1>1, LenProperties
<1> DEFINE u == s \o t
<1>4. /\ DOMAIN u = 1..(Len(s) + Len(t))
      /\ \A i \in 1..Len(s) : i \in DOMAIN u /\ u[i] = s[i]
      /\ \A j \in 1..Len(t) : Len(s) + j \in DOMAIN u /\ u[Len(s) + j] = t[j]
      /\ \A i \in DOMAIN u : i \in 1..Len(s) \/ \E j \in 1..Len(t) : i = Len(s) + j
  <2>1. \A i \in 1..Len(s) : i \in 1..(Len(s) + Len(t)) /\ i <= Len(s)
    BY <1>2
  <2>2. \A j \in 1..Len(t) : Len(s) + j \in 1..(Len(s) + Len(t)) /\ ~(Len(s) + j <= Len(s)) /\ Len(s) + j - Len(s) = j
    BY <1>2
  <2>3. \A i \in 1..(Len(s) + Len(t)) : i \in 1..Len(s) \/ (i - Len(s) \in 1..Len(t) /\ i = Len(s) + (i - Len(s)))
    BY <1>2
  <2>4. \A i \in 1..(Len(s) + Len(t)) : u[i] = IF i <= Len(s) THEN s[i] ELSE t[i - Len(s)]
    BY <1>1
  <2>5. DOMAIN u = 1..(Len(s) + Len(t))
    BY <1>3
  <2> HIDE DEF u
  <2>6. \A i \in 1..Len(s) : i \in DOMAIN u /\ u[i] = s[i]
    BY <2>1, <2>4, <2>5
  <2>7. \A j \in 1..Len(t) : Len(s) + j \in DOMAIN u /\ u[Len(s) + j] = t[j]
    BY <2>2, <2>4, <2>5
  <2>8. \A i \in DOMAIN u : i \in 1..Len(s) \/ \E j \in 1..Len(t) : i = Len(s) + j
    BY <2>3, <2>5
  <2> QED
    BY <2>5, <2>6, <2>7, <2>8
<1> HIDE DEF u
<1>5. IsDescending(u)
  <2> SUFFICES ASSUME NEW i \in DOMAIN u, NEW j \in DOMAIN u, i < j PROVE u[i] > u[j]
    BY DEF IsDescending
  <2>1. CASE i \in 1..Len(s) /\ j \in 1..Len(s)
    BY <1>2, <1>4, <2>1 DEF IsDescending
  <2>2. CASE i \in 1..Len(s) /\ \E k \in 1..Len(t) : j = Len(s) + k
    BY <1>4, <2>2
  <2>3. CASE (\E k \in 1..Len(t) : i = Len(s) + k) /\ (\E k \in 1..Len(t) : j = Len(s) + k)
    <3>1. PICK k \in 1..Len(t) : i = Len(s) + k
      BY <2>3
    <3>2. PICK l \in 1..Len(t) : j = Len(s) + l
      BY <2>3
    <3>3. k < l
      BY <1>2, <3>1, <3>2
    <3>4. u[i] = t[k] /\ u[j] = t[l]
      BY <1>4, <3>1, <3>2
    <3> QED
      BY <1>2, <3>3, <3>4 DEF IsDescending
  <2>4. CASE (\E k \in 1..Len(t) : i = Len(s) + k) /\ j \in 1..Len(s)
    BY <1>2, <2>4
  <2> QED
    BY <1>4, <2>1, <2>2, <2>3, <2>4
<1>6. ToSet(u) = ToSet(s) \cup ToSet(t)
  <2>1. \A x : x \in ToSet(u) <=> \E i \in DOMAIN u : u[i] = x
    BY DEF ToSet
  <2>2. \A x : x \in ToSet(s) <=> \E i \in 1..Len(s) : s[i] = x
    BY <1>2 DEF ToSet
  <2>3. \A x : x \in ToSet(t) <=> \E i \in 1..Len(t) : t[i] = x
    BY <1>2 DEF ToSet
  <2>4. ASSUME NEW x \in ToSet(u) PROVE x \in ToSet(s) \cup ToSet(t)
    <3>1. PICK i \in DOMAIN u : u[i] = x
      BY <2>1, <2>4
    <3> QED
      BY <1>4, <2>2, <2>3, <3>1
  <2>5. ASSUME NEW x \in ToSet(s) \cup ToSet(t) PROVE x \in ToSet(u)
    <3>1. CASE x \in ToSet(s)
      BY <1>4, <2>1, <2>2, <3>1
    <3>2. CASE x \in ToSet(t)
      BY <1>4, <2>1, <2>3, <3>2
    <3> QED
      BY <2>5, <3>1, <3>2
  <2> QED
    BY <2>4, <2>5
<1> QED
  BY <1>1, <1>5, <1>6 DEF u

WritingRows == {NotWritten, [pc |-> "gone"]} \cup
               [pc : {"resolve", "insert", "commit"}, who : People, list : Lists, id : Nat]
ReadingRows == [pc : {"idle", "reading", "done"}, list : Lists, before : Nat, there : SUBSET Nat, shown : Seq(Nat)]

\* The number of an event on its way has not been seen, and is its own.
IsItsOwn(w) ==
    writing[w].pc = "commit" =>
        /\ writing[w].id \in 1..eventIds /\ writing[w].id \notin reading.there
        /\ \A e \in trail : e.id # writing[w].id
        /\ \A v \in Writes : writing[v].pc = "commit" /\ writing[v].id = writing[w].id => v = w

\* How far a reader has come, of the numbers that can be read.
HasRead(r, ids) ==
    /\ IsDescending(r.shown)
    /\ r.pc = "reading" =>
        /\ r.before = 0 => r.shown = <<>>
        /\ r.before > 0 => /\ \A i \in DOMAIN r.shown : r.shown[i] >= r.before
                           /\ \A id \in r.there \cap ids : id \in ToSet(r.shown) \/ id < r.before
    /\ r.pc = "done" => r.there \cap ids \subseteq ToSet(r.shown)

AuditInv ==
    /\ eventIds \in Nat /\ writing \in [Writes -> WritingRows]
    /\ IsFiniteSet(trail) /\ \A e \in trail : e.id \in 1..eventIds
    /\ \A w \in Writes : IsItsOwn(w)
    /\ reading \in ReadingRows /\ reading.there \subseteq 1..eventIds
    /\ HasRead(reading, IdsOf(reading.list))

LEMMA IdsAre ==
    ASSUME AuditInv, NEW list
    PROVE  IdsOf(list) \in SUBSET (1..eventIds) /\ IsFiniteSet(IdsOf(list)) /\ IdsOf(list) \in SUBSET Nat
<1>1. IdsOf(list) \in SUBSET (1..eventIds)
  BY DEF AuditInv, IdsOf
<1>2. 1 \in Int /\ eventIds \in Int
  BY DEF AuditInv
<1>3. IsFiniteSet(1..eventIds)
  BY <1>2, FS_Interval
<1>4. IsFiniteSet(IdsOf(list))
  BY <1>1, <1>3, FS_Subset
<1> QED
  BY <1>1, <1>4

\* A reader who waits loses nothing to those who write and purge.
LEMMA ReaderWaits ==
    ASSUME AuditInv, reading' = reading, \A id \in reading.there : id \in IdsOf(reading.list)' => id \in IdsOf(reading.list)
    PROVE  HasRead(reading, IdsOf(reading.list))'
<1>1. HasRead(reading, IdsOf(reading.list))
  BY DEF AuditInv
<1> DEFINE ids == IdsOf(reading.list)
           after == IdsOf(reading.list)'
<1>2. \A id \in reading.there : id \in after => id \in ids
  OBVIOUS
<1>3. HasRead(reading, ids)
  BY <1>1
<1> HIDE DEF ids, after
<1>4. HasRead(reading, after)
  BY <1>2, <1>3 DEF HasRead
<1>5. HasRead(reading', after)
  BY <1>4, reading' = reading, Zenon
<1> QED
  BY <1>5 DEF after

\* A page is read.
LEMMA PageIsRead ==
    ASSUME AuditInv, ReadPage
    PROVE  /\ reading' \in ReadingRows /\ reading'.there = reading.there /\ reading'.list = reading.list
           /\ HasRead(reading', IdsOf(reading.list))
<1> DEFINE rows == Before(reading.list, reading.before)
           page == PageOf(rows)
           ids == IdsOf(reading.list)
<1>1. /\ reading \in ReadingRows /\ reading.before \in Nat /\ reading.shown \in Seq(Nat) /\ reading.pc = "reading"
      /\ PageLimit \in Nat \ {0} /\ reading.there \in SUBSET Nat
  BY AuditAssumption DEF ReadPage, AuditInv, ReadingRows
<1>2. ids \in SUBSET Nat /\ IsFiniteSet(ids) /\ \A id \in ids : id > 0
  <2>1. ids \in SUBSET (1..eventIds)
    BY IdsAre
  <2> HIDE DEF ids
  <2>2. \A id \in ids : id > 0
    BY <2>1
  <2> QED
    BY <2>2, IdsAre DEF ids
<1>3. rows \in SUBSET ids /\ \A id \in ids : id \in rows <=> reading.before = 0 \/ id < reading.before
  BY DEF Before
<1>4. page = LatestOf(rows, PageLimit)
  BY DEF PageOf, HasMore, NewestFirst, Descending, LatestOf
<1>5. reading' = [reading EXCEPT !.shown = @ \o page, !.before = IF HasMore(rows) THEN Last(page) ELSE 0,
                                 !.pc = IF HasMore(rows) THEN "reading" ELSE "done"]
  BY DEF ReadPage
<1> DEFINE more == Cardinality(rows) > PageLimit
           last == page[Len(page)]
           shown == reading.shown \o page
<1>6. reading' = [reading EXCEPT !.shown = shown, !.before = IF more THEN last ELSE 0,
                                 !.pc = IF more THEN "reading" ELSE "done"]
  BY <1>5 DEF HasMore, Last
<1> HIDE DEF page, rows, ids
<1>7. rows \in SUBSET Nat /\ IsFiniteSet(rows)
  BY <1>2, <1>3, FS_Subset
<1>8. /\ page \in Seq(rows) /\ IsDescending(page) /\ DOMAIN page = 1..Len(page)
      /\ more => /\ Len(page) = PageLimit /\ page[Len(page)] \in rows
                 /\ \A x \in rows : (\E i \in 1..Len(page) : page[i] = x) \/ x < page[Len(page)]
                 /\ \A i \in 1..Len(page) : page[i] >= page[Len(page)]
      /\ ~more => \A x \in rows : \E i \in 1..Len(page) : page[i] = x
  <2>1. IsLatest(page, rows, PageLimit)
    BY <1>1, <1>4, <1>7, PageIs
  <2> QED
    BY <2>1 DEF IsLatest
<1>9. page \in Seq(Nat) /\ \A i \in 1..Len(page) : page[i] \in rows
  <2>1. page \in Seq(rows)
    BY <1>8
  <2>2. page \in Seq(Nat)
    BY <1>7, <2>1, SeqMonotonic
  <2> QED
    BY <2>1, <2>2, ElementOfSeq
<1>10. /\ \A i \in 1..Len(reading.shown), j \in 1..Len(page) : reading.shown[i] > page[j]
       /\ IsDescending(reading.shown)
       /\ \A id \in reading.there \cap ids : id \in ToSet(reading.shown) \/ id \in rows
       /\ \A i \in 1..Len(reading.shown) : reading.shown[i] \in Nat /\ (more => reading.shown[i] >= last)
  <2>1. HasRead(reading, ids)
    BY DEF AuditInv, ids
  <2>2. DOMAIN reading.shown = 1..Len(reading.shown) /\ \A i \in 1..Len(reading.shown) : reading.shown[i] \in Nat
    BY <1>1, LenProperties, ElementOfSeq
  <2>3. CASE reading.before = 0
    <3>1. reading.shown = <<>> /\ Len(reading.shown) = 0
      BY <1>1, <2>1, <2>3, EmptySeq DEF HasRead
    <3> QED
      BY <1>1, <1>3, <2>1, <2>3, <3>1 DEF HasRead
  <2>4. CASE reading.before > 0
    <3>1. /\ \A i \in 1..Len(reading.shown) : reading.shown[i] >= reading.before
          /\ \A id \in reading.there \cap ids : id \in ToSet(reading.shown) \/ id < reading.before
      BY <1>1, <2>1, <2>2, <2>4 DEF HasRead
    <3>2. \A id \in rows : id < reading.before /\ id \in Nat
      BY <1>1, <1>3, <1>7, <2>4
    <3>3. more => last < reading.before /\ last \in Nat
      BY <1>8, <3>2
    <3> HIDE DEF more, last
    <3> QED
      BY <1>1, <1>3, <1>9, <2>1, <2>2, <3>1, <3>2, <3>3 DEF HasRead
  <2> QED
    BY <1>1, <2>3, <2>4
<1>11. shown \in Seq(Nat) /\ IsDescending(shown) /\ ToSet(shown) = ToSet(reading.shown) \cup ToSet(page)
  BY <1>1, <1>8, <1>9, <1>10, DescendingGoesOn
<1>12. \A x \in ToSet(shown) : more => x >= last
  <2>1. \A x \in ToSet(page) : \E i \in 1..Len(page) : page[i] = x
    BY <1>8 DEF ToSet
  <2>2. \A x \in ToSet(reading.shown) : \E i \in 1..Len(reading.shown) : reading.shown[i] = x
    BY <1>1, LenProperties DEF ToSet
  <2> HIDE DEF shown
  <2> QED
    BY <1>8, <1>10, <1>11, <2>1, <2>2
<1>13. \A i \in 1..Len(page) : page[i] \in ToSet(page)
  BY <1>8 DEF ToSet
<1>14. more => last \in Nat /\ last > 0
  BY <1>2, <1>3, <1>7, <1>8
<1>15. \A i \in DOMAIN shown : shown[i] \in ToSet(shown)
  BY DEF ToSet
<1> HIDE DEF shown
<1>16. CASE more
  <2> DEFINE r == [reading EXCEPT !.shown = shown, !.before = last, !.pc = "reading"]
  <2>1. reading' = r
    BY <1>6, <1>16
  <2> HIDE DEF last
  <2>2. /\ r \in ReadingRows /\ r.there = reading.there /\ r.list = reading.list /\ r.shown = shown
        /\ r.before = last /\ r.pc = "reading"
    BY <1>1, <1>11, <1>14, <1>16 DEF ReadingRows
  <2> HIDE DEF r
  <2>3. \A id \in reading.there \cap ids : id \in ToSet(shown) \/ id < last
    BY <1>8, <1>10, <1>11, <1>13, <1>16 DEF last
  <2>4. HasRead(r, ids)
    <3>1. \A i \in DOMAIN shown : shown[i] >= last
      BY <1>12, <1>15, <1>16
    <3>2. last # 0 /\ last \in Nat
      BY <1>14, <1>16
    <3> QED
      BY <1>11, <2>2, <2>3, <3>1, <3>2 DEF HasRead
  <2> QED
    BY <2>1, <2>2, <2>4 DEF ids
<1>17. CASE ~more
  <2> DEFINE r == [reading EXCEPT !.shown = shown, !.before = 0, !.pc = "done"]
  <2>1. reading' = r
    BY <1>6, <1>17
  <2>2. /\ r \in ReadingRows /\ r.there = reading.there /\ r.list = reading.list /\ r.shown = shown
        /\ r.pc = "done"
    BY <1>1, <1>11 DEF ReadingRows
  <2> HIDE DEF r
  <2>3. reading.there \cap ids \subseteq ToSet(shown)
    BY <1>8, <1>10, <1>11, <1>13, <1>17
  <2>4. HasRead(r, ids)
    BY <1>11, <2>2, <2>3 DEF HasRead
  <2> QED
    BY <2>1, <2>2, <2>4 DEF ids
<1> QED
  BY <1>16, <1>17

LEMMA AuditStep == AuditInv /\ [AuditNext]_auditVars => AuditInv'
<1> SUFFICES ASSUME AuditInv, [AuditNext]_auditVars PROVE AuditInv'
  OBVIOUS
<1>t. /\ eventIds \in Nat /\ writing \in [Writes -> WritingRows]
      /\ IsFiniteSet(trail) /\ (\A e \in trail : e.id \in 1..eventIds)
      /\ \A w \in Writes : IsItsOwn(w)
      /\ reading \in ReadingRows /\ reading.there \subseteq 1..eventIds
      /\ HasRead(reading, IdsOf(reading.list))
  BY DEF AuditInv
\* Nothing changes for the reader.
<1>r. UNCHANGED <<trail, reading>> => HasRead(reading, IdsOf(reading.list))'
  <2> SUFFICES ASSUME UNCHANGED <<trail, reading>> PROVE HasRead(reading, IdsOf(reading.list))'
    OBVIOUS
  <2>1. IdsOf(reading.list)' = IdsOf(reading.list)
    BY DEF IdsOf
  <2> QED
    BY <2>1, ReaderWaits
\* An event is on its way, or is not any more, and has no number.
<1>w. ASSUME NEW w \in Writes, NEW one \in WritingRows, one.pc # "commit", writing' = [writing EXCEPT ![w] = one],
             UNCHANGED <<eventIds, trail, reading>>
      PROVE  AuditInv'
  <2>1. writing' \in [Writes -> WritingRows] /\ \A v \in Writes : writing'[v] = IF v = w THEN one ELSE writing[v]
    BY <1>t, <1>w
  <2>2. ASSUME NEW v \in Writes PROVE IsItsOwn(v)'
    BY <1>t, <1>w, <2>1 DEF IsItsOwn
  <2> QED
    BY <1>t, <1>w, <1>r, <2>1, <2>2 DEF AuditInv
<1>1. ASSUME NEW w \in Writes, NEW who \in People, NEW list \in Lists, NEW given \in BOOLEAN, Record(w, who, list, given)
      PROVE  AuditInv'
  <2> DEFINE step == IF given THEN "insert" ELSE "resolve"
             one == [pc |-> step, who |-> who, list |-> list, id |-> 0]
  <2>1. step \in {"insert", "resolve"}
    OBVIOUS
  <2>2. writing' = [writing EXCEPT ![w] = one] /\ UNCHANGED <<eventIds, trail, reading>>
    BY <1>1 DEF Record
  <2> HIDE DEF step
  <2>3. one \in WritingRows /\ one.pc # "commit"
    BY <2>1 DEF WritingRows
  <2> HIDE DEF one
  <2> QED
    BY <1>w, <2>2, <2>3
<1>2. ASSUME NEW w \in Writes, ResolveEmail(w) PROVE AuditInv'
  <2> DEFINE one == [writing[w] EXCEPT !.pc = "insert"]
  <2>1. writing[w] \in [pc : {"resolve", "insert", "commit"}, who : People, list : Lists, id : Nat]
    BY <1>t, <1>2 DEF ResolveEmail, WritingRows, NotWritten
  <2>2. one \in WritingRows /\ one.pc # "commit"
    BY <2>1 DEF WritingRows
  <2>3. writing' = [writing EXCEPT ![w] = one] /\ UNCHANGED <<eventIds, trail, reading>>
    BY <1>2 DEF ResolveEmail
  <2> HIDE DEF one
  <2> QED
    BY <1>w, <2>2, <2>3
<1>3. ASSUME NEW w \in Writes, InsertEvent(w) PROVE AuditInv'
  <2> DEFINE v1 == [writing[w] EXCEPT !.pc = "commit"]
             one == [v1 EXCEPT !.id = eventIds + 1]
  <2>1. writing[w] \in [pc : {"resolve", "insert", "commit"}, who : People, list : Lists, id : Nat]
    BY <1>t, <1>3 DEF InsertEvent, WritingRows, NotWritten
  <2>2. v1 \in [pc : {"resolve", "insert", "commit"}, who : People, list : Lists, id : Nat] /\ v1.pc = "commit"
    BY <2>1
  <2>3. eventIds' = eventIds + 1 /\ writing' = [writing EXCEPT ![w] = one] /\ UNCHANGED <<trail, reading>>
    <3>1. writing' = [writing EXCEPT ![w].pc = "commit", ![w].id = eventIds + 1]
      BY <1>3 DEF InsertEvent
    <3> QED
      BY <1>3, <1>t, <3>1 DEF InsertEvent
  <2> HIDE DEF v1
  <2>4. one \in WritingRows /\ one.pc = "commit" /\ one.id = eventIds + 1
    BY <1>t, <2>2 DEF WritingRows
  <2> HIDE DEF one
  <2>5. writing' \in [Writes -> WritingRows] /\ \A v \in Writes : writing'[v] = IF v = w THEN one ELSE writing[v]
    BY <1>t, <2>3, <2>4
  <2>6. \A e \in trail : e.id \in 1..eventIds
    BY <1>t
  <2>7. \A v \in Writes : writing[v].pc = "commit" => writing[v].id \in 1..eventIds
    BY <1>t DEF IsItsOwn
  <2>8. eventIds + 1 \notin 1..eventIds /\ 1..eventIds \subseteq 1..(eventIds + 1) /\ eventIds + 1 \in 1..(eventIds + 1)
    BY <1>t
  <2>9. ASSUME NEW v \in Writes PROVE IsItsOwn(v)'
    <3>1. CASE v = w
      <4>1. writing'[v] = one
        BY <2>5, <3>1
      <4>2. \A u \in Writes : u # v /\ writing'[u].pc = "commit" => writing'[u].id \in 1..eventIds
        BY <2>5, <2>7, <3>1
      <4> QED
        BY <1>t, <2>3, <2>4, <2>6, <2>8, <4>1, <4>2 DEF IsItsOwn
    <3>2. CASE v # w
      <4>1. writing'[v] = writing[v]
        BY <2>5, <3>2
      <4>2. \A u \in Writes : writing'[u] = writing[u] \/ writing'[u].id = eventIds + 1
        BY <2>4, <2>5
      <4>3. IsItsOwn(v)
        BY <1>t
      <4>4. SUFFICES ASSUME writing[v].pc = "commit"
                     PROVE  /\ writing[v].id \in 1..(eventIds + 1) /\ writing[v].id \notin reading.there
                            /\ \A e \in trail : e.id # writing[v].id
                            /\ \A u \in Writes : writing'[u].pc = "commit" /\ writing'[u].id = writing[v].id => u = v
        BY <2>3, <4>1 DEF IsItsOwn
      <4> QED
        BY <2>7, <2>8, <4>2, <4>3, <4>4 DEF IsItsOwn
    <3> QED
      BY <3>1, <3>2
  <2>10. reading'.there \subseteq 1..eventIds' /\ (\A e \in trail' : e.id \in 1..eventIds') /\ eventIds' \in Nat
    BY <1>t, <2>3, <2>6, <2>8
  <2> QED
    BY <1>t, <1>r, <2>3, <2>5, <2>9, <2>10 DEF AuditInv
<1>4. ASSUME NEW w \in Writes, CommitEvent(w) PROVE AuditInv'
  <2> DEFINE e == [id |-> writing[w].id, list |-> writing[w].list, day |-> auditDay]
             gone == [pc |-> "gone"]
  <2>1. /\ trail' = trail \cup {e} /\ writing' = [writing EXCEPT ![w] = gone] /\ UNCHANGED <<eventIds, reading>>
        /\ writing[w].pc = "commit" /\ e.id = writing[w].id
    BY <1>4 DEF CommitEvent
  <2>2. gone \in WritingRows /\ gone.pc = "gone"
    BY DEF WritingRows
  <2> HIDE DEF e, gone
  <2>3. writing' \in [Writes -> WritingRows] /\ \A v \in Writes : writing'[v] = IF v = w THEN gone ELSE writing[v]
    BY <1>t, <2>1, <2>2
  <2>4. e.id \in 1..eventIds /\ e.id \notin reading.there
    BY <1>t, <2>1 DEF IsItsOwn
  <2>5. IsFiniteSet(trail') /\ \A f \in trail' : f.id \in 1..eventIds
    BY <1>t, <2>1, <2>4, FS_AddElement
  <2>6. ASSUME NEW v \in Writes PROVE IsItsOwn(v)'
    <3>1. CASE v = w
      BY <2>2, <2>3, <3>1 DEF IsItsOwn
    <3>2. CASE v # w
      <4>1. writing'[v] = writing[v] /\ IsItsOwn(v)
        BY <1>t, <2>3, <3>2
      <4>2. writing[v].pc = "commit" => writing[v].id # e.id
        BY <1>t, <2>1, <3>2 DEF IsItsOwn
      <4>3. \A u \in Writes : writing'[u].pc = "commit" => writing'[u] = writing[u]
        BY <2>2, <2>3
      <4> QED
        BY <2>1, <4>1, <4>2, <4>3 DEF IsItsOwn
    <3> QED
      BY <3>1, <3>2
  <2>7. HasRead(reading, IdsOf(reading.list))'
    <3>1. \A id \in reading.there : id \in IdsOf(reading.list)' => id \in IdsOf(reading.list)
      BY <2>1, <2>4 DEF IdsOf
    <3> QED
      BY <2>1, <3>1, ReaderWaits
  <2> QED
    BY <1>t, <2>1, <2>3, <2>5, <2>6, <2>7 DEF AuditInv
<1>5. ASSUME NEW w \in Writes, WriteFails(w) PROVE AuditInv'
  <2> DEFINE gone == [pc |-> "gone"]
  <2>1. gone \in WritingRows /\ gone.pc # "commit"
    BY DEF WritingRows
  <2>2. writing' = [writing EXCEPT ![w] = gone] /\ UNCHANGED <<eventIds, trail, reading>>
    BY <1>5 DEF WriteFails
  <2> HIDE DEF gone
  <2> QED
    BY <1>w, <2>1, <2>2
<1>6. ASSUME UNCHANGED <<writing, eventIds, trail, reading>> PROVE AuditInv'
  <2>1. \A w \in Writes : IsItsOwn(w)'
    BY <1>t, <1>6 DEF IsItsOwn
  <2> QED
    BY <1>t, <1>r, <1>6, <2>1 DEF AuditInv
<1>7. ASSUME NEW list \in Lists, BeginReading(list) PROVE AuditInv'
  <2> DEFINE v1 == [NotReading EXCEPT !.pc = "reading"]
             v2 == [v1 EXCEPT !.list = list]
             v3 == [v2 EXCEPT !.there = IdsOf(list)]
  <2>1. reading' = v3 /\ UNCHANGED <<writing, eventIds, trail>>
    BY <1>7 DEF BeginReading
  <2>2. NotReading \in ReadingRows /\ NotReading.before = 0 /\ NotReading.shown = <<>>
    BY EmptySeq DEF NotReading, ReadingRows, Lists
  <2>3. v1 \in ReadingRows /\ v1.pc = "reading" /\ v1.before = 0 /\ v1.shown = <<>>
    BY <2>2 DEF ReadingRows
  <2> HIDE DEF v1
  <2>4. v2 \in ReadingRows /\ v2.pc = "reading" /\ v2.before = 0 /\ v2.shown = <<>>
    BY <2>3 DEF ReadingRows
  <2> HIDE DEF v2
  <2>5. v3 \in ReadingRows /\ v3.pc = "reading" /\ v3.before = 0 /\ v3.shown = <<>> /\ v3.there = IdsOf(list)
    BY <2>4, IdsAre DEF ReadingRows
  <2> HIDE DEF v3
  <2>6. ASSUME NEW ids PROVE HasRead(v3, ids)
    BY <2>5 DEF HasRead, IsDescending
  <2>7. HasRead(reading, IdsOf(reading.list))'
    BY <2>1, <2>6
  <2>8. ASSUME NEW w \in Writes PROVE IsItsOwn(w)'
    <3>1. IsItsOwn(w)
      BY <1>t
    <3>2. writing[w].pc = "commit" => writing[w].id \notin IdsOf(list)
      BY <3>1 DEF IsItsOwn, IdsOf
    <3> QED
      BY <2>1, <2>5, <3>1, <3>2 DEF IsItsOwn
  <2>9. v3.there \subseteq 1..eventIds
    BY <2>5, IdsAre
  <2> QED
    BY <1>t, <2>1, <2>5, <2>7, <2>8, <2>9 DEF AuditInv
<1>8. CASE ReadPage
  <2>1. UNCHANGED <<writing, eventIds, trail>>
    BY <1>8 DEF ReadPage
  <2>2. /\ reading' \in ReadingRows /\ reading'.there = reading.there /\ reading'.list = reading.list
        /\ HasRead(reading', IdsOf(reading.list))
    BY <1>8, PageIsRead
  <2>3. HasRead(reading, IdsOf(reading.list))'
    <3>1. IdsOf(reading.list)' = IdsOf(reading.list)
      BY <2>1, <2>2 DEF IdsOf
    <3> QED
      BY <2>2, <3>1
  <2>4. \A w \in Writes : IsItsOwn(w)'
    BY <1>t, <2>1, <2>2 DEF IsItsOwn
  <2> QED
    BY <1>t, <2>1, <2>2, <2>3, <2>4 DEF AuditInv
<1>9. CASE PurgeEvents
  <2>1. trail' \in SUBSET trail /\ UNCHANGED <<writing, eventIds, reading>>
    BY <1>9 DEF PurgeEvents
  <2>2. IsFiniteSet(trail') /\ \A e \in trail' : e.id \in 1..eventIds
    BY <1>t, <2>1, FS_Subset
  <2>3. \A id \in reading.there : id \in IdsOf(reading.list)' => id \in IdsOf(reading.list)
    BY <2>1 DEF IdsOf
  <2>4. HasRead(reading, IdsOf(reading.list))'
    BY <2>1, <2>3, ReaderWaits
  <2>5. \A w \in Writes : IsItsOwn(w)'
    BY <1>t, <2>1 DEF IsItsOwn
  <2> QED
    BY <1>t, <2>1, <2>2, <2>4, <2>5 DEF AuditInv
<1>10. ASSUME NEW who \in People, DeletePerson(who) PROVE AuditInv'
  BY <1>6, <1>10 DEF DeletePerson
<1>11. CASE AuditDayPasses
  BY <1>6, <1>11 DEF AuditDayPasses
<1>12. CASE UNCHANGED auditVars
  BY <1>6, <1>12 DEF auditVars
<1> QED
  BY <1>1, <1>2, <1>3, <1>4, <1>5, <1>7, <1>8, <1>9, <1>10, <1>11, <1>12 DEF AuditNext

LEMMA AuditInitially == AuditInit => AuditInv
<1> SUFFICES ASSUME AuditInit PROVE AuditInv
  OBVIOUS
<1>1. /\ writing = [w \in Writes |-> NotWritten] /\ eventIds = 0 /\ trail = {} /\ reading = NotReading
  BY DEF AuditInit
<1>2. NotWritten \in WritingRows /\ NotWritten.pc = "none"
  BY DEF NotWritten, WritingRows
<1>3. NotReading \in ReadingRows /\ NotReading.shown = <<>> /\ NotReading.there = {} /\ NotReading.pc = "idle"
  BY EmptySeq DEF NotReading, ReadingRows, Lists
<1>4. ASSUME NEW ids PROVE HasRead(reading, ids)
  BY <1>1, <1>3 DEF HasRead, IsDescending
<1>5. \A w \in Writes : IsItsOwn(w)
  BY <1>1, <1>2 DEF IsItsOwn
<1>6. IsFiniteSet({})
  BY FS_EmptySet
<1> QED
  BY <1>1, <1>2, <1>3, <1>4, <1>5, <1>6 DEF AuditInv

LEMMA AuditIsKept == AuditInv => ReadingIsWhole
BY DEF AuditInv, HasRead, IsDescending, ReadingIsWhole

-----------------------------------------------------------------------------
(***************************************************************************)
(* The list of checks, loaded page by page while checks come and go.       *)
(***************************************************************************)
Numbers == 1..LastCheck
ProjectsShown == Shown \cup {NothingSelected}
StoreRows == [all : SUBSET Shown, chosen : ProjectsShown, loading : BOOLEAN]
LoadRows == [on : BOOLEAN, project : ProjectsShown, pages : Nat, items : Seq(Numbers), cursor : Nat, there : SUBSET Numbers]
TableRows == [project : ProjectsShown, rows : Seq(Numbers), state : {"", "DOWN"},
              environment : {AllEnvironments, NoEnvironment, "production"}, page : Nat]
NoticeRows == [cut : BOOLEAN, failed : BOOLEAN, there : SUBSET Numbers]

\* A load has all that was there when it began down to the row its cursor names.
HasLoaded(l, have) ==
    /\ IsDescending(l.items) /\ l.there \subseteq have /\ l.project \in Shown
    /\ l.cursor = 0 => l.items = <<>>
    /\ l.cursor > 0 => /\ l.cursor \in have
                       /\ \A i \in DOMAIN l.items : l.items[i] >= l.cursor
                       /\ \A c \in l.there : c \in ToSet(l.items) \/ c < l.cursor

PageInv ==
    /\ checks \in [Shown -> SUBSET Numbers] /\ store \in StoreRows /\ load \in LoadRows /\ table \in TableRows
    /\ notice \in NoticeRows
    /\ load.on => HasLoaded(load, checks[load.project]) /\ (load.project = Selected \/ Selected = NothingSelected)
    /\ IsDescending(table.rows) /\ (notice.cut \/ notice.there \subseteq ToSet(table.rows))
    /\ RowsAreOfTheProject

LEMMA NumbersAre == IsFiniteSet(Numbers) /\ Numbers \in SUBSET Nat /\ \A c \in Numbers : c > 0
<1>1. 1 \in Int /\ LastCheck \in Int
  BY ChecksPageAssumption
<1>2. IsFiniteSet(1..LastCheck)
  BY <1>1, FS_Interval
<1> QED
  BY <1>2 DEF Numbers

LEMMA SelectedIsShown ==
    ASSUME NEW s \in StoreRows, SelectedIn(s) # NothingSelected
    PROVE  SelectedIn(s) \in Shown
<1>1. s.all \in SUBSET Shown
  BY DEF StoreRows
<1>2. CASE s.chosen \in s.all
  BY <1>1, <1>2 DEF SelectedIn
<1>3. CASE s.chosen \notin s.all /\ s.all = {}
  BY <1>3 DEF SelectedIn
<1>4. CASE s.chosen \notin s.all /\ s.all # {}
  <2>1. (CHOOSE p \in s.all : TRUE) \in s.all
    BY <1>4
  <2> QED
    BY <1>1, <1>4, <2>1 DEF SelectedIn
<1> QED
  BY <1>2, <1>3, <1>4

LEMMA NoLoadIs == /\ NoLoad \in LoadRows /\ ~NoLoad.on /\ NoLoad.items = <<>> /\ NoLoad.cursor = 0
BY EmptySeq DEF NoLoad, LoadRows, ProjectsShown

\* What StartOver begins with.
Begins(l, project, there) ==
    /\ l \in LoadRows /\ l.on /\ l.project = project /\ l.items = <<>> /\ l.cursor = 0 /\ l.there = there

LEMMA StartOverIs ==
    ASSUME NEW project \in Shown, checks \in [Shown -> SUBSET Numbers]
    PROVE  /\ Begins(StartOver(project), project, checks[project])
           /\ \A there \in SUBSET Numbers : Begins([StartOver(project) EXCEPT !.there = there], project, there)
<1> DEFINE v1 == [NoLoad EXCEPT !.on = TRUE]
           v2 == [v1 EXCEPT !.project = project]
           v3 == [v2 EXCEPT !.there = checks[project]]
<1>1. StartOver(project) = v3
  BY DEF StartOver
<1>2. v1 \in LoadRows /\ v1.on /\ v1.items = <<>> /\ v1.cursor = 0
  BY NoLoadIs DEF LoadRows
<1> HIDE DEF v1
<1>3. v2 \in LoadRows /\ v2.on /\ v2.items = <<>> /\ v2.cursor = 0 /\ v2.project = project
  BY <1>2 DEF LoadRows, ProjectsShown
<1> HIDE DEF v2
<1>4. checks[project] \in SUBSET Numbers
  OBVIOUS
<1>5. Begins(v3, project, checks[project])
  BY <1>3, <1>4 DEF LoadRows, Begins
<1> HIDE DEF v3
<1>6. ASSUME NEW there \in SUBSET Numbers PROVE Begins([v3 EXCEPT !.there = there], project, there)
  BY <1>5, <1>6 DEF LoadRows, Begins
<1> QED
  BY <1>1, <1>5, <1>6

LEMMA BegunHasLoaded ==
    ASSUME NEW l, NEW project \in Shown, NEW there, NEW have, Begins(l, project, there), there \subseteq have
    PROVE  HasLoaded(l, have)
BY DEF Begins, HasLoaded, IsDescending

LEMMA LastOfAppended ==
    ASSUME NEW s \in Seq(Nat), NEW t \in Seq(Nat), Len(t) > 0
    PROVE  Last(s \o t) = t[Len(t)]
<1>1. Len(s) \in Nat /\ Len(t) \in Nat
  BY LenProperties
<1>2. Len(s \o t) = Len(s) + Len(t) /\ \A i \in 1..(Len(s) + Len(t)) : (s \o t)[i] = IF i <= Len(s) THEN s[i] ELSE t[i - Len(s)]
  BY ConcatProperties
<1> DEFINE k == Len(s) + Len(t)
<1>3. k \in 1..(Len(s) + Len(t)) /\ ~(k <= Len(s)) /\ k - Len(s) = Len(t)
  BY <1>1
<1>4. (s \o t)[k] = IF k <= Len(s) THEN s[k] ELSE t[k - Len(s)]
  BY <1>2, <1>3
<1>5. (s \o t)[k] = t[Len(t)]
  BY <1>3, <1>4
<1> QED
  BY <1>2, <1>5 DEF Last

\* A page arrives: what is loaded goes down to its last row, or to the last of all.
LEMMA PageComes ==
    ASSUME PageInv, load.on,
           NEW rows, rows = RowsAfter(load.project, load.cursor), NEW items, items = load.items \o ListPage(rows)
    PROVE  /\ items \in Seq(Numbers) /\ IsDescending(items)
           /\ HasAnother(rows) => /\ Last(items) \in checks[load.project] /\ Last(items) \in Nat /\ Last(items) > 0
                                  /\ \A i \in DOMAIN items : items[i] >= Last(items)
                                  /\ \A c \in load.there : c \in ToSet(items) \/ c < Last(items)
           /\ ~HasAnother(rows) => load.there \subseteq ToSet(items)
<1> DEFINE page == ListPage(rows)
           have == checks[load.project]
           last == page[Len(page)]
           more == Cardinality(rows) > ListLimit
<1>1. /\ load \in LoadRows /\ load.cursor \in Nat /\ load.items \in Seq(Numbers) /\ load.there \in SUBSET Numbers
      /\ HasLoaded(load, have) /\ load.project \in Shown /\ ListLimit \in Nat \ {0}
      /\ Numbers \in SUBSET Nat /\ IsFiniteSet(Numbers) /\ \A c \in Numbers : c > 0
  BY ChecksPageAssumption, NumbersAre DEF PageInv, LoadRows, HasLoaded
<1>2. have \in SUBSET Numbers
  BY <1>1 DEF PageInv
<1>3. rows \in SUBSET have /\ \A c \in have : c \in rows <=> load.cursor = 0 \/ c < load.cursor
  <2>1. load.cursor = 0 \/ load.cursor \in have
    BY <1>1 DEF HasLoaded
  <2>2. rows = CASE load.cursor = 0 -> have [] load.cursor \in have -> {c \in have : c < load.cursor} [] OTHER -> {}
    BY DEF RowsAfter
  <2> HIDE DEF have
  <2>3. 0 \notin have
    BY <1>1, <1>2
  <2>4. CASE load.cursor = 0
    BY <2>2, <2>3, <2>4
  <2>5. CASE load.cursor # 0 /\ load.cursor \in have
    BY <2>2, <2>5
  <2> QED
    BY <2>1, <2>4, <2>5
<1>4. page = LatestOf(rows, ListLimit)
  BY DEF ListPage, HasAnother, LaterFirst, LatestOf, Descending
<1>5. HasLoaded(load, have) /\ items = load.items \o page
  BY <1>1
<1> HIDE DEF page, have
<1>6. rows \in SUBSET Nat /\ IsFiniteSet(rows) /\ rows \in SUBSET Numbers
  BY <1>1, <1>2, <1>3, FS_Subset
<1>7. IsLatest(page, rows, ListLimit)
  BY <1>1, <1>4, <1>6, PageIs
<1>8. /\ page \in Seq(rows) /\ IsDescending(page) /\ DOMAIN page = 1..Len(page) /\ Len(page) \in Nat
      /\ more => /\ Len(page) = ListLimit /\ page[Len(page)] \in rows
                 /\ \A x \in rows : (\E i \in 1..Len(page) : page[i] = x) \/ x < page[Len(page)]
                 /\ \A i \in 1..Len(page) : page[i] >= page[Len(page)]
      /\ ~more => \A x \in rows : \E i \in 1..Len(page) : page[i] = x
  BY <1>7, LenProperties DEF IsLatest
<1>9. page \in Seq(Nat) /\ page \in Seq(Numbers) /\ \A i \in 1..Len(page) : page[i] \in rows
  <2>1. page \in Seq(rows)
    BY <1>8
  <2>2. page \in Seq(Nat) /\ page \in Seq(Numbers)
    BY <1>6, <2>1, SeqMonotonic
  <2> QED
    BY <2>1, <2>2, ElementOfSeq
<1>10. load.items \in Seq(Nat) /\ DOMAIN load.items = 1..Len(load.items) /\ Len(load.items) \in Nat
       /\ \A i \in 1..Len(load.items) : load.items[i] \in Nat
  <2>1. load.items \in Seq(Nat)
    BY <1>1, SeqMonotonic
  <2> QED
    BY <2>1, LenProperties, ElementOfSeq
<1>11. /\ \A i \in 1..Len(load.items), j \in 1..Len(page) : load.items[i] > page[j]
       /\ IsDescending(load.items)
       /\ \A c \in load.there : c \in ToSet(load.items) \/ c \in rows
       /\ \A i \in 1..Len(load.items) : more => load.items[i] >= last
  <2>1. load.there \subseteq have
    BY <1>5 DEF HasLoaded
  <2>2. CASE load.cursor = 0
    <3>1. load.items = <<>> /\ Len(load.items) = 0
      BY <1>1, <1>5, <2>2, EmptySeq DEF HasLoaded
    <3> QED
      BY <1>1, <1>3, <1>5, <2>1, <2>2, <3>1 DEF HasLoaded
  <2>3. CASE load.cursor > 0
    <3>1. /\ \A i \in 1..Len(load.items) : load.items[i] >= load.cursor
          /\ \A c \in load.there : c \in ToSet(load.items) \/ c < load.cursor
      BY <1>1, <1>5, <1>10, <2>3 DEF HasLoaded
    <3>2. \A c \in rows : c < load.cursor /\ c \in Nat
      BY <1>1, <1>3, <1>6, <2>3
    <3>3. more => last < load.cursor /\ last \in Nat
      BY <1>8, <3>2
    <3> HIDE DEF more, last
    <3> QED
      BY <1>1, <1>3, <1>5, <1>9, <1>10, <2>1, <3>1, <3>2, <3>3 DEF HasLoaded
  <2> QED
    BY <1>1, <2>2, <2>3
<1>12. items \in Seq(Nat) /\ IsDescending(items) /\ ToSet(items) = ToSet(load.items) \cup ToSet(page)
  BY <1>8, <1>9, <1>10, <1>11, <1>5, DescendingGoesOn
<1>13. items \in Seq(Numbers) /\ Len(items) = Len(load.items) + Len(page)
       /\ \A i \in 1..(Len(load.items) + Len(page)) : items[i] = IF i <= Len(load.items) THEN load.items[i] ELSE page[i - Len(load.items)]
  BY <1>1, <1>5, <1>9, ConcatProperties
<1>14. more => Last(items) = last
  <2>1. more => Len(page) > 0
    BY <1>1, <1>8
  <2>2. load.items \in Seq(Nat) /\ page \in Seq(Nat) /\ items = load.items \o page
    BY <1>5, <1>9, <1>10
  <2> QED
    BY <2>1, <2>2, LastOfAppended
<1>15. \A i \in 1..Len(page) : page[i] \in ToSet(page)
  BY <1>8 DEF ToSet
<1>16. more => last \in have /\ last \in Nat /\ last > 0
  BY <1>1, <1>2, <1>3, <1>8
<1>17. \A x \in ToSet(items) : more => x >= last
  <2>1. \A x \in ToSet(page) : \E i \in 1..Len(page) : page[i] = x
    BY <1>8 DEF ToSet
  <2>2. \A x \in ToSet(load.items) : \E i \in 1..Len(load.items) : load.items[i] = x
    BY <1>10 DEF ToSet
  <2> QED
    BY <1>8, <1>11, <1>12, <2>1, <2>2
<1>18. \A i \in DOMAIN items : items[i] \in ToSet(items)
  BY DEF ToSet
<1>19. more => \A c \in load.there : c \in ToSet(items) \/ c < last
  BY <1>8, <1>11, <1>12, <1>15
<1>20. ~more => load.there \subseteq ToSet(items)
  BY <1>8, <1>11, <1>12, <1>15
<1>21. HasAnother(rows) <=> more
  BY DEF HasAnother
<1> HIDE DEF more, last
<1> QED
  BY <1>12, <1>13, <1>14, <1>16, <1>17, <1>18, <1>19, <1>20, <1>21 DEF have

\* The table and the notice are left as they were, and so is the project they are of.
LEMMA LoadChanges ==
    ASSUME PageInv, UNCHANGED <<table, notice>>,
           checks' \in [Shown -> SUBSET Numbers], store' \in StoreRows, load' \in LoadRows,
           load'.on => HasLoaded(load', checks'[load'.project]) /\ (load'.project = Selected' \/ Selected' = NothingSelected),
           \/ Selected' \in {Selected, NothingSelected} /\ (load.on => load'.on /\ load'.project = load.project)
           \/ load'.on /\ load'.project = Selected'
    PROVE  PageInv'
<1>1. RowsAreOfTheProject'
  BY DEF PageInv, RowsAreOfTheProject
<1> QED
  BY <1>1 DEF PageInv

LEMMA ProjectsComeAndGo ==
    ASSUME PageInv, NEW s \in StoreRows, WithProjects(s), UNCHANGED <<checks, table, notice>>
    PROVE  PageInv'
<1>1. store' = s /\ Selected' = SelectedIn(s) /\ checks' = checks
  BY DEF WithProjects, Selected
<1>2. CASE SelectedIn(s) \in {Selected, NothingSelected}
  <2>1. load' = load
    BY <1>2 DEF WithProjects
  <2> QED
    BY <1>1, <1>2, <2>1, LoadChanges DEF PageInv
<1>3. CASE SelectedIn(s) \notin {Selected, NothingSelected}
  <2>1. SelectedIn(s) \in Shown
    BY <1>3, SelectedIsShown
  <2>2. load' = StartOver(SelectedIn(s))
    BY <1>3 DEF WithProjects
  <2>3. Begins(load', SelectedIn(s), checks[SelectedIn(s)])
    BY <2>1, <2>2, StartOverIs DEF PageInv
  <2>4. load' \in LoadRows /\ load'.on /\ load'.project = SelectedIn(s)
    BY <2>3 DEF Begins
  <2>5. HasLoaded(load', checks[SelectedIn(s)])
    BY <2>1, <2>3, BegunHasLoaded
  <2> QED
    BY <1>1, <2>4, <2>5, LoadChanges DEF PageInv
<1> QED
  BY <1>2, <1>3

LEMMA LoadIsRenewed ==
    ASSUME PageInv, ChecksPageAssumption, Refresh \/ \E c \in Numbers : CreateCheck(c)
    PROVE  PageInv'
<1> USE DEF NothingSelected
<1>1. Selected # NothingSelected /\ UNCHANGED <<store, table, notice>>
  BY DEF Refresh, CreateCheck
<1>2. Selected \in Shown /\ Selected' = Selected
  BY <1>1, SelectedIsShown DEF Selected, PageInv
<1>3. /\ checks' \in [Shown -> SUBSET Numbers]
      /\ Begins(load', Selected, checks'[Selected])
  <2>1. CASE Refresh
    BY <1>2, <2>1, StartOverIs DEF Refresh, PageInv
  <2>2. ASSUME NEW c \in Numbers, CreateCheck(c) PROVE /\ checks' \in [Shown -> SUBSET Numbers]
                                                        /\ Begins(load', Selected, checks'[Selected])
    <3>1. checks' = [checks EXCEPT ![Selected] = @ \cup {c}]
      BY <2>2 DEF CreateCheck
    <3>2. checks' \in [Shown -> SUBSET Numbers] /\ checks'[Selected] \in SUBSET Numbers
      BY <1>2, <2>2, <3>1 DEF PageInv
    <3>3. load' = [StartOver(Selected) EXCEPT !.there = checks'[Selected]]
      BY <2>2 DEF CreateCheck
    <3>4. checks \in [Shown -> SUBSET Numbers]
      BY DEF PageInv
    <3> QED
      BY <1>2, <3>2, <3>3, <3>4, StartOverIs
  <2> QED
    BY <2>1, <2>2 DEF Numbers
<1>4. load' \in LoadRows /\ load'.on /\ load'.project = Selected
  BY <1>3 DEF Begins
<1>5. HasLoaded(load', checks'[Selected])
  BY <1>2, <1>3, BegunHasLoaded
<1> QED
  BY <1>1, <1>2, <1>3, <1>4, <1>5, LoadChanges DEF PageInv

LEMMA CheckIsDeleted ==
    ASSUME PageInv, ~MayDeleteMidway, NEW p \in Shown, NEW c \in Numbers, CheckGoes(p, c)
    PROVE  PageInv'
<1> DEFINE l == IF load.project = p THEN load.there \ {c} ELSE load.there
           n == IF table.project = p THEN notice.there \ {c} ELSE notice.there
<1>1. /\ checks' = [checks EXCEPT ![p] = @ \ {c}] /\ load' = [load EXCEPT !.there = l] /\ notice' = [notice EXCEPT !.there = n]
      /\ UNCHANGED <<store, table>> /\ ~(load.on /\ load.cursor = c /\ load.project = p)
  BY DEF CheckGoes
<1>2. /\ checks \in [Shown -> SUBSET Numbers] /\ load \in LoadRows /\ notice \in NoticeRows
  BY DEF PageInv
<1>3. l \in SUBSET load.there /\ n \in SUBSET notice.there /\ (load.project = p => c \notin l)
  OBVIOUS
<1> HIDE DEF l, n
<1>4. /\ checks' \in [Shown -> SUBSET Numbers]
      /\ load' \in LoadRows /\ load'.on = load.on /\ load'.project = load.project /\ load'.items = load.items
      /\ load'.cursor = load.cursor /\ load'.there = l
      /\ notice' \in NoticeRows /\ notice'.cut = notice.cut /\ notice'.failed = notice.failed /\ notice'.there = n
  BY <1>1, <1>2, <1>3 DEF LoadRows, NoticeRows
<1>5. Selected' = Selected
  BY <1>1 DEF Selected
<1>6. load.on => HasLoaded(load', checks'[load.project])
  <2> SUFFICES ASSUME load.on PROVE HasLoaded(load', checks'[load.project])
    OBVIOUS
  <2>1. HasLoaded(load, checks[load.project]) /\ load.project \in Shown
    BY DEF PageInv, HasLoaded
  <2>2. CASE load.project = p
    <3>1. checks'[load.project] = checks[load.project] \ {c}
      BY <1>1, <1>2, <2>1, <2>2
    <3> QED
      BY <1>1, <1>3, <1>4, <2>1, <2>2, <3>1 DEF HasLoaded
  <2>3. CASE load.project # p
    <3>1. checks'[load.project] = checks[load.project]
      BY <1>1, <1>2, <2>1, <2>3
    <3> QED
      BY <1>3, <1>4, <2>1, <3>1 DEF HasLoaded
  <2> QED
    BY <2>2, <2>3
<1>7. RowsAreOfTheProject'
  BY <1>1, <1>4, <1>5 DEF PageInv, RowsAreOfTheProject
<1> QED
  BY <1>1, <1>3, <1>4, <1>5, <1>6, <1>7 DEF PageInv

LEMMA PageIsTaken ==
    ASSUME PageInv, ChecksPageAssumption, PageArrives
    PROVE  PageInv'
<1> DEFINE rows == RowsAfter(load.project, load.cursor)
           items == load.items \o ListPage(rows)
           more == HasAnother(rows)
           last == ~more \/ load.pages + 1 >= ListPages
           page == IF EffectiveEnvironment(ToSet(items), table.environment)
                      = EffectiveEnvironment(ToSet(table.rows), table.environment) THEN table.page ELSE 0
<1>1. load.on /\ UNCHANGED <<checks, store>>
  BY DEF PageArrives
<1>2. /\ items \in Seq(Numbers) /\ IsDescending(items)
      /\ more => /\ Last(items) \in checks[load.project] /\ Last(items) \in Nat /\ Last(items) > 0
                 /\ \A i \in DOMAIN items : items[i] >= Last(items)
                 /\ \A c \in load.there : c \in ToSet(items) \/ c < Last(items)
      /\ ~more => load.there \subseteq ToSet(items)
  BY <1>1, PageComes
<1>3. /\ load \in LoadRows /\ table \in TableRows /\ HasLoaded(load, checks[load.project])
      /\ (load.project = Selected \/ Selected = NothingSelected) /\ load.project \in Shown
  BY <1>1 DEF PageInv, HasLoaded
<1>4. Selected' = Selected
  BY <1>1 DEF Selected
<1>5. CASE last
  <2>1. /\ load' = NoLoad
        /\ table' = [table EXCEPT !.project = load.project, !.rows = items, !.page = page]
        /\ notice' = [cut |-> more, failed |-> FALSE, there |-> load.there]
    BY <1>5 DEF PageArrives, Cut
  <2>2. page \in Nat
    BY <1>3 DEF TableRows
  <2>3. more \in BOOLEAN
    BY DEF HasAnother
  <2> HIDE DEF page, items, rows, more
  <2> DEFINE v1 == [table EXCEPT !.project = load.project]
             v2 == [v1 EXCEPT !.rows = items]
  <2>4. table' = [v2 EXCEPT !.page = page]
    BY <2>1
  <2>5. v1 \in TableRows /\ v1.project = load.project
    BY <1>3 DEF TableRows, ProjectsShown
  <2> HIDE DEF v1
  <2>6. v2 \in TableRows /\ v2.project = load.project /\ v2.rows = items
    BY <1>2, <2>5 DEF TableRows
  <2> HIDE DEF v2
  <2>7. table' \in TableRows /\ table'.project = load.project /\ table'.rows = items
    BY <2>2, <2>4, <2>6 DEF TableRows
  <2>8. notice' \in NoticeRows /\ notice'.cut = more /\ notice'.there = load.there
    BY <1>3, <2>1, <2>3 DEF NoticeRows, LoadRows
  <2>9. load' \in LoadRows /\ ~load'.on
    BY <2>1, NoLoadIs
  <2>10. RowsAreOfTheProject'
    BY <1>3, <1>4, <2>7 DEF RowsAreOfTheProject
  <2> QED
    BY <1>1, <1>2, <2>7, <2>8, <2>9, <2>10 DEF PageInv
<1>6. CASE ~last
  <2>1. /\ load' = [load EXCEPT !.pages = @ + 1, !.items = items, !.cursor = Last(items)]
        /\ UNCHANGED <<table, notice>> /\ more
    BY <1>6 DEF PageArrives
  <2> HIDE DEF items, rows, more
  <2> DEFINE v1 == [load EXCEPT !.pages = @ + 1]
             v2 == [v1 EXCEPT !.items = items]
  <2>2. load' = [v2 EXCEPT !.cursor = Last(items)]
    BY <2>1
  <2>3. v1 \in LoadRows /\ v1.on /\ v1.project = load.project /\ v1.there = load.there
    BY <1>1, <1>3 DEF LoadRows
  <2> HIDE DEF v1
  <2>4. v2 \in LoadRows /\ v2.on /\ v2.project = load.project /\ v2.there = load.there /\ v2.items = items
    BY <1>2, <2>3 DEF LoadRows
  <2> HIDE DEF v2
  <2>5. load' \in LoadRows /\ load'.on /\ load'.project = load.project /\ load'.there = load.there /\ load'.items = items
        /\ load'.cursor = Last(items)
    BY <1>2, <2>1, <2>2, <2>4 DEF LoadRows
  <2>6. Last(items) # 0
    BY <1>2, <2>1
  <2>7. HasLoaded(load', checks[load.project])
    BY <1>2, <1>3, <2>1, <2>5, <2>6 DEF HasLoaded
  <2> QED
    BY <1>1, <1>3, <1>4, <2>1, <2>5, <2>7, LoadChanges DEF PageInv
<1> QED
  BY <1>5, <1>6

LEMMA PageStep ==
    ASSUME PageInv, ChecksPageAssumption, ~MayDeleteMidway, [ChecksPageNext]_pageVars
    PROVE  PageInv'
<1>1. store \in StoreRows /\ load \in LoadRows /\ table \in TableRows /\ notice \in NoticeRows
  BY DEF PageInv
<1>2. CASE LoadProjects
  <2>1. store' = [store EXCEPT !.loading = TRUE] /\ UNCHANGED <<checks, load, table, notice>>
    BY <1>2 DEF LoadProjects
  <2>2. store' \in StoreRows /\ store'.all = store.all /\ store'.chosen = store.chosen
    BY <1>1, <2>1 DEF StoreRows
  <2>3. Selected' = Selected
    BY <2>2 DEF Selected, SelectedIn
  <2> QED
    BY <2>1, <2>2, <2>3, LoadChanges DEF PageInv
<1>3. CASE Refresh
  BY <1>3, LoadIsRenewed
<1>4. CASE PageArrives
  BY <1>4, PageIsTaken
<1>5. CASE LoadFails
  <2>1. load' = NoLoad /\ notice' = [notice EXCEPT !.failed = TRUE] /\ UNCHANGED <<checks, store, table>>
    BY <1>5 DEF LoadFails
  <2>2. notice' \in NoticeRows /\ notice'.failed /\ notice'.cut = notice.cut /\ notice'.there = notice.there
    BY <1>1, <2>1 DEF NoticeRows
  <2>3. load' \in LoadRows /\ ~load'.on
    BY <2>1, NoLoadIs
  <2>4. RowsAreOfTheProject'
    BY <2>2 DEF RowsAreOfTheProject
  <2> QED
    BY <2>1, <2>2, <2>3, <2>4 DEF PageInv
<1>6. ASSUME NEW answered \in BOOLEAN, ProjectsArrive(answered) PROVE PageInv'
  <2> DEFINE all == IF answered THEN Shown ELSE store.all
             v1 == [store EXCEPT !.loading = FALSE]
             s == [v1 EXCEPT !.all = all]
  <2>1. WithProjects(s) /\ UNCHANGED <<checks, table, notice>>
    BY <1>1, <1>6 DEF ProjectsArrive, StoreRows
  <2>2. all \in SUBSET Shown
    BY <1>1 DEF StoreRows
  <2>3. v1 \in StoreRows
    BY <1>1 DEF StoreRows
  <2> HIDE DEF v1, all
  <2>4. s \in StoreRows
    BY <2>2, <2>3 DEF StoreRows
  <2> HIDE DEF s
  <2> QED
    BY <2>1, <2>4, ProjectsComeAndGo
<1>7. ASSUME NEW p \in Shown, SelectProject(p) PROVE PageInv'
  <2> DEFINE s == [store EXCEPT !.chosen = p]
  <2>1. WithProjects(s) /\ UNCHANGED <<checks, table, notice>>
    BY <1>7 DEF SelectProject
  <2>2. s \in StoreRows
    BY <1>1, <1>7 DEF StoreRows, ProjectsShown
  <2> HIDE DEF s
  <2> QED
    BY <2>1, <2>2, ProjectsComeAndGo
<1>8. ASSUME NEW p \in Shown, RemoveShown(p) PROVE PageInv'
  <2> DEFINE chosen == IF store.chosen = p THEN NothingSelected ELSE store.chosen
             v1 == [store EXCEPT !.all = @ \ {p}]
             s == [v1 EXCEPT !.chosen = chosen]
  <2>1. WithProjects(s) /\ UNCHANGED <<checks, table, notice>>
    BY <1>1, <1>8 DEF RemoveShown, StoreRows
  <2>2. chosen \in ProjectsShown
    BY <1>1 DEF StoreRows, ProjectsShown
  <2>3. v1 \in StoreRows
    BY <1>1 DEF StoreRows
  <2> HIDE DEF v1, chosen
  <2>4. s \in StoreRows
    BY <2>2, <2>3 DEF StoreRows
  <2> HIDE DEF s
  <2> QED
    BY <2>1, <2>4, ProjectsComeAndGo
<1>9. ASSUME NEW p \in Shown, AddProject(p) PROVE PageInv'
  <2> DEFINE s == [store EXCEPT !.all = @ \cup {p}]
  <2>1. WithProjects(s) /\ UNCHANGED <<checks, table, notice>>
    BY <1>9 DEF AddProject
  <2>2. s \in StoreRows
    BY <1>1, <1>9 DEF StoreRows
  <2> HIDE DEF s
  <2> QED
    BY <2>1, <2>2, ProjectsComeAndGo
<1>10. ASSUME NEW c \in Numbers, CreateCheck(c) PROVE PageInv'
  BY <1>10, LoadIsRenewed
<1>11. ASSUME NEW p \in Shown, NEW c \in Numbers, CheckGoes(p, c) PROVE PageInv'
  BY <1>11, CheckIsDeleted
<1>12. ASSUME NEW state \in {"", "DOWN"}, NEW environment \in {AllEnvironments, NoEnvironment, "production"},
              FilterBy(state, environment)
       PROVE  PageInv'
  <2> DEFINE v1 == [table EXCEPT !.state = state]
             v2 == [v1 EXCEPT !.environment = environment]
  <2>1. table' = [v2 EXCEPT !.page = 0] /\ UNCHANGED <<checks, store, load, notice>>
    BY <1>12 DEF FilterBy
  <2>2. v1 \in TableRows /\ v1.rows = table.rows /\ v1.project = table.project
    BY <1>1, <1>12 DEF TableRows
  <2> HIDE DEF v1
  <2>3. v2 \in TableRows /\ v2.rows = table.rows /\ v2.project = table.project
    BY <1>12, <2>2 DEF TableRows
  <2> HIDE DEF v2
  <2>4. table' \in TableRows /\ table'.rows = table.rows /\ table'.project = table.project
    BY <2>1, <2>3 DEF TableRows
  <2>5. Selected' = Selected
    BY <2>1 DEF Selected
  <2> QED
    BY <2>1, <2>4, <2>5 DEF PageInv, RowsAreOfTheProject
<1>13. ASSUME NEW page \in 0..(LastCheck - 1), TurnTo(page) PROVE PageInv'
  <2>1. table' = [table EXCEPT !.page = page] /\ UNCHANGED <<checks, store, load, notice>>
    BY <1>13 DEF TurnTo
  <2>2. page \in Nat
    BY <1>13, ChecksPageAssumption
  <2>3. table' \in TableRows /\ table'.rows = table.rows /\ table'.project = table.project
    BY <1>1, <2>1, <2>2 DEF TableRows
  <2>4. Selected' = Selected
    BY <2>1 DEF Selected
  <2> QED
    BY <2>1, <2>3, <2>4 DEF PageInv, RowsAreOfTheProject
<1>14. CASE UNCHANGED pageVars
  <2>1. UNCHANGED <<checks, store, load, table, notice>>
    BY <1>14 DEF pageVars
  <2>2. Selected' = Selected
    BY <2>1 DEF Selected
  <2> QED
    BY <2>1, <2>2 DEF PageInv, RowsAreOfTheProject
<1> QED
  BY <1>2, <1>3, <1>4, <1>5, <1>6, <1>7, <1>8, <1>9, <1>10, <1>11, <1>12, <1>13, <1>14 DEF ChecksPageNext, Numbers

LEMMA PageInitially == ASSUME ChecksPageInit PROVE PageInv
<1>1. /\ checks = [p \in Shown |-> {}] /\ load = NoLoad
      /\ store = [all |-> {}, chosen |-> NothingSelected, loading |-> FALSE]
      /\ table = EmptyTable /\ notice = [cut |-> FALSE, failed |-> FALSE, there |-> {}]
  BY DEF ChecksPageInit
<1>2. <<>> \in Seq(Numbers) /\ DOMAIN <<>> = {} /\ IsDescending(<<>>)
  BY EmptySeq DEF IsDescending
<1>3. table \in TableRows /\ table.rows = <<>> /\ table.project = NothingSelected
  BY <1>1, <1>2 DEF TableRows, EmptyTable, ProjectsShown
<1>4. store \in StoreRows /\ notice \in NoticeRows /\ notice.there = {}
  BY <1>1 DEF StoreRows, NoticeRows, ProjectsShown
<1>5. RowsAreOfTheProject
  BY <1>3 DEF RowsAreOfTheProject
<1> QED
  BY <1>1, <1>2, <1>3, <1>4, <1>5, NoLoadIs DEF PageInv

\* Some row passes the environment that is in force.
LEMMA SomeRowMatches ==
    ASSUME NEW rows \in SUBSET Numbers, rows # {}, NEW chosen
    PROVE  \E c \in rows : MatchesEnvironment(c, EffectiveEnvironment(rows, chosen))
<1> DEFINE have == {EnvironmentOf(c) : c \in rows}
           offered == IF have \ {AllEnvironments} = {} THEN {}
                      ELSE (have \ {AllEnvironments}) \cup (IF AllEnvironments \in have THEN {NoEnvironment} ELSE {})
<1>1. EffectiveEnvironment(rows, chosen) = IF chosen \in offered THEN chosen ELSE AllEnvironments
  BY DEF EffectiveEnvironment
<1>2. CASE chosen \notin offered
  <2>1. EffectiveEnvironment(rows, chosen) = AllEnvironments
    <3> HIDE DEF offered
    <3> QED
      BY <1>1, <1>2
  <2>2. \A c \in rows : MatchesEnvironment(c, AllEnvironments)
    BY DEF MatchesEnvironment, AllEnvironments, NoEnvironment
  <2> QED
    BY <2>1, <2>2
<1>3. CASE chosen \in offered /\ chosen \in have \ {AllEnvironments}
  <2>1. PICK c \in rows : EnvironmentOf(c) = chosen
    BY <1>3
  <2>2. EnvironmentOf(c) \in {AllEnvironments, "production"}
    BY DEF EnvironmentOf
  <2>3. chosen = "production"
    BY <1>3, <2>1, <2>2
  <2>4. MatchesEnvironment(c, chosen)
    BY <2>1, <2>3 DEF MatchesEnvironment, AllEnvironments, NoEnvironment
  <2> QED
    BY <1>1, <1>3, <2>4
<1>4. CASE chosen \in offered /\ chosen \notin have \ {AllEnvironments}
  <2>1. AllEnvironments \in have /\ chosen = NoEnvironment
    BY <1>4
  <2>2. PICK c \in rows : EnvironmentOf(c) = AllEnvironments
    BY <2>1
  <2>3. MatchesEnvironment(c, chosen)
    BY <2>1, <2>2 DEF MatchesEnvironment, AllEnvironments, NoEnvironment
  <2> QED
    BY <1>1, <1>4, <2>3
<1> QED
  BY <1>2, <1>3, <1>4

\* The order of urgency is one: the table shows every row that matches.
LEMMA UrgencyOrders ==
    ASSUME NEW set \in SUBSET Nat, IsFiniteSet(set), set # {}
    PROVE  BrokenFirst(set) # <<>>
<1> DEFINE order == {pair \in Nat \X Nat : ByUrgency(pair[1], pair[2])}
           n == Cardinality(set)
<1>1. \A a, b \in Nat : <<a, b>> \in order <=> ByUrgency(a, b)
  OBVIOUS
<1>2. IsAnOrder(order, set)
  <2>1. \A a \in Nat : StateOf(a) \in {"UP", "DOWN"}
    BY DEF StateOf
  <2>2. \A a, b \in Nat : ByUrgency(a, b) <=> IF StateOf(a) = StateOf(b) THEN a < b ELSE StateOf(a) = "DOWN"
    BY DEF ByUrgency
  <2> HIDE DEF order
  <2>3. \A a, b \in set : a # b => <<a, b>> \in order \/ <<b, a>> \in order
    BY <1>1, <2>1, <2>2
  <2>4. \A a, b, c \in set : <<a, b>> \in order /\ <<b, c>> \in order => <<a, c>> \in order
    BY <1>1, <2>1, <2>2
  <2>5. \A a \in set : <<a, a>> \notin order
    BY <1>1, <2>2
  <2> QED
    BY <2>3, <2>4, <2>5 DEF IsAnOrder
<1>3. n \in Nat /\ n # 0
  BY FS_CardinalityType, FS_EmptySet
<1> HIDE DEF order
<1>4. PICK s \in [1..n -> set] : Follows(s, order, n)
  BY <1>2, OrderExists
<1>5. \A i, j \in DOMAIN s : i < j => ByUrgency(s[i], s[j])
  <2>1. \A i \in 1..n : s[i] \in Nat
    OBVIOUS
  <2> QED
    BY <1>1, <1>4, <2>1 DEF Follows
<1>6. BrokenFirst(set) \in [1..n -> set]
  BY <1>4, <1>5 DEF BrokenFirst
<1>7. 1 \in DOMAIN BrokenFirst(set)
  BY <1>3, <1>6
<1> QED
  BY <1>7

LEMMA PageIsKept == PageInv => RowsAreOfTheProject /\ NothingIsOmittedSilently /\ TableIsNotEmptyForNothing
<1> SUFFICES ASSUME PageInv
             PROVE  NothingIsOmittedSilently /\ TableIsNotEmptyForNothing
  BY DEF PageInv
<1> DEFINE rows == ToSet(table.rows)
           environment == EffectiveEnvironment(rows, table.environment)
           set == {c \in rows : table.state \in {"", StateOf(c)} /\ MatchesEnvironment(c, environment)}
<1>1. table.rows \in Seq(Numbers) /\ IsDescending(table.rows) /\ (notice.cut \/ notice.there \subseteq ToSet(table.rows))
  BY DEF PageInv, TableRows
<1>2. IsInjective(table.rows)
  <2>1. DOMAIN table.rows = 1..Len(table.rows) /\ Len(table.rows) \in Nat
    BY <1>1, LenProperties
  <2>2. \A i \in DOMAIN table.rows : table.rows[i] \in Nat
    BY <1>1, NumbersAre, ElementOfSeq, <2>1
  <2> QED
    BY <1>1, <2>1, <2>2 DEF IsInjective, IsDescending
<1>3. rows \in SUBSET Numbers
  BY <1>1, LenProperties, ElementOfSeq DEF ToSet
<1>4. Matching = BrokenFirst(set)
  BY DEF Matching
<1>5. ASSUME table.rows # <<>>, table.state = "" PROVE Matching # <<>>
  <2>1. rows # {}
    <3> DEFINE r == table.rows
    <3>0. r \in Seq(Numbers) /\ r # <<>>
      BY <1>1, <1>5
    <3> HIDE DEF r
    <3>1. 1 \in DOMAIN r
      <4>1. Len(r) # 0 /\ Len(r) \in Nat /\ DOMAIN r = 1..Len(r)
        BY <3>0, EmptySeq, LenProperties
      <4> QED
        BY <4>1
    <3> USE DEF r
    <3> QED
      BY <3>1 DEF ToSet
  <2> HIDE DEF rows
  <2>2. set # {}
    <3>1. PICK c \in rows : MatchesEnvironment(c, environment)
      BY <1>3, <2>1, SomeRowMatches
    <3> QED
      BY <1>5, <3>1
  <2>3. set \in SUBSET Numbers
    BY <1>3
  <2>4. set \in SUBSET Nat /\ IsFiniteSet(set)
    BY <2>3, NumbersAre, FS_Subset
  <2> HIDE DEF set
  <2> QED
    BY <1>4, <2>2, <2>4, UrgencyOrders
<1>6. Matching # <<>> => OnPage(Matching) # <<>>
  <2> DEFINE m == Matching
             x == m[IF table.page < Len(m) THEN table.page + 1 ELSE 1]
  <2>1. OnPage(m) = IF m = <<>> THEN <<>> ELSE <<x>>
    BY DEF OnPage
  <2> HIDE DEF m, x
  <2>2. <<x>> # <<>>
    <3>1. Len(<<x>>) = 1 /\ Len(<<>>) = 0
      OBVIOUS
    <3> QED
      BY <3>1
  <2>3. m # <<>> => OnPage(m) # <<>>
    BY <2>1, <2>2
  <2> QED
    BY <2>3 DEF m
<1> QED
  BY <1>1, <1>2, <1>5, <1>6 DEF NothingIsOmittedSilently, TableIsNotEmptyForNothing

-----------------------------------------------------------------------------
(***************************************************************************)
(* What a server that starts can do with its settings.                     *)
(***************************************************************************)
AuthRows == [mode : {"password", "passkey", "full"}, written : BaseUrls, secure : BOOLEAN, host : Hosts, rpId : Hosts \cup {NoHost},
             origin : {NoHost} \cup Hosts, originSecure : BOOLEAN]
EnvRows == [auth : AuthRows, with : ProviderSettings, mail : Mail, sales : {NothingSold} \cup SalesOfPlans \cup SalesOfKeys]
WritesAreTaken == SmtpUrls = {"smtp"} /\ BaseUrls = {"origin"}

ConfigInv == env \in EnvRows /\ (server = "running" => ~EnvRefused(env))

LEMMA MinimalIs ==
    ASSUME WritesAreTaken
    PROVE  /\ Minimal \in EnvRows /\ Minimal.auth \in AuthRows /\ Minimal.mail \in Mail
           /\ Passkeys \subseteq AuthRows /\ NoProviders \in ProviderSettings /\ Google \in ProviderSettings
<1>1. Localhost \in Hosts /\ <<"com", "example", "watch">> \in Hosts
  BY DEF Hosts
<1>2. PasswordOnly \in AuthRows
  <2> HIDE DEF Hosts
  <2> QED
    BY <1>1 DEF PasswordOnly, AuthRows, WritesAreTaken
<1>3. NoProviders \in ProviderSettings
  BY DEF NoProviders, ProviderSettings, Secrets, Blank, Unset
<1>4. Google \in ProviderSettings
  <2> DEFINE v1 == [NoProviders EXCEPT !.googleId = "set"]
  <2>1. Google = [v1 EXCEPT !.googleSecret = "set"]
    BY DEF Google
  <2>2. "set" \in Secrets
    BY DEF Secrets
  <2>3. v1 \in ProviderSettings
    BY <1>3, <2>2 DEF ProviderSettings
  <2> HIDE DEF v1
  <2> QED
    BY <2>1, <2>2, <2>3 DEF ProviderSettings
<1>5. Postmark \in Mail
  BY DEF Postmark, Mail, Secrets, WritesAreTaken
<1>6. Minimal = [auth |-> PasswordOnly, with |-> NoProviders, mail |-> Postmark, sales |-> NothingSold]
  BY DEF Minimal
<1>7. NothingSold \in {NothingSold} \cup SalesOfPlans \cup SalesOfKeys
  OBVIOUS
<1>8. Passkeys \subseteq AuthRows
  <2> SUFFICES ASSUME NEW a \in Passkeys PROVE a \in AuthRows
    OBVIOUS
  <2> QED
    BY DEF Passkeys, AuthRows
<1> HIDE DEF PasswordOnly, NoProviders, Postmark, NothingSold
<1> QED
  BY <1>2, <1>3, <1>4, <1>5, <1>6, <1>7, <1>8 DEF EnvRows

\* What a host is.
LEMMA HostNamesAre ==
    ASSUME NEW h \in Hosts
    PROVE  /\ h # NoHost /\ Len(h) \in Nat /\ Len(h) >= 1
           /\ IsLocalhost(h) => h = Localhost
<1>1. \/ h = <<"localhost">> \/ h = <<"com">> \/ h = <<"com", "example">>
      \/ h = <<"com", "example", "watch">> \/ h = <<"org", "other">>
  BY DEF Hosts, Localhost
<1>2. Len(h) \in Nat /\ Len(h) >= 1 /\ (h[1] = "localhost" => h = Localhost)
  BY <1>1 DEF Localhost
<1>3. Len(NoHost) = 0
  BY DEF NoHost
<1> QED
  BY <1>2, <1>3 DEF IsLocalhost

LEMMA PasskeysWork ==
    ASSUME NEW auth \in AuthRows, auth.mode # "password", ~PasskeysRefused(auth)
    PROVE  /\ BrowserTakes(RpId(auth), auth.host, auth.secure)
           /\ auth.origin # NoHost => BrowserTakes(RpId(auth), auth.origin, auth.originSecure)
<1>1. /\ auth.secure \/ IsLocalhost(auth.host)
      /\ IsPrefix(RpId(auth), auth.host)
      /\ IsLocalhost(RpId(auth)) \/ Len(RpId(auth)) # 1
      /\ auth.origin # NoHost => /\ auth.originSecure \/ IsLocalhost(auth.origin)
                                 /\ IsPrefix(RpId(auth), auth.origin)
  BY DEF PasskeysRefused, WithinDomain
<1>2. RpId(auth) \in Hosts
  BY DEF RpId, AuthRows
<1>3. Len(RpId(auth)) > 1 \/ RpId(auth) = Localhost
  BY <1>1, <1>2, HostNamesAre
<1> QED
  BY <1>1, <1>3 DEF BrowserTakes

LEMMA ProvidersWork ==
    ASSUME NEW e, e.auth.mode = "full", ~ProvidersRefused(e.auth.mode, e.with)
    PROVE  ProvidersOffered(e) # {}
<1> DEFINE w == e.with
<1>1. /\ IsSet(w.googleId) <=> IsSet(w.googleSecret)
      /\ IsSet(w.microsoftId) <=> IsSet(w.microsoftSecret)
      /\ IsSet(w.googleId) \/ IsSet(w.microsoftId)
  BY DEF ProvidersRefused, Half
<1>2. CASE IsSet(w.googleId)
  <2>1. "google" \in ProvidersOffered(e)
    BY <1>1, <1>2 DEF ProvidersOffered
  <2> QED
    BY <2>1
<1>3. CASE IsSet(w.microsoftId)
  <2>1. "microsoft" \in ProvidersOffered(e)
    BY <1>1, <1>3 DEF ProvidersOffered
  <2> QED
    BY <2>1
<1> QED
  BY <1>1, <1>2, <1>3

LEMMA SalesWork ==
    ASSUME NEW sales, ~QuotasRefused(sales), ~BillingRefused(sales)
    PROVE  /\ sales.quotas => sales.default \in LimitsOf(sales)
           /\ sales.billing => sales.quotas /\ \A p \in sales.sold :
                /\ PlansOfPrice(sales, PriceOf(sales, p)) = {p}
                /\ p \in LimitsOf(sales) /\ p # sales.default
<1>1. sales.quotas => sales.default \in LimitsOf(sales)
  BY DEF QuotasRefused, LimitsOf
<1>2. ASSUME sales.billing
      PROVE  sales.quotas /\ \A p \in sales.sold :
                /\ PlansOfPrice(sales, PriceOf(sales, p)) = {p}
                /\ p \in LimitsOf(sales) /\ p # sales.default
  <2>1. sales.quotas /\ sales.sold \subseteq LimitsOf(sales) /\ sales.default \notin sales.sold /\ ~SharesAPrice(sales)
    BY <1>2 DEF BillingRefused
  <2>2. \A p, q \in sales.sold : PriceOf(sales, p) = PriceOf(sales, q) => p = q
    BY <2>1 DEF SharesAPrice
  <2>3. \A p \in sales.sold : PlansOfPrice(sales, PriceOf(sales, p)) = {p}
    BY <2>2 DEF PlansOfPrice
  <2> QED
    BY <2>1, <2>3
<1> QED
  BY <1>1, <1>2

LEMMA ConfigIsKept == ConfigInv /\ WritesAreTaken => AcceptedMeansWorking
<1> SUFFICES ASSUME ConfigInv, WritesAreTaken, server = "running" PROVE AcceptedMeansWorking
  BY DEF AcceptedMeansWorking
<1>1. ~EnvRefused(env) /\ env.auth \in AuthRows /\ env.mail \in Mail
  BY DEF ConfigInv, EnvRows
<1>2. /\ ~PasskeysRefused(env.auth) /\ ~ProvidersRefused(env.auth.mode, env.with)
      /\ ~MailRefused(env.mail) /\ ~QuotasRefused(env.sales) /\ ~BillingRefused(env.sales)
  BY <1>1 DEF EnvRefused
<1>3. OriginIsTaken(env.auth)
  BY <1>1 DEF OriginIsTaken, AuthRows, WritesAreTaken
<1>4. Delivers(env.mail)
  <2>1. env.mail.smtp = "smtp"
    BY <1>1 DEF Mail, WritesAreTaken
  <2> QED
    BY <1>2, <2>1 DEF MailRefused, Delivers
<1>5. /\ env.sales.quotas => env.sales.default \in LimitsOf(env.sales)
      /\ env.sales.billing => env.sales.quotas /\ \A p \in env.sales.sold :
           /\ PlansOfPrice(env.sales, PriceOf(env.sales, p)) = {p}
           /\ p \in LimitsOf(env.sales) /\ p # env.sales.default
  BY <1>2, SalesWork
<1>6. env.auth.mode # "password" =>
        /\ BrowserTakes(RpId(env.auth), env.auth.host, env.auth.secure)
        /\ env.auth.origin # NoHost => BrowserTakes(RpId(env.auth), env.auth.origin, env.auth.originSecure)
  BY <1>1, <1>2, PasskeysWork
<1>7. env.auth.mode = "full" => ProvidersOffered(env) # {}
  BY <1>2, ProvidersWork
<1> QED
  BY <1>3, <1>4, <1>5, <1>6, <1>7 DEF AcceptedMeansWorking

LEMMA ConfigInitially == ASSUME ConfigInit, WritesAreTaken PROVE ConfigInv
BY MinimalIs DEF ConfigInit, ConfigInv

LEMMA ConfigStep ==
    ASSUME ConfigInv, WritesAreTaken, [ConfigNext]_configVars
    PROVE  ConfigInv'
<1>1. CASE StartServer
  BY <1>1 DEF StartServer, ConfigInv
<1>2. CASE Edit
  <2>1. server' = "down"
    BY <1>2 DEF Edit
  <2>2. env' \in EnvRows
    <3>1. CASE env' = Minimal
      BY <3>1, MinimalIs
    <3>2. ASSUME NEW auth \in Passkeys, NEW with \in {NoProviders, Google}, NEW production \in BOOLEAN,
                 env' = [Minimal EXCEPT !.auth = auth, !.with = with, !.mail.production = production]
          PROVE  env' \in EnvRows
      <4> DEFINE mail == [Minimal.mail EXCEPT !.production = production]
                 v1 == [Minimal EXCEPT !.auth = auth]
                 v2 == [v1 EXCEPT !.with = with]
      <4>1. v1 \in EnvRows /\ v1.mail = Minimal.mail
        BY <3>2, MinimalIs DEF EnvRows
      <4>2. v2 \in EnvRows /\ v2.mail = Minimal.mail
        <5> HIDE DEF v1
        <5> QED
          BY <3>2, <4>1, MinimalIs DEF EnvRows
      <4>3. mail \in Mail
        BY <3>2, MinimalIs DEF Mail
      <4>4. env' = [v2 EXCEPT !.mail = mail]
        BY <3>2, <4>2
      <4> HIDE DEF v1, v2, mail
      <4> QED
        BY <4>2, <4>3, <4>4 DEF EnvRows
    <3>3. ASSUME NEW with \in ProviderSettings, env' = [Minimal EXCEPT !.auth.mode = "full", !.with = with]
          PROVE  env' \in EnvRows
      <4> DEFINE auth == [Minimal.auth EXCEPT !.mode = "full"]
                 v1 == [Minimal EXCEPT !.auth = auth]
      <4>1. auth \in AuthRows
        BY MinimalIs DEF AuthRows
      <4>2. env' = [v1 EXCEPT !.with = with]
        BY <3>3
      <4> HIDE DEF auth
      <4>3. v1 \in EnvRows
        BY <4>1, MinimalIs DEF EnvRows
      <4> HIDE DEF v1
      <4> QED
        BY <3>3, <4>2, <4>3 DEF EnvRows
    <3>4. ASSUME NEW mail \in Mail, env' = [Minimal EXCEPT !.mail = mail] PROVE env' \in EnvRows
      BY <3>4, MinimalIs DEF EnvRows
    <3>5. ASSUME NEW sales \in SalesOfPlans \cup SalesOfKeys, env' = [Minimal EXCEPT !.sales = sales]
          PROVE  env' \in EnvRows
      <4> HIDE DEF SalesOfPlans, SalesOfKeys, NothingSold
      <4> QED
        BY <3>5, MinimalIs DEF EnvRows
    <3> QED
      BY <1>2, <3>1, <3>2, <3>3, <3>4, <3>5 DEF Edit
  <2> QED
    BY <2>1, <2>2 DEF ConfigInv
<1>3. CASE UNCHANGED configVars
  BY <1>3 DEF configVars, ConfigInv
<1> QED
  BY <1>1, <1>2, <1>3 DEF ConfigNext

-----------------------------------------------------------------------------
(***************************************************************************)
(* One service moves, as it does on its own.                               *)
(***************************************************************************)
ServiceStep == [ServicesNext]_servicesVars

LEMMA OneServiceMoves ==
    ServiceStep =>
        /\ part' = part
        /\ PlanNext \/ ClockNext \/ AlertNext \/ RestNext
           \/ UNCHANGED <<planVars, clockVars, alertVars, restVars>>
BY Zenon DEF ServiceStep, ServicesNext, servicesVars, PlanNext, ClockNext, AlertNext, RestNext

LEMMA PlansMove ==
    ServiceStep => /\ part' = part
                   /\ part = "StarterSync" => [StarterSyncNext]_syncVars
                   /\ part = "Projects" => [ProjectsNext]_projectVars
                   /\ part = "Quota" => [QuotaNext]_quotaVars
<1> SUFFICES ASSUME ServiceStep
             PROVE  /\ part = "StarterSync" => [StarterSyncNext]_syncVars
                    /\ part = "Projects" => [ProjectsNext]_projectVars
                    /\ part = "Quota" => [QuotaNext]_quotaVars
  BY OneServiceMoves
<1>1. PlanNext \/ UNCHANGED <<syncVars, projectVars, quotaVars>>
  BY OneServiceMoves, Zenon DEF ClockNext, AlertNext, RestNext, planVars
<1>2. "StarterSync" # "Projects" /\ "StarterSync" # "Quota" /\ "Projects" # "Quota"
  OBVIOUS
<1> QED
  BY <1>1, <1>2, Zenon DEF PlanNext

LEMMA ClocksMove ==
    ServiceStep => /\ part' = part
                   /\ part = "RateLimit" => [RateLimitNext]_rateVars
                   /\ part = "Retention" => [RetentionNext]_retentionVars
                   /\ part = "Watchdog" => [WatchdogNext]_watchdogVars
                   /\ part = "PingGate" => [PingGateNext]_gateVars
<1> SUFFICES ASSUME ServiceStep
             PROVE  /\ part = "RateLimit" => [RateLimitNext]_rateVars
                    /\ part = "Retention" => [RetentionNext]_retentionVars
                    /\ part = "Watchdog" => [WatchdogNext]_watchdogVars
                    /\ part = "PingGate" => [PingGateNext]_gateVars
  BY OneServiceMoves
<1>1. ClockNext \/ UNCHANGED <<rateVars, retentionVars, watchdogVars, gateVars>>
  BY OneServiceMoves, Zenon DEF PlanNext, AlertNext, RestNext, clockVars
<1>2. /\ "RateLimit" # "Retention" /\ "RateLimit" # "Watchdog" /\ "RateLimit" # "PingGate"
      /\ "Retention" # "Watchdog" /\ "Retention" # "PingGate" /\ "Watchdog" # "PingGate"
  OBVIOUS
<1> QED
  BY <1>1, <1>2, Zenon DEF ClockNext

LEMMA AlertsMove ==
    ServiceStep => /\ part' = part
                   /\ part = "Channels" => [ChannelsNext]_channelVars
                   /\ part = "ChannelConfigs" => [ConfigsNext]_vaultVars
                   /\ part = "Sending" => [SendingNext]_sendingVars
<1> SUFFICES ASSUME ServiceStep
             PROVE  /\ part = "Channels" => [ChannelsNext]_channelVars
                    /\ part = "ChannelConfigs" => [ConfigsNext]_vaultVars
                    /\ part = "Sending" => [SendingNext]_sendingVars
  BY OneServiceMoves
<1>1. AlertNext \/ UNCHANGED <<channelVars, vaultVars, sendingVars>>
  BY OneServiceMoves, Zenon DEF PlanNext, ClockNext, RestNext, alertVars
<1>2. "Channels" # "ChannelConfigs" /\ "Channels" # "Sending" /\ "ChannelConfigs" # "Sending"
  OBVIOUS
<1> QED
  BY <1>1, <1>2, Zenon DEF AlertNext

LEMMA RestMoves ==
    ServiceStep => /\ part' = part
                   /\ part = "Audit" => [AuditNext]_auditVars
                   /\ part = "ChecksPage" => [ChecksPageNext]_pageVars
                   /\ part = "WebSession" => [WebSessionNext]_webVars
                   /\ part = "Config" => [ConfigNext]_configVars
                   /\ part = "CheckDetail" => [CheckDetailNext]_detailVars
<1> SUFFICES ASSUME ServiceStep
             PROVE  /\ part = "Audit" => [AuditNext]_auditVars
                    /\ part = "ChecksPage" => [ChecksPageNext]_pageVars
                    /\ part = "WebSession" => [WebSessionNext]_webVars
                    /\ part = "Config" => [ConfigNext]_configVars
                    /\ part = "CheckDetail" => [CheckDetailNext]_detailVars
  BY OneServiceMoves
<1>1. RestNext \/ UNCHANGED <<auditVars, pageVars, webVars, configVars, detailVars>>
  BY OneServiceMoves, Zenon DEF PlanNext, ClockNext, AlertNext, restVars
<1>2. /\ "Audit" # "ChecksPage" /\ "Audit" # "WebSession" /\ "Audit" # "Config" /\ "Audit" # "CheckDetail"
      /\ "ChecksPage" # "WebSession" /\ "ChecksPage" # "Config" /\ "ChecksPage" # "CheckDetail"
      /\ "WebSession" # "Config" /\ "WebSession" # "CheckDetail" /\ "Config" # "CheckDetail"
  OBVIOUS
<1> QED
  BY <1>1, <1>2, Zenon DEF RestNext

LEMMA ServicesBegin ==
    ServicesInit => /\ part = "StarterSync" => StarterSyncInit
                    /\ part = "Projects" => ProjectsInit
                    /\ part = "Quota" => QuotaInit
                    /\ part = "RateLimit" => RateLimitInit
                    /\ part = "Retention" => RetentionInit
                    /\ part = "Watchdog" => WatchdogInit
                    /\ part = "Channels" => ChannelsInit
                    /\ part = "ChannelConfigs" => ConfigsInit
                    /\ part = "Sending" => SendingInit
                    /\ part = "Audit" => AuditInit
                    /\ part = "ChecksPage" => ChecksPageInit
                    /\ part = "WebSession" => WebSessionInit
                    /\ part = "Config" => ConfigInit
                    /\ part = "PingGate" => PingGateInit
                    /\ part = "CheckDetail" => CheckDetailInit
BY Zenon DEF ServicesInit

PlansInv ==
    /\ part = "StarterSync" => SyncInv
    /\ part = "Projects" => ProjectsInv /\ (OnlyCreationsOverlap => OrderInv)
    /\ part = "Quota" => QuotaInv
    /\ part = "Channels" => ChannelsInv

LEMMA PlansInvariance ==
    ASSUME ~LockTimesOut
    PROVE  /\ ServicesInit => PlansInv
           /\ PlansInv /\ ServiceStep => PlansInv'
<1>1. ServicesInit => PlansInv
  BY ServicesBegin, SyncInitially, ProjectsInitially, OrderInitially, QuotaInitially, ChannelsInitially
  DEF PlansInv
<1>2. ASSUME PlansInv, ServiceStep PROVE PlansInv'
  <2>1. (part = "StarterSync" => SyncInv)'
    BY <1>2, PlansMove, SyncStep DEF PlansInv
  <2>2. (part = "Projects" => ProjectsInv /\ (OnlyCreationsOverlap => OrderInv))'
    <3> SUFFICES ASSUME part = "Projects" PROVE ProjectsInv' /\ (OnlyCreationsOverlap => OrderInv')
      BY <1>2, PlansMove DEF OnlyCreationsOverlap
    <3>1. [ProjectsNext]_projectVars /\ ProjectsInv /\ (OnlyCreationsOverlap => OrderInv)
      BY <1>2, PlansMove DEF PlansInv
    <3> QED
      BY <3>1, ProjectsStep, OrderStep
  <2>3. (part = "Quota" => QuotaInv)'
    BY <1>2, PlansMove, QuotaStep DEF PlansInv
  <2>4. (part = "Channels" => ChannelsInv)'
    BY <1>2, AlertsMove, ChannelsStep DEF PlansInv
  <2> QED
    BY <2>1, <2>2, <2>3, <2>4 DEF PlansInv
<1> QED
  BY <1>1, <1>2

(***************************************************************************)
(* Requests sent together never get past what the plan allows, of checks   *)
(* declared, created or moved, of projects and of channels: for any number *)
(* of requests and any ceiling, if none outlasts the transaction of its    *)
(* lock (QuotaService.serialised).                                         *)
(***************************************************************************)
THEOREM PlansHoldForAll == ~LockTimesOut => (ServicesSpec => []PlansHold)
<1> SUFFICES ASSUME ~LockTimesOut PROVE ServicesSpec => []PlansHold
  OBVIOUS
<1>1. PlansInv => PlansHold
  <2>1. QuotaInv => CreationWithinLimit
    BY DEF QuotaInv, HoldsTheLock, CreationWithinLimit
  <2>2. SyncInv => NeverOverThePlan
    BY DEF SyncInv, NeverOverThePlan
  <2>3. ProjectsInv => ProjectsWithinPlan
    BY DEF ProjectsInv, ProjectsWithinPlan
  <2> QED
    BY <2>1, <2>2, <2>3, ChannelsAreKept DEF PlansInv, PlansHold
<1>2. ServicesInit => PlansInv
  BY PlansInvariance
<1>3. PlansInv /\ [ServicesNext]_servicesVars => PlansInv'
  BY PlansInvariance DEF ServiceStep
<1> QED
  BY <1>1, <1>2, <1>3, PTL DEF ServicesSpec

(***************************************************************************)
(* A person keeps a project to work in, a project its handful of keys, an  *)
(* account that is gone opens nothing, and what an application declares is *)
(* not flagged as gone: for any number of requests, if removals, keys and  *)
(* deletions of the account do not overlap and no declaration outlasts its *)
(* lock (ProjectsService, ApiKeysService, CheckSyncService).               *)
(***************************************************************************)
THEOREM AccountsStayOrdered ==
    ~LockTimesOut /\ OnlyCreationsOverlap => (ServicesSpec => []AccountsStayInOrder)
<1> SUFFICES ASSUME ~LockTimesOut, OnlyCreationsOverlap PROVE ServicesSpec => []AccountsStayInOrder
  OBVIOUS
<1>1. PlansInv => AccountsStayInOrder
  BY OrderIsKept DEF PlansInv, AccountsStayInOrder, SyncInv
<1>2. ServicesInit => PlansInv
  BY PlansInvariance
<1>3. PlansInv /\ [ServicesNext]_servicesVars => PlansInv'
  BY PlansInvariance DEF ServiceStep
<1> QED
  BY <1>1, <1>2, <1>3, PTL DEF ServicesSpec

(***************************************************************************)
(* What was granted is not granted again: the start of a server grants no  *)
(* grace to a check that was already overdue (CheckSyncService), and no    *)
(* run of the reseal seals a configuration with a key that was replaced.   *)
(* It holds for overlapping requests too, and with locks that time out:    *)
(* only the types of the two services are needed.                          *)
(***************************************************************************)
THEOREM NothingIsGrantedTwice == ServicesSpec => NothingGoesBackwards
<1> DEFINE Inv == /\ part = "StarterSync" => SyncTypes
                  /\ part = "ChannelConfigs" => VaultTypes
           Kept == /\ part = "StarterSync" => RestartGrantsNoGrace
                   /\ part = "ChannelConfigs" => NeverBackToAnOldKey
<1>1. ServicesInit => Inv
  BY ServicesBegin, SyncInitially, SyncTypesAre, VaultInitially DEF SyncInv, VaultInv
<1>2. Inv /\ [ServicesNext]_servicesVars => Inv' /\ Kept
  <2> SUFFICES ASSUME Inv, ServiceStep PROVE Inv' /\ Kept
    BY DEF ServiceStep
  <2>1. CASE part = "StarterSync"
    BY <2>1, PlansMove, GraceStep
  <2>2. CASE part = "ChannelConfigs"
    BY <2>2, AlertsMove, VaultTypesStep
  <2>3. CASE part \notin {"StarterSync", "ChannelConfigs"}
    BY <2>3, OneServiceMoves
  <2> QED
    BY <2>1, <2>2, <2>3
<1>3. ServicesSpec => [][Kept]_servicesVars
  BY <1>1, <1>2, PTL DEF ServicesSpec
<1> QED
  BY <1>3 DEF NothingGoesBackwards

MessagesInv ==
    /\ part = "PingGate" => GateInv
    /\ part = "Sending" => SendingInv
    /\ part = "ChannelConfigs" => VaultInv

LEMMA MessagesBegin == ServicesInit => MessagesInv
BY ServicesBegin, GateInitially, SendingInitially, VaultInitially DEF MessagesInv

LEMMA MessagesStep == MessagesInv /\ ServiceStep => MessagesInv'
<1> SUFFICES ASSUME MessagesInv, ServiceStep PROVE MessagesInv'
  OBVIOUS
<1>1. (part = "PingGate" => GateInv)'
  BY ClocksMove, GateStep DEF MessagesInv
<1>2. (part = "Sending" => SendingInv)'
  BY AlertsMove, SendingStep DEF MessagesInv
<1>3. (part = "ChannelConfigs" => VaultInv)'
  BY AlertsMove, VaultStep DEF MessagesInv
<1> QED
  BY <1>1, <1>2, <1>3 DEF MessagesInv

(***************************************************************************)
(* No channel reaches an address the guard would not let it reach, what is *)
(* called sent was taken, a reseal leaves behind no configuration but      *)
(* those it says failed, and a job is answered what became of its          *)
(* heartbeat: for any number of calls, keys and channels, where mail does  *)
(* leave the server (validation.ts refuses "console" in production).       *)
(***************************************************************************)
THEOREM MessagesLeaveSafelyForAll == Provider # "console" => (ServicesSpec => []MessagesLeaveSafely)
<1> SUFFICES ASSUME Provider # "console" PROVE ServicesSpec => []MessagesLeaveSafely
  OBVIOUS
<1>1. MessagesInv => MessagesLeaveSafely
  BY GateIsKept, VaultIsReached DEF MessagesInv, SendingInv, MessagesLeaveSafely
<1>2. MessagesInv /\ [ServicesNext]_servicesVars => MessagesInv'
  BY MessagesStep DEF ServiceStep
<1> QED
  BY <1>1, <1>2, MessagesBegin, PTL DEF ServicesSpec

(***************************************************************************)
(* A request held while the person signs in again is let through by that   *)
(* sign-in or answered with the refusal, no write is given up on           *)
(* (reauth.service.ts, auth.interceptor.ts), and an answer that comes for  *)
(* a page already left changes nothing on the one that is shown            *)
(* (check-detail): for any number of requests, people, pages and answers,  *)
(* where nobody signs in more slowly than the interceptor waits.           *)
(***************************************************************************)
THEOREM AnswersComeInTimeForAll == ~SlowToSignIn => (ServicesSpec => AnswersComeInTime)
<1> SUFFICES ASSUME ~SlowToSignIn PROVE ServicesSpec => AnswersComeInTime
  OBVIOUS
<1> DEFINE Inv == /\ part = "WebSession" => WebInv
                  /\ part = "CheckDetail" => DetailInv
           Kept == /\ part = "WebSession" => HeldIsAnswered
                   /\ part = "CheckDetail" => LateAnswersEnd
<1>1. ServicesInit => Inv
  BY ServicesBegin, WebInitially, DetailInitially
<1>2. Inv /\ [ServicesNext]_servicesVars => Inv' /\ Kept
  <2> SUFFICES ASSUME Inv, ServiceStep PROVE Inv' /\ Kept
    BY DEF ServiceStep
  <2>1. CASE part = "WebSession"
    BY <2>1, RestMoves, WebStep
  <2>2. CASE part = "CheckDetail"
    BY <2>2, RestMoves, DetailStep
  <2>3. CASE part \notin {"WebSession", "CheckDetail"}
    BY <2>3, OneServiceMoves
  <2> QED
    BY <2>1, <2>2, <2>3
<1>3. ServicesSpec => [][Kept]_servicesVars
  BY <1>1, <1>2, PTL DEF ServicesSpec
<1> QED
  BY <1>3 DEF AnswersComeInTime

LoopsInv ==
    /\ part = "Retention" => RetentionInv
    /\ part = "Watchdog" => WatchdogInv

(***************************************************************************)
(* The purge leaves what a recovery still needs and nothing of before its  *)
(* window, no tick runs beside another, a shutdown waits for what was in   *)
(* flight, and outside is told only what is so (RetentionService,          *)
(* IntervalRunner, HealthController): for any number of outages, batches,  *)
(* callers and days, where no outage lasts longer than deliveries are      *)
(* kept, and where the first tick ends in the time after which the outside *)
(* takes the loop for stalled.                                             *)
(***************************************************************************)
THEOREM LoopsAreSoundForAll ==
    FirstTickEnds /\ LongestOutage <= DeliveryDays => (ServicesSpec => []LoopsAreSound)
<1> SUFFICES ASSUME FirstTickEnds, LongestOutage <= DeliveryDays PROVE ServicesSpec => []LoopsAreSound
  OBVIOUS
<1>1. LoopsInv => LoopsAreSound
  BY RetentionIsKept, WatchdogIsKept DEF LoopsInv, LoopsAreSound
<1>2. ServicesInit => LoopsInv
  BY ServicesBegin, RetentionInitially, WatchdogInitially DEF LoopsInv
<1>3. LoopsInv /\ [ServicesNext]_servicesVars => LoopsInv'
  <2> SUFFICES ASSUME LoopsInv, ServiceStep PROVE LoopsInv'
    BY DEF ServiceStep
  <2>1. (part = "Retention" => RetentionInv)'
    BY ClocksMove, RetentionStep DEF LoopsInv
  <2>2. (part = "Watchdog" => WatchdogInv)'
    BY ClocksMove, WatchdogStep DEF LoopsInv
  <2> QED
    BY <2>1, <2>2 DEF LoopsInv
<1> QED
  BY <1>1, <1>2, <1>3, PTL DEF ServicesSpec

RatesInv ==
    /\ part = "PingGate" => GateInv
    /\ part = "RateLimit" => RateInv
    /\ part = "Channels" => ChannelsInv

(***************************************************************************)
(* What is said of a rate holds at every moment and not only within one    *)
(* window: a key whose window is not evicted has no more than two budgets  *)
(* of requests let through in any stretch as long as a window, whoever     *)
(* waits as long as Retry-After says is let in, and the map of windows     *)
(* never outgrows its bound (RateLimiter); a channel is tested once per    *)
(* cooldown, and a person's tests of an hour exceed the budget by no more  *)
(* than those decided at once and those not recorded (ChannelsService);    *)
(* the lookups of a source for unknown keys are bounded, and turn away no  *)
(* job whose key is in the cache (PingRateGuard): for any number of keys,  *)
(* sources, visits and requests, and any limits.                           *)
(***************************************************************************)
THEOREM RatesHoldForAll == ServicesSpec => []RatesHold
<1>1. RatesInv => RatesHold
  BY GateIsKept, RateIsKept, ChannelsAreKept DEF RatesInv, RatesHold
<1>2. ServicesInit => RatesInv
  BY ServicesBegin, GateInitially, RateInitially, ChannelsInitially DEF RatesInv
<1>3. RatesInv /\ [ServicesNext]_servicesVars => RatesInv'
  <2> SUFFICES ASSUME RatesInv, ServiceStep PROVE RatesInv'
    BY DEF ServiceStep
  <2>1. (part = "PingGate" => GateInv)'
    BY ClocksMove, GateStep DEF RatesInv
  <2>2. (part = "RateLimit" => RateInv)'
    BY ClocksMove, RateStep DEF RatesInv
  <2>3. (part = "Channels" => ChannelsInv)'
    BY AlertsMove, ChannelsStep DEF RatesInv
  <2> QED
    BY <2>1, <2>2, <2>3 DEF RatesInv
<1> QED
  BY <1>1, <1>2, <1>3, PTL DEF ServicesSpec

ReadingsInv ==
    /\ part = "Audit" => AuditInv
    /\ part = "ChecksPage" => PageInv
    /\ part = "CheckDetail" => DetailInv
    /\ part = "Config" => ConfigInv

(***************************************************************************)
(* The journal read to its end while it is written has every entry that    *)
(* was there when the reading began, once and in order (AuditService); the *)
(* list of checks is of the project in the header, omits nothing silently  *)
(* and is not empty for nothing (checks.component.ts); a page that says it *)
(* is loading has an answer coming (check-detail.component.ts); a server   *)
(* that runs can do what its settings promise (loadConfig): for any number *)
(* of entries, checks, projects and answers. The hypotheses are those that *)
(* the code does not secure: that no check is deleted while it is the      *)
(* cursor of a load, and that SMTP_URL and BASE_URL, which the validation  *)
(* does not look into, are written as their readers expect.                *)
(***************************************************************************)
THEOREM NothingIsLeftOutForAll ==
    ~MayDeleteMidway /\ SmtpUrls = {"smtp"} /\ BaseUrls = {"origin"} => (ServicesSpec => []NothingIsLeftOut)
<1> SUFFICES ASSUME ~MayDeleteMidway, WritesAreTaken PROVE ServicesSpec => []NothingIsLeftOut
  BY DEF WritesAreTaken
<1>1. ReadingsInv => NothingIsLeftOut
  BY AuditIsKept, PageIsKept, ConfigIsKept DEF ReadingsInv, DetailInv, NothingIsLeftOut
<1>2. ServicesInit => ReadingsInv
  BY ServicesBegin, AuditInitially, PageInitially, DetailInitially, ConfigInitially DEF ReadingsInv
<1>3. ReadingsInv /\ [ServicesNext]_servicesVars => ReadingsInv'
  <2> SUFFICES ASSUME ReadingsInv, ServiceStep PROVE ReadingsInv'
    BY DEF ServiceStep
  <2>1. (part = "Audit" => AuditInv)'
    BY RestMoves, AuditStep DEF ReadingsInv
  <2>2. (part = "ChecksPage" => PageInv)'
    BY RestMoves, PageStep, ChecksPageAssumption DEF ReadingsInv
  <2>3. (part = "CheckDetail" => DetailInv)'
    BY RestMoves, DetailStep DEF ReadingsInv
  <2>4. (part = "Config" => ConfigInv)'
    BY RestMoves, ConfigStep DEF ReadingsInv
  <2> QED
    BY <2>1, <2>2, <2>3, <2>4 DEF ReadingsInv
<1> QED
  BY <1>1, <1>2, <1>3, PTL DEF ServicesSpec

-----------------------------------------------------------------------------
(***************************************************************************)
(* The types of all that, which hold whatever the hypotheses above say.    *)
(***************************************************************************)
\* A visit that has not begun asks for nothing.
IdleHasNoKey == \A v \in Visits : visit[v].pc = "idle" => visit[v].key \notin PingKeys

LEMMA IdleHasNoKeyStep ==
    ASSUME GateInv, IdleHasNoKey, [PingGateNext]_gateVars
    PROVE  IdleHasNoKey'
<1>t. visit \in [Visits -> VisitRows] /\ Idle.key \notin PingKeys
  BY PingGateAssumption DEF GateInv, GateTypes, Idle
<1>1. ASSUME NEW v \in Visits, NEW next, visit' = [visit EXCEPT ![v] = next],
             next.pc # "idle" \/ next.key \notin PingKeys
      PROVE  IdleHasNoKey'
  BY <1>1, <1>t DEF IdleHasNoKey
<1>2. ASSUME NEW v \in Visits, NEW key \in PingKeys, NEW source \in Sources, NEW path \in Paths, Arrive(v, key, source, path)
      PROVE  IdleHasNoKey'
  <2> DEFINE c == Calling(key, source)
             next == CASE KindOf(path) = "none" -> AnswerCall(c, "BAD REQUEST")
                       [] KindOf(path) # "none" /\ keyHits[key] = KeyLimit -> AnswerCall(c, "RATE LIMITED")
                       [] OTHER -> IF NextOf(key, source) = "throttled" THEN AnswerCall(c, Throttled)
                                   ELSE [c EXCEPT !.pc = NextOf(key, source)]
  <2>1. visit' = [visit EXCEPT ![v] = next]
    BY <1>2 DEF Arrive
  <2>2. c \in VisitRows /\ NextOf(key, source) \in {"write", "look", "throttled"}
    BY <1>2, CallingIs DEF NextOf
  <2>3. \A reply : AnswerCall(c, reply).pc = "answered"
    BY <2>2 DEF AnswerCall, VisitRows
  <2>4. \A pc : [c EXCEPT !.pc = pc].pc = pc
    BY <2>2 DEF VisitRows
  <2> HIDE DEF c
  <2>5. next.pc # "idle"
    BY <2>2, <2>3, <2>4
  <2> HIDE DEF next
  <2> QED
    BY <1>1, <2>1, <2>5
<1>3. ASSUME NEW v \in Visits, Find(v) PROVE IdleHasNoKey'
  <2> DEFINE asked == [visit[v] EXCEPT !.found = checkOf[visit[v].key]]
  <2>1. PICK next : next \in {AnswerCall(asked, "UNAVAILABLE"), AnswerCall(asked, "NOT FOUND"), [asked EXCEPT !.pc = "write"]}
                    /\ visit' = [visit EXCEPT ![v] = next]
    BY <1>3 DEF Find
  <2>2. DOMAIN asked = DOMAIN visit[v] /\ "pc" \in DOMAIN visit[v] /\ "reply" \in DOMAIN visit[v]
    BY <1>t DEF VisitRows
  <2> HIDE DEF asked
  <2>3. next.pc # "idle"
    BY <2>1, <2>2 DEF AnswerCall
  <2> QED
    BY <1>1, <2>1, <2>3
<1>4. ASSUME NEW v \in Visits, Write(v) PROVE IdleHasNoKey'
  <2> DEFINE next == CASE ~databaseUp -> AnswerCall(visit[v], "UNAVAILABLE")
                       [] databaseUp /\ checkOf[visit[v].key] = "live" -> [AnswerCall(visit[v], "OK") EXCEPT !.recorded = TRUE]
                       [] OTHER -> AnswerCall(visit[v], "PAUSED")
  <2>1. visit' = [visit EXCEPT ![v] = next]
    BY <1>4 DEF Write
  <2>2. \A reply \in Replies : AnswerCall(visit[v], reply).pc = "answered"
    BY <1>t, AnsweredIs
  <2>3. [AnswerCall(visit[v], "OK") EXCEPT !.recorded = TRUE].pc = "answered"
    <3> DEFINE ok == AnswerCall(visit[v], "OK")
    <3>1. ok \in VisitRows /\ ok.pc = "answered"
      BY <1>t, AnsweredIs DEF Replies
    <3> HIDE DEF ok
    <3> QED
      BY <3>1 DEF VisitRows, ok
  <2>4. {"UNAVAILABLE", "PAUSED"} \subseteq Replies
    BY DEF Replies
  <2>5. next.pc # "idle"
    BY <2>2, <2>3, <2>4
  <2> HIDE DEF next
  <2> QED
    BY <1>1, <2>1, <2>5
<1>5. ASSUME NEW v \in Visits, HangUp(v) PROVE IdleHasNoKey'
  BY <1>1, <1>5, <1>t DEF HangUp
<1>6. CASE UNCHANGED visit
  BY <1>6 DEF IdleHasNoKey
<1>7. CASE (\E key \in PingKeys : EntryExpires(key) \/ KeyWindowEnds(key) \/ \E state \in {"live", "paused", "gone"} : EditCheck(key, state))
           \/ (\E source \in Sources : SourceWindowEnds(source)) \/ DatabaseTurns \/ UNCHANGED gateVars
  BY <1>6, <1>7 DEF EntryExpires, KeyWindowEnds, EditCheck, SourceWindowEnds, DatabaseTurns, gateVars
<1> QED
  BY <1>2, <1>3, <1>4, <1>5, <1>7 DEF PingGateNext

LEMMA DatabaseIsUpOrDown ==
    ASSUME databaseUp \in BOOLEAN, [PingGateNext]_gateVars
    PROVE  databaseUp' \in BOOLEAN
BY DEF PingGateNext, Arrive, Find, Write, HangUp, EntryExpires, KeyWindowEnds, EditCheck, SourceWindowEnds,
       DatabaseTurns, gateVars

GateTypesInv == GateInv /\ IdleHasNoKey /\ databaseUp \in BOOLEAN

LEMMA GateTypesStep == ASSUME GateTypesInv, [PingGateNext]_gateVars PROVE GateTypesInv'
BY GateStep, IdleHasNoKeyStep, DatabaseIsUpOrDown DEF GateTypesInv

LEMMA GateTypesInitially == ASSUME PingGateInit PROVE GateTypesInv
<1>1. IdleHasNoKey /\ databaseUp \in BOOLEAN
  BY PingGateAssumption DEF PingGateInit, IdleHasNoKey, Idle
<1> QED
  BY <1>1, GateInitially DEF GateTypesInv

LEMMA GateTypesAre == ASSUME GateTypesInv PROVE PingGateTypeOK
<1>1. GateTypes /\ WastedLookupsAreBounded /\ databaseUp \in BOOLEAN
  BY GateIsKept DEF GateTypesInv, GateInv
<1>2. ASSUME NEW v \in Visits
      PROVE  /\ visit[v].pc \in {"idle", "look", "write", "answered"} /\ visit[v].reply \in Replies
             /\ visit[v].pc = "idle" <=> visit[v].key \notin PingKeys
  <2>1. visit[v] \in VisitRows /\ IsAnsweredTruly(visit[v])
    BY <1>1 DEF GateTypesInv, GateInv, GateTypes
  <2>2. visit[v].pc # "idle" => visit[v].key \in PingKeys
    BY <2>1 DEF IsAnsweredTruly
  <2> QED
    BY <2>1, <2>2 DEF VisitRows, GateTypesInv, IdleHasNoKey
<1>3. MostWasted \in Nat /\ \A s \in Sources : wasted[s] \in 0..MostWasted
  BY <1>1, FS_CardinalityType, PingGateAssumption DEF MostWasted, WastedLookupsAreBounded, GateTypes
<1>4. wasted \in [Sources -> 0..MostWasted]
  BY <1>1, <1>3 DEF GateTypes
<1> QED
  BY <1>1, <1>2, <1>4 DEF GateTypes, PingGateTypeOK

LEMMA ConfigTypesStep == ASSUME ConfigTypeOK, [ConfigNext]_configVars PROVE ConfigTypeOK'
<1>1. CASE StartServer \/ UNCHANGED configVars
  BY <1>1 DEF StartServer, configVars, ConfigTypeOK
<1>2. CASE Edit
  <2>1. server' = "down"
    BY <1>2 DEF Edit
  <2>2. DOMAIN env' = DOMAIN Minimal
    BY <1>2 DEF Edit
  <2> QED
    BY <2>1, <2>2 DEF ConfigTypeOK
<1> QED
  BY <1>1, <1>2 DEF ConfigNext

LEMMA ConfigTypesInitially == ASSUME ConfigInit PROVE ConfigTypeOK
BY DEF ConfigInit, ConfigTypeOK

LEMMA DetailTypesStep == ASSUME CheckDetailTypeOK, [CheckDetailNext]_detailVars PROVE CheckDetailTypeOK'
<1>t. /\ route \in Pages /\ display \in [PageParts -> Pages \cup {Nothing}]
      /\ busy \in BOOLEAN /\ failed \in BOOLEAN /\ gets \subseteq GetRows
      /\ acts \subseteq Pages /\ onRoute \in 0..GetLimit + 1 /\ visits \in 0..MaxVisits /\ sentActs \in 0..MaxActs
  BY DEF CheckDetailTypeOK, GetRows
<1>a. GetLimit \in Nat \ {0} /\ MaxVisits \in Nat /\ MaxActs \in Nat
  BY CheckDetailAssumption
<1> SUFFICES /\ route' \in Pages /\ display' \in [PageParts -> Pages \cup {Nothing}]
             /\ busy' \in BOOLEAN /\ failed' \in BOOLEAN /\ gets' \subseteq GetRows
             /\ acts' \subseteq Pages /\ onRoute' \in 0..GetLimit + 1 /\ visits' \in 0..MaxVisits /\ sentActs' \in 0..MaxActs
  BY DEF CheckDetailTypeOK, GetRows
<1>1. ASSUME NEW page \in Pages, GoTo(page) PROVE
             /\ route' \in Pages /\ onRoute' \in 0..GetLimit + 1 /\ visits' \in 0..MaxVisits /\ gets' \subseteq GetRows
             /\ busy' \in BOOLEAN /\ UNCHANGED <<display, failed, acts, sentActs>>
  BY <1>1, <1>a, <1>t, AskedAre DEF GoTo
<1>2. ASSUME NEW get \in gets, Arrives(get) \/ GetFails(get) PROVE
             /\ display' \in [PageParts -> Pages \cup {Nothing}] /\ gets' \subseteq GetRows
             /\ busy' \in BOOLEAN /\ failed' \in BOOLEAN /\ UNCHANGED <<route, acts, onRoute, visits, sentActs>>
  <2>1. get.what \in PageParts /\ get.of \in Pages
    BY <1>2, <1>t DEF GetRows
  <2> QED
    BY <1>2, <1>t, <2>1 DEF Arrives, GetFails
<1>3. CASE SendAct
  <2>1. display["check"] \in Pages
    BY <1>3, <1>t DEF SendAct, PageParts
  <2> QED
    BY <1>3, <1>a, <1>t, <2>1 DEF SendAct
<1>4. ASSUME NEW page \in Pages, ActAnswered(page) PROVE
             /\ display' \in [PageParts -> Pages \cup {Nothing}] /\ failed' \in BOOLEAN /\ acts' \subseteq Pages
             /\ UNCHANGED <<route, busy, gets, onRoute, visits, sentActs>>
  BY <1>4, <1>t DEF ActAnswered
<1>5. CASE RefreshTimer
  <2> DEFINE Older(get) == [get EXCEPT !.age = IF @ = GetLimit THEN @ ELSE @ + 1]
  <2>1. /\ gets' = {Older(get) : get \in gets} \cup Asked(route) /\ UNCHANGED <<route, display, busy, failed, acts, visits, sentActs>>
        /\ onRoute' = IF onRoute > GetLimit THEN onRoute ELSE onRoute + 1
    BY <1>5 DEF RefreshTimer
  <2>2. ASSUME NEW get \in gets PROVE Older(get) \in GetRows
    BY <1>a, <1>t, <2>2 DEF GetRows
  <2> HIDE DEF Older
  <2>3. gets' \subseteq GetRows
    BY <1>t, <2>1, <2>2, AskedAre
  <2>4. onRoute' \in 0..GetLimit + 1
    BY <1>a, <1>t, <2>1
  <2> QED
    BY <1>t, <2>1, <2>3, <2>4
<1>6. CASE UNCHANGED detailVars
  BY <1>6, <1>t DEF detailVars
<1> QED
  BY <1>1, <1>2, <1>3, <1>4, <1>5, <1>6, <1>t DEF CheckDetailNext

LEMMA DetailTypesInitially == ASSUME CheckDetailInit PROVE CheckDetailTypeOK
<1>1. gets \subseteq GetRows
  BY AskedAre DEF CheckDetailInit
<1>2. display \in [PageParts -> Pages \cup {Nothing}]
  BY DEF CheckDetailInit
<1>3. 0 \in 0..GetLimit + 1 /\ 0 \in 0..MaxVisits /\ 0 \in 0..MaxActs
  BY CheckDetailAssumption
<1>4. /\ route \in Pages /\ busy = TRUE /\ failed = FALSE /\ acts = {}
      /\ onRoute = 0 /\ visits = 0 /\ sentActs = 0
  BY DEF CheckDetailInit
<1> QED
  BY <1>1, <1>2, <1>3, <1>4 DEF CheckDetailTypeOK, GetRows

\* How far the numbers of a watchdog go: each tick that ended had begun, and what was
\* fetched or waited for is of the past.
WatchdogBounds ==
    /\ beat \in 0..MaxBeats /\ timerOn \in BOOLEAN /\ begun \in 0..MaxTicks
    /\ completed + Cardinality(flying) <= begun
    /\ \A d \in Flushers : flusher[d].calledAt <= begun /\ flusher[d].tick <= begun
    /\ fetching \in [since : NotYet..beat, success : NotYet..beat] /\ (fetching # NoFetch => fetching.since \in Nat)
    /\ heard \in NotYet..beat

WatchdogTypesInv == WatchdogInv /\ WatchdogBounds

LEMMA InFlightIs == ASSUME WatchdogInv PROVE Cardinality(flying) = IF current = 0 THEN 0 ELSE 1
BY FS_EmptySet, FS_Singleton DEF WatchdogInv

LEMMA WatchdogTypesAre == ASSUME WatchdogTypesInv PROVE WatchdogTypeOK
<1>t. /\ beat \in 0..MaxBeats /\ timerOn \in BOOLEAN /\ begun \in 0..MaxTicks /\ current \in 0..begun
      /\ completed \in Nat /\ lastSuccess \in NotYet..beat /\ completed + Cardinality(flying) <= begun
      /\ flying = (IF current = 0 THEN {} ELSE {current})
      /\ Cardinality(flying) = IF current = 0 THEN 0 ELSE 1
  BY InFlightIs DEF WatchdogTypesInv, WatchdogInv, WatchdogBounds
<1>1. MaxTicks \in Nat /\ MaxBeats \in Nat /\ NotYet = -1
  BY WatchdogAssumption DEF NotYet
<1>2. completed \in 0..begun /\ lastSuccess \in NotYet..MaxBeats /\ flying \subseteq 1..begun
  BY <1>1, <1>t
<1>3. heard \in NotYet..MaxBeats /\ fetching.since \in NotYet..MaxBeats
  BY <1>1, <1>t DEF WatchdogTypesInv, WatchdogBounds
<1>4. ASSUME NEW d \in Flushers
      PROVE  flusher[d] \in [pc : {"idle", "settling", "ready", "joined", "done"}, calledAt : 0..MaxTicks, tick : 0..MaxTicks]
  <2>1. flusher[d] \in FlusherRows /\ flusher[d].calledAt <= begun /\ flusher[d].tick <= begun
    BY <1>4 DEF WatchdogTypesInv, WatchdogInv, WatchdogBounds
  <2>2. flusher[d].calledAt \in 0..MaxTicks /\ flusher[d].tick \in 0..MaxTicks
    BY <1>1, <1>t, <2>1 DEF FlusherRows
  <2> QED
    BY <2>1, <2>2 DEF FlusherRows
<1>5. flusher \in [Flushers -> [pc : {"idle", "settling", "ready", "joined", "done"}, calledAt : 0..MaxTicks, tick : 0..MaxTicks]]
  BY <1>4 DEF WatchdogTypesInv, WatchdogInv
<1> QED
  BY <1>t, <1>2, <1>3, <1>5 DEF WatchdogTypeOK

LEMMA WatchdogTypesInitially == ASSUME WatchdogInit PROVE WatchdogTypesInv
<1>1. WatchdogInv
  BY WatchdogInitially
<1>2. WatchdogBounds
  <2>1. fetching \in [since : NotYet..beat, success : NotYet..beat]
    BY DEF WatchdogInit, NoFetch, NotYet
  <2> QED
    BY <2>1, FS_EmptySet, WatchdogAssumption DEF WatchdogInit, WatchdogBounds, IdleFlusher, NotYet
<1> QED
  BY <1>1, <1>2 DEF WatchdogTypesInv

LEMMA WatchdogTypesStep == ASSUME WatchdogTypesInv, [WatchdogNext]_watchdogVars PROVE WatchdogTypesInv'
<1>1. WatchdogInv /\ WatchdogInv'
  BY WatchdogStep DEF WatchdogTypesInv
<1>t. /\ beat \in 0..MaxBeats /\ timerOn \in BOOLEAN /\ begun \in 0..MaxTicks /\ current \in 0..begun
      /\ completed \in Nat /\ lastSuccess \in NotYet..beat
      /\ completed + (IF current = 0 THEN 0 ELSE 1) <= begun
      /\ flying = (IF current = 0 THEN {} ELSE {current})
      /\ flusher \in [Flushers -> FlusherRows]
      /\ \A d \in Flushers : flusher[d].calledAt <= begun /\ flusher[d].tick <= begun
      /\ fetching \in [since : NotYet..beat, success : NotYet..beat] /\ (fetching # NoFetch => fetching.since \in Nat)
      /\ fetching # NoFetch => fetching.success \in Nat
      /\ heard \in NotYet..beat
  BY InFlightIs DEF WatchdogTypesInv, WatchdogInv, WatchdogBounds
<1>a. MaxTicks \in Nat /\ MaxBeats \in Nat /\ NotYet = -1
  BY WatchdogAssumption DEF NotYet
<1>f. \A d \in Flushers : flusher[d].calledAt \in Nat /\ flusher[d].tick \in Nat
  BY <1>t DEF FlusherRows
<1> SUFFICES /\ beat' \in 0..MaxBeats /\ timerOn' \in BOOLEAN /\ begun' \in 0..MaxTicks
             /\ completed' + (IF current' = 0 THEN 0 ELSE 1) <= begun'
             /\ \A d \in Flushers : flusher'[d].calledAt <= begun' /\ flusher'[d].tick <= begun'
             /\ fetching' \in [since : NotYet..beat', success : NotYet..beat'] /\ (fetching' # NoFetch => fetching'.since \in Nat)
             /\ heard' \in NotYet..beat'
  <2>1. Cardinality(flying') = IF current' = 0 THEN 0 ELSE 1
    BY <1>1, FS_EmptySet, FS_Singleton DEF WatchdogInv
  <2> QED
    BY <1>1, <2>1 DEF WatchdogTypesInv, WatchdogBounds
<1>r. ASSUME Run PROVE /\ begun' \in 0..MaxTicks /\ begun <= begun' /\ current' \in 0..begun'
                       /\ completed + (IF current' = 0 THEN 0 ELSE 1) <= begun'
  BY <1>a, <1>r, <1>t DEF Run, Joined
<1>2. CASE TimerFires
  <2>1. Run /\ UNCHANGED <<beat, timerOn, completed, lastSuccess, flusher, fetching, heard>>
    BY <1>2 DEF TimerFires
  <2> QED
    BY <1>f, <1>r, <1>t, <2>1
<1>3. ASSUME NEW t \in flying, NEW well \in BOOLEAN, TickEnds(t, well)
      PROVE  /\ UNCHANGED <<beat, timerOn, begun, fetching, heard>>
             /\ completed' + (IF current' = 0 THEN 0 ELSE 1) <= begun'
             /\ \A d \in Flushers : flusher'[d].calledAt <= begun' /\ flusher'[d].tick <= begun'
  <2>1. /\ current' = 0 /\ completed' = (IF well THEN completed + 1 ELSE completed)
        /\ UNCHANGED <<beat, timerOn, begun, fetching, heard>>
    BY <1>3 DEF TickEnds
  <2>2. ASSUME NEW d \in Flushers PROVE flusher'[d].calledAt = flusher[d].calledAt /\ flusher'[d].tick = flusher[d].tick
    BY <1>3, <1>t, <2>2 DEF TickEnds, FlusherRows
  <2> QED
    BY <1>3, <1>t, <2>1, <2>2
<1>4. ASSUME NEW d \in Flushers, CallFlush(d) \/ SettleReturns(d)
      PROVE  /\ UNCHANGED <<beat, timerOn, current, begun, completed, fetching, heard>>
             /\ \A f \in Flushers : flusher'[f].calledAt <= begun' /\ flusher'[f].tick <= begun'
  <2>1. UNCHANGED <<beat, timerOn, current, begun, completed, fetching, heard>>
    BY <1>4 DEF CallFlush, SettleReturns
  <2>2. ASSUME NEW f \in Flushers PROVE flusher'[f].calledAt <= begun /\ flusher'[f].tick <= begun
    BY <1>4, <1>t, <2>2 DEF CallFlush, SettleReturns, FlusherRows
  <2> QED
    BY <2>1, <2>2
<1>5. ASSUME NEW d \in Flushers, Flush(d)
      PROVE  /\ UNCHANGED <<beat, timerOn, completed, fetching, heard>> /\ Run
             /\ \A f \in Flushers : flusher'[f].calledAt <= begun' /\ flusher'[f].tick <= begun'
  <2>1. Run /\ UNCHANGED <<beat, timerOn, completed, fetching, heard>>
        /\ flusher' = [flusher EXCEPT ![d].pc = "joined", ![d].tick = current']
    BY <1>5 DEF Flush
  <2>2. begun <= begun' /\ current' \in 0..begun' /\ begun' \in Nat /\ begun \in Nat
    BY <1>r, <1>t, <2>1
  <2>3. ASSUME NEW f \in Flushers
        PROVE  flusher'[f].calledAt = flusher[f].calledAt /\ flusher'[f].tick \in {flusher[f].tick, current'}
    BY <1>t, <2>1, <2>3 DEF FlusherRows
  <2> QED
    BY <1>f, <1>t, <2>1, <2>2, <2>3
<1>6. CASE StopTimer
  BY <1>6, <1>t DEF StopTimer
<1>7. CASE SendBeat
  <2>1. fetching' = [since |-> beat, success |-> lastSuccess] /\ UNCHANGED <<beat, timerOn, current, begun, completed, flusher, heard>>
    BY <1>7 DEF SendBeat
  <2>2. fetching' \in [since : NotYet..beat, success : NotYet..beat] /\ fetching'.since \in Nat
    BY <1>a, <1>t, <2>1
  <2> QED
    BY <1>t, <2>1, <2>2
<1>8. ASSUME NEW arrives \in BOOLEAN, BeatEnds(arrives)
      PROVE  /\ UNCHANGED <<beat, timerOn, current, begun, completed, flusher>>
             /\ fetching' \in [since : NotYet..beat, success : NotYet..beat] /\ fetching' = NoFetch
             /\ heard' \in NotYet..beat
  <2>1. /\ fetching # NoFetch /\ fetching' = NoFetch /\ heard' = (IF arrives THEN beat - fetching.success ELSE heard)
        /\ UNCHANGED <<beat, timerOn, current, begun, completed, flusher>>
    BY <1>8 DEF BeatEnds
  <2>2. fetching.success \in 0..beat /\ beat \in Nat
    BY <1>a, <1>t, <2>1
  <2>3. NoFetch \in [since : NotYet..beat, success : NotYet..beat]
    BY <1>a, <2>2 DEF NoFetch
  <2> QED
    BY <1>a, <1>t, <2>1, <2>2, <2>3
<1>9. CASE BeatPasses
  <2>1. /\ beat < MaxBeats /\ beat' = beat + 1
        /\ UNCHANGED <<timerOn, current, flying, begun, completed, lastSuccess, flusher, fetching, heard>>
    BY <1>9 DEF BeatPasses
  <2>2. beat' \in 0..MaxBeats /\ \A n \in NotYet..beat : n \in NotYet..beat'
    BY <1>a, <1>t, <2>1
  <2> QED
    BY <1>t, <2>1, <2>2
<1>10. CASE UNCHANGED watchdogVars
  BY <1>10, <1>t DEF watchdogVars
<1> QED
  BY <1>2, <1>3, <1>4, <1>5, <1>6, <1>7, <1>8, <1>9, <1>10, <1>r, <1>t DEF WatchdogNext

LEMMA SendingTypesAre == ASSUME SendingInv PROVE SendingTypeOK
BY DEF SendingInv, SendingTypeOK, DeliveryRows, DeliverySteps, Targets

RetentionTypes ==
    /\ day \in 0..LastDay /\ setting \in Settings /\ cap \in Caps /\ pings \subseteq 0..LastDay
    /\ outages \in [Outages -> OutageRows] /\ pass \in PassRows /\ whole \in BOOLEAN

\* A change of one field, which is what the statements are made of.
LEMMA OutageField ==
    ASSUME NEW o \in OutageRows
    PROVE  /\ \A down \in Deliveries : [o EXCEPT !.down = down] \in OutageRows /\ [o EXCEPT !.down = down].up = o.up
           /\ \A up \in Deliveries : [o EXCEPT !.up = up] \in OutageRows
           /\ \A told \in BOOLEAN : [o EXCEPT !.told = told] \in OutageRows
           /\ \A state \in {"none", "there", "purged"} : [o EXCEPT !.state = state] \in OutageRows
           /\ \A d \in 0..LastDay : [o EXCEPT !.started = d] \in OutageRows /\ [o EXCEPT !.resolved = d] \in OutageRows
           /\ o.down \in Deliveries /\ o.up \in Deliveries
BY DEF OutageRows

LEMMA PassTypes ==
    ASSUME RetentionTypes, NEW S, IsFiniteSet(S), NEW rows \in SUBSET S, NEW after \in Stages, NextStage(Cardinality(rows), after)
    PROVE  pass' \in PassRows /\ whole' \in BOOLEAN
<1>1. Cardinality(rows) \in Nat
  BY FS_Subset, FS_CardinalityType
<1> QED
  BY <1>1, PassGoesOn DEF RetentionTypes

LEMMA RetentionTypesStep == ASSUME RetentionTypes, [RetentionNext]_retentionVars PROVE RetentionTypes'
<1>t. /\ day \in 0..LastDay /\ setting \in Settings /\ cap \in Caps /\ pings \subseteq 0..LastDay
      /\ outages \in [Outages -> OutageRows] /\ pass \in PassRows /\ whole \in BOOLEAN
  BY DEF RetentionTypes
<1>s. {"pings", "incidents", "deliveries", "rest"} \subseteq Stages
  BY DEF Stages
<1>m. ASSUME NEW i \in Outages, NEW one \in OutageRows, outages' = [outages EXCEPT ![i] = one]
      PROVE  outages' \in [Outages -> OutageRows]
  BY <1>m, <1>t
<1>e. ASSUME NEW next, outages' = [i \in Outages |-> next[i]], \A i \in Outages : next[i] \in OutageRows
      PROVE  outages' \in [Outages -> OutageRows]
  BY <1>e
<1>1. CASE StartPass
  <2>1. [stage |-> "pings", batch |-> 0, began |-> day] \in PassRows
    BY <1>s, <1>t, RetentionAssumption DEF PassRows
  <2> QED
    BY <1>1, <1>t, <2>1 DEF StartPass, RetentionTypes
<1>2. CASE PurgePings
  <2> DEFINE doomed == {d \in pings : Overdue(d, KeptDays)}
  <2>1. PICK rows \in SUBSET doomed : pings' = pings \ rows /\ NextStage(Cardinality(rows), "incidents")
    BY <1>2 DEF PurgePings
  <2>2. doomed \in SUBSET (0..LastDay)
    BY <1>t
  <2>2a. 0 \in Int /\ LastDay \in Int
    BY RetentionAssumption
  <2>3. IsFiniteSet(doomed)
    BY <2>2, <2>2a, FS_Interval, FS_Subset
  <2> HIDE DEF doomed
  <2>4. pass' \in PassRows /\ whole' \in BOOLEAN
    BY <1>s, <2>1, <2>3, PassTypes
  <2>5. UNCHANGED <<day, setting, cap, outages>>
    BY <1>2 DEF PurgePings
  <2> QED
    BY <1>t, <2>1, <2>4, <2>5 DEF RetentionTypes
<1>3. CASE PurgeIncidents
  <2>1. PICK rows \in SUBSET DoomedOutages :
            /\ outages' = [i \in Outages |-> IF i \in rows THEN [outages[i] EXCEPT !.state = "purged", !.down = NoDelivery,
                                                                                  !.up = NoDelivery] ELSE outages[i]]
            /\ NextStage(Cardinality(rows), "deliveries")
    BY <1>3 DEF PurgeIncidents
  <2>2. IsFiniteSet(DoomedOutages)
    BY FS_Subset, RetentionAssumption DEF DoomedOutages
  <2>3. pass' \in PassRows /\ whole' \in BOOLEAN
    BY <1>s, <2>1, <2>2, PassTypes
  <2>4. ASSUME NEW i \in Outages PROVE outages'[i] \in OutageRows
    <3>1. CASE i \in rows
      <4>1. outages'[i] = Purged(outages[i]) /\ outages[i] \in OutageRows /\ outages[i].resolved # Open
        BY <1>t, <2>1, <2>4, <3>1 DEF Purged, DoomedOutages
      <4> QED
        BY <4>1, PurgedIs
    <3>2. CASE i \notin rows
      BY <1>t, <2>1, <2>4, <3>2
    <3> QED
      BY <3>1, <3>2
  <2>5. outages' = [i \in Outages |-> outages'[i]]
    BY <2>1
  <2>6. outages' \in [Outages -> OutageRows]
    BY <2>4, <2>5
  <2>7. UNCHANGED <<day, setting, cap, pings>>
    BY <1>3 DEF PurgeIncidents
  <2> QED
    BY <1>t, <2>3, <2>6, <2>7 DEF RetentionTypes
<1>4. CASE PurgeDeliveries
  <2>1. /\ outages' = [i \in Outages |-> [outages[i] EXCEPT !.down = IF Finished(@) THEN NoDelivery ELSE @,
                                                            !.up = IF Finished(@) THEN NoDelivery ELSE @]]
        /\ pass' = [pass EXCEPT !.stage = "rest"]
        /\ UNCHANGED <<day, setting, cap, pings, whole>>
    BY <1>4 DEF PurgeDeliveries
  <2>2. ASSUME NEW i \in Outages PROVE outages'[i] \in OutageRows
    <3> DEFINE o == outages[i]
               down == IF Finished(o.down) THEN NoDelivery ELSE o.down
               up == IF Finished(o.up) THEN NoDelivery ELSE o.up
               v1 == [o EXCEPT !.down = down]
    <3>1. o \in OutageRows
      BY <1>t, <2>2
    <3>2. outages'[i] = [v1 EXCEPT !.up = up]
      BY <1>t, <2>1, <2>2 DEF OutageRows
    <3> HIDE DEF o
    <3>3. down \in Deliveries /\ up \in Deliveries
      BY <3>1, OutageField, NoOutageIs
    <3> HIDE DEF down, up
    <3>4. v1 \in OutageRows
      BY <3>1, <3>3, OutageField
    <3> HIDE DEF v1
    <3> QED
      BY <3>2, <3>3, <3>4, OutageField
  <2>3. outages' = [i \in Outages |-> outages'[i]]
    BY <2>1
  <2>4. outages' \in [Outages -> OutageRows]
    BY <2>2, <2>3
  <2>5. pass' \in PassRows
    BY <1>s, <1>t, <2>1 DEF PassRows
  <2> QED
    BY <1>t, <2>1, <2>4, <2>5 DEF RetentionTypes
<1>5. CASE PurgeRest \/ PurgeFails
  BY <1>5, <1>t, NoPassIs DEF PurgeRest, PurgeFails, RetentionTypes
<1>6. CASE PingArrives
  BY <1>6, <1>t DEF PingArrives, RetentionTypes
<1>7. ASSUME NEW i \in Outages, OutageStarts(i) PROVE RetentionTypes'
  <2> DEFINE pending == [status |-> "pending", created |-> day]
             v1 == [NoOutage EXCEPT !.state = "there"]
             v2 == [v1 EXCEPT !.started = day]
             one == [v2 EXCEPT !.down = pending]
  <2>1. outages' = [outages EXCEPT ![i] = one] /\ UNCHANGED <<day, setting, cap, pings, pass, whole>>
    BY <1>7 DEF OutageStarts
  <2>2. pending \in Deliveries
    BY <1>t DEF Deliveries
  <2> HIDE DEF pending
  <2>3. v1 \in OutageRows
    BY NoOutageIs, OutageField
  <2> HIDE DEF v1
  <2>4. v2 \in OutageRows
    BY <1>t, <2>3, OutageField
  <2> HIDE DEF v2
  <2>5. one \in OutageRows
    BY <2>2, <2>4, OutageField
  <2> HIDE DEF one
  <2> QED
    BY <1>7, <1>m, <1>t, <2>1, <2>5 DEF RetentionTypes
<1>8. ASSUME NEW i \in Outages, NEW status \in {"sent", "failed"}, DownIsSent(i, status) PROVE RetentionTypes'
  <2> DEFINE o == outages[i]
             told == status = "sent" /\ o.resolved = Open
             down == [o.down EXCEPT !.status = status]
             v1 == [o EXCEPT !.down = down]
             one == [v1 EXCEPT !.told = told]
  <2>1. o \in OutageRows /\ told \in BOOLEAN
    BY <1>8, <1>t
  <2>2. outages' = [outages EXCEPT ![i] = one] /\ UNCHANGED <<day, setting, cap, pings, pass, whole>>
    BY <1>8, <1>t DEF DownIsSent
  <2> HIDE DEF o, told
  <2>3. down \in Deliveries
    BY <1>8, <2>1 DEF OutageRows, Deliveries
  <2> HIDE DEF down
  <2>4. v1 \in OutageRows
    BY <2>1, <2>3, OutageField
  <2> HIDE DEF v1
  <2>5. one \in OutageRows
    BY <2>1, <2>4, OutageField
  <2> HIDE DEF one
  <2> QED
    BY <1>8, <1>m, <1>t, <2>2, <2>5 DEF RetentionTypes
<1>9. ASSUME NEW i \in Outages, OutageEnds(i) PROVE RetentionTypes'
  <2> DEFINE o == outages[i]
             up == IF o.down.status = "sent" THEN [status |-> "pending", created |-> day] ELSE NoDelivery
             v1 == [o EXCEPT !.resolved = day]
             one == [v1 EXCEPT !.up = up]
  <2>1. o \in OutageRows
    BY <1>9, <1>t
  <2>2. outages' = [outages EXCEPT ![i] = one] /\ UNCHANGED <<day, setting, cap, pings, pass, whole>>
    BY <1>9, <1>t DEF OutageEnds
  <2>3. up \in Deliveries
    BY <1>t, NoOutageIs DEF Deliveries
  <2> HIDE DEF o, up
  <2>4. v1 \in OutageRows
    BY <1>t, <2>1, OutageField
  <2> HIDE DEF v1
  <2>5. one \in OutageRows
    BY <2>3, <2>4, OutageField
  <2> HIDE DEF one
  <2> QED
    BY <1>9, <1>m, <1>t, <2>2, <2>5 DEF RetentionTypes
<1>10. ASSUME NEW i \in Outages, UpIsSent(i) PROVE RetentionTypes'
  <2> DEFINE o == outages[i]
             up == [o.up EXCEPT !.status = "sent"]
             v1 == [o EXCEPT !.up = up]
             one == [v1 EXCEPT !.told = FALSE]
  <2>1. o \in OutageRows
    BY <1>10, <1>t
  <2>2. outages' = [outages EXCEPT ![i] = one] /\ UNCHANGED <<day, setting, cap, pings, pass, whole>>
    BY <1>10, <1>t DEF UpIsSent
  <2> HIDE DEF o
  <2>3. up \in Deliveries
    BY <2>1 DEF OutageRows, Deliveries
  <2> HIDE DEF up
  <2>4. v1 \in OutageRows
    BY <2>1, <2>3, OutageField
  <2> HIDE DEF v1
  <2>5. one \in OutageRows
    BY <2>4, OutageField
  <2> HIDE DEF one
  <2> QED
    BY <1>10, <1>m, <1>t, <2>2, <2>5 DEF RetentionTypes
<1>11. CASE Reconfigure
  BY <1>11, <1>t DEF Reconfigure, RetentionTypes
<1>12. CASE DayPasses
  <2>1. day < LastDay /\ day' = day + 1 /\ UNCHANGED <<setting, cap, pings, outages, pass, whole>>
    BY <1>12 DEF DayPasses
  <2>2. day' \in 0..LastDay
    BY <1>t, <2>1, RetentionAssumption
  <2> QED
    BY <1>t, <2>1, <2>2 DEF RetentionTypes
<1>13. CASE UNCHANGED retentionVars
  BY <1>13, <1>t DEF retentionVars, RetentionTypes
<1> QED
  BY <1>1, <1>2, <1>3, <1>4, <1>5, <1>6, <1>7, <1>8, <1>9, <1>10, <1>11, <1>12, <1>13 DEF RetentionNext

LEMMA RetentionTypesInitially == ASSUME RetentionInit PROVE RetentionTypes
BY RetentionInitially DEF RetentionInv, RetentionTypes

LEMMA RetentionTypesAre == ASSUME RetentionTypes PROVE RetentionTypeOK
<1>1. PassRows \subseteq [stage : Stages, batch : 0..MaxBatch, began : 0..LastDay]
  BY RetentionAssumption DEF PassRows
<1> QED
  BY <1>1 DEF RetentionTypes, RetentionTypeOK, OutageRows

-----------------------------------------------------------------------------
(***************************************************************************)
(* The limiter's map: of two windows one was opened first.                 *)
(***************************************************************************)
MapTypesInv ==
    /\ RateInv /\ moment \in 0..MaxMoment
    /\ \A j, k \in Tracked : j # k => (<<j, k>> \in precedes <=> <<k, j>> \notin precedes)

LEMMA MapTypesStep == MapTypesInv /\ [RateLimitNext]_rateVars => MapTypesInv'
<1> SUFFICES ASSUME MapTypesInv, [RateLimitNext]_rateVars PROVE MapTypesInv'
  OBVIOUS
<1>t. /\ RateInv /\ RateInv' /\ moment \in 0..MaxMoment /\ MaxMoment \in Nat
      /\ \A j, k \in Tracked : j # k => (<<j, k>> \in precedes <=> <<k, j>> \notin precedes)
  BY RateStep, RateLimitAssumption DEF MapTypesInv
<1>w. windows \in [ClientKeys -> WindowRows]
  BY <1>t DEF RateInv
<1>1. ASSUME NEW k \in ClientKeys, OpenWindow(k) PROVE MapTypesInv'
  <2>1. PICK held \in SUBSET Tracked :
            /\ windows' = [j \in ClientKeys |-> IF j = k THEN [count |-> 1, resetAt |-> moment + WindowSpan]
                                                ELSE IF j \in held THEN windows[j] ELSE NoWindow]
            /\ precedes' = {pair \in precedes : {pair[1], pair[2]} \subseteq held \ {k}} \cup ((held \ {k}) \X {k})
            /\ moment' = moment
    BY <1>1 DEF OpenWindow
  <2>2. Tracked' \in SUBSET (held \cup {k})
    BY <2>1, NoWindowIs DEF Tracked
  <2>3. ASSUME NEW i \in Tracked', NEW j \in Tracked', i # j
        PROVE  <<i, j>> \in precedes' <=> <<j, i>> \notin precedes'
    <3>1. CASE i # k /\ j # k
      <4>1. i \in held \ {k} /\ j \in held \ {k} /\ i \in Tracked /\ j \in Tracked
        BY <2>2, <2>3, <3>1
      <4>2. (<<i, j>> \in precedes' <=> <<i, j>> \in precedes) /\ (<<j, i>> \in precedes' <=> <<j, i>> \in precedes)
        BY <2>1, <3>1, <4>1
      <4> QED
        BY <1>t, <2>3, <4>1, <4>2
    <3>2. CASE i = k
      <4>1. j \in held \ {k}
        BY <2>2, <2>3, <3>2
      <4> QED
        BY <2>1, <3>2, <4>1
    <3>3. CASE j = k
      <4>1. i \in held \ {k}
        BY <2>2, <2>3, <3>3
      <4> QED
        BY <2>1, <3>3, <4>1
    <3> QED
      BY <3>1, <3>2, <3>3
  <2> QED
    BY <1>t, <2>1, <2>3 DEF MapTypesInv
<1>s. ASSUME Tracked' = Tracked, precedes' = precedes, moment' \in 0..MaxMoment PROVE MapTypesInv'
  BY <1>s, <1>t DEF MapTypesInv
<1>2. ASSUME NEW k \in ClientKeys, Count(k) PROVE MapTypesInv'
  <2>1. windows' = [windows EXCEPT ![k].count = @ + 1] /\ UNCHANGED <<precedes, moment>> /\ windows[k].resetAt > moment
    BY <1>2 DEF Count, InWindow
  <2>2. windows[k].count > 0 /\ windows[k] \in WindowRows
    <3>1. KeyIsRight(windows[k], passed[k], promised[k], moment) /\ windows[k] \in WindowRows
      BY <1>t, <1>w DEF RateInv
    <3> QED
      BY <1>t, <2>1, <3>1, RateLimitAssumption DEF KeyIsRight, WindowRows
  <2>3. \A j \in ClientKeys : windows'[j].count > 0 <=> windows[j].count > 0
    BY <1>w, <2>1, <2>2 DEF WindowRows
  <2>4. Tracked' = Tracked
    BY <2>3 DEF Tracked
  <2> QED
    BY <1>s, <1>t, <2>1, <2>4
<1>3. ASSUME NEW k \in ClientKeys, Refuse(k) PROVE MapTypesInv'
  BY <1>3, <1>s, <1>t DEF Refuse, Tracked
<1>4. CASE MomentPasses
  BY <1>4, <1>s, <1>t DEF MomentPasses, Tracked
<1>5. CASE UNCHANGED rateVars
  BY <1>5, <1>s, <1>t DEF rateVars, Tracked
<1> QED
  BY <1>1, <1>2, <1>3, <1>4, <1>5 DEF RateLimitNext

LEMMA MapTypesInitially == RateLimitInit => MapTypesInv
<1> SUFFICES ASSUME RateLimitInit PROVE MapTypesInv
  OBVIOUS
<1>1. Tracked = {}
  BY NoWindowIs DEF RateLimitInit, Tracked
<1>2. moment \in 0..MaxMoment
  BY RateLimitAssumption DEF RateLimitInit
<1> QED
  BY <1>1, <1>2, RateInitially DEF MapTypesInv

LEMMA MapTypesAre == MapTypesInv => RateLimitTypeOK
<1> SUFFICES ASSUME MapTypesInv PROVE RateLimitTypeOK
  OBVIOUS
<1>t. /\ moment \in 0..MaxMoment /\ MaxMoment \in Nat /\ WindowSpan \in Nat /\ HitLimit \in Nat
      /\ \A j, k \in Tracked : j # k => (<<j, k>> \in precedes <=> <<k, j>> \notin precedes)
      /\ promised \in [ClientKeys -> Nat]
  BY RateLimitAssumption DEF MapTypesInv, RateInv
<1>1. ASSUME NEW k \in ClientKeys
      PROVE  /\ windows[k] \in WindowRows /\ windows[k].count \in 0..HitLimit
             /\ windows[k].resetAt \in 0..(MaxMoment + WindowSpan) /\ (windows[k].count = 0 => windows[k].resetAt = 0)
  <2>1. windows[k] \in WindowRows /\ KeyIsRight(windows[k], passed[k], promised[k], moment)
    BY DEF MapTypesInv, RateInv
  <2> QED
    BY <1>t, <2>1 DEF WindowRows, KeyIsRight
<1>2. ASSUME NEW k \in Tracked
      PROVE  windows[k].count \in 1..HitLimit /\ windows[k].resetAt \in 0..(MaxMoment + WindowSpan)
  <2>1. k \in ClientKeys /\ windows[k].count > 0
    BY DEF Tracked
  <2> QED
    BY <1>1, <1>t, <2>1
<1>3. ASSUME NEW k \in ClientKeys \ Tracked PROVE windows[k] = NoWindow
  <2>1. ~(windows[k].count > 0)
    BY DEF Tracked
  <2>2. windows[k].count = 0 /\ windows[k].resetAt = 0 /\ windows[k] \in WindowRows
    BY <1>1, <1>t, <2>1
  <2> QED
    BY <2>2 DEF NoWindow, WindowRows
<1> QED
  BY <1>2, <1>3, <1>t DEF RateLimitTypeOK

-----------------------------------------------------------------------------
(***************************************************************************)
(* The record: each event gets at most one number, and the addresses in    *)
(* memory are never more than one above the bound they are cleared at.     *)
(***************************************************************************)
Unnumbered == {w \in Writes : writing[w].pc \in {"none", "resolve", "insert"}}

AuditTypesInv ==
    /\ AuditInv
    /\ emails \in SUBSET People /\ IsFiniteSet(emails) /\ Cardinality(emails) <= MaxKnown + 1
    /\ accounts \in SUBSET People /\ auditDay \in 0..LastAuditDay
    /\ \A e \in trail : e.list \in Lists /\ e.day \in 0..LastAuditDay
    /\ eventIds + Cardinality(Unnumbered) <= Cardinality(Writes)

LEMMA UnnumberedIs ==
    /\ IsFiniteSet(Unnumbered) /\ Cardinality(Unnumbered) \in Nat /\ Cardinality(Writes) \in Nat
    /\ Cardinality(Unnumbered) <= Cardinality(Writes)
<1>1. IsFiniteSet(Writes) /\ Unnumbered \in SUBSET Writes
  BY AuditAssumption DEF Unnumbered
<1> QED
  BY <1>1, FS_Subset, FS_CardinalityType

LEMMA AuditTypesStep == AuditTypesInv /\ [AuditNext]_auditVars => AuditTypesInv'
<1> SUFFICES ASSUME AuditTypesInv, [AuditNext]_auditVars PROVE AuditTypesInv'
  OBVIOUS
<1>t. /\ AuditInv /\ AuditInv' /\ eventIds \in Nat /\ eventIds' \in Nat
      /\ emails \in SUBSET People /\ IsFiniteSet(emails) /\ Cardinality(emails) <= MaxKnown + 1
      /\ accounts \in SUBSET People /\ auditDay \in 0..LastAuditDay
      /\ (\A e \in trail : e.list \in Lists /\ e.day \in 0..LastAuditDay)
      /\ eventIds + Cardinality(Unnumbered) <= Cardinality(Writes)
      /\ writing \in [Writes -> WritingRows] /\ MaxKnown \in Nat /\ LastAuditDay \in Nat
  BY AuditStep, AuditAssumption DEF AuditTypesInv, AuditInv
\* An event that is not given its number leaves the count of those that have one.
<1>u. ASSUME NEW w \in Writes, NEW one, writing' = [writing EXCEPT ![w] = one], eventIds' = eventIds,
             writing[w].pc \in {"none", "resolve", "insert"} \/ one.pc \notin {"none", "resolve", "insert"}
      PROVE  eventIds' + Cardinality(Unnumbered') <= Cardinality(Writes)
  <2>1. Unnumbered' \in SUBSET Unnumbered
    BY <1>t, <1>u DEF Unnumbered
  <2>2. Cardinality(Unnumbered') <= Cardinality(Unnumbered) /\ Cardinality(Unnumbered') \in Nat
    BY <2>1, FS_Subset, FS_CardinalityType, UnnumberedIs
  <2> QED
    BY <1>t, <1>u, <2>2, UnnumberedIs
<1>1. ASSUME NEW w \in Writes, NEW who \in People, NEW list \in Lists, NEW given \in BOOLEAN, Record(w, who, list, given)
      PROVE  AuditTypesInv'
  <2>1. /\ writing[w].pc = "none" /\ UNCHANGED <<eventIds, trail, emails, accounts, auditDay>>
        /\ \E one : writing' = [writing EXCEPT ![w] = one]
    BY <1>1 DEF Record
  <2>2. eventIds' + Cardinality(Unnumbered') <= Cardinality(Writes)
    BY <1>u, <2>1
  <2> QED
    BY <1>t, <2>1, <2>2 DEF AuditTypesInv
<1>2. ASSUME NEW w \in Writes, ResolveEmail(w) PROVE AuditTypesInv'
  <2> DEFINE who == writing[w].who
             before == IF Cardinality(emails) > MaxKnown THEN {} ELSE emails
             one == [writing[w] EXCEPT !.pc = "insert"]
  <2>1. /\ writing[w].pc = "resolve" /\ UNCHANGED <<eventIds, trail, accounts, auditDay>>
        /\ writing' = [writing EXCEPT ![w] = one]
        /\ emails' = emails \/ emails' = before \cup {who}
    BY <1>2 DEF ResolveEmail
  <2>2. who \in People
    BY <1>t, <2>1 DEF WritingRows, NotWritten
  <2> HIDE DEF one, who
  <2>3. eventIds' + Cardinality(Unnumbered') <= Cardinality(Writes)
    BY <1>u, <2>1
  <2>4. before \in SUBSET People /\ IsFiniteSet(before) /\ Cardinality(before) \in Nat /\ Cardinality(before) <= MaxKnown
    <3>1. CASE Cardinality(emails) > MaxKnown
      <4>1. before = {}
        BY <3>1
      <4> QED
        BY <1>t, <4>1, FS_EmptySet
    <3>2. CASE ~(Cardinality(emails) > MaxKnown)
      <4>1. before = emails
        BY <3>2
      <4>2. Cardinality(emails) \in Nat
        BY <1>t, FS_CardinalityType
      <4> HIDE DEF before
      <4> QED
        BY <1>t, <3>2, <4>1, <4>2
    <3> QED
      BY <3>1, <3>2
  <2> HIDE DEF before
  <2>5. IsFiniteSet(before \cup {who}) /\ Cardinality(before \cup {who}) \in {Cardinality(before), Cardinality(before) + 1}
    BY <2>4, FS_AddElement
  <2>6. Cardinality(before \cup {who}) <= MaxKnown + 1
    BY <1>t, <2>4, <2>5
  <2>7. emails' \in SUBSET People /\ IsFiniteSet(emails') /\ Cardinality(emails') <= MaxKnown + 1
    BY <1>t, <2>1, <2>2, <2>4, <2>5, <2>6
  <2> QED
    BY <1>t, <2>1, <2>3, <2>7 DEF AuditTypesInv
<1>3. ASSUME NEW w \in Writes, InsertEvent(w) PROVE AuditTypesInv'
  <2>1. /\ writing[w].pc = "insert" /\ UNCHANGED <<trail, emails, accounts, auditDay>> /\ eventIds' = eventIds + 1
        /\ writing' = [writing EXCEPT ![w].pc = "commit", ![w].id = eventIds + 1]
    BY <1>3 DEF InsertEvent
  <2>2. writing[w] \in [pc : {"resolve", "insert", "commit"}, who : People, list : Lists, id : Nat]
    BY <1>t, <2>1 DEF WritingRows, NotWritten
  <2>3. writing'[w].pc = "commit" /\ \A v \in Writes : v # w => writing'[v] = writing[v]
    BY <1>t, <2>1, <2>2
  <2>4. Unnumbered' \in SUBSET (Unnumbered \ {w}) /\ w \in Unnumbered
    BY <2>1, <2>3 DEF Unnumbered
  <2>5. IsFiniteSet(Unnumbered \ {w}) /\ Cardinality(Unnumbered \ {w}) = Cardinality(Unnumbered) - 1
    BY <2>4, UnnumberedIs, FS_RemoveElement
  <2>6. Cardinality(Unnumbered') <= Cardinality(Unnumbered \ {w}) /\ Cardinality(Unnumbered') \in Nat
    BY <2>4, <2>5, FS_Subset, FS_CardinalityType
  <2>7. eventIds' + Cardinality(Unnumbered') <= Cardinality(Writes)
    BY <1>t, <2>1, <2>5, <2>6, UnnumberedIs
  <2> QED
    BY <1>t, <2>1, <2>7 DEF AuditTypesInv
<1>4. ASSUME NEW w \in Writes, CommitEvent(w) PROVE AuditTypesInv'
  <2> DEFINE e == [id |-> writing[w].id, list |-> writing[w].list, day |-> auditDay]
             gone == [pc |-> "gone"]
  <2>1. /\ writing[w].pc = "commit" /\ trail' = trail \cup {e} /\ UNCHANGED <<eventIds, emails, accounts, auditDay>>
        /\ writing' = [writing EXCEPT ![w] = gone]
    BY <1>4 DEF CommitEvent
  <2>2. gone.pc \notin {"none", "resolve", "insert"}
    OBVIOUS
  <2>3. writing[w].list \in Lists
    BY <1>t, <2>1 DEF WritingRows, NotWritten
  <2>4. e.list \in Lists /\ e.day \in 0..LastAuditDay
    BY <1>t, <2>3
  <2> HIDE DEF e, gone
  <2>5. eventIds' + Cardinality(Unnumbered') <= Cardinality(Writes)
    BY <1>u, <2>1, <2>2
  <2>6. \A f \in trail' : f.list \in Lists /\ f.day \in 0..LastAuditDay
    BY <1>t, <2>1, <2>4
  <2> QED
    BY <1>t, <2>1, <2>5, <2>6 DEF AuditTypesInv
<1>5. ASSUME NEW w \in Writes, WriteFails(w) PROVE AuditTypesInv'
  <2> DEFINE gone == [pc |-> "gone"]
  <2>1. UNCHANGED <<eventIds, trail, emails, accounts, auditDay>> /\ writing' = [writing EXCEPT ![w] = gone]
    BY <1>5 DEF WriteFails
  <2>2. gone.pc \notin {"none", "resolve", "insert"}
    OBVIOUS
  <2> HIDE DEF gone
  <2>3. eventIds' + Cardinality(Unnumbered') <= Cardinality(Writes)
    BY <1>u, <2>1, <2>2
  <2> QED
    BY <1>t, <2>1, <2>3 DEF AuditTypesInv
<1>6. ASSUME UNCHANGED <<writing, eventIds, emails>>, trail' \in SUBSET trail, accounts' \in SUBSET accounts,
             auditDay' \in 0..LastAuditDay
      PROVE  AuditTypesInv'
  <2>1. Unnumbered' = Unnumbered
    BY <1>6 DEF Unnumbered
  <2> QED
    BY <1>6, <1>t, <2>1 DEF AuditTypesInv
<1>7. ASSUME NEW who \in People, DeletePerson(who) PROVE AuditTypesInv'
  BY <1>6, <1>7, <1>t DEF DeletePerson
<1>8. ASSUME NEW list \in Lists, BeginReading(list) PROVE AuditTypesInv'
  BY <1>6, <1>8, <1>t DEF BeginReading
<1>9. CASE ReadPage
  BY <1>6, <1>9, <1>t DEF ReadPage
<1>10. CASE PurgeEvents
  BY <1>6, <1>10, <1>t DEF PurgeEvents
<1>11. CASE AuditDayPasses
  BY <1>6, <1>11, <1>t DEF AuditDayPasses
<1>12. CASE UNCHANGED auditVars
  BY <1>6, <1>12, <1>t DEF auditVars
<1> QED
  BY <1>1, <1>2, <1>3, <1>4, <1>5, <1>7, <1>8, <1>9, <1>10, <1>11, <1>12 DEF AuditNext

LEMMA AuditTypesInitially == AuditInit => AuditTypesInv
<1> SUFFICES ASSUME AuditInit PROVE AuditTypesInv
  OBVIOUS
<1>1. /\ eventIds = 0 /\ trail = {} /\ emails = {} /\ accounts = People /\ auditDay = 0
      /\ MaxKnown \in Nat /\ LastAuditDay \in Nat
  BY AuditAssumption DEF AuditInit
<1>2. IsFiniteSet(emails) /\ Cardinality(emails) = 0
  BY <1>1, FS_EmptySet
<1>3. eventIds + Cardinality(Unnumbered) <= Cardinality(Writes)
  BY <1>1, UnnumberedIs
<1> QED
  BY <1>1, <1>2, <1>3, AuditInitially DEF AuditTypesInv

LEMMA AuditTypesAre == AuditTypesInv => AuditTypeOK
<1> SUFFICES ASSUME AuditTypesInv PROVE AuditTypeOK
  OBVIOUS
<1>1. /\ writing \in [Writes -> WritingRows] /\ eventIds \in Nat /\ reading \in ReadingRows
      /\ \A e \in trail : e.id \in 1..eventIds
  BY DEF AuditTypesInv, AuditInv
<1>2. \A w \in Writes : writing[w].pc \in {"none", "resolve", "insert", "commit", "gone"}
  BY <1>1 DEF WritingRows, NotWritten
<1>3. eventIds \in 0..Cardinality(Writes)
  BY <1>1, UnnumberedIs DEF AuditTypesInv
<1>4. reading.pc \in {"idle", "reading", "done"}
  BY <1>1 DEF ReadingRows
<1> QED
  BY <1>1, <1>2, <1>3, <1>4 DEF AuditTypeOK, AuditTypesInv

-----------------------------------------------------------------------------
(***************************************************************************)
(* The page of the checks, wherever checks are deleted from.               *)
(***************************************************************************)
PageTypesInv ==
    /\ checks \in [Shown -> SUBSET Numbers] /\ store \in StoreRows /\ load \in LoadRows /\ table \in TableRows
    /\ notice \in NoticeRows /\ load.pages <= ListPages /\ table.page <= LastCheck
    /\ load.on => load.project \in Shown

LEMMA StartsAnew ==
    ASSUME NEW l, NEW project \in Shown, NEW there, l \in LoadRows,
           l = StartOver(project) \/ l = [StartOver(project) EXCEPT !.there = there]
    PROVE  l.pages = 0
<1>1. StartOver(project).pages = 0
  BY DEF StartOver, NoLoad
<1>2. [StartOver(project) EXCEPT !.there = there].pages = 0
  BY DEF StartOver, NoLoad
<1> QED
  BY <1>1, <1>2

LEMMA PageHasNumbers ==
    ASSUME PageTypesInv, load.on,
           NEW rows, rows = RowsAfter(load.project, load.cursor), NEW items, items = load.items \o ListPage(rows)
    PROVE  items \in Seq(Numbers) /\ (HasAnother(rows) => Last(items) \in Nat)
<1> DEFINE page == ListPage(rows)
           have == checks[load.project]
<1>1. /\ load.items \in Seq(Numbers) /\ have \in SUBSET Numbers /\ ListLimit \in Nat \ {0}
      /\ Numbers \in SUBSET Nat /\ IsFiniteSet(Numbers)
  BY ChecksPageAssumption, NumbersAre DEF PageTypesInv, LoadRows
<1>2. rows = CASE load.cursor = 0 -> have [] load.cursor \in have -> {c \in have : c < load.cursor} [] OTHER -> {}
  BY DEF RowsAfter
<1> HIDE DEF have
<1>3. rows \in SUBSET have
  <2>1. CASE load.cursor = 0 /\ load.cursor \notin have
    BY <1>2, <2>1
  <2>2. CASE load.cursor # 0 /\ load.cursor \in have
    BY <1>2, <2>2
  <2>3. CASE load.cursor = 0 /\ load.cursor \in have
    <3>1. 0 \notin have
      BY <1>1, NumbersAre
    <3> QED
      BY <2>3, <3>1
  <2>4. CASE load.cursor # 0 /\ load.cursor \notin have
    BY <1>2, <2>4
  <2> QED
    BY <2>1, <2>2, <2>3, <2>4
<1>4. rows \in SUBSET Nat /\ IsFiniteSet(rows) /\ rows \in SUBSET Numbers
  BY <1>1, <1>3, FS_Subset
<1>5. page = LatestOf(rows, ListLimit)
  BY DEF ListPage, HasAnother, LaterFirst, LatestOf, Descending
<1>6. IsLatest(page, rows, ListLimit)
  BY <1>1, <1>4, <1>5, PageIs
<1> HIDE DEF page
<1>7. page \in Seq(rows) /\ (HasAnother(rows) => Len(page) = ListLimit /\ page[Len(page)] \in rows)
  BY <1>6 DEF IsLatest, HasAnother
<1>8. page \in Seq(Nat) /\ page \in Seq(Numbers) /\ load.items \in Seq(Nat)
  BY <1>1, <1>4, <1>7, SeqMonotonic
<1>9. items = load.items \o page
  BY DEF page
<1>10. items \in Seq(Numbers)
  BY <1>1, <1>8, <1>9, ConcatProperties
<1>11. HasAnother(rows) => Last(items) \in Nat
  <2> SUFFICES ASSUME HasAnother(rows) PROVE Last(items) \in Nat
    OBVIOUS
  <2>1. Len(page) > 0 /\ page[Len(page)] \in Nat
    BY <1>1, <1>4, <1>7
  <2> QED
    BY <1>8, <1>9, <2>1, LastOfAppended
<1> QED
  BY <1>10, <1>11

LEMMA ProjectsKeepTypes ==
    ASSUME PageTypesInv, NEW s \in StoreRows, WithProjects(s), UNCHANGED <<checks, table, notice>>
    PROVE  PageTypesInv'
<1>1. store' = s
  BY DEF WithProjects
<1>2. CASE SelectedIn(s) \in {Selected, NothingSelected}
  <2>1. load' = load
    BY <1>2 DEF WithProjects
  <2> QED
    BY <1>1, <2>1 DEF PageTypesInv
<1>3. CASE SelectedIn(s) \notin {Selected, NothingSelected}
  <2>1. SelectedIn(s) \in Shown
    BY <1>3, SelectedIsShown
  <2>2. load' = StartOver(SelectedIn(s))
    BY <1>3 DEF WithProjects
  <2>3. load' \in LoadRows /\ load'.project = SelectedIn(s)
    BY <2>1, <2>2, StartOverIs DEF PageTypesInv, Begins
  <2>4. load'.pages = 0
    BY <2>1, <2>2, <2>3, StartsAnew
  <2> QED
    BY <1>1, <2>1, <2>3, <2>4, ChecksPageAssumption DEF PageTypesInv
<1> QED
  BY <1>2, <1>3

LEMMA PageTypesStep == PageTypesInv /\ [ChecksPageNext]_pageVars => PageTypesInv'
<1> SUFFICES ASSUME PageTypesInv, [ChecksPageNext]_pageVars PROVE PageTypesInv'
  OBVIOUS
<1> USE DEF NothingSelected
<1>t. /\ checks \in [Shown -> SUBSET Numbers] /\ store \in StoreRows /\ load \in LoadRows /\ table \in TableRows
      /\ notice \in NoticeRows /\ load.pages <= ListPages /\ table.page <= LastCheck
      /\ load.on => load.project \in Shown
  BY DEF PageTypesInv
<1>b. table.page \in Nat /\ table.page <= LastCheck /\ load.pages \in Nat
  <2>1. table.page \in Nat
    BY <1>t DEF TableRows
  <2>2. load.pages \in Nat
    BY <1>t DEF LoadRows
  <2> QED
    BY <1>t, <2>1, <2>2
<1>c. ListPages \in Nat /\ LastCheck \in Nat
  BY ChecksPageAssumption
<1>z. \A x : x = 0 => x <= LastCheck
  BY <1>c
<1>n. NoLoad \in LoadRows /\ ~NoLoad.on /\ NoLoad.pages <= ListPages
  BY <1>c, NoLoadIs DEF NoLoad
<1>1. CASE LoadProjects
  <2>1. store' = [store EXCEPT !.loading = TRUE] /\ UNCHANGED <<checks, load, table, notice>>
    BY <1>1 DEF LoadProjects
  <2>2. store' \in StoreRows
    BY <1>t, <2>1 DEF StoreRows
  <2> QED
    BY <1>t, <2>1, <2>2 DEF PageTypesInv
<1>2. CASE Refresh
  <2>1. load' = StartOver(Selected) /\ Selected # NothingSelected /\ UNCHANGED <<checks, store, table, notice>>
    BY <1>2 DEF Refresh
  <2>2. Selected \in Shown
    BY <1>t, <2>1, SelectedIsShown DEF Selected
  <2>3. load' \in LoadRows /\ load'.project = Selected
    BY <1>t, <2>1, <2>2, StartOverIs DEF Begins
  <2>4. load'.pages = 0
    BY <2>1, <2>2, <2>3, StartsAnew
  <2> QED
    BY <1>c, <1>t, <2>1, <2>2, <2>3, <2>4 DEF PageTypesInv
<1>3. ASSUME NEW c \in Numbers, CreateCheck(c) PROVE PageTypesInv'
  <2>1. /\ checks' = [checks EXCEPT ![Selected] = @ \cup {c}] /\ Selected # NothingSelected
        /\ load' = [StartOver(Selected) EXCEPT !.there = checks'[Selected]] /\ UNCHANGED <<store, table, notice>>
    BY <1>3 DEF CreateCheck
  <2>2. Selected \in Shown
    BY <1>t, <2>1, SelectedIsShown DEF Selected
  <2>3. checks' \in [Shown -> SUBSET Numbers] /\ checks'[Selected] \in SUBSET Numbers
    BY <1>3, <1>t, <2>1, <2>2
  <2>4. load' \in LoadRows /\ load'.project = Selected
    BY <1>t, <2>1, <2>2, <2>3, StartOverIs DEF Begins
  <2>5. load'.pages = 0
    BY <2>1, <2>2, <2>4, StartsAnew
  <2> QED
    BY <1>c, <1>t, <2>1, <2>2, <2>3, <2>4, <2>5 DEF PageTypesInv
<1>4. CASE PageArrives
  <2> DEFINE rows == RowsAfter(load.project, load.cursor)
             items == load.items \o ListPage(rows)
             more == HasAnother(rows)
             last == ~more \/ load.pages + 1 >= ListPages
             page == IF EffectiveEnvironment(ToSet(items), table.environment)
                        = EffectiveEnvironment(ToSet(table.rows), table.environment) THEN table.page ELSE 0
  <2>1. load.on /\ UNCHANGED <<checks, store>>
    BY <1>4 DEF PageArrives
  <2>2. items \in Seq(Numbers) /\ (more => Last(items) \in Nat)
    BY <2>1, PageHasNumbers
  <2>3. CASE last
    <3>1. /\ load' = NoLoad
          /\ table' = [table EXCEPT !.project = load.project, !.rows = items, !.page = page]
          /\ notice' = [cut |-> more, failed |-> FALSE, there |-> load.there]
      BY <1>4, <2>3 DEF PageArrives, Cut
    <3>2. page \in Nat /\ page <= LastCheck
      <4>1. page \in {table.page, 0}
        OBVIOUS
      <4> HIDE DEF page
      <4> QED
        BY <1>b, <1>c, <4>1
    <3>3. more \in BOOLEAN
      BY DEF HasAnother
    <3> HIDE DEF page, items, rows, more
    <3> DEFINE v1 == [table EXCEPT !.project = load.project]
               v2 == [v1 EXCEPT !.rows = items]
    <3>4. table' = [v2 EXCEPT !.page = page]
      BY <3>1
    <3>5. v1 \in TableRows
      BY <1>t, <2>1 DEF TableRows, ProjectsShown
    <3> HIDE DEF v1
    <3>6. v2 \in TableRows
      BY <2>2, <3>5 DEF TableRows
    <3> HIDE DEF v2
    <3>7. table' \in TableRows /\ table'.page <= LastCheck
      BY <3>2, <3>4, <3>6 DEF TableRows
    <3>8. notice' \in NoticeRows
      BY <1>t, <3>1, <3>3 DEF NoticeRows, LoadRows
    <3> QED
      BY <1>n, <1>t, <2>1, <3>1, <3>7, <3>8 DEF PageTypesInv
  <2>4. CASE ~last
    <3>1. /\ load' = [load EXCEPT !.pages = @ + 1, !.items = items, !.cursor = Last(items)]
          /\ UNCHANGED <<table, notice>> /\ more /\ ~(load.pages + 1 >= ListPages)
      BY <1>4, <2>4 DEF PageArrives
    <3> HIDE DEF items, rows, more
    <3> DEFINE v1 == [load EXCEPT !.pages = @ + 1]
               v2 == [v1 EXCEPT !.items = items]
    <3>2. load' = [v2 EXCEPT !.cursor = Last(items)]
      BY <3>1
    <3>3. v1 \in LoadRows /\ v1.project = load.project /\ v1.pages <= ListPages
      BY <1>c, <1>t, <3>1 DEF LoadRows
    <3> HIDE DEF v1
    <3>4. v2 \in LoadRows /\ v2.project = load.project /\ v2.pages <= ListPages
      BY <2>2, <3>3 DEF LoadRows
    <3> HIDE DEF v2
    <3>5. load' \in LoadRows /\ load'.project = load.project /\ load'.pages <= ListPages
      BY <2>2, <3>1, <3>2, <3>4 DEF LoadRows
    <3> QED
      BY <1>t, <2>1, <3>1, <3>5 DEF PageTypesInv
  <2> QED
    BY <2>3, <2>4
<1>5. CASE LoadFails
  <2>1. load' = NoLoad /\ notice' = [notice EXCEPT !.failed = TRUE] /\ UNCHANGED <<checks, store, table>>
    BY <1>5 DEF LoadFails
  <2>2. notice' \in NoticeRows
    BY <1>t, <2>1 DEF NoticeRows
  <2> QED
    BY <1>n, <1>t, <2>1, <2>2 DEF PageTypesInv
<1>6. ASSUME NEW answered \in BOOLEAN, ProjectsArrive(answered) PROVE PageTypesInv'
  <2> DEFINE all == IF answered THEN Shown ELSE store.all
             v1 == [store EXCEPT !.loading = FALSE]
             s == [v1 EXCEPT !.all = all]
  <2>1. WithProjects(s) /\ UNCHANGED <<checks, table, notice>>
    BY <1>t, <1>6 DEF ProjectsArrive, StoreRows
  <2>2. all \in SUBSET Shown
    BY <1>t DEF StoreRows
  <2>3. v1 \in StoreRows
    BY <1>t DEF StoreRows
  <2> HIDE DEF v1, all
  <2>4. s \in StoreRows
    BY <2>2, <2>3 DEF StoreRows
  <2> HIDE DEF s
  <2> QED
    BY <2>1, <2>4, ProjectsKeepTypes
<1>7. ASSUME NEW p \in Shown, SelectProject(p) PROVE PageTypesInv'
  <2> DEFINE s == [store EXCEPT !.chosen = p]
  <2>1. WithProjects(s) /\ UNCHANGED <<checks, table, notice>>
    BY <1>7 DEF SelectProject
  <2>2. s \in StoreRows
    BY <1>t, <1>7 DEF StoreRows, ProjectsShown
  <2> HIDE DEF s
  <2> QED
    BY <2>1, <2>2, ProjectsKeepTypes
<1>8. ASSUME NEW p \in Shown, RemoveShown(p) PROVE PageTypesInv'
  <2> DEFINE chosen == IF store.chosen = p THEN NothingSelected ELSE store.chosen
             v1 == [store EXCEPT !.all = @ \ {p}]
             s == [v1 EXCEPT !.chosen = chosen]
  <2>1. WithProjects(s) /\ UNCHANGED <<checks, table, notice>>
    BY <1>t, <1>8 DEF RemoveShown, StoreRows
  <2>2. chosen \in ProjectsShown
    BY <1>t DEF StoreRows, ProjectsShown
  <2>3. v1 \in StoreRows
    BY <1>t DEF StoreRows
  <2> HIDE DEF v1, chosen
  <2>4. s \in StoreRows
    BY <2>2, <2>3 DEF StoreRows
  <2> HIDE DEF s
  <2> QED
    BY <2>1, <2>4, ProjectsKeepTypes
<1>9. ASSUME NEW p \in Shown, AddProject(p) PROVE PageTypesInv'
  <2> DEFINE s == [store EXCEPT !.all = @ \cup {p}]
  <2>1. WithProjects(s) /\ UNCHANGED <<checks, table, notice>>
    BY <1>9 DEF AddProject
  <2>2. s \in StoreRows
    BY <1>t, <1>9 DEF StoreRows
  <2> HIDE DEF s
  <2> QED
    BY <2>1, <2>2, ProjectsKeepTypes
<1>10. ASSUME NEW p \in Shown, NEW c \in Numbers, CheckGoes(p, c) PROVE PageTypesInv'
  <2> DEFINE l == IF load.project = p THEN load.there \ {c} ELSE load.there
             n == IF table.project = p THEN notice.there \ {c} ELSE notice.there
  <2>1. /\ checks' = [checks EXCEPT ![p] = @ \ {c}] /\ load' = [load EXCEPT !.there = l]
        /\ notice' = [notice EXCEPT !.there = n] /\ UNCHANGED <<store, table>>
    BY <1>10 DEF CheckGoes
  <2>2. l \in SUBSET load.there /\ n \in SUBSET notice.there
    OBVIOUS
  <2> HIDE DEF l, n
  <2>3. /\ checks' \in [Shown -> SUBSET Numbers] /\ notice' \in NoticeRows
        /\ load' \in LoadRows /\ load'.on = load.on /\ load'.project = load.project /\ load'.pages = load.pages
    BY <1>t, <2>1, <2>2 DEF LoadRows, NoticeRows
  <2> QED
    BY <1>t, <2>1, <2>3 DEF PageTypesInv
<1>11. ASSUME NEW state \in {"", "DOWN"}, NEW environment \in {AllEnvironments, NoEnvironment, "production"},
              FilterBy(state, environment)
       PROVE  PageTypesInv'
  <2> DEFINE v1 == [table EXCEPT !.state = state]
             v2 == [v1 EXCEPT !.environment = environment]
  <2>1. table' = [v2 EXCEPT !.page = 0] /\ UNCHANGED <<checks, store, load, notice>>
    BY <1>11 DEF FilterBy
  <2>2. v1 \in TableRows
    BY <1>t, <1>11 DEF TableRows
  <2> HIDE DEF v1
  <2>3. v2 \in TableRows
    BY <1>11, <2>2 DEF TableRows
  <2> HIDE DEF v2
  <2>4. table' \in TableRows
    BY <2>1, <2>3 DEF TableRows
  <2>5. table'.page = 0
    BY <2>1, <2>3 DEF TableRows
  <2> QED
    BY <1>z, <1>t, <2>1, <2>4, <2>5, Zenon DEF PageTypesInv
<1>12. ASSUME NEW page \in 0..(LastCheck - 1), TurnTo(page) PROVE PageTypesInv'
  <2>1. table' = [table EXCEPT !.page = page] /\ UNCHANGED <<checks, store, load, notice>>
    BY <1>12 DEF TurnTo
  <2>2. page \in Nat /\ page <= LastCheck
    BY <1>c, <1>12
  <2>3. table' \in TableRows /\ table'.page <= LastCheck
    BY <1>t, <2>1, <2>2 DEF TableRows
  <2> QED
    BY <1>t, <2>1, <2>3 DEF PageTypesInv
<1>13. CASE UNCHANGED pageVars
  BY <1>13, <1>t DEF pageVars, PageTypesInv
<1> QED
  BY <1>1, <1>2, <1>3, <1>4, <1>5, <1>6, <1>7, <1>8, <1>9, <1>10, <1>11, <1>12, <1>13 DEF ChecksPageNext, Numbers

LEMMA PageTypesInitially == ChecksPageInit => PageTypesInv
<1> SUFFICES ASSUME ChecksPageInit PROVE PageTypesInv
  OBVIOUS
<1>1. load = NoLoad /\ table = EmptyTable /\ PageInv /\ ListPages \in Nat /\ LastCheck \in Nat
  BY PageInitially, ChecksPageAssumption DEF ChecksPageInit
<1>2. ~load.on /\ load.pages = 0 /\ table.page = 0
  BY <1>1 DEF NoLoad, EmptyTable
<1> QED
  BY <1>1, <1>2 DEF PageTypesInv, PageInv

LEMMA PageTypesAre == PageTypesInv => ChecksPageTypeOK
<1> SUFFICES ASSUME PageTypesInv PROVE ChecksPageTypeOK
  OBVIOUS
<1>1. /\ checks \in [Shown -> SUBSET Numbers] /\ store \in StoreRows /\ load \in LoadRows /\ table \in TableRows
      /\ notice \in NoticeRows /\ load.pages <= ListPages /\ table.page <= LastCheck
      /\ ListPages \in Nat /\ LastCheck \in Nat
  BY ChecksPageAssumption DEF PageTypesInv
<1>2. (\A p \in Shown : checks[p] \subseteq 1..LastCheck) /\ store.all \subseteq Shown
      /\ store.chosen \in Shown \cup {NothingSelected} /\ notice.cut \in BOOLEAN /\ notice.failed \in BOOLEAN
  BY <1>1 DEF StoreRows, NoticeRows, ProjectsShown, Numbers
<1>3. load.on \in BOOLEAN /\ load.pages \in 0..ListPages /\ table.page \in 0..LastCheck
  <2>1. load.on \in BOOLEAN /\ load.pages \in Nat
    BY <1>1 DEF LoadRows
  <2>2. table.page \in Nat
    BY <1>1 DEF TableRows
  <2> QED
    BY <1>1, <2>1, <2>2
<1>4. ToSet(load.items) \subseteq 1..LastCheck /\ ToSet(table.rows) \subseteq 1..LastCheck
  <2>1. ASSUME NEW s \in Seq(Numbers) PROVE ToSet(s) \subseteq 1..LastCheck
    <3>1. DOMAIN s = 1..Len(s) /\ \A i \in 1..Len(s) : s[i] \in Numbers
      BY LenProperties, ElementOfSeq
    <3> QED
      BY <3>1 DEF ToSet, Numbers
  <2> QED
    BY <1>1, <2>1 DEF LoadRows, TableRows
<1> QED
  BY <1>2, <1>3, <1>4 DEF ChecksPageTypeOK

-----------------------------------------------------------------------------
(***************************************************************************)
(* The session of the page, however long signing in takes.                 *)
(***************************************************************************)
Screens == {"login", "signing in", "codes", "application"}
Restores == {"none", "guard", "login", "dialog", "left"}
Dialogs == {"closed", "open", "signing in"}

WebTypesInv ==
    /\ cookie \in Sessions /\ live \in SUBSET Accounts /\ me \in Accounts \cup {Nobody}
    /\ screen \in Screens /\ restore \in Restores /\ dialog \in Dialogs /\ req \in [Calls -> CallRows]

LEMMA WebTypesStep == WebTypesInv /\ [WebSessionNext]_webVars => WebTypesInv'
<1> SUFFICES ASSUME WebTypesInv, [WebSessionNext]_webVars PROVE WebTypesInv'
  OBVIOUS
<1>t. /\ cookie \in Sessions /\ live \in SUBSET Accounts /\ me \in Accounts \cup {Nobody}
      /\ screen \in Screens /\ restore \in Restores /\ dialog \in Dialogs /\ req \in [Calls -> CallRows]
  BY DEF WebTypesInv
<1>n. NoSession \in Sessions
  BY DEF NoSession, Sessions
\* The dialog stays, or closes over what is held.
<1>d. ASSUME NEW after \in [Calls -> CallRows], Dismissed(after) \/ (req' = after /\ UNCHANGED <<dialog, restore>>)
      PROVE  req' \in [Calls -> CallRows] /\ dialog' \in Dialogs /\ restore' \in Restores
  <2>1. CASE Dismissed(after)
    <3>1. req' = CloseDialog(after, FALSE) /\ dialog' = "closed" /\ restore' \in {restore, "left"}
      BY <2>1 DEF Dismissed
    <3>2. req' \in [Calls -> CallRows]
      BY <3>1, DialogIsDeclined DEF EndsAs
    <3> QED
      BY <1>t, <3>1, <3>2 DEF Dialogs, Restores
  <2>2. CASE req' = after /\ UNCHANGED <<dialog, restore>>
    BY <1>d, <1>t, <2>2
  <2> QED
    BY <1>d, <2>1, <2>2
<1>e. ASSUME NEW r \in Calls, NEW pc \in CallSteps PROVE EndOf(r, pc) \in [Calls -> CallRows]
  BY <1>t, EndOfACall DEF IsAStep
<1>1. ASSUME NEW who \in Accounts, SignInAs(who) \/ SignInAgain(who) \/ SessionEnds(who) PROVE WebTypesInv'
  <2>1. [who |-> who, fresh |-> TRUE] \in Sessions
    BY <1>1 DEF Sessions
  <2> QED
    BY <1>1, <1>t, <2>1 DEF SignInAs, SignInAgain, SessionEnds, WebTypesInv, Screens, Restores, Dialogs
<1>2. CASE ContinueToApp \/ Visit \/ SessionAges \/ UNCHANGED webVars
  <2>1. [cookie EXCEPT !.fresh = FALSE] \in Sessions
    BY <1>t DEF Sessions
  <2> QED
    BY <1>2, <1>t, <2>1 DEF ContinueToApp, Visit, SessionAges, webVars, WebTypesInv, Screens, Restores
<1>3. CASE Decline
  BY <1>3, <1>d, <1>t DEF Decline, WebTypesInv
<1>4. ASSUME NEW answered \in BOOLEAN, Restored(answered) PROVE WebTypesInv'
  <2> DEFINE known == IF answered /\ cookie.who \in live THEN cookie.who ELSE Nobody
  <2>1. known \in Accounts \cup {Nobody}
    BY <1>t DEF Sessions
  <2>2. restore' = "none" /\ me' = known /\ UNCHANGED <<cookie, live>>
    BY <1>4 DEF Restored
  <2>3. screen' \in {screen, "login", "codes", "application"}
    BY <1>4 DEF Restored
  <2>4. /\ dialog' \in {dialog, "closed", "open"}
        /\ req' \in {req, CloseDialog(req, FALSE), CloseDialog(req, TRUE)}
    BY <1>4 DEF Restored
  <2> HIDE DEF known
  <2>5. req' \in [Calls -> CallRows]
    <3>1. CASE req' = CloseDialog(req, FALSE)
      BY <1>t, <3>1, DialogIsDeclined DEF EndsAs
    <3>2. CASE req' = CloseDialog(req, TRUE)
      BY <1>t, <3>2, DialogIsConfirmed DEF EndsAs
    <3> QED
      BY <1>t, <2>4, <3>1, <3>2
  <2>6. screen' \in Screens /\ dialog' \in Dialogs /\ restore' \in Restores
    BY <1>t, <2>2, <2>3, <2>4 DEF Screens, Dialogs, Restores
  <2> QED
    BY <1>t, <2>1, <2>2, <2>5, <2>6 DEF WebTypesInv
<1>5. ASSUME NEW arrives \in BOOLEAN, Logout(arrives) PROVE WebTypesInv'
  <2>1. /\ UNCHANGED <<req, dialog, restore>> /\ me' = Nobody /\ screen' = "login" /\ cookie' \in {cookie, NoSession}
        /\ live' \in SUBSET live
    BY <1>5 DEF Logout
  <2> QED
    BY <1>n, <1>t, <2>1 DEF WebTypesInv, Screens
<1>6. ASSUME NEW r \in Calls, NEW kind \in Kinds, Ask(r, kind) PROVE WebTypesInv'
  <2> DEFINE v1 == [NoRequest EXCEPT !.pc = "sent"]
             v2 == [v1 EXCEPT !.kind = kind]
             v3 == [v2 EXCEPT !.asked = me]
             v4 == [v3 EXCEPT !.as = cookie]
  <2>1. req' = [req EXCEPT ![r] = v4] /\ UNCHANGED <<cookie, live, me, screen, restore, dialog>>
    BY <1>6 DEF Ask
  <2>2. v1 \in CallRows
    BY NoRequestIs DEF CallRows, CallSteps, InFlight
  <2> HIDE DEF v1
  <2>3. v2 \in CallRows
    BY <1>6, <2>2 DEF CallRows
  <2> HIDE DEF v2
  <2>4. v3 \in CallRows
    BY <1>t, <2>3 DEF CallRows
  <2> HIDE DEF v3
  <2>5. v4 \in CallRows
    BY <1>t, <2>4 DEF CallRows
  <2> HIDE DEF v4
  <2> QED
    BY <1>t, <2>1, <2>5 DEF WebTypesInv
<1>7. ASSUME NEW r \in Calls, Unauthorised(r) PROVE WebTypesInv'
  <2> DEFINE after == EndOf(r, "refused")
  <2>1. /\ me' \in {me, Nobody} /\ screen' \in {screen, "login"} /\ UNCHANGED <<cookie, live>>
        /\ Dismissed(after) \/ (req' = after /\ UNCHANGED <<dialog, restore>>)
    BY <1>7 DEF Unauthorised, PageChanges, EndOf
  <2>2. after \in [Calls -> CallRows]
    BY <1>e, <1>7 DEF CallSteps
  <2> HIDE DEF after
  <2> QED
    BY <1>d, <1>t, <2>1, <2>2 DEF WebTypesInv, Screens
<1>8. ASSUME NEW r \in Calls, AsksAgain(r) PROVE WebTypesInv'
  <2>1. /\ req' = WithStep(r, "held") /\ dialog' \in {dialog, "open"} /\ "held" \in CallSteps
        /\ UNCHANGED <<cookie, live, me, screen, restore>>
    BY <1>8 DEF AsksAgain, Held, CallSteps, WithStep
  <2>2. req' \in [Calls -> CallRows]
    BY <1>8, <1>t, <2>1, StepOfACall DEF IsAStep
  <2> QED
    BY <1>t, <2>1, <2>2 DEF WebTypesInv, Dialogs
<1>9. ASSUME NEW r \in Calls, RefusedAgain(r) PROVE WebTypesInv'
  <2>1. req' = EndOf(r, "refused") /\ "refused" \in CallSteps /\ UNCHANGED <<cookie, live, me, screen, restore, dialog>>
    BY <1>9 DEF RefusedAgain, CallSteps, EndOf
  <2> QED
    BY <1>e, <1>9, <1>t, <2>1 DEF WebTypesInv
<1>10. ASSUME NEW r \in Calls, Done(r) PROVE WebTypesInv'
  <2> DEFINE pc == IF req[r].kind = "key" /\ req[r].as.who # req[r].asked THEN "refused" ELSE "done"
             after == EndOf(r, pc)
  <2>1. /\ me' \in {me, Nobody} /\ screen' \in {screen, "login"} /\ live' \in SUBSET live /\ UNCHANGED cookie
        /\ Dismissed(after) \/ (req' = after /\ UNCHANGED <<dialog, restore>>)
    BY <1>10 DEF Done, PageChanges, EndOf
  <2>2. pc \in CallSteps
    BY DEF CallSteps
  <2> HIDE DEF pc
  <2>3. after \in [Calls -> CallRows]
    BY <1>e, <1>10, <2>2
  <2> HIDE DEF after
  <2> QED
    BY <1>d, <1>t, <2>1, <2>3 DEF WebTypesInv, Screens
<1>11. ASSUME NEW r \in Calls, TimesOut(r) PROVE WebTypesInv'
  <2>1. /\ req' = EndOf(r, "timed out") /\ "timed out" \in CallSteps
        /\ UNCHANGED <<cookie, live, me, screen, restore, dialog>>
    BY <1>11 DEF TimesOut, CallSteps, EndOf
  <2> QED
    BY <1>e, <1>11, <1>t, <2>1 DEF WebTypesInv
<1> QED
  BY <1>1, <1>2, <1>3, <1>4, <1>5, <1>6, <1>7, <1>8, <1>9, <1>10, <1>11 DEF WebSessionNext

LEMMA WebTypesInitially == WebSessionInit => WebTypesInv
<1> SUFFICES ASSUME WebSessionInit PROVE WebTypesInv
  OBVIOUS
<1>1. WebInv /\ live = {} /\ screen = "login" /\ restore = "none"
  BY WebInitially DEF WebSessionInit
<1> QED
  BY <1>1 DEF WebTypesInv, WebInv, Screens, Restores, Dialogs

LEMMA WebTypesAre == WebTypesInv => WebSessionTypeOK
<1> SUFFICES ASSUME WebTypesInv PROVE WebSessionTypeOK
  OBVIOUS
<1>1. cookie.who \in Accounts \cup {Nobody} /\ cookie.fresh \in BOOLEAN
  BY DEF WebTypesInv, Sessions
<1>2. \A r \in Calls : req[r].pc \in InFlight \cup {"none", "held", "done", "refused", "timed out"} /\ req[r].kind \in Kinds
  <2> SUFFICES ASSUME NEW r \in Calls
               PROVE  req[r].pc \in InFlight \cup {"none", "held", "done", "refused", "timed out"} /\ req[r].kind \in Kinds
    OBVIOUS
  <2>1. req[r] \in CallRows
    BY DEF WebTypesInv
  <2> QED
    BY <2>1 DEF CallRows, CallSteps
<1> QED
  BY <1>1, <1>2 DEF WebTypesInv, WebSessionTypeOK, Screens, Restores, Dialogs

-----------------------------------------------------------------------------
(***************************************************************************)
(* The types of all the services.                                          *)
(***************************************************************************)
ServicesTypes ==
    /\ part = "StarterSync" => SyncTypes
    /\ part = "Projects" => ProjectsInv
    /\ part = "Quota" => QuotaInv
    /\ part = "RateLimit" => MapTypesInv
    /\ part = "Retention" => RetentionTypes
    /\ part = "Watchdog" => WatchdogTypesInv
    /\ part = "Channels" => ChannelsInv
    /\ part = "ChannelConfigs" => VaultInv
    /\ part = "Sending" => SendingInv
    /\ part = "Audit" => AuditTypesInv
    /\ part = "ChecksPage" => PageTypesInv
    /\ part = "WebSession" => WebTypesInv
    /\ part = "Config" => ConfigTypeOK
    /\ part = "PingGate" => GateTypesInv
    /\ part = "CheckDetail" => CheckDetailTypeOK

LEMMA ServicesTypesBegin == ServicesInit => ServicesTypes
<1> SUFFICES ASSUME ServicesInit PROVE ServicesTypes
  OBVIOUS
<1>1. part = "StarterSync" => SyncTypes
  BY ServicesBegin, SyncInitially, SyncTypesAre DEF SyncInv
<1>2. /\ part = "Projects" => ProjectsInv
      /\ part = "Quota" => QuotaInv
      /\ part = "RateLimit" => MapTypesInv
      /\ part = "Retention" => RetentionTypes
      /\ part = "Watchdog" => WatchdogTypesInv
  BY ServicesBegin, ProjectsInitially, QuotaInitially, MapTypesInitially, RetentionTypesInitially, WatchdogTypesInitially
<1>3. /\ part = "Channels" => ChannelsInv
      /\ part = "ChannelConfigs" => VaultInv
      /\ part = "Sending" => SendingInv
      /\ part = "Audit" => AuditTypesInv
      /\ part = "ChecksPage" => PageTypesInv
  BY ServicesBegin, ChannelsInitially, VaultInitially, SendingInitially, AuditTypesInitially, PageTypesInitially
<1>4. /\ part = "WebSession" => WebTypesInv
      /\ part = "Config" => ConfigTypeOK
      /\ part = "PingGate" => GateTypesInv
      /\ part = "CheckDetail" => CheckDetailTypeOK
  BY ServicesBegin, WebTypesInitially, ConfigTypesInitially, GateTypesInitially, DetailTypesInitially
<1> QED
  BY <1>1, <1>2, <1>3, <1>4, Zenon DEF ServicesTypes

LEMMA ServicesTypesStep == ServicesTypes /\ ServiceStep => ServicesTypes'
<1> SUFFICES ASSUME ServicesTypes, ServiceStep PROVE ServicesTypes'
  OBVIOUS
<1>0. part' = part
  BY PlansMove
<1>1. (part = "StarterSync" => SyncTypes)' /\ (part = "Projects" => ProjectsInv)' /\ (part = "Quota" => QuotaInv)'
  BY PlansMove, GraceStep, ProjectsStep, QuotaStep DEF ServicesTypes
<1>2. (part = "RateLimit" => MapTypesInv)' /\ (part = "Retention" => RetentionTypes)'
  BY ClocksMove, MapTypesStep, RetentionTypesStep DEF ServicesTypes
<1>3. (part = "Watchdog" => WatchdogTypesInv)' /\ (part = "PingGate" => GateTypesInv)'
  BY ClocksMove, WatchdogTypesStep, GateTypesStep DEF ServicesTypes
<1>4. (part = "Channels" => ChannelsInv)' /\ (part = "ChannelConfigs" => VaultInv)' /\ (part = "Sending" => SendingInv)'
  BY AlertsMove, ChannelsStep, VaultStep, SendingStep DEF ServicesTypes
<1>5. (part = "Audit" => AuditTypesInv)' /\ (part = "ChecksPage" => PageTypesInv)' /\ (part = "WebSession" => WebTypesInv)'
  BY RestMoves, AuditTypesStep, PageTypesStep, WebTypesStep DEF ServicesTypes
<1>6. (part = "Config" => ConfigTypeOK)' /\ (part = "CheckDetail" => CheckDetailTypeOK)'
  BY RestMoves, ConfigTypesStep, DetailTypesStep DEF ServicesTypes
<1> QED
  BY <1>1, <1>2, <1>3, <1>4, <1>5, <1>6, Zenon DEF ServicesTypes

LEMMA ServicesTypesAre == ServicesTypes => ServicesTypeOK
<1> SUFFICES ASSUME ServicesTypes PROVE ServicesTypeOK
  OBVIOUS
<1>1. /\ part = "StarterSync" => StarterSyncTypeOK
      /\ part = "Projects" => ProjectsTypeOK
      /\ part = "Quota" => QuotaTypeOK
  BY SyncTypesAre DEF ServicesTypes, ProjectsInv, QuotaInv
<1>2. /\ part = "RateLimit" => RateLimitTypeOK
      /\ part = "Retention" => RetentionTypeOK
      /\ part = "Watchdog" => WatchdogTypeOK
      /\ part = "Channels" => ChannelsTypeOK
  BY MapTypesAre, RetentionTypesAre, WatchdogTypesAre, ChannelsAreKept DEF ServicesTypes
<1>3. /\ part = "ChannelConfigs" => ConfigsTypeOK
      /\ part = "Sending" => SendingTypeOK
      /\ part = "Audit" => AuditTypeOK
      /\ part = "ChecksPage" => ChecksPageTypeOK
  BY VaultIsReached, SendingTypesAre, AuditTypesAre, PageTypesAre DEF ServicesTypes
<1>4. /\ part = "WebSession" => WebSessionTypeOK
      /\ part = "Config" => ConfigTypeOK
      /\ part = "PingGate" => PingGateTypeOK
      /\ part = "CheckDetail" => CheckDetailTypeOK
  BY WebTypesAre, GateTypesAre DEF ServicesTypes
<1> QED
  BY <1>1, <1>2, <1>3, <1>4, Zenon DEF ServicesTypeOK

(***************************************************************************)
(* Each service keeps to its types, and to the bounds they name: the       *)
(* limiter's map has one order, an event of the journal one number, no     *)
(* more addresses are in memory than the bound and one, lookups of unknown *)
(* keys stay below what a window allows, and the page has no row that is   *)
(* no check (RateLimiter, AuditService, PingController, ChecksComponent).  *)
(* It holds for every value of the constants: with overlapping requests,   *)
(* locks that time out, checks deleted while they are being listed and     *)
(* sign-ins of any length.                                                 *)
(***************************************************************************)
THEOREM ServicesTypeCorrect == ServicesSpec => []ServicesTypeOK
<1>1. ServicesTypes => ServicesTypeOK
  BY ServicesTypesAre
<1>2. ServicesInit => ServicesTypes
  BY ServicesTypesBegin
<1>3. ServicesTypes /\ [ServicesNext]_servicesVars => ServicesTypes'
  BY ServicesTypesStep DEF ServiceStep
<1> QED
  BY <1>1, <1>2, <1>3, PTL DEF ServicesSpec
===============================================================================
