-------------------------- MODULE DetectionProofs --------------------------
(***************************************************************************)
(* Detection's safety, for any number of checks, servers, incidents and    *)
(* any batch size.                                                         *)
(***************************************************************************)
EXTENDS Detection, TLAPS

(***************************************************************************)
(* What the row locks of ADVANCE_SQL maintain: no two open transactions    *)
(* hold the same check, and what a transaction decided about a row it      *)
(* holds is still true of that row.                                        *)
(***************************************************************************)
LocksHold ==
    /\ \A s, t \in Servers :
          s # t /\ tick[s].pc = "commit" /\ tick[t].pc = "commit"
          => tick[s].rows \cap tick[t].rows = {}
    /\ \A s \in Servers : tick[s].pc = "commit" =>
          \A c \in tick[s].rows :
             /\ check[c].nextDueAt # Never
             /\ check[c].nextDueAt < now
             /\ c \in tick[s].down => GraceSpent(check[c], now)

DetectionInv == DetectionTypeOK /\ LocksHold /\ OneOpenIncident

-----------------------------------------------------------------------------
(* Deadlines computed from a schedule are instants of the clock.           *)
LEMMA NextDueIsTime ==
    ASSUME NEW schedule \in Schedules, NEW from \in Nat
    PROVE  computeNextDueAt(schedule, from) \in Nat
<1>1. schedule.period \in Nat \ {0}
  BY ScheduleAssumption
<1>2. from \div schedule.period \in Nat
  BY <1>1
<1>3. ((from \div schedule.period) + 1) * schedule.period \in Nat
  BY <1>1, <1>2
<1> QED
  BY <1>1, <1>3 DEF computeNextDueAt

(* The row writers keep rows well formed.                                  *)
LEMMA PingedIsRow ==
    ASSUME NEW row \in Rows, NEW kind \in Kinds, NEW due \in Nat
    PROVE  Pinged(row, kind, due) \in Rows
BY DEF Pinged, Rows, Kinds, States, Deadlines

LEMMA EditedIsRow ==
    ASSUME NEW row \in Rows, NEW schedule \in Schedules, NEW at \in Nat
    PROVE  /\ Paused(row) \in Rows
           /\ Resumed(row, at) \in Rows
           /\ Rescheduled(row, schedule, at) \in Rows
<1>1. row.schedule \in Schedules
  BY DEF Rows
<1>2. /\ computeNextDueAt(row.schedule, at) \in Nat
      /\ computeNextDueAt(schedule, at) \in Nat
  BY <1>1, NextDueIsTime
<1> QED
  BY <1>2 DEF Paused, Resumed, Rescheduled, Rows, States, Deadlines

LEMMA IdleTickIsTick == IdleTick \in Ticks
BY DEF IdleTick, Ticks, TickPhases

(* A tick's local state changes as a whole.                                *)
LEMMA SetTickType ==
    ASSUME tick \in [Servers -> Ticks], NEW s \in Servers, NEW t \in Ticks, SetTick(s, t)
    PROVE  tick' \in [Servers -> Ticks]
BY DEF SetTick

(* A LIMIT only ever drops candidates.                                     *)
LEMMA LimitedIsSubset ==
    ASSUME NEW S, NEW T \in Limited(S)
    PROVE  T \subseteq S
BY DEF Limited

-----------------------------------------------------------------------------
(* The type invariant.                                                     *)

LEMMA InitTypeOK == DetectionInit => DetectionTypeOK
<1> SUFFICES ASSUME DetectionInit PROVE DetectionTypeOK
  OBVIOUS
<1>1. PICK schedule \in [Checks -> Schedules] :
         check = [c \in Checks |-> NewRow(schedule[c], 0)]
  BY DEF DetectionInit
<1>2. \A c \in Checks : NewRow(schedule[c], 0) \in Rows
  BY NextDueIsTime DEF NewRow, Rows, States, Deadlines, Kinds
<1>3. check \in [Checks -> Rows]
  BY <1>1, <1>2
<1>4. tick \in [Servers -> Ticks]
  BY IdleTickIsTick DEF DetectionInit
<1>5. incident \in [IncidentIds -> IncidentRows]
  BY DEF DetectionInit, IncidentRows
<1> QED
  BY <1>3, <1>4, <1>5 DEF DetectionInit, DetectionTypeOK

LEMMA NextTypeOK ==
    DetectionTypeOK /\ [DetectionNext]_detectionVars => DetectionTypeOK'
<1> SUFFICES ASSUME DetectionTypeOK, [DetectionNext]_detectionVars
             PROVE  DetectionTypeOK'
  OBVIOUS
<1> USE DEF DetectionTypeOK
<1>1. CASE ClockTick
  BY <1>1 DEF ClockTick
<1>2. ASSUME NEW c \in Checks, NEW kind \in Kinds, Ping(c, kind)
      PROVE  DetectionTypeOK'
  <2>1. check[c] \in Rows /\ check[c].schedule \in Schedules
    BY DEF Rows
  <2>2. Pinged(check[c], kind, computeNextDueAt(check[c].schedule, now)) \in Rows
    BY <2>1, NextDueIsTime, PingedIsRow
  <2> QED
    BY <1>2, <2>2 DEF Ping
<1>3. ASSUME NEW c \in Checks, Pause(c)
      PROVE  DetectionTypeOK'
  <2>1. check[c] \in Rows /\ check[c].schedule \in Schedules
    BY DEF Rows
  <2>2. Paused(check[c]) \in Rows
    BY <2>1, EditedIsRow
  <2> QED
    BY <1>3, <2>2 DEF Pause
<1>4. ASSUME NEW c \in Checks, Resume(c)
      PROVE  DetectionTypeOK'
  <2>1. check[c] \in Rows /\ check[c].schedule \in Schedules
    BY DEF Rows
  <2>2. Resumed(check[c], now) \in Rows
    BY <2>1, EditedIsRow
  <2> QED
    BY <1>4, <2>2 DEF Resume
<1>5. ASSUME NEW c \in Checks, NEW schedule \in Schedules, Reschedule(c, schedule)
      PROVE  DetectionTypeOK'
  <2>1. Rescheduled(check[c], schedule, now) \in Rows
    BY EditedIsRow
  <2> QED
    BY <1>5, <2>1 DEF Reschedule
<1>6. ASSUME NEW s \in Servers, StartTick(s)
      PROVE  DetectionTypeOK'
  <2>1. [tick[s] EXCEPT !.pc = "advance"] \in Ticks
    BY DEF Ticks, TickPhases
  <2>2. tick' \in [Servers -> Ticks]
    BY <1>6, <2>1, SetTickType DEF StartTick
  <2> QED
    BY <1>6, <2>2 DEF StartTick
<1>7. ASSUME NEW s \in Servers, LockOverdue(s)
      PROVE  DetectionTypeOK'
  <2> DEFINE next(rows) ==
           [tick[s] EXCEPT !.pc   = "commit",
                           !.rows = rows,
                           !.down = {c \in rows : GraceSpent(check[c], now)}]
  <2>1. PICK rows \in OldestFirst({c \in Checks : Overdue(check[c], now) /\ ~Locked(c)}) :
           SetTick(s, next(rows))
    BY <1>7 DEF LockOverdue
  <2>2. rows \in SUBSET Checks
    BY LimitedIsSubset DEF OldestFirst
  <2>3. next(rows) \in Ticks
    BY <2>2 DEF Ticks, TickPhases
  <2>4. tick' \in [Servers -> Ticks]
    BY <2>1, <2>3, SetTickType
  <2> QED
    BY <1>7, <2>4 DEF LockOverdue
<1>8. ASSUME NEW s \in Servers, AdvanceOverdue(s)
      PROVE  DetectionTypeOK'
  <2>1. check' \in [Checks -> Rows]
    BY <1>8 DEF AdvanceOverdue, Rows, States
  <2>2. [tick[s] EXCEPT !.pc    = IF Drained(s) THEN "open" ELSE "advance",
                        !.batch = IF Drained(s) THEN 0 ELSE @ + 1,
                        !.rows  = {},
                        !.down  = {}] \in Ticks
    <3> DEFINE pc == IF Drained(s) THEN "open" ELSE "advance"
               batch == IF Drained(s) THEN 0 ELSE tick[s].batch + 1
    <3>1. pc \in TickPhases
      BY DEF TickPhases
    <3>2. batch \in Nat
      BY DEF Ticks
    <3> HIDE DEF pc, batch
    <3>3. [tick[s] EXCEPT !.pc = pc, !.batch = batch, !.rows = {}, !.down = {}] \in Ticks
      BY <3>1, <3>2 DEF Ticks
    <3> QED
      BY <3>3 DEF pc, batch
  <2>3. tick' \in [Servers -> Ticks]
    BY <1>8, <2>2, SetTickType DEF AdvanceOverdue
  <2> QED
    BY <1>8, <2>1, <2>3 DEF AdvanceOverdue
<1>9. ASSUME NEW s \in Servers, ReadDownChecks(s)
      PROVE  DetectionTypeOK'
  <2>1. [c \in Checks |-> CauseOf(check[c])] \in [Checks -> {"missed", "reported"}]
    BY DEF CauseOf
  <2>2. [tick[s] EXCEPT
            !.pc     = "insert",
            !.rows   = {c \in Checks : check[c].state = "DOWN" /\ ~HasOpenIncident(c)},
            !.causes = [c \in Checks |-> CauseOf(check[c])]] \in Ticks
    BY <2>1 DEF Ticks, TickPhases
  <2>3. tick' \in [Servers -> Ticks]
    BY <1>9, <2>2, SetTickType DEF ReadDownChecks
  <2> QED
    BY <1>9, <2>3 DEF ReadDownChecks
<1>10. ASSUME NEW s \in Servers, OpenIncidents(s)
       PROVE  DetectionTypeOK'
  <2> DEFINE next(opened) ==
           [tick[s] EXCEPT !.pc     = IF opened = {} THEN "resolve" ELSE "enqueueDown",
                           !.rows   = {},
                           !.causes = IdleTick.causes,
                           !.refs   = opened]
  <2>1. PICK opened \in SUBSET IncidentIds :
           /\ incident' = [i \in IncidentIds |->
                             IF i \in opened
                             THEN [status |-> "open", cause |-> tick[s].causes[i[1]]]
                             ELSE incident[i]]
           /\ SetTick(s, next(opened))
    BY <1>10 DEF OpenIncidents
  <2>2. tick[s].causes \in [Checks -> {"missed", "reported"}]
    BY DEF Ticks
  <2>3. \A i \in IncidentIds : i[1] \in Checks
    BY DEF IncidentIds
  <2>4. incident' \in [IncidentIds -> IncidentRows]
    BY <2>1, <2>2, <2>3 DEF IncidentRows
  <2>5. IdleTick.causes \in [Checks -> {"missed", "reported"}]
    BY DEF IdleTick
  <2>6. next(opened) \in Ticks
    BY <2>5 DEF Ticks, TickPhases
  <2>7. tick' \in [Servers -> Ticks]
    BY <2>1, <2>6, SetTickType
  <2> QED
    BY <1>10, <2>4, <2>7 DEF OpenIncidents
<1>11. ASSUME NEW s \in Servers, EnqueueDown(s)
       PROVE  DetectionTypeOK'
  <2>1. [tick[s] EXCEPT !.pc = "resolve", !.refs = {}] \in Ticks
    BY DEF Ticks, TickPhases
  <2>2. tick' \in [Servers -> Ticks]
    BY <1>11, <2>1, SetTickType DEF EnqueueDown
  <2> QED
    BY <1>11, <2>2 DEF EnqueueDown
<1>12. ASSUME NEW s \in Servers, ReadRecovered(s)
       PROVE  DetectionTypeOK'
  <2>1. [tick[s] EXCEPT
            !.pc   = "close",
            !.refs = {i \in IncidentIds : Recovered(i)}] \in Ticks
    BY DEF Ticks, TickPhases
  <2>2. tick' \in [Servers -> Ticks]
    BY <1>12, <2>1, SetTickType DEF ReadRecovered
  <2> QED
    BY <1>12, <2>2 DEF ReadRecovered
<1>13. ASSUME NEW s \in Servers, ResolveIncidents(s)
       PROVE  DetectionTypeOK'
  <2> DEFINE next(resolved) ==
           [tick[s] EXCEPT !.pc   = IF resolved = {} THEN "idle" ELSE "enqueueUp",
                           !.refs = resolved]
  <2>1. PICK resolved \in Limited({i \in tick[s].refs : incident[i].status = "open"}) :
           /\ incident' = [i \in IncidentIds |->
                             IF i \in resolved
                             THEN [incident[i] EXCEPT !.status = "resolved"]
                             ELSE incident[i]]
           /\ SetTick(s, next(resolved))
    BY <1>13 DEF ResolveIncidents
  <2>2. tick[s].refs \in SUBSET IncidentIds
    BY DEF Ticks
  <2>3. resolved \in SUBSET IncidentIds
    BY <2>2, LimitedIsSubset
  <2>4. incident' \in [IncidentIds -> IncidentRows]
    BY <2>1 DEF IncidentRows
  <2>5. next(resolved) \in Ticks
    BY <2>3 DEF Ticks, TickPhases
  <2>6. tick' \in [Servers -> Ticks]
    BY <2>1, <2>5, SetTickType
  <2> QED
    BY <1>13, <2>4, <2>6 DEF ResolveIncidents
<1>14. ASSUME NEW s \in Servers, EnqueueUp(s) \/ TickFails(s)
       PROVE  DetectionTypeOK'
  <2>1. tick' \in [Servers -> Ticks]
    BY <1>14, IdleTickIsTick, SetTickType DEF EnqueueUp, TickFails
  <2> QED
    BY <1>14, <2>1 DEF EnqueueUp, TickFails
<1>15. CASE UNCHANGED detectionVars
  BY <1>15 DEF detectionVars
<1> QED
  BY <1>1, <1>2, <1>3, <1>4, <1>5, <1>6, <1>7, <1>8, <1>9, <1>10, <1>11, <1>12,
     <1>13, <1>14, <1>15
  DEF DetectionNext, OtherSessions, TickStep

(***************************************************************************)
(* The tables and the ticks of detection always have their types: rows     *)
(* keep a state, a deadline or NULL, and a schedule, whatever the          *)
(* statements of the instances and of the other sessions do to them.       *)
(***************************************************************************)
THEOREM DetectionTypeCorrect == DetectionSpec => []DetectionTypeOK
<1> QED
  BY InitTypeOK, NextTypeOK, PTL DEF DetectionSpec

-----------------------------------------------------------------------------
(* The row locks.                                                          *)

\* A row that nobody else holds is the only one another session may write.
LEMMA OtherSessionsKeepLocks ==
    ASSUME DetectionTypeOK, LocksHold, OtherSessions
    PROVE  LocksHold'
<1> USE DEF DetectionTypeOK
<1>1. tick' = tick /\ now' \in Nat /\ now <= now'
  BY DEF OtherSessions, ClockTick, Ping, Pause, Resume, Reschedule
<1>2. ASSUME NEW c \in Checks, Locked(c)
      PROVE  check'[c] = check[c]
  BY <1>2 DEF OtherSessions, ClockTick, Ping, Pause, Resume, Reschedule
<1>3. ASSUME NEW s \in Servers, tick[s].pc = "commit", NEW c \in tick[s].rows
      PROVE  /\ check'[c].nextDueAt # Never
             /\ check'[c].nextDueAt < now'
             /\ c \in tick[s].down => GraceSpent(check'[c], now')
  <2>1. c \in Checks /\ Locked(c)
    BY <1>3 DEF Ticks, Locked
  <2>2. check'[c] = check[c] /\ check[c].nextDueAt \in Deadlines
    BY <2>1, <1>2 DEF Rows
  <2>3. /\ check[c].nextDueAt # Never
        /\ check[c].nextDueAt < now
        /\ c \in tick[s].down => GraceSpent(check[c], now)
    BY <1>3 DEF LocksHold
  <2> QED
    BY <2>2, <2>3, <1>1, ScheduleAssumption DEF GraceSpent, Deadlines, Never
<1>4. \A s \in Servers : tick[s].pc = "commit" => \A c \in tick[s].rows :
         /\ check'[c].nextDueAt # Never
         /\ check'[c].nextDueAt < now'
         /\ c \in tick[s].down => GraceSpent(check'[c], now')
  BY <1>3
<1> QED
  BY <1>1, <1>4 DEF LocksHold, GraceSpent

\* A step of one tick that takes no lock and leaves the check table alone.
LEMMA UnlockedStepKeepsLocks ==
    ASSUME DetectionTypeOK, LocksHold, NEW s \in Servers,
           tick'[s].pc # "commit", \A u \in Servers : u # s => tick'[u] = tick[u],
           check' = check, now' = now
    PROVE  LocksHold'
BY DEF LocksHold, GraceSpent

LEMMA LockOverdueKeepsLocks ==
    ASSUME DetectionTypeOK, LocksHold, NEW s \in Servers, LockOverdue(s)
    PROVE  LocksHold'
<1> USE DEF DetectionTypeOK
<1> DEFINE free == {c \in Checks : Overdue(check[c], now) /\ ~Locked(c)}
<1>1. PICK rows \in OldestFirst(free) :
         SetTick(s, [tick[s] EXCEPT !.pc   = "commit",
                                    !.rows = rows,
                                    !.down = {c \in rows : GraceSpent(check[c], now)}])
  BY DEF LockOverdue
<1>2. rows \subseteq free
  BY LimitedIsSubset DEF OldestFirst
<1>3. /\ tick'[s].rows = rows
      /\ tick'[s].down = {c \in rows : GraceSpent(check[c], now)}
      /\ \A u \in Servers : u # s => tick'[u] = tick[u]
  BY <1>1 DEF SetTick, Ticks
<1>4. check' = check /\ now' = now
  BY DEF LockOverdue
<1>5. ASSUME NEW u \in Servers, u # s, tick[u].pc = "commit"
      PROVE  rows \cap tick[u].rows = {}
  BY <1>2, <1>5 DEF Locked
<1>6. \A c \in rows : check[c].nextDueAt # Never /\ check[c].nextDueAt < now
  BY <1>2 DEF Overdue
<1> QED
  BY <1>3, <1>4, <1>5, <1>6 DEF LocksHold, GraceSpent

LEMMA AdvanceOverdueKeepsLocks ==
    ASSUME DetectionTypeOK, LocksHold, NEW s \in Servers, AdvanceOverdue(s)
    PROVE  LocksHold'
<1> USE DEF DetectionTypeOK
<1>1. tick'[s].pc # "commit" /\ \A u \in Servers : u # s => tick'[u] = tick[u]
  BY DEF AdvanceOverdue, SetTick, Ticks
<1>2. now' = now /\ tick[s].pc = "commit"
  BY DEF AdvanceOverdue
<1>3. ASSUME NEW u \in Servers, u # s, tick[u].pc = "commit", NEW c \in tick[u].rows
      PROVE  check'[c] = check[c]
  BY <1>2, <1>3 DEF LocksHold, AdvanceOverdue, Ticks
<1> QED
  BY <1>1, <1>2, <1>3 DEF LocksHold, GraceSpent

LEMMA NextKeepsLocks ==
    DetectionTypeOK /\ LocksHold /\ [DetectionNext]_detectionVars => LocksHold'
<1> SUFFICES ASSUME DetectionTypeOK, LocksHold, [DetectionNext]_detectionVars
             PROVE  LocksHold'
  OBVIOUS
<1>1. CASE OtherSessions
  BY <1>1, OtherSessionsKeepLocks
<1>2. ASSUME NEW s \in Servers, LockOverdue(s)
      PROVE  LocksHold'
  BY <1>2, LockOverdueKeepsLocks
<1>3. ASSUME NEW s \in Servers, AdvanceOverdue(s)
      PROVE  LocksHold'
  BY <1>3, AdvanceOverdueKeepsLocks
<1>4. ASSUME NEW s \in Servers,
             \/ StartTick(s)     \/ ReadDownChecks(s)   \/ OpenIncidents(s)
             \/ EnqueueDown(s)   \/ ReadRecovered(s)    \/ ResolveIncidents(s)
             \/ EnqueueUp(s)     \/ TickFails(s)
      PROVE  LocksHold'
  <2>1. tick[s] \in Ticks
    BY DEF DetectionTypeOK
  <2>2. tick'[s].pc # "commit"
    <3>1. CASE OpenIncidents(s)
      <4>1. PICK opened :
               SetTick(s, [tick[s] EXCEPT
                             !.pc     = IF opened = {} THEN "resolve" ELSE "enqueueDown",
                             !.rows   = {},
                             !.causes = IdleTick.causes,
                             !.refs   = opened])
        BY <3>1 DEF OpenIncidents
      <4> QED
        BY <4>1, <2>1 DEF SetTick, Ticks, DetectionTypeOK
    <3>2. CASE ResolveIncidents(s)
      <4>1. PICK resolved :
               SetTick(s, [tick[s] EXCEPT
                             !.pc   = IF resolved = {} THEN "idle" ELSE "enqueueUp",
                             !.refs = resolved])
        BY <3>2 DEF ResolveIncidents
      <4> QED
        BY <4>1, <2>1 DEF SetTick, Ticks, DetectionTypeOK
    <3>3. CASE EnqueueUp(s) \/ TickFails(s)
      BY <3>3 DEF EnqueueUp, TickFails, IdleTick, SetTick, DetectionTypeOK
    <3>4. CASE StartTick(s)
      BY <3>4, <2>1 DEF StartTick, SetTick, Ticks, DetectionTypeOK
    <3>7. CASE EnqueueDown(s)
      BY <3>7, <2>1 DEF EnqueueDown, SetTick, Ticks, DetectionTypeOK
    <3>5. CASE ReadDownChecks(s)
      <4>1. PICK rows, causes :
               SetTick(s, [tick[s] EXCEPT !.pc = "insert", !.rows = rows, !.causes = causes])
        BY <3>5 DEF ReadDownChecks
      <4> QED
        BY <4>1, <2>1 DEF SetTick, Ticks, DetectionTypeOK
    <3>6. CASE ReadRecovered(s)
      BY <3>6, <2>1 DEF ReadRecovered, SetTick, Ticks, DetectionTypeOK
    <3> QED
      BY <1>4, <3>1, <3>2, <3>3, <3>4, <3>5, <3>6, <3>7
  <2>3. /\ check' = check /\ now' = now
        /\ \A u \in Servers : u # s => tick'[u] = tick[u]
    BY <1>4 DEF StartTick, ReadDownChecks, OpenIncidents, EnqueueDown, ReadRecovered,
                ResolveIncidents, EnqueueUp, TickFails, SetTick, DetectionTypeOK
  <2> QED
    BY <2>2, <2>3, UnlockedStepKeepsLocks
<1>5. CASE UNCHANGED detectionVars
  BY <1>5 DEF detectionVars, LocksHold, GraceSpent
<1> QED
  BY <1>1, <1>2, <1>3, <1>4, <1>5 DEF DetectionNext, TickStep

-----------------------------------------------------------------------------
(* At most one open incident.                                              *)

LEMMA NextKeepsOneOpen ==
    DetectionTypeOK /\ OneOpenIncident /\ [DetectionNext]_detectionVars => OneOpenIncident'
<1> SUFFICES ASSUME DetectionTypeOK, OneOpenIncident, [DetectionNext]_detectionVars
             PROVE  OneOpenIncident'
  OBVIOUS
<1> USE DEF DetectionTypeOK
<1>1. ASSUME NEW s \in Servers, OpenIncidents(s)
      PROVE  OneOpenIncident'
  <2>1. PICK candidates \in Limited(StillDown(s)) :
           LET opened == {i \in IncidentIds : /\ i[1] \in Insertable(candidates)
                                              /\ IsFreshIncident(i[1], i[2])}
           IN  incident' = [i \in IncidentIds |->
                              IF i \in opened
                              THEN [status |-> "open", cause |-> tick[s].causes[i[1]]]
                              ELSE incident[i]]
    BY <1>1 DEF OpenIncidents
  <2>2. SUFFICES ASSUME NEW c \in Checks,
                        NEW m \in 1 .. MaxIncidents, NEW n \in 1 .. MaxIncidents,
                        incident'[<<c, m>>].status = "open",
                        incident'[<<c, n>>].status = "open"
                 PROVE  m = n
    BY DEF OneOpenIncident
  <2>3. <<c, m>> \in IncidentIds /\ <<c, n>> \in IncidentIds
    BY DEF IncidentIds
  <2>4. CASE c \in Insertable(candidates)
    <3>1. \A k \in 1 .. MaxIncidents : incident[<<c, k>>].status # "open"
      BY <2>4 DEF Insertable, HasOpenIncident
    <3>2. IsFreshIncident(c, m) /\ IsFreshIncident(c, n)
      BY <2>1, <2>2, <2>3, <3>1
    <3>3. ~(m < n) /\ ~(n < m)
      BY <3>2, DetectionAssumption DEF IsFreshIncident
    <3> QED
      BY <3>3
  <2>5. CASE c \notin Insertable(candidates)
    <3>1. /\ incident'[<<c, m>>] = incident[<<c, m>>]
          /\ incident'[<<c, n>>] = incident[<<c, n>>]
      BY <2>1, <2>3, <2>5
    <3> QED
      BY <2>2, <3>1 DEF OneOpenIncident
  <2> QED
    BY <2>4, <2>5
<1>2. ASSUME NEW s \in Servers, ResolveIncidents(s)
      PROVE  OneOpenIncident'
  <2>1. \A i \in IncidentIds : incident'[i].status = "open" => incident[i].status = "open"
    BY <1>2 DEF ResolveIncidents, IncidentRows
  <2>2. \A c \in Checks, n \in 1 .. MaxIncidents : <<c, n>> \in IncidentIds
    BY DEF IncidentIds
  <2> QED
    BY <2>1, <2>2 DEF OneOpenIncident
<1>3. CASE incident' = incident
  BY <1>3 DEF OneOpenIncident
<1> QED
  BY <1>1, <1>2, <1>3
  DEF DetectionNext, TickStep, OtherSessions, ClockTick, Ping, Pause, Resume, Reschedule,
      StartTick, LockOverdue, AdvanceOverdue, ReadDownChecks, EnqueueDown, ReadRecovered,
      EnqueueUp, TickFails, detectionVars

-----------------------------------------------------------------------------
(* The inductive invariant and what follows from it.                       *)

LEMMA DetectionInvariance == DetectionSpec => []DetectionInv
<1>1. DetectionInit => LocksHold /\ OneOpenIncident
  <2> SUFFICES ASSUME DetectionInit PROVE LocksHold /\ OneOpenIncident
    OBVIOUS
  <2>1. \A s \in Servers : tick[s].pc = "idle"
    BY DEF DetectionInit, IdleTick
  <2>2. \A c \in Checks, n \in 1 .. MaxIncidents : incident[<<c, n>>].status = "none"
    BY DEF DetectionInit, IncidentIds
  <2> QED
    BY <2>1, <2>2 DEF LocksHold, OneOpenIncident
<1> QED
  BY <1>1, InitTypeOK, NextTypeOK, NextKeepsLocks, NextKeepsOneOpen, PTL
  DEF DetectionSpec, DetectionInv

(***************************************************************************)
(* At most one incident of a check is open, for any number of racing       *)
(* instances: the index check at the moment of the INSERT is enough, what  *)
(* the statement read before does not matter.                              *)
(***************************************************************************)
THEOREM AtMostOneOpenIncident == DetectionSpec => []OneOpenIncident
<1> QED
  BY DetectionInvariance, PTL DEF DetectionInv

(***************************************************************************)
(* No tick of any instance ever overwrites a heartbeat, a resume or a new  *)
(* schedule with a stale LATE or DOWN.                                     *)
(***************************************************************************)
THEOREM NeverFalseAlarm == DetectionSpec => NoFalseAlarm
<1> DEFINE Justified ==
       \A c \in Checks :
          /\ check[c].state # "LATE" /\ check'[c].state = "LATE"
             => check[c].nextDueAt # Never /\ check[c].nextDueAt < now
          /\ check[c].state # "DOWN" /\ check'[c].state = "DOWN"
             => Ping(c, "fail") \/ GraceSpent(check[c], now)
<1>1. DetectionInv /\ [DetectionNext]_detectionVars => [Justified]_detectionVars
  <2> SUFFICES ASSUME DetectionInv, DetectionNext
               PROVE  Justified
    OBVIOUS
  <2> USE DEF DetectionInv, DetectionTypeOK
  <2>1. ASSUME NEW d \in Checks, NEW kind \in Kinds, Ping(d, kind)
        PROVE  Justified
    <3> SUFFICES ASSUME NEW c \in Checks, check'[c] # check[c]
                 PROVE  /\ check'[c].state = "LATE" => check[c].state = "LATE"
                        /\ check[c].state # "DOWN" /\ check'[c].state = "DOWN"
                           => Ping(c, "fail")
      OBVIOUS
    <3>1. c = d
      BY <2>1 DEF Ping
    <3>2. check'[c] = Pinged(check[c], kind, computeNextDueAt(check[c].schedule, now))
      BY <2>1, <3>1 DEF Ping
    <3>3. check[c] \in Rows
      OBVIOUS
    <3> QED
      BY <2>1, <3>1, <3>2, <3>3 DEF Pinged, Rows, Kinds
  <2>2. ASSUME NEW d \in Checks,
               \/ Pause(d) \/ Resume(d)
               \/ \E schedule \in Schedules : Reschedule(d, schedule)
        PROVE  Justified
    <3>1. \A c \in Checks : check'[c].state \in {check[c].state, "PAUSED", "NEW"}
      <4>1. check[d] \in Rows
        OBVIOUS
      <4>2. CASE Pause(d)
        BY <4>1, <4>2 DEF Pause, Paused, Rows
      <4>3. CASE Resume(d)
        BY <4>1, <4>3 DEF Resume, Resumed, Rows
      <4>4. CASE \E schedule \in Schedules : Reschedule(d, schedule)
        BY <4>1, <4>4 DEF Reschedule, Rescheduled, Rows
      <4> QED
        BY <2>2, <4>2, <4>3, <4>4
    <3> QED
      BY <3>1
  <2>3. ASSUME NEW s \in Servers, AdvanceOverdue(s)
        PROVE  Justified
    BY <2>3 DEF AdvanceOverdue, LocksHold
  <2>4. CASE check' = check
    BY <2>4
  <2> QED
    BY <2>1, <2>2, <2>3, <2>4
    DEF DetectionNext, TickStep, OtherSessions, ClockTick,
        StartTick, LockOverdue, ReadDownChecks, OpenIncidents, EnqueueDown, ReadRecovered,
        ResolveIncidents, EnqueueUp, TickFails
<1> QED
  BY <1>1, DetectionInvariance, PTL DEF DetectionSpec, NoFalseAlarm

(***************************************************************************)
(* Whatever a tick read, the incident it inserts is of a check that is     *)
(* DOWN when the row is locked: recovered checks are dropped by the        *)
(* re-check of OPEN_INCIDENTS_SQL, on any number of instances.             *)
(***************************************************************************)
THEOREM IncidentsOnlyForDownChecks == DetectionSpec => NoIncidentForHealthyCheck
<1> DEFINE OpenedWhileDown ==
       \A i \in IncidentIds :
          incident[i].status # "open" /\ incident'[i].status = "open"
          => check[i[1]].state = "DOWN"
<1>1. DetectionTypeOK /\ [DetectionNext]_detectionVars => [OpenedWhileDown]_detectionVars
  <2> SUFFICES ASSUME DetectionTypeOK, DetectionNext
               PROVE  OpenedWhileDown
    OBVIOUS
  <2> USE DEF DetectionTypeOK
  <2>1. ASSUME NEW s \in Servers, OpenIncidents(s)
        PROVE  OpenedWhileDown
    <3>1. PICK candidates \in Limited(StillDown(s)) :
             incident' = [i \in IncidentIds |->
                IF i \in {j \in IncidentIds : /\ j[1] \in Insertable(candidates)
                                              /\ IsFreshIncident(j[1], j[2])}
                THEN [status |-> "open", cause |-> tick[s].causes[i[1]]]
                ELSE incident[i]]
      BY <2>1 DEF OpenIncidents
    <3>2. \A c \in Insertable(candidates) : check[c].state = "DOWN"
      BY LimitedIsSubset DEF Insertable, StillDown
    <3> QED
      BY <3>1, <3>2
  <2>2. ASSUME NEW s \in Servers, ResolveIncidents(s)
        PROVE  OpenedWhileDown
    BY <2>2 DEF ResolveIncidents, IncidentRows
  <2>3. CASE incident' = incident
    BY <2>3
  <2> QED
    BY <2>1, <2>2, <2>3
    DEF DetectionNext, TickStep, OtherSessions, ClockTick, Ping, Pause, Resume, Reschedule,
        StartTick, LockOverdue, AdvanceOverdue, ReadDownChecks, EnqueueDown, ReadRecovered,
        EnqueueUp, TickFails
<1> QED
  BY <1>1, DetectionTypeCorrect, PTL DEF DetectionSpec, NoIncidentForHealthyCheck

=============================================================================
