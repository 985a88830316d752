------------------------------ MODULE Ingestion ------------------------------
(***************************************************************************)
(* The heartbeat path (ingest.service.ts) with the cache of check metadata *)
(* in front of it (check-metadata.cache.ts) and the LISTEN connection that *)
(* keeps the cache fresh (pg-listener.service.ts), for one check.          *)
(*                                                                         *)
(* A heartbeat peeks in its instance's cache, on a miss joins or starts a  *)
(* LOOKUP_SQL, computes the deadline from the metadata it got, and writes  *)
(* with INGEST_SQL, which reads its snapshot of the row first and updates  *)
(* whatever version of the row it then locks.  Edits of the check commit   *)
(* in between, NOTIFY the instances that are listening, and drop the entry *)
(* of their own instance once the statement has returned.                  *)
(*                                                                         *)
(* Schedules are told apart by name only.  Entries carry the time left to  *)
(* them; database statements take no time of the clock.                    *)
(***************************************************************************)
EXTENDS Integers, FiniteSets

CONSTANTS
    Instances,
    Requests,      \* heartbeats that may be in progress at once
    ScheduleNames,
    MaxKey,        \* bound: ping keys the check is ever given, in order
    PositiveTtl,   \* positiveTtlMs
    NegativeTtl,   \* negativeTtlMs
    MaxPending,    \* bound: notifications on their way to an instance
    MaxBreaks      \* bound: times a LISTEN connection breaks

\* The metadata of a key that no check has.
Unknown == "unknown"

ASSUME IngestionAssumption ==
    /\ Instances # {}
    /\ Unknown \notin ScheduleNames
    /\ MaxKey \in Nat \ {0}
    /\ PositiveTtl \in Nat \ {0} /\ NegativeTtl \in Nat \ {0}
    /\ NegativeTtl <= PositiveTtl
    /\ MaxPending \in Nat /\ MaxBreaks \in Nat

VARIABLES
    row,        \* the check
    cache,      \* entries, by instance and ping key
    load,       \* inFlight, by instance and ping key
    heard,      \* notifications on their way, by instance and ping key
    listening,  \* the LISTEN connection of each instance is up
    edited,     \* the keys each instance has yet to invalidate after an edit
    request,    \* the heartbeats in progress
    sinceEdit,  \* time since what LOOKUP_SQL reads last changed, up to PositiveTtl
    breaks      \* connections broken so far

ingestionVars ==
    <<row, cache, load, heard, listening, edited, request, sinceEdit, breaks>>

Keys == 1 .. MaxKey

Metadata == ScheduleNames \cup {Unknown}

\* UP stands for every state but PAUSED; dueBy names the schedule next_due_at
\* was computed from.
CheckRows == [alive    : BOOLEAN,
              key      : Keys,
              state    : {"UP", "PAUSED"},
              schedule : ScheduleNames,
              dueBy    : ScheduleNames]

\* An entry with no time left is as good as none.
Entries == [metadata : Metadata, left : 0 .. PositiveTtl]

NoEntry == [metadata |-> Unknown, left |-> 0]

Loads == [pc : {"none", "asked", "answered"}, metadata : Metadata]

NoLoad == [pc |-> "none", metadata |-> Unknown]

\* A /fail moves the deadline as a success does.
PingKinds == {"start", "success"}

RequestStates == [pc       : {"idle", "waiting", "ready", "locked"},
                  server   : Instances,
                  key      : Keys,
                  kind     : PingKinds,
                  metadata : Metadata]

\* What an idle request last was is of no interest.
IdleRequest == [pc |-> "idle", server |-> CHOOSE s \in Instances : TRUE, key |-> 1,
                kind |-> "start", metadata |-> Unknown]

IngestionTypeOK ==
    /\ row \in CheckRows
    /\ cache \in [Instances -> [Keys -> Entries]]
    /\ load \in [Instances -> [Keys -> Loads]]
    /\ heard \in [Instances -> [Keys -> 0 .. MaxPending]]
    /\ listening \in [Instances -> BOOLEAN]
    /\ edited \in [Instances -> SUBSET Keys]
    /\ request \in [Requests -> RequestStates]
    /\ sinceEdit \in 0 .. PositiveTtl
    /\ breaks \in Nat

IngestionInit ==
    /\ \E schedule \in ScheduleNames :
          row = [alive |-> TRUE, key |-> 1, state |-> "UP",
                 schedule |-> schedule, dueBy |-> schedule]
    /\ cache = [s \in Instances |-> [k \in Keys |-> NoEntry]]
    /\ load = [s \in Instances |-> [k \in Keys |-> NoLoad]]
    /\ heard = [s \in Instances |-> [k \in Keys |-> 0]]
    /\ listening = [s \in Instances |-> TRUE]
    /\ edited = [s \in Instances |-> {}]
    /\ request = [r \in Requests |-> IdleRequest]
    /\ sinceEdit = PositiveTtl
    /\ breaks = 0

-----------------------------------------------------------------------------
(* The cache.                                                              *)

SetEntry(s, k, entry) == cache' = [cache EXCEPT ![s][k] = entry]

\* peek() and get() agree on what is fresh.
Fresh(s, k) == cache[s][k].left > 0

\* Mutant: LOOKUP_SQL skips paused checks, as INGEST_SQL does.
MetadataUnlessPaused(k) ==
    IF row.alive /\ row.key = k /\ row.state # "PAUSED" THEN row.schedule ELSE Unknown

\* What LOOKUP_SQL answers.
MetadataOf(k) == IF row.alive /\ row.key = k THEN row.schedule ELSE Unknown

LookUp(s, k) ==
    /\ load[s][k].pc = "asked"
    /\ load' = [load EXCEPT ![s][k] = [pc |-> "answered", metadata |-> MetadataOf(k)]]
    /\ UNCHANGED <<row, cache, heard, listening, edited, request, sinceEdit, breaks>>

\* Mutant: one lifetime for every entry, twice as long.
StoredTwiceAsLong(metadata) ==
    [metadata |-> metadata, left |-> PositiveTtl + NegativeTtl]

\* The entry store() makes of it.
Stored(metadata) ==
    [metadata |-> metadata,
     left     |-> IF metadata = Unknown THEN NegativeTtl ELSE PositiveTtl]

\* The answer arrives: store(), and everybody who waited for it goes on.
Store(s, k) ==
    LET metadata == load[s][k].metadata
    IN  /\ load[s][k].pc = "answered"
        /\ SetEntry(s, k, Stored(metadata))
        /\ load' = [load EXCEPT ![s][k] = NoLoad]
        /\ request' = [r \in Requests |->
              IF request[r].pc = "waiting" /\ request[r].server = s /\ request[r].key = k
              THEN IF metadata = Unknown
                   THEN IdleRequest
                   ELSE [request[r] EXCEPT !.pc = "ready", !.metadata = metadata]
              ELSE request[r]]
        /\ UNCHANGED <<row, heard, listening, edited, sinceEdit, breaks>>

\* LOOKUP_SQL throws: nothing is stored and whoever waited gets the error.
LookUpFails(s, k) ==
    /\ load[s][k].pc # "none"
    /\ load' = [load EXCEPT ![s][k] = NoLoad]
    /\ request' = [r \in Requests |->
          IF request[r].pc = "waiting" /\ request[r].server = s /\ request[r].key = k
          THEN IdleRequest
          ELSE request[r]]
    /\ UNCHANGED <<row, cache, heard, listening, edited, sinceEdit, breaks>>

\* maxEntries is reached by other keys.
Evict(s, k) ==
    /\ Fresh(s, k)
    /\ SetEntry(s, k, NoEntry)
    /\ UNCHANGED <<row, load, heard, listening, edited, request, sinceEdit, breaks>>

-----------------------------------------------------------------------------
(* ingest().                                                               *)

\* Mutant: an entry that is used lives on.
TouchedAgain(entry) == [entry EXCEPT !.left = PositiveTtl]

\* Serving an entry does not extend its life.
Touched(entry) == entry

\* A job calls the current key, or one that was rotated away.
Receive(r, s, k, kind) ==
    /\ request[r].pc = "idle"
    /\ k <= row.key
    /\ LET arrived == [pc |-> "ready", server |-> s, key |-> k, kind |-> kind,
                       metadata |-> cache[s][k].metadata]
       IN  \/ /\ Fresh(s, k)
              /\ request' = [request EXCEPT ![r] =
                    IF arrived.metadata = Unknown THEN IdleRequest ELSE arrived]
              /\ SetEntry(s, k, Touched(cache[s][k]))
              /\ UNCHANGED load
           \/ /\ ~Fresh(s, k)
              /\ request' = [request EXCEPT ![r] =
                    [arrived EXCEPT !.pc = "waiting", !.metadata = Unknown]]
              /\ load' = IF load[s][k].pc = "none"
                         THEN [load EXCEPT ![s][k] = [NoLoad EXCEPT !.pc = "asked"]]
                         ELSE load
              /\ UNCHANGED cache
    /\ UNCHANGED <<row, heard, listening, edited, sinceEdit, breaks>>

\* The "prev" snapshot of INGEST_SQL.
ReadSnapshot(r) ==
    /\ request[r].pc = "ready"
    /\ request' = [request EXCEPT ![r] =
          IF row.alive /\ row.key = request[r].key /\ row.state # "PAUSED"
          THEN [@ EXCEPT !.pc = "locked"] ELSE IdleRequest]
    /\ UNCHANGED <<row, cache, load, heard, listening, edited, sinceEdit, breaks>>

\* The UPDATE of INGEST_SQL: the row, as it now is, still has the id.
WritePing(r) ==
    /\ request[r].pc = "locked"
    /\ row' = IF row.alive /\ request[r].kind # "start"
              THEN [row EXCEPT !.state = "UP",
                               !.dueBy = request[r].metadata]
              ELSE row
    /\ request' = [request EXCEPT ![r] = IdleRequest]
    /\ UNCHANGED <<cache, load, heard, listening, edited, sinceEdit, breaks>>

\* The statement throws, or the process is gone.
PingFails(r) ==
    /\ request[r].pc \in {"ready", "locked"}
    /\ request' = [request EXCEPT ![r] = IdleRequest]
    /\ UNCHANGED <<row, cache, load, heard, listening, edited, sinceEdit, breaks>>

-----------------------------------------------------------------------------
(* Edits of the check, each sent by some instance.                         *)

\* An instance whose own cache is not looked at.
Elsewhere == "elsewhere"

Editors == Instances \cup {Elsewhere}

\* What the instance that sent the edit has yet to drop from its cache.
ToInvalidate(s, keys) ==
    IF s = Elsewhere THEN edited ELSE [edited EXCEPT ![s] = @ \cup keys]

\* The trigger: NOTIFY reaches the instances that are listening.
Notified(k) ==
    [s \in Instances |->
        IF listening[s] THEN [heard[s] EXCEPT ![k] = @ + 1] ELSE heard[s]]

RoomToNotify(k) == \A s \in Instances : heard[s][k] < MaxPending

\* { paused }: these columns are not in the trigger's list.
PauseCheck(s) ==
    /\ row.alive
    /\ row' = [row EXCEPT !.state = "PAUSED"]
    /\ edited' = ToInvalidate(s, {row.key})
    /\ UNCHANGED <<cache, load, heard, listening, request, sinceEdit, breaks>>

ResumeCheck(s) ==
    /\ row.alive
    /\ row.state = "PAUSED"
    /\ row' = [row EXCEPT !.state = "UP", !.dueBy = row.schedule]
    /\ edited' = ToInvalidate(s, {row.key})
    /\ UNCHANGED <<cache, load, heard, listening, request, sinceEdit, breaks>>

RescheduleCheck(s, schedule) ==
    /\ row.alive
    /\ schedule # row.schedule
    /\ RoomToNotify(row.key)
    /\ row' = [row EXCEPT !.schedule = schedule, !.dueBy = schedule]
    /\ heard' = Notified(row.key)
    /\ edited' = ToInvalidate(s, {row.key})
    /\ sinceEdit' = 0
    /\ UNCHANGED <<cache, load, listening, request, breaks>>

\* rotatePingKey(): ping_key is not in the trigger's list either.
Rotate(s) ==
    /\ row.alive
    /\ row.key < MaxKey
    /\ row' = [row EXCEPT !.key = @ + 1]
    /\ edited' = ToInvalidate(s, {row.key, row.key + 1})
    /\ sinceEdit' = 0
    /\ UNCHANGED <<cache, load, heard, listening, request, breaks>>

Delete(s) ==
    /\ row.alive
    /\ RoomToNotify(row.key)
    /\ row' = [row EXCEPT !.alive = FALSE]
    /\ heard' = Notified(row.key)
    /\ edited' = ToInvalidate(s, {row.key})
    /\ sinceEdit' = 0
    /\ UNCHANGED <<cache, load, listening, request, breaks>>

\* cache.invalidate(), after the statement.
Invalidate(s, k) ==
    /\ k \in edited[s]
    /\ edited' = [edited EXCEPT ![s] = @ \ {k}]
    /\ SetEntry(s, k, NoEntry)
    /\ UNCHANGED <<row, load, heard, listening, request, sinceEdit, breaks>>

-----------------------------------------------------------------------------
(* The listener and the clock.                                             *)

\* The notification arrives: the entry is dropped.
Hear(s, k) ==
    /\ heard[s][k] > 0
    /\ heard' = [heard EXCEPT ![s][k] = @ - 1]
    /\ SetEntry(s, k, NoEntry)
    /\ UNCHANGED <<row, load, listening, edited, request, sinceEdit, breaks>>

\* The connection breaks: what was on its way is lost.
Disconnect(s) ==
    /\ listening[s]
    /\ breaks < MaxBreaks
    /\ breaks' = breaks + 1
    /\ listening' = [listening EXCEPT ![s] = FALSE]
    /\ heard' = [heard EXCEPT ![s] = [k \in Keys |-> 0]]
    /\ UNCHANGED <<row, cache, load, edited, request, sinceEdit>>

\* connect() and LISTEN; entries stay as they are.
Reconnect(s) ==
    /\ ~listening[s]
    /\ listening' = [listening EXCEPT ![s] = TRUE]
    /\ UNCHANGED <<row, cache, load, heard, edited, request, sinceEdit, breaks>>

Less(t) == IF t = 0 THEN 0 ELSE t - 1

IngestionClock ==
    /\ \A s \in Instances, k \in Keys : load[s][k].pc = "none"
    /\ \A r \in Requests : request[r].pc = "idle"
    /\ cache' = [s \in Instances |-> [k \in Keys |->
                   IF cache[s][k].left <= 1 THEN NoEntry
                   ELSE [cache[s][k] EXCEPT !.left = Less(@)]]]
    /\ sinceEdit' = IF sinceEdit = PositiveTtl THEN sinceEdit ELSE sinceEdit + 1
    /\ UNCHANGED <<row, load, heard, listening, edited, request, breaks>>

RequestStep(r) ==
    \/ \E s \in Instances, k \in Keys, kind \in PingKinds : Receive(r, s, k, kind)
    \/ ReadSnapshot(r)
    \/ WritePing(r)
    \/ PingFails(r)

EditStep(s) ==
    \/ PauseCheck(s)
    \/ ResumeCheck(s)
    \/ \E schedule \in ScheduleNames : RescheduleCheck(s, schedule)
    \/ Rotate(s)
    \/ Delete(s)

CacheStep(s, k) ==
    \/ LookUp(s, k)
    \/ Store(s, k)
    \/ LookUpFails(s, k)
    \/ Evict(s, k)
    \/ Invalidate(s, k)
    \/ Hear(s, k)

IngestionNext ==
    \/ \E r \in Requests : RequestStep(r)
    \/ \E s \in Editors : EditStep(s)
    \/ \E s \in Instances : Disconnect(s) \/ Reconnect(s)
    \/ \E s \in Instances, k \in Keys : CacheStep(s, k)
    \/ IngestionClock

IngestionSpec == IngestionInit /\ [][IngestionNext]_ingestionVars

-----------------------------------------------------------------------------
(* Properties.                                                             *)

\* The entry no longer says what the database says.
Stale(s, k) == Fresh(s, k) /\ cache[s][k].metadata # MetadataOf(k)

(***************************************************************************)
(* A lost notification costs staleness, and no more than positiveTtlMs of  *)
(* it: a schedule edited, rotated or deleted longer ago than that is never *)
(* served, whatever connections break and loads cross the edit (the TTL as *)
(* a backstop).                                                            *)
(***************************************************************************)
StalenessIsBounded ==
    \A s \in Instances, k \in Keys : Stale(s, k) => cache[s][k].left + sinceEdit <= PositiveTtl

(***************************************************************************)
(* A key that works is never answered "no such check": a negative entry,   *)
(* or a lookup about to become one, is true for good (ingest()).           *)
(***************************************************************************)
NegativeEntriesAreTrue ==
    \A s \in Instances, k \in Keys :
        k <= row.key =>
            /\ Fresh(s, k) /\ cache[s][k].metadata = Unknown => MetadataOf(k) = Unknown
            /\ load[s][k].pc = "answered" /\ load[s][k].metadata = Unknown
               => MetadataOf(k) = Unknown

(***************************************************************************)
(* What the cache answers is so, or was a moment ago (CheckMetadataCache). *)
(***************************************************************************)
CacheIsTrue == StalenessIsBounded /\ NegativeEntriesAreTrue

(***************************************************************************)
(* A heartbeat moves the deadline to that of a replaced schedule only      *)
(* within positiveTtlMs of the edit that replaced it, and a heartbeat      *)
(* after that puts it right (ingest(), which computes next_due_at from the *)
(* cached schedule).                                                       *)
(***************************************************************************)
DeadlineBySchedule ==
    \A r \in Requests :
        WritePing(r) /\ row'.dueBy # row'.schedule /\ request[r].kind # "start"
        => sinceEdit < PositiveTtl

=============================================================================
