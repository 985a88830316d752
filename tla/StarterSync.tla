----------------------------- MODULE StarterSync ------------------------------
(***************************************************************************)
(* POST /api/v1/checks/sync: what applications declare when they start,    *)
(* beside the checks made by hand, in the projects of one account on a     *)
(* plan with a ceiling (check-sync.service.ts, check-sync.repository.ts,   *)
(* quota.service.ts, the creation of checks.service.ts). Requests run at   *)
(* once, each as many steps as it makes statements. The advisory lock is   *)
(* held by a transaction of its own, with a time limit.                    *)
(***************************************************************************)
EXTENDS Integers, Sequences, FiniteSets, SequencesExt

CONSTANTS
    Keys,          \* keys of declared jobs
    Envs,          \* environments that declare
    Callers,       \* requests in progress
    Limit,         \* checks of the plan
    MaxClock,      \* bound
    LockTimesOut   \* whether a request may outlast the transaction of its lock

NoCaller == "no caller"

ASSUME SyncAssumption ==
    /\ IsFiniteSet(Keys) /\ IsFiniteSet(Envs) /\ NoCaller \notin Callers
    /\ Limit \in Nat /\ MaxClock \in Nat /\ LockTimesOut \in BOOLEAN

VARIABLES
    declared,     \* the automatic checks, by environment and key
    manual,       \* how many checks were made by hand
    accountLock,  \* who holds the account's advisory lock
    call,         \* what each request is doing
    kept,         \* what the declarations of an environment have named since the last that prunes
    clock

syncVars == <<declared, manual, accountLock, call, kept, clock>>

\* What is declared: keys in an order that is the same on every start.
Payloads == {p \in UNION {[1..n -> Keys] : n \in 1..Cardinality(Keys)} : IsInjective(p)}
Schedules == {"hourly", "daily"}
Rows == [state : {"live", "orphaned"}, schedule : Schedules, since : 0..MaxClock]
NoCheck == [state |-> "none", schedule |-> "daily", since |-> 0]
NoCall == [pc |-> "idle", env |-> "none", payload |-> <<>>, schedule |-> "daily", prune |-> FALSE,
           now |-> 0, room |-> 0, skipped |-> {}]

StarterSyncTypeOK ==
    /\ declared \in [Envs -> [Keys -> Rows \cup {NoCheck}]]
    /\ manual \in 0..Limit
    /\ accountLock \in Callers \cup {NoCaller}
    /\ call \in [Callers -> [pc : {"idle", "count", "known", "upsert", "written", "count one", "create"},
                                 env : Envs \cup {"none"}, payload : Payloads \cup {<<>>}, schedule : Schedules,
                                 prune : BOOLEAN, now : 0..MaxClock, room : 0..Limit, skipped : SUBSET Keys]]
    /\ kept \in [Envs -> SUBSET Keys]
    /\ clock \in 0..MaxClock

StarterSyncInit ==
    /\ declared = [e \in Envs |-> [k \in Keys |-> NoCheck]]
    /\ manual = 0 /\ accountLock = NoCaller /\ clock = 0
    /\ call = [r \in Callers |-> NoCall]
    /\ kept = [e \in Envs |-> {}]

Exists(e, k) == declared[e][k] # NoCheck

\* QuotaService.countOwnedChecks: orphaned ones count.
Owned == manual + Cardinality({pair \in Envs \X Keys : Exists(pair[1], pair[2])})

Room == IF Owned < Limit THEN Limit - Owned ELSE 0

(***************************************************************************)
(* QuotaService.serialised.                                                *)
(***************************************************************************)
\* Mutant: each request locks for itself.
LockIsFreeForAll == TRUE

LockIsFree == accountLock = NoCaller

\* A request begins with the lock: what waits for it has read nothing yet.
Serialised(r, begun) ==
    /\ call[r] = NoCall /\ LockIsFree
    /\ accountLock' = r
    /\ call' = [call EXCEPT ![r] = [begun EXCEPT !.now = clock]]
    /\ UNCHANGED <<declared, manual, kept, clock>>

Released(r) == IF accountLock = r THEN NoCaller ELSE accountLock

\* After 30 s, or when a statement fails: what the transaction did is undone.
LockLost(r) ==
    /\ call[r].pc # "idle" /\ accountLock = r
    /\ call[r].pc = "upsert" => LockTimesOut
    /\ accountLock' = NoCaller
    /\ call' = [call EXCEPT ![r] = IF call[r].pc = "upsert" THEN @ ELSE NoCall]
    /\ UNCHANGED <<declared, manual, kept, clock>>

(***************************************************************************)
(* CheckSyncService.sync.                                                  *)
(***************************************************************************)
\* A payload that names a key twice is refused before anything is read.
Declare(r, e, payload, schedule, prune) ==
    Serialised(r, [NoCall EXCEPT !.pc = "count", !.env = e, !.payload = payload, !.schedule = schedule, !.prune = prune])

\* remainingChecks
CountRoom(r) ==
    /\ call[r].pc = "count"
    /\ call' = [call EXCEPT ![r].pc = "known", ![r].room = Room]
    /\ UNCHANGED <<declared, manual, accountLock, kept, clock>>

\* Where in the payload there are keys that do not exist.
WouldCreate(r) == {i \in DOMAIN call[r].payload : ~Exists(call[r].env, call[r].payload[i])}
PlaceOf(r, i) == Cardinality({j \in WouldCreate(r) : j <= i})

\* findExistingKeys, and the first of the payload that there is room for.
ApplyCheckQuota(r) ==
    /\ call[r].pc = "known"
    /\ call' = [call EXCEPT ![r].pc = "upsert",
           ![r].skipped = {call[r].payload[i] : i \in {j \in WouldCreate(r) : PlaceOf(r, j) > call[r].room}}]
    /\ UNCHANGED <<declared, manual, accountLock, kept, clock>>

\* Mutant: the deadline starts over with every declaration.
RowFromNow(row, r) == [state |-> "live", schedule |-> call[r].schedule, since |-> call[r].now]

\* UPSERT_SQL: the deadline moves with the schedule only.
UpsertedRow(row, r) ==
    [state |-> "live", schedule |-> call[r].schedule,
     since |-> IF row # NoCheck /\ row.schedule = call[r].schedule THEN row.since ELSE call[r].now]

\* Mutant: whatever the environment.
OrphansEverywhere(r, e) == call[r].prune

\* ORPHAN_SQL.
Orphans(r, e) == call[r].prune /\ e = call[r].env

\* In a transaction of its own, on another connection than the lock's.
Upsert(r) ==
    LET names == ToSet(call[r].payload)
        accepted == names \ call[r].skipped
        e == call[r].env
    IN
    /\ call[r].pc = "upsert"
    /\ declared' = [f \in Envs |-> [k \in Keys |->
           CASE f = e /\ k \in accepted -> UpsertedRow(declared[f][k], r)
             [] ~(f = e /\ k \in accepted) /\ Orphans(r, f) /\ k \notin names /\ Exists(f, k) ->
                    [declared[f][k] EXCEPT !.state = "orphaned"]
             [] OTHER -> declared[f][k]]]
    /\ kept' = [kept EXCEPT ![e] = IF call[r].prune THEN names ELSE @ \cup accepted]
    /\ call' = [call EXCEPT ![r].pc = "written"]
    /\ UNCHANGED <<manual, accountLock, clock>>

Answer(r) ==
    /\ call[r].pc = "written"
    /\ accountLock' = Released(r)
    /\ call' = [call EXCEPT ![r] = NoCall]
    /\ UNCHANGED <<declared, manual, kept, clock>>

(***************************************************************************)
(* ChecksService.create and remove, and a heartbeat.                       *)
(***************************************************************************)
StartCreate(r) == Serialised(r, [NoCall EXCEPT !.pc = "count one"])

AssertCanAddCheck(r) ==
    /\ call[r].pc = "count one"
    /\ call' = [call EXCEPT ![r] = IF Owned + 1 > Limit THEN NoCall ELSE [@ EXCEPT !.pc = "create"]]
    /\ accountLock' = IF Owned + 1 > Limit THEN Released(r) ELSE accountLock
    /\ UNCHANGED <<declared, manual, kept, clock>>

\* Through the transaction of the lock: it is committed as the lock is released.
CreateCommits(r) ==
    /\ call[r].pc = "create" /\ manual < Limit
    /\ manual' = manual + 1
    /\ accountLock' = Released(r)
    /\ call' = [call EXCEPT ![r] = NoCall]
    /\ UNCHANGED <<declared, kept, clock>>

RemoveManual ==
    /\ manual > 0 /\ manual' = manual - 1
    /\ UNCHANGED <<declared, accountLock, call, kept, clock>>

RemoveDeclared(e, k) ==
    /\ Exists(e, k)
    /\ declared' = [declared EXCEPT ![e][k] = NoCheck]
    /\ UNCHANGED <<manual, accountLock, call, kept, clock>>

Beat(e, k) ==
    /\ Exists(e, k) /\ declared[e][k].since < clock
    /\ declared' = [declared EXCEPT ![e][k].since = clock]
    /\ UNCHANGED <<manual, accountLock, call, kept, clock>>

ClockTick ==
    /\ clock < MaxClock /\ clock' = clock + 1
    /\ UNCHANGED <<declared, manual, accountLock, call, kept>>

StarterSyncNext ==
    \/ \E r \in Callers :
        \/ LockLost(r)
        \/ \E e \in Envs, payload \in Payloads, schedule \in Schedules, prune \in BOOLEAN :
               Declare(r, e, payload, schedule, prune)
        \/ CountRoom(r) \/ ApplyCheckQuota(r) \/ Upsert(r) \/ Answer(r)
        \/ StartCreate(r) \/ AssertCanAddCheck(r) \/ CreateCommits(r)
    \/ RemoveManual
    \/ \E e \in Envs, k \in Keys : RemoveDeclared(e, k) \/ Beat(e, k)
    \/ ClockTick

StarterSyncSpec == StarterSyncInit /\ [][StarterSyncNext]_syncVars

(***************************************************************************)
(* Properties.                                                             *)
(***************************************************************************)
\* CheckSyncService.sync: instances that start together, and people who create checks
\* meanwhile, do not count room for the same checks. Not so when a request outlasts the
\* transaction of its lock.
NeverOverThePlan == Owned <= Limit

\* ORPHAN_SQL: what an environment declared last is never flagged as gone, whatever is
\* declared elsewhere or without pruning.
DeclaredIsNotOrphaned ==
    \A e \in Envs : \A k \in kept[e] : declared[e][k].state # "orphaned"

\* UPSERT_SQL: "otherwise a restart would grant every job a fresh grace period". No
\* request, however long it waited and whatever came in between, moves the moment a job
\* on an unchanged schedule was heard of, which only a heartbeat does.
RestartGrantsNoGrace ==
    \A e \in Envs, k \in Keys :
        LET row == declared[e][k] IN
        row # NoCheck /\ declared'[e][k] # NoCheck /\ declared'[e][k].schedule = row.schedule =>
            declared'[e][k].since = row.since \/ (call' = call /\ declared'[e][k].since = clock)
===============================================================================
