-------------------------------- MODULE Quota --------------------------------
(***************************************************************************)
(* Plan limits of one account (quota.service.ts) and the loop that makes a *)
(* change of plan mean something (quota-enforcer.service.ts), against the  *)
(* requests that create, edit and delete checks (checks.service.ts) and    *)
(* against pings.                                                          *)
(*                                                                         *)
(* The enforcer of every instance reads, decides and writes in separate    *)
(* statements and takes no lock; creating a check counts and inserts under *)
(* the account's advisory lock; editing one reads it and later writes it.  *)
(***************************************************************************)
EXTENDS Integers, FiniteSets

CONSTANTS
    MaxChecks,       \* bound: checks ever created, numbered by age
    Servers,         \* instances, each with an enforcer
    Requests,        \* API requests that may be in progress at once
    Limits,          \* the check limits of the configured plans
    MaxChanges,      \* bound: changes of plan and deletions of checks
    MaxLosses        \* bound: passes that die, emails that fail

NoLimit == -1

\* Two plans for the value of Limits: one with a single check, and an unlimited one.
OneOrUnlimited == {NoLimit, 1}

ASSUME QuotaAssumption ==
    /\ MaxChecks \in Nat
    /\ Limits \subseteq Nat \cup {NoLimit}
    /\ MaxChanges \in Nat /\ MaxLosses \in Nat

VARIABLES
    row,       \* the account's checks
    limit,     \* the limit of the account's plan
    lock,      \* the requests holding the account's advisory lock
    request,   \* what each API request is doing
    enforcer,  \* what each instance's reconcile() is doing
    emailed,   \* checks named in an email since they were last stopped
    changes, losses

quotaVars == <<row, limit, lock, request, enforcer, emailed, changes, losses>>

Checks == 1 .. MaxChecks

\* RUNNING stands for every state but PAUSED.  due: next_due_at is not null.
\* onPurpose is not a column: a person asked for the pause the check is in.
QuotaRows == [life      : {"unborn", "alive", "deleted"},
              state     : {"RUNNING", "PAUSED"},
              reason    : {"null", "quota"},
              due       : BOOLEAN,
              onPurpose : BOOLEAN]

NoRow == [life |-> "unborn", state |-> "RUNNING", reason |-> "null", due |-> FALSE, onPurpose |-> FALSE]

Edits == {"pause", "resume", "schedule"}

RequestStates == [pc    : {"idle", "count", "insert", "write"},
                  limit : Limits \cup {NoLimit},
                  check : Checks \cup {0},
                  edit  : Edits,
                  seen  : {"RUNNING", "PAUSED"}]

Enforcers == [pc  : {"idle", "doom", "pause", "notify", "revive", "resume"},
              n   : Nat,
              ids : SUBSET Checks]

IdleEnforcer == [pc |-> "idle", n |-> 0, ids |-> {}]

QuotaTypeOK ==
    /\ row \in [Checks -> QuotaRows]
    /\ limit \in Limits
    /\ lock \subseteq Requests
    /\ request \in [Requests -> RequestStates]
    /\ enforcer \in [Servers -> Enforcers]
    /\ emailed \subseteq Checks
    /\ changes \in Nat /\ losses \in Nat

IdleRequest == [pc |-> "idle", limit |-> NoLimit, check |-> 0, edit |-> "pause", seen |-> "RUNNING"]

QuotaInit ==
    /\ row = [c \in Checks |-> NoRow]
    /\ limit \in Limits
    /\ lock = {}
    /\ request = [r \in Requests |-> IdleRequest]
    /\ enforcer = [e \in Servers |-> IdleEnforcer]
    /\ emailed = {}
    /\ changes = 0 /\ losses = 0

-----------------------------------------------------------------------------
(* What the queries count.                                                 *)

Existing == {c \in Checks : row[c].life = "alive"}

\* paused_reason IS DISTINCT FROM 'quota': a check paused by a person counts.
ActiveChecks == {c \in Existing : row[c].reason # "quota"}

PausedByQuota == {c \in Existing : row[c].reason = "quota"}

Newest(S, n) == {c \in S : Cardinality({d \in S : d > c}) < n}

Oldest(S, n) == {c \in S : Cardinality({d \in S : d < c}) < n}

-----------------------------------------------------------------------------
(* Creating a check: serialised(), assertCanAddCheck(), create().          *)

\* Mutant: no advisory lock.
LockFreeAlways(r) == TRUE

\* pg_advisory_xact_lock waits for the holder's transaction to end.
LockFree(r) == lock = {}

SetRequest(r, v) == request' = [request EXCEPT ![r] = v]

\* BEGIN, the lock, and ownerOf().
LockAccount(r) ==
    /\ request[r].pc = "idle"
    /\ LockFree(r)
    /\ lock' = lock \cup {r}
    /\ SetRequest(r, [request[r] EXCEPT !.pc = "count", !.limit = limit])
    /\ UNCHANGED <<row, limit, enforcer, emailed, changes, losses>>

\* countOwnedChecks(): refused, or on to the INSERT.
CountOwned(r) ==
    /\ request[r].pc = "count"
    /\ IF request[r].limit # NoLimit /\ Cardinality(Existing) + 1 > request[r].limit
       THEN lock' = lock \ {r} /\ SetRequest(r, IdleRequest)
       ELSE UNCHANGED lock /\ SetRequest(r, [request[r] EXCEPT !.pc = "insert"])
    /\ UNCHANGED <<row, limit, enforcer, emailed, changes, losses>>

\* A number that was never used: later checks are newer.
IsNextCheck(c) == \A d \in Checks : (row[d].life = "unborn") <=> (d >= c)

\* create() and COMMIT.
InsertCheck(r) ==
    /\ request[r].pc = "insert"
    /\ \E c \in Checks :
          /\ IsNextCheck(c)
          /\ row' = [row EXCEPT ![c] = [NoRow EXCEPT !.life = "alive", !.due = TRUE]]
    /\ lock' = lock \ {r}
    /\ SetRequest(r, IdleRequest)
    /\ UNCHANGED <<limit, enforcer, emailed, changes, losses>>

\* The transaction ends without a check: its 30 s are over, or it threw.
CreateFails(r) ==
    /\ request[r].pc \in {"count", "insert"}
    /\ lock' = lock \ {r}
    /\ SetRequest(r, IdleRequest)
    /\ UNCHANGED <<row, limit, enforcer, emailed, changes, losses>>

-----------------------------------------------------------------------------
(* ChecksService.update() and remove().                                    *)

ReadCheck(r, c, edit) ==
    /\ request[r].pc = "idle"
    /\ row[c].life = "alive"
    /\ SetRequest(r, [request[r] EXCEPT
            !.pc = "write", !.check = c, !.edit = edit, !.seen = row[c].state])
    /\ UNCHANGED <<row, limit, lock, enforcer, emailed, changes, losses>>

\* paused_reason is never written.  A resume goes by the state that was read.
Edited(old, edit, seen) ==
    CASE edit = "pause" -> [old EXCEPT !.state = "PAUSED", !.onPurpose = TRUE]
      [] edit = "resume" /\ seen = "PAUSED" ->
            [old EXCEPT !.state = "RUNNING", !.due = TRUE, !.onPurpose = FALSE]
      [] edit = "schedule" -> [old EXCEPT !.due = TRUE]
      [] OTHER -> old

WriteCheck(r) ==
    /\ request[r].pc = "write"
    /\ row' = [row EXCEPT ![request[r].check] =
                  IF @.life = "alive" THEN Edited(@, request[r].edit, request[r].seen) ELSE @]
    /\ SetRequest(r, IdleRequest)
    /\ UNCHANGED <<limit, lock, enforcer, emailed, changes, losses>>

RemoveCheck(c) ==
    /\ changes < MaxChanges
    /\ row[c].life = "alive"
    /\ row' = [row EXCEPT ![c] = [NoRow EXCEPT !.life = "deleted"]]
    /\ changes' = changes + 1
    /\ UNCHANGED <<limit, lock, request, enforcer, emailed, losses>>

-----------------------------------------------------------------------------
(* reconcile().                                                            *)

SetEnforcer(e, v) == enforcer' = [enforcer EXCEPT ![e] = v]

\* Mutant: every limited account is taken to be above its limit.
CountAccountAbove(e) ==
    /\ enforcer[e].pc = "idle"
    /\ Existing # {}
    /\ limit # NoLimit
    /\ SetEnforcer(e, [IdleEnforcer EXCEPT
            !.pc = "doom", !.n = Cardinality(ActiveChecks) - limit])
    /\ UNCHANGED <<row, limit, lock, request, emailed, changes, losses>>

\* ownersWithChecks(): one statement, and what the loop makes of its counts.
CountAccount(e) ==
    LET active == Cardinality(ActiveChecks)
    IN  /\ enforcer[e].pc = "idle"
        /\ Existing # {}
        /\ \/ /\ limit = NoLimit
              /\ SetEnforcer(e, [IdleEnforcer EXCEPT !.pc = "revive", !.n = MaxChecks])
           \/ /\ limit # NoLimit
              /\ active > limit
              /\ SetEnforcer(e, [IdleEnforcer EXCEPT !.pc = "doom", !.n = active - limit])
           \/ /\ limit # NoLimit
              /\ active < limit
              /\ PausedByQuota # {}
              /\ SetEnforcer(e, [IdleEnforcer EXCEPT !.pc = "revive", !.n = limit - active])
        /\ UNCHANGED <<row, limit, lock, request, emailed, changes, losses>>

\* Mutant: only the newest is looked at.
DoomedOne(n) == Newest({c \in Existing : row[c].reason = "null" /\ row[c].state # "PAUSED"}, 1)

\* The findMany of pauseExcess(): newest first, whatever their state.
Doomed(n) == Newest({c \in Existing : row[c].reason = "null"}, n)

PickDoomed(e) ==
    /\ enforcer[e].pc = "doom"
    /\ SetEnforcer(e, IF Doomed(enforcer[e].n) = {}
                      THEN IdleEnforcer
                      ELSE [pc |-> "pause", n |-> 0, ids |-> Doomed(enforcer[e].n)])
    /\ UNCHANGED <<row, limit, lock, request, emailed, changes, losses>>

\* Its updateMany, by id alone.
PauseExcess(e) ==
    /\ enforcer[e].pc = "pause"
    /\ row' = [c \in Checks |->
                 IF c \in enforcer[e].ids /\ row[c].life = "alive"
                 THEN [row[c] EXCEPT !.state = "PAUSED", !.reason = "quota", !.due = FALSE]
                 ELSE row[c]]
    /\ emailed' = emailed \ enforcer[e].ids
    /\ SetEnforcer(e, [enforcer[e] EXCEPT !.pc = "notify"])
    /\ UNCHANGED <<limit, lock, request, changes, losses>>

\* Mutant: an account that was written to is not written to again.
NotifyOnce(e) ==
    /\ enforcer[e].pc = "notify"
    /\ emailed' = IF emailed = {} THEN enforcer[e].ids ELSE emailed
    /\ SetEnforcer(e, IdleEnforcer)
    /\ UNCHANGED <<row, limit, lock, request, changes, losses>>

\* notify(): the email names them.
Notify(e) ==
    /\ enforcer[e].pc = "notify"
    /\ emailed' = emailed \cup enforcer[e].ids
    /\ SetEnforcer(e, IdleEnforcer)
    /\ UNCHANGED <<row, limit, lock, request, changes, losses>>

\* Mutant: nothing to give back on an unlimited plan.
RevivedWithinLimit(n) == IF limit = NoLimit THEN {} ELSE Oldest(PausedByQuota, n)

\* The findMany of resume().
Revived(n) == Oldest(PausedByQuota, n)

PickRevived(e) ==
    /\ enforcer[e].pc = "revive"
    /\ SetEnforcer(e, IF Revived(enforcer[e].n) = {}
                      THEN IdleEnforcer
                      ELSE [pc |-> "resume", n |-> 0, ids |-> Revived(enforcer[e].n)])
    /\ UNCHANGED <<row, limit, lock, request, emailed, changes, losses>>

\* Its updateMany: next_due_at is left as it is.
ResumeRevived(e) ==
    /\ enforcer[e].pc = "resume"
    /\ row' = [c \in Checks |->
                 IF c \in enforcer[e].ids /\ row[c].life = "alive"
                 THEN [row[c] EXCEPT !.state = "RUNNING", !.reason = "null"]
                 ELSE row[c]]
    /\ SetEnforcer(e, IdleEnforcer)
    /\ UNCHANGED <<limit, lock, request, emailed, changes, losses>>

\* The process dies, a statement throws or the email cannot be sent.
PassFails(e) ==
    /\ enforcer[e].pc # "idle"
    /\ losses < MaxLosses
    /\ losses' = losses + 1
    /\ SetEnforcer(e, IdleEnforcer)
    /\ UNCHANGED <<row, limit, lock, request, emailed, changes>>

EnforcerStep(e) ==
    \/ CountAccount(e)
    \/ PickDoomed(e)
    \/ PauseExcess(e)
    \/ Notify(e)
    \/ PickRevived(e)
    \/ ResumeRevived(e)

-----------------------------------------------------------------------------
(* The rest of the system.                                                 *)

\* The plan column is written by billing, or by hand.
ChangePlan(l) ==
    /\ changes < MaxChanges
    /\ l # limit
    /\ limit' = l
    /\ changes' = changes + 1
    /\ UNCHANGED <<row, lock, request, enforcer, emailed, losses>>

\* INGEST_SQL: a success or a /fail sets the deadline.
Ping(c) ==
    /\ row[c].life = "alive"
    /\ row[c].state # "PAUSED"
    /\ row' = [row EXCEPT ![c].due = TRUE]
    /\ UNCHANGED <<limit, lock, request, enforcer, emailed, changes, losses>>

RequestStep(r) ==
    \/ LockAccount(r)
    \/ CountOwned(r)
    \/ InsertCheck(r)
    \/ CreateFails(r)
    \/ \E c \in Checks, edit \in Edits : ReadCheck(r, c, edit)
    \/ WriteCheck(r)

QuotaNext ==
    \/ \E r \in Requests : RequestStep(r)
    \/ \E c \in Checks : RemoveCheck(c) \/ Ping(c)
    \/ \E l \in Limits : ChangePlan(l)
    \/ \E e \in Servers : EnforcerStep(e) \/ PassFails(e)

QuotaSpec == QuotaInit /\ [][QuotaNext]_quotaVars

\* setInterval keeps starting passes, and a started statement returns.
FairQuotaSpec == QuotaSpec /\ \A e \in Servers : WF_quotaVars(EnforcerStep(e))

-----------------------------------------------------------------------------
(* Properties.                                                             *)

(***************************************************************************)
(* Counting and then creating stays within the plan: whatever other        *)
(* requests do meanwhile, a request that was let through still finds room  *)
(* when it inserts (serialised()).                                         *)
(***************************************************************************)
CreationWithinLimit ==
    \A r \in Requests :
        /\ request[r].pc = "insert"
        /\ request[r].limit # NoLimit
        => Cardinality(Existing) < request[r].limit

\* More checks than the plan pays for.
OverLimit == limit # NoLimit /\ Cardinality(ActiveChecks) > limit

(***************************************************************************)
(* A downgrade takes effect: an account above its limit is brought back to *)
(* it, although passes die, two enforcers race and people keep editing     *)
(* checks (reconcile, pauseExcess).                                        *)
(***************************************************************************)
OverLimitIsEnforced == OverLimit ~> ~OverLimit

(***************************************************************************)
(* An upgrade takes effect: on an unlimited plan every check that quota    *)
(* stopped is given back (reconcile, resume).                              *)
(***************************************************************************)
UpgradeGivesBack ==
    \A c \in Checks :
        (c \in PausedByQuota /\ limit = NoLimit) ~> (c \notin PausedByQuota \/ limit # NoLimit)

(***************************************************************************)
(* A check somebody paused on purpose stays paused: only a person's edit   *)
(* brings it back (rule one of quota-enforcer.service.ts).                 *)
(***************************************************************************)
PausedOnPurposeStaysPaused ==
    \A c \in Checks : row[c].life = "alive" /\ row[c].onPurpose => row[c].state = "PAUSED"

(***************************************************************************)
(* A check that is not paused is being watched: it has a deadline whose    *)
(* passing detection would notice (resume leaves next_due_at null).        *)
(***************************************************************************)
RunningMeansWatched ==
    \A c \in Checks : row[c].life = "alive" /\ row[c].state = "RUNNING" => row[c].due

(***************************************************************************)
(* Nobody finds out by noticing the absence of alerts: a check that quota  *)
(* stopped is named in an email, also when two enforcers stop it at once   *)
(* and people edit it meanwhile, as long as no pass dies and no email      *)
(* fails (rule three of quota-enforcer.service.ts).                        *)
(***************************************************************************)
EveryStopIsAnnounced ==
    [](losses = 0) =>
        \A c \in Checks : c \in PausedByQuota ~> (c \in emailed \/ c \notin PausedByQuota)

=============================================================================
