------------------------------- MODULE Projects -------------------------------
(***************************************************************************)
(* The projects of one account and their API keys (projects.service.ts,    *)
(* projects.repository.ts, api-key.service.ts, api-keys.repository.ts,     *)
(* project-access.service.ts, account.service.ts). Requests of its         *)
(* sessions run at once, each as many steps as it makes statements; only   *)
(* the creation of a project counts under a lock. An account is in no      *)
(* project of somebody else: nothing adds members yet.                     *)
(***************************************************************************)
EXTENDS Integers, FiniteSets

CONSTANTS
    ProjectIds,
    ApiKeys,
    Actors,        \* requests in progress
    MaxProjects,   \* projects of the plan
    MaxLiveKeys,   \* MAX_LIVE_KEYS_PER_PROJECT
    Alone          \* kinds of requests that overlap no other

NoActor == "no actor"

ASSUME ProjectsAssumption ==
    /\ NoActor \notin Actors /\ ProjectIds # {} /\ MaxProjects \in Nat \ {0} /\ MaxLiveKeys \in Nat
    /\ Alone \subseteq {"create", "remove", "key", "revoke", "account"}

VARIABLES
    account,   \* open, disabled by the operator, or deleted
    projects,  \* each project: none, the account's, or without a member
    apiKeys,   \* each key's project and whether it opens the API
    act,       \* what each request is doing
    planLock   \* who holds the advisory lock of the account

projectVars == <<account, projects, apiKeys, act, planLock>>

NoProject == "no project"
NoKey == [project |-> NoProject, state |-> "none"]
NoAct == [kind |-> "none", pc |-> "none", project |-> NoProject, doomed |-> {}]
ActKinds == {"create", "remove", "key", "revoke", "account"}

ProjectsTypeOK ==
    /\ account \in {"open", "disabled", "gone"}
    /\ projects \in [ProjectIds -> {"none", "owned", "ownerless"}]
    /\ apiKeys \in [ApiKeys -> [project : ProjectIds, state : {"live", "revoked", "expired"}] \cup {NoKey}]
    /\ \A k \in ApiKeys : apiKeys[k] # NoKey => projects[apiKeys[k].project] # "none"
    /\ act \in [Actors -> [kind : ActKinds \cup {"none"}, pc : {"none", "access", "count", "write"},
                           project : ProjectIds \cup {NoProject}, doomed : SUBSET ProjectIds]]
    /\ planLock \in Actors \cup {NoActor}

First == CHOOSE p \in ProjectIds : TRUE

\* A registration leaves an account with its first project.
ProjectsInit ==
    /\ account = "open"
    /\ projects = [p \in ProjectIds |-> IF p = First THEN "owned" ELSE "none"]
    /\ apiKeys = [k \in ApiKeys |-> NoKey]
    /\ act = [a \in Actors |-> NoAct]
    /\ planLock = NoActor

OwnedProjects == {p \in ProjectIds : projects[p] = "owned"}
LiveKeys(p) == {k \in ApiKeys : apiKeys[k] = [project |-> p, state |-> "live"]}

(***************************************************************************)
(* The guard of every request, and what it asks of the project.            *)
(***************************************************************************)
\* AuthGuard: a disabled account has lost its sessions, a deleted one too.
SignedIn == account = "open"

Overlaps(kind) ==
    /\ kind \in Alone => \A a \in Actors : act[a] = NoAct
    /\ \A a \in Actors : act[a].kind \notin Alone

BeginAct(a, kind, pc, p) ==
    /\ SignedIn /\ act[a] = NoAct /\ Overlaps(kind)
    /\ act' = [act EXCEPT ![a] = [kind |-> kind, pc |-> pc, project |-> p, doomed |-> {}]]

\* ProjectAccessService.assertAccess: a project of nobody's is not found.
AssertAccess(a) ==
    /\ act[a].pc = "access"
    /\ act' = [act EXCEPT ![a] = IF act[a].project \in OwnedProjects THEN [@ EXCEPT !.pc = "count"] ELSE NoAct]
    /\ UNCHANGED <<account, projects, apiKeys, planLock>>

(***************************************************************************)
(* ProjectsService.                                                        *)
(***************************************************************************)
\* Mutant: the lock is left out.
PlanLockIsFreeForAll == TRUE

PlanLockIsFree == planLock = NoActor

\* QuotaService.serialised and assertCanAddProject.
StartProject(a) ==
    /\ PlanLockIsFree
    /\ BeginAct(a, "create", "count", NoProject)
    /\ planLock' = a
    /\ UNCHANGED <<account, projects, apiKeys>>

CountProjects(a) ==
    /\ act[a].kind = "create" /\ act[a].pc = "count"
    /\ IF Cardinality(OwnedProjects) + 1 > MaxProjects
       THEN act' = [act EXCEPT ![a] = NoAct] /\ planLock' = NoActor
       ELSE act' = [act EXCEPT ![a].pc = "write"] /\ UNCHANGED planLock
    /\ UNCHANGED <<account, projects, apiKeys>>

\* The owner's membership refers to the account, which must still be there.
CreateProject(a) ==
    /\ act[a].kind = "create" /\ act[a].pc = "write"
    /\ IF account = "gone" THEN UNCHANGED projects
       ELSE \E p \in ProjectIds : projects[p] = "none" /\ projects' = [projects EXCEPT ![p] = "owned"]
    /\ act' = [act EXCEPT ![a] = NoAct]
    /\ planLock' = NoActor
    /\ UNCHANGED <<account, apiKeys>>

StartRemoval(a, p) == BeginAct(a, "remove", "access", p) /\ UNCHANGED <<account, projects, apiKeys, planLock>>

\* Mutant: the count is of what is left afterwards.
IsLastProjectOfNone == Cardinality(OwnedProjects) < 1

IsLastProject == Cardinality(OwnedProjects) <= 1

\* ProjectsService.remove counts first,
CountMemberships(a) ==
    /\ act[a].kind = "remove" /\ act[a].pc = "count"
    /\ act' = [act EXCEPT ![a] = IF IsLastProject THEN NoAct ELSE [@ EXCEPT !.pc = "write"]]
    /\ UNCHANGED <<account, projects, apiKeys, planLock>>

\* Mutant: keys outlive their project.
WithAllKeys(gone) == apiKeys

WithoutKeysOf(gone) == [k \in ApiKeys |-> IF apiKeys[k].project \in gone THEN NoKey ELSE apiKeys[k]]

\* and then deletes, with what belongs to the project.
RemoveProject(a) ==
    /\ act[a].kind = "remove" /\ act[a].pc = "write"
    /\ projects' = [projects EXCEPT ![act[a].project] = "none"]
    /\ apiKeys' = WithoutKeysOf({act[a].project})
    /\ act' = [act EXCEPT ![a] = NoAct]
    /\ UNCHANGED <<account, planLock>>

(***************************************************************************)
(* ApiKeyService.                                                          *)
(***************************************************************************)
StartKey(a, p) == BeginAct(a, "key", "access", p) /\ UNCHANGED <<account, projects, apiKeys, planLock>>

\* Mutant: one more than the ceiling.
HasRoomForOneMore(p) == Cardinality(LiveKeys(p)) <= MaxLiveKeys

HasRoom(p) == Cardinality(LiveKeys(p)) < MaxLiveKeys

CountKeys(a) ==
    /\ act[a].kind = "key" /\ act[a].pc = "count"
    /\ act' = [act EXCEPT ![a] = IF HasRoom(act[a].project) THEN [@ EXCEPT !.pc = "write"] ELSE NoAct]
    /\ UNCHANGED <<account, projects, apiKeys, planLock>>

CreateKey(a) ==
    /\ act[a].kind = "key" /\ act[a].pc = "write"
    /\ IF projects[act[a].project] = "none" THEN UNCHANGED apiKeys
       ELSE \E k \in ApiKeys : /\ apiKeys[k] = NoKey
                               /\ apiKeys' = [apiKeys EXCEPT ![k] = [project |-> act[a].project, state |-> "live"]]
    /\ act' = [act EXCEPT ![a] = NoAct]
    /\ UNCHANGED <<account, projects, planLock>>

StartRevocation(a, p) == BeginAct(a, "revoke", "access", p) /\ UNCHANGED <<account, projects, apiKeys, planLock>>

\* One that was revoked before is no error, one of another project is not found.
RevokeKey(a, k) ==
    /\ act[a].kind = "revoke" /\ act[a].pc = "count"
    /\ apiKeys' = IF k \in LiveKeys(act[a].project) THEN [apiKeys EXCEPT ![k].state = "revoked"] ELSE apiKeys
    /\ act' = [act EXCEPT ![a] = NoAct]
    /\ UNCHANGED <<account, projects, planLock>>

ExpireKey(k) ==
    /\ apiKeys[k].state = "live"
    /\ apiKeys' = [apiKeys EXCEPT ![k].state = "expired"]
    /\ UNCHANGED <<account, projects, act, planLock>>

\* RetentionService, thirty days later.
PurgeDeadKey(k) ==
    /\ apiKeys[k].state \in {"revoked", "expired"}
    /\ apiKeys' = [apiKeys EXCEPT ![k] = NoKey]
    /\ UNCHANGED <<account, projects, act, planLock>>

\* ApiKeyService.resolve: a project all of whose owners are disabled is suspended.
Resolves(k) ==
    /\ apiKeys[k].state = "live"
    /\ ~(projects[apiKeys[k].project] = "owned" /\ account = "disabled")

(***************************************************************************)
(* The account.                                                            *)
(***************************************************************************)
StartDeletion(a) ==
    /\ BeginAct(a, "account", "count", NoProject)
    /\ UNCHANGED <<account, projects, apiKeys, planLock>>

\* AccountService.projectsToDelete.
ListProjects(a) ==
    /\ act[a].kind = "account" /\ act[a].pc = "count"
    /\ act' = [act EXCEPT ![a].pc = "write", ![a].doomed = OwnedProjects]
    /\ UNCHANGED <<account, projects, apiKeys, planLock>>

\* Mutant: the account goes, its projects stay.
DeleteOnlyTheUser(a) ==
    /\ act[a].kind = "account" /\ act[a].pc = "write"
    /\ account' = "gone"
    /\ projects' = [p \in ProjectIds |-> IF projects[p] = "owned" THEN "ownerless" ELSE projects[p]]
    /\ act' = [act EXCEPT ![a] = NoAct]
    /\ UNCHANGED <<apiKeys, planLock>>

\* UsersRepository.deleteWithProjects: those, then the account with its memberships.
DeleteWithProjects(a) ==
    LET doomed == act[a].doomed IN
    /\ act[a].kind = "account" /\ act[a].pc = "write"
    /\ IF account = "gone" THEN UNCHANGED <<account, projects, apiKeys>>
       ELSE /\ account' = "gone"
            /\ projects' = [p \in ProjectIds |->
                   CASE p \in doomed -> "none"
                     [] p \notin doomed /\ projects[p] = "owned" -> "ownerless"
                     [] OTHER -> projects[p]]
            /\ apiKeys' = WithoutKeysOf(doomed)
    /\ act' = [act EXCEPT ![a] = NoAct]
    /\ UNCHANGED <<planLock>>

\* The operator's commands user:disable and user:enable.
DisableOrEnable ==
    /\ account # "gone"
    /\ account' = IF account = "open" THEN "disabled" ELSE "open"
    /\ UNCHANGED <<projects, apiKeys, act, planLock>>

ProjectsNext ==
    \/ \E a \in Actors :
        \/ AssertAccess(a) \/ StartProject(a) \/ CountProjects(a) \/ CreateProject(a)
        \/ CountMemberships(a) \/ RemoveProject(a) \/ CountKeys(a) \/ CreateKey(a)
        \/ StartDeletion(a) \/ ListProjects(a) \/ DeleteWithProjects(a)
        \/ \E p \in ProjectIds : StartRemoval(a, p) \/ StartKey(a, p) \/ StartRevocation(a, p)
        \/ \E k \in ApiKeys : RevokeKey(a, k)
    \/ \E k \in ApiKeys : ExpireKey(k) \/ PurgeDeadKey(k)
    \/ DisableOrEnable

ProjectsSpec == ProjectsInit /\ [][ProjectsNext]_projectVars

(***************************************************************************)
(* Properties.                                                             *)
(***************************************************************************)
\* ProjectsService.create: two requests do not count the same free place.
ProjectsWithinPlan == Cardinality(OwnedProjects) <= MaxProjects

\* ProjectsService.remove: "An account with no project is not a state this application
\* has a screen for", and "the rule is enforced here". Not so when two removals overlap.
LastProjectStays == account = "open" => OwnedProjects # {}

\* MAX_LIVE_KEYS_PER_PROJECT: "keys a project may have at once". Not so when two
\* creations overlap.
KeysWithinCeiling == \A p \in ProjectIds : Cardinality(LiveKeys(p)) <= MaxLiveKeys

\* AccountService.delete: "deletes the account and everything only it held"; ApiKeyService:
\* a disabled account's projects are closed. Not so when a project is created meanwhile.
NothingOpensAfterwards ==
    /\ account # "open" => \A k \in ApiKeys : ~Resolves(k)
    /\ account = "gone" => \A p \in ProjectIds : projects[p] = "none"
===============================================================================
