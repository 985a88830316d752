------------------------------ MODULE RequestsProofs --------------------------
(***************************************************************************)
(* What requests that overlap leave behind is in order: projects and keys, *)
(* checks, channels and declarations within a plan, configurations under a *)
(* new key, answers to heartbeats, messages, and pages that wait for an    *)
(* answer. A section for each; the theorems are in ServicesProofs.         *)
(***************************************************************************)
EXTENDS StarterSync, Projects, Quota, Channels, ChannelConfigs, PingGate, Sending, WebSession, CheckDetail,
        FiniteSetTheorems, FunctionTheorems, SequenceTheorems, WellFoundedInduction, TLAPS

-----------------------------------------------------------------------------
(***************************************************************************)
(* The projects of an account and their keys.                              *)
(***************************************************************************)

ActRows == [kind : ActKinds \cup {"none"}, pc : {"none", "access", "count", "write"},
            project : ProjectIds \cup {NoProject}, doomed : SUBSET ProjectIds]

\* What a request in progress knows about the account.
Knows(a) ==
    /\ act[a].kind = "none" <=> act[a] = NoAct
    /\ act[a].kind = "create" => act[a].pc \in {"count", "write"} /\ planLock = a
    /\ act[a].kind \in {"remove", "key", "revoke"} => act[a].project \in ProjectIds
    /\ act[a].kind = "create" /\ act[a].pc = "write" => Cardinality(OwnedProjects) + 1 <= MaxProjects

ActsKnow == \A a \in Actors : Knows(a)

\* Projects are few, and few enough.
ProjectsInv ==
    /\ ProjectsTypeOK
    /\ ActsKnow
    /\ IsFiniteSet(OwnedProjects) /\ Cardinality(OwnedProjects) <= MaxProjects

LEMMA OneMore ==
    ASSUME NEW S, IsFiniteSet(S), NEW x
    PROVE  /\ IsFiniteSet(S \cup {x})
           /\ Cardinality(S \cup {x}) <= Cardinality(S) + 1
           /\ Cardinality(S) \in Nat /\ Cardinality(S \cup {x}) \in Nat
<1>1. IsFiniteSet(S \cup {x})
      /\ Cardinality(S \cup {x}) = IF x \in S THEN Cardinality(S) ELSE Cardinality(S) + 1
  BY FS_AddElement
<1>2. Cardinality(S) \in Nat /\ Cardinality(S \cup {x}) \in Nat
  BY <1>1, FS_CardinalityType
<1> QED
  BY <1>1, <1>2

LEMMA ActMoves ==
    ASSUME act \in [Actors -> ActRows], NEW a \in Actors,
           NEW pc \in {"none", "access", "count", "write"},
           act' = [act EXCEPT ![a].pc = pc]
    PROVE  /\ act' \in [Actors -> ActRows]
           /\ \A b \in Actors : b # a => act'[b] = act[b]
           /\ act'[a].kind = act[a].kind /\ act'[a].pc = pc
           /\ act'[a].project = act[a].project /\ act'[a].doomed = act[a].doomed
BY DEF ActRows

LEMMA ActEnds ==
    ASSUME act \in [Actors -> ActRows], NEW a \in Actors, act' = [act EXCEPT ![a] = NoAct]
    PROVE  /\ act' \in [Actors -> ActRows]
           /\ \A b \in Actors : b # a => act'[b] = act[b]
           /\ act'[a] = NoAct
BY DEF ActRows, NoAct, ActKinds

LEMMA ActBegins ==
    ASSUME act \in [Actors -> ActRows], NEW a \in Actors, NEW kind \in ActKinds,
           NEW pc \in {"access", "count"}, NEW p \in ProjectIds \cup {NoProject},
           BeginAct(a, kind, pc, p)
    PROVE  /\ act' \in [Actors -> ActRows]
           /\ \A b \in Actors : b # a => act'[b] = act[b]
           /\ act'[a] = [kind |-> kind, pc |-> pc, project |-> p, doomed |-> {}]
           /\ act[a] = NoAct
BY DEF ActRows, BeginAct, ActKinds

\* A step that leaves no more projects than there were keeps what requests know.
LEMMA FewerProjects ==
    ASSUME IsFiniteSet(OwnedProjects), OwnedProjects' \subseteq OwnedProjects
    PROVE  /\ IsFiniteSet(OwnedProjects')
           /\ Cardinality(OwnedProjects') <= Cardinality(OwnedProjects)
           /\ Cardinality(OwnedProjects') \in Nat /\ Cardinality(OwnedProjects) \in Nat
<1>1. IsFiniteSet(OwnedProjects') /\ Cardinality(OwnedProjects') <= Cardinality(OwnedProjects)
  BY FS_Subset
<1>2. Cardinality(OwnedProjects') \in Nat /\ Cardinality(OwnedProjects) \in Nat
  BY <1>1, FS_CardinalityType
<1> QED
  BY <1>1, <1>2

\* What the others know stays true.
LEMMA OthersKnow ==
    ASSUME ActsKnow, NEW a \in Actors, \A b \in Actors : b # a => act'[b] = act[b],
           planLock' = planLock \/ planLock \in {a, NoActor},
           Knows(a)',
           \/ Cardinality(OwnedProjects') <= Cardinality(OwnedProjects)
           \/ planLock = a,
           Cardinality(OwnedProjects') \in Nat, Cardinality(OwnedProjects) \in Nat
    PROVE  ActsKnow'
<1> SUFFICES ASSUME NEW b \in Actors, b # a PROVE Knows(b)'
  BY Zenon DEF ActsKnow, Knows
<1>1. Knows(b) /\ act'[b] = act[b]
  BY DEF ActsKnow, Knows
<1>2. act[b].kind = "create" => planLock = b /\ planLock' = b
  BY <1>1, ProjectsAssumption DEF Knows
<1>3. act[b].kind = "create" => Cardinality(OwnedProjects') <= Cardinality(OwnedProjects)
  BY <1>2
<1>4. act[b].kind = "create" /\ act[b].pc = "write" => Cardinality(OwnedProjects') + 1 <= MaxProjects
  BY <1>1, <1>3, ProjectsAssumption DEF Knows
<1> QED
  BY <1>1, <1>2, <1>4 DEF Knows

KeyRows == [project : ProjectIds, state : {"live", "revoked", "expired"}] \cup {NoKey}

LEMMA KeysGo ==
    ASSUME apiKeys \in [ApiKeys -> KeyRows], NEW gone, apiKeys' = WithoutKeysOf(gone),
           \A k \in ApiKeys : apiKeys[k] # NoKey => projects[apiKeys[k].project] # "none",
           \A p \in ProjectIds : p \notin gone /\ projects[p] # "none" => projects'[p] # "none"
    PROVE  /\ apiKeys' \in [ApiKeys -> KeyRows]
           /\ \A k \in ApiKeys : apiKeys'[k] # NoKey =>
                  projects'[apiKeys'[k].project] # "none" /\ apiKeys'[k] = apiKeys[k]
<1>1. \A k \in ApiKeys : apiKeys[k] \in KeyRows
  OBVIOUS
<1>2. \A k \in ApiKeys : apiKeys'[k] = NoKey \/ (apiKeys'[k] = apiKeys[k] /\ apiKeys[k].project \notin gone)
  BY DEF WithoutKeysOf
<1>3. apiKeys' \in [ApiKeys -> KeyRows]
  BY <1>1, <1>2 DEF WithoutKeysOf, KeyRows
<1>4. \A k \in ApiKeys : apiKeys[k] # NoKey => apiKeys[k].project \in ProjectIds
  BY <1>1 DEF KeyRows
<1> QED
  BY <1>2, <1>3, <1>4

LEMMA OneKeyChanges ==
    ASSUME apiKeys \in [ApiKeys -> KeyRows], NEW k \in ApiKeys, NEW state \in {"live", "revoked", "expired"},
           apiKeys[k] # NoKey, apiKeys' = [apiKeys EXCEPT ![k].state = state]
    PROVE  /\ apiKeys' \in [ApiKeys -> KeyRows]
           /\ apiKeys'[k] = [project |-> apiKeys[k].project, state |-> state]
           /\ \A l \in ApiKeys : l # k => apiKeys'[l] = apiKeys[l]
BY DEF KeyRows

\* The types, with the rows by name.
ProjectsTypes ==
    /\ account \in {"open", "disabled", "gone"}
    /\ projects \in [ProjectIds -> {"none", "owned", "ownerless"}]
    /\ apiKeys \in [ApiKeys -> KeyRows]
    /\ \A k \in ApiKeys : apiKeys[k] # NoKey => projects[apiKeys[k].project] # "none"
    /\ act \in [Actors -> ActRows]
    /\ planLock \in Actors \cup {NoActor}

LEMMA ProjectsTypesAre == (ProjectsTypeOK <=> ProjectsTypes) /\ (ProjectsTypeOK' <=> ProjectsTypes')
BY DEF ProjectsTypeOK, ProjectsTypes, KeyRows, ActRows

LEMMA ProjectsStep == ProjectsInv /\ [ProjectsNext]_projectVars => ProjectsInv'
<1> SUFFICES ASSUME ProjectsInv, [ProjectsNext]_projectVars
             PROVE  ProjectsInv'
  OBVIOUS
<1> DEFINE Few == IsFiniteSet(OwnedProjects) /\ Cardinality(OwnedProjects) <= MaxProjects
<1>t. ProjectsTypes /\ ActsKnow /\ Few
  BY ProjectsTypesAre DEF ProjectsInv
<1>n. Cardinality(OwnedProjects) \in Nat
  BY <1>t, FS_CardinalityType
<1>g. ProjectsTypes' /\ ActsKnow' /\ Few' => ProjectsInv'
  BY ProjectsTypesAre DEF ProjectsInv
\* A request that goes on, ends or begins without writing.
<1>1. ASSUME UNCHANGED <<account, projects, apiKeys>>, NEW a \in Actors,
             act' \in [Actors -> ActRows], \A b \in Actors : b # a => act'[b] = act[b],
             planLock' = planLock \/ (planLock' = NoActor /\ planLock = a)
             \/ (planLock' = a /\ planLock = NoActor),
             Knows(a)'
      PROVE  ProjectsInv'
  <2>1. OwnedProjects' = OwnedProjects
    BY <1>1 DEF OwnedProjects
  <2>2. ActsKnow'
    BY <1>1, <1>t, <1>n, <2>1, OthersKnow
  <2>3. ProjectsTypes'
    BY <1>1, <1>t DEF ProjectsTypes
  <2> QED
    BY <1>t, <1>g, <2>1, <2>2, <2>3
\* One that ends.
<1>2. ASSUME NEW a \in Actors, act' = [act EXCEPT ![a] = NoAct]
      PROVE  act' \in [Actors -> ActRows] /\ (\A b \in Actors : b # a => act'[b] = act[b]) /\ Knows(a)'
  BY <1>2, <1>t, ActEnds DEF ProjectsTypes, Knows, NoAct
<1>3. ASSUME NEW a \in Actors, act' = [act EXCEPT ![a] = NoAct],
             UNCHANGED <<account, projects, apiKeys>>, planLock' = planLock \/ (planLock' = NoActor /\ planLock = a)
      PROVE  ProjectsInv'
  BY <1>1, <1>2, <1>3
\* One that writes and ends, and leaves no more projects than there were.
<1>4. ASSUME NEW a \in Actors, act' = [act EXCEPT ![a] = NoAct], UNCHANGED planLock,
             account' \in {"open", "disabled", "gone"},
             projects' \in [ProjectIds -> {"none", "owned", "ownerless"}],
             apiKeys' \in [ApiKeys -> KeyRows],
             \A k \in ApiKeys : apiKeys'[k] # NoKey => projects'[apiKeys'[k].project] # "none",
             OwnedProjects' \subseteq OwnedProjects
      PROVE  ProjectsInv'
  <2>1. Few' /\ Cardinality(OwnedProjects') <= Cardinality(OwnedProjects) /\ Cardinality(OwnedProjects') \in Nat
    BY <1>4, <1>t, FewerProjects, ProjectsAssumption
  <2>2. ActsKnow'
    BY <1>2, <1>4, <1>t, <1>n, <2>1, OthersKnow
  <2>3. ProjectsTypes'
    BY <1>2, <1>4, <1>t DEF ProjectsTypes
  <2> QED
    BY <1>g, <2>1, <2>2, <2>3
\* A key that changes on its own.
<1>5. ASSUME UNCHANGED <<account, projects, act, planLock>>, apiKeys' \in [ApiKeys -> KeyRows],
             \A k \in ApiKeys : apiKeys'[k] # NoKey => projects'[apiKeys'[k].project] # "none"
      PROVE  ProjectsInv'
  <2>1. OwnedProjects' = OwnedProjects
    BY <1>5 DEF OwnedProjects
  <2>2. ActsKnow'
    BY <1>5, <1>t, <2>1 DEF ActsKnow, Knows
  <2>3. ProjectsTypes'
    BY <1>5, <1>t DEF ProjectsTypes
  <2> QED
    BY <1>g, <1>t, <2>1, <2>2, <2>3
<1>10. CASE UNCHANGED projectVars
  BY <1>10, <1>5, <1>t DEF projectVars, ProjectsTypes
<1>11. ASSUME NEW a \in Actors, AssertAccess(a) PROVE ProjectsInv'
  <2>1. CASE act[a].project \in OwnedProjects
    <3>1. act' = [act EXCEPT ![a].pc = "count"] /\ UNCHANGED <<account, projects, apiKeys, planLock>>
      BY <1>11, <2>1, <1>t DEF AssertAccess, ProjectsTypes, ActRows
    <3>2. Knows(a) /\ act[a].pc = "access"
      BY <1>11, <1>t DEF AssertAccess, ActsKnow
    <3>3. Knows(a)'
      BY <3>1, <3>2, <1>t, ActMoves DEF ProjectsTypes, Knows, NoAct
    <3> QED
      BY <1>1, <1>t, <3>1, <3>3, ActMoves DEF ProjectsTypes
  <2>2. CASE act[a].project \notin OwnedProjects
    BY <1>3, <1>11, <2>2 DEF AssertAccess
  <2> QED
    BY <2>1, <2>2
<1>12. ASSUME NEW a \in Actors, StartProject(a) PROVE ProjectsInv'
  <2>1. BeginAct(a, "create", "count", NoProject) /\ planLock = NoActor /\ planLock' = a
    BY <1>12 DEF StartProject, PlanLockIsFree
  <2>2. /\ act' \in [Actors -> ActRows] /\ \A b \in Actors : b # a => act'[b] = act[b]
        /\ act'[a] = [kind |-> "create", pc |-> "count", project |-> NoProject, doomed |-> {}]
    BY <1>t, <2>1, ActBegins DEF ProjectsTypes, ActKinds
  <2>3. Knows(a)'
    BY <2>1, <2>2 DEF Knows, NoAct
  <2> QED
    BY <1>1, <1>12, <2>1, <2>2, <2>3 DEF StartProject
<1>13. ASSUME NEW a \in Actors, CountProjects(a) PROVE ProjectsInv'
  <2>1. Knows(a) /\ planLock = a
    BY <1>13, <1>t DEF CountProjects, ActsKnow, Knows
  <2>2. CASE Cardinality(OwnedProjects) + 1 > MaxProjects
    BY <1>3, <1>13, <2>1, <2>2 DEF CountProjects
  <2>3. CASE ~(Cardinality(OwnedProjects) + 1 > MaxProjects)
    <3>1. act' = [act EXCEPT ![a].pc = "write"] /\ UNCHANGED <<account, projects, apiKeys, planLock>>
      BY <1>13, <2>3 DEF CountProjects
    <3>2. OwnedProjects' = OwnedProjects
      BY <3>1 DEF OwnedProjects
    <3>3. Knows(a)'
      BY <1>13, <1>n, <1>t, <2>1, <2>3, <3>1, <3>2, ActMoves, ProjectsAssumption
      DEF CountProjects, ProjectsTypes, Knows, NoAct
    <3> QED
      BY <1>1, <1>t, <3>1, <3>3, ActMoves DEF ProjectsTypes
  <2> QED
    BY <2>2, <2>3
<1>14. ASSUME NEW a \in Actors, CreateProject(a) PROVE ProjectsInv'
  <2>1. Knows(a) /\ planLock = a /\ Cardinality(OwnedProjects) + 1 <= MaxProjects
    BY <1>14, <1>t DEF CreateProject, ActsKnow, Knows
  <2>2. CASE account = "gone"
    BY <1>3, <1>14, <2>1, <2>2 DEF CreateProject
  <2>3. CASE account # "gone"
    <3>1. PICK p \in ProjectIds : projects[p] = "none" /\ projects' = [projects EXCEPT ![p] = "owned"]
      BY <1>14, <2>3 DEF CreateProject
    <3>2. act' = [act EXCEPT ![a] = NoAct] /\ planLock' = NoActor /\ UNCHANGED <<account, apiKeys>>
      BY <1>14 DEF CreateProject
    <3>3. OwnedProjects' = OwnedProjects \cup {p} /\ p \notin OwnedProjects
      BY <3>1, <1>t DEF OwnedProjects, ProjectsTypes
    <3>4. Few' /\ Cardinality(OwnedProjects') \in Nat
      BY <3>3, <2>1, <1>t, <1>n, FS_AddElement
    <3>5. ActsKnow'
      BY <1>2, <1>t, <1>n, <2>1, <3>2, <3>4, OthersKnow
    <3>6. \A q \in ProjectIds : projects[q] # "none" => projects'[q] # "none"
      BY <3>1, <1>t DEF ProjectsTypes
    <3>7. \A k \in ApiKeys : apiKeys[k] # NoKey => apiKeys[k].project \in ProjectIds
      BY <1>t DEF ProjectsTypes, KeyRows
    <3>8. \A k \in ApiKeys : apiKeys'[k] # NoKey => projects'[apiKeys'[k].project] # "none"
      BY <1>t, <3>2, <3>6, <3>7 DEF ProjectsTypes
    <3>9. projects' \in [ProjectIds -> {"none", "owned", "ownerless"}]
      BY <3>1, <1>t DEF ProjectsTypes
    <3>10. ProjectsTypes'
      BY <1>2, <1>t, <3>2, <3>8, <3>9 DEF ProjectsTypes
    <3> QED
      BY <1>g, <3>4, <3>5, <3>10
  <2> QED
    BY <2>2, <2>3
\* A request that goes on to write, and is not a creation of a project.
<1>6. ASSUME NEW a \in Actors, act[a].kind \notin {"create", "none"}, act' = [act EXCEPT ![a].pc = "write"],
             UNCHANGED <<account, projects, apiKeys, planLock>>
      PROVE  ProjectsInv'
  <2>1. Knows(a)
    BY <1>t DEF ActsKnow
  <2>2. Knows(a)'
    BY <1>6, <1>t, <2>1, ActMoves DEF ProjectsTypes, Knows, NoAct
  <2> QED
    BY <1>1, <1>6, <1>t, <2>2, ActMoves DEF ProjectsTypes
<1>15. ASSUME NEW a \in Actors, CountMemberships(a) PROVE ProjectsInv'
  <2>1. CASE IsLastProject
    BY <1>3, <1>15, <2>1 DEF CountMemberships
  <2>2. CASE ~IsLastProject
    <3>1. act' = [act EXCEPT ![a].pc = "write"]
      BY <1>15, <2>2, <1>t DEF CountMemberships, ProjectsTypes, ActRows
    <3> QED
      BY <1>6, <1>15, <3>1 DEF CountMemberships
  <2> QED
    BY <2>1, <2>2
<1>16. ASSUME NEW a \in Actors, RemoveProject(a) PROVE ProjectsInv'
  <2>1. act[a].project \in ProjectIds
    BY <1>16, <1>t DEF RemoveProject, ActsKnow, Knows
  <2>2. /\ projects' = [projects EXCEPT ![act[a].project] = "none"]
        /\ apiKeys' = WithoutKeysOf({act[a].project})
        /\ act' = [act EXCEPT ![a] = NoAct] /\ UNCHANGED <<account, planLock>>
    BY <1>16 DEF RemoveProject
  <2>3. projects' \in [ProjectIds -> {"none", "owned", "ownerless"}] /\ OwnedProjects' \subseteq OwnedProjects
    BY <2>1, <2>2, <1>t DEF ProjectsTypes, OwnedProjects
  <2>4. \A p \in ProjectIds : p \notin {act[a].project} /\ projects[p] # "none" => projects'[p] # "none"
    BY <2>1, <2>2, <1>t DEF ProjectsTypes
  <2>5. /\ apiKeys' \in [ApiKeys -> KeyRows]
        /\ \A k \in ApiKeys : apiKeys'[k] # NoKey => projects'[apiKeys'[k].project] # "none"
    BY <1>t, <2>2, <2>4, KeysGo DEF ProjectsTypes
  <2> QED
    BY <1>4, <1>t, <2>2, <2>3, <2>5 DEF ProjectsTypes
<1>17. ASSUME NEW a \in Actors, CountKeys(a) PROVE ProjectsInv'
  <2>1. CASE ~HasRoom(act[a].project)
    BY <1>3, <1>17, <2>1 DEF CountKeys
  <2>2. CASE HasRoom(act[a].project)
    <3>1. act' = [act EXCEPT ![a].pc = "write"]
      BY <1>17, <2>2, <1>t DEF CountKeys, ProjectsTypes, ActRows
    <3> QED
      BY <1>6, <1>17, <3>1 DEF CountKeys
  <2> QED
    BY <2>1, <2>2
<1>18. ASSUME NEW a \in Actors, CreateKey(a) PROVE ProjectsInv'
  <2>1. act[a].project \in ProjectIds
    BY <1>18, <1>t DEF CreateKey, ActsKnow, Knows
  <2>2. CASE projects[act[a].project] = "none"
    BY <1>3, <1>18, <2>2 DEF CreateKey
  <2>3. CASE projects[act[a].project] # "none"
    <3>1. PICK k \in ApiKeys : apiKeys' = [apiKeys EXCEPT ![k] = [project |-> act[a].project, state |-> "live"]]
      BY <1>18, <2>3 DEF CreateKey
    <3>2. /\ apiKeys' \in [ApiKeys -> KeyRows]
          /\ \A l \in ApiKeys : apiKeys'[l] # NoKey => projects[apiKeys'[l].project] # "none"
      BY <2>1, <2>3, <3>1, <1>t DEF ProjectsTypes, KeyRows
    <3> QED
      BY <1>4, <1>18, <1>t, <3>2 DEF CreateKey, ProjectsTypes, OwnedProjects
  <2> QED
    BY <2>2, <2>3
<1>7. ASSUME NEW a \in Actors, NEW kind \in ActKinds \ {"create"}, NEW pc \in {"access", "count"},
             NEW p \in ProjectIds \cup {NoProject}, kind # "account" => p \in ProjectIds,
             BeginAct(a, kind, pc, p), UNCHANGED <<account, projects, apiKeys, planLock>>
      PROVE  ProjectsInv'
  <2>1. /\ act' \in [Actors -> ActRows] /\ \A b \in Actors : b # a => act'[b] = act[b]
        /\ act'[a] = [kind |-> kind, pc |-> pc, project |-> p, doomed |-> {}]
    BY <1>7, <1>t, ActBegins DEF ProjectsTypes
  <2>2. Knows(a)'
    BY <1>7, <2>1 DEF Knows, NoAct, ActKinds
  <2> QED
    BY <1>1, <1>7, <2>1, <2>2
<1>19. ASSUME NEW a \in Actors, StartDeletion(a) PROVE ProjectsInv'
  BY <1>7, <1>19 DEF StartDeletion, ActKinds
<1>20. ASSUME NEW a \in Actors, NEW p \in ProjectIds, StartRemoval(a, p) \/ StartKey(a, p) \/ StartRevocation(a, p)
       PROVE  ProjectsInv'
  BY <1>7, <1>20 DEF StartRemoval, StartKey, StartRevocation, ActKinds
<1>21. ASSUME NEW a \in Actors, ListProjects(a) PROVE ProjectsInv'
  <2>1. act' \in [Actors -> ActRows] /\ \A b \in Actors : b # a => act'[b] = act[b]
    BY <1>21, <1>t DEF ListProjects, ProjectsTypes, ActRows, OwnedProjects
  <2>2. act'[a].kind = "account"
    BY <1>21, <1>t DEF ListProjects, ProjectsTypes, ActRows
  <2>3. Knows(a)'
    BY <2>2 DEF Knows, NoAct
  <2> QED
    BY <1>1, <1>21, <2>1, <2>3 DEF ListProjects
<1>22. ASSUME NEW a \in Actors, DeleteWithProjects(a) PROVE ProjectsInv'
  <2>1. CASE account = "gone"
    BY <1>3, <1>22, <2>1 DEF DeleteWithProjects
  <2>2. CASE account # "gone"
    <3> DEFINE doomed == act[a].doomed
    <3>1. /\ account' = "gone" /\ apiKeys' = WithoutKeysOf(doomed)
          /\ projects' = [p \in ProjectIds |->
                   CASE p \in doomed -> "none"
                     [] p \notin doomed /\ projects[p] = "owned" -> "ownerless"
                     [] OTHER -> projects[p]]
          /\ act' = [act EXCEPT ![a] = NoAct] /\ UNCHANGED planLock
      BY <1>22, <2>2 DEF DeleteWithProjects
    <3>2. /\ projects' \in [ProjectIds -> {"none", "owned", "ownerless"}]
          /\ OwnedProjects' \subseteq OwnedProjects
          /\ \A p \in ProjectIds : p \notin doomed /\ projects[p] # "none" => projects'[p] # "none"
      BY <3>1, <1>t DEF ProjectsTypes, OwnedProjects
    <3>3. /\ apiKeys' \in [ApiKeys -> KeyRows]
          /\ \A k \in ApiKeys : apiKeys'[k] # NoKey => projects'[apiKeys'[k].project] # "none"
      BY <1>t, <3>1, <3>2, KeysGo DEF ProjectsTypes
    <3> QED
      BY <1>4, <3>1, <3>2, <3>3
  <2> QED
    BY <2>1, <2>2
<1>23. ASSUME NEW a \in Actors, NEW k \in ApiKeys, RevokeKey(a, k) PROVE ProjectsInv'
  <2>1. CASE k \notin LiveKeys(act[a].project)
    BY <1>3, <1>23, <2>1 DEF RevokeKey
  <2>2. CASE k \in LiveKeys(act[a].project)
    <3>1. apiKeys[k] # NoKey /\ apiKeys' = [apiKeys EXCEPT ![k].state = "revoked"]
      BY <1>23, <2>2 DEF RevokeKey, LiveKeys, NoKey
    <3>2. /\ apiKeys' \in [ApiKeys -> KeyRows]
          /\ apiKeys'[k] = [project |-> apiKeys[k].project, state |-> "revoked"]
          /\ \A l \in ApiKeys : l # k => apiKeys'[l] = apiKeys[l]
      BY <1>t, <3>1, OneKeyChanges DEF ProjectsTypes
    <3>3. \A l \in ApiKeys : apiKeys'[l] # NoKey => projects[apiKeys'[l].project] # "none"
      BY <1>t, <3>1, <3>2 DEF ProjectsTypes
    <3> QED
      BY <1>4, <1>23, <1>t, <3>2, <3>3 DEF RevokeKey, ProjectsTypes, OwnedProjects
  <2> QED
    BY <2>1, <2>2
<1>24. ASSUME NEW k \in ApiKeys, ExpireKey(k) PROVE ProjectsInv'
  <2>1. apiKeys[k] # NoKey /\ apiKeys' = [apiKeys EXCEPT ![k].state = "expired"]
    BY <1>24 DEF ExpireKey, NoKey
  <2>2. /\ apiKeys' \in [ApiKeys -> KeyRows]
        /\ apiKeys'[k] = [project |-> apiKeys[k].project, state |-> "expired"]
        /\ \A l \in ApiKeys : l # k => apiKeys'[l] = apiKeys[l]
    BY <1>t, <2>1, OneKeyChanges DEF ProjectsTypes
  <2>3. \A l \in ApiKeys : apiKeys'[l] # NoKey => projects[apiKeys'[l].project] # "none"
    BY <1>t, <2>1, <2>2 DEF ProjectsTypes
  <2> QED
    BY <1>5, <1>24, <2>2, <2>3 DEF ExpireKey
<1>25. ASSUME NEW k \in ApiKeys, PurgeDeadKey(k) PROVE ProjectsInv'
  <2>1. /\ apiKeys' \in [ApiKeys -> KeyRows]
        /\ \A l \in ApiKeys : apiKeys'[l] # NoKey => projects[apiKeys'[l].project] # "none"
    BY <1>25, <1>t DEF PurgeDeadKey, ProjectsTypes, KeyRows
  <2> QED
    BY <1>5, <1>25, <2>1 DEF PurgeDeadKey
<1>26. ASSUME DisableOrEnable PROVE ProjectsInv'
  <2>1. OwnedProjects' = OwnedProjects
    BY <1>26 DEF DisableOrEnable, OwnedProjects
  <2>2. ActsKnow'
    BY <1>26, <1>t, <2>1 DEF DisableOrEnable, ActsKnow, Knows
  <2>3. ProjectsTypes'
    BY <1>26, <1>t DEF DisableOrEnable, ProjectsTypes
  <2> QED
    BY <1>g, <1>t, <2>1, <2>2, <2>3
<1> HIDE DEF Few
<1> QED
  BY <1>10, <1>11, <1>12, <1>13, <1>14, <1>15, <1>16, <1>17, <1>18, <1>19, <1>20, <1>21, <1>22, <1>23,
     <1>24, <1>25, <1>26 DEF ProjectsNext

LEMMA ProjectsInitially == ProjectsInit => ProjectsInv
<1> SUFFICES ASSUME ProjectsInit PROVE ProjectsInv
  OBVIOUS
<1>1. First \in ProjectIds
  BY ProjectsAssumption DEF First
<1>2. OwnedProjects = {First}
  BY <1>1 DEF ProjectsInit, OwnedProjects
<1>3. IsFiniteSet(OwnedProjects) /\ Cardinality(OwnedProjects) = 1
  BY <1>2, FS_Singleton
<1>4. ActsKnow
  BY DEF ProjectsInit, ActsKnow, Knows, NoAct
<1>5. ProjectsTypeOK
  BY DEF ProjectsInit, ProjectsTypeOK, NoAct, NoKey
<1> QED
  BY <1>3, <1>4, <1>5, ProjectsAssumption DEF ProjectsInv

(***************************************************************************)
(* When removals, new keys and deletions of the account overlap nothing:   *)
(* what each has counted is still so when it writes.                       *)
(***************************************************************************)
OnlyCreationsOverlap == {"remove", "key", "account"} \subseteq Alone

TheyOverlapNothing ==
    \A a, b \in Actors : a # b /\ act[a].kind \in Alone => act[b].kind = "none"

CountsAreStillSo(a) ==
    /\ act[a].kind = "remove" /\ act[a].pc = "write" => Cardinality(OwnedProjects) > 1
    /\ act[a].kind = "account" /\ act[a].pc = "write" => act[a].doomed = OwnedProjects
    /\ act[a].kind = "key" /\ act[a].pc = "write" => Cardinality(LiveKeys(act[a].project)) < MaxLiveKeys

AccountInOrder ==
    /\ \A p \in ProjectIds : projects[p] # "ownerless"
    /\ account = "gone" <=> OwnedProjects = {}
    /\ \A p \in ProjectIds : IsFiniteSet(LiveKeys(p)) /\ Cardinality(LiveKeys(p)) <= MaxLiveKeys

OrderInv ==
    /\ TheyOverlapNothing
    /\ \A a \in Actors : CountsAreStillSo(a)
    /\ AccountInOrder

LEMMA KindsMove ==
    ASSUME act \in [Actors -> ActRows], [ProjectsNext]_projectVars
    PROVE  \/ \A b \in Actors : act'[b].kind \in {act[b].kind, "none"}
           \/ \E a \in Actors, kind \in ActKinds :
                  Overlaps(kind) /\ act'[a].kind = kind /\ \A b \in Actors : b # a => act'[b] = act[b]
<1> DEFINE Ends(a) == act' = [act EXCEPT ![a] = NoAct]
           Goes(a) == act' = [act EXCEPT ![a].pc = act'[a].pc]
           Begins(a) == \E kind \in ActKinds, pc \in {"access", "count"}, p \in ProjectIds \cup {NoProject} :
                            BeginAct(a, kind, pc, p)
<1>1. ASSUME NEW a \in Actors, Ends(a) PROVE \A b \in Actors : act'[b].kind \in {act[b].kind, "none"}
  BY <1>1, ActEnds DEF NoAct
<1>2. ASSUME NEW a \in Actors, NEW pc, act' = [act EXCEPT ![a].pc = pc]
      PROVE  \A b \in Actors : act'[b].kind \in {act[b].kind, "none"}
  BY <1>2 DEF ActRows
<1>3. ASSUME NEW a \in Actors, Begins(a)
      PROVE  \E kind \in ActKinds :
                 Overlaps(kind) /\ act'[a].kind = kind /\ \A b \in Actors : b # a => act'[b] = act[b]
  <2>1. PICK kind \in ActKinds, pc \in {"access", "count"}, p \in ProjectIds \cup {NoProject} :
            BeginAct(a, kind, pc, p)
    BY <1>3
  <2> QED
    BY <2>1, ActBegins DEF BeginAct
<1>4. CASE act' = act
  BY <1>4
<1>5. ASSUME NEW a \in Actors,
             \/ CreateProject(a) \/ RemoveProject(a) \/ CreateKey(a) \/ DeleteWithProjects(a)
             \/ \E k \in ApiKeys : RevokeKey(a, k)
      PROVE  Ends(a)
  BY <1>5 DEF CreateProject, RemoveProject, CreateKey, DeleteWithProjects, RevokeKey
<1>6. ASSUME NEW a \in Actors,
             AssertAccess(a) \/ CountProjects(a) \/ CountMemberships(a) \/ CountKeys(a)
      PROVE  Ends(a) \/ \E pc \in {"count", "write"} : act' = [act EXCEPT ![a].pc = pc]
  <2>1. CASE AssertAccess(a)
    <3>1. CASE act[a].project \in OwnedProjects
      <4>1. act' = [act EXCEPT ![a].pc = "count"]
        BY <2>1, <3>1 DEF AssertAccess, ActRows
      <4> QED
        BY <4>1
    <3>2. CASE act[a].project \notin OwnedProjects
      BY <2>1, <3>2 DEF AssertAccess
    <3> QED
      BY <3>1, <3>2
  <2>2. CASE CountProjects(a)
    BY <2>2 DEF CountProjects
  <2>3. CASE CountMemberships(a)
    <3>1. CASE IsLastProject
      BY <2>3, <3>1 DEF CountMemberships
    <3>2. CASE ~IsLastProject
      <4>1. act' = [act EXCEPT ![a].pc = "write"]
        BY <2>3, <3>2 DEF CountMemberships, ActRows
      <4> QED
        BY <4>1
    <3> QED
      BY <3>1, <3>2
  <2>4. CASE CountKeys(a)
    <3>1. CASE ~HasRoom(act[a].project)
      BY <2>4, <3>1 DEF CountKeys
    <3>2. CASE HasRoom(act[a].project)
      <4>1. act' = [act EXCEPT ![a].pc = "write"]
        BY <2>4, <3>2 DEF CountKeys, ActRows
      <4> QED
        BY <4>1
    <3> QED
      BY <3>1, <3>2
  <2> QED
    BY <1>6, <2>1, <2>2, <2>3, <2>4
<1>7. ASSUME NEW a \in Actors, ListProjects(a)
      PROVE  \A b \in Actors : act'[b].kind \in {act[b].kind, "none"}
  BY <1>7 DEF ListProjects, ActRows
<1>8. ASSUME NEW a \in Actors,
             \/ StartProject(a) \/ StartDeletion(a)
             \/ \E p \in ProjectIds : StartRemoval(a, p) \/ StartKey(a, p) \/ StartRevocation(a, p)
      PROVE  Begins(a)
  BY <1>8 DEF StartProject, StartDeletion, StartRemoval, StartKey, StartRevocation, ActKinds
<1>9. UNCHANGED projectVars \/ DisableOrEnable \/ (\E k \in ApiKeys : ExpireKey(k) \/ PurgeDeadKey(k)) => act' = act
  BY DEF projectVars, DisableOrEnable, ExpireKey, PurgeDeadKey
<1> HIDE DEF Ends, Begins
<1> QED
  BY <1>1, <1>2, <1>3, <1>4, <1>5, <1>6, <1>7, <1>8, <1>9 DEF ProjectsNext

LEMMA NothingOverlapsStep ==
    ASSUME ProjectsInv, TheyOverlapNothing, [ProjectsNext]_projectVars
    PROVE  TheyOverlapNothing'
<1>1. act \in [Actors -> ActRows] /\ ActsKnow
  BY ProjectsTypesAre DEF ProjectsInv, ProjectsTypes
<1>2. "none" \notin Alone
  BY ProjectsAssumption
<1>3. CASE \A b \in Actors : act'[b].kind \in {act[b].kind, "none"}
  BY <1>2, <1>3 DEF TheyOverlapNothing
<1>4. ASSUME NEW a \in Actors, NEW kind \in ActKinds,
             Overlaps(kind), act'[a].kind = kind, \A b \in Actors : b # a => act'[b] = act[b]
      PROVE  TheyOverlapNothing'
  BY <1>4 DEF TheyOverlapNothing, Overlaps, NoAct
<1> QED
  BY <1>1, <1>3, <1>4, KindsMove

LEMMA OthersCountNothing ==
    ASSUME OnlyCreationsOverlap, TheyOverlapNothing,
           NEW a \in Actors, \A b \in Actors : b # a => act'[b] = act[b],
           act[a].kind # "none" \/ \A b \in Actors : act[b].kind \notin Alone
    PROVE  \A b \in Actors : b # a => CountsAreStillSo(b)'
<1> SUFFICES ASSUME NEW b \in Actors, b # a PROVE CountsAreStillSo(b)'
  OBVIOUS
<1>1. act[b].kind \notin Alone /\ act'[b] = act[b]
  BY DEF TheyOverlapNothing
<1> QED
  BY <1>1 DEF OnlyCreationsOverlap, CountsAreStillSo

LEMMA FewerKeys ==
    ASSUME NEW p \in ProjectIds, IsFiniteSet(LiveKeys(p)), Cardinality(LiveKeys(p)) <= MaxLiveKeys,
           LiveKeys(p)' \subseteq LiveKeys(p)
    PROVE  IsFiniteSet(LiveKeys(p)') /\ Cardinality(LiveKeys(p)') <= MaxLiveKeys
<1>1. IsFiniteSet(LiveKeys(p)') /\ Cardinality(LiveKeys(p)') <= Cardinality(LiveKeys(p))
  BY FS_Subset
<1>2. Cardinality(LiveKeys(p)') \in Nat /\ Cardinality(LiveKeys(p)) \in Nat
  BY <1>1, FS_CardinalityType
<1> QED
  BY <1>1, <1>2, ProjectsAssumption

LEMMA OrderStep == OnlyCreationsOverlap /\ ProjectsInv /\ OrderInv /\ [ProjectsNext]_projectVars => OrderInv'
<1> SUFFICES ASSUME OnlyCreationsOverlap, ProjectsInv, OrderInv, [ProjectsNext]_projectVars
             PROVE  OrderInv'
  OBVIOUS
<1>t. ProjectsTypes /\ ActsKnow
  BY ProjectsTypesAre DEF ProjectsInv
<1>o. TheyOverlapNothing /\ (\A a \in Actors : CountsAreStillSo(a)) /\ AccountInOrder
  BY DEF OrderInv
<1>n. TheyOverlapNothing'
  BY NothingOverlapsStep DEF OrderInv
\* A request that writes nothing.
<1>1. ASSUME UNCHANGED <<projects, apiKeys>>, account' = account
      PROVE  AccountInOrder'
  BY <1>1, <1>o DEF AccountInOrder, OwnedProjects, LiveKeys
<1>2. ASSUME NEW a \in Actors, \A b \in Actors : b # a => act'[b] = act[b],
             act[a].kind # "none" \/ \A b \in Actors : act[b].kind \notin Alone,
             CountsAreStillSo(a)', AccountInOrder'
      PROVE  OrderInv'
  <2>1. \A b \in Actors : CountsAreStillSo(b)'
    BY <1>2, <1>o, OthersCountNothing
  <2> QED
    BY <1>2, <1>n, <2>1 DEF OrderInv
<1>3. ASSUME NEW a \in Actors, act[a].kind # "none", act' = [act EXCEPT ![a] = NoAct], AccountInOrder'
      PROVE  OrderInv'
  <2>1. (\A b \in Actors : b # a => act'[b] = act[b]) /\ CountsAreStillSo(a)'
    BY <1>3, <1>t, ActEnds DEF ProjectsTypes, CountsAreStillSo, NoAct
  <2> QED
    BY <1>2, <1>3, <2>1
<1>4. ASSUME NEW a \in Actors, NEW kind \in ActKinds, NEW pc \in {"access", "count"},
             NEW p \in ProjectIds \cup {NoProject},
             BeginAct(a, kind, pc, p), UNCHANGED <<account, projects, apiKeys>>
      PROVE  OrderInv'
  <2>0. /\ \A b \in Actors : b # a => act'[b] = act[b]
        /\ act'[a] = [kind |-> kind, pc |-> pc, project |-> p, doomed |-> {}]
    BY <1>4, <1>t, ActBegins DEF ProjectsTypes
  <2>1. (\A b \in Actors : b # a => act'[b] = act[b]) /\ act'[a].pc = pc
    BY <2>0
  <2>2. CountsAreStillSo(a)'
    BY <2>1 DEF CountsAreStillSo
  <2> QED
    BY <1>1, <1>2, <1>4, <2>1, <2>2 DEF BeginAct, Overlaps
\* No request: nothing is counted anew.
<1>5. ASSUME UNCHANGED <<projects, act>>, AccountInOrder',
             \A p \in ProjectIds : LiveKeys(p)' \subseteq LiveKeys(p)
      PROVE  OrderInv'
  <2>1. \A a \in Actors : CountsAreStillSo(a)'
    <3> SUFFICES ASSUME NEW a \in Actors PROVE CountsAreStillSo(a)'
      OBVIOUS
    <3>1. CountsAreStillSo(a) /\ act'[a] = act[a] /\ OwnedProjects' = OwnedProjects
      BY <1>5, <1>o DEF OwnedProjects
    <3>2. CASE act[a].kind = "key"
      <4>1. PICK p \in ProjectIds : p = act[a].project
        BY <3>2, <1>t DEF ActsKnow, Knows
      <4>2. LiveKeys(p)' \subseteq LiveKeys(p) /\ IsFiniteSet(LiveKeys(p)) /\ act'[a].project = p
        BY <1>5, <1>o, <3>1, <4>1 DEF AccountInOrder
      <4>3. Cardinality(LiveKeys(p)') <= Cardinality(LiveKeys(p)) /\ IsFiniteSet(LiveKeys(p)')
        BY <4>2, FS_Subset
      <4>4. Cardinality(LiveKeys(p)') \in Nat /\ Cardinality(LiveKeys(p)) \in Nat
        BY <4>2, <4>3, FS_CardinalityType
      <4>5. Cardinality(LiveKeys(p)) < MaxLiveKeys => Cardinality(LiveKeys(p)') < MaxLiveKeys
        BY <4>3, <4>4, ProjectsAssumption
      <4> QED
        BY <3>1, <3>2, <4>1, <4>2, <4>5 DEF CountsAreStillSo
    <3>3. CASE act[a].kind # "key"
      BY <3>1, <3>3 DEF CountsAreStillSo
    <3> QED
      BY <3>2, <3>3
  <2> QED
    BY <1>5, <1>n, <2>1 DEF OrderInv
<1>10. CASE UNCHANGED projectVars
  <2>1. UNCHANGED <<account, projects, apiKeys, act>>
    BY <1>10 DEF projectVars
  <2>2. \A p \in ProjectIds : LiveKeys(p)' \subseteq LiveKeys(p)
    BY <2>1 DEF LiveKeys
  <2> QED
    BY <1>1, <1>5, <2>1, <2>2
<1>11. ASSUME NEW a \in Actors, AssertAccess(a) PROVE OrderInv'
  <2>1. act[a].kind # "none" /\ AccountInOrder'
    BY <1>1, <1>11, <1>t DEF AssertAccess, ActsKnow, Knows, NoAct
  <2>2. CASE act[a].project \in OwnedProjects
    <3>1. act' = [act EXCEPT ![a].pc = "count"]
      BY <1>11, <2>2, <1>t DEF AssertAccess, ProjectsTypes, ActRows
    <3>2. CountsAreStillSo(a)' /\ \A b \in Actors : b # a => act'[b] = act[b]
      BY <3>1, <1>t, ActMoves DEF ProjectsTypes, CountsAreStillSo
    <3> QED
      BY <1>2, <2>1, <3>2
  <2>3. CASE act[a].project \notin OwnedProjects
    BY <1>3, <1>11, <2>1, <2>3 DEF AssertAccess
  <2> QED
    BY <2>2, <2>3
<1>12. ASSUME NEW a \in Actors, NEW p \in ProjectIds,
              \/ StartProject(a) \/ StartDeletion(a)
              \/ StartRemoval(a, p) \/ StartKey(a, p) \/ StartRevocation(a, p)
       PROVE  OrderInv'
  BY <1>4, <1>12 DEF StartProject, StartDeletion, StartRemoval, StartKey, StartRevocation, ActKinds
<1>13. ASSUME NEW a \in Actors, CountProjects(a) PROVE OrderInv'
  <2>1. act[a].kind = "create" /\ AccountInOrder'
    BY <1>1, <1>13 DEF CountProjects
  <2>2. CASE act' = [act EXCEPT ![a] = NoAct]
    BY <1>3, <2>1, <2>2
  <2>3. CASE act' = [act EXCEPT ![a].pc = "write"]
    <3>1. CountsAreStillSo(a)' /\ \A b \in Actors : b # a => act'[b] = act[b]
      BY <2>1, <2>3, <1>t, ActMoves DEF ProjectsTypes, CountsAreStillSo
    <3> QED
      BY <1>2, <2>1, <3>1
  <2> QED
    BY <1>13, <2>2, <2>3 DEF CountProjects
<1>14. ASSUME NEW a \in Actors, CreateProject(a) PROVE OrderInv'
  <2>1. act[a].kind = "create" /\ act' = [act EXCEPT ![a] = NoAct] /\ UNCHANGED <<account, apiKeys>>
    BY <1>14 DEF CreateProject
  <2>2. CASE account = "gone"
    BY <1>1, <1>3, <1>14, <2>1, <2>2 DEF CreateProject
  <2>3. CASE account # "gone"
    <3>1. PICK p \in ProjectIds : projects[p] = "none" /\ projects' = [projects EXCEPT ![p] = "owned"]
      BY <1>14, <2>3 DEF CreateProject
    <3>2. p \in OwnedProjects' /\ \A q \in ProjectIds : projects'[q] # "ownerless"
      BY <3>1, <1>o, <1>t DEF OwnedProjects, ProjectsTypes, AccountInOrder
    <3>3. \A q \in ProjectIds : LiveKeys(q)' = LiveKeys(q)
      BY <2>1 DEF LiveKeys
    <3>4. AccountInOrder'
      BY <1>o, <2>1, <2>3, <3>2, <3>3 DEF AccountInOrder
    <3> QED
      BY <1>3, <2>1, <3>4
  <2> QED
    BY <2>2, <2>3
<1>15. ASSUME NEW a \in Actors, CountMemberships(a) PROVE OrderInv'
  <2>1. act[a].kind = "remove" /\ AccountInOrder'
    BY <1>1, <1>15 DEF CountMemberships
  <2>2. CASE IsLastProject
    BY <1>3, <1>15, <2>1, <2>2 DEF CountMemberships
  <2>3. CASE ~IsLastProject
    <3>1. act' = [act EXCEPT ![a].pc = "write"] /\ UNCHANGED projects
      BY <1>15, <2>3, <1>t DEF CountMemberships, ProjectsTypes, ActRows
    <3>2. Cardinality(OwnedProjects) \in Nat /\ OwnedProjects' = OwnedProjects
      BY <3>1, FS_CardinalityType DEF ProjectsInv, OwnedProjects
    <3>3. CountsAreStillSo(a)' /\ \A b \in Actors : b # a => act'[b] = act[b]
      BY <2>1, <2>3, <3>1, <3>2, <1>t, ActMoves DEF ProjectsTypes, CountsAreStillSo, IsLastProject
    <3> QED
      BY <1>2, <2>1, <3>3
  <2> QED
    BY <2>2, <2>3
<1>16. ASSUME NEW a \in Actors, RemoveProject(a) PROVE OrderInv'
  <2>1. /\ act[a].kind = "remove" /\ act[a].pc = "write" /\ act' = [act EXCEPT ![a] = NoAct]
        /\ projects' = [projects EXCEPT ![act[a].project] = "none"]
        /\ apiKeys' = WithoutKeysOf({act[a].project}) /\ account' = account
    BY <1>16 DEF RemoveProject
  <2>2. Cardinality(OwnedProjects) > 1 /\ IsFiniteSet(OwnedProjects)
    BY <2>1, <1>o DEF CountsAreStillSo, ProjectsInv
  <2>3. OwnedProjects' = OwnedProjects \ {act[a].project}
    BY <2>1, <1>t DEF OwnedProjects, ProjectsTypes
  <2>4. OwnedProjects' # {} /\ OwnedProjects # {}
    BY <2>2, <2>3, FS_RemoveElement, FS_EmptySet, FS_CardinalityType
  <2>5. \A p \in ProjectIds : projects'[p] # "ownerless"
    BY <2>1, <1>o, <1>t DEF ProjectsTypes, AccountInOrder
  <2>6. \A p \in ProjectIds : LiveKeys(p)' \subseteq LiveKeys(p)
    BY <2>1 DEF WithoutKeysOf, LiveKeys, NoKey
  <2>7. AccountInOrder'
    BY <1>o, <2>1, <2>4, <2>5, <2>6, FewerKeys DEF AccountInOrder
  <2> QED
    BY <1>3, <2>1, <2>7
<1>17. ASSUME NEW a \in Actors, CountKeys(a) PROVE OrderInv'
  <2>1. act[a].kind = "key" /\ AccountInOrder'
    BY <1>1, <1>17 DEF CountKeys
  <2>2. CASE ~HasRoom(act[a].project)
    BY <1>3, <1>17, <2>1, <2>2 DEF CountKeys
  <2>3. CASE HasRoom(act[a].project)
    <3>1. act' = [act EXCEPT ![a].pc = "write"] /\ UNCHANGED apiKeys
      BY <1>17, <2>3, <1>t DEF CountKeys, ProjectsTypes, ActRows
    <3>2. act'[a].kind = "key" /\ act'[a].project = act[a].project /\ \A b \in Actors : b # a => act'[b] = act[b]
      BY <2>1, <3>1, <1>t, ActMoves DEF ProjectsTypes
    <3>3. \A p : LiveKeys(p)' = LiveKeys(p)
      BY <3>1 DEF LiveKeys
    <3>4. Cardinality(LiveKeys(act[a].project)) < MaxLiveKeys
      BY <2>3 DEF HasRoom
    <3>5. CountsAreStillSo(a)'
      BY <3>2, <3>3, <3>4 DEF CountsAreStillSo
    <3> QED
      BY <1>2, <2>1, <3>2, <3>5
  <2> QED
    BY <2>2, <2>3
<1>18. ASSUME NEW a \in Actors, CreateKey(a) PROVE OrderInv'
  <2>1. act[a].kind = "key" /\ act[a].pc = "write" /\ act' = [act EXCEPT ![a] = NoAct] /\ UNCHANGED <<account, projects>>
    BY <1>18 DEF CreateKey
  <2>2. CASE projects[act[a].project] = "none"
    BY <1>1, <1>3, <1>18, <2>1, <2>2 DEF CreateKey
  <2>3. CASE projects[act[a].project] # "none"
    <3>4. PICK p \in ProjectIds : p = act[a].project
      BY <2>1, <1>t DEF ActsKnow, Knows
    <3>1. PICK k \in ApiKeys : apiKeys' = [apiKeys EXCEPT ![k] = [project |-> p, state |-> "live"]]
      BY <1>18, <2>3, <3>4 DEF CreateKey
    <3>2. \A q \in ProjectIds : q # p => LiveKeys(q)' \subseteq LiveKeys(q)
      BY <3>1, <1>t DEF LiveKeys, ProjectsTypes
    <3>3. LiveKeys(p)' \subseteq LiveKeys(p) \cup {k}
      BY <3>1, <1>t DEF LiveKeys, ProjectsTypes
    <3>5. Cardinality(LiveKeys(p)) < MaxLiveKeys /\ IsFiniteSet(LiveKeys(p))
      BY <2>1, <3>4, <1>o DEF CountsAreStillSo, AccountInOrder
    <3>6. /\ IsFiniteSet(LiveKeys(p) \cup {k})
          /\ Cardinality(LiveKeys(p) \cup {k}) <= Cardinality(LiveKeys(p)) + 1
          /\ Cardinality(LiveKeys(p)) \in Nat /\ Cardinality(LiveKeys(p) \cup {k}) \in Nat
      BY <3>5, OneMore
    <3>7. IsFiniteSet(LiveKeys(p)') /\ Cardinality(LiveKeys(p)') <= Cardinality(LiveKeys(p) \cup {k})
      BY <3>3, <3>6, FS_Subset
    <3>8. Cardinality(LiveKeys(p)') <= MaxLiveKeys
      BY <3>5, <3>6, <3>7, FS_CardinalityType, ProjectsAssumption
    <3>9. \A q \in ProjectIds : IsFiniteSet(LiveKeys(q)') /\ Cardinality(LiveKeys(q)') <= MaxLiveKeys
      <4> SUFFICES ASSUME NEW q \in ProjectIds, q # p
                   PROVE  IsFiniteSet(LiveKeys(q)') /\ Cardinality(LiveKeys(q)') <= MaxLiveKeys
        BY <3>7, <3>8
      <4> QED
        BY <3>2, <1>o, FewerKeys DEF AccountInOrder
    <3>10. OwnedProjects' = OwnedProjects
      BY <2>1 DEF OwnedProjects
    <3>11. AccountInOrder'
      BY <1>o, <2>1, <3>9, <3>10 DEF AccountInOrder
    <3> QED
      BY <1>3, <2>1, <3>11
  <2> QED
    BY <2>2, <2>3
<1>21. ASSUME NEW a \in Actors, ListProjects(a) PROVE OrderInv'
  <2>1. act[a].kind = "account" /\ AccountInOrder' /\ OwnedProjects' = OwnedProjects
    BY <1>1, <1>21 DEF ListProjects, OwnedProjects
  <2>2. act'[a].kind = "account" /\ act'[a].doomed = OwnedProjects /\ \A b \in Actors : b # a => act'[b] = act[b]
    BY <1>21, <1>t DEF ListProjects, ProjectsTypes, ActRows
  <2>3. CountsAreStillSo(a)'
    BY <2>1, <2>2 DEF CountsAreStillSo
  <2> QED
    BY <1>2, <2>1, <2>2, <2>3
<1>22. ASSUME NEW a \in Actors, DeleteWithProjects(a) PROVE OrderInv'
  <2>1. act[a].kind = "account" /\ act' = [act EXCEPT ![a] = NoAct] /\ act[a].doomed = OwnedProjects
    BY <1>22, <1>o DEF DeleteWithProjects, CountsAreStillSo
  <2>2. CASE account = "gone"
    BY <1>1, <1>3, <1>22, <2>1, <2>2 DEF DeleteWithProjects
  <2>3. CASE account # "gone"
    <3>1. /\ account' = "gone" /\ apiKeys' = WithoutKeysOf(act[a].doomed)
          /\ projects' = [p \in ProjectIds |->
                   CASE p \in act[a].doomed -> "none"
                     [] p \notin act[a].doomed /\ projects[p] = "owned" -> "ownerless"
                     [] OTHER -> projects[p]]
      BY <1>22, <2>3 DEF DeleteWithProjects
    <3>2. \A p \in ProjectIds : projects'[p] = "none"
      BY <2>1, <3>1, <1>o, <1>t DEF ProjectsTypes, AccountInOrder, OwnedProjects
    <3>3. \A p \in ProjectIds : LiveKeys(p)' \subseteq LiveKeys(p)
      BY <3>1 DEF WithoutKeysOf, LiveKeys, NoKey
    <3>4. OwnedProjects' = {}
      BY <3>2 DEF OwnedProjects
    <3>5. AccountInOrder'
      BY <1>o, <3>1, <3>2, <3>3, <3>4, FewerKeys DEF AccountInOrder
    <3> QED
      BY <1>3, <2>1, <3>5
  <2> QED
    BY <2>2, <2>3
\* Keys that open the API no longer.
<1>6. ASSUME UNCHANGED <<account, projects>>, \A p \in ProjectIds : LiveKeys(p)' \subseteq LiveKeys(p)
      PROVE  AccountInOrder'
  <2>1. OwnedProjects' = OwnedProjects
    BY <1>6 DEF OwnedProjects
  <2> QED
    BY <1>6, <1>o, <2>1, FewerKeys DEF AccountInOrder
<1>23. ASSUME NEW a \in Actors, NEW k \in ApiKeys, RevokeKey(a, k) PROVE OrderInv'
  <2>1. act[a].kind = "revoke" /\ act' = [act EXCEPT ![a] = NoAct] /\ UNCHANGED <<account, projects>>
    BY <1>23 DEF RevokeKey
  <2>2. \A p \in ProjectIds : LiveKeys(p)' \subseteq LiveKeys(p)
    BY <1>23, <1>t DEF RevokeKey, LiveKeys, ProjectsTypes, KeyRows
  <2> QED
    BY <1>3, <1>6, <2>1, <2>2
<1>24. ASSUME NEW k \in ApiKeys, ExpireKey(k) \/ PurgeDeadKey(k) PROVE OrderInv'
  <2>1. UNCHANGED <<account, projects, act>>
    BY <1>24 DEF ExpireKey, PurgeDeadKey
  <2>2. \A p \in ProjectIds : LiveKeys(p)' \subseteq LiveKeys(p)
    BY <1>24, <1>t DEF ExpireKey, PurgeDeadKey, LiveKeys, ProjectsTypes, KeyRows, NoKey
  <2> QED
    BY <1>5, <1>6, <2>1, <2>2
<1>26. ASSUME DisableOrEnable PROVE OrderInv'
  <2>1. UNCHANGED <<projects, apiKeys, act>> /\ account # "gone" /\ account' # "gone"
    BY <1>26, <1>t DEF DisableOrEnable, ProjectsTypes
  <2>2. OwnedProjects' = OwnedProjects /\ \A p \in ProjectIds : LiveKeys(p)' = LiveKeys(p)
    BY <2>1 DEF OwnedProjects, LiveKeys
  <2>3. AccountInOrder'
    BY <1>o, <2>1, <2>2 DEF AccountInOrder
  <2> QED
    BY <1>5, <2>1, <2>2, <2>3
<1> QED
  BY <1>10, <1>11, <1>12, <1>13, <1>14, <1>15, <1>16, <1>17, <1>18, <1>21, <1>22, <1>23, <1>24, <1>26,
     ProjectsAssumption DEF ProjectsNext

LEMMA OrderInitially == ProjectsInit => OrderInv
<1> SUFFICES ASSUME ProjectsInit PROVE OrderInv
  OBVIOUS
<1>1. First \in OwnedProjects
  BY ProjectsAssumption DEF First, ProjectsInit, OwnedProjects
<1>2. \A p \in ProjectIds : LiveKeys(p) = {}
  BY DEF ProjectsInit, LiveKeys, NoKey
<1>3. AccountInOrder
  BY <1>1, <1>2, FS_EmptySet, ProjectsAssumption DEF ProjectsInit, AccountInOrder
<1>4. TheyOverlapNothing /\ \A a \in Actors : CountsAreStillSo(a)
  BY ProjectsAssumption DEF ProjectsInit, TheyOverlapNothing, CountsAreStillSo, NoAct
<1> QED
  BY <1>3, <1>4 DEF OrderInv

LEMMA OrderIsKept ==
    ASSUME ProjectsInv, OrderInv
    PROVE  LastProjectStays /\ KeysWithinCeiling /\ NothingOpensAfterwards
<1>1. ProjectsTypes /\ AccountInOrder
  BY ProjectsTypesAre DEF ProjectsInv, OrderInv
<1>2. account = "gone" => \A p \in ProjectIds : projects[p] = "none"
  BY <1>1 DEF AccountInOrder, ProjectsTypes, OwnedProjects
<1>3. \A k \in ApiKeys : apiKeys[k].state = "live" =>
          apiKeys[k].project \in ProjectIds /\ projects[apiKeys[k].project] = "owned"
  <2> SUFFICES ASSUME NEW k \in ApiKeys, apiKeys[k].state = "live"
               PROVE  apiKeys[k].project \in ProjectIds /\ projects[apiKeys[k].project] = "owned"
    OBVIOUS
  <2>1. apiKeys[k] # NoKey
    BY DEF NoKey
  <2>2. apiKeys[k].project \in ProjectIds
    BY <1>1, <2>1 DEF ProjectsTypes, KeyRows
  <2> QED
    BY <1>1, <2>1, <2>2 DEF ProjectsTypes, AccountInOrder
<1>4. account # "open" => \A k \in ApiKeys : ~Resolves(k)
  BY <1>1, <1>2, <1>3 DEF Resolves, ProjectsTypes
<1> QED
  BY <1>1, <1>2, <1>4 DEF LastProjectStays, KeysWithinCeiling, NothingOpensAfterwards, AccountInOrder

-----------------------------------------------------------------------------
(***************************************************************************)
(* The checks of an account and the enforcer of its plan.                  *)
(***************************************************************************)

\* Who counts and inserts holds the lock, and what was counted is still so.
HoldsTheLock(r) ==
    /\ request[r].pc \in {"count", "insert"} => lock = {r}
    /\ request[r].pc = "insert" /\ request[r].limit # NoLimit => Cardinality(Existing) < request[r].limit

QuotaInv == QuotaTypeOK /\ \A r \in Requests : HoldsTheLock(r)

LEMMA ChecksAreFinite ==
    \A S : S \subseteq Checks => IsFiniteSet(S) /\ Cardinality(S) \in Nat
<1>1. 1 \in Int /\ MaxChecks \in Int
  BY QuotaAssumption
<1>2. IsFiniteSet(Checks)
  BY <1>1, FS_Interval DEF Checks
<1>3. \A S : S \subseteq Checks => IsFiniteSet(S)
  BY <1>2, FS_Subset
<1> QED
  BY <1>3, FS_CardinalityType

LEMMA FewerChecks ==
    ASSUME Existing' \subseteq Existing
    PROVE  /\ Cardinality(Existing') <= Cardinality(Existing)
           /\ Cardinality(Existing') \in Nat /\ Cardinality(Existing) \in Nat
<1>1. Existing \subseteq Checks /\ Existing' \subseteq Checks
  BY DEF Existing
<1>2. IsFiniteSet(Existing) /\ Cardinality(Existing') \in Nat /\ Cardinality(Existing) \in Nat
  BY <1>1, ChecksAreFinite
<1>3. Cardinality(Existing') <= Cardinality(Existing)
  BY <1>2, FS_Subset
<1> QED
  BY <1>2, <1>3

LEMMA RequestSteps ==
    ASSUME request \in [Requests -> RequestStates], NEW r \in Requests, NEW v \in RequestStates,
           SetRequest(r, v)
    PROVE  /\ request' \in [Requests -> RequestStates]
           /\ request'[r] = v
           /\ \A q \in Requests : q # r => request'[q] = request[q]
BY DEF SetRequest

LEMMA IdleIsRequest == IdleRequest \in RequestStates
BY DEF IdleRequest, RequestStates, Edits

\* A step by another hand, after which there are no more checks than before.
LEMMA LockHoldersGoOn ==
    ASSUME \A r \in Requests : HoldsTheLock(r), UNCHANGED <<lock, request>>,
           Existing' \subseteq Existing, QuotaTypeOK
    PROVE  \A r \in Requests : HoldsTheLock(r)'
<1> SUFFICES ASSUME NEW r \in Requests PROVE HoldsTheLock(r)'
  OBVIOUS
<1>1. HoldsTheLock(r) /\ request'[r] = request[r] /\ request[r] \in RequestStates
  BY DEF QuotaTypeOK
<1>2. Cardinality(Existing') <= Cardinality(Existing) /\ Cardinality(Existing') \in Nat /\ Cardinality(Existing) \in Nat
  BY FewerChecks
<1>3. request[r].limit \in Limits \cup {NoLimit}
  BY <1>1 DEF RequestStates
<1>4. request[r].limit \in Int
  <2>1. \A l \in Limits \cup {NoLimit} : l \in Int
    BY QuotaAssumption DEF NoLimit
  <2> QED
    BY <1>3, <2>1
<1> QED
  BY <1>1, <1>2, <1>4 DEF HoldsTheLock

LEMMA QuotaStep == QuotaInv /\ [QuotaNext]_quotaVars => QuotaInv'
<1> SUFFICES ASSUME QuotaInv, [QuotaNext]_quotaVars
             PROVE  QuotaInv'
  OBVIOUS
<1>t. QuotaTypeOK /\ \A r \in Requests : HoldsTheLock(r)
  BY DEF QuotaInv
<1>f. Existing \subseteq Checks /\ IsFiniteSet(Existing) /\ Cardinality(Existing) \in Nat
  BY ChecksAreFinite DEF Existing
<1>a. Cardinality(ActiveChecks) \in Nat
  BY ChecksAreFinite DEF Existing, ActiveChecks
\* An enforcer, a plan, a heartbeat or a removal: not a request.
<1>1. ASSUME UNCHANGED <<lock, request>>,
             row' \in [Checks -> QuotaRows], Existing' \subseteq Existing,
             limit' \in Limits, enforcer' \in [Servers -> Enforcers], emailed' \subseteq Checks,
             changes' \in Nat, losses' \in Nat
      PROVE  QuotaInv'
  <2>1. QuotaTypeOK'
    BY <1>1, <1>t DEF QuotaTypeOK
  <2> QED
    BY <1>1, <1>t, <2>1, LockHoldersGoOn DEF QuotaInv
\* A request that changes no more than itself and the lock.
<1>2. ASSUME NEW r \in Requests, NEW v \in RequestStates, SetRequest(r, v),
             UNCHANGED <<row, limit, enforcer, emailed, changes, losses>>,
             lock' \subseteq Requests,
             lock' = lock \/ lock \subseteq {r},
             HoldsTheLock(r)'
      PROVE  QuotaInv'
  <2>1. request' \in [Requests -> RequestStates] /\ \A q \in Requests : q # r => request'[q] = request[q]
    BY <1>2, <1>t, RequestSteps DEF QuotaTypeOK
  <2>2. Existing' = Existing
    BY <1>2 DEF Existing
  <2>3. \A q \in Requests : HoldsTheLock(q)'
    <3> SUFFICES ASSUME NEW q \in Requests, q # r PROVE HoldsTheLock(q)'
      BY <1>2
    <3>1. HoldsTheLock(q) /\ request'[q] = request[q]
      BY <1>t, <2>1
    <3>2. lock \subseteq {r} => request[q].pc \notin {"count", "insert"}
      BY <3>1 DEF HoldsTheLock
    <3> QED
      BY <1>2, <2>2, <3>1, <3>2 DEF HoldsTheLock
  <2>4. QuotaTypeOK'
    BY <1>2, <1>t, <2>1 DEF QuotaTypeOK
  <2> QED
    BY <2>3, <2>4 DEF QuotaInv
<1>3. ASSUME NEW r \in Requests PROVE request[r] \in RequestStates /\ HoldsTheLock(r)
  BY <1>3, <1>t DEF QuotaTypeOK
<1>4. ASSUME NEW r \in Requests, SetRequest(r, IdleRequest)
      PROVE  HoldsTheLock(r)'
  <2>1. request'[r] = IdleRequest
    BY <1>4, <1>t, IdleIsRequest, RequestSteps DEF QuotaTypeOK
  <2> QED
    BY <2>1 DEF HoldsTheLock, IdleRequest
<1>5. ASSUME NEW e \in Servers, NEW v \in Enforcers, SetEnforcer(e, v)
      PROVE  enforcer' \in [Servers -> Enforcers]
  BY <1>5, <1>t DEF SetEnforcer, QuotaTypeOK
<1>6. IdleEnforcer \in Enforcers
  BY DEF IdleEnforcer, Enforcers
<1>7. ASSUME NEW e \in Servers PROVE enforcer[e].ids \subseteq Checks
  BY <1>7, <1>t DEF QuotaTypeOK, Enforcers
<1>10. CASE UNCHANGED quotaVars
  BY <1>1, <1>10, <1>t DEF quotaVars, QuotaTypeOK, Existing
<1>11. ASSUME NEW r \in Requests, LockAccount(r) PROVE QuotaInv'
  <2>1. lock = {} /\ lock' = {r}
    BY <1>11 DEF LockAccount, LockFree
  <2> DEFINE v == [request[r] EXCEPT !.pc = "count", !.limit = limit]
  <2>2. v \in RequestStates /\ v.pc = "count"
    BY <1>3, <1>t DEF RequestStates, QuotaTypeOK
  <2>3. SetRequest(r, v)
    BY <1>11 DEF LockAccount
  <2>4. request'[r] = v
    BY <1>t, <2>2, <2>3, RequestSteps DEF QuotaTypeOK
  <2> HIDE DEF v
  <2>5. HoldsTheLock(r)'
    BY <2>1, <2>2, <2>4 DEF HoldsTheLock
  <2> QED
    BY <1>2, <1>11, <2>1, <2>2, <2>3, <2>5 DEF LockAccount
<1>12. ASSUME NEW r \in Requests, CountOwned(r) PROVE QuotaInv'
  <2>1. lock = {r}
    BY <1>3, <1>12 DEF CountOwned, HoldsTheLock
  <2>2. CASE request[r].limit # NoLimit /\ Cardinality(Existing) + 1 > request[r].limit
    <3>1. lock' = {} /\ SetRequest(r, IdleRequest)
      BY <1>12, <2>1, <2>2 DEF CountOwned
    <3> QED
      BY <1>2, <1>4, <1>12, <2>1, <3>1, IdleIsRequest DEF CountOwned
  <2>3. CASE ~(request[r].limit # NoLimit /\ Cardinality(Existing) + 1 > request[r].limit)
    <3> DEFINE v == [request[r] EXCEPT !.pc = "insert"]
    <3>1. v \in RequestStates /\ v.pc = "insert" /\ v.limit = request[r].limit
      BY <1>3 DEF RequestStates
    <3>2. SetRequest(r, v) /\ lock' = lock
      BY <1>12, <2>3 DEF CountOwned
    <3>3. request'[r] = v
      BY <1>t, <3>1, <3>2, RequestSteps DEF QuotaTypeOK
    <3>4. request[r].limit \in Limits \cup {NoLimit}
      BY <1>3 DEF RequestStates
    <3>5. request[r].limit \in Int
      BY <3>4, QuotaAssumption DEF NoLimit
    <3>6. Existing' = Existing
      BY <1>12 DEF CountOwned, Existing
    <3> HIDE DEF v
    <3>7. v.limit # NoLimit => Cardinality(Existing') < v.limit
      BY <1>f, <2>3, <3>1, <3>5, <3>6
    <3>8. HoldsTheLock(r)'
      BY <2>1, <3>1, <3>2, <3>3, <3>7 DEF HoldsTheLock
    <3> QED
      BY <1>2, <1>t, <1>12, <3>1, <3>2, <3>8 DEF CountOwned, QuotaTypeOK
  <2> QED
    BY <2>2, <2>3
<1>13. ASSUME NEW r \in Requests, InsertCheck(r) PROVE QuotaInv'
  <2>1. lock = {r} /\ lock' = {} /\ SetRequest(r, IdleRequest)
        /\ UNCHANGED <<limit, enforcer, emailed, changes, losses>>
    BY <1>3, <1>13 DEF InsertCheck, HoldsTheLock
  <2>2. row' \in [Checks -> QuotaRows]
    BY <1>13, <1>t DEF InsertCheck, QuotaTypeOK, NoRow, QuotaRows
  <2>3. request' \in [Requests -> RequestStates] /\ \A q \in Requests : q # r => request'[q] = request[q]
    BY <1>t, <2>1, IdleIsRequest, RequestSteps DEF QuotaTypeOK
  <2>4. \A q \in Requests : HoldsTheLock(q)'
    <3>1. \A q \in Requests : q # r => request[q].pc \notin {"count", "insert"}
      BY <1>3, <2>1 DEF HoldsTheLock
    <3>2. \A q \in Requests : q # r => request'[q].pc \notin {"count", "insert"}
      BY <2>3, <3>1
    <3> QED
      BY <1>4, <2>1, <3>2 DEF HoldsTheLock
  <2>5. QuotaTypeOK'
    BY <1>t, <2>1, <2>2, <2>3 DEF QuotaTypeOK
  <2> QED
    BY <2>4, <2>5 DEF QuotaInv
<1>14. ASSUME NEW r \in Requests, CreateFails(r) PROVE QuotaInv'
  <2>1. lock = {r} /\ lock' = {} /\ SetRequest(r, IdleRequest)
    BY <1>3, <1>14 DEF CreateFails, HoldsTheLock
  <2> QED
    BY <1>2, <1>4, <1>14, <2>1, IdleIsRequest DEF CreateFails
<1>15. ASSUME NEW r \in Requests, NEW c \in Checks, NEW edit \in Edits, ReadCheck(r, c, edit) PROVE QuotaInv'
  <2> DEFINE v == [request[r] EXCEPT !.pc = "write", !.check = c, !.edit = edit, !.seen = row[c].state]
  <2>1. row[c].state \in {"RUNNING", "PAUSED"}
    BY <1>t DEF QuotaTypeOK, QuotaRows
  <2>2. v \in RequestStates /\ v.pc = "write"
    BY <1>3, <2>1 DEF RequestStates
  <2>3. SetRequest(r, v)
    BY <1>15 DEF ReadCheck
  <2>4. request'[r] = v
    BY <1>t, <2>2, <2>3, RequestSteps DEF QuotaTypeOK
  <2> HIDE DEF v
  <2>5. HoldsTheLock(r)'
    BY <2>2, <2>4 DEF HoldsTheLock
  <2> QED
    BY <1>2, <1>t, <1>15, <2>2, <2>3, <2>5 DEF ReadCheck, QuotaTypeOK
<1>16. ASSUME NEW r \in Requests, WriteCheck(r) PROVE QuotaInv'
  <2>1. SetRequest(r, IdleRequest) /\ UNCHANGED <<limit, lock, enforcer, emailed, changes, losses>>
    BY <1>16 DEF WriteCheck
  <2>2. \A old \in QuotaRows : Edited(old, request[r].edit, request[r].seen) \in QuotaRows
                               /\ Edited(old, request[r].edit, request[r].seen).life = old.life
    BY DEF Edited, QuotaRows
  <2>3. /\ row' \in [Checks -> QuotaRows]
        /\ \A c \in Checks : row'[c].life = row[c].life
    <3> DEFINE w == request[r].check
    <3>1. row' = [row EXCEPT ![w] = IF row[w].life = "alive"
                                    THEN Edited(row[w], request[r].edit, request[r].seen) ELSE row[w]]
      BY <1>16 DEF WriteCheck
    <3>2. row \in [Checks -> QuotaRows]
      BY <1>t DEF QuotaTypeOK
    <3> HIDE DEF w
    <3>3. CASE w \notin Checks
      BY <3>1, <3>2, <3>3
    <3>4. CASE w \in Checks
      <4> DEFINE new == IF row[w].life = "alive"
                        THEN Edited(row[w], request[r].edit, request[r].seen) ELSE row[w]
      <4>1. new \in QuotaRows /\ new.life = row[w].life
        BY <2>2, <3>2, <3>4
      <4>2. row' = [row EXCEPT ![w] = new]
        BY <3>1
      <4> HIDE DEF new
      <4> QED
        BY <3>2, <3>4, <4>1, <4>2
    <3> QED
      BY <3>3, <3>4
  <2>4. Existing' = Existing
    BY <2>3 DEF Existing
  <2>5. request' \in [Requests -> RequestStates] /\ \A q \in Requests : q # r => request'[q] = request[q]
    BY <1>t, <2>1, IdleIsRequest, RequestSteps DEF QuotaTypeOK
  <2>6. \A q \in Requests : HoldsTheLock(q)'
    <3>1. \A q \in Requests : q # r => HoldsTheLock(q)'
      BY <1>3, <2>1, <2>4, <2>5 DEF HoldsTheLock
    <3> QED
      BY <1>4, <2>1, <3>1
  <2>7. QuotaTypeOK'
    BY <1>t, <2>1, <2>3, <2>5 DEF QuotaTypeOK
  <2> QED
    BY <2>6, <2>7 DEF QuotaInv
<1>17. ASSUME NEW c \in Checks, RemoveCheck(c) PROVE QuotaInv'
  <2>1. changes' \in Nat
    BY <1>17, <1>t DEF RemoveCheck, QuotaTypeOK
  <2>2. [NoRow EXCEPT !.life = "deleted"] \in QuotaRows /\ [NoRow EXCEPT !.life = "deleted"].life # "alive"
    BY DEF NoRow, QuotaRows
  <2>3. row' \in [Checks -> QuotaRows] /\ Existing' \subseteq Existing
    BY <1>17, <1>t, <2>2 DEF RemoveCheck, QuotaTypeOK, Existing
  <2> QED
    BY <1>1, <1>17, <1>t, <2>1, <2>3 DEF RemoveCheck, QuotaTypeOK
<1>18. ASSUME NEW c \in Checks, Ping(c) PROVE QuotaInv'
  <2>1. row' \in [Checks -> QuotaRows] /\ Existing' \subseteq Existing
    BY <1>18, <1>t DEF Ping, QuotaTypeOK, QuotaRows, Existing
  <2> QED
    BY <1>1, <1>18, <1>t, <2>1 DEF Ping, QuotaTypeOK
<1>19. ASSUME NEW l \in Limits, ChangePlan(l) PROVE QuotaInv'
  <2>1. changes' \in Nat /\ Existing' = Existing
    BY <1>19, <1>t DEF ChangePlan, QuotaTypeOK, Existing
  <2> QED
    BY <1>1, <1>19, <1>t, <2>1 DEF ChangePlan, QuotaTypeOK
\* An enforcer that writes no row.
<1>8. ASSUME NEW e \in Servers, NEW v \in Enforcers, SetEnforcer(e, v),
             UNCHANGED <<row, limit, lock, request, changes>>, emailed' \subseteq Checks, losses' \in Nat
      PROVE  QuotaInv'
  <2>1. Existing' = Existing
    BY <1>8 DEF Existing
  <2> QED
    BY <1>1, <1>5, <1>8, <1>t, <2>1 DEF QuotaTypeOK
<1>20. ASSUME NEW e \in Servers, CountAccount(e) PROVE QuotaInv'
  <2>1. PICK v \in Enforcers : SetEnforcer(e, v)
    <3>1. CASE SetEnforcer(e, [IdleEnforcer EXCEPT !.pc = "revive", !.n = MaxChecks])
      BY <3>1, QuotaAssumption DEF IdleEnforcer, Enforcers
    <3>2. CASE limit # NoLimit /\ Cardinality(ActiveChecks) > limit
               /\ SetEnforcer(e, [IdleEnforcer EXCEPT !.pc = "doom", !.n = Cardinality(ActiveChecks) - limit])
      <4>1. limit \in Nat
        BY <3>2, <1>t, QuotaAssumption DEF QuotaTypeOK
      <4>2. Cardinality(ActiveChecks) - limit \in Nat
        BY <1>a, <3>2, <4>1
      <4> QED
        BY <3>2, <4>2 DEF IdleEnforcer, Enforcers
    <3>3. CASE limit # NoLimit /\ Cardinality(ActiveChecks) < limit
               /\ SetEnforcer(e, [IdleEnforcer EXCEPT !.pc = "revive", !.n = limit - Cardinality(ActiveChecks)])
      <4>1. limit \in Nat
        BY <3>3, <1>t, QuotaAssumption DEF QuotaTypeOK
      <4>2. limit - Cardinality(ActiveChecks) \in Nat
        BY <1>a, <3>3, <4>1
      <4> QED
        BY <3>3, <4>2 DEF IdleEnforcer, Enforcers
    <3> QED
      BY <1>20, <3>1, <3>2, <3>3 DEF CountAccount
  <2> QED
    BY <1>8, <1>20, <1>t, <2>1 DEF CountAccount, QuotaTypeOK
<1>21. ASSUME NEW e \in Servers, PickDoomed(e) \/ PickRevived(e) PROVE QuotaInv'
  <2>1. \A n : Doomed(n) \subseteq Checks /\ Revived(n) \subseteq Checks
    BY DEF Doomed, Revived, Newest, Oldest, PausedByQuota, Existing
  <2>2. PICK v \in Enforcers : SetEnforcer(e, v)
    <3>1. CASE PickDoomed(e)
      BY <1>6, <2>1, <3>1 DEF PickDoomed, Enforcers
    <3>2. CASE PickRevived(e)
      BY <1>6, <2>1, <3>2 DEF PickRevived, Enforcers
    <3> QED
      BY <1>21, <3>1, <3>2
  <2> QED
    BY <1>8, <1>21, <1>t, <2>2 DEF PickDoomed, PickRevived, QuotaTypeOK
<1>22. ASSUME NEW e \in Servers, PauseExcess(e) PROVE QuotaInv'
  <2>1. row' \in [Checks -> QuotaRows] /\ Existing' \subseteq Existing
    BY <1>22, <1>t DEF PauseExcess, QuotaTypeOK, QuotaRows, Existing
  <2>2. [enforcer[e] EXCEPT !.pc = "notify"] \in Enforcers
    BY <1>t DEF QuotaTypeOK, Enforcers
  <2>3. emailed' \subseteq Checks /\ enforcer' \in [Servers -> Enforcers]
    BY <1>5, <1>22, <1>t, <2>2 DEF PauseExcess, QuotaTypeOK
  <2> QED
    BY <1>1, <1>22, <1>t, <2>1, <2>3 DEF PauseExcess, QuotaTypeOK
<1>23. ASSUME NEW e \in Servers, Notify(e) PROVE QuotaInv'
  <2>1. emailed' \subseteq Checks /\ losses' \in Nat
    BY <1>7, <1>23, <1>t DEF Notify, QuotaTypeOK
  <2> QED
    BY <1>6, <1>8, <1>23, <2>1 DEF Notify
<1>24. ASSUME NEW e \in Servers, ResumeRevived(e) PROVE QuotaInv'
  <2>1. row' \in [Checks -> QuotaRows] /\ Existing' \subseteq Existing
    BY <1>24, <1>t DEF ResumeRevived, QuotaTypeOK, QuotaRows, Existing
  <2>2. enforcer' \in [Servers -> Enforcers]
    BY <1>5, <1>6, <1>24 DEF ResumeRevived
  <2> QED
    BY <1>1, <1>24, <1>t, <2>1, <2>2 DEF ResumeRevived, QuotaTypeOK
<1>25. ASSUME NEW e \in Servers, PassFails(e) PROVE QuotaInv'
  <2>1. losses' \in Nat /\ emailed' \subseteq Checks
    BY <1>25, <1>t DEF PassFails, QuotaTypeOK
  <2> QED
    BY <1>6, <1>8, <1>25, <2>1 DEF PassFails
<1> QED
  BY <1>10, <1>11, <1>12, <1>13, <1>14, <1>15, <1>16, <1>17, <1>18, <1>19, <1>20, <1>21, <1>22, <1>23,
     <1>24, <1>25 DEF QuotaNext, RequestStep, EnforcerStep

LEMMA QuotaInitially == QuotaInit => QuotaInv
BY QuotaAssumption, IdleIsRequest
DEF QuotaInit, QuotaInv, QuotaTypeOK, HoldsTheLock, NoRow, QuotaRows, IdleRequest, IdleEnforcer, Enforcers

(***************************************************************************)
(* Channels: places in the plan are taken under the lock, a channel is     *)
(* claimed by one statement, and what was delivered is recorded, is about  *)
(* to be, or was lost.                                                     *)
(***************************************************************************)
ChannelRows == [there : BOOLEAN, enabled : BOOLEAN, testedAt : Never..MaxTick]
AskRows == [pc : AskSteps, channel : ChannelIds \cup {NoAsker}, at : 0..MaxTick]
Ticks == 0..MaxTick

ChannelTypes ==
    /\ channels \in [ChannelIds -> ChannelRows]
    /\ ask \in [Askers -> AskRows]
    /\ quotaLock \in Askers \cup {NoAsker}
    /\ recorded \in Seq(Ticks) /\ delivered \in Seq(Ticks)
    /\ claimed \in [ChannelIds -> Seq(Ticks)]
    /\ tick \in Ticks /\ unrecorded \in 0..MaxUnrecorded
    /\ \A i \in DOMAIN recorded : recorded[i] <= tick
    /\ \A i \in DOMAIN delivered : delivered[i] <= tick
    /\ \A a \in Askers : ask[a].pc \in {"budget", "claim", "reread"} => ask[a].channel \in ChannelIds

LEMMA TestSteps ==
    /\ NoAsk \in AskRows /\ NoAsk.pc = "idle"
    /\ NoChannelRow \in ChannelRows /\ NoChannelRow.testedAt = Never
    /\ Ticks \subseteq Nat
BY ChannelsAssumption DEF NoAsk, AskRows, AskSteps, NoChannelRow, ChannelRows, Never, Ticks

LEMMA AskMoves ==
    ASSUME ask \in [Askers -> AskRows], NEW a \in Askers, NEW pc \in AskSteps, AskGoesTo(a, pc)
    PROVE  /\ ask' \in [Askers -> AskRows]
           /\ \A b \in Askers : b # a => ask'[b] = ask[b]
           /\ ask'[a].pc = pc /\ ask'[a].channel = ask[a].channel /\ ask'[a].at = ask[a].at
BY DEF AskGoesTo, AskRows

LEMMA AskIsOver ==
    ASSUME ask \in [Askers -> AskRows], NEW a \in Askers, AskEnds(a)
    PROVE  /\ ask' \in [Askers -> AskRows]
           /\ \A b \in Askers : b # a => ask'[b] = ask[b]
           /\ ask'[a].pc = "idle"
BY TestSteps DEF AskEnds

\* One more moment at the end.
LEMMA OneMoment ==
    ASSUME NEW s \in Seq(Ticks), NEW t \in Ticks
    PROVE  /\ Append(s, t) \in Seq(Ticks)
           /\ Len(s) \in Nat /\ DOMAIN s = 1..Len(s) /\ DOMAIN Append(s, t) = 1..(Len(s) + 1)
           /\ \A i \in 1..Len(s) : Append(s, t)[i] = s[i] /\ s[i] \in Ticks
           /\ Append(s, t)[Len(s) + 1] = t
OBVIOUS

LEMMA ChannelTypesStep == ChannelTypes /\ [ChannelsNext]_channelVars => ChannelTypes'
<1> SUFFICES ASSUME ChannelTypes, [ChannelsNext]_channelVars
             PROVE  ChannelTypes'
  OBVIOUS
<1>n. MaxTick \in Nat /\ tick \in Int /\ Ticks \subseteq Int
  BY ChannelsAssumption DEF ChannelTypes, Ticks
\* A request, and what it does besides.
<1>1. ASSUME NEW a \in Askers, ask' \in [Askers -> AskRows], \A b \in Askers : b # a => ask'[b] = ask[b],
             ask'[a].pc \in {"budget", "claim", "reread"} => ask'[a].channel \in ChannelIds,
             channels' \in [ChannelIds -> ChannelRows], quotaLock' \in Askers \cup {NoAsker},
             recorded' = recorded \/ recorded' = Append(recorded, tick),
             delivered' = delivered \/ delivered' = Append(delivered, tick),
             claimed' \in [ChannelIds -> Seq(Ticks)], unrecorded' \in 0..MaxUnrecorded, tick' = tick
      PROVE  ChannelTypes'
  <2>1. recorded' \in Seq(Ticks) /\ \A i \in DOMAIN recorded' : recorded'[i] <= tick'
    <3>1. CASE recorded' = recorded
      BY <1>1, <3>1 DEF ChannelTypes
    <3>2. CASE recorded' = Append(recorded, tick)
      BY <1>1, <1>n, <3>2, OneMoment DEF ChannelTypes
    <3> QED
      BY <1>1, <3>1, <3>2
  <2>2. delivered' \in Seq(Ticks) /\ \A i \in DOMAIN delivered' : delivered'[i] <= tick'
    <3>1. CASE delivered' = delivered
      BY <1>1, <3>1 DEF ChannelTypes
    <3>2. CASE delivered' = Append(delivered, tick)
      BY <1>1, <1>n, <3>2, OneMoment DEF ChannelTypes
    <3> QED
      BY <1>1, <3>1, <3>2
  <2>3. \A b \in Askers : ask'[b].pc \in {"budget", "claim", "reread"} => ask'[b].channel \in ChannelIds
    BY <1>1 DEF ChannelTypes
  <2> QED
    BY <1>1, <2>1, <2>2, <2>3 DEF ChannelTypes
\* Only the channels.
<1>2. ASSUME channels' \in [ChannelIds -> ChannelRows],
             UNCHANGED <<ask, quotaLock, recorded, delivered, claimed, unrecorded, tick>>
      PROVE  ChannelTypes'
  BY <1>2 DEF ChannelTypes
<1>3. ASSUME NEW a \in Askers, NEW pc \in AskSteps, AskGoesTo(a, pc),
             pc \in {"budget", "claim", "reread"} => ask[a].channel \in ChannelIds
      PROVE  /\ ask' \in [Askers -> AskRows] /\ \A b \in Askers : b # a => ask'[b] = ask[b]
             /\ ask'[a].pc \in {"budget", "claim", "reread"} => ask'[a].channel \in ChannelIds
  BY <1>3, AskMoves DEF ChannelTypes
<1>4. ASSUME NEW a \in Askers, AskEnds(a)
      PROVE  /\ ask' \in [Askers -> AskRows] /\ \A b \in Askers : b # a => ask'[b] = ask[b]
             /\ ask'[a].pc \in {"budget", "claim", "reread"} => ask'[a].channel \in ChannelIds
  BY <1>4, AskIsOver DEF ChannelTypes
<1>s. {"preflight", "count", "insert", "send", "record", "claim", "reread", "budget"} \subseteq AskSteps
  BY DEF AskSteps
<1>10. CASE UNCHANGED channelVars
  BY <1>2, <1>10 DEF channelVars, ChannelTypes
<1>11. ASSUME NEW a \in Askers, AskToCreate(a) PROVE ChannelTypes'
  BY <1>1, <1>3, <1>11, <1>s DEF AskToCreate, ChannelTypes
<1>12. ASSUME NEW a \in Askers, NEW well \in BOOLEAN, Preflight(a, well) PROVE ChannelTypes'
  BY <1>1, <1>3, <1>4, <1>12, <1>s DEF Preflight, ChannelTypes
<1>13. ASSUME NEW a \in Askers, CountChannels(a) PROVE ChannelTypes'
  BY <1>1, <1>3, <1>4, <1>13, <1>s DEF CountChannels, ChannelTypes
<1>14. ASSUME NEW a \in Askers, InsertChannel(a) PROVE ChannelTypes'
  <2>1. PICK c \in ChannelIds :
            /\ channels' = [channels EXCEPT ![c] = [NoChannelRow EXCEPT !.there = TRUE]]
            /\ claimed' = [claimed EXCEPT ![c] = <<>>]
    BY <1>14 DEF InsertChannel
  <2>2. [NoChannelRow EXCEPT !.there = TRUE] \in ChannelRows
    BY TestSteps DEF ChannelRows
  <2>3. channels' \in [ChannelIds -> ChannelRows] /\ claimed' \in [ChannelIds -> Seq(Ticks)]
    BY <2>1, <2>2 DEF ChannelTypes
  <2> QED
    BY <1>1, <1>4, <1>14, <2>3 DEF InsertChannel, ChannelTypes
<1>15. ASSUME NEW a \in Askers, NEW c \in ChannelIds, AskToTest(a, c) PROVE ChannelTypes'
  <2> DEFINE v == [pc |-> "budget", channel |-> c, at |-> tick]
  <2>1. v \in AskRows /\ v.channel = c
    BY <1>s DEF AskRows, ChannelTypes, Ticks
  <2>2. ask' = [ask EXCEPT ![a] = v]
    BY <1>15 DEF AskToTest
  <2> HIDE DEF v
  <2>3. ask' \in [Askers -> AskRows] /\ ask'[a] = v /\ \A b \in Askers : b # a => ask'[b] = ask[b]
    BY <2>1, <2>2 DEF ChannelTypes
  <2> QED
    BY <1>1, <1>15, <2>1, <2>3 DEF AskToTest, ChannelTypes
<1>16. ASSUME NEW a \in Askers, CheckBudget(a) PROVE ChannelTypes'
  <2>1. CASE WithinTestBudget
    <3> DEFINE v == [ask[a] EXCEPT !.pc = IF Cooldown = 0 THEN "send" ELSE "claim", !.at = tick]
    <3>1. v \in AskRows /\ v.channel = ask[a].channel /\ ask[a].channel \in ChannelIds
      BY <1>16, <1>s DEF AskRows, ChannelTypes, Ticks, CheckBudget
    <3>2. ask' = [ask EXCEPT ![a] = v]
      <4>1. ask' = [ask EXCEPT ![a].pc = IF Cooldown = 0 THEN "send" ELSE "claim", ![a].at = tick]
        BY <1>16, <2>1 DEF CheckBudget
      <4>2. \A f : [f EXCEPT ![a].pc = IF Cooldown = 0 THEN "send" ELSE "claim", ![a].at = tick]
                  = [f EXCEPT ![a] = [f[a] EXCEPT !.pc = IF Cooldown = 0 THEN "send" ELSE "claim", !.at = tick]]
        OBVIOUS
      <4> QED
        BY <4>1, <4>2
    <3> HIDE DEF v
    <3>3. ask' \in [Askers -> AskRows] /\ ask'[a] = v /\ \A b \in Askers : b # a => ask'[b] = ask[b]
      BY <3>1, <3>2 DEF ChannelTypes
    <3> QED
      BY <1>1, <1>16, <3>1, <3>3 DEF CheckBudget, ChannelTypes
  <2>2. CASE ~WithinTestBudget
    BY <1>1, <1>4, <1>16, <2>2 DEF CheckBudget, ChannelTypes
  <2> QED
    BY <2>1, <2>2
<1>17. ASSUME NEW a \in Askers, ClaimTest(a) PROVE ChannelTypes'
  <2>1. ask[a].channel \in ChannelIds /\ ask[a].pc = "claim" /\ ask[a].at \in Ticks
    BY <1>17 DEF ClaimTest, ChannelTypes, AskRows, Ticks
  <2>2. ASSUME NEW c \in ChannelIds, NEW t \in Ticks, channels' = [channels EXCEPT ![c].testedAt = t],
               claimed' = [claimed EXCEPT ![c] = Append(@, t)]
        PROVE  channels' \in [ChannelIds -> ChannelRows] /\ claimed' \in [ChannelIds -> Seq(Ticks)]
    <3>1. Ticks \subseteq Never..MaxTick
      BY DEF Ticks, Never
    <3>2. [channels[c] EXCEPT !.testedAt = t] \in ChannelRows
      BY <3>1 DEF ChannelTypes, ChannelRows
    <3>3. Append(claimed[c], t) \in Seq(Ticks)
      BY OneMoment DEF ChannelTypes
    <3> QED
      BY <2>2, <3>2, <3>3 DEF ChannelTypes
  <2> QED
    BY <1>1, <1>3, <1>17, <1>s, <2>1, <2>2 DEF ClaimTest, ChannelTypes
<1>18. ASSUME NEW a \in Askers, Reread(a) PROVE ChannelTypes'
  BY <1>1, <1>3, <1>4, <1>18, <1>s DEF Reread, ChannelTypes
<1>19. ASSUME NEW a \in Askers, NEW well \in BOOLEAN, SendTest(a, well) PROVE ChannelTypes'
  BY <1>1, <1>3, <1>4, <1>19, <1>s DEF SendTest, ChannelTypes
<1>20. ASSUME NEW a \in Askers, NEW well \in BOOLEAN, RecordTest(a, well) PROVE ChannelTypes'
  <2>1. unrecorded' \in 0..MaxUnrecorded
    BY <1>20, ChannelsAssumption DEF RecordTest, ChannelTypes
  <2> QED
    BY <1>1, <1>4, <1>20, <2>1 DEF RecordTest, ChannelTypes
<1>21. ASSUME NEW c \in ChannelIds, UpdateChannel(c) \/ RemoveChannel(c) PROVE ChannelTypes'
  <2>1. channels' \in [ChannelIds -> ChannelRows]
    <3>1. CASE UpdateChannel(c)
      BY <3>1 DEF UpdateChannel, ChannelTypes, ChannelRows
    <3>2. CASE RemoveChannel(c)
      BY <3>2, TestSteps DEF RemoveChannel, ChannelTypes
    <3> QED
      BY <1>21, <3>1, <3>2
  <2> QED
    BY <1>2, <1>21, <2>1 DEF UpdateChannel, RemoveChannel
<1>22. CASE TickPasses
  <2>1. tick' \in Ticks /\ tick <= tick'
    BY <1>22, <1>n DEF TickPasses, ChannelTypes, Ticks
  <2>2. ASSUME NEW s \in Seq(Ticks), NEW i \in DOMAIN s PROVE s[i] \in Int
    <3>1. tick \in Ticks
      BY DEF ChannelTypes
    <3>2. s[i] \in Ticks
      BY <3>1, OneMoment
    <3> QED
      BY <3>2, <1>n
  <2>3. \A i \in DOMAIN recorded : recorded[i] \in Int
    BY <2>2 DEF ChannelTypes
  <2>4. \A i \in DOMAIN delivered : delivered[i] \in Int
    BY <2>2 DEF ChannelTypes
  <2>5. (\A i \in DOMAIN recorded : recorded[i] <= tick') /\ \A i \in DOMAIN delivered : delivered[i] <= tick'
    BY <1>n, <2>1, <2>3, <2>4 DEF ChannelTypes
  <2> QED
    BY <1>22, <2>1, <2>5 DEF TickPasses, ChannelTypes
<1> QED
  BY <1>10, <1>11, <1>12, <1>13, <1>14, <1>15, <1>16, <1>17, <1>18, <1>19, <1>20, <1>21, <1>22 DEF ChannelsNext

HasThePlace(a) ==
    /\ ask[a].pc \in {"count", "insert"} => quotaLock = a
    /\ ask[a].pc = "insert" => HasChannelRoom

PlacesInv ==
    /\ IsFiniteSet(ChannelsInUse) /\ Cardinality(ChannelsInUse) <= MaxChannels
    /\ \A a \in Askers : HasThePlace(a)

LEMMA FewerChannels ==
    ASSUME IsFiniteSet(ChannelsInUse), Cardinality(ChannelsInUse) <= MaxChannels,
           ChannelsInUse' \subseteq ChannelsInUse
    PROVE  /\ IsFiniteSet(ChannelsInUse') /\ Cardinality(ChannelsInUse') <= MaxChannels
           /\ HasChannelRoom => HasChannelRoom'
<1>1. IsFiniteSet(ChannelsInUse') /\ Cardinality(ChannelsInUse') <= Cardinality(ChannelsInUse)
  BY FS_Subset
<1>2. Cardinality(ChannelsInUse') \in Nat /\ Cardinality(ChannelsInUse) \in Nat
  BY <1>1, FS_CardinalityType
<1> QED
  BY <1>1, <1>2, ChannelsAssumption DEF HasChannelRoom

LEMMA PlacesStep == ChannelTypes /\ PlacesInv /\ [ChannelsNext]_channelVars => PlacesInv'
<1> SUFFICES ASSUME ChannelTypes, PlacesInv, [ChannelsNext]_channelVars
             PROVE  PlacesInv'
  OBVIOUS
<1>t. ask \in [Askers -> AskRows] /\ \A a \in Askers : HasThePlace(a)
  BY DEF ChannelTypes, PlacesInv
\* No more channels than there were, and a request that holds no place after its step.
<1>1. ASSUME NEW a \in Askers, \A b \in Askers : b # a => ask'[b] = ask[b],
             HasThePlace(a)', ChannelsInUse' \subseteq ChannelsInUse,
             quotaLock' = quotaLock \/ quotaLock \in {a, NoAsker}
      PROVE  PlacesInv'
  <2>1. ASSUME NEW b \in Askers, b # a PROVE HasThePlace(b)'
    <3>1. HasThePlace(b) /\ ask'[b] = ask[b]
      BY <1>1, <1>t, <2>1
    <3>2. quotaLock \in {a, NoAsker} => ask[b].pc \notin {"count", "insert"}
      BY <2>1, <3>1, ChannelsAssumption DEF HasThePlace
    <3> QED
      BY <1>1, <3>1, <3>2, FewerChannels DEF HasThePlace, PlacesInv
  <2> QED
    BY <1>1, <2>1, FewerChannels DEF PlacesInv
<1>2. ASSUME NEW a \in Askers, AskEnds(a), UNCHANGED channels,
             quotaLock' = quotaLock \/ quotaLock \in {a, NoAsker}
      PROVE  PlacesInv'
  BY <1>1, <1>2, <1>t, AskIsOver DEF HasThePlace, ChannelsInUse
<1>3. ASSUME NEW a \in Askers, NEW pc \in AskSteps \ {"count", "insert"}, AskGoesTo(a, pc),
             ChannelsInUse' = ChannelsInUse, UNCHANGED quotaLock
      PROVE  PlacesInv'
  BY <1>1, <1>3, <1>t, AskMoves DEF HasThePlace
<1>4. ASSUME UNCHANGED <<ask, quotaLock>>, ChannelsInUse' \subseteq ChannelsInUse
      PROVE  PlacesInv'
  BY <1>4, <1>t, FewerChannels DEF HasThePlace, PlacesInv
<1>s. {"preflight", "send", "record", "claim", "reread", "budget"} \subseteq AskSteps \ {"count", "insert"}
      /\ "count" \in AskSteps /\ "insert" \in AskSteps
  BY DEF AskSteps
<1>10. CASE UNCHANGED channelVars
  BY <1>4, <1>10 DEF channelVars, ChannelsInUse
<1>11. ASSUME NEW a \in Askers, AskToCreate(a) PROVE PlacesInv'
  BY <1>3, <1>11, <1>s DEF AskToCreate, ChannelsInUse
<1>12. ASSUME NEW a \in Askers, NEW well \in BOOLEAN, Preflight(a, well) PROVE PlacesInv'
  <2>1. CASE well
    <3>1. quotaLock = NoAsker /\ quotaLock' = a /\ AskGoesTo(a, "count") /\ UNCHANGED channels
      BY <1>12, <2>1 DEF Preflight, QuotaLockIsFree
    <3>2. HasThePlace(a)'
      BY <1>s, <1>t, <3>1, AskMoves DEF HasThePlace
    <3>3. \A b \in Askers : b # a => ask'[b] = ask[b]
      BY <1>s, <1>t, <3>1, AskMoves
    <3> QED
      BY <1>1, <3>1, <3>2, <3>3 DEF ChannelsInUse
  <2>2. CASE ~well
    BY <1>2, <1>12, <2>2 DEF Preflight
  <2> QED
    BY <2>1, <2>2
<1>13. ASSUME NEW a \in Askers, CountChannels(a) PROVE PlacesInv'
  <2>1. quotaLock = a
    BY <1>13, <1>t DEF CountChannels, HasThePlace
  <2>2. CASE HasChannelRoom
    <3>1. AskGoesTo(a, "insert") /\ UNCHANGED <<quotaLock, channels>> /\ HasChannelRoom'
      BY <1>13, <2>2 DEF CountChannels, HasChannelRoom, ChannelsInUse
    <3>2. HasThePlace(a)' /\ \A b \in Askers : b # a => ask'[b] = ask[b]
      BY <1>s, <1>t, <2>1, <3>1, AskMoves DEF HasThePlace
    <3> QED
      BY <1>1, <3>1, <3>2 DEF ChannelsInUse
  <2>3. CASE ~HasChannelRoom
    BY <1>2, <1>13, <2>1, <2>3 DEF CountChannels
  <2> QED
    BY <2>2, <2>3
<1>14. ASSUME NEW a \in Askers, InsertChannel(a) PROVE PlacesInv'
  <2>1. /\ quotaLock = a /\ HasChannelRoom /\ quotaLock' = NoAsker /\ AskEnds(a)
        /\ \E c \in ChannelIds : channels' = [channels EXCEPT ![c] = [NoChannelRow EXCEPT !.there = TRUE]]
    BY <1>14, <1>t DEF InsertChannel, HasThePlace
  <2>2. PICK c \in ChannelIds : ChannelsInUse' \subseteq ChannelsInUse \cup {c}
    BY <2>1 DEF ChannelTypes, ChannelsInUse
  <2>3. /\ IsFiniteSet(ChannelsInUse \cup {c})
        /\ Cardinality(ChannelsInUse \cup {c}) <= Cardinality(ChannelsInUse) + 1
        /\ Cardinality(ChannelsInUse) \in Nat /\ Cardinality(ChannelsInUse \cup {c}) \in Nat
    BY OneMore DEF PlacesInv
  <2>4. IsFiniteSet(ChannelsInUse') /\ Cardinality(ChannelsInUse') <= Cardinality(ChannelsInUse \cup {c})
    BY <2>2, <2>3, FS_Subset
  <2>5. Cardinality(ChannelsInUse') \in Nat
    BY <2>4, FS_CardinalityType
  <2>6. Cardinality(ChannelsInUse') <= MaxChannels
    BY <2>1, <2>3, <2>4, <2>5, ChannelsAssumption DEF HasChannelRoom
  <2>7. ask'[a].pc = "idle" /\ \A b \in Askers : b # a => ask'[b] = ask[b] /\ ask[b].pc \notin {"count", "insert"}
    BY <1>t, <2>1, AskIsOver DEF HasThePlace
  <2> QED
    BY <2>4, <2>6, <2>7 DEF PlacesInv, HasThePlace
<1>15. ASSUME NEW a \in Askers, NEW c \in ChannelIds, AskToTest(a, c) PROVE PlacesInv'
  <2>1. ask'[a].pc = "budget" /\ \A b \in Askers : b # a => ask'[b] = ask[b]
    BY <1>15, <1>t DEF AskToTest
  <2> QED
    BY <1>1, <1>15, <2>1 DEF AskToTest, HasThePlace, ChannelsInUse
<1>16. ASSUME NEW a \in Askers, CheckBudget(a) PROVE PlacesInv'
  <2>1. CASE WithinTestBudget
    <3>1. ask' = [ask EXCEPT ![a].pc = IF Cooldown = 0 THEN "send" ELSE "claim", ![a].at = tick]
      BY <1>16, <2>1 DEF CheckBudget
    <3>2. ask'[a].pc \in {"send", "claim"} /\ \A b \in Askers : b # a => ask'[b] = ask[b]
      BY <1>t, <3>1 DEF AskRows
    <3> QED
      BY <1>1, <1>16, <3>2 DEF CheckBudget, HasThePlace, ChannelsInUse
  <2>2. CASE ~WithinTestBudget
    BY <1>2, <1>16, <2>2 DEF CheckBudget
  <2> QED
    BY <2>1, <2>2
<1>17. ASSUME NEW a \in Askers, ClaimTest(a) PROVE PlacesInv'
  <2>1. ChannelsInUse' = ChannelsInUse
    <3>1. channels \in [ChannelIds -> ChannelRows]
      BY DEF ChannelTypes
    <3>2. channels' = channels \/ \E c, t : channels' = [channels EXCEPT ![c].testedAt = t]
      BY <1>17 DEF ClaimTest
    <3> QED
      BY <3>1, <3>2 DEF ChannelsInUse, ChannelRows
  <2> QED
    BY <1>3, <1>17, <1>s, <2>1 DEF ClaimTest
<1>18. ASSUME NEW a \in Askers, Reread(a) PROVE PlacesInv'
  BY <1>2, <1>3, <1>18, <1>s DEF Reread, ChannelsInUse
<1>19. ASSUME NEW a \in Askers, NEW well \in BOOLEAN, SendTest(a, well) PROVE PlacesInv'
  BY <1>2, <1>3, <1>19, <1>s DEF SendTest, ChannelsInUse
<1>20. ASSUME NEW a \in Askers, NEW well \in BOOLEAN, RecordTest(a, well) PROVE PlacesInv'
  BY <1>2, <1>20 DEF RecordTest
<1>21. ASSUME NEW c \in ChannelIds, UpdateChannel(c) \/ RemoveChannel(c) PROVE PlacesInv'
  <2>0. channels \in [ChannelIds -> ChannelRows]
    BY DEF ChannelTypes
  <2>1. ChannelsInUse' \subseteq ChannelsInUse
    <3>1. CASE UpdateChannel(c)
      BY <2>0, <3>1 DEF UpdateChannel, ChannelRows, ChannelsInUse
    <3>2. CASE RemoveChannel(c)
      BY <2>0, <3>2 DEF RemoveChannel, ChannelsInUse, NoChannelRow
    <3> QED
      BY <1>21, <3>1, <3>2
  <2> QED
    BY <1>4, <1>21, <2>1 DEF UpdateChannel, RemoveChannel
<1>22. CASE TickPasses
  BY <1>4, <1>22 DEF TickPasses, ChannelsInUse
<1> QED
  BY <1>10, <1>11, <1>12, <1>13, <1>14, <1>15, <1>16, <1>17, <1>18, <1>19, <1>20, <1>21, <1>22 DEF ChannelsNext

\* What was claimed of a channel was claimed no later than it says.
ClaimsOf(c) ==
    /\ \A i, j \in DOMAIN claimed[c] : i < j => claimed[c][j] - claimed[c][i] > Cooldown
    /\ channels[c].there =>
        /\ channels[c].testedAt = Never => claimed[c] = <<>>
        /\ \A i \in DOMAIN claimed[c] : claimed[c][i] <= channels[c].testedAt

LEMMA ClaimsStep ==
    ChannelTypes /\ (\A c \in ChannelIds : ClaimsOf(c)) /\ [ChannelsNext]_channelVars
        => \A c \in ChannelIds : ClaimsOf(c)'
<1> SUFFICES ASSUME ChannelTypes, \A d \in ChannelIds : ClaimsOf(d), [ChannelsNext]_channelVars,
                    NEW c \in ChannelIds
             PROVE  ClaimsOf(c)'
  OBVIOUS
<1>t. channels \in [ChannelIds -> ChannelRows] /\ claimed \in [ChannelIds -> Seq(Ticks)]
      /\ channels[c] \in ChannelRows /\ claimed[c] \in Seq(Ticks) /\ tick \in Ticks
  BY DEF ChannelTypes
<1>1. ASSUME channels'[c] = channels[c] \/ ~channels'[c].there, claimed'[c] = claimed[c] PROVE ClaimsOf(c)'
  BY <1>1 DEF ClaimsOf
<1>2. ASSUME channels'[c] = [NoChannelRow EXCEPT !.there = TRUE], claimed'[c] = <<>> PROVE ClaimsOf(c)'
  BY <1>2 DEF ClaimsOf, NoChannelRow
<1>3. ASSUME NEW a \in Askers, ClaimTest(a), ask[a].channel = c, Claimable(c, ask[a].at) PROVE ClaimsOf(c)'
  <2> DEFINE t == ask[a].at
             s == claimed[c]
  <2>1. t \in Ticks
    BY DEF ChannelTypes, AskRows, Ticks
  <2>2. channels'[c] = [channels[c] EXCEPT !.testedAt = t] /\ claimed'[c] = Append(s, t)
    BY <1>3, <1>t DEF ClaimTest
  <2>3. channels[c].there /\ channels[c].testedAt \in Int
    BY <1>3, <1>t, ChannelsAssumption DEF Claimable, ChannelRows, Never
  <2>4. Cooldown \in Int /\ t \in Int /\ t >= 0 /\ Cooldown >= 0
    BY <2>1, ChannelsAssumption DEF Ticks
  <2>5. \A i \in 1..Len(s) : s[i] \in Int /\ t - s[i] > Cooldown
    <3> SUFFICES ASSUME NEW i \in 1..Len(s) PROVE s[i] \in Int /\ t - s[i] > Cooldown
      OBVIOUS
    <3>1. s[i] \in Ticks /\ DOMAIN s = 1..Len(s)
      BY <1>t, <2>1, OneMoment
    <3>2. s[i] \in Int
      BY <3>1, ChannelsAssumption DEF Ticks
    <3>3. s[i] <= channels[c].testedAt /\ channels[c].testedAt # Never
      BY <2>3, <3>1 DEF ClaimsOf
    <3>4. channels[c].testedAt < t - Cooldown
      BY <1>3, <3>3 DEF Claimable
    <3> HIDE DEF s, t
    <3> QED
      BY <2>3, <2>4, <3>2, <3>3, <3>4
  <2>6. DOMAIN s = 1..Len(s) /\ Len(s) \in Nat
    BY <1>t, <2>1, OneMoment
  <2>7. /\ DOMAIN claimed'[c] = 1..(Len(s) + 1)
        /\ \A i \in 1..Len(s) : claimed'[c][i] = s[i]
        /\ claimed'[c][Len(s) + 1] = t
    BY <1>t, <2>1, <2>2, OneMoment
  <2>8. channels'[c].testedAt = t
    BY <1>t, <2>2 DEF ChannelRows
  <2>9. \A i, j \in DOMAIN s : i < j => s[j] - s[i] > Cooldown
    BY DEF ClaimsOf
  <2> HIDE DEF s, t
  <2>10. \A i, j \in DOMAIN claimed'[c] : i < j => claimed'[c][j] - claimed'[c][i] > Cooldown
    <3> SUFFICES ASSUME NEW i \in 1..(Len(s) + 1), NEW j \in 1..(Len(s) + 1), i < j
                 PROVE  claimed'[c][j] - claimed'[c][i] > Cooldown
      BY <2>7
    <3>1. i \in 1..Len(s) /\ (j \in 1..Len(s) \/ j = Len(s) + 1)
      BY <2>6
    <3> QED
      BY <2>5, <2>6, <2>7, <2>9, <3>1
  <2>11. \A i \in DOMAIN claimed'[c] : claimed'[c][i] <= channels'[c].testedAt
    <3> SUFFICES ASSUME NEW i \in 1..(Len(s) + 1) PROVE claimed'[c][i] <= t
      BY <2>7, <2>8
    <3>1. i \in 1..Len(s) \/ i = Len(s) + 1
      BY <2>6
    <3>2. CASE i \in 1..Len(s)
      <4>1. claimed'[c][i] = s[i] /\ s[i] \in Int /\ t - s[i] > Cooldown
        BY <2>5, <2>7, <3>2
      <4> QED
        BY <2>4, <4>1
    <3> QED
      BY <2>4, <2>7, <3>1, <3>2
  <2>12. channels'[c].testedAt # Never
    BY <2>4, <2>8 DEF Never
  <2> QED
    BY <2>10, <2>11, <2>12 DEF ClaimsOf
<1>4. ASSUME UNCHANGED <<channels, claimed>> PROVE ClaimsOf(c)'
  BY <1>1, <1>4
<1>10. ASSUME NEW a \in Askers, ClaimTest(a) PROVE ClaimsOf(c)'
  <2>1. CASE ask[a].channel = c /\ Claimable(c, ask[a].at)
    BY <1>3, <1>10, <2>1
  <2>2. CASE ask[a].channel # c
    BY <1>1, <1>10, <1>t, <2>2 DEF ClaimTest
  <2>3. CASE ~Claimable(ask[a].channel, ask[a].at)
    BY <1>4, <1>10, <2>3 DEF ClaimTest
  <2> QED
    BY <2>1, <2>2, <2>3
<1>11. ASSUME NEW a \in Askers, InsertChannel(a) PROVE ClaimsOf(c)'
  <2>1. PICK d \in ChannelIds :
            /\ channels' = [channels EXCEPT ![d] = [NoChannelRow EXCEPT !.there = TRUE]]
            /\ claimed' = [claimed EXCEPT ![d] = <<>>]
    BY <1>11 DEF InsertChannel
  <2> QED
    BY <1>1, <1>2, <1>t, <2>1
<1>12. ASSUME NEW d \in ChannelIds, RemoveChannel(d) PROVE ClaimsOf(c)'
  BY <1>1, <1>12, <1>t DEF RemoveChannel, NoChannelRow
<1>13. ASSUME NEW d \in ChannelIds, UpdateChannel(d) PROVE ClaimsOf(c)'
  <2>1. channels'[c].there = channels[c].there /\ channels'[c].testedAt = channels[c].testedAt
    BY <1>13, <1>t DEF UpdateChannel, ChannelRows
  <2>2. claimed' = claimed /\ ClaimsOf(c)
    BY <1>13 DEF UpdateChannel
  <2> QED
    BY <2>1, <2>2 DEF ClaimsOf
<1> QED
  BY <1>4, <1>10, <1>11, <1>12, <1>13
  DEF ChannelsNext, channelVars, AskToCreate, Preflight, CountChannels, AskToTest, CheckBudget, Reread,
      SendTest, RecordTest, TickPasses

Since(times, u) == {i \in DOMAIN times : times[i] >= u}
InStep(steps) == {a \in Askers : ask[a].pc \in steps}
Decided == {"claim", "reread", "send", "record"}

\* What was delivered is recorded as of then or later, is about to be, or was lost.
DeliveredIsRecorded ==
    \A u \in Int : Cardinality(Since(delivered, u))
                       <= Cardinality(Since(recorded, u)) + Cardinality(InStep({"record"})) + unrecorded

\* Who was told that there is budget may be one of many that were.
BudgetIsTaken ==
    TestBudget > 0 =>
        Cardinality(Lately(recorded)) + Cardinality(InStep(Decided)) <= TestBudget - 1 + Cardinality(Askers)

LEMMA MomentsAreFinite ==
    ASSUME NEW s \in Seq(Ticks), NEW u \in Int
    PROVE  IsFiniteSet(Since(s, u)) /\ Cardinality(Since(s, u)) \in Nat
<1>1. Since(s, u) \subseteq 1..Len(s) /\ Len(s) \in Nat
  BY DEF Since
<1>2. IsFiniteSet(1..Len(s))
  <2>1. 1 \in Int /\ Len(s) \in Int
    BY <1>1
  <2> QED
    BY <2>1, FS_Interval
<1>3. IsFiniteSet(Since(s, u))
  BY <1>1, <1>2, FS_Subset
<1> QED
  BY <1>3, FS_CardinalityType

LEMMA OneMomentMore ==
    ASSUME NEW s \in Seq(Ticks), NEW t \in Ticks, NEW u \in Int
    PROVE  Cardinality(Since(Append(s, t), u)) = Cardinality(Since(s, u)) + (IF t >= u THEN 1 ELSE 0)
<1>1. /\ Len(s) \in Nat /\ DOMAIN s = 1..Len(s) /\ DOMAIN Append(s, t) = 1..(Len(s) + 1)
      /\ \A i \in 1..Len(s) : Append(s, t)[i] = s[i]
      /\ Append(s, t)[Len(s) + 1] = t
  BY OneMoment
<1> DEFINE n == Len(s) + 1
<1>2. 1..n = 1..Len(s) \cup {n} /\ n \notin 1..Len(s)
  BY <1>1
<1>3. IsFiniteSet(Since(s, u)) /\ Cardinality(Since(s, u)) \in Nat /\ n \notin Since(s, u)
  BY <1>1, <1>2, MomentsAreFinite DEF Since
<1>4. Since(Append(s, t), u) = IF t >= u THEN Since(s, u) \cup {n} ELSE Since(s, u)
  BY <1>1, <1>2 DEF Since
<1>5. Cardinality(Since(s, u) \cup {n}) = Cardinality(Since(s, u)) + 1
  BY <1>3, FS_AddElement
<1> QED
  BY <1>3, <1>4, <1>5

LEMMA StepsMove ==
    ASSUME NEW a \in Askers, NEW steps, ask \in [Askers -> AskRows],
           ask' \in [Askers -> AskRows], \A b \in Askers : b # a => ask'[b] = ask[b]
    PROVE  /\ Cardinality(InStep(steps)) \in Nat /\ Cardinality(InStep(steps)') \in Nat
           /\ Cardinality(InStep(steps)') = Cardinality(InStep(steps))
                                            + (IF ask'[a].pc \in steps THEN 1 ELSE 0)
                                            - (IF ask[a].pc \in steps THEN 1 ELSE 0)
<1>1. InStep(steps) \subseteq Askers /\ InStep(steps)' \subseteq Askers
  BY DEF InStep
<1>2. IsFiniteSet(InStep(steps)) /\ IsFiniteSet(InStep(steps)')
  BY <1>1, FS_Subset, ChannelsAssumption
<1>3. Cardinality(InStep(steps)) \in Nat /\ Cardinality(InStep(steps)') \in Nat
  BY <1>2, FS_CardinalityType
<1>4. InStep(steps)' = IF ask'[a].pc \in steps THEN InStep(steps) \cup {a} ELSE InStep(steps) \ {a}
  BY DEF InStep
<1>5. a \in InStep(steps) <=> ask[a].pc \in steps
  BY DEF InStep
<1>6. /\ Cardinality(InStep(steps) \cup {a})
             = IF ask[a].pc \in steps THEN Cardinality(InStep(steps)) ELSE Cardinality(InStep(steps)) + 1
      /\ Cardinality(InStep(steps) \ {a})
             = IF ask[a].pc \in steps THEN Cardinality(InStep(steps)) - 1 ELSE Cardinality(InStep(steps))
  BY <1>2, <1>5, FS_AddElement, FS_RemoveElement
<1> HIDE DEF InStep
<1>7. CASE ask'[a].pc \in steps
  BY <1>3, <1>4, <1>6, <1>7
<1>8. CASE ask'[a].pc \notin steps
  BY <1>3, <1>4, <1>6, <1>8
<1> QED
  BY <1>7, <1>8

LEMMA BudgetStep ==
    /\ ChannelTypes /\ ChannelTypes' /\ DeliveredIsRecorded /\ BudgetIsTaken /\ [ChannelsNext]_channelVars
    => DeliveredIsRecorded' /\ BudgetIsTaken'
<1> SUFFICES ASSUME ChannelTypes, ChannelTypes', DeliveredIsRecorded, BudgetIsTaken, [ChannelsNext]_channelVars
             PROVE  DeliveredIsRecorded' /\ BudgetIsTaken'
  OBVIOUS
<1>t. /\ ask \in [Askers -> AskRows] /\ ask' \in [Askers -> AskRows]
      /\ recorded \in Seq(Ticks) /\ delivered \in Seq(Ticks) /\ tick \in Ticks /\ tick \in Int /\ unrecorded \in Int
  BY ChannelsAssumption DEF ChannelTypes, Ticks
<1>h. HourLength \in Int /\ TestBudget \in Int /\ tick - HourLength \in Int /\ tick >= tick - HourLength
  BY <1>t, ChannelsAssumption
<1>c. Cardinality(Askers) \in Nat
  BY ChannelsAssumption, FS_CardinalityType
<1>l. Lately(recorded) = Since(recorded, tick - HourLength)
      /\ (tick' = tick => Lately(recorded)' = Since(recorded', tick - HourLength))
  BY DEF Lately, Since
<1>n. /\ \A u \in Int : Cardinality(Since(recorded, u)) \in Nat /\ Cardinality(Since(delivered, u)) \in Nat
      /\ Cardinality(Lately(recorded)) \in Nat
  BY <1>t, <1>h, <1>l, MomentsAreFinite
<1> DEFINE rec == Cardinality(InStep({"record"}))
           dec == Cardinality(InStep(Decided))
\* A request that delivers and records nothing, and is not let through by the budget.
<1>1. ASSUME NEW a \in Askers, \A b \in Askers : b # a => ask'[b] = ask[b],
             UNCHANGED <<recorded, delivered, unrecorded, tick>>,
             ask'[a].pc = "record" <=> ask[a].pc = "record",
             ask'[a].pc \in Decided => ask[a].pc \in Decided
      PROVE  DeliveredIsRecorded' /\ BudgetIsTaken'
  <2>1. rec \in Nat /\ dec \in Nat /\ rec' = rec /\ dec' \in Nat /\ dec' <= dec
    BY <1>1, <1>t, StepsMove
  <2>2. Lately(recorded)' = Lately(recorded)
    BY <1>1 DEF Lately
  <2>3. DeliveredIsRecorded'
    BY <1>1, <2>1 DEF DeliveredIsRecorded
  <2> HIDE DEF dec
  <2>4. BudgetIsTaken'
    <3>1. TestBudget > 0 => Cardinality(Lately(recorded)) + dec <= TestBudget - 1 + Cardinality(Askers)
      BY DEF BudgetIsTaken, dec
    <3>2. TestBudget > 0 => Cardinality(Lately(recorded)') + dec' <= TestBudget - 1 + Cardinality(Askers)
      BY <1>n, <1>c, <1>h, <2>1, <2>2, <3>1
    <3> QED
      BY <3>2 DEF BudgetIsTaken, dec
  <2> QED
    BY <2>3, <2>4
<1>2. ASSUME UNCHANGED <<ask, recorded, delivered, unrecorded, tick>>
      PROVE  DeliveredIsRecorded' /\ BudgetIsTaken'
  BY <1>2 DEF DeliveredIsRecorded, BudgetIsTaken, Lately, InStep
<1>3. ASSUME NEW a \in Askers, AskEnds(a), ask[a].pc # "record", UNCHANGED <<recorded, delivered, unrecorded, tick>>
      PROVE  DeliveredIsRecorded' /\ BudgetIsTaken'
  <2>1. ask'[a].pc = "idle" /\ \A b \in Askers : b # a => ask'[b] = ask[b]
    BY <1>3, <1>t, AskIsOver
  <2> QED
    BY <1>1, <1>3, <2>1 DEF Decided
<1>4. ASSUME NEW a \in Askers, NEW pc \in AskSteps \ {"record"}, AskGoesTo(a, pc), ask[a].pc # "record",
             pc \in Decided => ask[a].pc \in Decided,
             UNCHANGED <<recorded, delivered, unrecorded, tick>>
      PROVE  DeliveredIsRecorded' /\ BudgetIsTaken'
  <2>1. ask'[a].pc = pc /\ \A b \in Askers : b # a => ask'[b] = ask[b]
    BY <1>4, <1>t, AskMoves
  <2> QED
    BY <1>1, <1>4, <2>1
<1>s. {"preflight", "count", "insert", "send", "claim", "reread", "budget"} \subseteq AskSteps \ {"record"}
      /\ "record" \in AskSteps
  BY DEF AskSteps
<1>10. ASSUME NEW a \in Askers, AskToCreate(a) PROVE DeliveredIsRecorded' /\ BudgetIsTaken'
  BY <1>4, <1>10, <1>s DEF AskToCreate, NoAsk, Decided
<1>11. ASSUME NEW a \in Askers, NEW well \in BOOLEAN, Preflight(a, well) PROVE DeliveredIsRecorded' /\ BudgetIsTaken'
  BY <1>3, <1>4, <1>11, <1>s DEF Preflight, Decided
<1>12. ASSUME NEW a \in Askers, CountChannels(a) PROVE DeliveredIsRecorded' /\ BudgetIsTaken'
  BY <1>3, <1>4, <1>12, <1>s DEF CountChannels, Decided
<1>13. ASSUME NEW a \in Askers, InsertChannel(a) PROVE DeliveredIsRecorded' /\ BudgetIsTaken'
  BY <1>3, <1>13 DEF InsertChannel
<1>14. ASSUME NEW a \in Askers, NEW c \in ChannelIds, AskToTest(a, c) PROVE DeliveredIsRecorded' /\ BudgetIsTaken'
  <2>1. ask[a].pc = "idle" /\ ask'[a].pc = "budget" /\ \A b \in Askers : b # a => ask'[b] = ask[b]
    BY <1>14, <1>t DEF AskToTest, NoAsk
  <2> QED
    BY <1>1, <1>14, <2>1 DEF AskToTest, Decided
<1>15. ASSUME NEW a \in Askers, CheckBudget(a) PROVE DeliveredIsRecorded' /\ BudgetIsTaken'
  <2>1. CASE WithinTestBudget
    <3>1. ask' = [ask EXCEPT ![a].pc = IF Cooldown = 0 THEN "send" ELSE "claim", ![a].at = tick]
          /\ UNCHANGED <<recorded, delivered, unrecorded, tick>>
      BY <1>15, <2>1 DEF CheckBudget
    <3>2. ask[a].pc = "budget" /\ ask'[a].pc \in {"send", "claim"} /\ \A b \in Askers : b # a => ask'[b] = ask[b]
      BY <1>t, <1>15, <3>1 DEF AskRows, CheckBudget
    <3>3. rec' = rec
      BY <1>t, <3>2, StepsMove
    <3>4. DeliveredIsRecorded'
      BY <3>1, <3>3 DEF DeliveredIsRecorded
    <3>5. dec' <= Cardinality(Askers) /\ dec' \in Nat
      <4>1. InStep(Decided)' \subseteq Askers
        BY DEF InStep
      <4>2. Cardinality(InStep(Decided)') <= Cardinality(Askers) /\ IsFiniteSet(InStep(Decided)')
        BY <4>1, FS_Subset, ChannelsAssumption
      <4> QED
        BY <4>2, FS_CardinalityType
    <3>6. Lately(recorded)' = Lately(recorded)
      BY <3>1 DEF Lately
    <3>7. TestBudget > 0 => Cardinality(Lately(recorded)) <= TestBudget - 1
      BY <1>h, <1>n, <2>1 DEF WithinTestBudget
    <3> HIDE DEF dec
    <3>8. TestBudget > 0 => Cardinality(Lately(recorded)') + dec' <= TestBudget - 1 + Cardinality(Askers)
      BY <1>c, <1>h, <1>n, <3>5, <3>6, <3>7
    <3> QED
      BY <3>4, <3>8 DEF BudgetIsTaken, dec
  <2>2. CASE ~WithinTestBudget
    BY <1>3, <1>15, <2>2 DEF CheckBudget
  <2> QED
    BY <2>1, <2>2
<1>16. ASSUME NEW a \in Askers, ClaimTest(a) PROVE DeliveredIsRecorded' /\ BudgetIsTaken'
  BY <1>4, <1>16, <1>s DEF ClaimTest, Decided
<1>17. ASSUME NEW a \in Askers, Reread(a) PROVE DeliveredIsRecorded' /\ BudgetIsTaken'
  BY <1>3, <1>4, <1>17, <1>s DEF Reread, Decided
<1>18. ASSUME NEW a \in Askers, NEW well \in BOOLEAN, SendTest(a, well) PROVE DeliveredIsRecorded' /\ BudgetIsTaken'
  <2>1. CASE well
    <3>1. /\ ask[a].pc = "send" /\ AskGoesTo(a, "record") /\ delivered' = Append(delivered, tick)
          /\ UNCHANGED <<recorded, unrecorded, tick>>
      BY <1>18, <2>1 DEF SendTest
    <3>2. ask'[a].pc = "record" /\ \A b \in Askers : b # a => ask'[b] = ask[b]
      BY <1>s, <1>t, <3>1, AskMoves
    <3>3. rec \in Nat /\ rec' = rec + 1
      <4>1. rec \in Nat /\ rec' = rec + (IF ask'[a].pc \in {"record"} THEN 1 ELSE 0)
                                    - (IF ask[a].pc \in {"record"} THEN 1 ELSE 0)
        BY <1>t, <3>2, StepsMove
      <4> HIDE DEF rec
      <4> QED
        BY <3>1, <3>2, <4>1
    <3>4. dec' = dec
      BY <1>t, <3>1, <3>2, StepsMove DEF Decided
    <3>5. BudgetIsTaken'
      BY <3>1, <3>4 DEF BudgetIsTaken, Lately
    <3>6. ASSUME NEW u \in Int
          PROVE  Cardinality(Since(delivered', u)) <= Cardinality(Since(recorded, u)) + rec' + unrecorded
      <4>1. Cardinality(Since(recorded, u)) \in Nat /\ Cardinality(Since(delivered, u)) \in Nat
        BY <1>n, <3>6
      <4>2. Cardinality(Since(delivered', u)) = Cardinality(Since(delivered, u)) + (IF tick >= u THEN 1 ELSE 0)
        BY <1>t, <3>1, <3>6, OneMomentMore
      <4>3. Cardinality(Since(delivered, u)) <= Cardinality(Since(recorded, u)) + rec + unrecorded
        BY <3>6 DEF DeliveredIsRecorded
      <4> HIDE DEF rec
      <4> QED
        BY <1>t, <3>3, <4>1, <4>2, <4>3
    <3> QED
      BY <3>1, <3>5, <3>6 DEF DeliveredIsRecorded
  <2>2. CASE ~well
    BY <1>3, <1>18, <2>2 DEF SendTest
  <2> QED
    BY <2>1, <2>2
<1>19. ASSUME NEW a \in Askers, NEW well \in BOOLEAN, RecordTest(a, well) PROVE DeliveredIsRecorded' /\ BudgetIsTaken'
  <2>0. ask[a].pc = "record" /\ AskEnds(a) /\ UNCHANGED <<delivered, tick>>
    BY <1>19 DEF RecordTest
  <2>1. ask'[a].pc = "idle" /\ \A b \in Askers : b # a => ask'[b] = ask[b]
    BY <1>t, <2>0, AskIsOver
  <2>2. rec \in Nat /\ rec' = rec - 1 /\ dec \in Nat /\ dec' = dec - 1 /\ rec' \in Nat /\ dec' \in Nat
    <3>1. /\ rec \in Nat /\ rec' \in Nat
          /\ rec' = rec + (IF ask'[a].pc \in {"record"} THEN 1 ELSE 0) - (IF ask[a].pc \in {"record"} THEN 1 ELSE 0)
      BY <1>t, <2>1, StepsMove
    <3>2. /\ dec \in Nat /\ dec' \in Nat
          /\ dec' = dec + (IF ask'[a].pc \in Decided THEN 1 ELSE 0) - (IF ask[a].pc \in Decided THEN 1 ELSE 0)
      BY <1>t, <2>1, StepsMove
    <3>3. ask'[a].pc \notin Decided /\ ask[a].pc \in Decided
      BY <2>0, <2>1 DEF Decided
    <3> HIDE DEF rec, dec
    <3> QED
      BY <2>0, <2>1, <3>1, <3>2, <3>3
  <2>3. CASE recorded' = Append(recorded, tick) /\ UNCHANGED unrecorded
    <3>1. \A u \in Int : Cardinality(Since(recorded', u))
                             = Cardinality(Since(recorded, u)) + (IF tick >= u THEN 1 ELSE 0)
      BY <1>t, <2>3, OneMomentMore
    <3>2. ASSUME NEW u \in Int
          PROVE  Cardinality(Since(delivered, u)) <= Cardinality(Since(recorded', u)) + rec' + unrecorded
      <4>1. Cardinality(Since(delivered, u)) <= Cardinality(Since(recorded, u)) + rec + unrecorded
        BY <3>2 DEF DeliveredIsRecorded
      <4>2. CASE tick >= u
        <5>1. Cardinality(Since(recorded', u)) = Cardinality(Since(recorded, u)) + 1
          BY <3>1, <3>2, <4>2
        <5>2. Cardinality(Since(recorded, u)) \in Nat /\ Cardinality(Since(delivered, u)) \in Nat
          BY <1>n, <3>2
        <5> HIDE DEF rec
        <5> QED
          BY <1>t, <2>2, <4>1, <5>1, <5>2
      <4>3. CASE ~(tick >= u)
        <5>1. \A i \in DOMAIN delivered : delivered[i] \in Int /\ delivered[i] <= tick
          BY <1>t, OneMoment DEF ChannelTypes, Ticks
        <5>2. Since(delivered, u) = {}
          BY <1>t, <3>2, <4>3, <5>1 DEF Since
        <5>3. Cardinality(Since(delivered, u)) = 0
          BY <5>2, FS_EmptySet
        <5>4. unrecorded >= 0
          BY ChannelsAssumption DEF ChannelTypes
        <5> HIDE DEF rec
        <5>5. Cardinality(Since(recorded', u)) \in Nat
          BY <1>n, <3>1, <3>2, <4>3
        <5> QED
          BY <1>t, <2>2, <5>3, <5>4, <5>5
      <4> QED
        BY <4>2, <4>3
    <3>3. Cardinality(Lately(recorded)') = Cardinality(Lately(recorded)) + 1
      BY <1>h, <1>l, <2>0, <3>1
    <3>4. TestBudget > 0 => Cardinality(Lately(recorded)) + dec <= TestBudget - 1 + Cardinality(Askers)
      BY DEF BudgetIsTaken
    <3> HIDE DEF dec
    <3>5. TestBudget > 0 => Cardinality(Lately(recorded)') + dec' <= TestBudget - 1 + Cardinality(Askers)
      BY <1>c, <1>h, <1>n, <2>2, <3>3, <3>4
    <3> QED
      BY <2>0, <2>3, <3>2, <3>5 DEF DeliveredIsRecorded, BudgetIsTaken, dec
  <2>4. CASE unrecorded' = unrecorded + 1 /\ UNCHANGED recorded
    <3>1. DeliveredIsRecorded'
      <4>1. ASSUME NEW u \in Int
            PROVE  Cardinality(Since(delivered, u)) <= Cardinality(Since(recorded, u)) + rec' + unrecorded'
        <5>1. Cardinality(Since(delivered, u)) <= Cardinality(Since(recorded, u)) + rec + unrecorded
          BY <4>1 DEF DeliveredIsRecorded
        <5>2. Cardinality(Since(recorded, u)) \in Nat /\ Cardinality(Since(delivered, u)) \in Nat
          BY <1>n, <4>1
        <5> HIDE DEF rec
        <5> QED
          BY <1>t, <2>2, <2>4, <5>1, <5>2
      <4> QED
        BY <2>0, <2>4, <4>1 DEF DeliveredIsRecorded
    <3>2. Lately(recorded)' = Lately(recorded)
      BY <2>0, <2>4 DEF Lately
    <3>3. TestBudget > 0 => Cardinality(Lately(recorded)) + dec <= TestBudget - 1 + Cardinality(Askers)
      BY DEF BudgetIsTaken
    <3> HIDE DEF dec
    <3>4. TestBudget > 0 => Cardinality(Lately(recorded)') + dec' <= TestBudget - 1 + Cardinality(Askers)
      BY <1>c, <1>h, <1>n, <2>2, <3>2, <3>3
    <3> QED
      BY <3>1, <3>4 DEF BudgetIsTaken, dec
  <2> QED
    BY <1>19, <2>3, <2>4 DEF RecordTest
<1>20. CASE TickPasses
  <2>1. tick' = tick + 1 /\ UNCHANGED <<ask, recorded, delivered, unrecorded>>
    BY <1>20 DEF TickPasses
  <2>2. DeliveredIsRecorded'
    BY <2>1 DEF DeliveredIsRecorded, InStep
  <2>3. Lately(recorded)' \subseteq Lately(recorded)
    <3>1. \A i \in DOMAIN recorded : recorded[i] \in Int
      BY <1>t, OneMoment DEF Ticks
    <3> QED
      BY <1>h, <1>t, <2>1, <3>1 DEF Lately
  <2>4. IsFiniteSet(Lately(recorded))
    BY <1>h, <1>l, <1>t, MomentsAreFinite
  <2>5. Cardinality(Lately(recorded)') <= Cardinality(Lately(recorded)) /\ IsFiniteSet(Lately(recorded)')
    BY <2>3, <2>4, FS_Subset
  <2>6. Cardinality(Lately(recorded)') \in Nat /\ dec \in Nat /\ dec' = dec
    <3>1. InStep(Decided) \subseteq Askers
      BY DEF InStep
    <3>2. IsFiniteSet(InStep(Decided))
      BY <3>1, FS_Subset, ChannelsAssumption
    <3> QED
      BY <2>1, <2>5, <3>2, FS_CardinalityType DEF InStep
  <2>7. TestBudget > 0 => Cardinality(Lately(recorded)) + dec <= TestBudget - 1 + Cardinality(Askers)
    BY DEF BudgetIsTaken
  <2> HIDE DEF dec
  <2>8. TestBudget > 0 => Cardinality(Lately(recorded)') + dec' <= TestBudget - 1 + Cardinality(Askers)
    BY <1>c, <1>h, <1>n, <2>5, <2>6, <2>7
  <2> QED
    BY <2>2, <2>8 DEF BudgetIsTaken, dec
<1> HIDE DEF rec, dec
<1> QED
  BY <1>2, <1>10, <1>11, <1>12, <1>13, <1>14, <1>15, <1>16, <1>17, <1>18, <1>19, <1>20
  DEF ChannelsNext, channelVars, UpdateChannel, RemoveChannel

ChannelsInv ==
    /\ ChannelTypes /\ PlacesInv /\ \A c \in ChannelIds : ClaimsOf(c)
    /\ DeliveredIsRecorded /\ BudgetIsTaken

LEMMA ChannelsStep == ChannelsInv /\ [ChannelsNext]_channelVars => ChannelsInv'
BY ChannelTypesStep, PlacesStep, ClaimsStep, BudgetStep DEF ChannelsInv

LEMMA ChannelsInitially == ChannelsInit => ChannelsInv
<1> SUFFICES ASSUME ChannelsInit
             PROVE  ChannelsInv
  OBVIOUS
<1>1. ChannelTypes
  BY TestSteps, ChannelsAssumption DEF ChannelsInit, ChannelTypes, Ticks, NoAsk
<1>2. ChannelsInUse = {} /\ \A a \in Askers : ask[a].pc = "idle"
  BY DEF ChannelsInit, ChannelsInUse, NoChannelRow, NoAsk
<1>3. PlacesInv
  BY <1>2, FS_EmptySet, ChannelsAssumption DEF PlacesInv, HasThePlace
<1>4. \A c \in ChannelIds : ClaimsOf(c)
  BY DEF ChannelsInit, ClaimsOf
<1>5. InStep({"record"}) = {} /\ InStep(Decided) = {} /\ Lately(recorded) = {} /\ \A u \in Int : Since(delivered, u) = {} /\ Since(recorded, u) = {}
  BY <1>2 DEF InStep, Decided, ChannelsInit, Lately, Since
<1>6. Cardinality({}) = 0 /\ Cardinality(Askers) \in Nat
  BY FS_EmptySet, FS_CardinalityType, ChannelsAssumption
<1>7. DeliveredIsRecorded
  <2>1. unrecorded = 0
    BY DEF ChannelsInit
  <2> SUFFICES ASSUME NEW u \in Int
               PROVE  Cardinality(Since(delivered, u))
                          <= Cardinality(Since(recorded, u)) + Cardinality(InStep({"record"})) + unrecorded
    BY DEF DeliveredIsRecorded
  <2>2. Since(delivered, u) = {} /\ Since(recorded, u) = {} /\ InStep({"record"}) = {}
    BY <1>5
  <2> QED
    BY <1>6, <2>1, <2>2
<1>8. BudgetIsTaken
  <2>1. TestBudget > 0 => 0 + 0 <= TestBudget - 1 + Cardinality(Askers)
    BY <1>6, ChannelsAssumption
  <2> QED
    BY <1>5, <1>6, <2>1 DEF BudgetIsTaken
<1> QED
  BY <1>1, <1>3, <1>4, <1>7, <1>8 DEF ChannelsInv

LEMMA ChannelsAreKept == ChannelsInv => ChannelsTypeOK /\ ChannelsWithinPlan /\ OneTestPerCooldown /\ TestsWithinBudget
<1> SUFFICES ASSUME ChannelsInv
             PROVE  ChannelsTypeOK /\ ChannelsWithinPlan /\ OneTestPerCooldown /\ TestsWithinBudget
  OBVIOUS
<1>t. ChannelTypes /\ PlacesInv /\ (\A c \in ChannelIds : ClaimsOf(c)) /\ DeliveredIsRecorded /\ BudgetIsTaken
  BY DEF ChannelsInv
<1>1. ChannelsTypeOK
  <2>1. ASSUME NEW i \in DOMAIN recorded PROVE recorded[i] \in 0..tick
    <3>1. recorded[i] \in Ticks
      BY <1>t, OneMoment DEF ChannelTypes
    <3> QED
      BY <1>t, <3>1, ChannelsAssumption DEF ChannelTypes, Ticks
  <2> QED
    BY <1>t, <2>1 DEF ChannelsTypeOK, ChannelTypes, ChannelRows, AskRows, Ticks
<1>2. ChannelsWithinPlan
  BY <1>t DEF ChannelsWithinPlan, PlacesInv
<1>3. OneTestPerCooldown
  BY <1>t DEF OneTestPerCooldown, ClaimsOf
<1>4. TestsWithinBudget
  <2> SUFFICES ASSUME TestBudget > 0
               PROVE  Cardinality(Lately(delivered)) <= TestBudget + Cardinality(Askers) - 1 + unrecorded
    BY DEF TestsWithinBudget
  <2> DEFINE u == tick - HourLength
  <2>1. u \in Int /\ recorded \in Seq(Ticks) /\ delivered \in Seq(Ticks) /\ unrecorded \in Int
    BY <1>t, ChannelsAssumption DEF ChannelTypes, Ticks
  <2>2. Lately(delivered) = Since(delivered, u) /\ Lately(recorded) = Since(recorded, u)
    BY DEF Lately, Since
  <2>3. Cardinality(Since(delivered, u)) \in Nat /\ Cardinality(Since(recorded, u)) \in Nat
    BY <2>1, MomentsAreFinite
  <2>4. InStep(Decided) \subseteq Askers /\ InStep({"record"}) \subseteq InStep(Decided)
    BY DEF InStep, Decided
  <2>5. IsFiniteSet(InStep(Decided))
    BY <2>4, FS_Subset, ChannelsAssumption
  <2>6. Cardinality(InStep({"record"})) <= Cardinality(InStep(Decided)) /\ IsFiniteSet(InStep({"record"}))
    BY <2>4, <2>5, FS_Subset
  <2>7. Cardinality(InStep({"record"})) \in Nat /\ Cardinality(InStep(Decided)) \in Nat /\ Cardinality(Askers) \in Nat
    BY <2>5, <2>6, FS_CardinalityType, ChannelsAssumption
  <2>8. Cardinality(Since(delivered, u)) <= Cardinality(Since(recorded, u)) + Cardinality(InStep({"record"})) + unrecorded
    BY <1>t, <2>1 DEF DeliveredIsRecorded
  <2>9. Cardinality(Since(recorded, u)) + Cardinality(InStep(Decided)) <= TestBudget - 1 + Cardinality(Askers)
    BY <1>t, <2>2 DEF BudgetIsTaken
  <2>10. TestBudget \in Int
    BY ChannelsAssumption
  <2> HIDE DEF u
  <2> QED
    BY <2>1, <2>2, <2>3, <2>6, <2>7, <2>8, <2>9, <2>10
<1> QED
  BY <1>1, <1>2, <1>3, <1>4

(***************************************************************************)
(* StarterSync, when no request outlasts its lock: who counted room has    *)
(* it, since all that is written meanwhile is removed or heard of.         *)
(***************************************************************************)
SyncSteps == {"idle", "count", "known", "upsert", "written", "count one", "create"}
SyncCalls == [pc : SyncSteps, env : Envs \cup {"none"}, payload : Payloads \cup {<<>>}, schedule : Schedules,
          prune : BOOLEAN, now : 0..MaxClock, room : 0..Limit, skipped : SUBSET Keys]

Declared == {pair \in Envs \X Keys : Exists(pair[1], pair[2])}
Accepted(r) == ToSet(call[r].payload) \ call[r].skipped

\* What there is once a request has written what it decided.
WouldExist(r) ==
    {pair \in Envs \X Keys : Exists(pair[1], pair[2]) \/ (pair[1] = call[r].env /\ pair[2] \in Accepted(r))}

HasItsRoom(r) ==
    /\ call[r].pc # "idle" => accountLock = r
    /\ call[r].pc = "known" => Owned + call[r].room <= Limit
    /\ call[r].pc = "upsert" => /\ manual + Cardinality(WouldExist(r)) <= Limit
                                /\ \A k \in call[r].skipped : call[r].env \in Envs => ~Exists(call[r].env, k)
    /\ call[r].pc = "create" => Owned + 1 <= Limit

SyncInv ==
    /\ StarterSyncTypeOK /\ Owned <= Limit /\ DeclaredIsNotOrphaned
    /\ \A r \in Callers : HasItsRoom(r)

SyncTypes ==
    /\ declared \in [Envs -> [Keys -> Rows \cup {NoCheck}]]
    /\ manual \in 0..Limit /\ accountLock \in Callers \cup {NoCaller}
    /\ call \in [Callers -> SyncCalls] /\ kept \in [Envs -> SUBSET Keys] /\ clock \in 0..MaxClock

LEMMA SyncTypesAre == (StarterSyncTypeOK <=> SyncTypes) /\ (StarterSyncTypeOK' <=> SyncTypes')
BY DEF StarterSyncTypeOK, SyncTypes, SyncCalls, SyncSteps

LEMMA NoCallIsCall == NoCall \in SyncCalls /\ NoCall.pc = "idle"
BY SyncAssumption DEF NoCall, SyncCalls, SyncSteps, Schedules

LEMMA CallMoves ==
    ASSUME call \in [Callers -> SyncCalls], NEW r \in Callers, NEW v \in SyncCalls, call' = [call EXCEPT ![r] = v]
    PROVE  call' \in [Callers -> SyncCalls] /\ call'[r] = v /\ \A q \in Callers : q # r => call'[q] = call[q]
OBVIOUS

LEMMA RowsExist == (\A v \in Rows : v # NoCheck) /\ NoCheck.state = "none"
BY DEF Rows, NoCheck

LEMMA DeclaredIsFinite ==
    /\ IsFiniteSet(Envs \X Keys)
    /\ \A S \in SUBSET (Envs \X Keys) : IsFiniteSet(S) /\ Cardinality(S) \in Nat
    /\ Declared \subseteq Envs \X Keys /\ Owned = manual + Cardinality(Declared)
<1>1. IsFiniteSet(Envs \X Keys)
  BY FS_Product, SyncAssumption
<1>2. \A S \in SUBSET (Envs \X Keys) : IsFiniteSet(S) /\ Cardinality(S) \in Nat
  BY <1>1, FS_Subset, FS_CardinalityType
<1> QED
  BY <1>1, <1>2 DEF Declared, Owned

LEMMA FewerPairs ==
    ASSUME NEW S \in SUBSET (Envs \X Keys), NEW T \in SUBSET S
    PROVE  Cardinality(T) \in Nat /\ Cardinality(S) \in Nat /\ Cardinality(T) <= Cardinality(S)
<1>1. T \in SUBSET (Envs \X Keys)
  OBVIOUS
<1> QED
  BY <1>1, DeclaredIsFinite, FS_Subset

\* There is room for as many as stand at a place there is room for.
LEMMA PlacesAreFew ==
    ASSUME NEW n \in Nat, NEW W \in SUBSET (1..n), NEW room \in Nat,
           NEW Fits, Fits = {i \in W : Cardinality({j \in W : j <= i}) <= room}
    PROVE  IsFiniteSet(Fits) /\ Cardinality(Fits) <= room /\ Cardinality(Fits) \in Nat
<1> DEFINE Upto(i) == {j \in W : j <= i}
           f == [i \in Fits |-> Cardinality(Upto(i))]
<1>1. IsFiniteSet(1..n)
  BY FS_Interval
<1>2. \A i : IsFiniteSet(Upto(i))
  <2> SUFFICES ASSUME NEW i PROVE IsFiniteSet(Upto(i))
    OBVIOUS
  <2>1. Upto(i) \in SUBSET (1..n)
    OBVIOUS
  <2> QED
    BY <1>1, <2>1, FS_Subset
<1>3. \A i \in Fits : f[i] \in 1..room
  <2> SUFFICES ASSUME NEW i \in Fits PROVE Cardinality(Upto(i)) \in 1..room
    OBVIOUS
  <2>1. Cardinality(Upto(i)) \in Nat /\ Cardinality(Upto(i)) <= room
    BY <1>2, FS_CardinalityType
  <2>2. i \in Upto(i)
    OBVIOUS
  <2>3. Cardinality(Upto(i)) # 0
    BY <1>2, <2>2, FS_EmptySet
  <2> HIDE DEF Upto
  <2> QED
    BY <2>1, <2>3
<1>4. ASSUME NEW i \in Fits, NEW k \in Fits, i < k PROVE f[i] # f[k]
  <2>1. Upto(i) \subseteq Upto(k) /\ k \notin Upto(i) /\ k \in Upto(k)
    <3>1. i \in W /\ k \in W /\ (\A j \in W : j \in Int) /\ i < k
      BY <1>4
    <3>2. \A j \in W : j <= i => j <= k
      BY <3>1
    <3>3. k <= k /\ ~(k <= i)
      BY <3>1
    <3> QED
      BY <3>1, <3>2, <3>3
  <2>2. Cardinality(Upto(i)) # Cardinality(Upto(k))
    <3>1. IsFiniteSet(Upto(k)) /\ Upto(i) \in SUBSET Upto(k) /\ Upto(i) # Upto(k)
      BY <1>2, <2>1
    <3> HIDE DEF Upto
    <3> QED
      BY <3>1, FS_Subset
  <2> QED
    BY <1>4, <2>2
<1>5. \A i, k \in Fits : f[i] = f[k] => i = k
  <2> SUFFICES ASSUME NEW i \in Fits, NEW k \in Fits, i # k PROVE f[i] # f[k]
    OBVIOUS
  <2>1. i \in Int /\ k \in Int
    OBVIOUS
  <2> HIDE DEF f
  <2> QED
    BY <1>4, <2>1
<1>6. IsFiniteSet(1..room) /\ Cardinality(1..room) = room
  BY FS_Interval
<1> HIDE DEF f
<1>7. f \in [Fits -> 1..room]
  BY <1>3 DEF f
<1>8. f \in Injection(Fits, 1..room)
  BY <1>5, <1>7 DEF Injection, IsInjective
<1>9. IsFiniteSet(Fits) /\ Cardinality(Fits) <= Cardinality(1..room)
  BY <1>6, <1>8, FS_Injection
<1> QED
  BY <1>6, <1>9, FS_CardinalityType

\* A request that has written nothing: nobody else is at work.
LEMMA RequestMoves ==
    ASSUME SyncInv, NEW r \in Callers, NEW v \in SyncCalls, call' = [call EXCEPT ![r] = v],
           UNCHANGED <<declared, manual, kept, clock>>,
           accountLock \in {r, NoCaller}, accountLock' \in {r, NoCaller}, HasItsRoom(r)'
    PROVE  SyncInv'
<1>t. SyncTypes /\ Owned <= Limit /\ DeclaredIsNotOrphaned /\ \A q \in Callers : HasItsRoom(q)
  BY SyncTypesAre DEF SyncInv
<1>1. call' \in [Callers -> SyncCalls] /\ \A q \in Callers : q # r => call'[q] = call[q]
  BY <1>t, CallMoves DEF SyncTypes
<1>2. \A q \in Callers : q # r => HasItsRoom(q)'
  <2> SUFFICES ASSUME NEW q \in Callers, q # r PROVE HasItsRoom(q)'
    OBVIOUS
  <2>1. call[q].pc = "idle"
    BY <1>t, SyncAssumption DEF HasItsRoom
  <2> QED
    BY <1>1, <2>1 DEF HasItsRoom
<1>3. SyncTypes'
  BY <1>t, <1>1 DEF SyncTypes
<1>4. Owned' = Owned /\ DeclaredIsNotOrphaned'
  BY <1>t DEF Owned, Exists, DeclaredIsNotOrphaned
<1> QED
  BY <1>t, <1>2, <1>3, <1>4, SyncTypesAre DEF SyncInv

LEMMA OneMoreFits == \A less, more, most \in Nat : less <= more => (more + 1 <= most => less + 1 <= most)
OBVIOUS

\* Nobody at work: something is removed, or heard of.
LEMMA FewerChecksAreOwned ==
    ASSUME SyncInv, UNCHANGED <<accountLock, call, kept>>,
           declared' \in [Envs -> [Keys -> Rows \cup {NoCheck}]], manual' \in 0..Limit, manual' <= manual,
           clock' \in 0..MaxClock,
           \A e \in Envs, k \in Keys :
               /\ declared[e][k] = NoCheck => declared'[e][k] = NoCheck
               /\ declared'[e][k].state = "orphaned" => declared[e][k].state = "orphaned"
    PROVE  SyncInv'
<1>t. SyncTypes /\ Owned <= Limit /\ DeclaredIsNotOrphaned /\ \A q \in Callers : HasItsRoom(q)
  BY SyncTypesAre DEF SyncInv
<1>n. manual \in Nat /\ manual' \in Nat /\ Limit \in Nat
  BY <1>t, SyncAssumption DEF SyncTypes
<1>1. SyncTypes'
  BY <1>t DEF SyncTypes
<1>2. Declared' \subseteq Declared
  BY DEF Declared, Exists
<1>3. Cardinality(Declared') \in Nat /\ Cardinality(Declared) \in Nat /\ Cardinality(Declared') <= Cardinality(Declared)
  BY <1>2, DeclaredIsFinite, FewerPairs
<1>4. Owned = manual + Cardinality(Declared) /\ Owned' = manual' + Cardinality(Declared')
  BY DEF Owned, Declared
<1>5. Owned \in Nat /\ Owned' \in Nat /\ Owned' <= Owned
  BY <1>n, <1>3, <1>4
<1>6. Owned' <= Limit
  BY <1>n, <1>5, <1>t
<1>7. DeclaredIsNotOrphaned'
  BY <1>1, <1>t DEF DeclaredIsNotOrphaned, SyncTypes
<1>8. \A r \in Callers : HasItsRoom(r)'
  <2> SUFFICES ASSUME NEW r \in Callers PROVE HasItsRoom(r)'
    OBVIOUS
  <2>0. HasItsRoom(r) /\ call[r] \in SyncCalls
    BY <1>t DEF SyncTypes
  <2>1. WouldExist(r)' \subseteq WouldExist(r) /\ WouldExist(r) \subseteq Envs \X Keys
    BY DEF WouldExist, Exists, Accepted
  <2>2. /\ Cardinality(WouldExist(r)') \in Nat /\ Cardinality(WouldExist(r)) \in Nat
        /\ Cardinality(WouldExist(r)') <= Cardinality(WouldExist(r))
    BY <2>1, FewerPairs
  <2>3. call[r].room \in Nat
    BY <2>0, SyncAssumption DEF SyncCalls
  <2>4. call[r].pc = "known" => Owned' + call[r].room <= Limit
    <3>1. call[r].pc = "known" => Owned + call[r].room <= Limit
      BY <2>0 DEF HasItsRoom
    <3> QED
      BY <1>n, <1>5, <2>3, <3>1
  <2>5. call[r].pc = "create" => Owned' + 1 <= Limit
    <3>1. call[r].pc = "create" => Owned + 1 <= Limit
      BY <2>0 DEF HasItsRoom
    <3> QED
      BY <1>n, <1>5, <3>1, OneMoreFits, Zenon
  <2>6. call[r].pc = "upsert" => manual' + Cardinality(WouldExist(r)') <= Limit
    <3>1. call[r].pc = "upsert" => manual + Cardinality(WouldExist(r)) <= Limit
      BY <2>0 DEF HasItsRoom
    <3> QED
      BY <1>n, <2>2, <3>1
  <2>7. call[r].pc = "upsert" => \A k \in call[r].skipped : call[r].env \in Envs => ~Exists(call[r].env, k)'
    BY <2>0 DEF HasItsRoom, Exists, SyncCalls
  <2> QED
    BY <2>0, <2>4, <2>5, <2>6, <2>7 DEF HasItsRoom
<1> QED
  BY <1>1, <1>6, <1>7, <1>8, SyncTypesAre DEF SyncInv

LEMMA DeclareBegins ==
    ASSUME NEW r \in Callers,
           \E e \in Envs, payload \in Payloads, schedule \in Schedules, prune \in BOOLEAN :
               Declare(r, e, payload, schedule, prune)
    PROVE  \E first \in SyncCalls : first.pc = "count" /\ Serialised(r, first)
<1>1. PICK e \in Envs, payload \in Payloads, schedule \in Schedules, prune \in BOOLEAN :
          Declare(r, e, payload, schedule, prune)
  BY Zenon
<1> DEFINE v1 == [NoCall EXCEPT !.pc = "count"]
           v2 == [v1 EXCEPT !.env = e]
           v3 == [v2 EXCEPT !.payload = payload]
           v4 == [v3 EXCEPT !.schedule = schedule]
           v5 == [v4 EXCEPT !.prune = prune]
<1>2. v1 \in SyncCalls /\ v1.pc = "count"
  BY NoCallIsCall DEF SyncCalls, SyncSteps
<1>3. Serialised(r, v5)
  BY <1>1 DEF Declare
<1> HIDE DEF v1
<1>4. v2 \in SyncCalls /\ v2.pc = "count"
  BY <1>2 DEF SyncCalls
<1> HIDE DEF v2
<1>5. v3 \in SyncCalls /\ v3.pc = "count"
  BY <1>4 DEF SyncCalls
<1> HIDE DEF v3
<1>6. v4 \in SyncCalls /\ v4.pc = "count"
  BY <1>5 DEF SyncCalls
<1> HIDE DEF v4
<1>7. v5 \in SyncCalls /\ v5.pc = "count"
  BY <1>6 DEF SyncCalls
<1> HIDE DEF v5
<1> QED
  BY <1>3, <1>7, Zenon

LEMMA SyncStep == ~LockTimesOut /\ SyncInv /\ [StarterSyncNext]_syncVars => SyncInv'
<1> SUFFICES ASSUME ~LockTimesOut, SyncInv, [StarterSyncNext]_syncVars
             PROVE  SyncInv'
  OBVIOUS
<1>t. SyncTypes /\ Owned <= Limit /\ DeclaredIsNotOrphaned /\ \A q \in Callers : HasItsRoom(q)
  BY SyncTypesAre DEF SyncInv
<1>n. manual \in Nat /\ Limit \in Nat /\ Owned \in Nat /\ MaxClock \in Nat /\ clock \in Int
  BY <1>t, DeclaredIsFinite, SyncAssumption DEF SyncTypes
<1>c. \A r \in Callers : call[r] \in SyncCalls /\ HasItsRoom(r)
  BY <1>t DEF SyncTypes
<1>1. ASSUME NEW r \in Callers, call' = [call EXCEPT ![r] = NoCall], UNCHANGED <<declared, manual, kept, clock>>,
             accountLock \in {r, NoCaller}, accountLock' \in {r, NoCaller}
      PROVE  SyncInv'
  <2>1. call'[r].pc = "idle"
    BY <1>1, <1>t, NoCallIsCall, CallMoves DEF SyncTypes
  <2>2. HasItsRoom(r)'
    BY <2>1 DEF HasItsRoom
  <2> QED
    BY <1>1, <2>2, NoCallIsCall, RequestMoves
<1>2. ASSUME NEW r \in Callers, NEW first \in SyncCalls, first.pc = "count" \/ first.pc = "count one", Serialised(r, first)
      PROVE  SyncInv'
  <2> DEFINE v == [first EXCEPT !.now = clock]
  <2>1. v \in SyncCalls /\ v.pc \in {"count", "count one"}
    BY <1>2, <1>t DEF SyncCalls, SyncTypes
  <2>2. /\ call' = [call EXCEPT ![r] = v] /\ accountLock = NoCaller /\ accountLock' = r
        /\ UNCHANGED <<declared, manual, kept, clock>>
    BY <1>2 DEF Serialised, LockIsFree
  <2> HIDE DEF v
  <2>3. call'[r] = v
    BY <1>t, <2>1, <2>2, CallMoves DEF SyncTypes
  <2>4. HasItsRoom(r)'
    BY <2>1, <2>2, <2>3 DEF HasItsRoom
  <2> QED
    BY <2>1, <2>2, <2>4, RequestMoves
<1>3. ASSUME NEW r \in Callers,
             \E e \in Envs, payload \in Payloads, schedule \in Schedules, prune \in BOOLEAN :
                 Declare(r, e, payload, schedule, prune)
      PROVE  SyncInv'
  <2>1. PICK first \in SyncCalls : first.pc = "count" /\ Serialised(r, first)
    BY <1>3, DeclareBegins
  <2> QED
    BY <1>2, <1>3, <2>1
<1>4. ASSUME NEW r \in Callers, StartCreate(r) PROVE SyncInv'
  <2>1. [NoCall EXCEPT !.pc = "count one"] \in SyncCalls /\ [NoCall EXCEPT !.pc = "count one"].pc = "count one"
    BY NoCallIsCall DEF SyncCalls, SyncSteps
  <2> QED
    BY <1>2, <1>4, <2>1 DEF StartCreate
<1>5. ASSUME NEW r \in Callers, LockLost(r) PROVE SyncInv'
  BY <1>1, <1>5 DEF LockLost
<1>6. ASSUME NEW r \in Callers, CountRoom(r) PROVE SyncInv'
  <2> DEFINE v == [call[r] EXCEPT !.pc = "known", !.room = Room]
  <2>1. Room \in 0..Limit /\ Owned + Room <= Limit
    BY <1>n, <1>t DEF Room
  <2>2. v \in SyncCalls /\ v.pc = "known" /\ v.room = Room
    BY <1>c, <2>1 DEF SyncCalls, SyncSteps
  <2>3. call' = [call EXCEPT ![r] = v]
    <3>1. call' = [call EXCEPT ![r].pc = "known", ![r].room = Room]
      BY <1>6 DEF CountRoom
    <3>2. \A f : [f EXCEPT ![r].pc = "known", ![r].room = Room]
                = [f EXCEPT ![r] = [f[r] EXCEPT !.pc = "known", !.room = Room]]
      OBVIOUS
    <3> QED
      BY <3>1, <3>2
  <2> HIDE DEF v
  <2>4. call'[r] = v
    BY <1>t, <2>2, <2>3, CallMoves DEF SyncTypes
  <2>5. /\ accountLock = r /\ UNCHANGED <<declared, manual, accountLock, kept, clock>>
        /\ Owned' = Owned
    BY <1>6, <1>c DEF CountRoom, HasItsRoom, Owned, Exists
  <2>6. HasItsRoom(r)'
    BY <2>1, <2>2, <2>4, <2>5 DEF HasItsRoom
  <2> QED
    BY <2>2, <2>3, <2>5, <2>6, RequestMoves
<1>7. ASSUME NEW r \in Callers, ApplyCheckQuota(r) PROVE SyncInv'
  <2> DEFINE p == call[r].payload
             e == call[r].env
             W == WouldCreate(r)
             Fits == {i \in W : Cardinality({j \in W : j <= i}) <= call[r].room}
             skipped == {p[i] : i \in {j \in W : PlaceOf(r, j) > call[r].room}}
             v == [call[r] EXCEPT !.pc = "upsert", !.skipped = skipped]
             new == {<<e, p[i]>> : i \in Fits}
  <2>1. /\ call[r].pc = "known" /\ accountLock = r /\ Owned + call[r].room <= Limit /\ call[r].room \in Nat
        /\ UNCHANGED <<declared, manual, accountLock, kept, clock>>
    BY <1>7, <1>c, SyncAssumption DEF ApplyCheckQuota, HasItsRoom, SyncCalls
  <2>2. PICK n \in Nat : DOMAIN p = 1..n /\ \A i \in 1..n : p[i] \in Keys
    <3>1. p \in Payloads \/ p = <<>>
      BY <1>c DEF SyncCalls
    <3>2. CASE p \in Payloads
      BY <3>2 DEF Payloads
    <3>3. CASE p = <<>>
      <4>1. DOMAIN p = 1..0 /\ \A i \in 1..0 : p[i] \in Keys
        BY <3>3
      <4> QED
        BY <4>1
    <3> QED
      BY <3>1, <3>2, <3>3
  <2>3. W \in SUBSET (1..n) /\ \A i \in W : ~Exists(e, p[i])
    BY <2>2 DEF WouldCreate
  <2>4. IsFiniteSet(Fits) /\ Cardinality(Fits) <= call[r].room /\ Cardinality(Fits) \in Nat
    <3> HIDE DEF W
    <3> QED
      BY <2>1, <2>3, PlacesAreFew
  <2>5. skipped \subseteq Keys /\ \A k \in skipped : ~Exists(e, k)
    BY <2>2, <2>3
  <2>6. v \in SyncCalls /\ v.pc = "upsert" /\ v.skipped = skipped /\ v.payload = p /\ v.env = e
    <3> HIDE DEF skipped
    <3> QED
      BY <1>c, <2>5 DEF SyncCalls, SyncSteps
  <2>7. call' = [call EXCEPT ![r] = v]
    <3>1. call' = [call EXCEPT ![r].pc = "upsert", ![r].skipped = skipped]
      BY <1>7 DEF ApplyCheckQuota
    <3>2. \A f, s : [f EXCEPT ![r].pc = "upsert", ![r].skipped = s]
                   = [f EXCEPT ![r] = [f[r] EXCEPT !.pc = "upsert", !.skipped = s]]
      OBVIOUS
    <3> HIDE DEF skipped
    <3> QED
      BY <3>1, <3>2
  <2>8. \A k \in ToSet(p) \ skipped : Exists(e, k) \/ \E i \in Fits : k = p[i]
    <3> SUFFICES ASSUME NEW k \in ToSet(p), k \notin skipped, ~Exists(e, k)
                 PROVE  \E i \in Fits : k = p[i]
      OBVIOUS
    <3>1. PICK i \in DOMAIN p : k = p[i]
      BY DEF ToSet
    <3>2. i \in W
      BY <3>1 DEF WouldCreate
    <3>3. ~(PlaceOf(r, i) > call[r].room)
      BY <3>1, <3>2
    <3>4. PlaceOf(r, i) = Cardinality({j \in W : j <= i})
      BY DEF PlaceOf
    <3>5. IsFiniteSet({j \in W : j <= i})
      <4>1. IsFiniteSet(1..n)
        BY FS_Interval
      <4>2. {j \in W : j <= i} \in SUBSET (1..n)
        BY <2>3
      <4> QED
        BY <4>1, <4>2, FS_Subset
    <3>6. Cardinality({j \in W : j <= i}) \in Nat
      BY <3>5, FS_CardinalityType
    <3>7. Cardinality({j \in W : j <= i}) <= call[r].room
      <4> HIDE DEF W
      <4> QED
        BY <2>1, <3>3, <3>4, <3>6
    <3> QED
      BY <3>1, <3>2, <3>7
  <2>9. IsFiniteSet(new) /\ Cardinality(new) <= Cardinality(Fits) /\ Cardinality(new) \in Nat
    <3> DEFINE f == [i \in Fits |-> <<e, p[i]>>]
    <3> HIDE DEF Fits
    <3>1. f \in Surjection(Fits, new)
      BY DEF Surjection
    <3> HIDE DEF f, new
    <3>2. IsFiniteSet(new) /\ Cardinality(new) <= Cardinality(Fits)
      BY <2>4, <3>1, FS_Surjection
    <3> QED
      BY <3>2, FS_CardinalityType
  <2> HIDE DEF v, skipped, W, Fits, p, e
  <2>10. call'[r] = v
    BY <1>t, <2>6, <2>7, CallMoves DEF SyncTypes
  <2>11. WouldExist(r)' \subseteq Declared \cup new
    BY <2>1, <2>6, <2>8, <2>10 DEF WouldExist, Declared, Accepted, Exists
  <2>12. manual' + Cardinality(WouldExist(r)') <= Limit
    <3> HIDE DEF new
    <3>1. IsFiniteSet(Declared) /\ Cardinality(Declared) \in Nat /\ Owned = manual + Cardinality(Declared)
      BY DeclaredIsFinite
    <3>2. /\ IsFiniteSet(Declared \cup new)
          /\ Cardinality(Declared \cup new) = Cardinality(Declared) + Cardinality(new) - Cardinality(Declared \cap new)
      BY <2>9, <3>1, FS_Union
    <3>3. Cardinality(Declared \cap new) \in Nat /\ Cardinality(Declared \cup new) \in Nat
      BY <3>1, <3>2, FS_Intersection, FS_CardinalityType
    <3>4. Cardinality(WouldExist(r)') <= Cardinality(Declared \cup new) /\ IsFiniteSet(WouldExist(r)')
      BY <2>11, <3>2, FS_Subset
    <3>5. Cardinality(WouldExist(r)') \in Nat
      BY <3>4, FS_CardinalityType
    <3> QED
      BY <1>n, <2>1, <2>4, <2>9, <3>1, <3>2, <3>3, <3>4, <3>5
  <2>13. HasItsRoom(r)'
    BY <2>1, <2>5, <2>6, <2>10, <2>12 DEF HasItsRoom, Exists
  <2> QED
    BY <2>1, <2>6, <2>7, <2>13, RequestMoves
<1>8. ASSUME NEW r \in Callers, Upsert(r) PROVE SyncInv'
  <2> DEFINE names == ToSet(call[r].payload)
             e == call[r].env
             v == [call[r] EXCEPT !.pc = "written"]
  <2>1. /\ call[r].pc = "upsert" /\ accountLock = r /\ manual + Cardinality(WouldExist(r)) <= Limit
        /\ \A k \in call[r].skipped : e \in Envs => ~Exists(e, k)
        /\ UNCHANGED <<manual, accountLock, clock>>
    BY <1>8, <1>c DEF Upsert, HasItsRoom
  <2>2. v \in SyncCalls /\ v.pc = "written" /\ call' = [call EXCEPT ![r] = v]
    BY <1>8, <1>c DEF Upsert, SyncCalls, SyncSteps
  <2>3. \A f \in Envs, k \in Keys :
            declared'[f][k] = CASE f = e /\ k \in Accepted(r) -> UpsertedRow(declared[f][k], r)
                                [] ~(f = e /\ k \in Accepted(r)) /\ Orphans(r, f) /\ k \notin names /\ Exists(f, k) ->
                                       [declared[f][k] EXCEPT !.state = "orphaned"]
                                [] OTHER -> declared[f][k]
    BY <1>8 DEF Upsert, Accepted
  <2>4. declared' = [f \in Envs |-> [k \in Keys |-> declared'[f][k]]]
    BY <1>8 DEF Upsert
  <2>5. \A was \in Rows \cup {NoCheck} : UpsertedRow(was, r) \in Rows /\ UpsertedRow(was, r).state = "live"
    BY <1>c DEF UpsertedRow, Rows, SyncCalls
  <2>6. \A was \in Rows : [was EXCEPT !.state = "orphaned"] \in Rows
    BY DEF Rows
  <2>7. ASSUME NEW f \in Envs, NEW k \in Keys
        PROVE  /\ declared'[f][k] \in Rows \cup {NoCheck}
               /\ declared'[f][k] # NoCheck => Exists(f, k) \/ (f = e /\ k \in Accepted(r))
               /\ declared'[f][k].state = "orphaned" =>
                      /\ ~(f = e /\ k \in Accepted(r))
                      /\ declared[f][k].state = "orphaned" \/ (call[r].prune /\ f = e /\ k \notin names)
    <3>1. declared[f][k] \in Rows \cup {NoCheck}
      BY <1>t, <2>7 DEF SyncTypes
    <3>2. CASE f = e /\ k \in Accepted(r)
      <4>1. declared'[f][k] = UpsertedRow(declared[f][k], r)
        BY <2>3, <2>7, <3>2
      <4> QED
        BY <2>5, <3>1, <3>2, <4>1
    <3>3. CASE ~(f = e /\ k \in Accepted(r)) /\ Orphans(r, f) /\ k \notin names /\ Exists(f, k)
      <4>1. declared'[f][k] = [declared[f][k] EXCEPT !.state = "orphaned"]
        BY <2>3, <2>7, <3>3
      <4>2. declared[f][k] \in Rows
        BY <3>1, <3>3 DEF Exists
      <4> QED
        BY <2>6, <3>3, <4>1, <4>2 DEF Orphans
    <3>4. CASE ~(f = e /\ k \in Accepted(r)) /\ ~(Orphans(r, f) /\ k \notin names /\ Exists(f, k))
      <4>1. declared'[f][k] = declared[f][k]
        BY <2>3, <2>7, <3>4
      <4> QED
        BY <3>1, <3>4, <4>1 DEF Exists
    <3> QED
      BY <3>2, <3>3, <3>4
  <2> HIDE DEF v
  <2>8. declared' \in [Envs -> [Keys -> Rows \cup {NoCheck}]]
    BY <2>4, <2>7
  <2>9. call' \in [Callers -> SyncCalls] /\ call'[r] = v /\ \A q \in Callers : q # r => call'[q] = call[q]
    BY <1>t, <2>2, CallMoves DEF SyncTypes
  <2>10. kept' = [kept EXCEPT ![e] = IF call[r].prune THEN names ELSE @ \cup Accepted(r)]
    BY <1>8 DEF Upsert, Accepted
  <2>11. names \subseteq Keys
    <3>1. call[r].payload \in Payloads \/ call[r].payload = <<>>
      BY <1>c DEF SyncCalls
    <3> QED
      BY <3>1 DEF Payloads, ToSet
  <2>12. SyncTypes'
    <3>1. kept' \in [Envs -> SUBSET Keys]
      <4>1. kept \in [Envs -> SUBSET Keys] /\ Accepted(r) \subseteq Keys
        BY <1>t, <2>11 DEF SyncTypes, Accepted
      <4> HIDE DEF names, e
      <4> QED
        BY <2>10, <2>11, <4>1
    <3> QED
      BY <1>t, <2>1, <2>8, <2>9, <3>1 DEF SyncTypes
  <2>13. Owned' <= Limit
    <3>1. Declared' \subseteq WouldExist(r) /\ WouldExist(r) \subseteq Envs \X Keys
      BY <2>7 DEF Declared, WouldExist, Exists
    <3>2. /\ Cardinality(Declared') \in Nat /\ Cardinality(WouldExist(r)) \in Nat
          /\ Cardinality(Declared') <= Cardinality(WouldExist(r))
      BY <3>1, FewerPairs
    <3>3. Owned' = manual + Cardinality(Declared')
      BY <2>1 DEF Owned, Declared
    <3> QED
      BY <1>n, <2>1, <3>2, <3>3
  <2>14. DeclaredIsNotOrphaned'
    <3> SUFFICES ASSUME NEW f \in Envs, NEW k \in kept'[f], declared'[f][k].state = "orphaned"
                 PROVE  FALSE
      BY DEF DeclaredIsNotOrphaned
    <3>0. k \in Keys
      BY <2>12 DEF SyncTypes
    <3>1. /\ ~(f = e /\ k \in Accepted(r))
          /\ declared[f][k].state = "orphaned" \/ (call[r].prune /\ f = e /\ k \notin names)
      BY <2>7, <3>0
    <3>2. CASE f # e
      <4>1. k \in kept[f]
        BY <1>t, <2>10, <3>2 DEF SyncTypes
      <4> QED
        BY <1>t, <3>1, <3>2, <4>1 DEF DeclaredIsNotOrphaned
    <3>3. CASE f = e /\ call[r].prune
      <4>1. k \in names
        BY <1>t, <2>10, <3>3 DEF SyncTypes
      <4>2. k \in call[r].skipped
        BY <3>1, <3>3, <4>1 DEF Accepted
      <4>3. declared[f][k] = NoCheck
        BY <2>1, <3>3, <4>2 DEF Exists
      <4> QED
        BY <3>1, <4>1, <4>3, RowsExist
    <3>4. CASE f = e /\ ~call[r].prune
      <4>1. k \in kept[f] \cup Accepted(r)
        BY <1>t, <2>10, <3>4 DEF SyncTypes
      <4> QED
        BY <1>t, <3>1, <3>4, <4>1 DEF DeclaredIsNotOrphaned
    <3> QED
      BY <3>2, <3>3, <3>4
  <2>15. \A q \in Callers : HasItsRoom(q)'
    <3>1. HasItsRoom(r)'
      BY <2>1, <2>2, <2>9 DEF HasItsRoom
    <3>2. ASSUME NEW q \in Callers, q # r PROVE HasItsRoom(q)'
      <4>1. call[q].pc = "idle" /\ call'[q] = call[q]
        BY <1>c, <2>1, <2>9, <3>2 DEF HasItsRoom
      <4> QED
        BY <4>1 DEF HasItsRoom
    <3> QED
      BY <3>1, <3>2
  <2> QED
    BY <2>12, <2>13, <2>14, <2>15, SyncTypesAre DEF SyncInv
<1>9. ASSUME NEW r \in Callers, Answer(r) PROVE SyncInv'
  BY <1>1, <1>9, <1>c DEF Answer, Released, HasItsRoom
<1>10. ASSUME NEW r \in Callers, AssertCanAddCheck(r) PROVE SyncInv'
  <2>1. accountLock = r /\ UNCHANGED <<declared, manual, kept, clock>>
    BY <1>10, <1>c DEF AssertCanAddCheck, HasItsRoom
  <2>2. CASE Owned + 1 > Limit
    BY <1>1, <1>10, <2>1, <2>2 DEF AssertCanAddCheck, Released
  <2>3. CASE ~(Owned + 1 > Limit)
    <3> DEFINE v == [call[r] EXCEPT !.pc = "create"]
    <3>1. v \in SyncCalls /\ v.pc = "create"
      BY <1>c DEF SyncCalls, SyncSteps
    <3>2. call' = [call EXCEPT ![r] = v] /\ accountLock' = accountLock /\ Owned' = Owned
      BY <1>10, <2>3 DEF AssertCanAddCheck, Owned, Exists
    <3>3. Owned + 1 <= Limit
      BY <1>n, <2>3
    <3> HIDE DEF v
    <3>4. call'[r] = v
      BY <1>t, <3>1, <3>2, CallMoves DEF SyncTypes
    <3>5. HasItsRoom(r)'
      BY <2>1, <3>1, <3>2, <3>3, <3>4 DEF HasItsRoom
    <3> QED
      BY <2>1, <3>1, <3>2, <3>5, RequestMoves
  <2> QED
    BY <2>2, <2>3
<1>11. ASSUME NEW r \in Callers, CreateCommits(r) PROVE SyncInv'
  <2>1. /\ accountLock = r /\ Owned + 1 <= Limit /\ manual' = manual + 1 /\ manual < Limit
        /\ accountLock' = NoCaller /\ call' = [call EXCEPT ![r] = NoCall] /\ UNCHANGED <<declared, kept, clock>>
    BY <1>11, <1>c DEF CreateCommits, HasItsRoom, Released
  <2>2. /\ call' \in [Callers -> SyncCalls] /\ call'[r].pc = "idle"
        /\ \A q \in Callers : q # r => call'[q] = call[q] /\ call[q].pc = "idle"
    BY <1>t, <2>1, NoCallIsCall, CallMoves DEF SyncTypes, HasItsRoom
  <2>3. SyncTypes'
    BY <1>n, <1>t, <2>1, <2>2 DEF SyncTypes
  <2>4. Declared' = Declared /\ Cardinality(Declared) \in Nat
    BY <2>1, DeclaredIsFinite DEF Declared, Exists
  <2>5. Owned = manual + Cardinality(Declared) /\ Owned' = manual' + Cardinality(Declared')
    BY DEF Owned, Declared
  <2>6. Owned' <= Limit
    BY <1>n, <2>1, <2>4, <2>5
  <2>7. DeclaredIsNotOrphaned'
    BY <1>t, <2>1 DEF DeclaredIsNotOrphaned
  <2> QED
    BY <2>2, <2>3, <2>6, <2>7, SyncTypesAre DEF SyncInv, HasItsRoom
<1>12. CASE UNCHANGED syncVars
  BY <1>12, <1>n, <1>t, FewerChecksAreOwned DEF syncVars, SyncTypes
<1>13. CASE RemoveManual
  <2>1. manual' \in 0..Limit /\ manual' <= manual
    BY <1>13, <1>n, <1>t DEF RemoveManual, SyncTypes
  <2> QED
    BY <1>13, <1>t, <2>1, FewerChecksAreOwned DEF RemoveManual, SyncTypes
<1>14. ASSUME NEW e \in Envs, NEW k \in Keys, RemoveDeclared(e, k) \/ Beat(e, k) PROVE SyncInv'
  <2>0. declared \in [Envs -> [Keys -> Rows \cup {NoCheck}]] /\ clock \in 0..MaxClock
        /\ declared[e][k] # NoCheck /\ UNCHANGED <<manual, accountLock, call, kept, clock>>
    BY <1>14, <1>t DEF RemoveDeclared, Beat, SyncTypes, Exists
  <2>1. \E was \in Rows \cup {NoCheck} :
            /\ declared' = [declared EXCEPT ![e][k] = was]
            /\ was.state = "orphaned" => declared[e][k].state = "orphaned"
    <3>1. CASE RemoveDeclared(e, k)
      BY <3>1, RowsExist DEF RemoveDeclared
    <3>2. CASE Beat(e, k)
      <4>1. declared[e][k] \in Rows
        BY <1>14, <2>0
      <4>2. [declared[e][k] EXCEPT !.since = clock] \in Rows
            /\ [declared[e][k] EXCEPT !.since = clock].state = declared[e][k].state
        BY <2>0, <4>1 DEF Rows
      <4>3. declared' = [declared EXCEPT ![e][k] = [declared[e][k] EXCEPT !.since = clock]]
        BY <3>2, <2>0, <1>14 DEF Beat
      <4> QED
        BY <4>2, <4>3
    <3> QED
      BY <1>14, <3>1, <3>2
  <2>2. PICK was \in Rows \cup {NoCheck} :
            /\ declared' = [declared EXCEPT ![e][k] = was]
            /\ was.state = "orphaned" => declared[e][k].state = "orphaned"
    BY <2>1
  <2>3. /\ declared' \in [Envs -> [Keys -> Rows \cup {NoCheck}]]
        /\ \A f \in Envs, j \in Keys : declared'[f][j] = IF f = e /\ j = k THEN was ELSE declared[f][j]
    BY <1>14, <2>0, <2>2
  <2>4. \A f \in Envs, j \in Keys :
            /\ declared[f][j] = NoCheck => declared'[f][j] = NoCheck
            /\ declared'[f][j].state = "orphaned" => declared[f][j].state = "orphaned"
    BY <2>0, <2>2, <2>3
  <2>5. manual' \in 0..Limit /\ manual' <= manual
    BY <1>n, <1>t, <2>0 DEF SyncTypes
  <2> QED
    BY <2>0, <2>3, <2>4, <2>5, FewerChecksAreOwned
<1>15. CASE ClockTick
  <2>1. clock' \in 0..MaxClock /\ manual' \in 0..Limit /\ manual' <= manual
    BY <1>15, <1>n, <1>t DEF ClockTick, SyncTypes
  <2> QED
    BY <1>15, <1>t, <2>1, FewerChecksAreOwned DEF ClockTick, SyncTypes
<1> QED
  BY <1>3, <1>4, <1>5, <1>6, <1>7, <1>8, <1>9, <1>10, <1>11, <1>12, <1>13, <1>14, <1>15 DEF StarterSyncNext

LEMMA SyncInitially == StarterSyncInit => SyncInv
<1> SUFFICES ASSUME StarterSyncInit
             PROVE  SyncInv
  OBVIOUS
<1>1. SyncTypes
  BY NoCallIsCall, SyncAssumption DEF StarterSyncInit, SyncTypes
<1>2. Declared = {}
  BY DEF StarterSyncInit, Declared, Exists
<1>3. Owned = 0
  BY <1>2, DeclaredIsFinite, FS_EmptySet DEF StarterSyncInit
<1>4. DeclaredIsNotOrphaned /\ \A r \in Callers : HasItsRoom(r)
  BY NoCallIsCall DEF StarterSyncInit, DeclaredIsNotOrphaned, HasItsRoom
<1> QED
  BY <1>1, <1>3, <1>4, SyncTypesAre, SyncAssumption DEF SyncInv

\* Whatever the lock, and whoever outlasts it.
LEMMA GraceStep == SyncTypes /\ [StarterSyncNext]_syncVars => SyncTypes' /\ RestartGrantsNoGrace
<1> SUFFICES ASSUME SyncTypes, [StarterSyncNext]_syncVars
             PROVE  SyncTypes' /\ RestartGrantsNoGrace
  OBVIOUS
<1>t. /\ declared \in [Envs -> [Keys -> Rows \cup {NoCheck}]]
      /\ manual \in 0..Limit /\ accountLock \in Callers \cup {NoCaller}
      /\ call \in [Callers -> SyncCalls] /\ kept \in [Envs -> SUBSET Keys] /\ clock \in 0..MaxClock
  BY DEF SyncTypes
<1>n. manual \in Nat /\ Limit \in Nat /\ Owned \in Nat /\ MaxClock \in Nat
  BY <1>t, DeclaredIsFinite, SyncAssumption
<1>1. ASSUME NEW r \in Callers, NEW v \in SyncCalls, call' = [call EXCEPT ![r] = v],
             UNCHANGED <<declared, kept, clock>>, manual' \in 0..Limit,
             accountLock' \in Callers \cup {NoCaller}
      PROVE  SyncTypes' /\ RestartGrantsNoGrace
  BY <1>1, <1>t, CallMoves DEF SyncTypes, RestartGrantsNoGrace
<1>2. ASSUME NEW r \in Callers, NEW first \in SyncCalls, Serialised(r, first)
      PROVE  SyncTypes' /\ RestartGrantsNoGrace
  <2>1. [first EXCEPT !.now = clock] \in SyncCalls
    BY <1>2, <1>t DEF SyncCalls
  <2> QED
    BY <1>1, <1>2, <1>t, <2>1 DEF Serialised
<1>3. ASSUME NEW r \in Callers,
             \E e \in Envs, payload \in Payloads, schedule \in Schedules, prune \in BOOLEAN :
                 Declare(r, e, payload, schedule, prune)
      PROVE  SyncTypes' /\ RestartGrantsNoGrace
  BY <1>2, <1>3, DeclareBegins
<1>4. ASSUME NEW r \in Callers, StartCreate(r) PROVE SyncTypes' /\ RestartGrantsNoGrace
  <2>1. [NoCall EXCEPT !.pc = "count one"] \in SyncCalls
    BY NoCallIsCall DEF SyncCalls, SyncSteps
  <2> QED
    BY <1>2, <1>4, <2>1 DEF StartCreate
<1>5. ASSUME NEW r \in Callers, LockLost(r) PROVE SyncTypes' /\ RestartGrantsNoGrace
  <2> DEFINE v == IF call[r].pc = "upsert" THEN call[r] ELSE NoCall
  <2>1. v \in SyncCalls
    BY <1>5, <1>t, NoCallIsCall
  <2>2. call' = [call EXCEPT ![r] = v]
    BY <1>5 DEF LockLost
  <2> HIDE DEF v
  <2> QED
    BY <1>1, <1>5, <1>t, <2>1, <2>2 DEF LockLost
<1>6. ASSUME NEW r \in Callers, CountRoom(r) PROVE SyncTypes' /\ RestartGrantsNoGrace
  <2> DEFINE v == [call[r] EXCEPT !.pc = "known", !.room = Room]
  <2>1. Room \in 0..Limit
    BY <1>n DEF Room
  <2>2. v \in SyncCalls
    BY <1>t, <1>6, <2>1 DEF SyncCalls, SyncSteps
  <2>3. call' = [call EXCEPT ![r] = v]
    <3>1. call' = [call EXCEPT ![r].pc = "known", ![r].room = Room]
      BY <1>6 DEF CountRoom
    <3>2. \A f : [f EXCEPT ![r].pc = "known", ![r].room = Room]
                = [f EXCEPT ![r] = [f[r] EXCEPT !.pc = "known", !.room = Room]]
      OBVIOUS
    <3> QED
      BY <3>1, <3>2
  <2> HIDE DEF v
  <2> QED
    BY <1>1, <1>6, <1>t, <2>2, <2>3 DEF CountRoom
<1>7. ASSUME NEW r \in Callers, ApplyCheckQuota(r) PROVE SyncTypes' /\ RestartGrantsNoGrace
  <2> DEFINE skipped == {call[r].payload[i] : i \in {j \in WouldCreate(r) : PlaceOf(r, j) > call[r].room}}
             v == [call[r] EXCEPT !.pc = "upsert", !.skipped = skipped]
  <2>1. skipped \subseteq Keys
    <3>1. call[r].payload \in Payloads \/ call[r].payload = <<>>
      BY <1>7, <1>t DEF SyncCalls
    <3>2. \A i \in DOMAIN call[r].payload : call[r].payload[i] \in Keys
      BY <3>1 DEF Payloads
    <3> QED
      BY <3>2 DEF WouldCreate
  <2>2. call' = [call EXCEPT ![r] = v]
    <3>1. call' = [call EXCEPT ![r].pc = "upsert", ![r].skipped = skipped]
      BY <1>7 DEF ApplyCheckQuota
    <3>2. \A f, s : [f EXCEPT ![r].pc = "upsert", ![r].skipped = s]
                   = [f EXCEPT ![r] = [f[r] EXCEPT !.pc = "upsert", !.skipped = s]]
      OBVIOUS
    <3> HIDE DEF skipped
    <3> QED
      BY <3>1, <3>2
  <2> HIDE DEF skipped
  <2>3. v \in SyncCalls
    BY <1>7, <1>t, <2>1 DEF SyncCalls, SyncSteps
  <2> HIDE DEF v
  <2> QED
    BY <1>1, <1>7, <1>t, <2>2, <2>3 DEF ApplyCheckQuota
<1>8. ASSUME NEW r \in Callers, Upsert(r) PROVE SyncTypes' /\ RestartGrantsNoGrace
  <2> DEFINE names == ToSet(call[r].payload)
             e == call[r].env
             v == [call[r] EXCEPT !.pc = "written"]
  <2>1. v \in SyncCalls /\ call' = [call EXCEPT ![r] = v] /\ UNCHANGED <<manual, accountLock, clock>>
    BY <1>8, <1>t DEF Upsert, SyncCalls, SyncSteps
  <2>2. \A f \in Envs, k \in Keys :
            declared'[f][k] = CASE f = e /\ k \in Accepted(r) -> UpsertedRow(declared[f][k], r)
                                [] ~(f = e /\ k \in Accepted(r)) /\ Orphans(r, f) /\ k \notin names /\ Exists(f, k) ->
                                       [declared[f][k] EXCEPT !.state = "orphaned"]
                                [] OTHER -> declared[f][k]
    BY <1>8 DEF Upsert, Accepted
  <2>3. declared' = [f \in Envs |-> [k \in Keys |-> declared'[f][k]]]
    BY <1>8 DEF Upsert
  <2>4. \A was \in Rows \cup {NoCheck} :
            /\ UpsertedRow(was, r) \in Rows
            /\ was # NoCheck /\ UpsertedRow(was, r).schedule = was.schedule => UpsertedRow(was, r).since = was.since
    BY <1>8, <1>t DEF UpsertedRow, Rows, SyncCalls
  <2>5. \A was \in Rows : /\ [was EXCEPT !.state = "orphaned"] \in Rows
                          /\ [was EXCEPT !.state = "orphaned"].since = was.since
    BY DEF Rows
  <2>6. ASSUME NEW f \in Envs, NEW k \in Keys
        PROVE  /\ declared'[f][k] \in Rows \cup {NoCheck}
               /\ declared[f][k] # NoCheck /\ declared'[f][k].schedule = declared[f][k].schedule =>
                      declared'[f][k].since = declared[f][k].since
    <3>1. declared[f][k] \in Rows \cup {NoCheck}
      BY <1>t, <2>6
    <3>2. CASE f = e /\ k \in Accepted(r)
      <4>1. declared'[f][k] = UpsertedRow(declared[f][k], r)
        BY <2>2, <2>6, <3>2
      <4> QED
        BY <2>4, <3>1, <4>1
    <3>3. CASE ~(f = e /\ k \in Accepted(r)) /\ Orphans(r, f) /\ k \notin names /\ Exists(f, k)
      <4>1. declared'[f][k] = [declared[f][k] EXCEPT !.state = "orphaned"]
        BY <2>2, <2>6, <3>3
      <4>2. declared[f][k] \in Rows
        BY <3>1, <3>3 DEF Exists
      <4> QED
        BY <2>5, <4>1, <4>2
    <3>4. CASE ~(f = e /\ k \in Accepted(r)) /\ ~(Orphans(r, f) /\ k \notin names /\ Exists(f, k))
      <4>1. declared'[f][k] = declared[f][k]
        BY <2>2, <2>6, <3>4
      <4> QED
        BY <3>1, <4>1
    <3> QED
      BY <3>2, <3>3, <3>4
  <2> HIDE DEF v
  <2>7. declared' \in [Envs -> [Keys -> Rows \cup {NoCheck}]]
    BY <2>3, <2>6
  <2>8. call' \in [Callers -> SyncCalls]
    BY <1>t, <2>1
  <2>9. names \subseteq Keys
    <3>1. call[r].payload \in Payloads \/ call[r].payload = <<>>
      BY <1>8, <1>t DEF SyncCalls
    <3> QED
      BY <3>1 DEF Payloads, ToSet
  <2>10. kept' \in [Envs -> SUBSET Keys]
    <3>1. kept' = [kept EXCEPT ![e] = IF call[r].prune THEN names ELSE @ \cup Accepted(r)]
      BY <1>8 DEF Upsert, Accepted
    <3>2. kept \in [Envs -> SUBSET Keys] /\ Accepted(r) \subseteq Keys
      BY <1>t, <2>9 DEF Accepted
    <3> HIDE DEF names, e
    <3> QED
      BY <2>9, <3>1, <3>2
  <2> QED
    BY <1>t, <2>1, <2>6, <2>7, <2>8, <2>10 DEF SyncTypes, RestartGrantsNoGrace
<1>9. ASSUME NEW r \in Callers, Answer(r) PROVE SyncTypes' /\ RestartGrantsNoGrace
  BY <1>1, <1>9, <1>t, NoCallIsCall DEF Answer, Released
<1>10. ASSUME NEW r \in Callers, AssertCanAddCheck(r) PROVE SyncTypes' /\ RestartGrantsNoGrace
  <2> DEFINE v == IF Owned + 1 > Limit THEN NoCall ELSE [call[r] EXCEPT !.pc = "create"]
  <2>1. v \in SyncCalls
    BY <1>10, <1>t, NoCallIsCall DEF SyncCalls, SyncSteps
  <2>2. call' = [call EXCEPT ![r] = v] /\ accountLock' \in Callers \cup {NoCaller}
    BY <1>10, <1>t DEF AssertCanAddCheck, Released
  <2> HIDE DEF v
  <2> QED
    BY <1>1, <1>10, <1>t, <2>1, <2>2 DEF AssertCanAddCheck
<1>11. ASSUME NEW r \in Callers, CreateCommits(r) PROVE SyncTypes' /\ RestartGrantsNoGrace
  <2>1. manual' \in 0..Limit
    BY <1>11, <1>n DEF CreateCommits
  <2> QED
    BY <1>1, <1>11, <1>t, <2>1, NoCallIsCall DEF CreateCommits, Released
<1>12. CASE UNCHANGED syncVars
  BY <1>12, <1>t DEF syncVars, SyncTypes, RestartGrantsNoGrace
<1>13. CASE RemoveManual \/ ClockTick
  <2>1. manual' \in 0..Limit /\ clock' \in 0..MaxClock /\ UNCHANGED <<declared, accountLock, call, kept>>
    BY <1>13, <1>n, <1>t DEF RemoveManual, ClockTick
  <2> QED
    BY <1>t, <2>1 DEF SyncTypes, RestartGrantsNoGrace
<1>14. ASSUME NEW e \in Envs, NEW k \in Keys, RemoveDeclared(e, k) \/ Beat(e, k)
       PROVE  SyncTypes' /\ RestartGrantsNoGrace
  <2>0. declared[e][k] # NoCheck /\ UNCHANGED <<manual, accountLock, call, kept, clock>>
    BY <1>14 DEF RemoveDeclared, Beat, Exists
  <2>1. PICK was \in Rows \cup {NoCheck} :
            declared' = [declared EXCEPT ![e][k] = was] /\ (was = NoCheck \/ was.since = clock)
    <3>1. CASE RemoveDeclared(e, k)
      BY <3>1 DEF RemoveDeclared
    <3>2. CASE Beat(e, k)
      <4>1. declared[e][k] \in Rows
        BY <1>14, <1>t, <2>0
      <4>2. /\ [declared[e][k] EXCEPT !.since = clock] \in Rows
            /\ [declared[e][k] EXCEPT !.since = clock].since = clock
        BY <1>t, <4>1 DEF Rows
      <4>3. declared' = [declared EXCEPT ![e][k] = [declared[e][k] EXCEPT !.since = clock]]
        BY <3>2, <1>14, <1>t DEF Beat
      <4> QED
        BY <4>2, <4>3
    <3> QED
      BY <1>14, <3>1, <3>2
  <2>2. /\ declared' \in [Envs -> [Keys -> Rows \cup {NoCheck}]]
        /\ \A f \in Envs, j \in Keys : declared'[f][j] = IF f = e /\ j = k THEN was ELSE declared[f][j]
    BY <1>14, <1>t, <2>1
  <2> QED
    BY <1>t, <2>0, <2>1, <2>2 DEF SyncTypes, RestartGrantsNoGrace
<1> QED
  BY <1>3, <1>4, <1>5, <1>6, <1>7, <1>8, <1>9, <1>10, <1>11, <1>12, <1>13, <1>14 DEF StarterSyncNext

-----------------------------------------------------------------------------
(***************************************************************************)
(* Numbers.                                                                *)
(***************************************************************************)
\* A set of numbers has a least.
LEMMA LeastOf == ASSUME NEW S \in SUBSET Nat, S # {} PROVE \E n \in S : \A m \in S : n <= m
<1> DEFINE less == {pair \in Nat \X Nat : pair[1] < pair[2]}
<1>0. IsWellFoundedOn(less, Nat)
  BY NatLessThanWellFounded DEF OpToRel
<1>1. PICK n \in S : \A m \in S : <<m, n>> \notin less
  <2> HIDE DEF less
  <2> QED
    BY <1>0, WFMin
<1>2. \A m \in S : ~(m < n)
  BY <1>1
<1> QED
  BY <1>1, <1>2

LEMMA GreatestOf ==
    ASSUME NEW S \in SUBSET Nat, IsFiniteSet(S), S # {}
    PROVE  \E n \in S : \A m \in S : m <= n
<1> DEFINE Above(x) == {y \in S : y > x}
           sizes == {Cardinality(Above(x)) : x \in S}
<1>1. \A x \in S : IsFiniteSet(Above(x)) /\ Cardinality(Above(x)) \in Nat
  BY FS_Subset, FS_CardinalityType
<1>2. sizes \in SUBSET Nat /\ sizes # {}
  BY <1>1
<1>3. PICK n \in S : \A m \in S : Cardinality(Above(n)) <= Cardinality(Above(m))
  <2>1. PICK size \in sizes : \A other \in sizes : size <= other
    <3> HIDE DEF sizes
    <3> QED
      BY <1>2, LeastOf
  <2> QED
    BY <2>1
<1>4. ASSUME NEW m \in S, ~(m <= n) PROVE FALSE
  <2>1. m > n /\ m \in S /\ n \in S
    BY <1>3, <1>4
  <2>2. Above(m) \subseteq Above(n) /\ m \in Above(n) /\ m \notin Above(m)
    <3>1. \A y \in S : y \in Nat
      OBVIOUS
    <3>2. \A x, y, z \in Nat : (z > y /\ y > x => z > x) /\ ~(y > y)
      OBVIOUS
    <3> QED
      BY <2>1, <3>1, <3>2
  <2>3. Cardinality(Above(m)) <= Cardinality(Above(n)) /\ Cardinality(Above(n)) # Cardinality(Above(m))
    <3>1. Above(m) \in SUBSET Above(n) /\ Above(m) # Above(n) /\ IsFiniteSet(Above(n))
      BY <1>1, <2>2
    <3> HIDE DEF Above
    <3> QED
      BY <3>1, FS_Subset
  <2>4. Cardinality(Above(n)) <= Cardinality(Above(m))
    BY <1>3, <1>4
  <2> HIDE DEF Above
  <2> QED
    BY <1>1, <2>3, <2>4, <1>3, <1>4
<1> QED
  BY <1>4

-----------------------------------------------------------------------------
(***************************************************************************)
(* What channels keep sealed while the key changes.                        *)
(***************************************************************************)
RunRows == [pc : {"idle", "read", "rows", "done"}, key : 1..LastKey, previous : 0..LastKey,
            after : StoredChannels \cup {0}, rows : UNION {[S -> 0..LastKey] : S \in SUBSET StoredChannels},
            failed : Nat]

VaultTypes ==
    /\ stored \in [StoredChannels -> NoChannel..LastKey]
    /\ secretKey \in 1..LastKey /\ oldest \in 1..secretKey
    /\ run \in [Runs -> RunRows] /\ disturbed \subseteq Runs
    /\ \A p \in Runs : run[p].previous < run[p].key

\* What an undisturbed pass has come past and left under another key.
LeftBehind(p) ==
    {c \in StoredChannels : /\ Present(c) /\ stored[c] # run[p].key
                            /\ c <= run[p].after /\ c \notin DOMAIN run[p].rows}

Undisturbed(p) ==
    /\ run[p].key = secretKey /\ oldest = secretKey
    /\ \A c \in DOMAIN run[p].rows : c <= run[p].after /\ stored[c] \in {run[p].rows[c], NoChannel, run[p].key}
    /\ run[p].pc # "rows" => DOMAIN run[p].rows = {}
    /\ Cardinality(LeftBehind(p)) <= run[p].failed
    /\ run[p].pc = "done" => \A c \in StoredChannels : Present(c) /\ c > run[p].after => stored[c] = run[p].key

VaultInv ==
    /\ VaultTypes
    /\ \A p \in Runs : run[p].pc # "idle" /\ p \notin disturbed => Undisturbed(p)

LEMMA RunFields ==
    ASSUME NEW v \in RunRows
    PROVE  /\ v.pc \in {"idle", "read", "rows", "done"} /\ v.key \in 1..LastKey /\ v.previous \in 0..LastKey
           /\ v.after \in StoredChannels \cup {0} /\ v.failed \in Nat
           /\ v.rows \in [DOMAIN v.rows -> 0..LastKey] /\ DOMAIN v.rows \subseteq StoredChannels
<1>1. PICK S \in SUBSET StoredChannels : v.rows \in [S -> 0..LastKey]
  BY DEF RunRows
<1>2. DOMAIN v.rows = S
  BY <1>1
<1> QED
  BY <1>1, <1>2 DEF RunRows

LEMMA RowsAre == ASSUME NEW S \in SUBSET StoredChannels, NEW f \in [S -> 0..LastKey]
                 PROVE  f \in UNION {[T -> 0..LastKey] : T \in SUBSET StoredChannels}
OBVIOUS

LEMMA NoRunIsRun == NoRun \in RunRows /\ NoRun.previous < NoRun.key /\ NoRun.pc = "idle"
<1> DEFINE none == [c \in {} |-> 0]
<1>1. none \in UNION {[T -> 0..LastKey] : T \in SUBSET StoredChannels}
  <2>1. {} \in SUBSET StoredChannels /\ none \in [{} -> 0..LastKey]
    OBVIOUS
  <2> HIDE DEF none
  <2> QED
    BY <2>1, RowsAre
<1> HIDE DEF none
<1>2. NoRun = [pc |-> "idle", key |-> 1, previous |-> 0, after |-> 0, rows |-> none, failed |-> 0]
  BY DEF NoRun, none
<1> QED
  BY <1>1, <1>2, ChannelConfigsAssumption DEF RunRows

LEMMA RunMoves ==
    ASSUME run \in [Runs -> RunRows], NEW p \in Runs, NEW v \in RunRows, run' = [run EXCEPT ![p] = v]
    PROVE  run' \in [Runs -> RunRows] /\ run'[p] = v /\ \A q \in Runs : q # p => run'[q] = run[q]
OBVIOUS

LEMMA ChannelsAreFinite ==
    ASSUME NEW S \in SUBSET StoredChannels
    PROVE  IsFiniteSet(S) /\ Cardinality(S) \in Nat
BY FS_Subset, FS_CardinalityType, ChannelConfigsAssumption

LEMMA FewerChannelsLeft ==
    ASSUME NEW S \in SUBSET StoredChannels, NEW T \in SUBSET S
    PROVE  Cardinality(T) \in Nat /\ Cardinality(S) \in Nat /\ Cardinality(T) <= Cardinality(S)
BY FS_Subset, FS_CardinalityType, ChannelConfigsAssumption

LEMMA VaultTypesStep ==
    VaultTypes /\ [ConfigsNext]_vaultVars => VaultTypes' /\ NeverBackToAnOldKey
<1> SUFFICES ASSUME VaultTypes, [ConfigsNext]_vaultVars PROVE VaultTypes' /\ NeverBackToAnOldKey
  OBVIOUS
<1>t. /\ stored \in [StoredChannels -> NoChannel..LastKey] /\ NoChannel = -1 /\ LastKey \in Nat \ {0}
      /\ secretKey \in 1..LastKey /\ oldest \in 1..secretKey
      /\ run \in [Runs -> RunRows] /\ disturbed \subseteq Runs
      /\ \A p \in Runs : run[p].previous < run[p].key
  BY ChannelConfigsAssumption DEF VaultTypes, NoChannel
<1>r. ASSUME NEW p \in Runs, NEW v \in RunRows, v.previous < v.key, run' = [run EXCEPT ![p] = v]
      PROVE  run' \in [Runs -> RunRows] /\ \A q \in Runs : run'[q].previous < run'[q].key
  BY <1>r, <1>t, RunMoves
<1>1. ASSUME NEW c \in StoredChannels, DeleteChannel(c) \/ \E key \in 1..LastKey : CreateSealed(c, key)
      PROVE  VaultTypes' /\ NeverBackToAnOldKey
  <2>1. PICK key \in NoChannel..LastKey : stored' = [stored EXCEPT ![c] = key] /\ (key = NoChannel \/ stored[c] = NoChannel)
    BY <1>1, <1>t DEF DeleteChannel, CreateSealed, Present
  <2>2. UNCHANGED <<secretKey, oldest, run>> /\ disturbed' \subseteq Runs
    BY <1>1, <1>t DEF DeleteChannel, CreateSealed, Beside
  <2>3. stored' \in [StoredChannels -> NoChannel..LastKey]
    BY <1>t, <2>1
  <2>4. NeverBackToAnOldKey
    BY <1>t, <2>1 DEF NeverBackToAnOldKey
  <2> QED
    BY <1>t, <2>2, <2>3, <2>4 DEF VaultTypes
<1>2. ASSUME ChangeKey \/ OldInstancesStop PROVE VaultTypes' /\ NeverBackToAnOldKey
  <2>1. /\ UNCHANGED <<stored, run>> /\ disturbed' \subseteq Runs
        /\ secretKey' \in 1..LastKey /\ oldest' \in 1..secretKey'
    BY <1>2, <1>t DEF ChangeKey, OldInstancesStop
  <2> QED
    BY <1>t, <2>1 DEF VaultTypes, NeverBackToAnOldKey
<1>3. ASSUME NEW p \in Runs, ReadBatch(p) PROVE VaultTypes' /\ NeverBackToAnOldKey
  <2> DEFINE rows == [c \in NextRows(p) |-> stored[c]]
             after == CHOOSE c \in NextRows(p) : \A d \in NextRows(p) : d <= c
             v == IF NextRows(p) = {} THEN [run[p] EXCEPT !.pc = "done"]
                  ELSE [run[p] EXCEPT !.pc = "rows", !.rows = rows, !.after = after]
  <2>1. run' = [run EXCEPT ![p] = v] /\ UNCHANGED <<stored, secretKey, oldest, disturbed>>
    BY <1>3 DEF ReadBatch
  <2>2. run[p] \in RunRows /\ run[p].previous < run[p].key
    BY <1>t
  <2>3. v \in RunRows /\ v.previous < v.key
    <3>1. CASE NextRows(p) = {}
      BY <2>2, <3>1 DEF RunRows
    <3>2. CASE NextRows(p) # {}
      <4>1. rows \in UNION {[T -> 0..LastKey] : T \in SUBSET StoredChannels}
        <5>1. NextRows(p) \in SUBSET StoredChannels /\ \A c \in NextRows(p) : stored[c] \in 0..LastKey
          BY <1>t DEF NextRows, Present
        <5>2. rows \in [NextRows(p) -> 0..LastKey]
          BY <5>1
        <5> HIDE DEF rows
        <5> QED
          BY <5>1, <5>2, RowsAre
      <4>2. after \in StoredChannels
        <5>1. NextRows(p) \in SUBSET Nat /\ NextRows(p) \subseteq StoredChannels /\ IsFiniteSet(NextRows(p))
          BY ChannelConfigsAssumption, ChannelsAreFinite DEF NextRows
        <5>2. \E c \in NextRows(p) : \A d \in NextRows(p) : d <= c
          BY <3>2, <5>1, GreatestOf
        <5>3. after \in NextRows(p)
          BY <5>2
        <5> QED
          BY <5>1, <5>3
      <4>3. v = [run[p] EXCEPT !.pc = "rows", !.rows = rows, !.after = after]
        BY <3>2
      <4> HIDE DEF rows, after, v
      <4> QED
        BY <2>2, <4>1, <4>2, <4>3 DEF RunRows
    <3> QED
      BY <3>1, <3>2
  <2> HIDE DEF v
  <2>4. NeverBackToAnOldKey
    BY <1>t, <2>1 DEF NeverBackToAnOldKey
  <2> QED
    BY <1>t, <1>r, <2>1, <2>3, <2>4 DEF VaultTypes
<1>4. ASSUME NEW p \in Runs, ResealRow(p) PROVE VaultTypes' /\ NeverBackToAnOldKey
  <2>1. PICK c \in DOMAIN run[p].rows :
            LET sealed == run[p].rows[c]
                writes == sealed = 0 \/ (~Opens(p, sealed) /\ OpensWithPrevious(p, sealed))
                left == DOMAIN run[p].rows \ {c}
            IN
            /\ stored' = IF writes /\ AsRead(p, c) THEN [stored EXCEPT ![c] = run[p].key] ELSE stored
            /\ disturbed' = IF stored' # stored THEN disturbed \cup Beside(run[p].key) ELSE disturbed
            /\ run' = [run EXCEPT ![p].rows = [d \in left |-> @[d]],
                                  ![p].failed = IF ~writes /\ ~Opens(p, sealed) THEN @ + 1 ELSE @,
                                  ![p].pc = IF left = {} THEN "read" ELSE "rows"]
    BY <1>4 DEF ResealRow
  <2> DEFINE was == run[p].rows
             sealed == run[p].rows[c]
             writes == sealed = 0 \/ (~Opens(p, sealed) /\ OpensWithPrevious(p, sealed))
             left == DOMAIN run[p].rows \ {c}
             lost == IF ~writes /\ ~Opens(p, sealed) THEN run[p].failed + 1 ELSE run[p].failed
             next == IF left = {} THEN "read" ELSE "rows"
             rest == [d \in left |-> was[d]]
             v == [run[p] EXCEPT !.rows = rest, !.failed = lost, !.pc = next]
  <2>2. /\ run[p] \in RunRows /\ run[p].previous < run[p].key /\ run[p].key \in 1..LastKey
        /\ run[p].previous \in 0..LastKey
        /\ was \in [DOMAIN was -> 0..LastKey] /\ DOMAIN was \subseteq StoredChannels /\ run[p].failed \in Nat
    BY <1>t, RunFields
  <2>3. UNCHANGED <<secretKey, oldest>> /\ disturbed' \subseteq Runs
    BY <1>4, <1>t, <2>1 DEF ResealRow, Beside
  <2>4. run' = [run EXCEPT ![p] = v]
    <3>1. run' = [run EXCEPT ![p].rows = [d \in left |-> @[d]],
                             ![p].failed = IF ~writes /\ ~Opens(p, sealed) THEN @ + 1 ELSE @,
                             ![p].pc = IF left = {} THEN "read" ELSE "rows"]
      BY <2>1
    <3> HIDE DEF left, writes, sealed
    <3>2. run' = [run EXCEPT ![p].rows = [d \in left |-> run[p].rows[d]], ![p].failed = lost, ![p].pc = next]
      BY <3>1, <1>t DEF RunRows
    <3> HIDE DEF lost, next
    <3>3. \A f, x, y, z : [f EXCEPT ![p].rows = x, ![p].failed = y, ![p].pc = z]
                        = [f EXCEPT ![p] = [f[p] EXCEPT !.rows = x, !.failed = y, !.pc = z]]
      OBVIOUS
    <3> QED
      BY <3>2, <3>3
  <2>5. v \in RunRows /\ v.previous < v.key
    <3>1. rest \in UNION {[T -> 0..LastKey] : T \in SUBSET StoredChannels}
      <4>1. left \in SUBSET StoredChannels /\ rest \in [left -> 0..LastKey]
        BY <2>2
      <4> HIDE DEF left, rest
      <4> QED
        BY <4>1, RowsAre
    <3>2. lost \in Nat /\ next \in {"read", "rows"}
      BY <2>2
    <3> HIDE DEF rest, lost, next
    <3> QED
      BY <2>2, <3>1, <3>2 DEF RunRows
  <2>6. /\ stored' \in [StoredChannels -> NoChannel..LastKey]
        /\ NeverBackToAnOldKey
    <3>1. CASE writes /\ AsRead(p, c)
      <4>1. c \in StoredChannels /\ stored[c] = sealed /\ sealed \in 0..LastKey /\ sealed < run[p].key
        BY <2>2, <3>1 DEF AsRead, OpensWithPrevious
      <4>2. stored' = [stored EXCEPT ![c] = run[p].key]
        BY <2>1, <3>1
      <4> HIDE DEF sealed, writes
      <4>3. \A d \in StoredChannels : stored[d] \in NoChannel..LastKey /\ stored'[d] = IF d = c THEN run[p].key ELSE stored[d]
        BY <1>t, <4>2
      <4> QED
        BY <1>t, <2>2, <4>1, <4>2, <4>3 DEF NeverBackToAnOldKey
    <3>2. CASE ~(writes /\ AsRead(p, c))
      <4>1. stored' = stored
        BY <2>1, <3>2
      <4> QED
        BY <1>t, <4>1 DEF NeverBackToAnOldKey
    <3> QED
      BY <3>1, <3>2
  <2> HIDE DEF v
  <2> QED
    BY <1>t, <1>r, <2>3, <2>4, <2>5, <2>6 DEF VaultTypes
<1>5. ASSUME NEW p \in Runs, RunEnds(p) PROVE VaultTypes' /\ NeverBackToAnOldKey
  <2>1. run' = [run EXCEPT ![p] = NoRun] /\ UNCHANGED <<stored, secretKey, oldest>> /\ disturbed' \subseteq Runs
    BY <1>5, <1>t DEF RunEnds
  <2> QED
    BY <1>t, <1>r, <2>1, NoRunIsRun DEF VaultTypes, NeverBackToAnOldKey
<1>6. ASSUME NEW p \in Runs, \E key \in 1..LastKey, previous \in 0..LastKey : StartRun(p, key, previous)
      PROVE  VaultTypes' /\ NeverBackToAnOldKey
  <2>1. PICK key \in 1..LastKey, previous \in 0..LastKey : StartRun(p, key, previous)
    BY <1>6, Zenon
  <2> DEFINE v == [NoRun EXCEPT !.pc = "read", !.key = key, !.previous = previous]
  <2>2. /\ run' = [run EXCEPT ![p] = v] /\ UNCHANGED <<stored, secretKey, oldest>> /\ disturbed' \subseteq Runs
        /\ previous \in {0, key - 1}
    BY <1>t, <2>1 DEF StartRun
  <2>3. v \in RunRows /\ v.previous < v.key
    <3> DEFINE v1 == [NoRun EXCEPT !.pc = "read"]
               v2 == [v1 EXCEPT !.key = key]
    <3>1. v1 \in RunRows
      BY NoRunIsRun DEF RunRows
    <3>2. v = [v2 EXCEPT !.previous = previous]
      OBVIOUS
    <3> HIDE DEF v, v1
    <3>3. v2 \in RunRows /\ v2.key = key
      BY <3>1 DEF RunRows
    <3> HIDE DEF v2
    <3>4. v \in RunRows /\ v.key = key /\ v.previous = previous
      BY <3>2, <3>3 DEF RunRows
    <3> QED
      BY <2>2, <3>4, <1>t
  <2> HIDE DEF v
  <2> QED
    BY <1>t, <1>r, <2>2, <2>3 DEF VaultTypes, NeverBackToAnOldKey
<1>7. CASE UNCHANGED vaultVars
  BY <1>7, <1>t DEF vaultVars, VaultTypes, NeverBackToAnOldKey
<1> QED
  BY <1>1, <1>2, <1>3, <1>4, <1>5, <1>6, <1>7 DEF ConfigsNext

\* A pass goes on undisturbed while what others write is under the same key.
LEMMA OthersAreNoMatter ==
    ASSUME VaultTypes, NEW p \in Runs, Undisturbed(p), run'[p] = run[p], UNCHANGED <<secretKey, oldest>>,
           \A c \in StoredChannels : stored'[c] \in {stored[c], NoChannel, run[p].key}
    PROVE  Undisturbed(p)'
<1>t. run[p] \in RunRows /\ run[p].failed \in Nat /\ run[p].key \in 1..LastKey /\ NoChannel = -1
      /\ DOMAIN run[p].rows \subseteq StoredChannels
  BY RunFields DEF VaultTypes, NoChannel
<1>1. LeftBehind(p)' \subseteq LeftBehind(p) /\ LeftBehind(p) \subseteq StoredChannels
  BY DEF LeftBehind, Present
<1>2. Cardinality(LeftBehind(p)') <= run[p].failed
  <2>1. /\ Cardinality(LeftBehind(p)') \in Nat /\ Cardinality(LeftBehind(p)) \in Nat
        /\ Cardinality(LeftBehind(p)') <= Cardinality(LeftBehind(p))
    BY <1>1, FewerChannelsLeft
  <2>2. Cardinality(LeftBehind(p)) <= run[p].failed
    BY DEF Undisturbed
  <2> QED
    BY <1>t, <2>1, <2>2
<1>3. \A c \in DOMAIN run[p].rows : c <= run[p].after /\ stored'[c] \in {run[p].rows[c], NoChannel, run[p].key}
  BY <1>t DEF Undisturbed
<1>4. run[p].pc = "done" => \A c \in StoredChannels : Present(c)' /\ c > run[p].after => stored'[c] = run[p].key
  BY <1>t DEF Undisturbed, Present
<1> QED
  BY <1>2, <1>3, <1>4 DEF Undisturbed

LEMMA VaultStep == VaultInv /\ [ConfigsNext]_vaultVars => VaultInv'
<1> SUFFICES ASSUME VaultInv, [ConfigsNext]_vaultVars
             PROVE  \A p \in Runs : run'[p].pc # "idle" /\ p \notin disturbed' => Undisturbed(p)'
  BY VaultTypesStep DEF VaultInv
<1>t. /\ VaultTypes /\ VaultTypes' /\ NoChannel = -1
      /\ stored \in [StoredChannels -> NoChannel..LastKey]
      /\ secretKey \in 1..LastKey /\ oldest \in 1..secretKey /\ LastKey \in Nat \ {0}
      /\ run \in [Runs -> RunRows] /\ disturbed \subseteq Runs
  BY VaultTypesStep, ChannelConfigsAssumption DEF VaultInv, VaultTypes, NoChannel
<1>u. \A p \in Runs : run[p].pc # "idle" /\ p \notin disturbed => Undisturbed(p)
  BY DEF VaultInv
<1>k. \A p \in Runs : run[p] \in RunRows /\ run[p].key \in 1..LastKey
  BY <1>t, RunFields
<1>o. ASSUME NEW q \in Runs, NEW v \in RunRows, run' = [run EXCEPT ![q] = v]
      PROVE  run'[q] = v /\ \A p \in Runs : p # q => run'[p] = run[p]
  BY <1>o, <1>t, RunMoves
<1>1. ASSUME NEW c \in StoredChannels, DeleteChannel(c) \/ \E key \in 1..LastKey : CreateSealed(c, key),
             NEW p \in Runs, run'[p].pc # "idle", p \notin disturbed'
      PROVE  Undisturbed(p)'
  <2>1. UNCHANGED <<secretKey, oldest, run>>
    BY <1>1 DEF DeleteChannel, CreateSealed
  <2>2. Undisturbed(p)
    BY <1>1, <1>u, <2>1 DEF DeleteChannel, CreateSealed
  <2>3. CASE DeleteChannel(c)
    <3>1. stored' = [stored EXCEPT ![c] = NoChannel]
      BY <2>3 DEF DeleteChannel
    <3>2. \A d \in StoredChannels : stored'[d] \in {stored[d], NoChannel, run[p].key}
      BY <1>t, <3>1
    <3> QED
      BY <1>t, <2>1, <2>2, <3>2, OthersAreNoMatter
  <2>4. CASE \E key \in 1..LastKey : CreateSealed(c, key)
    <3>1. PICK key \in 1..LastKey : CreateSealed(c, key)
      BY <2>4
    <3>2. stored' = [stored EXCEPT ![c] = key] /\ key \in {oldest, secretKey} /\ run[p].key = secretKey /\ oldest = secretKey
      BY <2>2, <3>1 DEF CreateSealed, Undisturbed
    <3>3. \A d \in StoredChannels : stored'[d] \in {stored[d], NoChannel, run[p].key}
      BY <1>t, <3>2
    <3> QED
      BY <1>t, <2>1, <2>2, <3>3, OthersAreNoMatter
  <2> QED
    BY <1>1, <2>3, <2>4
<1>2. ASSUME ChangeKey, NEW p \in Runs, run'[p].pc # "idle", p \notin disturbed' PROVE Undisturbed(p)'
  BY <1>2 DEF ChangeKey
<1>3. ASSUME OldInstancesStop, NEW p \in Runs, run'[p].pc # "idle", p \notin disturbed' PROVE Undisturbed(p)'
  <2>1. oldest = secretKey
    BY <1>3, <1>u DEF OldInstancesStop, Undisturbed
  <2> QED
    BY <1>3, <1>t, <2>1 DEF OldInstancesStop
<1>4. ASSUME NEW q \in Runs, ReadBatch(q), NEW p \in Runs, run'[p].pc # "idle", p \notin disturbed'
      PROVE  Undisturbed(p)'
  <2> DEFINE rows == [c \in NextRows(q) |-> stored[c]]
             after == CHOOSE c \in NextRows(q) : \A d \in NextRows(q) : d <= c
             v == IF NextRows(q) = {} THEN [run[q] EXCEPT !.pc = "done"]
                  ELSE [run[q] EXCEPT !.pc = "rows", !.rows = rows, !.after = after]
             ahead == {c \in StoredChannels : Present(c) /\ c > run[q].after}
  <2>1. /\ run' = [run EXCEPT ![q] = v] /\ UNCHANGED <<stored, secretKey, oldest, disturbed>>
        /\ run[q].pc = "read"
    BY <1>4 DEF ReadBatch
  <2>2. run'[q] = v /\ \A r \in Runs : r # q => run'[r] = run[r]
    <3> HIDE DEF v
    <3> QED
      BY <1>t, <2>1
  <2>3. CASE p # q
    <3>1. Undisturbed(p) /\ run'[p] = run[p]
      BY <1>4, <1>u, <2>1, <2>2, <2>3
    <3>2. \A d \in StoredChannels : stored'[d] \in {stored[d], NoChannel, run[p].key}
      BY <2>1
    <3> QED
      BY <1>t, <2>1, <3>1, <3>2, OthersAreNoMatter
  <2>4. CASE p = q
    <3>0. Undisturbed(q) /\ q \notin disturbed
      BY <1>4, <1>u, <2>1, <2>4
    <3>1. /\ run[q].key = secretKey /\ oldest = secretKey /\ DOMAIN run[q].rows = {}
          /\ Cardinality(LeftBehind(q)) <= run[q].failed
      BY <2>1, <3>0 DEF Undisturbed
    <3>2. run[q] \in RunRows /\ run[q].failed \in Nat /\ run[q].after \in StoredChannels \cup {0}
      BY <1>t, RunFields
    <3>3. ahead \in SUBSET Nat /\ ahead \subseteq StoredChannels /\ IsFiniteSet(ahead) /\ NextRows(q) \subseteq ahead
      BY ChannelConfigsAssumption, ChannelsAreFinite DEF NextRows
    <3>4. CASE NextRows(q) = {}
      <4>1. v = [run[q] EXCEPT !.pc = "done"]
        BY <3>4
      <4>2. run'[q] = [run[q] EXCEPT !.pc = "done"]
        BY <2>2, <4>1
      <4>3. /\ run'[q].pc = "done" /\ run'[q].key = run[q].key /\ run'[q].rows = run[q].rows
            /\ run'[q].after = run[q].after /\ run'[q].failed = run[q].failed
        BY <3>2, <4>2 DEF RunRows
      <4>4. ahead = {}
        <5> SUFFICES ASSUME ahead # {} PROVE FALSE
          OBVIOUS
        <5>1. PICK c \in ahead : \A d \in ahead : c <= d
          BY <3>3, LeastOf
        <5>2. {d \in ahead : d < c} = {}
          BY <3>3, <5>1
        <5>3. Cardinality({d \in ahead : d < c}) < ResealBatch
          BY <5>2, FS_EmptySet, ChannelConfigsAssumption
        <5>4. c \in NextRows(q)
          BY <5>1, <5>3 DEF NextRows
        <5> QED
          BY <3>4, <5>4
      <4>5. \A c \in StoredChannels : Present(c)' /\ c > run'[q].after => stored'[c] = run'[q].key
        BY <2>1, <4>3, <4>4 DEF Present
      <4>6. LeftBehind(q)' = LeftBehind(q)
        BY <2>1, <4>3 DEF LeftBehind, Present
      <4> QED
        BY <2>1, <2>4, <3>1, <4>3, <4>5, <4>6 DEF Undisturbed
    <3>5. CASE NextRows(q) # {}
      <4>1. v = [run[q] EXCEPT !.pc = "rows", !.rows = rows, !.after = after]
        BY <3>5
      <4>2. after \in NextRows(q) /\ \A d \in NextRows(q) : d <= after
        <5>1. NextRows(q) \in SUBSET Nat /\ IsFiniteSet(NextRows(q))
          BY <3>3, FS_Subset
        <5>2. \E c \in NextRows(q) : \A d \in NextRows(q) : d <= c
          BY <3>5, <5>1, GreatestOf
        <5> QED
          BY <5>2
      <4> DEFINE end == after
      <4>3. /\ run'[q].pc = "rows" /\ run'[q].key = run[q].key /\ run'[q].rows = rows
            /\ run'[q].after = end /\ run'[q].failed = run[q].failed
        <5>1. run'[q] = [run[q] EXCEPT !.pc = "rows", !.rows = rows, !.after = after]
          BY <2>2, <4>1
        <5> HIDE DEF rows, after
        <5> QED
          BY <3>2, <5>1 DEF RunRows
      <4>4. end \in ahead /\ end > run[q].after /\ run[q].after \in Nat /\ end \in Nat
        <5>1. end \in ahead
          BY <3>3, <4>2
        <5>2. end > run[q].after
          BY <5>1
        <5> HIDE DEF after, ahead, end
        <5>3. end \in Nat
          BY <3>3, <5>1
        <5>4. \A n \in StoredChannels \cup {0} : n \in Nat
          BY ChannelConfigsAssumption
        <5>5. run[q].after \in Nat
          BY <3>2, <5>4
        <5> QED
          BY <5>1, <5>2, <5>3, <5>5
      <4> HIDE DEF v, after
      <4>5. LeftBehind(q)' \subseteq LeftBehind(q)
        <5> SUFFICES ASSUME NEW c \in LeftBehind(q)' PROVE c \in LeftBehind(q)
          OBVIOUS
        <5>1. c \in StoredChannels /\ Present(c) /\ stored[c] # run[q].key /\ c <= end /\ c \notin DOMAIN rows
          BY <2>1, <4>3 DEF LeftBehind, Present
        <5>2. c \notin NextRows(q) /\ c \in Nat
          BY <5>1, ChannelConfigsAssumption
        <5>3. c \notin ahead
          <6> SUFFICES ASSUME c \in ahead PROVE FALSE
            OBVIOUS
          <6>1. IsFiniteSet({d \in ahead : d < end}) /\ {d \in ahead : d < c} \in SUBSET {d \in ahead : d < end}
            <7>1. {d \in ahead : d < end} \in SUBSET ahead /\ {d \in ahead : d < c} \in SUBSET ahead
              OBVIOUS
            <7>2. \A d \in ahead : d < c => d < end
              BY <3>3, <4>4, <5>1, <5>2
            <7> QED
              BY <3>3, <7>1, <7>2, FS_Subset
          <6>2. /\ Cardinality({d \in ahead : d < c}) \in Nat /\ Cardinality({d \in ahead : d < end}) \in Nat
                /\ Cardinality({d \in ahead : d < c}) <= Cardinality({d \in ahead : d < end})
            BY <6>1, FS_Subset, FS_CardinalityType
          <6>3. Cardinality({d \in ahead : d < end}) < ResealBatch
            BY <4>2, <4>4 DEF NextRows, end
          <6>4. Cardinality({d \in ahead : d < c}) < ResealBatch
            <7> HIDE DEF ahead
            <7> QED
              BY <6>2, <6>3, ChannelConfigsAssumption
          <6> QED
            BY <5>2, <6>4 DEF NextRows
        <5>4. c <= run[q].after
          BY <4>4, <5>1, <5>2, <5>3
        <5> QED
          BY <3>1, <5>1, <5>4 DEF LeftBehind
      <4>6. Cardinality(LeftBehind(q)') <= run[q].failed
        <5>1. LeftBehind(q) \subseteq StoredChannels
          BY DEF LeftBehind
        <5>2. /\ Cardinality(LeftBehind(q)') \in Nat /\ Cardinality(LeftBehind(q)) \in Nat
              /\ Cardinality(LeftBehind(q)') <= Cardinality(LeftBehind(q))
          BY <4>5, <5>1, FewerChannelsLeft
        <5> QED
          BY <3>1, <3>2, <5>2
      <4>7. \A c \in DOMAIN rows : c <= end /\ stored'[c] = rows[c]
        BY <2>1, <4>2 DEF end
      <4> HIDE DEF rows, end
      <4> QED
        BY <2>1, <2>4, <3>1, <4>3, <4>6, <4>7 DEF Undisturbed
    <3> QED
      BY <3>4, <3>5
  <2> QED
    BY <2>3, <2>4
<1>5. ASSUME NEW q \in Runs, ResealRow(q), NEW p \in Runs, run'[p].pc # "idle", p \notin disturbed'
      PROVE  Undisturbed(p)'
  <2>1. PICK c \in DOMAIN run[q].rows :
            LET sealed == run[q].rows[c]
                writes == sealed = 0 \/ (~Opens(q, sealed) /\ OpensWithPrevious(q, sealed))
                left == DOMAIN run[q].rows \ {c}
            IN
            /\ stored' = IF writes /\ AsRead(q, c) THEN [stored EXCEPT ![c] = run[q].key] ELSE stored
            /\ disturbed' = IF stored' # stored THEN disturbed \cup Beside(run[q].key) ELSE disturbed
            /\ run' = [run EXCEPT ![q].rows = [d \in left |-> @[d]],
                                  ![q].failed = IF ~writes /\ ~Opens(q, sealed) THEN @ + 1 ELSE @,
                                  ![q].pc = IF left = {} THEN "read" ELSE "rows"]
    BY <1>5 DEF ResealRow
  <2> DEFINE was == run[q].rows
             sealed == run[q].rows[c]
             writes == sealed = 0 \/ (~Opens(q, sealed) /\ OpensWithPrevious(q, sealed))
             left == DOMAIN run[q].rows \ {c}
             lost == IF ~writes /\ ~Opens(q, sealed) THEN run[q].failed + 1 ELSE run[q].failed
             next == IF left = {} THEN "read" ELSE "rows"
             rest == [d \in left |-> was[d]]
             v == [run[q] EXCEPT !.rows = rest, !.failed = lost, !.pc = next]
  <2>2. /\ run[q] \in RunRows /\ run[q].key \in 1..LastKey /\ run[q].failed \in Nat
        /\ was \in [DOMAIN was -> 0..LastKey] /\ DOMAIN was \subseteq StoredChannels
    BY <1>t, RunFields
  <2>3. UNCHANGED <<secretKey, oldest>> /\ run[q].pc = "rows"
    BY <1>5 DEF ResealRow
  <2>4. run' = [run EXCEPT ![q] = v]
    <3>1. run' = [run EXCEPT ![q].rows = [d \in left |-> @[d]],
                             ![q].failed = IF ~writes /\ ~Opens(q, sealed) THEN @ + 1 ELSE @,
                             ![q].pc = IF left = {} THEN "read" ELSE "rows"]
      BY <2>1
    <3> HIDE DEF left, writes, sealed
    <3>2. run' = [run EXCEPT ![q].rows = [d \in left |-> run[q].rows[d]], ![q].failed = lost, ![q].pc = next]
      BY <3>1, <1>t DEF RunRows
    <3> HIDE DEF lost, next
    <3>3. \A f, x, y, z : [f EXCEPT ![q].rows = x, ![q].failed = y, ![q].pc = z]
                        = [f EXCEPT ![q] = [f[q] EXCEPT !.rows = x, !.failed = y, !.pc = z]]
      OBVIOUS
    <3> QED
      BY <3>2, <3>3
  <2>5. run'[q] = v /\ \A r \in Runs : r # q => run'[r] = run[r]
    <3> HIDE DEF v
    <3> QED
      BY <1>t, <2>4
  <2>6. /\ run'[q].pc = next /\ run'[q].key = run[q].key /\ run'[q].rows = rest
        /\ run'[q].after = run[q].after /\ run'[q].failed = lost
    <3> HIDE DEF rest, lost, next
    <3> QED
      BY <2>2, <2>5 DEF RunRows
  <2>7. stored' = IF writes /\ AsRead(q, c) THEN [stored EXCEPT ![c] = run[q].key] ELSE stored
    BY <2>1
  <2>8. disturbed' = IF stored' # stored THEN disturbed \cup Beside(run[q].key) ELSE disturbed
    BY <2>1
  <2> HIDE DEF v
  <2>9. p \notin disturbed /\ run[p].pc # "idle"
    BY <1>5, <2>3, <2>5, <2>8
  <2>10. Undisturbed(p)
    BY <1>u, <2>9
  <2>11. \A d \in StoredChannels : stored'[d] \in {stored[d], NoChannel, run[p].key}
    <3>1. CASE stored' = stored
      BY <3>1
    <3>2. CASE stored' # stored
      <4>1. p \notin Beside(run[q].key)
        BY <1>5, <2>8, <3>2
      <4>2. run[p].key = run[q].key
        BY <2>9, <4>1 DEF Beside
      <4>3. stored' = [stored EXCEPT ![c] = run[q].key]
        BY <2>7, <3>2
      <4> QED
        BY <1>t, <4>2, <4>3
    <3> QED
      BY <3>1, <3>2
  <2>12. CASE p # q
    BY <1>t, <2>3, <2>5, <2>10, <2>11, <2>12, OthersAreNoMatter
  <2>13. CASE p = q
    <3>0. /\ run[q].key = secretKey /\ oldest = secretKey
          /\ \A d \in DOMAIN was : d <= run[q].after /\ stored[d] \in {was[d], NoChannel, run[q].key}
          /\ Cardinality(LeftBehind(q)) <= run[q].failed
      BY <2>10, <2>13 DEF Undisturbed
    <3>1. c \in StoredChannels /\ c \in DOMAIN was /\ sealed \in 0..LastKey
      BY <2>1, <2>2
    <3>2. \A d \in DOMAIN rest : d <= run[q].after /\ stored'[d] \in {rest[d], NoChannel, run[q].key}
      BY <2>2, <2>11, <2>13, <3>0
    <3>3. Present(c)' /\ stored'[c] # run[q].key => ~writes /\ ~Opens(q, sealed)
      <4>1. CASE writes /\ AsRead(q, c)
        <5>1. stored' = [stored EXCEPT ![c] = run[q].key]
          BY <2>7, <4>1
        <5>2. stored'[c] = run[q].key
          BY <1>t, <3>1, <5>1
        <5> QED
          BY <5>2
      <4>2. CASE writes /\ ~AsRead(q, c)
        BY <2>7, <3>0, <3>1, <4>2 DEF AsRead, Present
      <4>3. CASE ~writes /\ Opens(q, sealed)
        BY <2>7, <3>0, <3>1, <4>3 DEF Opens, Present
      <4> QED
        BY <4>1, <4>2, <4>3
    <3>4. LeftBehind(q)' \subseteq LeftBehind(q) \cup (IF ~writes /\ ~Opens(q, sealed) THEN {c} ELSE {})
      <4> SUFFICES ASSUME NEW d \in LeftBehind(q)', d # c PROVE d \in LeftBehind(q)
        BY <2>6, <3>3 DEF LeftBehind
      <4>1. d \in StoredChannels /\ Present(d)' /\ stored'[d] # run[q].key /\ d <= run[q].after /\ d \notin left
        BY <2>6 DEF LeftBehind
      <4>2. stored[d] = stored'[d] /\ d \notin DOMAIN was
        BY <2>11, <2>13, <4>1 DEF Present
      <4> QED
        BY <4>1, <4>2 DEF LeftBehind, Present
    <3>5. Cardinality(LeftBehind(q)') <= lost
      <4>1. LeftBehind(q) \subseteq StoredChannels
        BY DEF LeftBehind
      <4>2. /\ Cardinality(LeftBehind(q)) \in Nat /\ IsFiniteSet(LeftBehind(q))
            /\ Cardinality(LeftBehind(q) \cup {c}) <= Cardinality(LeftBehind(q)) + 1
        <5>1. Cardinality(LeftBehind(q)) \in Nat /\ IsFiniteSet(LeftBehind(q))
          BY <4>1, ChannelsAreFinite
        <5>2. Cardinality(LeftBehind(q) \cup {c}) = IF c \in LeftBehind(q) THEN Cardinality(LeftBehind(q))
                                                    ELSE Cardinality(LeftBehind(q)) + 1
          BY <5>1, FS_AddElement
        <5> QED
          BY <5>1, <5>2
      <4>3. CASE ~writes /\ ~Opens(q, sealed)
        <5>1. LeftBehind(q)' \subseteq LeftBehind(q) \cup {c} /\ LeftBehind(q) \cup {c} \subseteq StoredChannels
          BY <3>1, <3>4, <4>1, <4>3
        <5>2. /\ Cardinality(LeftBehind(q)') \in Nat /\ Cardinality(LeftBehind(q) \cup {c}) \in Nat
              /\ Cardinality(LeftBehind(q)') <= Cardinality(LeftBehind(q) \cup {c})
          BY <5>1, FewerChannelsLeft
        <5>3. lost = run[q].failed + 1
          BY <4>3
        <5> HIDE DEF lost, writes, sealed
        <5> QED
          BY <2>2, <3>0, <4>2, <5>2, <5>3
      <4>4. CASE ~(~writes /\ ~Opens(q, sealed))
        <5>1. LeftBehind(q)' \subseteq LeftBehind(q)
          BY <3>4, <4>4
        <5>2. /\ Cardinality(LeftBehind(q)') \in Nat /\ Cardinality(LeftBehind(q)) \in Nat
              /\ Cardinality(LeftBehind(q)') <= Cardinality(LeftBehind(q))
          BY <4>1, <5>1, FewerChannelsLeft
        <5>3. lost = run[q].failed
          BY <4>4
        <5> HIDE DEF lost, writes, sealed
        <5> QED
          BY <2>2, <3>0, <5>2, <5>3
      <4> QED
        BY <4>3, <4>4
    <3>6. next # "done" /\ (next # "rows" => DOMAIN rest = {})
      OBVIOUS
    <3> HIDE DEF was, sealed, writes, left, lost, next, rest
    <3> QED
      BY <2>3, <2>6, <2>13, <3>0, <3>2, <3>5, <3>6 DEF Undisturbed
  <2> QED
    BY <2>12, <2>13
<1>6. ASSUME NEW q \in Runs, RunEnds(q), NEW p \in Runs, run'[p].pc # "idle", p \notin disturbed'
      PROVE  Undisturbed(p)'
  <2>1. /\ run' = [run EXCEPT ![q] = NoRun] /\ UNCHANGED <<stored, secretKey, oldest>>
        /\ disturbed' = disturbed \ {q}
    BY <1>6 DEF RunEnds
  <2>2. run'[q].pc = "idle" /\ \A r \in Runs : r # q => run'[r] = run[r]
    BY <1>o, <2>1, NoRunIsRun
  <2>3. p # q
    BY <1>6, <2>2
  <2>4. Undisturbed(p) /\ run'[p] = run[p]
    BY <1>6, <1>u, <2>1, <2>2, <2>3
  <2> QED
    BY <1>t, <2>1, <2>4, OthersAreNoMatter
<1>7. ASSUME NEW q \in Runs, \E key \in 1..LastKey, previous \in 0..LastKey : StartRun(q, key, previous),
             NEW p \in Runs, run'[p].pc # "idle", p \notin disturbed'
      PROVE  Undisturbed(p)'
  <2>1. PICK key \in 1..LastKey, previous \in 0..LastKey : StartRun(q, key, previous)
    BY <1>7, Zenon
  <2> DEFINE v1 == [NoRun EXCEPT !.pc = "read"]
             v2 == [v1 EXCEPT !.key = key]
             v3 == [v2 EXCEPT !.previous = previous]
  <2>2. /\ run' = [run EXCEPT ![q] = v3] /\ UNCHANGED <<stored, secretKey, oldest>>
        /\ disturbed' = IF oldest < secretKey THEN disturbed \cup {q} ELSE disturbed \ {q}
        /\ key \in {oldest, secretKey}
    BY <2>1 DEF StartRun
  <2>3. v1 \in RunRows /\ v1.pc = "read" /\ v1.after = 0 /\ v1.failed = 0 /\ DOMAIN v1.rows = {}
    BY NoRunIsRun DEF RunRows, NoRun
  <2> HIDE DEF v1
  <2>4. v2 \in RunRows /\ v2.pc = "read" /\ v2.after = 0 /\ v2.failed = 0 /\ DOMAIN v2.rows = {} /\ v2.key = key
    BY <2>3 DEF RunRows
  <2> HIDE DEF v2
  <2>5. v3 \in RunRows /\ v3.pc = "read" /\ v3.after = 0 /\ v3.failed = 0 /\ DOMAIN v3.rows = {} /\ v3.key = key
    BY <2>4 DEF RunRows
  <2> HIDE DEF v3
  <2>6. run'[q] = v3 /\ \A r \in Runs : r # q => run'[r] = run[r]
    BY <1>o, <2>2, <2>5
  <2>7. CASE p # q
    <3>1. Undisturbed(p) /\ run'[p] = run[p]
      BY <1>7, <1>u, <2>2, <2>6, <2>7
    <3> QED
      BY <1>t, <2>2, <3>1, OthersAreNoMatter
  <2>8. CASE p = q
    <3>1. oldest = secretKey /\ key = secretKey
      BY <1>7, <1>t, <2>2, <2>8
    <3>2. LeftBehind(q)' = {}
      <4>1. run'[q].after = 0
        BY <2>5, <2>6
      <4>2. \A c \in StoredChannels : ~(c <= 0)
        BY ChannelConfigsAssumption
      <4> QED
        BY <4>1, <4>2 DEF LeftBehind
    <3>3. Cardinality(LeftBehind(q)') <= 0
      BY <3>2, FS_EmptySet
    <3> QED
      BY <2>2, <2>5, <2>6, <2>8, <3>1, <3>3 DEF Undisturbed
  <2> QED
    BY <2>7, <2>8
<1>8. ASSUME UNCHANGED vaultVars, NEW p \in Runs, run'[p].pc # "idle", p \notin disturbed' PROVE Undisturbed(p)'
  <2>1. Undisturbed(p) /\ UNCHANGED <<stored, run, secretKey, oldest>>
    BY <1>8, <1>u DEF vaultVars
  <2> QED
    BY <1>t, <2>1, OthersAreNoMatter
<1> QED
  BY <1>1, <1>2, <1>3, <1>4, <1>5, <1>6, <1>7, <1>8 DEF ConfigsNext

LEMMA VaultInitially == ConfigsInit => VaultInv
<1> SUFFICES ASSUME ConfigsInit PROVE VaultInv
  OBVIOUS
<1>1. run \in [Runs -> RunRows] /\ \A p \in Runs : run[p].pc = "idle" /\ run[p].previous < run[p].key
  BY NoRunIsRun DEF ConfigsInit
<1>2. stored \in [StoredChannels -> NoChannel..LastKey]
  BY ChannelConfigsAssumption DEF ConfigsInit, NoChannel
<1> QED
  BY <1>1, <1>2, ChannelConfigsAssumption DEF ConfigsInit, VaultInv, VaultTypes

LEMMA VaultIsReached == VaultInv => ConfigsTypeOK /\ ResealReachesEveryChannel
<1> SUFFICES ASSUME VaultInv PROVE ConfigsTypeOK /\ ResealReachesEveryChannel
  OBVIOUS
<1>1. ConfigsTypeOK
  <2>1. VaultTypes
    BY DEF VaultInv
  <2>2. \A p \in Runs : /\ run[p].pc \in {"idle", "read", "rows", "done"} /\ run[p].key \in 1..LastKey
                        /\ run[p].previous \in 0..LastKey /\ run[p].after \in StoredChannels \cup {0}
                        /\ DOMAIN run[p].rows \subseteq StoredChannels
    BY <2>1, RunFields DEF VaultTypes
  <2> QED
    BY <2>1, <2>2 DEF VaultTypes, ConfigsTypeOK
<1>2. ASSUME NEW p \in Runs, run[p].pc = "done", p \notin disturbed
      PROVE  Cardinality({c \in StoredChannels : Present(c) /\ stored[c] # run[p].key}) <= run[p].failed
  <2>1. Undisturbed(p) /\ run[p].after \in StoredChannels \cup {0}
    BY <1>1, <1>2 DEF VaultInv, ConfigsTypeOK
  <2>2. run[p].after \in Nat /\ StoredChannels \subseteq Nat
    BY <2>1, ChannelConfigsAssumption
  <2>3. {c \in StoredChannels : Present(c) /\ stored[c] # run[p].key} = LeftBehind(p)
    <3>1. DOMAIN run[p].rows = {}
      BY <1>2, <2>1 DEF Undisturbed
    <3>2. ASSUME NEW c \in StoredChannels, Present(c), stored[c] # run[p].key PROVE c <= run[p].after
      <4>1. ~(c > run[p].after)
        BY <1>2, <2>1, <3>2 DEF Undisturbed
      <4>2. c \in Nat /\ run[p].after \in Nat
        BY <2>2
      <4> QED
        BY <4>1, <4>2
    <3> QED
      BY <3>1, <3>2 DEF LeftBehind
  <2> QED
    BY <2>1, <2>3 DEF Undisturbed
<1> QED
  BY <1>1, <1>2 DEF ResealReachesEveryChannel

-----------------------------------------------------------------------------
(***************************************************************************)
(* What a heartbeat is answered, and what a lookup may waste: every wasted *)
(* lookup was under way, and there are no more of those than calls.        *)
(***************************************************************************)
VisitRows == [pc : {"idle", "look", "write", "answered"}, key : PingKeys \cup {"none"}, source : Sources \cup {"none"},
              reply : Replies, found : {"live", "paused", "gone"}, served : BOOLEAN, spent : BOOLEAN,
              recorded : BOOLEAN]

\* What is told a job, and what is done for it.
IsAnsweredTruly(v) ==
    /\ v.pc # "idle" => v.key \in PingKeys /\ v.source \in Sources
    /\ v.pc # "answered" => v.reply = "none" /\ ~v.recorded
    /\ v.reply = "NOT FOUND" => v.found = "gone"
    /\ v.reply # "none" => (v.recorded <=> v.reply = "OK")
    /\ v.reply = "RATE LIMITED" /\ v.served => v.spent

\* Lookups under way, and what they may still waste.
Looking(s) == {v \in Visits : visit[v].pc = "look" /\ visit[v].source = s}
WastesNoMore(s) ==
    /\ unknownHits[s] < UnknownLimit => wasted[s] = unknownHits[s]
    /\ wasted[s] + Cardinality(Looking(s)) < UnknownLimit + Cardinality(Visits)

GateTypes ==
    /\ visit \in [Visits -> VisitRows] /\ checkOf \in [PingKeys -> {"live", "paused", "gone"}]
    /\ cached \subseteq PingKeys /\ keyHits \in [PingKeys -> 0..KeyLimit]
    /\ unknownHits \in [Sources -> 0..UnknownLimit] /\ wasted \in [Sources -> Nat]

GateInv ==
    /\ GateTypes
    /\ \A v \in Visits : IsAnsweredTruly(visit[v])
    /\ \A s \in Sources : WastesNoMore(s)

LEMMA IdleIs ==
    Idle \in VisitRows /\ Idle.pc = "idle" /\ Idle.reply = "none" /\ Idle.recorded = FALSE /\ IsAnsweredTruly(Idle)
BY DEF Idle, VisitRows, Replies, IsAnsweredTruly

LEMMA CallingIs ==
    ASSUME NEW key \in PingKeys, NEW source \in Sources
    PROVE  LET c == Calling(key, source) IN
           /\ c \in VisitRows /\ c.key = key /\ c.source = source /\ c.reply = "none" /\ c.recorded = FALSE
           /\ c.served = (key \in cached) /\ c.spent = (keyHits[key] = KeyLimit)
<1> DEFINE known == key \in cached
           full == keyHits[key] = KeyLimit
           v1 == [Idle EXCEPT !.key = key]
           v2 == [v1 EXCEPT !.source = source]
           v3 == [v2 EXCEPT !.served = known]
           v4 == [v3 EXCEPT !.spent = full]
<1>1. Calling(key, source) = v4
  BY DEF Calling
<1>0. known \in BOOLEAN /\ full \in BOOLEAN
  OBVIOUS
<1> HIDE DEF known, full
<1>2. v1 \in VisitRows /\ v1.key = key /\ v1.reply = "none" /\ v1.recorded = FALSE
  BY IdleIs DEF VisitRows
<1> HIDE DEF v1
<1>3. v2 \in VisitRows /\ v2.key = key /\ v2.reply = "none" /\ v2.recorded = FALSE /\ v2.source = source
  BY <1>2 DEF VisitRows
<1> HIDE DEF v2
<1>4. /\ v3 \in VisitRows /\ v3.key = key /\ v3.reply = "none" /\ v3.recorded = FALSE /\ v3.source = source
      /\ v3.served = known
  BY <1>0, <1>3 DEF VisitRows
<1> HIDE DEF v3
<1>5. /\ v4 \in VisitRows /\ v4.key = key /\ v4.reply = "none" /\ v4.recorded = FALSE /\ v4.source = source
      /\ v4.served = known /\ v4.spent = full
  BY <1>0, <1>4 DEF VisitRows
<1> HIDE DEF v4
<1> QED
  BY <1>1, <1>5 DEF known, full

LEMMA AnsweredIs ==
    ASSUME NEW v \in VisitRows, NEW reply \in Replies
    PROVE  /\ AnswerCall(v, reply) \in VisitRows /\ AnswerCall(v, reply).pc = "answered"
           /\ AnswerCall(v, reply).reply = reply /\ AnswerCall(v, reply).key = v.key
           /\ AnswerCall(v, reply).source = v.source /\ AnswerCall(v, reply).found = v.found
           /\ AnswerCall(v, reply).served = v.served /\ AnswerCall(v, reply).spent = v.spent
           /\ AnswerCall(v, reply).recorded = v.recorded
<1> DEFINE v1 == [v EXCEPT !.pc = "answered"]
           v2 == [v1 EXCEPT !.reply = reply]
<1>1. AnswerCall(v, reply) = v2
  BY DEF AnswerCall
<1>2. /\ v1 \in VisitRows /\ v1.pc = "answered" /\ v1.key = v.key /\ v1.source = v.source /\ v1.found = v.found
      /\ v1.served = v.served /\ v1.spent = v.spent /\ v1.recorded = v.recorded
  BY DEF VisitRows
<1> HIDE DEF v1
<1>3. /\ v2 \in VisitRows /\ v2.pc = "answered" /\ v2.key = v.key /\ v2.source = v.source /\ v2.found = v.found
      /\ v2.served = v.served /\ v2.spent = v.spent /\ v2.recorded = v.recorded /\ v2.reply = reply
  BY <1>2 DEF VisitRows
<1> HIDE DEF v2
<1> QED
  BY <1>1, <1>3

LEMMA AnsweredTruly ==
    ASSUME NEW v \in VisitRows, NEW reply \in Replies \ {"none", "OK"}, v.key \in PingKeys, v.source \in Sources,
           v.recorded = FALSE, reply = "NOT FOUND" => v.found = "gone", reply = "RATE LIMITED" => ~v.served \/ v.spent
    PROVE  /\ AnswerCall(v, reply) \in VisitRows /\ AnswerCall(v, reply).pc = "answered"
           /\ IsAnsweredTruly(AnswerCall(v, reply))
<1> DEFINE w == AnswerCall(v, reply)
<1>1. /\ w \in VisitRows /\ w.pc = "answered" /\ w.reply = reply /\ w.key = v.key /\ w.source = v.source
      /\ w.found = v.found /\ w.served = v.served /\ w.spent = v.spent /\ w.recorded = v.recorded
  BY AnsweredIs
<1> HIDE DEF w
<1>2. IsAnsweredTruly(w)
  BY <1>1 DEF IsAnsweredTruly, VisitRows
<1> QED
  BY <1>1, <1>2 DEF w

LEMMA VisitMoves ==
    ASSUME visit \in [Visits -> VisitRows], NEW v \in Visits, NEW next \in VisitRows, visit' = [visit EXCEPT ![v] = next]
    PROVE  visit' \in [Visits -> VisitRows] /\ visit'[v] = next /\ \A w \in Visits : w # v => visit'[w] = visit[w]
OBVIOUS

LEMMA LookingIsFinite ==
    \A s : IsFiniteSet(Looking(s)) /\ Cardinality(Looking(s)) \in Nat /\ Cardinality(Looking(s)) <= Cardinality(Visits)
<1> TAKE s
<1>1. Looking(s) \in SUBSET Visits
  BY DEF Looking
<1> QED
  BY <1>1, FS_Subset, FS_CardinalityType, PingGateAssumption

LEMMA LookingOnly ==
    ASSUME NEW S \in SUBSET Visits, NEW T \in SUBSET S
    PROVE  Cardinality(T) \in Nat /\ Cardinality(S) \in Nat /\ Cardinality(T) <= Cardinality(S)
BY FS_Subset, FS_CardinalityType, PingGateAssumption

\* A visit goes on, without a look at what is not known, and nothing is charged.
LEMMA VisitGoesOn ==
    ASSUME GateInv, NEW v \in Visits, NEW next \in VisitRows, visit' = [visit EXCEPT ![v] = next],
           IsAnsweredTruly(next), next.pc # "look",
           checkOf' = checkOf, cached' \subseteq PingKeys, keyHits' \in [PingKeys -> 0..KeyLimit],
           UNCHANGED <<unknownHits, wasted>>
    PROVE  GateInv'
<1>1. visit' \in [Visits -> VisitRows] /\ visit'[v] = next /\ \A w \in Visits : w # v => visit'[w] = visit[w]
  BY VisitMoves DEF GateInv, GateTypes
<1>2. \A w \in Visits : IsAnsweredTruly(visit'[w])
  BY <1>1 DEF GateInv
<1>3. ASSUME NEW s \in Sources PROVE WastesNoMore(s)'
  <2>1. Looking(s)' \in SUBSET Looking(s) /\ Looking(s) \in SUBSET Visits
    BY <1>1 DEF Looking
  <2>2. Cardinality(Looking(s)') \in Nat /\ Cardinality(Looking(s)) \in Nat /\ Cardinality(Looking(s)') <= Cardinality(Looking(s))
    BY <2>1, LookingOnly
  <2>3. Cardinality(Visits) \in Nat /\ wasted[s] \in Nat /\ UnknownLimit \in Nat
    BY <1>3, FS_CardinalityType, PingGateAssumption DEF GateInv, GateTypes
  <2>4. WastesNoMore(s)
    BY <1>3 DEF GateInv
  <2>5. wasted[s] + Cardinality(Looking(s)') < UnknownLimit + Cardinality(Visits)
    <3>1. wasted[s] + Cardinality(Looking(s)) < UnknownLimit + Cardinality(Visits)
      BY <2>4 DEF WastesNoMore
    <3> QED
      BY <2>2, <2>3, <3>1
  <2> QED
    BY <2>4, <2>5 DEF WastesNoMore
<1> QED
  BY <1>1, <1>2, <1>3 DEF GateInv, GateTypes

LEMMA GateStep == GateInv /\ [PingGateNext]_gateVars => GateInv'
<1> SUFFICES ASSUME GateInv, [PingGateNext]_gateVars PROVE GateInv'
  OBVIOUS
<1>t. /\ visit \in [Visits -> VisitRows] /\ checkOf \in [PingKeys -> {"live", "paused", "gone"}]
      /\ cached \subseteq PingKeys /\ keyHits \in [PingKeys -> 0..KeyLimit]
      /\ unknownHits \in [Sources -> 0..UnknownLimit] /\ wasted \in [Sources -> Nat]
      /\ \A v \in Visits : IsAnsweredTruly(visit[v])
      /\ \A s \in Sources : WastesNoMore(s)
  BY DEF GateInv, GateTypes
<1>n. KeyLimit \in Nat \ {0} /\ UnknownLimit \in Nat \ {0} /\ Cardinality(Visits) \in Nat
  BY FS_CardinalityType, PingGateAssumption
<1>1. ASSUME NEW v \in Visits, NEW key \in PingKeys, NEW source \in Sources, NEW path \in Paths, Arrive(v, key, source, path)
      PROVE  GateInv'
  <2> DEFINE c == Calling(key, source)
             next == CASE KindOf(path) = "none" -> AnswerCall(c, "BAD REQUEST")
                       [] KindOf(path) # "none" /\ keyHits[key] = KeyLimit -> AnswerCall(c, "RATE LIMITED")
                       [] OTHER -> IF NextOf(key, source) = "throttled" THEN AnswerCall(c, Throttled)
                                   ELSE [c EXCEPT !.pc = NextOf(key, source)]
  <2>1. /\ visit[v].pc = "idle" /\ visit' = [visit EXCEPT ![v] = next]
        /\ UNCHANGED <<checkOf, cached, unknownHits, wasted>>
    BY <1>1, <1>t DEF Arrive
  <2>2. keyHits' \in [PingKeys -> 0..KeyLimit]
    <3>1. keyHits' = [keyHits EXCEPT ![key] = IF KindOf(path) = "none" \/ keyHits[key] = KeyLimit
                                              THEN keyHits[key] ELSE keyHits[key] + 1]
      BY <1>1, <1>t DEF Arrive
    <3>2. keyHits[key] \in 0..KeyLimit
      BY <1>1, <1>t
    <3> QED
      BY <1>n, <1>t, <3>1, <3>2
  <2>3. /\ c \in VisitRows /\ c.key = key /\ c.source = source /\ c.reply = "none" /\ c.recorded = FALSE
        /\ c.served = (key \in cached) /\ c.spent = (keyHits[key] = KeyLimit)
    BY <1>1, CallingIs
  <2>4. NextOf(key, source) \in {"write", "throttled", "look"}
        /\ (NextOf(key, source) = "throttled" => key \notin cached)
        /\ (NextOf(key, source) = "look" => unknownHits[source] # UnknownLimit)
    BY DEF NextOf
  <2> HIDE DEF c
  <2>5. \/ next.pc # "look"
        \/ next.pc = "look" /\ next.source = source /\ unknownHits[source] # UnknownLimit
    <3>1. \A reply \in Replies : AnswerCall(c, reply).pc = "answered"
      BY <2>3, AnsweredIs
    <3>2. [c EXCEPT !.pc = NextOf(key, source)].pc = NextOf(key, source)
          /\ [c EXCEPT !.pc = NextOf(key, source)].source = source
      BY <2>3, <2>4 DEF VisitRows
    <3> QED
      BY <2>4, <3>1, <3>2 DEF Replies, Throttled
  <2>6. next \in VisitRows /\ IsAnsweredTruly(next)
    <3>1. CASE KindOf(path) = "none"
      <4>1. next = AnswerCall(c, "BAD REQUEST") /\ "BAD REQUEST" \in Replies
        BY <3>1 DEF Replies
      <4>2. c \in VisitRows /\ c.key \in PingKeys /\ c.source \in Sources /\ c.recorded = FALSE
        BY <1>1, <2>3
      <4> QED
        BY <4>1, <4>2, AnsweredTruly
    <3>2. CASE KindOf(path) # "none" /\ keyHits[key] = KeyLimit
      <4>1. next = AnswerCall(c, "RATE LIMITED") /\ "RATE LIMITED" \in Replies
        BY <3>2 DEF Replies
      <4>2. c.spent
        BY <2>3, <3>2
      <4>3. c \in VisitRows /\ c.key \in PingKeys /\ c.source \in Sources /\ c.recorded = FALSE
        BY <1>1, <2>3
      <4> QED
        BY <4>1, <4>2, <4>3, AnsweredTruly
    <3>3. CASE KindOf(path) # "none" /\ keyHits[key] # KeyLimit /\ NextOf(key, source) = "throttled"
      <4>1. next = AnswerCall(c, "RATE LIMITED") /\ "RATE LIMITED" \in Replies
        BY <3>3 DEF Replies, Throttled
      <4>2. ~c.served
        <5>1. c.served = (key \in cached) /\ key \notin cached
          BY <2>3, <2>4, <3>3
        <5> QED
          BY <5>1
      <4>3. c \in VisitRows /\ c.key \in PingKeys /\ c.source \in Sources /\ c.recorded = FALSE
        BY <1>1, <2>3
      <4> QED
        BY <4>1, <4>2, <4>3, AnsweredTruly
    <3>4. CASE KindOf(path) # "none" /\ keyHits[key] # KeyLimit /\ NextOf(key, source) # "throttled"
      <4>1. next = [c EXCEPT !.pc = NextOf(key, source)]
        BY <3>4
      <4> QED
        BY <1>1, <2>3, <2>4, <3>4, <4>1 DEF VisitRows, IsAnsweredTruly
    <3> QED
      BY <3>1, <3>2, <3>3, <3>4
  <2> HIDE DEF next
  <2>7. CASE next.pc # "look"
    BY <1>1, <1>t, <2>1, <2>2, <2>6, <2>7, VisitGoesOn
  <2>8. CASE next.pc = "look" /\ next.source = source /\ unknownHits[source] # UnknownLimit
    <3>1. visit' \in [Visits -> VisitRows] /\ visit'[v] = next /\ \A w \in Visits : w # v => visit'[w] = visit[w]
      BY <1>1, <1>t, <2>1, <2>6, VisitMoves
    <3>2. \A w \in Visits : IsAnsweredTruly(visit'[w])
      BY <1>t, <2>6, <3>1
    <3>3. WastesNoMore(source)'
      <4>1. unknownHits[source] \in 0..UnknownLimit /\ wasted[source] \in Nat /\ WastesNoMore(source)
        BY <1>1, <1>t
      <4>2. wasted[source] = unknownHits[source] /\ wasted[source] < UnknownLimit
        BY <1>n, <2>8, <4>1 DEF WastesNoMore
      <4>3. Cardinality(Looking(source)') \in Nat /\ Cardinality(Looking(source)') <= Cardinality(Visits)
        <5>1. Looking(source)' \in SUBSET Visits
          BY DEF Looking
        <5> QED
          BY <5>1, LookingOnly
      <4>4. wasted[source] + Cardinality(Looking(source)') < UnknownLimit + Cardinality(Visits)
        BY <1>n, <4>1, <4>2, <4>3
      <4> QED
        BY <2>1, <4>2, <4>4 DEF WastesNoMore
    <3>4. ASSUME NEW s \in Sources, s # source PROVE WastesNoMore(s)'
      <4>1. Looking(s)' = Looking(s)
        BY <2>1, <2>8, <3>1, <3>4 DEF Looking
      <4> QED
        BY <1>t, <2>1, <3>4, <4>1 DEF WastesNoMore
    <3> QED
      BY <1>t, <2>1, <2>2, <3>1, <3>2, <3>3, <3>4 DEF GateInv, GateTypes
  <2> QED
    BY <2>5, <2>7, <2>8
<1>2. ASSUME NEW v \in Visits, Find(v) PROVE GateInv'
  <2> DEFINE c == [visit[v] EXCEPT !.found = checkOf[visit[v].key]]
  <2>1. /\ visit[v] \in VisitRows /\ visit[v].pc = "look" /\ IsAnsweredTruly(visit[v])
        /\ UNCHANGED <<checkOf, keyHits>>
    BY <1>2, <1>t DEF Find
  <2>2. visit[v].key \in PingKeys /\ visit[v].source \in Sources /\ visit[v].reply = "none" /\ ~visit[v].recorded
    BY <2>1 DEF IsAnsweredTruly
  <2>3. /\ c \in VisitRows /\ c.found = checkOf[visit[v].key] /\ c.key = visit[v].key /\ c.source = visit[v].source
        /\ c.reply = "none" /\ c.recorded = FALSE
    <3>1. checkOf[visit[v].key] \in {"live", "paused", "gone"}
      BY <1>t, <2>2
    <3> QED
      BY <2>1, <2>2, <3>1 DEF VisitRows
  <2>4. CASE ~databaseUp
    <3> DEFINE next == AnswerCall(c, "UNAVAILABLE")
    <3>1. visit' = [visit EXCEPT ![v] = next] /\ UNCHANGED <<cached, unknownHits, wasted>>
      BY <1>2, <2>4 DEF Find
    <3> HIDE DEF c
    <3>2. next \in VisitRows /\ next.pc # "look" /\ IsAnsweredTruly(next)
      BY <2>2, <2>3, AnsweredTruly DEF Replies
    <3> HIDE DEF next
    <3> QED
      BY <1>2, <1>t, <2>1, <3>1, <3>2, VisitGoesOn
  <2>5. CASE databaseUp /\ c.found # "gone"
    <3> DEFINE next == [c EXCEPT !.pc = "write"]
    <3>1. visit' = [visit EXCEPT ![v] = next] /\ cached' = cached \cup {c.key} /\ UNCHANGED <<unknownHits, wasted>>
      BY <1>2, <2>5 DEF Find
    <3> HIDE DEF c
    <3>2. next \in VisitRows /\ next.pc # "look" /\ IsAnsweredTruly(next)
      BY <2>2, <2>3 DEF IsAnsweredTruly, VisitRows
    <3> HIDE DEF next
    <3>3. cached' \subseteq PingKeys
      BY <1>t, <2>2, <2>3, <3>1
    <3> QED
      BY <1>2, <1>t, <2>1, <3>1, <3>2, <3>3, VisitGoesOn
  <2>6. CASE databaseUp /\ c.found = "gone"
    <3> DEFINE next == AnswerCall(c, "NOT FOUND")
    <3>0. PICK source \in Sources : source = visit[v].source
      BY <2>2
    <3>a. c.source = source /\ c.found = "gone"
      BY <2>3, <2>6, <3>0
    <3>1. /\ visit' = [visit EXCEPT ![v] = next] /\ cached' = cached
          /\ unknownHits' = Charged(c.source)
          /\ wasted' = [wasted EXCEPT ![c.source] = IF @ = MostWasted THEN @ ELSE @ + 1]
      BY <1>2, <2>6 DEF Find
    <3> HIDE DEF c
    <3>b. /\ unknownHits' = [unknownHits EXCEPT ![source] = IF @ = UnknownLimit THEN @ ELSE @ + 1]
          /\ wasted' = [wasted EXCEPT ![source] = IF @ = MostWasted THEN @ ELSE @ + 1]
      BY <3>1, <3>a DEF Charged
    <3>2. next \in VisitRows /\ next.pc # "look" /\ IsAnsweredTruly(next)
      BY <2>2, <2>3, <2>6, AnsweredTruly DEF Replies
    <3> HIDE DEF next
    <3>3. visit' \in [Visits -> VisitRows] /\ visit'[v] = next /\ \A w \in Visits : w # v => visit'[w] = visit[w]
      BY <1>2, <1>t, <3>1, <3>2, VisitMoves
    <3>4. \A w \in Visits : IsAnsweredTruly(visit'[w])
      BY <1>t, <3>2, <3>3
    <3>5. source \in Sources /\ unknownHits[source] \in 0..UnknownLimit /\ wasted[source] \in Nat /\ WastesNoMore(source)
      BY <1>t, <3>0
    <3>6. unknownHits' \in [Sources -> 0..UnknownLimit] /\ wasted' \in [Sources -> Nat]
      BY <1>n, <1>t, <3>b, <3>5
    <3>7. WastesNoMore(source)'
      <4>1. v \in Looking(source) /\ Looking(source)' = Looking(source) \ {v}
        BY <1>2, <2>1, <3>0, <3>2, <3>3 DEF Looking
      <4>2. /\ Cardinality(Looking(source)) \in Nat /\ Cardinality(Looking(source)') \in Nat
            /\ Cardinality(Looking(source)') = Cardinality(Looking(source)) - 1
        <5>1. IsFiniteSet(Looking(source)) /\ Cardinality(Looking(source)) \in Nat
          BY LookingIsFinite
        <5>2. IsFiniteSet(Looking(source) \ {v}) /\ Cardinality(Looking(source) \ {v}) = Cardinality(Looking(source)) - 1
          BY <4>1, <5>1, FS_RemoveElement
        <5>3. Cardinality(Looking(source) \ {v}) \in Nat
          BY <5>2, FS_CardinalityType
        <5> QED
          BY <4>1, <5>1, <5>2, <5>3
      <4>3. /\ unknownHits[source] < UnknownLimit => wasted[source] = unknownHits[source]
            /\ wasted[source] + Cardinality(Looking(source)) < UnknownLimit + Cardinality(Visits)
        BY <3>5 DEF WastesNoMore
      <4>4. wasted'[source] = wasted[source] + 1
        BY <1>n, <1>t, <3>b, <3>5, <4>2, <4>3 DEF MostWasted
      <4>5. unknownHits'[source] = IF unknownHits[source] = UnknownLimit THEN unknownHits[source] ELSE unknownHits[source] + 1
        BY <1>t, <3>b, <3>5
      <4>6. unknownHits'[source] < UnknownLimit => wasted'[source] = unknownHits'[source]
        BY <1>n, <3>5, <4>3, <4>4, <4>5
      <4>7. wasted'[source] + Cardinality(Looking(source)') < UnknownLimit + Cardinality(Visits)
        BY <1>n, <3>5, <4>2, <4>3, <4>4
      <4> QED
        BY <4>6, <4>7 DEF WastesNoMore
    <3>8. ASSUME NEW s \in Sources, s # source PROVE WastesNoMore(s)'
      <4>1. Looking(s)' = Looking(s)
        BY <2>1, <3>0, <3>2, <3>3, <3>8 DEF Looking
      <4>2. unknownHits'[s] = unknownHits[s] /\ wasted'[s] = wasted[s]
        BY <1>t, <3>b, <3>8
      <4> QED
        BY <1>t, <3>8, <4>1, <4>2 DEF WastesNoMore
    <3> QED
      BY <1>t, <2>1, <3>1, <3>3, <3>4, <3>6, <3>7, <3>8 DEF GateInv, GateTypes
  <2> QED
    BY <2>4, <2>5, <2>6
<1>3. ASSUME NEW v \in Visits, Write(v) PROVE GateInv'
  <2>1. /\ visit[v] \in VisitRows /\ visit[v].pc = "write" /\ IsAnsweredTruly(visit[v])
        /\ UNCHANGED <<checkOf, cached, keyHits, unknownHits, wasted>>
    BY <1>3, <1>t DEF Write
  <2>2. visit[v].key \in PingKeys /\ visit[v].source \in Sources /\ visit[v].reply = "none" /\ ~visit[v].recorded
    BY <2>1 DEF IsAnsweredTruly
  <2>3. ASSUME NEW reply \in {"UNAVAILABLE", "PAUSED"} PROVE AnswerCall(visit[v], reply) \in VisitRows
             /\ AnswerCall(visit[v], reply).pc # "look" /\ IsAnsweredTruly(AnswerCall(visit[v], reply))
    BY <2>1, <2>2, <2>3, AnsweredTruly DEF Replies, VisitRows
  <2> DEFINE ok == AnswerCall(visit[v], "OK")
  <2>4. [ok EXCEPT !.recorded = TRUE] \in VisitRows /\ [ok EXCEPT !.recorded = TRUE].pc # "look"
        /\ IsAnsweredTruly([ok EXCEPT !.recorded = TRUE])
    <3>1. ok \in VisitRows /\ ok.pc = "answered" /\ ok.reply = "OK" /\ ok.key = visit[v].key /\ ok.source = visit[v].source
      BY <2>1, AnsweredIs DEF Replies
    <3> HIDE DEF ok
    <3> QED
      BY <2>2, <3>1 DEF VisitRows, IsAnsweredTruly
  <2>5. \E next \in VisitRows : visit' = [visit EXCEPT ![v] = next] /\ next.pc # "look" /\ IsAnsweredTruly(next)
    <3>1. CASE ~databaseUp
      <4>1. visit' = [visit EXCEPT ![v] = AnswerCall(visit[v], "UNAVAILABLE")]
        BY <1>3, <1>t, <3>1 DEF Write
      <4> QED
        BY <2>3, <4>1
    <3>2. CASE databaseUp /\ checkOf[visit[v].key] = "live"
      <4>1. visit' = [visit EXCEPT ![v] = [ok EXCEPT !.recorded = TRUE]]
        BY <1>3, <1>t, <3>2 DEF Write
      <4> QED
        BY <2>4, <4>1
    <3>3. CASE databaseUp /\ checkOf[visit[v].key] # "live"
      <4>1. visit' = [visit EXCEPT ![v] = AnswerCall(visit[v], "PAUSED")]
        BY <1>3, <1>t, <3>3 DEF Write
      <4> QED
        BY <2>3, <4>1
    <3> QED
      BY <3>1, <3>2, <3>3
  <2> QED
    BY <1>3, <1>t, <2>1, <2>5, VisitGoesOn
<1>4. ASSUME NEW v \in Visits, HangUp(v) PROVE GateInv'
  BY <1>4, <1>t, IdleIs, VisitGoesOn DEF HangUp
\* What is known of keys changes, not the visits nor what they wasted.
<1>5. ASSUME checkOf' \in [PingKeys -> {"live", "paused", "gone"}], cached' \subseteq PingKeys,
             keyHits' \in [PingKeys -> 0..KeyLimit], UNCHANGED <<visit, unknownHits, wasted>>
      PROVE  GateInv'
  BY <1>5, <1>t DEF GateInv, GateTypes, WastesNoMore, Looking
<1>6. ASSUME NEW key \in PingKeys, NEW state \in {"live", "paused", "gone"}, EditCheck(key, state) PROVE GateInv'
  BY <1>5, <1>6, <1>t DEF EditCheck
<1>7. ASSUME NEW key \in PingKeys, EntryExpires(key) PROVE GateInv'
  BY <1>5, <1>7, <1>t DEF EntryExpires
<1>8. ASSUME NEW key \in PingKeys, KeyWindowEnds(key) PROVE GateInv'
  <2>1. keyHits' \in [PingKeys -> 0..KeyLimit]
    BY <1>8, <1>n, <1>t DEF KeyWindowEnds
  <2> QED
    BY <1>5, <1>8, <1>t, <2>1 DEF KeyWindowEnds
<1>9. ASSUME NEW source \in Sources, SourceWindowEnds(source) PROVE GateInv'
  <2>1. /\ unknownHits' = [unknownHits EXCEPT ![source] = 0] /\ wasted' = [wasted EXCEPT ![source] = 0]
        /\ UNCHANGED <<visit, checkOf, cached, keyHits>>
    BY <1>9 DEF SourceWindowEnds
  <2>2. unknownHits' \in [Sources -> 0..UnknownLimit] /\ wasted' \in [Sources -> Nat]
    BY <1>9, <1>n, <1>t, <2>1
  <2>3. WastesNoMore(source)'
    <3>1. Looking(source)' = Looking(source)
      BY <2>1 DEF Looking
    <3>2. Cardinality(Looking(source)) \in Nat /\ Cardinality(Looking(source)) <= Cardinality(Visits)
      BY LookingIsFinite
    <3>3. unknownHits'[source] = 0 /\ wasted'[source] = 0
      BY <1>9, <1>t, <2>1
    <3>4. 0 + Cardinality(Looking(source)) < UnknownLimit + Cardinality(Visits)
      BY <1>n, <3>2
    <3> QED
      BY <3>1, <3>3, <3>4 DEF WastesNoMore
  <2>4. ASSUME NEW s \in Sources, s # source PROVE WastesNoMore(s)'
    <3>1. Looking(s)' = Looking(s) /\ unknownHits'[s] = unknownHits[s] /\ wasted'[s] = wasted[s]
      BY <1>t, <2>1, <2>4 DEF Looking
    <3> QED
      BY <1>t, <2>4, <3>1 DEF WastesNoMore
  <2> QED
    BY <1>t, <2>1, <2>2, <2>3, <2>4 DEF GateInv, GateTypes
<1>10. CASE DatabaseTurns \/ UNCHANGED gateVars
  BY <1>5, <1>10, <1>t DEF DatabaseTurns, gateVars
<1> QED
  BY <1>1, <1>2, <1>3, <1>4, <1>6, <1>7, <1>8, <1>9, <1>10 DEF PingGateNext

LEMMA GateInitially == PingGateInit => GateInv
<1> SUFFICES ASSUME PingGateInit PROVE GateInv
  OBVIOUS
<1>1. GateTypes /\ \A v \in Visits : IsAnsweredTruly(visit[v])
  BY IdleIs, PingGateAssumption DEF PingGateInit, GateTypes
<1>2. ASSUME NEW s \in Sources PROVE WastesNoMore(s)
  <2>1. Looking(s) = {}
    BY IdleIs DEF PingGateInit, Looking
  <2>2. Cardinality(Looking(s)) = 0
    BY <2>1, FS_EmptySet
  <2>3. unknownHits[s] = 0 /\ wasted[s] = 0
    BY <1>2 DEF PingGateInit
  <2>4. UnknownLimit \in Nat \ {0} /\ Cardinality(Visits) \in Nat
    BY FS_CardinalityType, PingGateAssumption
  <2> QED
    BY <2>2, <2>3, <2>4 DEF WastesNoMore
<1> QED
  BY <1>1, <1>2 DEF GateInv

LEMMA GateIsKept == GateInv => AnswersAreTrue /\ ScannersSilenceNobody /\ WastedLookupsAreBounded
<1> SUFFICES ASSUME GateInv PROVE AnswersAreTrue /\ ScannersSilenceNobody /\ WastedLookupsAreBounded
  OBVIOUS
<1>1. AnswersAreTrue /\ ScannersSilenceNobody
  BY DEF GateInv, AnswersAreTrue, ScannersSilenceNobody, IsAnsweredTruly
<1>2. ASSUME NEW s \in Sources PROVE wasted[s] < UnknownLimit + Cardinality(Visits)
  <2>1. Cardinality(Looking(s)) \in Nat /\ wasted[s] \in Nat /\ WastesNoMore(s)
    BY <1>2, LookingIsFinite DEF GateInv, GateTypes
  <2>2. UnknownLimit \in Nat \ {0} /\ Cardinality(Visits) \in Nat
    BY FS_CardinalityType, PingGateAssumption
  <2> QED
    BY <2>1, <2>2 DEF WastesNoMore
<1> QED
  BY <1>1, <1>2 DEF WastedLookupsAreBounded

-----------------------------------------------------------------------------
(***************************************************************************)
(* Where a message goes, and when it is called sent.                       *)
(***************************************************************************)
TargetHosts == Literals \cup {AName}
Targets == [type : HttpTypes \cup {"email"}, host : TargetHosts, parses : BOOLEAN]
DeliverySteps == {"idle", "lookup", "request", "answer", "ok", "failed"}
DeliveryRows == [pc : DeliverySteps, to : Targets \cup {NoTarget}, idle : 0..IdleLimit,
               status : Statuses \cup {0}, chunks : 0..MaxAnswers]

SendingInv ==
    /\ target \in Targets \cup {NoTarget} /\ delivery \in DeliveryRows /\ tookIt \in BOOLEAN
    /\ contacted \subseteq Addresses /\ OnlyVettedAreContacted
    /\ delivery.pc = "lookup" => delivery.to \in Targets
    /\ delivery.pc = "answer" /\ delivery.status \in 200..299 => tookIt
    /\ Provider # "console" => SentMeansTaken

LEMMA NoTargetIsNone == NoTarget \notin Targets /\ NoTarget.type = "none"
BY DEF Targets, NoTarget, HttpTypes

LEMMA NotDeliveringIs ==
    /\ NotDelivering \in DeliveryRows /\ NotDelivering.pc = "idle" /\ NotDelivering.status = 0
BY SendingAssumption DEF NotDelivering, DeliveryRows, DeliverySteps

LEMMA AllowedIsPublic == \A a \in Addresses : IsAllowedAddress(a) /\ ~AllowPrivate => a.net = "public"
BY DEF IsAllowedAddress, BlockedNets, Addresses

LEMMA ResolvedAreAddresses == \A s \in Resolutions : s \subseteq Addresses
BY DEF Resolutions, Addresses, Nets

LEMMA HostsAre == /\ \A h \in TargetHosts : h.literal => h.address \in Addresses
                  /\ \A h \in TargetHosts : h.literal \in BOOLEAN
<1>1. \A h \in Literals : h.address \in Addresses /\ h.literal = TRUE
  BY DEF Literals
<1>2. AName.literal = FALSE
  BY DEF AName
<1> QED
  BY <1>1, <1>2 DEF TargetHosts

LEMMA SendingStep == SendingInv /\ [SendingNext]_sendingVars => SendingInv'
<1> SUFFICES ASSUME SendingInv, [SendingNext]_sendingVars PROVE SendingInv'
  OBVIOUS
<1>t. /\ target \in Targets \cup {NoTarget} /\ delivery \in DeliveryRows /\ tookIt \in BOOLEAN
      /\ contacted \subseteq Addresses /\ OnlyVettedAreContacted
      /\ delivery.pc = "lookup" => delivery.to \in Targets
      /\ delivery.pc = "answer" /\ delivery.status \in 200..299 => tookIt
      /\ Provider # "console" => SentMeansTaken
  BY DEF SendingInv
<1>n. 0 \in 0..IdleLimit /\ \A n \in 0..MaxAnswers : n < MaxAnswers => n + 1 \in 0..MaxAnswers
  BY SendingAssumption
\* The channel changes, not the send.
<1>1. ASSUME target' \in Targets \cup {NoTarget}, UNCHANGED <<delivery, contacted, tookIt>> PROVE SendingInv'
  BY <1>1, <1>t DEF SendingInv, OnlyVettedAreContacted, SentMeansTaken
<1>2. ASSUME NEW type \in HttpTypes, NEW host \in TargetHosts, NEW resolved \in Resolutions,
             CreateHttpChannel(type, host, resolved)
      PROVE  SendingInv'
  <2>1. PICK parses \in BOOLEAN : target' = [type |-> type, host |-> host, parses |-> parses]
    BY <1>2 DEF CreateHttpChannel
  <2>2. target' \in Targets
    BY <1>2, <2>1 DEF Targets
  <2> QED
    BY <1>1, <1>2, <2>2 DEF CreateHttpChannel
<1>3. CASE CreateEmailChannel
  <2>1. PICK parses \in BOOLEAN : target' = [type |-> "email", host |-> AName, parses |-> parses]
    BY <1>3 DEF CreateEmailChannel
  <2>2. target' \in Targets
    BY <2>1 DEF Targets, TargetHosts
  <2> QED
    BY <1>1, <1>3, <2>2 DEF CreateEmailChannel
<1>4. CASE KeyIsChanged
  <2>1. target' \in Targets
    BY <1>4, <1>t DEF KeyIsChanged, Targets
  <2> QED
    BY <1>1, <1>4, <2>1 DEF KeyIsChanged
\* The send goes on.
<1>5. CASE BeginDelivery
  <2> DEFINE next == CASE ~target.parses -> "failed"
                       [] target.parses /\ target.type = "email" /\ Provider = "console" -> "ok"
                       [] target.parses /\ target.type = "email" /\ Provider = "smtp" -> "answer"
                       [] OTHER -> "lookup"
             v1 == [NotDelivering EXCEPT !.to = target]
             v2 == [v1 EXCEPT !.pc = next]
  <2>1. delivery' = v2 /\ target \in Targets /\ UNCHANGED <<target, contacted, tookIt>>
    BY <1>5, <1>t DEF BeginDelivery
  <2>2. next \in {"failed", "ok", "answer", "lookup"} /\ (next = "ok" => Provider = "console")
    BY <2>1 DEF Targets
  <2>3. v1 \in DeliveryRows /\ v1.to = target /\ v1.status = 0
    BY <2>1, NotDeliveringIs DEF DeliveryRows
  <2> HIDE DEF next, v1
  <2>4. v2 \in DeliveryRows /\ v2.to = target /\ v2.status = 0 /\ v2.pc = next
    BY <2>2, <2>3 DEF DeliveryRows, DeliverySteps
  <2> HIDE DEF v2
  <2> QED
    BY <1>t, <2>1, <2>2, <2>4 DEF SendingInv, OnlyVettedAreContacted, SentMeansTaken
<1>6. ASSUME NEW accepted \in BOOLEAN, SmtpAnswers(accepted) PROVE SendingInv'
  <2>1. delivery' = [delivery EXCEPT !.pc = IF accepted THEN "ok" ELSE "failed"] /\ tookIt' = accepted
        /\ UNCHANGED <<target, contacted>>
    BY <1>6 DEF SmtpAnswers
  <2>2. delivery' \in DeliveryRows /\ delivery'.pc = IF accepted THEN "ok" ELSE "failed"
    BY <1>t, <2>1 DEF DeliveryRows, DeliverySteps
  <2> QED
    BY <1>6, <1>t, <2>1, <2>2 DEF SendingInv, OnlyVettedAreContacted, SentMeansTaken
<1>7. ASSUME NEW next \in {"failed", "request"}, delivery' = [delivery EXCEPT !.pc = next],
             UNCHANGED <<target, tookIt>>, contacted' \subseteq Addresses, OnlyVettedAreContacted'
      PROVE  SendingInv'
  <2>1. delivery' \in DeliveryRows /\ delivery'.pc = next
    BY <1>7, <1>t DEF DeliveryRows, DeliverySteps
  <2> QED
    BY <1>7, <1>t, <2>1 DEF SendingInv, SentMeansTaken
<1>8. ASSUME NEW a \in Addresses, IsAllowedAddress(a), contacted' = contacted \cup {a},
             delivery' = [delivery EXCEPT !.pc = "request"], UNCHANGED <<target, tookIt>>
      PROVE  SendingInv'
  <2>1. contacted' \subseteq Addresses /\ OnlyVettedAreContacted'
    BY <1>8, <1>t, AllowedIsPublic DEF OnlyVettedAreContacted
  <2> QED
    BY <1>7, <1>8, <2>1
<1>9. ASSUME Fails, UNCHANGED <<target, tookIt, contacted>> PROVE SendingInv'
  BY <1>7, <1>9, <1>t DEF Fails, OnlyVettedAreContacted
<1>10. CASE ConnectLiteral
  <2>1. delivery.to.host \in TargetHosts /\ delivery.to.host.literal
    BY <1>10, <1>t DEF ConnectLiteral, Targets
  <2>2. CASE LiteralIsAllowed(delivery.to.host)
    BY <1>8, <1>10, <2>1, <2>2, HostsAre DEF ConnectLiteral, LiteralIsAllowed
  <2>3. CASE ~LiteralIsAllowed(delivery.to.host)
    BY <1>9, <1>10, <2>3 DEF ConnectLiteral
  <2> QED
    BY <2>2, <2>3
<1>11. ASSUME NEW resolved \in Resolutions, ConnectName(resolved) PROVE SendingInv'
  <2>1. CASE AllowedAmong(resolved) = {}
    BY <1>9, <1>11, <2>1 DEF ConnectName
  <2>2. CASE AllowedAmong(resolved) # {}
    <3>1. PICK a \in AllowedAmong(resolved) :
              contacted' = contacted \cup {a} /\ delivery' = [delivery EXCEPT !.pc = "request"]
      BY <1>11, <2>2 DEF ConnectName
    <3>2. a \in Addresses /\ IsAllowedAddress(a)
      BY <3>1, ResolvedAreAddresses DEF AllowedAmong
    <3> QED
      BY <1>8, <1>11, <3>1, <3>2 DEF ConnectName
  <2> QED
    BY <2>1, <2>2
<1>12. ASSUME NEW status \in Statuses, Answers(status) PROVE SendingInv'
  <2>0. tookIt' = (status \in 200..299) /\ UNCHANGED <<target, contacted>>
    BY <1>12 DEF Answers
  <2>1. CASE status \in 300..399
    <3>1. delivery' = [delivery EXCEPT !.pc = "failed"]
      BY <1>12, <2>1 DEF Answers, Fails
    <3>2. delivery' \in DeliveryRows /\ delivery'.pc = "failed"
      BY <1>t, <3>1 DEF DeliveryRows, DeliverySteps
    <3> QED
      BY <1>t, <2>0, <3>2 DEF SendingInv, OnlyVettedAreContacted, SentMeansTaken
  <2>2. CASE ~(status \in 300..399)
    <3>1. delivery' = [delivery EXCEPT !.pc = "answer", !.status = status, !.idle = 0]
      BY <1>12, <2>2 DEF Answers
    <3> DEFINE v1 == [delivery EXCEPT !.pc = "answer"]
               v2 == [v1 EXCEPT !.status = status]
               v3 == [v2 EXCEPT !.idle = 0]
    <3>2. delivery' = v3
      BY <3>1
    <3>3. v1 \in DeliveryRows /\ v1.pc = "answer"
      BY <1>t DEF DeliveryRows, DeliverySteps
    <3> HIDE DEF v1
    <3>4. v2 \in DeliveryRows /\ v2.pc = "answer" /\ v2.status = status
      BY <1>12, <3>3 DEF DeliveryRows
    <3> HIDE DEF v2
    <3>5. v3 \in DeliveryRows /\ v3.pc = "answer" /\ v3.status = status
      BY <1>n, <3>4 DEF DeliveryRows
    <3> HIDE DEF v3
    <3>6. delivery' \in DeliveryRows /\ delivery'.pc = "answer" /\ delivery'.status = status
      BY <3>2, <3>5
    <3>7. tookIt' \in BOOLEAN
      BY <2>0
    <3>8. delivery'.status \in 200..299 => tookIt'
      BY <2>0, <3>6
    <3> QED
      BY <1>t, <2>0, <3>6, <3>7, <3>8 DEF SendingInv, OnlyVettedAreContacted, SentMeansTaken
  <2> QED
    BY <2>1, <2>2
\* Nothing that matters to what was promised changes.
<1>13. ASSUME UNCHANGED <<target, contacted, tookIt>>, delivery' \in DeliveryRows,
              delivery'.pc = delivery.pc, delivery'.status = delivery.status, delivery'.to = delivery.to
       PROVE  SendingInv'
  BY <1>13, <1>t DEF SendingInv, OnlyVettedAreContacted, SentMeansTaken
<1>14. CASE Drips
  <2> DEFINE v1 == [delivery EXCEPT !.chunks = delivery.chunks + 1]
             v2 == [v1 EXCEPT !.idle = 0]
  <2>1. delivery' = v2 /\ delivery.chunks < MaxAnswers /\ delivery.chunks \in 0..MaxAnswers
    BY <1>14, <1>t DEF Drips, DeliveryRows
  <2>2. delivery.chunks + 1 \in 0..MaxAnswers
    BY <1>n, <2>1
  <2>3. v1 \in DeliveryRows /\ v1.pc = delivery.pc /\ v1.status = delivery.status /\ v1.to = delivery.to
    BY <1>t, <2>2 DEF DeliveryRows
  <2> HIDE DEF v1
  <2>4. v2 \in DeliveryRows /\ v2.pc = delivery.pc /\ v2.status = delivery.status /\ v2.to = delivery.to
    BY <1>n, <2>3 DEF DeliveryRows
  <2> HIDE DEF v2
  <2> QED
    BY <1>13, <1>14, <2>1, <2>4 DEF Drips
<1>15. CASE AnswerEnds
  <2>1. delivery' = [delivery EXCEPT !.pc = IF Refused(delivery.status) THEN "failed" ELSE "ok"]
        /\ UNCHANGED <<target, contacted, tookIt>> /\ delivery.pc = "answer"
    BY <1>15 DEF AnswerEnds
  <2>2. delivery' \in DeliveryRows /\ delivery'.pc = IF Refused(delivery.status) THEN "failed" ELSE "ok"
    BY <1>t, <2>1 DEF DeliveryRows, DeliverySteps
  <2>3. ~Refused(delivery.status) => delivery.status \in 200..299
    BY <1>t DEF Refused, DeliveryRows, Statuses
  <2> QED
    BY <1>t, <2>1, <2>2, <2>3 DEF SendingInv, OnlyVettedAreContacted, SentMeansTaken
<1>16. CASE SocketIsSilent
  <2>1. delivery' = [delivery EXCEPT !.idle = delivery.idle + 1] /\ delivery.idle < IdleLimit
    BY <1>16, <1>t DEF SocketIsSilent, DeliveryRows
  <2>2. delivery' \in DeliveryRows /\ delivery'.pc = delivery.pc /\ delivery'.status = delivery.status
        /\ delivery'.to = delivery.to
    BY <1>t, <2>1, SendingAssumption DEF DeliveryRows
  <2> QED
    BY <1>13, <1>16, <2>2 DEF SocketIsSilent
<1>17. CASE SocketErrs
  BY <1>9, <1>17 DEF SocketErrs
<1>18. CASE NextDelivery
  BY <1>18, <1>t, NotDeliveringIs DEF NextDelivery, SendingInv, OnlyVettedAreContacted, SentMeansTaken
<1>19. CASE UNCHANGED sendingVars
  BY <1>13, <1>19, <1>t DEF sendingVars
<1> QED
  BY <1>2, <1>3, <1>4, <1>5, <1>6, <1>10, <1>11, <1>12, <1>14, <1>15, <1>16, <1>17, <1>18, <1>19
  DEF SendingNext, TargetHosts

LEMMA SendingInitially == SendingInit => SendingInv
BY NotDeliveringIs DEF SendingInit, SendingInv, OnlyVettedAreContacted, SentMeansTaken

-----------------------------------------------------------------------------
(***************************************************************************)
(* What a page shows: the requests an expired session holds back, and the  *)
(* answers that come for a page that was left.                             *)
(***************************************************************************)
CallSteps == InFlight \cup {"none", "held", "done", "refused", "timed out"}
Sessions == [who : Accounts \cup {Nobody}, fresh : BOOLEAN]
CallRows == [pc : CallSteps, kind : Kinds, asked : Accounts \cup {Nobody}, as : Sessions]

\* A dialog is open for as long as a request is held, and whoever waits in it for the
\* session is what it is busy with.
WebInv ==
    /\ cookie \in Sessions /\ me \in Accounts \cup {Nobody} /\ req \in [Calls -> CallRows]
    /\ dialog \in {"closed", "open", "signing in"}
    /\ (\E r \in Calls : req[r].pc = "held") => dialog # "closed"
    /\ dialog = "signing in" <=> restore = "dialog"
    /\ \A r \in Calls : req[r].pc = "timed out" => Reads(req[r].kind)

\* What may become of a call in a step.
GoesOn(r) ==
    /\ req[r].pc = "held" => req'[r].pc \in {"held", "sent again", "refused"}
    /\ req[r].pc = "held" /\ req'[r].pc = "sent again" => dialog = "signing in" /\ cookie.who \in live
    /\ req'[r].pc = "timed out" => Reads(req[r].kind) /\ Reads(req'[r].kind)

LEMMA NoRequestIs == Nobody \in Accounts \cup {Nobody} => NoRequest \in CallRows /\ NoRequest.pc = "none"
BY DEF NoRequest, CallRows, CallSteps, Kinds, Sessions, NoSession

\* A call goes a step further, and the others where they were.
WithStep(r, pc) == [req EXCEPT ![r].pc = pc]
EndOf(r, pc) == [req EXCEPT ![r] = Over(pc)]
IsAStep(after, r, pc) ==
    /\ after \in [Calls -> CallRows] /\ after[r] \in CallRows /\ after[r].pc = pc
    /\ \A s \in Calls : s # r => after[s] = req[s]

LEMMA StepOfACall ==
    ASSUME req \in [Calls -> CallRows], NEW r \in Calls, NEW pc \in CallSteps
    PROVE  IsAStep(WithStep(r, pc), r, pc)
<1> DEFINE one == [req[r] EXCEPT !.pc = pc]
<1>1. WithStep(r, pc) = [req EXCEPT ![r] = one]
  BY DEF WithStep
<1>2. one \in CallRows /\ one.pc = pc
  BY DEF CallRows
<1> HIDE DEF one
<1> QED
  BY <1>1, <1>2 DEF IsAStep

LEMMA OverIs ==
    ASSUME NEW pc \in CallSteps
    PROVE  Over(pc) \in CallRows /\ Over(pc).pc = pc /\ Over(pc).kind = "read"
BY DEF Over, NoRequest, CallRows, Kinds, Sessions, NoSession

LEMMA EndOfACall ==
    ASSUME req \in [Calls -> CallRows], NEW r \in Calls, NEW pc \in CallSteps
    PROVE  IsAStep(EndOf(r, pc), r, pc) /\ EndOf(r, pc)[r].kind = "read"
<1> DEFINE one == Over(pc)
<1>1. one \in CallRows /\ one.pc = pc /\ one.kind = "read"
  BY OverIs
<1>2. EndOf(r, pc) = [req EXCEPT ![r] = one]
  BY DEF EndOf
<1> HIDE DEF one
<1> QED
  BY <1>1, <1>2 DEF IsAStep

\* The dialog closes.
Outcomes == {"sent again", "refused"}
EndsAs(requests, outcome) ==
    /\ req' \in [Calls -> CallRows]
    /\ \A r \in Calls : requests[r].pc # "held" => req'[r] = requests[r]
    /\ \A r \in Calls : requests[r].pc = "held" => req'[r].pc = outcome

LEMMA DialogIsDeclined ==
    ASSUME NEW requests \in [Calls -> CallRows], req' = CloseDialog(requests, FALSE)
    PROVE  EndsAs(requests, "refused")
<1>1. ASSUME NEW r \in Calls
      PROVE  /\ req'[r] \in CallRows /\ (requests[r].pc # "held" => req'[r] = requests[r])
             /\ requests[r].pc = "held" => req'[r].pc = "refused"
  <2> DEFINE one == requests[r]
             refused == Over("refused")
  <2>1. one \in CallRows
    BY <1>1
  <2>2. req'[r] = IF one.pc # "held" THEN one ELSE refused
    BY <1>1 DEF CloseDialog
  <2> HIDE DEF one
  <2>3. refused \in CallRows /\ refused.pc = "refused"
    BY OverIs DEF CallSteps
  <2> HIDE DEF refused
  <2> QED
    BY <2>1, <2>2, <2>3 DEF one
<1>2. req' = [r \in Calls |-> req'[r]]
  BY DEF CloseDialog
<1> QED
  BY <1>1, <1>2 DEF EndsAs

LEMMA DialogIsConfirmed ==
    ASSUME NEW requests \in [Calls -> CallRows], req' = CloseDialog(requests, TRUE), cookie \in Sessions
    PROVE  EndsAs(requests, "sent again")
<1>1. ASSUME NEW r \in Calls
      PROVE  /\ req'[r] \in CallRows /\ (requests[r].pc # "held" => req'[r] = requests[r])
             /\ requests[r].pc = "held" => req'[r].pc = "sent again"
  <2> DEFINE one == requests[r]
             again == [one EXCEPT !.pc = "sent again"]
             by == [again EXCEPT !.as = cookie]
  <2>1. one \in CallRows
    BY <1>1
  <2>2. req'[r] = IF one.pc # "held" THEN one ELSE by
    BY <1>1 DEF CloseDialog
  <2> HIDE DEF one
  <2>3. again \in CallRows /\ again.pc = "sent again"
    BY <2>1 DEF CallRows, CallSteps, InFlight
  <2> HIDE DEF again
  <2>4. by \in CallRows /\ by.pc = "sent again"
    BY <2>3 DEF CallRows
  <2> HIDE DEF by
  <2> QED
    BY <2>1, <2>2, <2>4 DEF one
<1>2. req' = [r \in Calls |-> req'[r]]
  BY DEF CloseDialog
<1> QED
  BY <1>1, <1>2 DEF EndsAs

LEMMA StaysAsItWas == ASSUME WebInv, NEW r \in Calls, req'[r] = req[r] PROVE GoesOn(r)
<1> DEFINE one == req[r]
<1>1. req'[r] = one /\ (one.pc = "timed out" => Reads(one.kind))
  BY DEF WebInv
<1> HIDE DEF one
<1>2. one.pc = "held" => one.pc # "sent again"
  OBVIOUS
<1> QED
  BY <1>1, <1>2 DEF GoesOn, one

LEMMA AllGoOn ==
    ASSUME cookie' \in Sessions, me' \in Accounts \cup {Nobody}, req' \in [Calls -> CallRows],
           dialog' \in {"closed", "open", "signing in"}, (\E r \in Calls : req'[r].pc = "held") => dialog' # "closed",
           dialog' = "signing in" <=> restore' = "dialog", \A r \in Calls : GoesOn(r)
    PROVE  WebInv' /\ HeldIsAnswered
<1>1. \A r \in Calls : req'[r].pc = "timed out" => Reads(req'[r].kind)
  BY DEF GoesOn
<1>2. WebInv'
  BY <1>1 DEF WebInv
<1>3. HeldIsAnswered
  BY DEF GoesOn, HeldIsAnswered
<1> QED
  BY <1>2, <1>3

LEMMA WebStep == ~SlowToSignIn /\ WebInv /\ [WebSessionNext]_webVars => WebInv' /\ HeldIsAnswered
<1> SUFFICES ASSUME ~SlowToSignIn, WebInv, [WebSessionNext]_webVars PROVE WebInv' /\ HeldIsAnswered
  OBVIOUS
<1>t. /\ cookie \in Sessions /\ me \in Accounts \cup {Nobody} /\ req \in [Calls -> CallRows]
      /\ dialog \in {"closed", "open", "signing in"}
      /\ (\E r \in Calls : req[r].pc = "held") => dialog # "closed"
      /\ dialog = "signing in" <=> restore = "dialog"
  BY DEF WebInv
\* Nothing that was asked for moves.
<1>1. ASSUME UNCHANGED req, cookie' \in Sessions, me' \in Accounts \cup {Nobody},
             dialog' \in {"closed", "open", "signing in"}, dialog' = "closed" => dialog = "closed",
             dialog' = "signing in" <=> restore' = "dialog"
      PROVE  WebInv' /\ HeldIsAnswered
  <2>1. \A r \in Calls : GoesOn(r)
    BY <1>1, StaysAsItWas
  <2> QED
    BY <1>1, <1>t, <2>1, AllGoOn
\* A call that was not held goes a step further.
<1>2. ASSUME UNCHANGED <<cookie, dialog, restore>>, me' \in Accounts \cup {Nobody},
             NEW r \in Calls, NEW one \in CallRows, req' = [req EXCEPT ![r] = one],
             req[r].pc # "held", one.pc \notin {"held", "timed out"}
      PROVE  WebInv' /\ HeldIsAnswered
  <2>1. req' \in [Calls -> CallRows] /\ req'[r] = one /\ \A s \in Calls : s # r => req'[s] = req[s]
    BY <1>2, <1>t
  <2>2. GoesOn(r)
    BY <1>2, <2>1 DEF GoesOn
  <2>3. \A s \in Calls : GoesOn(s)
    BY <2>1, <2>2, StaysAsItWas
  <2>4. (\E s \in Calls : req'[s].pc = "held") => dialog' # "closed"
    BY <1>2, <1>t, <2>1
  <2> QED
    BY <1>2, <1>t, <2>1, <2>3, <2>4, AllGoOn
\* The dialog closes, with a call or none a step further.
<1>3. ASSUME NEW requests \in [Calls -> CallRows], NEW outcome \in Outcomes, EndsAs(requests, outcome),
             UNCHANGED cookie, dialog' = "closed", restore' # "dialog", me' \in Accounts \cup {Nobody},
             outcome = "sent again" => dialog = "signing in" /\ cookie.who \in live,
             \A r \in Calls : requests[r] = req[r] \/ (req[r].pc # "held" /\ requests[r].pc \notin {"held", "timed out"})
      PROVE  WebInv' /\ HeldIsAnswered
  <2>1. /\ req' \in [Calls -> CallRows] /\ \A r \in Calls : requests[r].pc # "held" => req'[r] = requests[r]
        /\ \A r \in Calls : requests[r].pc = "held" => req'[r].pc = outcome
    BY <1>3 DEF EndsAs
  <2>2. ASSUME NEW r \in Calls PROVE GoesOn(r) /\ req'[r].pc # "held"
    <3>1. CASE requests[r].pc = "held"
      BY <1>3, <2>1, <2>2, <3>1 DEF GoesOn, Outcomes
    <3>2. CASE requests[r].pc # "held" /\ requests[r] = req[r]
      BY <2>1, <2>2, <3>2, StaysAsItWas
    <3>3. CASE requests[r].pc # "held" /\ req[r].pc # "held" /\ requests[r].pc \notin {"held", "timed out"}
      BY <2>1, <2>2, <3>3 DEF GoesOn
    <3> QED
      BY <1>3, <2>2, <3>1, <3>2, <3>3
  <2> QED
    BY <1>3, <1>t, <2>1, <2>2, AllGoOn
\* A call that was not held is over, and the page under the dialog may change with it.
<1>4. ASSUME NEW r \in Calls, NEW pc \in CallSteps \ {"held", "timed out"}, req[r].pc # "held",
             NEW after, after = EndOf(r, pc), UNCHANGED cookie, me' \in Accounts \cup {Nobody},
             (req' = after /\ UNCHANGED <<dialog, restore>>) \/ Dismissed(after)
      PROVE  WebInv' /\ HeldIsAnswered
  <2>1. /\ after \in [Calls -> CallRows] /\ after[r] \in CallRows /\ after[r].pc = pc
        /\ \A s \in Calls : s # r => after[s] = req[s]
    <3>1. IsAStep(after, r, pc)
      BY <1>4, <1>t, EndOfACall
    <3> QED
      BY <3>1 DEF IsAStep
  <2>2. CASE req' = after /\ UNCHANGED <<dialog, restore>>
    <3>1. req' = [req EXCEPT ![r] = after[r]]
      BY <1>t, <2>1, <2>2
    <3> QED
      BY <1>2, <1>4, <2>1, <2>2, <3>1
  <2>3. CASE Dismissed(after)
    <3>1. req' = CloseDialog(after, FALSE) /\ dialog' = "closed" /\ restore' # "dialog"
      BY <2>3 DEF Dismissed
    <3>2. EndsAs(after, "refused")
      BY <2>1, <3>1, DialogIsDeclined
    <3> QED
      BY <1>3, <1>4, <2>1, <3>1, <3>2 DEF Outcomes
  <2> QED
    BY <1>4, <2>2, <2>3
<1>6. ASSUME NEW who \in Accounts, SignInAs(who) \/ SignInAgain(who) \/ SessionEnds(who) PROVE WebInv' /\ HeldIsAnswered
  <2>1. [who |-> who, fresh |-> TRUE] \in Sessions
    BY <1>6 DEF Sessions
  <2> QED
    BY <1>1, <1>6, <1>t, <2>1 DEF SignInAs, SignInAgain, SessionEnds
<1>7. CASE ContinueToApp \/ Visit \/ SessionAges \/ UNCHANGED webVars
  <2>1. [cookie EXCEPT !.fresh = FALSE] \in Sessions
    BY <1>t DEF Sessions
  <2> QED
    BY <1>1, <1>7, <1>t, <2>1 DEF ContinueToApp, Visit, SessionAges, webVars
<1>8. CASE Decline
  <2>1. req' = CloseDialog(req, FALSE) /\ dialog' = "closed" /\ restore' # "dialog" /\ UNCHANGED <<cookie, me>>
    BY <1>8 DEF Decline, Dismissed
  <2>2. EndsAs(req, "refused")
    BY <1>t, <2>1, DialogIsDeclined
  <2> QED
    BY <1>3, <1>t, <2>1, <2>2 DEF Outcomes
<1>9. ASSUME NEW answered \in BOOLEAN, Restored(answered) PROVE WebInv' /\ HeldIsAnswered
  <2> DEFINE known == IF answered /\ cookie.who \in live THEN cookie.who ELSE Nobody
  <2>1. known \in Accounts \cup {Nobody}
    BY <1>t DEF Sessions
  <2>2. restore' = "none" /\ me' = known /\ UNCHANGED <<cookie, live>>
    BY <1>9 DEF Restored
  <2>3. known # Nobody => cookie.who \in live
    OBVIOUS
  <2>4. \/ UNCHANGED <<dialog, req>> /\ restore # "dialog"
        \/ dialog' = "closed" /\ req' = CloseDialog(req, FALSE)
        \/ restore = "dialog" /\ known = Nobody /\ dialog' = "open" /\ UNCHANGED req
        \/ restore = "dialog" /\ known # Nobody /\ dialog' = "closed" /\ req' = CloseDialog(req, TRUE)
    BY <1>9 DEF Restored
  <2> HIDE DEF known
  <2>5. CASE UNCHANGED <<dialog, req>> /\ restore # "dialog"
    BY <1>1, <1>t, <2>1, <2>2, <2>5
  <2>6. CASE dialog' = "closed" /\ req' = CloseDialog(req, FALSE)
    <3>1. EndsAs(req, "refused")
      BY <1>t, <2>6, DialogIsDeclined
    <3> QED
      BY <1>3, <1>t, <2>1, <2>2, <2>6, <3>1 DEF Outcomes
  <2>7. CASE restore = "dialog" /\ known = Nobody /\ dialog' = "open" /\ UNCHANGED req
    BY <1>1, <1>t, <2>1, <2>2, <2>7
  <2>8. CASE restore = "dialog" /\ known # Nobody /\ dialog' = "closed" /\ req' = CloseDialog(req, TRUE)
    <3>1. EndsAs(req, "sent again")
      BY <1>t, <2>8, DialogIsConfirmed
    <3> QED
      BY <1>3, <1>t, <2>1, <2>2, <2>3, <2>8, <3>1 DEF Outcomes
  <2> QED
    BY <2>4, <2>5, <2>6, <2>7, <2>8
<1>10. ASSUME NEW arrives \in BOOLEAN, Logout(arrives) PROVE WebInv' /\ HeldIsAnswered
  <2>1. UNCHANGED <<req, dialog, restore>> /\ me' = Nobody /\ cookie' \in {cookie, NoSession}
    BY <1>10 DEF Logout
  <2>2. NoSession \in Sessions
    BY DEF NoSession, Sessions
  <2> QED
    BY <1>1, <1>t, <2>1, <2>2
<1>11. ASSUME NEW r \in Calls, NEW kind \in Kinds, Ask(r, kind) PROVE WebInv' /\ HeldIsAnswered
  <2> DEFINE v1 == [NoRequest EXCEPT !.pc = "sent"]
             v2 == [v1 EXCEPT !.kind = kind]
             v3 == [v2 EXCEPT !.asked = me]
             v4 == [v3 EXCEPT !.as = cookie]
  <2>1. /\ req' = [req EXCEPT ![r] = v4] /\ req[r].pc # "held" /\ UNCHANGED <<cookie, me, dialog, restore>>
    BY <1>11 DEF Ask
  <2>2. v1 \in CallRows /\ v1.pc = "sent"
    BY NoRequestIs DEF CallRows, CallSteps, InFlight
  <2> HIDE DEF v1
  <2>3. v2 \in CallRows /\ v2.pc = "sent"
    BY <1>11, <2>2 DEF CallRows
  <2> HIDE DEF v2
  <2>4. v3 \in CallRows /\ v3.pc = "sent"
    BY <1>t, <2>3 DEF CallRows
  <2> HIDE DEF v3
  <2>5. v4 \in CallRows /\ v4.pc = "sent"
    BY <1>t, <2>4 DEF CallRows
  <2> HIDE DEF v4
  <2> QED
    BY <1>2, <1>11, <1>t, <2>1, <2>5
<1>12. ASSUME NEW r \in Calls, Unauthorised(r) PROVE WebInv' /\ HeldIsAnswered
  <2>1. req[r].pc # "held" /\ "refused" \in CallSteps \ {"held", "timed out"} /\ UNCHANGED cookie
    BY <1>12 DEF Unauthorised, InFlight, CallSteps
  <2> DEFINE after == EndOf(r, "refused")
  <2>2. me' \in {me, Nobody} /\ ((req' = after /\ UNCHANGED <<dialog, restore>>) \/ Dismissed(after))
    BY <1>12 DEF Unauthorised, PageChanges, EndOf
  <2> HIDE DEF after
  <2> QED
    BY <1>4, <1>12, <1>t, <2>1, <2>2 DEF after
<1>13. ASSUME NEW r \in Calls, AsksAgain(r) PROVE WebInv' /\ HeldIsAnswered
  <2>1. /\ req' = WithStep(r, "held") /\ req[r].pc = "sent" /\ "held" \in CallSteps
        /\ dialog' = IF dialog = "closed" THEN "open" ELSE dialog
        /\ UNCHANGED <<cookie, me, restore>>
    BY <1>13 DEF AsksAgain, Held, CallSteps, WithStep
  <2>2. /\ req' \in [Calls -> CallRows] /\ req'[r].pc = "held"
        /\ \A s \in Calls : s # r => req'[s] = req[s]
    <3>1. IsAStep(req', r, "held")
      BY <1>13, <1>t, <2>1, StepOfACall
    <3> QED
      BY <3>1 DEF IsAStep
  <2>3. GoesOn(r)
    BY <2>1, <2>2 DEF GoesOn
  <2>4. \A s \in Calls : GoesOn(s)
    BY <2>2, <2>3, StaysAsItWas
  <2> QED
    BY <1>t, <2>1, <2>2, <2>4, AllGoOn
<1>14. ASSUME NEW r \in Calls, RefusedAgain(r) PROVE WebInv' /\ HeldIsAnswered
  <2>1. /\ req[r].pc # "held" /\ "refused" \in CallSteps \ {"held", "timed out"}
        /\ req' = EndOf(r, "refused") /\ UNCHANGED <<cookie, me, dialog, restore>>
    BY <1>14 DEF RefusedAgain, CallSteps, EndOf
  <2> QED
    BY <1>4, <1>14, <1>t, <2>1
<1>15. ASSUME NEW r \in Calls, Done(r) PROVE WebInv' /\ HeldIsAnswered
  <2> DEFINE pc == IF req[r].kind = "key" /\ req[r].as.who # req[r].asked THEN "refused" ELSE "done"
             after == EndOf(r, pc)
  <2>1. req[r].pc # "held" /\ pc \in CallSteps \ {"held", "timed out"} /\ UNCHANGED cookie
    BY <1>15 DEF Done, InFlight, CallSteps
  <2>2. me' \in {me, Nobody} /\ ((req' = after /\ UNCHANGED <<dialog, restore>>) \/ Dismissed(after))
    BY <1>15 DEF Done, PageChanges, EndOf
  <2> HIDE DEF pc, after
  <2> QED
    BY <1>4, <1>15, <1>t, <2>1, <2>2 DEF after
\* Only a read is given up on, and none that is held.
<1>16. ASSUME NEW r \in Calls, TimesOut(r) PROVE WebInv' /\ HeldIsAnswered
  <2>1. /\ Reads(req[r].kind) /\ req[r].pc \in InFlight /\ "timed out" \in CallSteps
        /\ req' = EndOf(r, "timed out") /\ UNCHANGED <<cookie, me, dialog, restore>>
    BY <1>16 DEF TimesOut, GivesUpOn, CallSteps, EndOf
  <2>2. /\ req' \in [Calls -> CallRows] /\ req'[r].pc = "timed out" /\ Reads(req'[r].kind)
        /\ \A s \in Calls : s # r => req'[s] = req[s]
    <3>1. IsAStep(req', r, "timed out") /\ req'[r].kind = "read"
      BY <1>16, <1>t, <2>1, EndOfACall
    <3> QED
      BY <3>1 DEF IsAStep, Reads
  <2>3. GoesOn(r)
    BY <2>1, <2>2 DEF GoesOn, InFlight
  <2>4. \A s \in Calls : GoesOn(s)
    BY <2>2, <2>3, StaysAsItWas
  <2> QED
    BY <1>t, <2>1, <2>2, <2>4, AllGoOn
<1> QED
  BY <1>6, <1>7, <1>8, <1>9, <1>10, <1>11, <1>12, <1>13, <1>14, <1>15, <1>16 DEF WebSessionNext

LEMMA WebInitially == WebSessionInit => WebInv
<1> SUFFICES ASSUME WebSessionInit PROVE WebInv
  OBVIOUS
<1>1. cookie \in Sessions /\ req \in [Calls -> CallRows] /\ \A r \in Calls : req[r].pc = "none"
  BY NoRequestIs DEF WebSessionInit, NoSession, Sessions
<1> QED
  BY <1>1 DEF WebSessionInit, WebInv

GetRows == [what : PageParts, of : Pages, age : 0..GetLimit]

\* What is not of the route was asked for before the route was what it is.
DetailInv ==
    /\ route \in Pages /\ display \in [PageParts -> Pages \cup {Nothing}]
    /\ gets \subseteq GetRows /\ onRoute \in Nat
    /\ LoadingEnds
    /\ \A get \in gets : get.of # route => onRoute <= get.age

LEMMA AskedAre ==
    ASSUME NEW page \in Pages
    PROVE  /\ Asked(page) \subseteq GetRows /\ (\A get \in Asked(page) : get.of = page)
           /\ \E get \in Asked(page) : get.what = "check"
<1>1. Asked(page) = {[what |-> what, of |-> page, age |-> 0] : what \in PageParts} /\ 0 \in 0..GetLimit
  BY CheckDetailAssumption DEF Asked
<1>2. ASSUME NEW what \in PageParts PROVE [what |-> what, of |-> page, age |-> 0] \in GetRows
  BY <1>1, <1>2 DEF GetRows
<1>3. \E get \in Asked(page) : get.what = "check"
  <2>1. [what |-> "check", of |-> page, age |-> 0] \in Asked(page)
    BY <1>1 DEF PageParts
  <2> QED
    BY <2>1
<1>4. \A get \in Asked(page) : get.of = page
  BY <1>1
<1>5. Asked(page) \subseteq GetRows
  BY <1>1, <1>2
<1> QED
  BY <1>3, <1>4, <1>5

LEMMA DetailStep == DetailInv /\ [CheckDetailNext]_detailVars => DetailInv' /\ LateAnswersEnd
<1> SUFFICES ASSUME DetailInv, [CheckDetailNext]_detailVars PROVE DetailInv' /\ LateAnswersEnd
  OBVIOUS
<1>t. /\ route \in Pages /\ display \in [PageParts -> Pages \cup {Nothing}]
      /\ gets \subseteq GetRows /\ onRoute \in Nat
      /\ busy => \E get \in gets : get.what = "check"
      /\ \A get \in gets : get.of # route => onRoute <= get.age
  BY DEF DetailInv, LoadingEnds
<1>1. ASSUME NEW page \in Pages, GoTo(page) PROVE DetailInv' /\ LateAnswersEnd
  <2>1. /\ route' = page /\ gets' = gets \cup Asked(page) /\ onRoute' = 0 /\ UNCHANGED display
    BY <1>1 DEF GoTo
  <2>2. \A get \in gets' : get.of # route' => onRoute' <= get.age
    <3>1. \A get \in GetRows : get.age \in Nat
      BY CheckDetailAssumption DEF GetRows
    <3> QED
      BY <1>1, <1>t, <2>1, <3>1, AskedAre
  <2>3. gets' \subseteq GetRows /\ \E get \in gets' : get.what = "check"
    BY <1>1, <1>t, <2>1, AskedAre
  <2> QED
    BY <1>1, <1>t, <2>1, <2>2, <2>3 DEF DetailInv, LoadingEnds, LateAnswersEnd
\* A GET is over.
<1>2. ASSUME NEW get \in gets, gets' = gets \ {get}, UNCHANGED <<route, onRoute>>,
             display' \in {display, [display EXCEPT ![get.what] = get.of]},
             IF get.what = "check" THEN busy' = FALSE ELSE busy' = busy
      PROVE  DetailInv' /\ LateAnswersEnd
  <2>1. get.what \in PageParts /\ get.of \in Pages /\ get.age <= GetLimit /\ get.age \in Nat /\ GetLimit \in Nat
    BY <1>2, <1>t, CheckDetailAssumption DEF GetRows
  <2>2. display' \in [PageParts -> Pages \cup {Nothing}]
    BY <1>2, <1>t, <2>1
  <2>3. LateAnswersEnd
    <3> SUFFICES ASSUME NEW what \in PageParts, display'[what] # display[what], display'[what] # route PROVE onRoute <= GetLimit
      BY DEF LateAnswersEnd
    <3>1. display'[what] = get.of
      BY <1>2, <1>t, <2>1
    <3>2. onRoute <= get.age
      BY <1>2, <1>t, <3>1
    <3> QED
      BY <1>t, <2>1, <3>2
  <2>4. LoadingEnds'
    BY <1>2, <1>t DEF LoadingEnds
  <2> QED
    BY <1>2, <1>t, <2>2, <2>3, <2>4 DEF DetailInv
<1>3. ASSUME NEW get \in gets, Arrives(get) \/ GetFails(get) PROVE DetailInv' /\ LateAnswersEnd
  <2>1. /\ gets' = gets \ {get} /\ UNCHANGED <<route, onRoute>>
        /\ display' \in {display, [display EXCEPT ![get.what] = get.of]}
        /\ IF get.what = "check" THEN busy' = FALSE ELSE busy' = busy
    BY <1>3 DEF Arrives, GetFails
  <2> QED
    BY <1>2, <1>3, <2>1
<1>4. CASE SendAct \/ UNCHANGED detailVars
  BY <1>4, <1>t DEF SendAct, detailVars, DetailInv, LoadingEnds, LateAnswersEnd
<1>5. ASSUME NEW page \in Pages, ActAnswered(page) PROVE DetailInv' /\ LateAnswersEnd
  <2>1. /\ page \in acts /\ acts' = acts \ {page} /\ UNCHANGED <<route, busy, gets, onRoute>>
        /\ display' \in {display, [display EXCEPT !["check"] = page]}
    BY <1>5 DEF ActAnswered
  <2>2. display' \in [PageParts -> Pages \cup {Nothing}]
    BY <1>5, <1>t, <2>1
  <2>3. LateAnswersEnd
    BY <1>t, <2>1 DEF LateAnswersEnd
  <2> QED
    BY <1>t, <2>1, <2>2, <2>3 DEF DetailInv, LoadingEnds
<1>6. CASE RefreshTimer
  <2> DEFINE Older(get) == [get EXCEPT !.age = IF @ = GetLimit THEN @ ELSE @ + 1]
  <2>1. /\ gets' = {Older(get) : get \in gets} \cup Asked(route) /\ UNCHANGED <<route, display, busy>>
        /\ onRoute' = IF onRoute > GetLimit THEN onRoute ELSE onRoute + 1
        /\ \A get \in gets : get.age # GetLimit
    BY <1>6 DEF RefreshTimer, OverdueGet
  <2>2. ASSUME NEW get \in gets
        PROVE  /\ Older(get) \in GetRows /\ Older(get).what = get.what /\ Older(get).of = get.of
               /\ Older(get).age = get.age + 1
    <3>1. get \in GetRows /\ get.age \in 0..GetLimit /\ get.age # GetLimit
      BY <1>t, <2>1, <2>2 DEF GetRows
    <3>2. get.age + 1 \in 0..GetLimit
      BY <3>1, CheckDetailAssumption
    <3>3. Older(get) = [get EXCEPT !.age = get.age + 1]
      BY <3>1 DEF GetRows
    <3> QED
      BY <3>1, <3>2, <3>3 DEF GetRows
  <2> HIDE DEF Older
  <2>3. gets' \subseteq GetRows
    BY <1>t, <2>1, <2>2, AskedAre
  <2>4. LoadingEnds'
    BY <1>t, <2>1, <2>2, AskedAre DEF LoadingEnds
  <2>5. ASSUME NEW later \in gets', later.of # route PROVE onRoute' <= later.age
    <3>1. PICK get \in gets : later = Older(get)
      BY <1>t, <2>1, <2>5, AskedAre
    <3>2. onRoute <= get.age /\ later.age = get.age + 1 /\ get.age \in 0..GetLimit
      BY <1>t, <2>2, <2>5, <3>1 DEF GetRows
    <3> QED
      BY <1>t, <2>1, <3>2, CheckDetailAssumption
  <2>6. onRoute' \in Nat
    BY <1>t, <2>1
  <2> QED
    BY <1>t, <2>1, <2>3, <2>4, <2>5, <2>6 DEF DetailInv, LateAnswersEnd
<1> QED
  BY <1>1, <1>3, <1>4, <1>5, <1>6 DEF CheckDetailNext

LEMMA DetailInitially == CheckDetailInit => DetailInv
BY AskedAre DEF CheckDetailInit, DetailInv, LoadingEnds

===============================================================================
