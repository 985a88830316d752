----------------------------- MODULE Declarations -----------------------------
(***************************************************************************)
(* What the client libraries declare, and what the server makes of it. A   *)
(* declaration is the whole list of an environment: jobs it leaves out are *)
(* orphaned there, and one job the server cannot evaluate has all of it    *)
(* refused. Jobs kept apart by instance are declared in an environment of  *)
(* the instance.                                                           *)
(***************************************************************************)
EXTENDS Integers, Sequences, FiniteSets

CONSTANTS
    Jobs,         \* what the application schedules
    Unsupported,  \* jobs with an expression the server cannot evaluate
    PerInstance,  \* jobs that match the per-instance patterns
    SingleRun,    \* jobs each run of which one instance takes (Celery, onOneServer)
    Instances,    \* running copies of the application
    Named,        \* the instances whose name is set and fits
    MaxFaults     \* bound: calls that fail, answers that are lost

Shared == "shared"

\* The environment of an instance has a name of its own.
ASSUME DeclarationAssumption ==
    /\ Unsupported \subseteq Jobs /\ PerInstance \subseteq Jobs /\ SingleRun \subseteq Jobs
    /\ Named \subseteq Instances /\ MaxFaults \in Nat
    /\ Shared \notin Instances

VARIABLES
    checks,  \* the server's automatic checks, by environment and job
    faults

Environments == {Shared} \cup Instances
CheckStates == {"none", "live", "orphaned"}

DeclarationsTypeOK ==
    /\ checks \in [Environments -> [Jobs -> CheckStates]]
    /\ faults \in 0..MaxFaults

DeclarationsInit ==
    /\ checks = [e \in Environments |-> [j \in Jobs |-> "none"]]
    /\ faults = 0

Fault == faults < MaxFaults /\ faults' = faults + 1

\* What is declared where, when `apart` is kept apart for instance i.
Groups(i, jobs, apart) ==
    [e \in Environments |-> CASE e = Shared -> jobs \ apart
                              [] e = i /\ e # Shared -> apart
                              [] OTHER -> {}]

\* Mutant: a declaration orphans whatever it leaves out.
PrunedEverywhere(e, jobs) ==
    [env \in Environments |-> [job \in Jobs |->
        CASE env = e /\ job \in jobs -> "live"
          [] ~(env = e /\ job \in jobs) /\ checks[env][job] = "live" -> "orphaned"
          [] OTHER -> checks[env][job]]]

Pruned(e, jobs) ==
    [checks EXCEPT ![e] = [job \in Jobs |->
        CASE job \in jobs -> "live"
          [] job \notin jobs /\ @[job] = "live" -> "orphaned"
          [] OTHER -> @[job]]]

\* One declaration: accepted, accepted but the answer is lost, or not accepted.
Declaration(e, jobs, answered) ==
    \/ answered /\ jobs \cap Unsupported = {} /\ checks' = Pruned(e, jobs) /\ UNCHANGED faults
    \/ ~answered /\ jobs \cap Unsupported = {} /\ checks' = Pruned(e, jobs) /\ Fault
    \/ ~answered /\ jobs \cap Unsupported # {} /\ UNCHANGED <<checks, faults>>
    \/ ~answered /\ UNCHANGED checks /\ Fault

\* Everything the instance schedules is watched where it belongs.
Watched(i, groups) == \A e \in Environments : \A j \in groups[e] : checks[e][j] = "live"
===============================================================================
