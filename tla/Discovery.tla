------------------------------ MODULE Discovery -------------------------------
(***************************************************************************)
(* What the client libraries make of the schedule they find: one entry for *)
(* each job, with a schedule the server evaluates. An entry is a job, the  *)
(* kind of schedule it is on, how often it fires and whether its name is   *)
(* longer than the server takes.                                           *)
(***************************************************************************)
EXTENDS Integers, Sequences, FiniteSets, SequencesExt

CONSTANTS
    Scheduled,    \* jobs, as the application identifies them
    MaxEntries,   \* bound: entries of the schedule
    MaxField      \* bound: highest value of a cron field

ASSUME DiscoveryAssumption == MaxEntries \in Nat /\ MaxField \in Nat \ {0}

VARIABLES
    listing,  \* the application's schedule, in the order it is listed
    field     \* the values one field of a cron schedule takes

discoveryVars == <<listing, field>>

Least == 2        \* LIMITS.periodSecondsMin
Gaps == 1..3
Kinds == {"cron", "interval", "cron too rich", "condition"}
Entries == [job : Scheduled, kind : Kinds, gap : Gaps, long : BOOLEAN]
Nobody == [job |-> "none", kind |-> "condition", gap |-> 1, long |-> FALSE]

DiscoveryTypeOK ==
    /\ listing \in Seq(Entries) /\ Len(listing) <= MaxEntries
    /\ field \subseteq 0..MaxField

DiscoveryInit == listing = <<>> /\ field = {}

AddEntry ==
    /\ field = {} /\ Len(listing) < MaxEntries
    /\ \E entry \in Entries : listing' = Append(listing, entry)
    /\ UNCHANGED field

AddValue ==
    /\ listing = <<>>
    /\ \E value \in 0..MaxField \ field : field' = field \cup {value}
    /\ UNCHANGED listing

DiscoveryNext == AddEntry \/ AddValue
DiscoverySpec == DiscoveryInit /\ [][DiscoveryNext]_discoveryVars

(***************************************************************************)
(* One schedule for each job: Better(kept, entry) tells when a further     *)
(* entry of the same job replaces the one kept.                            *)
(***************************************************************************)
Chosen(entries, Readable(_), Better(_, _)) ==
    FoldLeft(LAMBDA chosen, entry :
                IF Readable(entry) /\ (chosen[entry.job] = Nobody \/ Better(chosen[entry.job], entry))
                THEN [chosen EXCEPT ![entry.job] = entry] ELSE chosen,
             [job \in Scheduled |-> Nobody], entries)

Declared(chosen) == {chosen[job] : job \in Scheduled} \ {Nobody}

Supported(entry) == entry.kind # "cron too rich"
IsSchedule(entry) == entry.kind # "condition"

\* Mutant: the first one stays.
CeleryFirst(kept, entry) == FALSE
\* CeleryIntegration.discover: the entry that fires most often.
CeleryBetter(kept, entry) == entry.gap < kept.gap
CeleryDiscovered(entries) == Declared(Chosen(entries, IsSchedule, CeleryBetter))

\* Mutant: a task that may also depend on a condition is watched.
LaravelReadsAll(entry) == IsSchedule(entry)
\* ScheduleReader.tasks: conditions and what the server cannot evaluate are left out first.
LaravelReadable(entry) == entry.kind = "cron"
LaravelBetter(kept, entry) == entry.gap < kept.gap
LaravelTasksOf(entries) ==
    {[entry EXCEPT !.long = FALSE] : entry \in Declared(Chosen(entries, LaravelReadable, LaravelBetter))}

\* ScheduledTaskDiscoverer.discover: a method scheduled twice is one check, the first.
SpringBetter(kept, entry) == FALSE
SpringDiscovered(entries) == Declared(Chosen(entries, IsSchedule, SpringBetter))

\* Mutant: any interval replaces what is kept.
QuartzShortest(kept, entry) == entry.kind = "interval" /\ entry.gap < kept.gap
\* QuartzJobDiscoverer.describe: the shortest interval, but the first entry decides
\* whether the job is on a cron expression or an interval.
QuartzBetter(kept, entry) == entry.kind = "interval" /\ kept.kind = "interval" /\ entry.gap < kept.gap
QuartzDiscovered(entries) == Declared(Chosen(entries, IsSchedule, QuartzBetter))

\* Mutant: by the order they are listed in.
SortsAsListed(before, after) == FALSE
\* APSchedulerIntegration.discover: jobs that run the same function without an id are
\* told apart by the order of their triggers.
Sorts(before, after) == before.gap < after.gap
Position(entries, n) ==
    Cardinality({m \in DOMAIN entries : /\ entries[m].job = entries[n].job /\ IsSchedule(entries[m])
                                        /\ \/ Sorts(entries[m], entries[n])
                                           \/ ~Sorts(entries[n], entries[m]) /\ m < n}) + 1
APSchedulerKeys(entries) ==
    {<<entries[n].job, Position(entries, n), entries[n].gap>> : n \in {m \in DOMAIN entries : IsSchedule(entries[m])}}

\* Mutant.
Unclamped(entry) == entry
\* SilenceWatchClient._job and appendJob: never below the minimum.
Clamped(entry) == IF entry.kind = "interval" /\ entry.gap < Least THEN [entry EXCEPT !.gap = Least] ELSE entry
\* Mutant: whatever is found is declared.
PayloadOfAll(found) == {Clamped(entry) : entry \in found}
\* Monitor._supported_jobs and SilenceWatchRegistrar.discover, then the payload.
Payload(found) == {Clamped(entry) : entry \in {e \in found : Supported(e)}}
(***************************************************************************)
(* cron.compact: a set of values as one field of a cron expression.        *)
(***************************************************************************)
Steps(low, step) == {low + step * n : n \in 0..MaxField} \cap 0..MaxField
Runs(values) == {run \in values \X values : /\ run[1] <= run[2] /\ run[1]..run[2] \subseteq values
                                            /\ run[1] - 1 \notin values /\ run[2] + 1 \notin values}
Second(values) == CHOOSE v \in values : Cardinality({w \in values : w < v}) = 1
\* Mutant: any even spacing will do.
EveryFromAnywhere(values) ==
    Cardinality(values) > 2 /\ \E low \in values : values = Steps(low, Second(values) - low) /\ Second(values) > low
EveryFrom(values) == 0 \in values /\ Cardinality(values) > 2 /\ values = Steps(0, Second(values))
compact(values) ==
    CASE values = 0..MaxField -> [every |-> 1, runs |-> {}]
      [] values # 0..MaxField /\ EveryFrom(values) -> [every |-> Second(values), runs |-> {}]
      [] OTHER -> [every |-> 0, runs |-> Runs(values)]

\* What cron makes of the field.
Matches(written) == IF written.every > 0 THEN Steps(0, written.every) ELSE UNION {run[1]..run[2] : run \in written.runs}

(***************************************************************************)
(* The server: CheckSyncService and syncCheckSchema refuse the whole of a  *)
(* declaration for one entry.                                              *)
(***************************************************************************)
Accepted(payload) ==
    \A entry \in payload :
        /\ entry.kind \in {"cron", "interval"} /\ (entry.kind = "interval" => entry.gap >= Least) /\ ~entry.long
        /\ \A other \in payload : other.job = entry.job => other = entry

(***************************************************************************)
(* Properties.                                                             *)
(***************************************************************************)
Usual(entries) == \A n \in DOMAIN entries : ~entries[n].long
Watchable(entries, Readable(_)) == {n \in DOMAIN entries : Readable(entries[n])}

\* cron.py: "one exotic schedule would cost an application all of its monitoring";
\* what is declared, by each library, is never refused.
NothingIsRefused ==
    Usual(listing) => \A found \in {CeleryDiscovered(listing), LaravelTasksOf(listing),
                                    SpringDiscovered(listing), QuartzDiscovered(listing)} : Accepted(Payload(found))

\* CeleryIntegration and ScheduleReader: a job is declared "from the one that fires most
\* often, since that is the deadline a missed run breaches first", Quartz's among its
\* intervals; no job that can be watched is left out.
TightestIsDeclared ==
    /\ \A n \in Watchable(listing, IsSchedule) :
        \E entry \in CeleryDiscovered(listing) : entry.job = listing[n].job /\ entry.gap <= listing[n].gap
    /\ \A n \in Watchable(listing, LaravelReadable) :
        \E entry \in LaravelTasksOf(listing) : entry.job = listing[n].job /\ entry.gap <= listing[n].gap
    /\ \A n \in Watchable(listing, IsSchedule) :
        \E entry \in QuartzDiscovered(listing) :
            entry.job = listing[n].job /\ (entry.kind = "interval" /\ listing[n].kind = "interval" => entry.gap <= listing[n].gap)

\* APSchedulerIntegration: a key "is the same on every start", in whatever order the
\* scheduler lists its jobs, and no two jobs share one.
KeysSurviveARestart ==
    /\ APSchedulerKeys(listing) = APSchedulerKeys(Reverse(listing))
    /\ Cardinality(APSchedulerKeys(listing)) = Cardinality(Watchable(listing, IsSchedule))

\* cron.compact: the field written fires at the values it was given.
CompactMeansTheSame == field # {} => Matches(compact(field)) = field

\* cron.py: "degrade on the part that cannot work, never on the rest". A name the
\* server does not take must not have all of the declaration refused either.
LongNamesAreNotRefused ==
    \A found \in {CeleryDiscovered(listing), LaravelTasksOf(listing), QuartzDiscovered(listing)} :
        Accepted(Payload(found))
===============================================================================
