------------------------------- MODULE RateLimit -------------------------------
(***************************************************************************)
(* The limiter of requests that one instance keeps in memory               *)
(* (rate-limiter.ts): a fixed window for each key, in a map that keeps the *)
(* order in which windows were opened. Time is in half seconds, and what a *)
(* refused caller is told is rounded up to seconds. A hit is the moment it *)
(* came at and its number in its window.                                   *)
(***************************************************************************)
EXTENDS Integers, FiniteSets

CONSTANTS
    ClientKeys,  \* addresses, routes of an address, or ping keys
    HitLimit,    \* hits a window lets through
    WindowSpan,  \* length of a window
    MaxWindows,  \* the limiter's maxKeys
    MaxMoment    \* bound

ASSUME RateLimitAssumption ==
    /\ HitLimit \in Nat \ {0} /\ WindowSpan \in Nat \ {0} /\ MaxWindows \in Nat \ {0} /\ MaxMoment \in Nat

VARIABLES
    windows,  \* of each key
    precedes, \* the order of the map: whose window was opened before whose
    moment,   \* now
    passed,   \* the hits of each key let through lately, since a live window of it was last dropped
    promised  \* from when each refused key was told to come back, 0 when not

rateVars == <<windows, precedes, moment, passed, promised>>

NoWindow == [count |-> 0, resetAt |-> 0]
Tracked == {k \in ClientKeys : windows[k].count > 0}

RateLimitTypeOK ==
    /\ \A k \in Tracked : windows[k].count \in 1..HitLimit /\ windows[k].resetAt \in 0..(MaxMoment + WindowSpan)
    /\ \A k \in ClientKeys \ Tracked : windows[k] = NoWindow
    /\ \A j, k \in Tracked : j # k => (<<j, k>> \in precedes <=> <<k, j>> \notin precedes)
    /\ moment \in 0..MaxMoment
    /\ promised \in [ClientKeys -> Nat]

RateLimitInit ==
    /\ windows = [k \in ClientKeys |-> NoWindow] /\ precedes = {} /\ moment = 0
    /\ passed = [k \in ClientKeys |-> {}]
    /\ promised = [k \in ClientKeys |-> 0]

InWindow(k) == windows[k].resetAt > moment

\* Mutant: one hit more.
SpentOneLater(k) == InWindow(k) /\ windows[k].count > HitLimit

\* exceeded: without spending any more.
Spent(k) == InWindow(k) /\ windows[k].count >= HitLimit

\* Mutant: rounded down.
RetryAfterRoundedDown(k) == IF windows[k].resetAt - moment < 4 THEN 1 ELSE (windows[k].resetAt - moment) \div 2

RetryAfter(k) == (windows[k].resetAt - moment + 1) \div 2

\* evict: what has run out goes, and if that is not enough the oldest, down to nine tenths.
KeptByEvict(kept) ==
    LET live == {k \in Tracked : InWindow(k)} IN
    IF Cardinality(live) < MaxWindows THEN kept = live
    ELSE /\ kept \subseteq live /\ Cardinality(kept) = (MaxWindows * 9) \div 10
         /\ \A j \in live \ kept, k \in kept : <<j, k>> \in precedes

\* hit, for a key whose window is not open.
OpenWindow(k) == \E kept \in SUBSET Tracked :
    /\ ~InWindow(k)
    /\ IF Cardinality(Tracked) >= MaxWindows THEN KeptByEvict(kept) ELSE kept = Tracked
    /\ windows' = [j \in ClientKeys |-> IF j = k THEN [count |-> 1, resetAt |-> moment + WindowSpan]
                                        ELSE IF j \in kept THEN windows[j] ELSE NoWindow]
    /\ precedes' = {pair \in precedes : {pair[1], pair[2]} \subseteq kept \ {k}} \cup ((kept \ {k}) \X {k})
    /\ passed' = [j \in ClientKeys |-> IF j = k THEN passed[k] \cup {<<moment, 1>>}
                                       ELSE IF InWindow(j) /\ j \notin kept THEN {} ELSE passed[j]]
    /\ promised' = [promised EXCEPT ![k] = 0]
    /\ UNCHANGED moment

Count(k) ==
    /\ InWindow(k) /\ ~Spent(k)
    /\ windows' = [windows EXCEPT ![k].count = @ + 1]
    /\ passed' = [passed EXCEPT ![k] = @ \cup {<<moment, windows[k].count + 1>>}]
    /\ UNCHANGED <<precedes, moment, promised>>

\* RateLimitGuard answers 429 with what hit returned.
Refuse(k) ==
    /\ Spent(k)
    /\ promised' = [promised EXCEPT ![k] = moment + 2 * RetryAfter(k)]
    /\ UNCHANGED <<windows, precedes, moment, passed>>

MomentPasses ==
    /\ moment < MaxMoment /\ moment' = moment + 1
    /\ passed' = [k \in ClientKeys |-> {hit \in passed[k] : hit[1] + WindowSpan > moment + 1}]
    /\ UNCHANGED <<windows, precedes, promised>>

RateLimitNext ==
    \/ \E k \in ClientKeys : OpenWindow(k) \/ Count(k) \/ Refuse(k)
    \/ MomentPasses

RateLimitSpec == RateLimitInit /\ [][RateLimitNext]_rateVars

(***************************************************************************)
(* Properties.                                                             *)
(***************************************************************************)
\* RateLimiter: whatever other keys do, in no stretch as long as a window is a key let
\* through more than twice its limit, unless a window of its own was thrown out for room.
BudgetHolds == \A k \in ClientKeys : Cardinality(passed[k]) <= 2 * HitLimit

\* hit: the delay it returns is enough for the caller to be let through.
RetryAfterSuffices == \A k \in ClientKeys : promised[k] > 0 /\ moment >= promised[k] => ~Spent(k)

\* maxKeys: "upper bound on tracked keys".
WindowsAreBounded == Cardinality(Tracked) <= MaxWindows
===============================================================================
