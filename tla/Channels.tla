------------------------------- MODULE Channels --------------------------------
(***************************************************************************)
(* The alert channels of one project (channels.controller.ts,              *)
(* channels.service.ts, channels.repository.ts): how many a plan allows,   *)
(* and how often one is tried out. Requests run at once, each as many      *)
(* steps as it makes statements; what is recorded in the audit trail is    *)
(* written after the answer.                                               *)
(***************************************************************************)
EXTENDS Integers, Sequences, FiniteSets

CONSTANTS
    ChannelIds,
    Askers,        \* requests in progress
    MaxChannels,   \* channelsPerProject of the plan
    Cooldown,      \* TEST_ALERT_COOLDOWN_SECONDS
    TestBudget,    \* TEST_ALERT_MAX_PER_HOUR
    HourLength,
    MaxTick,       \* bound
    MaxUnrecorded  \* bound: audit events that could not be written

Never == -1
NoAsker == "no asker"

ASSUME ChannelsAssumption ==
    /\ IsFiniteSet(Askers) /\ NoAsker \notin Askers /\ MaxUnrecorded \in Nat
    /\ MaxChannels \in Nat /\ Cooldown \in Nat /\ TestBudget \in Nat /\ HourLength \in Nat \ {0} /\ MaxTick \in Nat

VARIABLES
    channels,    \* each channel: whether it is there, and when it was last tested
    ask,         \* what each request is doing
    quotaLock,   \* who holds the advisory lock of the account
    recorded,    \* when tests were recorded in the trail
    delivered,   \* when tests were delivered
    claimed,     \* for each channel, when tests of it were let through
    unrecorded,  \* audit events that were lost
    tick

channelVars == <<channels, ask, quotaLock, recorded, delivered, claimed, unrecorded, tick>>

NoChannelRow == [there |-> FALSE, enabled |-> TRUE, testedAt |-> Never]
NoAsk == [pc |-> "idle", channel |-> NoAsker, at |-> 0]
AskSteps == {"idle", "preflight", "count", "insert", "budget", "claim", "reread", "send", "record"}

ChannelsTypeOK ==
    /\ channels \in [ChannelIds -> [there : BOOLEAN, enabled : BOOLEAN, testedAt : Never..MaxTick]]
    /\ ask \in [Askers -> [pc : AskSteps, channel : ChannelIds \cup {NoAsker}, at : 0..MaxTick]]
    /\ quotaLock \in Askers \cup {NoAsker}
    /\ \A i \in DOMAIN recorded : recorded[i] \in 0..tick
    /\ tick \in 0..MaxTick /\ unrecorded \in 0..MaxUnrecorded

ChannelsInit ==
    /\ channels = [c \in ChannelIds |-> NoChannelRow]
    /\ ask = [a \in Askers |-> NoAsk] /\ quotaLock = NoAsker
    /\ recorded = <<>> /\ delivered = <<>> /\ claimed = [c \in ChannelIds |-> <<>>]
    /\ unrecorded = 0 /\ tick = 0

ChannelsInUse == {c \in ChannelIds : channels[c].there}

AskGoesTo(a, pc) == ask' = [ask EXCEPT ![a].pc = pc]
AskEnds(a) == ask' = [ask EXCEPT ![a] = NoAsk]

(***************************************************************************)
(* create, update and remove.                                              *)
(***************************************************************************)
\* assertCanAddChannel
HasChannelRoom == Cardinality(ChannelsInUse) + 1 <= MaxChannels

\* Counted once before the target is looked up,
AskToCreate(a) ==
    /\ ask[a] = NoAsk /\ HasChannelRoom
    /\ AskGoesTo(a, "preflight")
    /\ UNCHANGED <<channels, quotaLock, recorded, delivered, claimed, unrecorded, tick>>

\* Mutant: what was counted before is good enough.
QuotaLockIsFreeForAll == TRUE

QuotaLockIsFree == quotaLock = NoAsker

\* and again under the lock. A target that is refused ends the request.
Preflight(a, allowed) ==
    /\ ask[a].pc = "preflight"
    /\ IF allowed THEN QuotaLockIsFree /\ quotaLock' = a /\ AskGoesTo(a, "count")
       ELSE AskEnds(a) /\ UNCHANGED quotaLock
    /\ UNCHANGED <<channels, recorded, delivered, claimed, unrecorded, tick>>

CountChannels(a) ==
    /\ ask[a].pc = "count"
    /\ IF HasChannelRoom THEN AskGoesTo(a, "insert") /\ UNCHANGED quotaLock
       ELSE AskEnds(a) /\ quotaLock' = NoAsker
    /\ UNCHANGED <<channels, recorded, delivered, claimed, unrecorded, tick>>

\* An id is never used again.
InsertChannel(a) ==
    /\ ask[a].pc = "insert"
    /\ \E c \in ChannelIds :
        /\ ~channels[c].there /\ \A b \in Askers : ask[b].channel # c
        /\ channels' = [channels EXCEPT ![c] = [NoChannelRow EXCEPT !.there = TRUE]]
        /\ claimed' = [claimed EXCEPT ![c] = <<>>]
    /\ AskEnds(a) /\ quotaLock' = NoAsker
    /\ UNCHANGED <<recorded, delivered, unrecorded, tick>>

\* Statements of their own, that find the channel or do not.
UpdateChannel(c) ==
    /\ channels[c].there
    /\ channels' = [channels EXCEPT ![c].enabled = ~@]
    /\ UNCHANGED <<ask, quotaLock, recorded, delivered, claimed, unrecorded, tick>>

RemoveChannel(c) ==
    /\ channels[c].there
    /\ channels' = [channels EXCEPT ![c] = NoChannelRow]
    /\ UNCHANGED <<ask, quotaLock, recorded, delivered, claimed, unrecorded, tick>>

(***************************************************************************)
(* sendTest.                                                               *)
(***************************************************************************)
AskToTest(a, c) ==
    /\ ask[a] = NoAsk /\ channels[c].there
    /\ ask' = [ask EXCEPT ![a] = [pc |-> "budget", channel |-> c, at |-> tick]]
    /\ UNCHANGED <<channels, quotaLock, recorded, delivered, claimed, unrecorded, tick>>

Lately(times) == {i \in DOMAIN times : times[i] >= tick - HourLength}

\* Mutant: one more.
WithinTestBudgetAndOne == TestBudget = 0 \/ Cardinality(Lately(recorded)) <= TestBudget

\* countRecent
WithinTestBudget == TestBudget = 0 \/ Cardinality(Lately(recorded)) < TestBudget

CheckBudget(a) ==
    /\ ask[a].pc = "budget"
    /\ IF WithinTestBudget THEN ask' = [ask EXCEPT ![a].pc = IF Cooldown = 0 THEN "send" ELSE "claim", ![a].at = tick]
       ELSE AskEnds(a)
    /\ UNCHANGED <<channels, quotaLock, recorded, delivered, claimed, unrecorded, tick>>

\* Mutant: in two statements, by what the request had read.
ClaimableAsRead(c, at) == channels[c].there /\ channels[c].testedAt <= at

Claimable(c, at) == channels[c].there /\ (channels[c].testedAt = Never \/ channels[c].testedAt < at - Cooldown)

\* claimTest: one statement.
ClaimTest(a) ==
    LET c == ask[a].channel IN
    /\ ask[a].pc = "claim"
    /\ IF Claimable(c, ask[a].at)
       THEN /\ channels' = [channels EXCEPT ![c].testedAt = ask[a].at]
            /\ claimed' = [claimed EXCEPT ![c] = Append(@, ask[a].at)]
            /\ AskGoesTo(a, "send")
       ELSE AskGoesTo(a, "reread") /\ UNCHANGED <<channels, claimed>>
    /\ UNCHANGED <<quotaLock, recorded, delivered, unrecorded, tick>>

\* What it could not claim is read again, for how long to wait; a channel that has gone
\* since is no reason to refuse.
Reread(a) ==
    /\ ask[a].pc = "reread"
    /\ IF channels[ask[a].channel].testedAt = Never THEN AskGoesTo(a, "send") ELSE AskEnds(a)
    /\ UNCHANGED <<channels, quotaLock, recorded, delivered, claimed, unrecorded, tick>>

\* Straight away: no queue, no retry.
SendTest(a, arrives) ==
    /\ ask[a].pc = "send"
    /\ IF arrives THEN AskGoesTo(a, "record") /\ delivered' = Append(delivered, tick)
       ELSE AskEnds(a) /\ UNCHANGED delivered
    /\ UNCHANGED <<channels, quotaLock, recorded, claimed, unrecorded, tick>>

\* AuditService.record: never fails what it observes.
RecordTest(a, written) ==
    /\ ask[a].pc = "record" /\ AskEnds(a)
    /\ IF written THEN recorded' = Append(recorded, tick) /\ UNCHANGED unrecorded
       ELSE unrecorded < MaxUnrecorded /\ unrecorded' = unrecorded + 1 /\ UNCHANGED recorded
    /\ UNCHANGED <<channels, quotaLock, delivered, claimed, tick>>

TickPasses ==
    /\ tick < MaxTick /\ tick' = tick + 1
    /\ UNCHANGED <<channels, ask, quotaLock, recorded, delivered, claimed, unrecorded>>

ChannelsNext ==
    \/ \E a \in Askers :
        \/ AskToCreate(a) \/ CountChannels(a) \/ InsertChannel(a)
        \/ CheckBudget(a) \/ ClaimTest(a) \/ Reread(a)
        \/ \E c \in ChannelIds : AskToTest(a, c)
        \/ \E well \in BOOLEAN : Preflight(a, well) \/ SendTest(a, well) \/ RecordTest(a, well)
    \/ \E c \in ChannelIds : UpdateChannel(c) \/ RemoveChannel(c)
    \/ TickPasses

ChannelsSpec == ChannelsInit /\ [][ChannelsNext]_channelVars

(***************************************************************************)
(* Properties.                                                             *)
(***************************************************************************)
\* ChannelsService.create: requests sent together do not share a place.
ChannelsWithinPlan == Cardinality(ChannelsInUse) <= MaxChannels

\* claimTest: "two requests arriving together cannot both go through".
OneTestPerCooldown ==
    \A c \in ChannelIds : \A i, j \in DOMAIN claimed[c] : i < j => claimed[c][j] - claimed[c][i] > Cooldown

\* "An hourly budget per account": those that are decided at once may each take the last
\* of it, and each event that was lost gives one more. A test that was not delivered is
\* not counted.
TestsWithinBudget ==
    TestBudget > 0 =>
        Cardinality(Lately(delivered)) <= TestBudget + Cardinality(Askers) - 1 + unrecorded
===============================================================================
