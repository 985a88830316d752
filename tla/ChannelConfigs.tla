---------------------------- MODULE ChannelConfigs -----------------------------
(***************************************************************************)
(* What channels keep in the database, sealed under SECRET_KEY             *)
(* (channel-config.vault.ts, channel-config.resealer.ts,                   *)
(* channel-config.backfill.ts, SupportCommands.reseal), while the key is   *)
(* changed and instances with the old and the new one overlap. Keys are    *)
(* numbered as they follow each other; 0 is plaintext.                     *)
(***************************************************************************)
EXTENDS Integers, FiniteSets

CONSTANTS
    StoredChannels,    \* ids, in their order
    Runs,        \* passes of the resealer: starting instances, and the operator's command
    LastKey,     \* bound
    ResealBatch  \* BATCH

ASSUME ChannelConfigsAssumption ==
    /\ StoredChannels \subseteq Nat \ {0} /\ IsFiniteSet(StoredChannels)
    /\ LastKey \in Nat \ {0} /\ ResealBatch \in Nat \ {0}

VARIABLES
    stored,     \* under which key each channel's configuration is
    secretKey,  \* what instances are started with
    oldest,     \* the oldest key a running instance still has
    run,        \* what each pass is doing
    disturbed   \* passes beside which an instance with an older key wrote, or the key changed

vaultVars == <<stored, secretKey, oldest, run, disturbed>>

NoChannel == -1
NoRun == [pc |-> "idle", key |-> 1, previous |-> 0, after |-> 0, rows |-> [c \in {} |-> 0], failed |-> 0]

ConfigsTypeOK ==
    /\ stored \in [StoredChannels -> NoChannel..LastKey]
    /\ secretKey \in 1..LastKey /\ oldest \in 1..secretKey
    /\ \A p \in Runs :
        /\ run[p].pc \in {"idle", "read", "rows", "done"} /\ run[p].key \in 1..LastKey
        /\ run[p].previous \in 0..LastKey /\ run[p].after \in StoredChannels \cup {0}
        /\ DOMAIN run[p].rows \subseteq StoredChannels
    /\ disturbed \subseteq Runs

\* Channels an earlier version wrote in plaintext.
ConfigsInit ==
    /\ stored \in [StoredChannels -> {NoChannel, 0}]
    /\ secretKey = 1 /\ oldest = 1
    /\ run = [p \in Runs |-> NoRun]
    /\ disturbed = {}

Present(c) == stored[c] # NoChannel

\* Those that run beside a write with a key that is not theirs.
Beside(key) == {p \in Runs : run[p].pc # "idle" /\ run[p].key # key}

\* ChannelsRepository.create, on an instance with that key, and delete.
CreateSealed(c, key) ==
    /\ ~Present(c) /\ key \in {oldest, secretKey}
    /\ stored' = [stored EXCEPT ![c] = key]
    /\ disturbed' = disturbed \cup Beside(key)
    /\ UNCHANGED <<secretKey, oldest, run>>

DeleteChannel(c) ==
    /\ Present(c)
    /\ stored' = [stored EXCEPT ![c] = NoChannel]
    /\ UNCHANGED <<secretKey, oldest, run, disturbed>>

\* The operator changes SECRET_KEY; instances with the one before stop in the end.
ChangeKey ==
    /\ secretKey < LastKey /\ oldest = secretKey
    /\ secretKey' = secretKey + 1
    /\ disturbed' = {p \in Runs : run[p].pc # "idle"}
    /\ UNCHANGED <<stored, oldest, run>>

OldInstancesStop ==
    /\ oldest < secretKey /\ oldest' = secretKey
    /\ UNCHANGED <<stored, secretKey, run, disturbed>>

(***************************************************************************)
(* ChannelConfigResealer.run.                                              *)
(***************************************************************************)
\* ChannelConfigBackfill gives no previous key; reseal gives OLD_SECRET_KEY.
StartRun(p, key, previous) ==
    /\ run[p].pc = "idle" /\ key \in {oldest, secretKey} /\ previous \in {0, key - 1}
    /\ run' = [run EXCEPT ![p] = [NoRun EXCEPT !.pc = "read", !.key = key, !.previous = previous]]
    /\ disturbed' = IF oldest < secretKey THEN disturbed \cup {p} ELSE disturbed \ {p}
    /\ UNCHANGED <<stored, secretKey, oldest>>

\* Mutant: one id is skipped.
NextRowsButOne(p) ==
    LET ahead == {c \in StoredChannels : Present(c) /\ c > run[p].after + 1}
    IN {c \in ahead : Cardinality({d \in ahead : d < c}) < ResealBatch}

\* The next rows by id.
NextRows(p) ==
    LET ahead == {c \in StoredChannels : Present(c) /\ c > run[p].after}
    IN {c \in ahead : Cardinality({d \in ahead : d < c}) < ResealBatch}

ReadBatch(p) ==
    /\ run[p].pc = "read"
    /\ run' = [run EXCEPT ![p] =
           IF NextRows(p) = {} THEN [@ EXCEPT !.pc = "done"]
           ELSE [@ EXCEPT !.pc = "rows", !.rows = [c \in NextRows(p) |-> stored[c]],
                          !.after = CHOOSE c \in NextRows(p) : \A d \in NextRows(p) : d <= c]]
    /\ UNCHANGED <<stored, secretKey, oldest, disturbed>>

\* Vault.open: with the key that sealed it, and plaintext as it is.
Opens(p, row) == row \in {0, run[p].key}
OpensWithPrevious(p, row) == run[p].previous # 0 /\ row = run[p].previous

\* Mutant: the row is written whatever it is by now.
AsReadOrNot(p, c) == Present(c)

\* UPDATE ... WHERE config is as it was read. Each seal is different from every other.
AsRead(p, c) == stored[c] = run[p].rows[c]

\* one: in the order of the batch.
ResealRow(p) ==
    /\ run[p].pc = "rows"
    /\ \E c \in DOMAIN run[p].rows :
        LET row == run[p].rows[c]
            writes == row = 0 \/ (~Opens(p, row) /\ OpensWithPrevious(p, row))
            left == DOMAIN run[p].rows \ {c}
        IN
        /\ \A d \in left : c < d
        /\ stored' = IF writes /\ AsRead(p, c) THEN [stored EXCEPT ![c] = run[p].key] ELSE stored
        /\ disturbed' = IF stored' # stored THEN disturbed \cup Beside(run[p].key) ELSE disturbed
        /\ run' = [run EXCEPT ![p].rows = [d \in left |-> @[d]],
                              ![p].failed = IF ~writes /\ ~Opens(p, row) THEN @ + 1 ELSE @,
                              ![p].pc = IF left = {} THEN "read" ELSE "rows"]
    /\ UNCHANGED <<secretKey, oldest>>

\* It has answered, or it failed: logged, and the server starts all the same.
RunEnds(p) ==
    /\ run[p].pc # "idle"
    /\ run' = [run EXCEPT ![p] = NoRun]
    /\ disturbed' = disturbed \ {p}
    /\ UNCHANGED <<stored, secretKey, oldest>>

ConfigsNext ==
    \/ \E c \in StoredChannels : DeleteChannel(c) \/ \E key \in 1..LastKey : CreateSealed(c, key)
    \/ ChangeKey \/ OldInstancesStop
    \/ \E p \in Runs :
        \/ ReadBatch(p) \/ ResealRow(p) \/ RunEnds(p)
        \/ \E key \in 1..LastKey, previous \in 0..LastKey : StartRun(p, key, previous)

ConfigsSpec == ConfigsInit /\ [][ConfigsNext]_vaultVars

(***************************************************************************)
(* Properties.                                                             *)
(***************************************************************************)
\* ChannelConfigResealer: "safe with several instances: a row is only written if it is
\* still as it was read". No pass, however late, puts a configuration back under an
\* earlier key (or in plaintext), where the instances of tomorrow cannot read it.
NeverBackToAnOldKey ==
    \A c \in StoredChannels : stored[c] # NoChannel /\ stored'[c] # NoChannel => stored'[c] >= stored[c]

\* "Brings every channel configuration under the current key": what a pass that nothing
\* disturbed has counted as failed is all that is left under another, channels that were
\* made or deleted meanwhile included.
ResealReachesEveryChannel ==
    \A p \in Runs : run[p].pc = "done" /\ p \notin disturbed =>
        Cardinality({c \in StoredChannels : Present(c) /\ stored[c] # run[p].key}) <= run[p].failed
===============================================================================
