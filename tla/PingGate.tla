------------------------------- MODULE PingGate -------------------------------
(***************************************************************************)
(* What a call of /p/... is answered (ingest.plugin.ts) and the two        *)
(* budgets in front of the heartbeat path (ingest.service.ts): one for     *)
(* each ping key, one for each source that asks for keys no check has.     *)
(* Windows of a budget end one by one, at any time.                        *)
(***************************************************************************)
EXTENDS Integers, FiniteSets

CONSTANTS
    Visits,        \* calls in progress
    PingKeys,
    Sources,
    KeyLimit,      \* PING_RATE_LIMIT_PER_MINUTE
    UnknownLimit   \* lookups a source may waste in a minute

ASSUME PingGateAssumption ==
    KeyLimit \in Nat \ {0} /\ UnknownLimit \in Nat \ {0} /\ IsFiniteSet(Visits) /\ "none" \notin PingKeys

VARIABLES
    visit,        \* a call: its step, what it asks for, its answer
    checkOf,      \* the check of a key: "live", "paused", or "gone"
    cached,       \* keys whose metadata is fresh in the cache
    keyHits,      \* perKeyLimiter
    unknownHits,  \* unknownKeyLimiter
    wasted,       \* history: lookups each source wasted in its window
    databaseUp

gateVars == <<visit, checkOf, cached, keyHits, unknownHits, wasted, databaseUp>>

\* /, /start, /fail, /0, /1 and what is none of these.
Paths == {"success", "start", "fail", "exit 0", "exit 1", "elsewhere"}
Replies == {"none", "OK", "PAUSED", "NOT FOUND", "RATE LIMITED", "BAD REQUEST", "UNAVAILABLE"}
Idle == [pc |-> "idle", key |-> "none", source |-> "none",
         reply |-> "none", found |-> "live", served |-> FALSE, spent |-> FALSE, recorded |-> FALSE]
MostWasted == UnknownLimit + Cardinality(Visits)

PingGateTypeOK ==
    /\ \A v \in Visits :
        /\ visit[v].pc \in {"idle", "look", "write", "answered"} /\ visit[v].reply \in Replies
        /\ visit[v].pc = "idle" <=> visit[v].key \notin PingKeys
    /\ checkOf \in [PingKeys -> {"live", "paused", "gone"}] /\ cached \subseteq PingKeys
    /\ keyHits \in [PingKeys -> 0..KeyLimit] /\ unknownHits \in [Sources -> 0..UnknownLimit]
    /\ wasted \in [Sources -> 0..MostWasted] /\ databaseUp \in BOOLEAN

PingGateInit ==
    /\ visit = [v \in Visits |-> Idle] /\ cached = {} /\ databaseUp = TRUE
    /\ checkOf \in [PingKeys -> {"live", "gone"}]
    /\ keyHits = [k \in PingKeys |-> 0] /\ unknownHits = [s \in Sources |-> 0]
    /\ wasted = [s \in Sources |-> 0]

\* resolveKind, which the routes are registered with.
KindOf(path) ==
    CASE path = "start" -> "start"
      [] path \in {"fail", "exit 1"} -> "fail"
      [] path \in {"success", "exit 0"} -> "success"
      [] OTHER -> "none"

Calling(key, source) == [Idle EXCEPT !.key = key, !.source = source, !.served = key \in cached, !.spent = keyHits[key] = KeyLimit]
AnswerCall(call, reply) == [call EXCEPT !.pc = "answered", !.reply = reply]

\* Mutant: the source's budget comes before the cache.
NextOfWhoScans(key, source) ==
    CASE unknownHits[source] = UnknownLimit -> "throttled" [] key \in cached -> "write" [] OTHER -> "look"

\* A key in the cache is served whatever its source has spent.
NextOf(key, source) ==
    CASE key \in cached -> "write"
      [] key \notin cached /\ unknownHits[source] = UnknownLimit -> "throttled"
      [] OTHER -> "look"

\* Mutant: what was not looked up is said not to exist.
ThrottledIsNotFound == "NOT FOUND"
Throttled == "RATE LIMITED"

\* handle, and ingest up to its first await.
Arrive(v, key, source, path) ==
    /\ visit[v].pc = "idle"
    /\ visit' = [visit EXCEPT ![v] =
           LET call == Calling(key, source) IN
           CASE KindOf(path) = "none" -> AnswerCall(call, "BAD REQUEST")
             [] KindOf(path) # "none" /\ keyHits[key] = KeyLimit -> AnswerCall(call, "RATE LIMITED")
             [] OTHER -> IF NextOf(key, source) = "throttled" THEN AnswerCall(call, Throttled)
                         ELSE [call EXCEPT !.pc = NextOf(key, source)]]
    /\ keyHits' = [keyHits EXCEPT ![key] = IF KindOf(path) = "none" \/ @ = KeyLimit THEN @ ELSE @ + 1]
    /\ UNCHANGED <<checkOf, cached, unknownHits, wasted, databaseUp>>

\* Mutant: lookups are free.
ChargedToNobody(source) == unknownHits
\* The budget is charged once a lookup has proved wasted.
Charged(source) == [unknownHits EXCEPT ![source] = IF @ = UnknownLimit THEN @ ELSE @ + 1]

\* cache.get.
Find(v) ==
    /\ visit[v].pc = "look"
    /\ LET call == [visit[v] EXCEPT !.found = checkOf[visit[v].key]]
           source == call.source IN
       CASE ~databaseUp ->
              visit' = [visit EXCEPT ![v] = AnswerCall(call, "UNAVAILABLE")] /\ UNCHANGED <<cached, unknownHits, wasted>>
         [] databaseUp /\ call.found # "gone" ->
              /\ visit' = [visit EXCEPT ![v] = [call EXCEPT !.pc = "write"]]
              /\ cached' = cached \cup {call.key}
              /\ UNCHANGED <<unknownHits, wasted>>
         [] OTHER ->
              /\ visit' = [visit EXCEPT ![v] = AnswerCall(call, "NOT FOUND")]
              /\ unknownHits' = Charged(source)
              /\ wasted' = [wasted EXCEPT ![source] = IF @ = MostWasted THEN @ ELSE @ + 1]
              /\ UNCHANGED cached
    /\ UNCHANGED <<checkOf, keyHits, databaseUp>>

\* INGEST_SQL, which no row answers when the check is paused, or gone meanwhile.
Write(v) ==
    /\ visit[v].pc = "write"
    /\ visit' = [visit EXCEPT ![v] =
           CASE ~databaseUp -> AnswerCall(@, "UNAVAILABLE")
             [] databaseUp /\ checkOf[@.key] = "live" -> [AnswerCall(@, "OK") EXCEPT !.recorded = TRUE]
             [] OTHER -> AnswerCall(@, "PAUSED")]
    /\ UNCHANGED <<checkOf, cached, keyHits, unknownHits, wasted, databaseUp>>

HangUp(v) ==
    /\ visit[v].pc = "answered"
    /\ visit' = [visit EXCEPT ![v] = Idle]
    /\ UNCHANGED <<checkOf, cached, keyHits, unknownHits, wasted, databaseUp>>

\* A check is paused, resumed, or deleted with its entry.
EditCheck(key, state) ==
    /\ checkOf[key] # "gone" /\ checkOf[key] # state
    /\ checkOf' = [checkOf EXCEPT ![key] = state]
    /\ cached' = cached \ {key}
    /\ UNCHANGED <<visit, keyHits, unknownHits, wasted, databaseUp>>

EntryExpires(key) ==
    /\ key \in cached
    /\ cached' = cached \ {key}
    /\ UNCHANGED <<visit, checkOf, keyHits, unknownHits, wasted, databaseUp>>

KeyWindowEnds(key) ==
    /\ keyHits[key] > 0
    /\ keyHits' = [keyHits EXCEPT ![key] = 0]
    /\ UNCHANGED <<visit, checkOf, cached, unknownHits, wasted, databaseUp>>

SourceWindowEnds(source) ==
    /\ unknownHits[source] > 0
    /\ unknownHits' = [unknownHits EXCEPT ![source] = 0]
    /\ wasted' = [wasted EXCEPT ![source] = 0]
    /\ UNCHANGED <<visit, checkOf, cached, keyHits, databaseUp>>

DatabaseTurns ==
    /\ databaseUp' = ~databaseUp
    /\ UNCHANGED <<visit, checkOf, cached, keyHits, unknownHits, wasted>>

PingGateNext ==
    \/ \E v \in Visits :
        \/ \E key \in PingKeys, source \in Sources, path \in Paths : Arrive(v, key, source, path)
        \/ Find(v) \/ Write(v) \/ HangUp(v)
    \/ \E key \in PingKeys :
        \/ EntryExpires(key) \/ KeyWindowEnds(key)
        \/ \E state \in {"live", "paused", "gone"} : EditCheck(key, state)
    \/ \E source \in Sources : SourceWindowEnds(source)
    \/ DatabaseTurns

PingGateSpec == PingGateInit /\ [][PingGateNext]_gateVars

(***************************************************************************)
(* Properties.                                                             *)
(***************************************************************************)
\* ingest: "The refusal is 429 and never 404. Answering no such check to a key we did not
\* look up would be a lie". A job is told so only of a key that no check had when asked,
\* and what was recorded is never answered as if it had not been.
AnswersAreTrue ==
    \A v \in Visits :
        /\ visit[v].reply = "NOT FOUND" => visit[v].found = "gone"
        /\ visit[v].reply # "none" => (visit[v].recorded <=> visit[v].reply = "OK")

\* ingest: "a scanner behind the same address must not silence the jobs that call from
\* there". A job whose key was in the cache is turned away for its own calls alone.
ScannersSilenceNobody ==
    \A v \in Visits : visit[v].reply = "RATE LIMITED" /\ visit[v].served => visit[v].spent

\* ingest: the budget is read before the lookup and charged after it, so the calls of one
\* source that overlap may exceed it, by no more than there are of them.
WastedLookupsAreBounded == \A s \in Sources : wasted[s] < UnknownLimit + Cardinality(Visits)
===============================================================================
