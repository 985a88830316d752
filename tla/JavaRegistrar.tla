---------------------------- MODULE JavaRegistrar -----------------------------
(***************************************************************************)
(* The Spring Boot starter declares the jobs of each instance once, when   *)
(* the application is ready (SilenceWatchRegistrar, SilenceWatchClient),   *)
(* and reads the server's answers with a parser of its own (Json).         *)
(***************************************************************************)
EXTENDS Declarations

VARIABLES
    registrar,  \* what register() of each instance is doing
    keys        \* HeartbeatSender.pingKeysByJobKey: jobs with a ping key

registrarVars == <<checks, faults, registrar, keys>>

RegistrarTypeOK ==
    /\ DeclarationsTypeOK
    /\ registrar \in [Instances -> [pc : {"new", "declare", "done"}, todo : [Environments -> SUBSET Jobs],
                                    found : SUBSET Jobs]]
    /\ keys \in [Instances -> SUBSET Jobs]

Nothing == [e \in Environments |-> {}]

RegistrarInit ==
    /\ DeclarationsInit
    /\ registrar = [i \in Instances |-> [pc |-> "new", todo |-> Nothing, found |-> {}]]
    /\ keys = [i \in Instances |-> {}]

(***************************************************************************)
(* SilenceWatchRegistrar.register.                                         *)
(***************************************************************************)
\* Mutant: whatever the application schedules is declared.
JavaDiscoveredAsIs(found) == found

JavaDiscovered(found) == found \ Unsupported

\* Mutant: the jobs of one instance are declared beside the shared ones, apart from them.
JavaGroupsOfNobody(i, jobs) == Groups(i, jobs, jobs \cap PerInstance)

JavaGroups(i, jobs) == Groups(i, jobs, IF i \in Named THEN jobs \cap PerInstance ELSE {})

\* A discoverer that throws is left out.
Ready(i) ==
    /\ registrar[i].pc = "new"
    /\ \E found \in SUBSET Jobs :
        /\ IF found = Jobs THEN UNCHANGED faults ELSE Fault
        /\ registrar' = [registrar EXCEPT ![i].pc = "declare", ![i].todo = JavaGroups(i, JavaDiscovered(found))]
    /\ UNCHANGED <<checks, keys>>

\* SilenceWatchClient.sync: the shared ones first, and nothing for an empty list.
Sync(i, e) ==
    /\ registrar[i].pc = "declare" /\ registrar[i].todo[e] # {}
    /\ e # Shared => registrar[i].todo[Shared] = {}
    /\ \E answered \in BOOLEAN :
        /\ Declaration(e, registrar[i].todo[e], answered)
        /\ registrar' = [registrar EXCEPT ![i].todo[e] = {},
               ![i].found = @ \cup IF answered THEN registrar[i].todo[e] ELSE {}]
    /\ UNCHANGED keys

Registered(i) ==
    /\ registrar[i].pc = "declare" /\ registrar[i].todo = Nothing
    /\ keys' = [keys EXCEPT ![i] = @ \cup registrar[i].found]
    /\ registrar' = [registrar EXCEPT ![i].pc = "done"]
    /\ UNCHANGED <<checks, faults>>

RegistrarNext ==
    \E i \in Instances : Ready(i) \/ Registered(i) \/ \E e \in Environments : Sync(i, e)

RegistrarSpec == RegistrarInit /\ [][RegistrarNext]_registrarVars

\* SilenceWatchRegistrar.discover: one exotic schedule does not cost the application
\* its monitoring. CheckSyncRepository: no instance orphans what another reports.
JavaJobsAreWatched ==
    \A i \in Instances :
        registrar[i].pc = "done" /\ faults = 0 =>
            /\ keys[i] = Jobs \ Unsupported
            /\ Watched(i, JavaGroups(i, Jobs \ Unsupported))

(***************************************************************************)
(* Json.parse, with which the client reads what the server answered: no    *)
(* library, a parser, a token at a time, beside the grammar. Texts and the *)
(* other scalars are one token each.                                       *)
(***************************************************************************)
CONSTANTS
    MaxDepth,    \* Json.Parser.MAX_DEPTH
    MaxTokens    \* bound

ASSUME JsonAssumption == MaxDepth \in Nat /\ MaxTokens \in Nat

VARIABLES
    document,  \* the tokens read so far
    open,      \* the objects and arrays being read, innermost last
    expects    \* what the parser is about to read

jsonVars == <<document, open, expects>>

Scalars == {"text", "literal"}
Tokens == {"{", "}", "[", "]", ":", ","} \cup Scalars

JsonTypeOK ==
    /\ document \in Seq(Tokens) /\ Len(document) <= MaxTokens
    /\ open \in Seq({"object", "array"}) /\ Len(open) <= MaxDepth + 1
    /\ expects \in {"value", "element or ]", "key or }", "key", ":", "next", "nothing", "failed"}

JsonInit == document = <<>> /\ open = <<>> /\ expects = "value"

Innermost == open[Len(open)]

Become(stack, what) == open' = stack /\ expects' = what

\* A value has been read: it is the document, or something goes on around it.
Ended(stack) == Become(stack, IF stack = <<>> THEN "nothing" ELSE "next")

Outer == SubSeq(open, 1, Len(open) - 1)

\* Parser.readValue, at the depth of what is open.
ReadValue(token) ==
    CASE Len(open) > MaxDepth -> Become(open, "failed")
      [] Len(open) <= MaxDepth /\ token = "{" -> Become(Append(open, "object"), "key or }")
      [] Len(open) <= MaxDepth /\ token = "[" -> Become(Append(open, "array"), "element or ]")
      [] Len(open) <= MaxDepth /\ token \in Scalars -> Ended(open)
      [] OTHER -> Become(open, "failed")

ReadKey(token) == Become(open, IF token = "text" THEN ":" ELSE "failed")

\* Mutant: a list may end with a comma.
ReadNextLoosely(token) ==
    CASE token = "," -> Become(open, IF Innermost = "array" THEN "element or ]" ELSE "key")
      [] token = (IF Innermost = "array" THEN "]" ELSE "}") -> Ended(Outer)
      [] OTHER -> Become(open, "failed")

\* Parser.readObject and readArray, after a member or an element.
ReadNext(token) ==
    CASE token = "," -> Become(open, IF Innermost = "array" THEN "value" ELSE "key")
      [] token = (IF Innermost = "array" THEN "]" ELSE "}") -> Ended(Outer)
      [] OTHER -> Become(open, "failed")

Read(token) ==
    /\ Len(document) < MaxTokens /\ expects # "failed"
    /\ document' = Append(document, token)
    /\ \/ expects = "value" /\ ReadValue(token)
       \/ expects = "element or ]" /\ IF token = "]" THEN Ended(Outer) ELSE ReadValue(token)
       \/ expects = "key or }" /\ IF token = "}" THEN Ended(Outer) ELSE ReadKey(token)
       \/ expects = "key" /\ ReadKey(token)
       \/ expects = ":" /\ Become(open, IF token = ":" THEN "value" ELSE "failed")
       \/ expects = "next" /\ ReadNext(token)
       \/ expects = "nothing" /\ Become(open, "failed")

JsonNext == \E token \in Tokens : Read(token)
JsonSpec == JsonInit /\ [][JsonNext]_jsonVars

\* The grammar: all the values, lists of elements and lists of members of n tokens,
\* at depth d.
Grammar[what \in {"value", "elements", "members"}, d \in 0..MaxDepth + 1, n \in 0..MaxTokens] ==
    CASE what = "value" /\ d <= MaxDepth ->
            IF n = 1 THEN {<<scalar>> : scalar \in Scalars}
            ELSE {} \cup
                 (IF n = 2 THEN {<<"[", "]">>, <<"{", "}">>} ELSE {}) \cup
                 (IF n < 3 THEN {} ELSE
                    {<<"[">> \o inner \o <<"]">> : inner \in Grammar["elements", d + 1, n - 2]} \cup
                    {<<"{">> \o inner \o <<"}">> : inner \in Grammar["members", d + 1, n - 2]})
      [] what = "value" /\ d > MaxDepth -> {}
      [] what = "elements" ->
            Grammar["value", d, n] \cup
            UNION {{first \o <<",">> \o rest : first \in Grammar["value", d, k], rest \in Grammar["elements", d, n - k - 1]} :
                      k \in 1..n - 2}
      [] what = "members" ->
            IF n < 3 THEN {} ELSE
            LET Member(k) == {<<"text", ":">> \o value : value \in Grammar["value", d, k - 2]} IN
            Member(n) \cup
            UNION {{first \o <<",">> \o rest : first \in Member(k), rest \in Grammar["members", d, n - k - 1]} :
                      k \in 3..n - 2}

\* Json.parse: what it takes is a JSON document no deeper than its limit, and every
\* such document.
ParsesExactlyJson == expects = "nothing" <=> document \in Grammar["value", 0, Len(document)]
===============================================================================
