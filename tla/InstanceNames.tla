---------------------------- MODULE InstanceNames -----------------------------
(***************************************************************************)
(* Jobs watched on each instance, in the three client libraries: which     *)
(* they are, by pattern, and the environment of an instance that has a     *)
(* name. A text is the sequence of its characters.                         *)
(***************************************************************************)
EXTENDS Integers, Sequences, SequencesExt

CONSTANTS
    MaxEnvironment,  \* LIMITS.environmentMax
    MaxName          \* bound: characters of a name or a pattern

ASSUME NamesAssumption == MaxEnvironment \in Nat /\ MaxName \in Nat

VARIABLES
    environment,  \* the configured environment
    instanceId,   \* the configured name
    pattern       \* one of the per-instance patterns

nameVars == <<environment, instanceId, pattern>>

AcceptedCharacters == {"a", "b", "-", "."}
Characters == {"a", "b", " ", "%"}
Texts(characters, n) == UNION {[1..k -> characters] : k \in 0..n}

NamesTypeOK ==
    /\ environment \in Texts({"a"}, MaxEnvironment)
    /\ instanceId \in Texts(Characters, MaxName)
    /\ pattern \in Texts({"a", "b", "*", " "}, MaxName)

NamesInit == environment = <<"a">> /\ instanceId = <<>> /\ pattern = <<>>

NamesNext ==
    \/ /\ Len(environment) < MaxEnvironment
       /\ environment' = Append(environment, "a")
       /\ UNCHANGED <<instanceId, pattern>>
    \/ /\ Len(instanceId) < MaxName /\ pattern = <<>>
       /\ \E c \in Characters : instanceId' = Append(instanceId, c)
       /\ UNCHANGED <<environment, pattern>>
    \/ /\ Len(pattern) < MaxName /\ instanceId = <<>>
       /\ \E c \in {"a", "b", "*", " "} : pattern' = Append(pattern, c)
       /\ UNCHANGED <<environment, instanceId>>

NamesSpec == NamesInit /\ [][NamesNext]_nameVars

Blank(text) == \A n \in DOMAIN text : text[n] = " "
Trimmed(text) ==
    LET letters == {n \in DOMAIN text : text[n] # " "} IN
    IF letters = {} THEN <<>>
    ELSE SubSeq(text, CHOOSE n \in letters : \A m \in letters : n <= m, CHOOSE n \in letters : \A m \in letters : m <= n)
Wildcard(text) == text # <<>> /\ Last(text) = "*"

JavaIsPerInstance(key) ==
    LET trimmed == Trimmed(pattern) IN
    IF Wildcard(trimmed) THEN IsPrefix(Front(trimmed), key) ELSE key = trimmed

PythonIsPerInstance(key) ==
    LET trimmed == Trimmed(pattern) IN
    \/ Wildcard(trimmed) /\ IsPrefix(Front(trimmed), key)
    \/ trimmed # <<>> /\ key = trimmed

PhpIsPerInstance(key) ==
    LET trimmed == Trimmed(pattern) IN
    IF Wildcard(trimmed) THEN IsPrefix(Front(trimmed), key) ELSE trimmed # <<>> /\ key = trimmed

NoEnvironment == <<"none">>
Dashed(text) == [n \in DOMAIN text |-> IF text[n] \in AcceptedCharacters THEN text[n] ELSE "-"]
Room == MaxEnvironment - Len(environment) - 1
\* Mutant: the length is checked before the dot is added.
CutTooLate(text) == IF Len(text) > Room + 1 THEN SubSeq(text, Len(text) - Room, Len(text)) ELSE text
Cut(text) == IF Len(text) > Room THEN SubSeq(text, Len(text) - Room + 1, Len(text)) ELSE text
JavaInstanceEnvironment ==
    IF Blank(instanceId) \/ Room <= 0 THEN NoEnvironment
    ELSE environment \o <<".">> \o Cut(Dashed(Trimmed(instanceId)))

PythonInstanceEnvironment ==
    IF Blank(instanceId) \/ Room <= 0 THEN NoEnvironment
    ELSE environment \o <<".">> \o Cut(Dashed(Trimmed(instanceId)))

PhpInstanceEnvironment ==
    IF Trimmed(instanceId) = <<>> \/ Room <= 0 THEN NoEnvironment
    ELSE environment \o <<".">> \o Cut(Dashed(Trimmed(instanceId)))

\* "The server accepts 40 letters, digits, dots, dashes and underscores": an instance's
\* declaration is not refused for its name, is never made in the shared environment,
\* and the libraries agree on which jobs are the instance's.
NamesAreUsable ==
    /\ \A name \in {JavaInstanceEnvironment, PythonInstanceEnvironment, PhpInstanceEnvironment} :
        name = NoEnvironment \/ /\ Len(name) <= MaxEnvironment /\ name # environment
                                /\ \A n \in DOMAIN name : name[n] \in AcceptedCharacters
    /\ \A key \in Texts({"a", "b"}, 2) \ {<<>>} :
        JavaIsPerInstance(key) = PythonIsPerInstance(key) /\ PythonIsPerInstance(key) = PhpIsPerInstance(key)
===============================================================================
