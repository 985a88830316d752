-------------------------------- MODULE SignUp --------------------------------
(***************************************************************************)
(* How accounts come to exist (auth.factory.ts, signup-policy.service.ts,  *)
(* signup-guard.service.ts, setup-link.service.ts, bootstrap.service.ts,   *)
(* users.repository.ts), in each mode: by a first passkey, by a password,  *)
(* by a provider. Registrations run at once, each as many steps as it      *)
(* writes, and any of them may stop between two. All connections are in    *)
(* one network. What Better Auth does is taken from how it is configured.  *)
(***************************************************************************)
EXTENDS Integers, FiniteSets

CONSTANTS
    Modes,           \* values of AUTH_MODE
    Persons,         \* people; each has the address of its name
    Admin,           \* whose address is ADMIN_EMAIL
    Disposable,      \* people whose address is of a blocked domain
    Connections,
    Visitors,        \* registrations in progress
    MaxPerAddress,   \* SIGNUP_MAX_ACCOUNTS_PER_ADDRESS
    MaxPerHour,      \* SIGNUP_MAX_PER_NETWORK_PER_HOUR
    MaxSubmits,     \* bound
    MaxLinks,        \* bound: setup links ever issued
    MayStop          \* whether a registration may stop halfway

ASSUME SignUpAssumption ==
    /\ Admin \in Persons /\ Disposable \subseteq Persons \ {Admin}
    /\ Modes \subseteq {"passkey", "password", "full"} /\ IsFiniteSet(Visitors)
    /\ MaxPerAddress \in Nat /\ MaxPerHour \in Nat /\ MaxLinks \in Nat /\ MaxSubmits \in Nat /\ MayStop \in BOOLEAN

VARIABLES
    mode,
    users,     \* the account of each address
    links,     \* the setup links that are live
    issued,    \* how many there were
    accepted,  \* sign-ups recorded in the last hour
    visit,     \* what each registration is doing
    attempts   \* how many registrations there were

signUpVars == <<mode, users, links, issued, accepted, visit, attempts>>

NoUser == [exists |-> FALSE, from |-> "nowhere", ways |-> {}, verified |-> FALSE, used |-> FALSE]
NoVisit == [pc |-> "none", email |-> Admin, by |-> Admin, from |-> "nowhere", token |-> 0,
            provider |-> "none", deleted |-> FALSE]
Providers == {"none", "google", "microsoft"}
\* A way in: what it is, and who holds it.
Ways == {"passkey", "password", "google", "microsoft", "recovery code"} \X Persons

SignUpTypeOK ==
    /\ mode \in Modes
    /\ users \in [Persons -> [exists : BOOLEAN, from : Connections \cup {"nowhere"}, ways : SUBSET Ways,
                              verified : BOOLEAN, used : BOOLEAN]]
    /\ \A e \in Persons : ~users[e].exists => users[e] = NoUser
    /\ links \subseteq 1..issued /\ issued \in 0..MaxLinks
    /\ accepted \in 0..MaxSubmits
    /\ visit \in [Visitors -> [pc : {"none", "ceremony", "insert", "created", "attach", "session"},
                               email : Persons, by : Persons, from : Connections \cup {"nowhere"},
                               token : 0..MaxLinks, provider : Providers, deleted : BOOLEAN]]
    /\ attempts \in 0..MaxSubmits

SignUpInit ==
    /\ mode \in Modes
    /\ users = [e \in Persons |-> NoUser]
    /\ links = {} /\ issued = 0 /\ accepted = 0 /\ attempts = 0
    /\ visit = [v \in Visitors |-> NoVisit]

Exist(e) == users[e].exists

(***************************************************************************)
(* SignupPolicyService and SignupGuardService.                             *)
(***************************************************************************)
AccountsFrom(c) == {e \in Persons : Exist(e) /\ users[e].from = c}

\* Mutant: accounts from the whole network are let through.
WithinAddressQuotaAlways(c) == TRUE

WithinAddressQuota(c) == MaxPerAddress = 0 \/ Cardinality(AccountsFrom(c)) < MaxPerAddress

WithinNetworkQuota == MaxPerHour = 0 \/ accepted < MaxPerHour

\* SetupLinkService.accepts: a live link, and it is the administrator's address.
LinkAccepts(e, token) == e = Admin /\ token \in links

Decide(e, c, token) ==
    IF e = Admin THEN LinkAccepts(e, token)
    ELSE e \notin Disposable /\ WithinAddressQuota(c) /\ WithinNetworkQuota

\* UsersRepository.isUnfinishedRegistration: and none of what only the owner could have done.
IsUnfinished(e) == users[e].ways = {} /\ ~users[e].used

Available(e) == Exist(e) => IsUnfinished(e)

(***************************************************************************)
(* A registration. In passkey mode it asks for the ceremony first.         *)
(***************************************************************************)
Begin(v, e, by, c, provider, pc) ==
    /\ visit[v] = NoVisit /\ attempts < MaxSubmits
    /\ attempts' = attempts + 1
    /\ \E token \in 0..issued :
        /\ token # 0 => by = Admin
        /\ visit' = [visit EXCEPT ![v] = [pc |-> pc, email |-> e, by |-> by, from |-> c, token |-> token,
                                          provider |-> provider, deleted |-> FALSE]]
        /\ pc = "ceremony" => Available(e) /\ Decide(e, c, token)
        /\ pc = "insert" => ~Exist(e) /\ Decide(e, c, token)
    /\ UNCHANGED <<mode, users, links, issued, accepted>>

\* resolveUser: "fail before the browser asks for a fingerprint, not after".
Options(v, e, c) == mode = "passkey" /\ Begin(v, e, e, c, "none", "ceremony")

\* afterVerification: an account that is there is finished, or else one is created, by
\* the same rules again.
Verify(v) ==
    LET e == visit[v].email
        next == CASE Exist(e) /\ IsUnfinished(e) -> "attach"
                  [] ~Exist(e) /\ Decide(e, visit[v].from, visit[v].token) -> "insert"
                  [] OTHER -> "none"
    IN
    /\ visit[v].pc = "ceremony"
    /\ visit' = [visit EXCEPT ![v] = IF next = "none" THEN NoVisit ELSE [@ EXCEPT !.pc = next]]
    /\ UNCHANGED <<mode, users, links, issued, accepted, attempts>>

\* POST /sign-up/email
SignUpWithPassword(v, e, c) == mode = "password" /\ Begin(v, e, e, c, "none", "insert")

\* validateUserInfo: what Google has not verified is turned away, so its identity is its
\* owner's; a Microsoft tenant may say any address.
Vouched(provider, e, by) == provider = "google" => e = by

\* Mutant: Microsoft's word on the address is taken.
VerifiedByAny(provider) == provider # "none"

\* mapProfileToUser
VerifiedBy(provider) == provider = "google"

\* A provider login that no account has yet.
SignUpWithProvider(v, e, by, c, provider) ==
    /\ mode = "full" /\ provider # "none" /\ Vouched(provider, e, by)
    /\ \A f \in Persons : <<provider, by>> \notin users[f].ways
    /\ Begin(v, e, by, c, provider, "insert")

\* accountLinking: only Google joins an account that is there, and a verified one.
LinkProvider(e) ==
    /\ mode = "full" /\ Exist(e) /\ users[e].verified
    /\ users' = [users EXCEPT ![e].ways = @ \cup {<<"google", e>>}, ![e].used = TRUE]
    /\ UNCHANGED <<mode, links, issued, accepted, visit, attempts>>

\* The address is unique.
Insert(v) ==
    LET e == visit[v].email IN
    /\ visit[v].pc = "insert"
    /\ IF Exist(e) THEN visit' = [visit EXCEPT ![v] = NoVisit] /\ UNCHANGED users
       ELSE /\ users' = [users EXCEPT ![e] = [NoUser EXCEPT !.exists = TRUE, !.from = visit[v].from,
                                                            !.verified = VerifiedBy(visit[v].provider)]]
            /\ visit' = [visit EXCEPT ![v].pc = "created"]
    /\ UNCHANGED <<mode, links, issued, accepted, attempts>>

\* SignupPolicyService.created: the link is spent, the sign-up recorded.
Created(v) ==
    /\ visit[v].pc = "created"
    /\ links' = links \ {visit[v].token}
    /\ accepted' = IF MaxPerHour = 0 THEN accepted ELSE accepted + 1
    /\ visit' = [visit EXCEPT ![v].pc = "attach"]
    /\ UNCHANGED <<mode, users, issued, attempts>>

WayOf(v) ==
    CASE mode = "passkey" -> <<"passkey", visit[v].by>>
      [] mode = "password" -> <<"password", visit[v].by>>
      [] OTHER -> <<visit[v].provider, visit[v].by>>

\* The second of the two writes; the account may have been deleted meanwhile.
Attach(v) ==
    LET e == visit[v].email IN
    /\ visit[v].pc = "attach"
    /\ IF visit[v].deleted
       THEN visit' = [visit EXCEPT ![v] = NoVisit] /\ UNCHANGED users
       ELSE /\ users' = [users EXCEPT ![e].ways = @ \cup {WayOf(v)}]
            /\ visit' = [visit EXCEPT ![v].pc = "session"]
    /\ UNCHANGED <<mode, links, issued, accepted, attempts>>

\* recordSuccessfulLogin
OpenSession(v) ==
    /\ visit[v].pc = "session"
    /\ users' = [users EXCEPT ![visit[v].email].used = @ \/ ~visit[v].deleted]
    /\ visit' = [visit EXCEPT ![v] = NoVisit]
    /\ UNCHANGED <<mode, links, issued, accepted, attempts>>

\* The server stops, a statement fails, or the person leaves the ceremony.
Stop(v) ==
    /\ visit[v].pc # "none" /\ (MayStop \/ visit[v].pc \in {"ceremony", "session"})
    /\ visit' = [visit EXCEPT ![v] = NoVisit]
    /\ UNCHANGED <<mode, users, links, issued, accepted, attempts>>

(***************************************************************************)
(* The operator, and time.                                                 *)
(***************************************************************************)
\* BootstrapService on every start, SupportCommands.createAdmin: until the account exists.
IssueLink ==
    /\ ~Exist(Admin) /\ issued < MaxLinks
    /\ issued' = issued + 1
    /\ links' = links \cup {issued'}
    /\ UNCHANGED <<mode, users, accepted, visit, attempts>>

\* isUnfinishedRegistration counts what these leave as a way in.
LetIn(e) ==
    /\ Exist(e) /\ mode # "full"
    /\ users' = [users EXCEPT ![e].ways = @ \cup {<<IF mode = "passkey" THEN "recovery code" ELSE "password", e>>}]
    /\ UNCHANGED <<mode, links, issued, accepted, visit, attempts>>

\* SupportCommands.verifyEmail, for whoever the operator knows the account to be.
VerifyEmail(e) ==
    /\ Exist(e) /\ ~users[e].verified /\ \A way \in users[e].ways : way[2] = e
    /\ \A v \in Visitors : visit[v].email = e => visit[v].by = e
    /\ users' = [users EXCEPT ![e].verified = TRUE]
    /\ UNCHANGED <<mode, links, issued, accepted, visit, attempts>>

\* By whatever route: two tabs, an operator.
LosePasskeys(e) ==
    /\ mode = "passkey" /\ users[e].ways # {} /\ users[e].used
    /\ users' = [users EXCEPT ![e].ways = {}]
    /\ UNCHANGED <<mode, links, issued, accepted, visit, attempts>>

DeleteAccount(e) ==
    /\ users[e].used
    /\ users' = [users EXCEPT ![e] = NoUser]
    /\ visit' = [v \in Visitors |-> IF visit[v].email = e /\ visit[v].pc \in {"created", "attach", "session"}
                                   THEN [visit[v] EXCEPT !.deleted = TRUE] ELSE visit[v]]
    /\ UNCHANGED <<mode, links, issued, accepted, attempts>>

ExpireLink ==
    /\ links # {} /\ links' = {}
    /\ UNCHANGED <<mode, users, issued, accepted, visit, attempts>>

\* Rows older than an hour are not counted, and purged in the end.
HourPasses ==
    /\ accepted > 0 /\ accepted' = 0
    /\ UNCHANGED <<mode, users, links, issued, visit, attempts>>

SignUpNext ==
    \/ \E v \in Visitors :
        \/ \E e \in Persons, c \in Connections :
            \/ Options(v, e, c) \/ SignUpWithPassword(v, e, c)
            \/ \E by \in Persons, provider \in Providers : SignUpWithProvider(v, e, by, c, provider)
        \/ Verify(v) \/ Insert(v) \/ Created(v) \/ Attach(v) \/ OpenSession(v) \/ Stop(v)
    \/ \E e \in Persons : LinkProvider(e) \/ LetIn(e) \/ VerifyEmail(e) \/ LosePasskeys(e) \/ DeleteAccount(e)
    \/ IssueLink \/ ExpireLink \/ HourPasses

SignUpSpec == SignUpInit /\ [][SignUpNext]_signUpVars

(***************************************************************************)
(* Properties.                                                             *)
(***************************************************************************)
\* SignupGuardService: registrations that are decided at once may each take the last
\* place, and no more than that: nothing that was refused, stopped, deleted or retried
\* lets through another.
AccountsWithinCeiling ==
    MaxPerAddress > 0 => \A c \in Connections :
        Cardinality(AccountsFrom(c) \ {Admin}) <= MaxPerAddress + Cardinality(Visitors) - 1

\* accountLinking, mapProfileToUser: all the ways into an account are of one person,
\* whoever said what about an address first.
OnePersonPerAccount == \A e \in Persons : \A a, b \in users[e].ways : a[2] = b[2]

\* auth.factory.ts: "finishing it is what its owner would want"; the test "finishes the
\* registration of an address that was left with no way in". The rules are applied a
\* second time, though, to an account that counts, with a link that was spent.
UnfinishedCanBeFinished ==
    \A e \in Persons : mode = "passkey" /\ Exist(e) /\ IsUnfinished(e) /\ (\A v \in Visitors : visit[v] = NoVisit) =>
        \E token \in 0..issued : Decide(e, users[e].from, token)
===============================================================================
