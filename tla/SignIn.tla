-------------------------------- MODULE SignIn --------------------------------
(***************************************************************************)
(* Getting into one account, and being shut out of it (the hooks of        *)
(* auth.factory.ts, login-lockout.service.ts, recovery-codes.plugin.ts,    *)
(* recovery-codes.service.ts, users.repository.ts, support-commands.ts).   *)
(* Sign-ins run at once, each as many steps as it makes statements, beside *)
(* the owner's settings and the operator's commands. Better Auth compares  *)
(* the password or the passkey, and writes the session.                    *)
(***************************************************************************)
EXTENDS Integers, Sequences, FiniteSets, SequencesExt

CONSTANTS
    SignIns,           \* sign-ins in progress
    MaxFailed,         \* MAX_FAILED_LOGINS
    LockFor,           \* LOCKOUT_MS, in ticks
    MaxSessions,       \* MAX_LIVE_SESSIONS_PER_USER
    CodesPerSet,       \* RECOVERY_CODE_COUNT
    MaxSets,           \* bound: sets of codes, or passwords
    MaxPasskeys,       \* bound
    MaxTime,           \* bound
    MaxLeft,           \* bound: sign-ins that stopped before they trimmed
    OneAtATime         \* whether sign-ins that fail, and removals of passkeys, do not overlap

ASSUME SignInAssumption ==
    /\ MaxFailed \in Nat \ {0} /\ LockFor \in Nat \ {0} /\ MaxSessions \in Nat \ {0}
    /\ MaxSets \in Nat \ {0} /\ MaxPasskeys \in Nat \ {0} /\ MaxTime \in Nat /\ MaxLeft \in Nat
    /\ CodesPerSet \in Nat /\ OneAtATime \in BOOLEAN /\ IsFiniteSet(SignIns)

VARIABLES
    method,     \* password or passkey: AUTH_MODE
    user,       \* the row: failures, lockout, whether it is disabled
    version,    \* of the password, or of the set of recovery codes
    codes,      \* the codes that are good
    passkeys,   \* how many
    sessions,   \* oldest first
    signIn,     \* what each sign-in is doing
    time,
    tries,      \* when a wrong secret was tried, since the count was last cleared
    opened,     \* how often each code let somebody through
    left        \* sign-ins that stopped before they trimmed

signInVars == <<method, user, version, codes, passkeys, sessions, signIn, time, tries, opened, left>>

Codes == (1..MaxSets) \X (1..CodesPerSet)
NoSignIn == [pc |-> "none", kind |-> "none", code |-> <<>>, version |-> 0, failures |-> 0, stray |-> FALSE]
Steps == {"none", "check", "read", "count", "session", "insert", "after", "trim", "remove"}

SignInTypeOK ==
    /\ method \in {"password", "passkey"}
    /\ user.failures \in Nat /\ user.lockedUntil \in 0..(MaxTime + LockFor) /\ user.disabled \in BOOLEAN
    /\ version \in 1..MaxSets /\ codes \subseteq Codes
    /\ passkeys \in 0..MaxPasskeys
    /\ \A i \in DOMAIN sessions : sessions[i].stray \in BOOLEAN /\ sessions[i].version \in 0..MaxSets
    /\ \A s \in SignIns : signIn[s].pc \in Steps
    /\ time \in 0..MaxTime
    /\ opened \in [Codes -> Nat]

SignInInit ==
    /\ method \in {"password", "passkey"}
    /\ user = [failures |-> 0, lockedUntil |-> 0, disabled |-> FALSE]
    /\ version = 1
    /\ codes = IF method = "passkey" THEN {1} \X (1..CodesPerSet) ELSE {}
    /\ passkeys = IF method = "passkey" THEN 1 ELSE 0
    /\ sessions = <<>> /\ tries = <<>>
    /\ signIn = [s \in SignIns |-> NoSignIn]
    /\ time = 0 /\ left = 0
    /\ opened = [c \in Codes |-> 0]

ToSign(s, pc) == signIn' = [signIn EXCEPT ![s].pc = pc]
Ended(s) == signIn' = [signIn EXCEPT ![s] = NoSignIn]

(***************************************************************************)
(* LoginLockoutService.                                                    *)
(***************************************************************************)
\* Mutant: a lockout ends a tick late to begin with.
IsLockedTooShort == user.lockedUntil > time + 1

IsLocked == user.lockedUntil > time

\* Mutant: one more than the ceiling.
LocksLate(failures) == failures > MaxFailed

Locks(failures) == failures >= MaxFailed

\* What was read before is written back plus one, and a lockout with it, or none.
RecordFailure(s) ==
    LET failures == signIn[s].failures + 1 IN
    /\ signIn[s].pc = "count"
    /\ user' = [user EXCEPT !.failures = failures, !.lockedUntil = IF Locks(failures) THEN time + LockFor ELSE 0]
    /\ Ended(s)
    /\ UNCHANGED <<method, version, codes, passkeys, sessions, time, tries, opened, left>>

(***************************************************************************)
(* The ways in. hooks.before turns away who is locked out.                 *)
(***************************************************************************)
Start(s, begun) ==
    /\ signIn[s] = NoSignIn
    /\ OneAtATime => \A t \in SignIns : signIn[t].pc \notin {"check", "read", "count"} /\ signIn[t].kind # "removal"
    /\ signIn' = [signIn EXCEPT ![s] = begun]
    /\ UNCHANGED <<method, user, version, codes, passkeys, sessions, time, tries, opened, left>>

\* POST /sign-in/email, by whoever has a password in mind.
SignInWithPassword(s, guess) ==
    /\ method = "password" /\ ~IsLocked
    /\ Start(s, [NoSignIn EXCEPT !.pc = "check", !.kind = "password", !.version = guess])

\* Better Auth compares.
ComparePassword(s) ==
    /\ signIn[s].pc = "check" /\ signIn[s].kind = "password"
    /\ ToSign(s, IF signIn[s].version = version THEN "session" ELSE "read")
    /\ tries' = IF signIn[s].version = version THEN tries ELSE Append(tries, time)
    /\ UNCHANGED <<method, user, version, codes, passkeys, sessions, time, opened, left>>

\* hooks.after reads the account again.
ReadFailures(s) ==
    /\ signIn[s].pc = "read"
    /\ signIn' = [signIn EXCEPT ![s].pc = "count", ![s].failures = user.failures]
    /\ UNCHANGED <<method, user, version, codes, passkeys, sessions, time, tries, opened, left>>

SignInWithPasskey(s) ==
    /\ method = "passkey" /\ passkeys > 0
    /\ Start(s, [NoSignIn EXCEPT !.pc = "session", !.kind = "passkey"])

\* POST /recovery-codes/sign-in
SignInWithCode(s, code) ==
    /\ method = "passkey" /\ ~IsLocked
    /\ Start(s, [NoSignIn EXCEPT !.pc = "check", !.kind = "code", !.code = code, !.failures = user.failures])

\* Mutant: whether it was used is not asked.
IsGoodOnceIssued(code) == code[1] = version

\* RecoveryCodesService.spend: a conditional update.
IsGood(code) == code \in codes

SpendCode(s) ==
    LET code == signIn[s].code IN
    /\ signIn[s].pc = "check" /\ signIn[s].kind = "code"
    /\ codes' = codes \ {code}
    /\ signIn' = [signIn EXCEPT ![s] =
           IF IsGood(code) THEN [NoSignIn EXCEPT !.pc = "session", !.kind = "code"] ELSE [@ EXCEPT !.pc = "count"]]
    /\ opened' = IF IsGood(code) THEN [opened EXCEPT ![code] = @ + 1] ELSE opened
    /\ tries' = IF IsGood(code) THEN tries ELSE Append(tries, time)
    /\ UNCHANGED <<method, user, version, passkeys, sessions, time, left>>

(***************************************************************************)
(* databaseHooks.session.create: every way in ends here.                   *)
(***************************************************************************)
\* Mutant: a disabled account is let in.
CheckNothing(s) ==
    /\ signIn[s].pc = "session" /\ ToSign(s, "insert")
    /\ UNCHANGED <<method, user, version, codes, passkeys, sessions, time, tries, opened, left>>

CheckDisabled(s) ==
    /\ signIn[s].pc = "session"
    /\ IF user.disabled THEN Ended(s) ELSE ToSign(s, "insert")
    /\ UNCHANGED <<method, user, version, codes, passkeys, sessions, time, tries, opened, left>>

InsertSession(s) ==
    /\ signIn[s].pc = "insert"
    /\ sessions' = Append(sessions, [stray |-> signIn[s].stray, version |-> signIn[s].version])
    /\ ToSign(s, "after")
    /\ UNCHANGED <<method, user, version, codes, passkeys, time, tries, opened, left>>

RecordSuccessfulLogin(s) ==
    /\ signIn[s].pc = "after"
    /\ user' = [user EXCEPT !.failures = 0, !.lockedUntil = 0]
    /\ tries' = <<>>
    /\ ToSign(s, "trim")
    /\ UNCHANGED <<method, version, codes, passkeys, sessions, time, opened, left>>

\* Mutant: one more is kept.
NewestSessionsButOne == SubSeq(sessions, IF Len(sessions) > MaxSessions + 1 THEN Len(sessions) - MaxSessions ELSE 1, Len(sessions))

NewestSessions == SubSeq(sessions, IF Len(sessions) > MaxSessions THEN Len(sessions) - MaxSessions + 1 ELSE 1, Len(sessions))

\* The oldest beyond the ceiling are found, and deleted: what comes in between is newer.
TrimSessions(s) ==
    /\ signIn[s].pc = "trim"
    /\ sessions' = NewestSessions
    /\ Ended(s)
    /\ UNCHANGED <<method, user, version, codes, passkeys, time, tries, opened, left>>

\* The server stops, or a statement fails.
SignInStops(s) ==
    /\ signIn[s].pc # "none"
    /\ LET unfinished == signIn[s].pc \in {"after", "trim"} IN
        /\ unfinished => left < MaxLeft
        /\ left' = IF unfinished THEN left + 1 ELSE left
    /\ (OneAtATime => signIn[s].pc \notin {"read", "count"})
    /\ Ended(s)
    /\ UNCHANGED <<method, user, version, codes, passkeys, sessions, time, tries, opened>>

(***************************************************************************)
(* The owner, who is signed in.                                            *)
(***************************************************************************)
SignOut(i) ==
    /\ i \in DOMAIN sessions
    /\ sessions' = RemoveAt(sessions, i)
    /\ UNCHANGED <<method, user, version, codes, passkeys, signIn, time, tries, opened, left>>

AddPasskey ==
    /\ method = "passkey" /\ sessions # <<>> /\ passkeys < MaxPasskeys
    /\ passkeys' = passkeys + 1
    /\ UNCHANGED <<method, user, version, codes, sessions, signIn, time, tries, opened, left>>

\* Mutant: the count is of what is left afterwards.
IsLastPasskeyOfNone == passkeys < 1

IsLastPasskey == passkeys <= 1

\* hooks.before counts, and Better Auth deletes.
CountPasskeys(s) ==
    /\ method = "passkey" /\ sessions # <<>> /\ ~IsLastPasskey
    /\ Start(s, [NoSignIn EXCEPT !.pc = "remove", !.kind = "removal"])

RemovePasskey(s) ==
    /\ signIn[s].pc = "remove" /\ passkeys > 0
    /\ passkeys' = passkeys - 1
    /\ Ended(s)
    /\ UNCHANGED <<method, user, version, codes, sessions, time, tries, opened, left>>

\* RecoveryCodesService.replaceAll, for the owner or by the operator: one transaction.
ReplaceCodes ==
    /\ method = "passkey" /\ version < MaxSets
    /\ version' = version + 1
    /\ codes' = {version'} \X (1..CodesPerSet)
    /\ UNCHANGED <<method, user, passkeys, sessions, signIn, time, tries, opened, left>>

(***************************************************************************)
(* SupportCommands, and time.                                              *)
(***************************************************************************)
\* Sign-ins that were let in already: nothing stops those.
Strays(pcs) == [s \in SignIns |-> IF signIn[s].pc \in pcs THEN [signIn[s] EXCEPT !.stray = TRUE] ELSE signIn[s]]

\* Mutant: sessions are left alone.
DisableOnly ==
    /\ ~user.disabled
    /\ user' = [user EXCEPT !.disabled = TRUE]
    /\ signIn' = Strays({"insert"})
    /\ UNCHANGED <<method, version, codes, passkeys, sessions, time, tries, opened, left>>

Disable ==
    /\ ~user.disabled
    /\ user' = [user EXCEPT !.disabled = TRUE]
    /\ sessions' = <<>>
    /\ signIn' = Strays({"insert"})
    /\ UNCHANGED <<method, version, codes, passkeys, time, tries, opened, left>>

Enable ==
    /\ user.disabled /\ user' = [user EXCEPT !.disabled = FALSE]
    /\ UNCHANGED <<method, version, codes, passkeys, sessions, signIn, time, tries, opened, left>>

\* replacePasswordAndEndSessions
ResetPassword ==
    /\ method = "password" /\ version < MaxSets
    /\ version' = version + 1
    /\ user' = [user EXCEPT !.failures = 0, !.lockedUntil = 0]
    /\ tries' = <<>> /\ sessions' = <<>>
    /\ signIn' = Strays({"session", "insert"})
    /\ UNCHANGED <<method, codes, passkeys, time, opened, left>>

Unlock ==
    /\ user.failures > 0
    /\ user' = [user EXCEPT !.failures = 0, !.lockedUntil = 0]
    /\ tries' = <<>>
    /\ UNCHANGED <<method, version, codes, passkeys, sessions, signIn, time, opened, left>>

EndSessions ==
    /\ sessions # <<>> /\ sessions' = <<>>
    /\ UNCHANGED <<method, user, version, codes, passkeys, signIn, time, tries, opened, left>>

TimePasses ==
    /\ time < MaxTime /\ time' = time + 1
    /\ UNCHANGED <<method, user, version, codes, passkeys, sessions, signIn, tries, opened, left>>

SignInNext ==
    \/ \E s \in SignIns :
        \/ \E guess \in 0..version : SignInWithPassword(s, guess)
        \/ \E code \in Codes : SignInWithCode(s, code)
        \/ SignInWithPasskey(s) \/ ComparePassword(s) \/ SpendCode(s) \/ ReadFailures(s) \/ RecordFailure(s)
        \/ CheckDisabled(s) \/ InsertSession(s) \/ RecordSuccessfulLogin(s) \/ TrimSessions(s)
        \/ SignInStops(s) \/ CountPasskeys(s) \/ RemovePasskey(s)
    \/ \E i \in DOMAIN sessions : SignOut(i)
    \/ AddPasskey \/ ReplaceCodes
    \/ Disable \/ Enable \/ ResetPassword \/ Unlock \/ EndSessions
    \/ TimePasses

SignInSpec == SignInInit /\ [][SignInNext]_signInVars

(***************************************************************************)
(* Properties.                                                             *)
(***************************************************************************)
\* SupportCommands.disable, resetPassword: "it cannot sign in by any method, the sessions
\* it has are ended". Only a sign-in that had passed its last check when the operator acted
\* still opens a session.
ShutOutMeansOut ==
    \A i \in DOMAIN sessions :
        \/ sessions[i].stray
        \/ ~user.disabled /\ (method = "password" => sessions[i].version = version)

\* RecoveryCodesService.spend: "True exactly once per code", whoever sends it at once,
\* and never for a code of an earlier set.
CodesWorkOnce == \A c \in Codes : opened[c] <= 1

\* MAX_LIVE_SESSIONS_PER_USER: "signing in over and over is not a way to make rows". Those
\* who sign in together trim each other's sessions; one that stops leaves its own.
SessionsAreBounded ==
    Len(sessions) <= MaxSessions + left + Cardinality({s \in SignIns : signIn[s].pc \in {"after", "trim"}})

\* LoginLockoutService: in no stretch as long as a lockout are more wrong passwords or
\* codes tried than its ceiling, when no two are tried at once (the count is read before
\* it is written).
GuessesAreBounded ==
    \A t \in 0..time :
        Cardinality({i \in DOMAIN tries : tries[i] \in t..(t + LockFor - 1)}) <= MaxFailed

\* "The last one is not removed": two removals do not both see two (unless they overlap).
LastPasskeyStays == method = "passkey" => passkeys > 0
===============================================================================
