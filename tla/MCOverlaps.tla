------------------------------- MODULE MCOverlaps --------------------------------
(***************************************************************************)
(* What is done twice at once: two people making accounts, two sign-ins to *)
(* one account, two instances draining one queue. A behaviour here is one  *)
(* of one of these.                                                        *)
(***************************************************************************)
EXTENDS SignUp, SignIn, NotificationQueue, TLC

VARIABLE part  \* the component that moves

overlapsVars == <<part, signUpVars, signInVars, queueVars>>

\* Those that do not move have no state.
Off == 0

OverlapsInit ==
    /\ part \in {"SignUp", "SignIn", "Queue"}
    /\ IF part = "SignUp" THEN SignUpInit
       ELSE /\ mode = Off /\ users = Off /\ links = Off /\ issued = Off /\ accepted = Off /\ visit = Off
            /\ attempts = Off
    /\ IF part = "SignIn" THEN SignInInit
       ELSE /\ method = Off /\ user = Off /\ version = Off /\ codes = Off /\ passkeys = Off /\ sessions = Off
            /\ signIn = Off /\ time = Off /\ tries = Off /\ opened = Off /\ left = Off
    /\ IF part = "Queue" THEN QueueInit
       ELSE /\ delivery = Off /\ enabled = Off /\ worker = Off /\ counted = Off /\ told = Off /\ losses = Off

OverlapsNext ==
    /\ UNCHANGED part
    /\ \/ part = "SignUp" /\ SignUpNext /\ UNCHANGED <<signInVars, queueVars>>
       \/ part = "SignIn" /\ SignInNext /\ UNCHANGED <<signUpVars, queueVars>>
       \/ part = "Queue" /\ QueueNext /\ UNCHANGED <<signUpVars, signInVars>>

OverlapsSpec == OverlapsInit /\ [][OverlapsNext]_overlapsVars

OverlapsTypeOK ==
    /\ part = "SignUp" => SignUpTypeOK
    /\ part = "SignIn" => SignInTypeOK
    /\ part = "Queue" => QueueTypeOK

\* SignupPolicyService: the ceilings of the instance hold when requests overlap, and an
\* address has one owner, who proved it was theirs.
SignUpsAreSound == part = "SignUp" => AccountsWithinCeiling /\ OnePersonPerAccount

\* AuthGuard and the session hooks: a disabled account has no session, and a password that
\* was replaced leaves none behind, other than one that was being opened meanwhile.
ShutOut == part = "SignIn" => ShutOutMeansOut

\* What a person, or whoever guesses at their account, can get out of signing in: a code
\* opens one session, a bounded number of them live, guesses stop at the lock, and the
\* last passkey cannot be removed.
SignInsAreBounded == part = "SignIn" =>
    CodesWorkOnce /\ SessionsAreBounded /\ GuessesAreBounded /\ LastPasskeyStays

\* NotificationQueue.drain: what is called sent was handed over, a recovery follows an
\* outage somebody heard of, sends are counted before they are made, and instances whose
\* batches fit in their leases claim disjoint ones.
SendsAreSound == part = "Queue" =>
    SentMeansTold /\ NoRecoveryOutOfTheBlue /\ SendsWithinAttempts /\ CounterNeverInflated /\ DisjointBatches

\* MARK_SENT_SQL, RETRY_SQL: no late statement of another pass reopens or rewrites what
\* was sent or given up.
OutcomesAreFinal == [][part = "Queue" => OutcomeIsFinal]_overlapsVars

\* Everyone but the administrator may come in any order; so may requests and instances.
OverlapsSymmetry == Permutations(Persons \ {Admin}) \cup Permutations(Visitors)
=================================================================================
