-------------------------------- MODULE Config ---------------------------------
(***************************************************************************)
(* The environment a server is started with (config.ts, validation.ts,     *)
(* plan-limits.ts, stripe-plans.ts, env-helpers.ts): it is refused, or the *)
(* server runs with it, and everything else takes what it says. An         *)
(* operator changes one group of settings at a time and starts again.      *)
(* A host is the sequence of its labels from the top-level domain down.    *)
(***************************************************************************)
EXTENDS Integers, Sequences, FiniteSets, SequencesExt

CONSTANTS
    SmtpUrls,   \* how SMTP_URL may begin: "smtp" (or smtps), or anything "else"
    BaseUrls    \* how BASE_URL may be written: as an "origin" is, or anything "else" (a path, a capital, :443)

VARIABLES
    env,     \* the environment
    server   \* down, refused, or running

configVars == <<env, server>>

Unset == "unset"
Blank == ""
Secrets == {Unset, Blank, "set"}
NoHost == <<>>
Localhost == <<"localhost">>
Hosts == {Localhost, <<"com">>, <<"com", "example">>, <<"com", "example", "watch">>, <<"org", "other">>}

\* optional: empty means absent, so that a variable listed without a value is not one.
Optional(value) == IF value = Blank THEN Unset ELSE value
IsSet(value) == Optional(value) # Unset

(***************************************************************************)
(* The groups.                                                             *)
(***************************************************************************)
Passkeys == [mode : {"passkey", "full"}, written : BaseUrls, secure : BOOLEAN, host : Hosts, rpId : Hosts \cup {NoHost},
             origin : {NoHost} \cup Hosts, originSecure : BOOLEAN]
ProviderSettings == [googleId : Secrets, googleSecret : Secrets, microsoftId : Secrets, microsoftSecret : Secrets]
Mail == [production : BOOLEAN, provider : {"console", "smtp", "postmark", "brevo"}, credential : Secrets,
         smtp : SmtpUrls, trustProxy : {"true", "address"}]
PlanNames == {"free", "pro", "business"}

PasswordOnly == [mode |-> "password", written |-> "origin", secure |-> TRUE, host |-> <<"com", "example", "watch">>, rpId |-> NoHost,
                 origin |-> NoHost, originSecure |-> TRUE]
NoProviders == [googleId |-> Blank, googleSecret |-> Blank, microsoftId |-> Unset, microsoftSecret |-> Unset]
Google == [NoProviders EXCEPT !.googleId = "set", !.googleSecret = "set"]
Postmark == [production |-> TRUE, provider |-> "postmark", credential |-> "set", smtp |-> "smtp", trustProxy |-> "address"]
NothingSold == [limits |-> {}, limitsParse |-> TRUE, quotas |-> FALSE, default |-> "free", billing |-> FALSE, sold |-> {},
                samePrice |-> FALSE, soldParse |-> TRUE, key |-> Unset, secret |-> Unset,
                terms |-> FALSE, professional |-> FALSE]
SalesOfPlans == {[NothingSold EXCEPT !.limits = limits, !.quotas = quotas, !.default = default, !.billing = billing,
                                     !.sold = sold, !.samePrice = same, !.key = "sk", !.secret = "whsec"] :
                 limits \in SUBSET PlanNames, quotas \in BOOLEAN, default \in {"free", "pro"}, billing \in BOOLEAN,
                 sold \in SUBSET PlanNames, same \in BOOLEAN}
SalesOfKeys == {[NothingSold EXCEPT !.limits = {"free", "pro"}, !.quotas = TRUE, !.billing = TRUE, !.sold = {"pro"},
                                    !.limitsParse = limits, !.soldParse = sold, !.key = key, !.secret = secret,
                                    !.terms = terms, !.professional = professional] :
                limits \in BOOLEAN, sold \in BOOLEAN, key \in {Unset, "sk", "pk"}, secret \in {Unset, "whsec", "other"},
                terms \in BOOLEAN, professional \in BOOLEAN}
Minimal == [auth |-> PasswordOnly, with |-> NoProviders, mail |-> Postmark, sales |-> NothingSold]

ConfigTypeOK == server \in {"down", "refused", "running"} /\ DOMAIN env = DOMAIN Minimal
ConfigInit == env = Minimal /\ server = "down"

(***************************************************************************)
(* What is refused.                                                        *)
(***************************************************************************)
IsLocalhost(host) == host # NoHost /\ Head(host) = "localhost"

\* Mutant: the parent is taken for the child.
WithinDomainReversed(host, domain) == IsPrefix(host, domain)

\* withinDomain: the host itself or a parent of it.
WithinDomain(host, domain) == IsPrefix(domain, host)

RpId(auth) == IF auth.rpId = NoHost THEN auth.host ELSE auth.rpId

\* validateAuth, the passkey part.
PasskeysRefused(auth) ==
    /\ auth.mode # "password"
    /\ \/ ~auth.secure /\ ~IsLocalhost(auth.host)
       \/ ~WithinDomain(auth.host, RpId(auth))
       \/ ~IsLocalhost(RpId(auth)) /\ Len(RpId(auth)) = 1
       \/ auth.origin # NoHost /\ ~auth.originSecure /\ ~IsLocalhost(auth.origin)
       \/ auth.origin # NoHost /\ ~WithinDomain(auth.origin, RpId(auth))

\* Mutant: one half will do.
HalfAProvider(id, secret) == FALSE

\* Half of one is a mistake.
Half(id, secret) == IsSet(id) # IsSet(secret)

ProvidersRefused(mode, with) ==
    /\ mode = "full"
    /\ \/ Half(with.googleId, with.googleSecret) \/ Half(with.microsoftId, with.microsoftSecret)
       \/ ~IsSet(with.googleId) /\ ~IsSet(with.microsoftId)

\* validateEnv: the mail's credential, and what production does not take.
MailRefused(mail) ==
    \/ mail.provider # "console" /\ ~IsSet(mail.credential)
    \/ mail.production /\ (mail.provider = "console" \/ mail.trustProxy = "true")

LimitsOf(sales) == IF sales.limitsParse THEN sales.limits ELSE {}

\* validateEnv, the quotas.
QuotasRefused(sales) ==
    \/ ~sales.limitsParse
    \/ sales.quotas /\ sales.default \notin sales.limits

PriceOf(sales, plan) == IF sales.samePrice THEN "price" ELSE plan

\* Mutant: a price is looked at plan by plan.
SharesAPriceWithItself(sales) == FALSE

SharesAPrice(sales) == \E p, q \in sales.sold : p # q /\ PriceOf(sales, p) = PriceOf(sales, q)

\* validateBilling
BillingRefused(sales) ==
    \/ ~sales.soldParse
    \/ sales.professional /\ ~sales.terms
    \/ /\ sales.billing
       /\ \/ ~sales.quotas \/ sales.key # "sk" \/ sales.secret # "whsec"
          \/ sales.sold = {} \/ ~(sales.sold \subseteq LimitsOf(sales)) \/ sales.default \in sales.sold
          \/ SharesAPrice(sales)

\* validateEnv, production: nothing but localhost is served in clear.
BaseRefused(e) == e.mail.production /\ ~e.auth.secure /\ e.auth.host # Localhost

EnvRefused(e) ==
    \/ BaseRefused(e) \/ PasskeysRefused(e.auth) \/ ProvidersRefused(e.auth.mode, e.with)
    \/ MailRefused(e.mail) \/ QuotasRefused(e.sales) \/ BillingRefused(e.sales)

\* loadConfig throws, or the server starts.
StartServer ==
    /\ server = "down"
    /\ server' = IF EnvRefused(env) THEN "refused" ELSE "running"
    /\ UNCHANGED env

\* One group of settings is changed, the others being right, or put right again.
Edit ==
    /\ server # "down" /\ server' = "down"
    /\ \/ env # Minimal /\ env' = Minimal
       \/ env = Minimal /\ \E auth \in Passkeys : \E with \in {NoProviders, Google}, production \in BOOLEAN :
                  env' = [Minimal EXCEPT !.auth = auth, !.with = with, !.mail.production = production]
       \/ env = Minimal /\ \E with \in ProviderSettings : env' = [Minimal EXCEPT !.auth.mode = "full", !.with = with]
       \/ env = Minimal /\ \E mail \in Mail : env' = [Minimal EXCEPT !.mail = mail]
       \/ env = Minimal /\ \E sales \in SalesOfPlans \cup SalesOfKeys : env' = [Minimal EXCEPT !.sales = sales]

ConfigNext == StartServer \/ Edit
ConfigSpec == ConfigInit /\ [][ConfigNext]_configVars

(***************************************************************************)
(* What the rest of the program makes of it.                               *)
(***************************************************************************)
\* enabledProviders, socialProviders: only with both halves.
ProvidersOffered(e) ==
    {p \in {"google", "microsoft"} : e.auth.mode = "full" /\
        IF p = "google" THEN IsSet(e.with.googleId) /\ IsSet(e.with.googleSecret)
        ELSE IsSet(e.with.microsoftId) /\ IsSet(e.with.microsoftSecret)}

\* A browser makes a passkey on a secure origin, for the origin's host or a registrable
\* parent of it.
BrowserTakes(rpId, host, secure) ==
    /\ secure \/ IsLocalhost(host)
    /\ IsPrefix(rpId, host) /\ (Len(rpId) > 1 \/ rpId = Localhost)

\* trustedOriginsOf, registerAuthRoutes: what is written is compared with what a browser
\* sends.
OriginIsTaken(auth) == auth.written = "origin"

\* EmailService, parseSmtpUrl.
Delivers(mail) ==
    /\ mail.provider # "console" => IsSet(mail.credential)
    /\ mail.provider = "smtp" => mail.smtp = "smtp"
    /\ mail.production => mail.provider # "console"

\* planForPrice
PlansOfPrice(sales, price) == {p \in sales.sold : PriceOf(sales, p) = price}

\* "Refuses to boot on an invalid or unsafe configuration rather than starting in a
\* degraded state": on a server that runs people can sign in from every origin it names,
\* messages leave, and what is sold is one plan, with limits, that nobody starts on.
AcceptedMeansWorking == server = "running" =>
    /\ OriginIsTaken(env.auth)
    /\ env.auth.mode # "password" =>
        /\ BrowserTakes(RpId(env.auth), env.auth.host, env.auth.secure)
        /\ env.auth.origin # NoHost => BrowserTakes(RpId(env.auth), env.auth.origin, env.auth.originSecure)
    /\ env.auth.mode = "full" => ProvidersOffered(env) # {}
    /\ Delivers(env.mail)
    /\ env.sales.quotas => env.sales.default \in LimitsOf(env.sales)
    /\ env.sales.billing => env.sales.quotas /\ \A p \in env.sales.sold :
        /\ PlansOfPrice(env.sales, PriceOf(env.sales, p)) = {p}
        /\ p \in LimitsOf(env.sales) /\ p # env.sales.default
===============================================================================
