-------------------------------- MODULE Sending --------------------------------
(***************************************************************************)
(* One channel and what is sent to it (sender.registry.ts, the senders,    *)
(* email.service.ts, safe-http.service.ts): the target is looked at when   *)
(* the channel is made and again for every request, while its name may     *)
(* resolve to something else each time. The other side answers, redirects, *)
(* breaks off or says nothing.                                             *)
(***************************************************************************)
EXTENDS Integers, FiniteSets

CONSTANTS
    AllowPrivate,  \* ALLOW_PRIVATE_NOTIFICATION_TARGETS
    Provider,      \* EMAIL_PROVIDER
    IdleLimit,     \* NOTIFICATION_TIMEOUT_MS
    MaxAnswers     \* bound: chunks of an answer

ASSUME SendingAssumption ==
    /\ AllowPrivate \in BOOLEAN /\ Provider \in {"smtp", "postmark", "brevo", "console"}
    /\ IdleLimit \in Nat \ {0} /\ MaxAnswers \in Nat

VARIABLES
    target,    \* the channel: its type, the host of its URL, whether its configuration parses
    delivery,  \* the send in progress
    contacted, \* addresses a connection was opened to
    tookIt     \* whether the other side has answered with success, since the send began

sendingVars == <<target, delivery, contacted, tookIt>>

\* An address: how it is written, and the network it is in.
Nets == {"public", "private", "loopback", "link-local", "relay"}
Addresses == [form : {"v4", "v6", "v4 in v6"}, net : Nets]
Literals == [literal : {TRUE}, address : Addresses]
AName == [literal |-> FALSE]
HttpTypes == {"webhook", "slack", "teams", "discord"}
NoTarget == [type |-> "none"]
NotDelivering == [pc |-> "idle", to |-> NoTarget, idle |-> 0, status |-> 0, chunks |-> 0]
Statuses == {200, 302, 404, 500}

SendingTypeOK ==
    /\ target = NoTarget \/ target.type \in HttpTypes \cup {"email"}
    /\ delivery.pc \in {"idle", "lookup", "request", "answer", "ok", "failed"}
    /\ delivery.idle \in 0..IdleLimit /\ delivery.chunks \in 0..MaxAnswers
    /\ contacted \subseteq Addresses /\ tookIt \in BOOLEAN

SendingInit == target = NoTarget /\ delivery = NotDelivering /\ contacted = {} /\ tookIt = FALSE

(***************************************************************************)
(* Which addresses.                                                        *)
(***************************************************************************)
\* buildBlockList: whatever is not routable and public, and whatever carries such an
\* address in it.
BlockedNets == Nets \ {"public"}

\* isAllowedAddress: an IPv4 address in an IPv6 one is taken for what it is.
IsAllowedAddress(address) == AllowPrivate \/ address.net \notin BlockedNets

\* Mutant: a host that needs no lookup is not looked at.
LiteralIsAllowedUnseen(host) == TRUE

\* assertLiteralHostIsAllowed
LiteralIsAllowed(host) == host.literal => IsAllowedAddress(host.address)

\* Mutant: one good address vouches for the others.
AllowedIfAny(addresses) == IF \E a \in addresses : IsAllowedAddress(a) THEN addresses ELSE {}

\* guardedLookup
AllowedAmong(addresses) == {a \in addresses : IsAllowedAddress(a)}

\* What a name resolves to: any few addresses, or nothing.
Resolutions == {s \in SUBSET [form : {"v4", "v6"}, net : {"public", "link-local"}] : Cardinality(s) <= 2}

(***************************************************************************)
(* The channel.                                                            *)
(***************************************************************************)
\* assertTargetIsAllowed: what will never work is refused, what does not resolve is not.
CreateHttpChannel(type, host, resolved) ==
    /\ target = NoTarget /\ type \in HttpTypes
    /\ LiteralIsAllowed(host)
    /\ ~host.literal /\ resolved # {} => AllowedAmong(resolved) # {}
    /\ \E parses \in BOOLEAN : target' = [type |-> type, host |-> host, parses |-> parses]
    /\ UNCHANGED <<delivery, contacted, tookIt>>

CreateEmailChannel ==
    /\ target = NoTarget
    /\ \E parses \in BOOLEAN : target' = [type |-> "email", host |-> AName, parses |-> parses]
    /\ UNCHANGED <<delivery, contacted, tookIt>>

\* ChannelConfigVault: under another key, what is stored does not parse.
KeyIsChanged ==
    /\ target # NoTarget /\ target.parses /\ delivery.pc = "idle"
    /\ target' = [target EXCEPT !.parses = FALSE]
    /\ UNCHANGED <<delivery, contacted, tookIt>>

(***************************************************************************)
(* A send.                                                                 *)
(***************************************************************************)
Fails == delivery' = [delivery EXCEPT !.pc = "failed"]

\* SenderRegistry.get, the sender's parse of the configuration, EmailService.send.
BeginDelivery ==
    /\ target # NoTarget /\ delivery.pc = "idle"
    /\ delivery' = [NotDelivering EXCEPT !.to = target,
           !.pc = CASE ~target.parses -> "failed"
                    [] target.parses /\ target.type = "email" /\ Provider = "console" -> "ok"
                    [] target.parses /\ target.type = "email" /\ Provider = "smtp" -> "answer"
                    [] OTHER -> "lookup"]
    /\ UNCHANGED <<target, contacted, tookIt>>

\* nodemailer, with timeouts of its own.
SmtpAnswers(accepted) ==
    /\ delivery.pc = "answer" /\ delivery.to.type = "email" /\ Provider = "smtp"
    /\ delivery' = [delivery EXCEPT !.pc = IF accepted THEN "ok" ELSE "failed"]
    /\ tookIt' = accepted
    /\ UNCHANGED <<target, contacted>>

\* SafeHttpService.send: a literal is connected to without a lookup.
ConnectLiteral ==
    /\ delivery.pc = "lookup" /\ delivery.to.host.literal
    /\ IF LiteralIsAllowed(delivery.to.host)
       THEN contacted' = contacted \cup {delivery.to.host.address} /\ delivery' = [delivery EXCEPT !.pc = "request"]
       ELSE Fails /\ UNCHANGED contacted
    /\ UNCHANGED <<target, tookIt>>

\* A name is, and any of what the lookup hands over may be connected to.
ConnectName(resolved) ==
    /\ delivery.pc = "lookup" /\ ~delivery.to.host.literal
    /\ IF AllowedAmong(resolved) = {} THEN Fails /\ UNCHANGED contacted
       ELSE \E a \in AllowedAmong(resolved) :
                contacted' = contacted \cup {a} /\ delivery' = [delivery EXCEPT !.pc = "request"]
    /\ UNCHANGED <<target, tookIt>>

\* Mutant: only a server that fails has refused.
RefusedButServerErrors(status) == status >= 500

\* Redirects are not followed.
Refused(status) == status < 200 \/ status >= 300

Answers(status) ==
    /\ delivery.pc = "request"
    /\ IF status \in 300..399 THEN Fails
       ELSE delivery' = [delivery EXCEPT !.pc = "answer", !.status = status, !.idle = 0]
    /\ tookIt' = (status \in 200..299)
    /\ UNCHANGED <<target, contacted>>

\* Each piece of the answer starts the timeout over.
Drips ==
    /\ delivery.pc = "answer" /\ delivery.status # 0 /\ delivery.chunks < MaxAnswers
    /\ delivery' = [delivery EXCEPT !.chunks = @ + 1, !.idle = 0]
    /\ UNCHANGED <<target, contacted, tookIt>>

AnswerEnds ==
    /\ delivery.pc = "answer" /\ delivery.status # 0
    /\ delivery' = [delivery EXCEPT !.pc = IF Refused(delivery.status) THEN "failed" ELSE "ok"]
    /\ UNCHANGED <<target, contacted, tookIt>>

SocketIsSilent ==
    /\ delivery.pc \in {"request", "answer"} /\ delivery.idle < IdleLimit
    /\ delivery' = [delivery EXCEPT !.idle = @ + 1]
    /\ UNCHANGED <<target, contacted, tookIt>>

\* It is destroyed after a while, or breaks off.
SocketErrs ==
    /\ delivery.pc \in {"request", "answer"} /\ Fails
    /\ UNCHANGED <<target, contacted, tookIt>>

\* The queue tries again, or something else is sent.
NextDelivery ==
    /\ delivery.pc \in {"ok", "failed"}
    /\ delivery' = NotDelivering /\ tookIt' = FALSE /\ contacted' = {}
    /\ UNCHANGED target

SendingNext ==
    \/ \E type \in HttpTypes, host \in Literals \cup {AName}, resolved \in Resolutions :
           CreateHttpChannel(type, host, resolved)
    \/ CreateEmailChannel \/ KeyIsChanged
    \/ BeginDelivery \/ ConnectLiteral \/ Drips \/ AnswerEnds \/ SocketIsSilent \/ SocketErrs \/ NextDelivery
    \/ \E accepted \in BOOLEAN : SmtpAnswers(accepted)
    \/ \E resolved \in Resolutions : ConnectName(resolved)
    \/ \E status \in Statuses : Answers(status)

SendingSpec == SendingInit /\ [][SendingNext]_sendingVars

(***************************************************************************)
(* Properties.                                                             *)
(***************************************************************************)
\* SafeHttpService: addresses are vetted "inside the DNS lookup used for the connection",
\* and literals before; whatever a name resolved to before or resolves to next, nothing
\* but a public address is ever connected to.
OnlyVettedAreContacted == ~AllowPrivate => \A a \in contacted : a.net = "public"

\* "Either succeeds or throws": what the queue takes for sent was taken by the other
\* side, and what went astray, was redirected, or has no readable configuration was not.
SentMeansTaken == delivery.pc = "ok" => tookIt
===============================================================================
