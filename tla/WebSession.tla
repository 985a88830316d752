------------------------------ MODULE WebSession -------------------------------
(***************************************************************************)
(* Who the page takes itself to be, and the requests it makes              *)
(* (auth.service.ts, auth.guard.ts, auth.interceptor.ts,                   *)
(* timeout.interceptor.ts, reauth.service.ts, reauth.dialog.ts,            *)
(* sign-in.service.ts, login.component.ts): the session is a cookie the    *)
(* page cannot read, it ends and ages on the server, and what the server   *)
(* refuses for want of a recent sign-in is held while the person signs in  *)
(* again. A provider leaves the page, which ends all of this.              *)
(***************************************************************************)
EXTENDS Integers, FiniteSets

CONSTANTS
    Accounts,        \* that sign in with this browser
    Calls,           \* requests under way at once
    SlowToSignIn     \* whether signing in again may take longer than REQUEST_TIMEOUT_MS

ASSUME WebSessionAssumption == SlowToSignIn \in BOOLEAN

VARIABLES
    cookie,   \* the session behind the cookie: whose it is, whether the sign-in was recent
    live,     \* on the server: whose sessions have not ended
    me,       \* AuthService.currentUser
    screen,   \* the login page, with what it shows, or the application
    restore,  \* GET /me, if it is in flight: who waits for it, or that they "left"
    req,      \* each request: its stage, who asked for it, the session it was sent with
    dialog    \* ReauthService.pending: closed, open, or signing in

webVars == <<cookie, live, me, screen, restore, req, dialog>>

Nobody == "nobody"
NoSession == [who |-> Nobody, fresh |-> FALSE]
Kinds == {"read", "key", "passkey", "delete"}
Reads(kind) == kind \in {"read", "passkey"}
IsAuthRoute(kind) == kind \in {"passkey", "delete"}
NeedsRecentSignIn(kind) == kind # "read"
NoRequest == [pc |-> "none", kind |-> "read", asked |-> Nobody, as |-> NoSession]
InFlight == {"sent", "sent again"}

\* Nothing is kept of a request that is over.
Over(how) == [NoRequest EXCEPT !.pc = how]

WebSessionTypeOK ==
    /\ cookie.who \in Accounts \cup {Nobody} /\ cookie.fresh \in BOOLEAN /\ live \subseteq Accounts /\ me \in Accounts \cup {Nobody}
    /\ screen \in {"login", "signing in", "codes", "application"}
    /\ restore \in {"none", "guard", "login", "dialog", "left"}
    /\ dialog \in {"closed", "open", "signing in"}
    /\ \A r \in Calls : /\ req[r].pc \in InFlight \cup {"none", "held", "done", "refused", "timed out"}
                           /\ req[r].kind \in Kinds

WebSessionInit ==
    /\ cookie = NoSession /\ live = {} /\ me = Nobody /\ screen = "login" /\ restore = "none"
    /\ req = [r \in Calls |-> NoRequest] /\ dialog = "closed"

(***************************************************************************)
(* Signing in and out.                                                     *)
(***************************************************************************)
\* LoginComponent.run, SignInService: a new session in place of the old, then adopt. An
\* account made with a passkey shows its recovery codes, unless they cannot be had.
SignInAs(who) ==
    /\ screen = "login" /\ restore = "none" /\ dialog = "closed"
    /\ cookie' = [who |-> who, fresh |-> TRUE] /\ live' = live \cup {who}
    /\ screen' = "signing in" /\ restore' = "login"
    /\ UNCHANGED <<me, req, dialog>>

ContinueToApp == screen = "codes" /\ screen' = "application" /\ UNCHANGED <<cookie, live, me, restore, req, dialog>>

\* authGuard asks only if the page does not know.
Visit ==
    /\ screen = "login" /\ restore = "none" /\ dialog = "closed"
    /\ IF me # Nobody THEN screen' = "application" /\ UNCHANGED restore
       ELSE restore' = "guard" /\ UNCHANGED screen
    /\ UNCHANGED <<cookie, live, me, req, dialog>>

\* What becomes of those that are held when the dialog closes.
CloseDialog(requests, confirmed) ==
    [r \in Calls |-> IF requests[r].pc # "held" THEN requests[r]
                        ELSE IF confirmed THEN [requests[r] EXCEPT !.pc = "sent again", !.as = cookie]
                        ELSE Over("refused")]

\* It closes without: the sign-in under way in it goes on, and lets nothing through.
Dismissed(requests) ==
    /\ dialog' = "closed" /\ req' = CloseDialog(requests, FALSE)
    /\ restore' = IF restore = "dialog" THEN "left" ELSE restore

\* The page under it changes, and it stays or goes: Angular Material decides.
PageChanges(requests) ==
    \/ req' = requests /\ UNCHANGED <<dialog, restore>>
    \/ Dismissed(requests)

\* restore: one request at a time, however many ask.
Restored(answered) ==
    LET known == IF answered /\ cookie.who \in live THEN cookie.who ELSE Nobody IN
    /\ restore # "none"
    /\ restore' = "none" /\ me' = known
    /\ \/ restore = "left" /\ UNCHANGED <<screen, dialog, req>>
       \/ /\ restore \in {"guard", "login"}
          /\ screen' \in CASE known = Nobody -> {"login"}
                          [] known # Nobody /\ restore = "guard" -> {"application"}
                          [] OTHER -> {"codes", "application", "login"}
          /\ \/ UNCHANGED <<dialog, req>>
             \/ screen' = "application" /\ dialog' = "closed" /\ req' = CloseDialog(req, FALSE)
       \/ /\ restore = "dialog"
          /\ dialog' = IF known # Nobody THEN "closed" ELSE "open"
          /\ req' = IF known # Nobody THEN CloseDialog(req, TRUE) ELSE req
          /\ UNCHANGED screen
    /\ UNCHANGED <<cookie, live>>

\* Fire and forget: the sign-out may not arrive.
Logout(arrives) ==
    /\ screen = "application" /\ dialog = "closed"
    /\ me' = Nobody /\ screen' = "login"
    /\ IF arrives THEN cookie' = NoSession /\ live' = live \ {cookie.who} ELSE UNCHANGED <<cookie, live>>
    /\ UNCHANGED <<restore, req, dialog>>

\* On the server: it runs out, is ended elsewhere, or is no longer recent.
SessionEnds(who) == who \in live /\ live' = live \ {who} /\ UNCHANGED <<cookie, me, screen, restore, req, dialog>>
SessionAges ==
    /\ cookie.fresh /\ cookie' = [cookie EXCEPT !.fresh = FALSE]
    /\ UNCHANGED <<live, me, screen, restore, req, dialog>>

(***************************************************************************)
(* Calls.                                                                  *)
(***************************************************************************)
Ask(r, kind) ==
    /\ screen = "application" /\ dialog = "closed" /\ me # Nobody
    /\ req[r].pc \notin InFlight \cup {"held"}
    /\ req' = [req EXCEPT ![r] = [NoRequest EXCEPT !.pc = "sent", !.kind = kind, !.asked = me, !.as = cookie]]
    /\ UNCHANGED <<cookie, live, me, screen, restore, dialog>>

\* 401 from the API: the session is over, and the page says so. The second time the
\* answer is nobody's but the caller's.
Unauthorised(r) ==
    LET ends == ~IsAuthRoute(req[r].kind) /\ req[r].pc = "sent"
        refused == [req EXCEPT ![r] = Over("refused")] IN
    /\ req[r].pc \in InFlight /\ req[r].as.who \notin live
    /\ IF ends THEN me' = Nobody /\ screen' = "login" /\ PageChanges(refused)
               ELSE req' = refused /\ UNCHANGED <<me, screen, dialog, restore>>
    /\ UNCHANGED <<cookie, live>>

Refusable(r) == NeedsRecentSignIn(req[r].kind) /\ req[r].as.who \in live /\ ~req[r].as.fresh

\* Mutant: every request held for it asks anew, and the dialog lets the last one through.
HeldAlone(r) == [s \in Calls |-> IF s = r THEN [req[s] EXCEPT !.pc = "held"]
                                    ELSE IF req[s].pc = "held" THEN NoRequest ELSE req[s]]

\* confirm: "must ask once and let them all through".
Held(r) == [req EXCEPT ![r].pc = "held"]

\* 403 asking for a recent sign-in.
AsksAgain(r) ==
    /\ req[r].pc = "sent" /\ Refusable(r)
    /\ req' = Held(r) /\ dialog' = IF dialog = "closed" THEN "open" ELSE dialog
    /\ UNCHANGED <<cookie, live, me, screen, restore>>

RefusedAgain(r) ==
    /\ req[r].pc = "sent again" /\ Refusable(r)
    /\ req' = [req EXCEPT ![r] = Over("refused")]
    /\ UNCHANGED <<cookie, live, me, screen, restore, dialog>>

\* The server does it for whose session it is; a key is asked for in a project, and one
\* of somebody else's is refused.
Done(r) ==
    LET kind == req[r].kind
        who == req[r].as.who
        after == [req EXCEPT ![r] = Over(IF kind = "key" /\ who # req[r].asked THEN "refused" ELSE "done")] IN
    /\ req[r].pc \in InFlight /\ who \in live /\ ~Refusable(r)
    /\ IF kind = "delete"
       THEN live' = live \ {who} /\ me' = Nobody /\ screen' = "login" /\ PageChanges(after)
       ELSE req' = after /\ UNCHANGED <<live, me, screen, dialog, restore>>
    /\ UNCHANGED cookie

\* Mutant: writes are given up as well.
GivesUpOnAll(r) == req[r].pc \in InFlight

\* timeoutInterceptor: reads only. It is around the other, and counts on while a
\* request is held.
GivesUpOn(r) == Reads(req[r].kind) /\ req[r].pc \in InFlight \cup (IF SlowToSignIn THEN {"held"} ELSE {})

TimesOut(r) ==
    /\ GivesUpOn(r) /\ req' = [req EXCEPT ![r] = Over("timed out")]
    /\ UNCHANGED <<cookie, live, me, screen, restore, dialog>>

(***************************************************************************)
(* The dialog.                                                             *)
(***************************************************************************)
\* usePasskey: whichever passkey the browser offers; usePassword: the address of the user.
SignInAgain(who) ==
    /\ dialog = "open" /\ restore = "none"
    /\ cookie' = [who |-> who, fresh |-> TRUE] /\ live' = live \cup {who} /\ dialog' = "signing in" /\ restore' = "dialog"
    /\ UNCHANGED <<me, screen, req>>

\* Cancel, which a sign-in under way disables, or Escape, which it does not.
Decline ==
    /\ dialog # "closed" /\ Dismissed(req)
    /\ UNCHANGED <<cookie, live, me, screen>>

WebSessionNext ==
    \/ \E who \in Accounts : SignInAs(who) \/ SignInAgain(who) \/ SessionEnds(who)
    \/ ContinueToApp \/ Visit \/ SessionAges \/ Decline
    \/ \E answered \in BOOLEAN : Restored(answered)
    \/ \E arrives \in BOOLEAN : Logout(arrives)
    \/ \E r \in Calls :
        \/ \E kind \in Kinds : Ask(r, kind)
        \/ Unauthorised(r) \/ AsksAgain(r) \/ RefusedAgain(r) \/ Done(r) \/ TimesOut(r)

WebSessionSpec == WebSessionInit /\ [][WebSessionNext]_webVars

(***************************************************************************)
(* Properties.                                                             *)
(***************************************************************************)
\* "Proof that the person is there now": what was asked for by one account is never done
\* to another that signed in while it was held.
DoneForWhoAsked ==
    [][\A r \in Calls : req[r].pc = "sent again" /\ req'[r].pc = "done" => req[r].as.who = req[r].asked]_webVars

\* "The request is held while they sign in again; if they decline, the refusal is the
\* answer": for as long as one is held there is a dialog to let it through, what is let
\* through follows a sign-in, and nothing else becomes of it. A write is never given up on.
HeldIsAnswered ==
    /\ (\E r \in Calls : req'[r].pc = "held") => dialog' # "closed"
    /\ \A r \in Calls :
        /\ req[r].pc = "held" => req'[r].pc \in {"held", "sent again", "refused"}
        /\ req[r].pc = "held" /\ req'[r].pc = "sent again" => dialog = "signing in" /\ cookie.who \in live
        /\ req'[r].pc = "timed out" => Reads(req[r].kind)
===============================================================================
