------------------------------ MODULE CheckDetail -----------------------------
(***************************************************************************)
(* The page of one check (check-detail.component.ts): every load asks for  *)
(* the check and for its history, and none is taken back when the route    *)
(* goes on to another check, nor when the page asks again. The timeout of  *)
(* the HTTP client bounds how late an answer may be; writes have none.     *)
(* Time passes in steps of REFRESH_INTERVAL_MS.                            *)
(***************************************************************************)
EXTENDS Integers, FiniteSets

CONSTANTS
    Pages,       \* the checks the page may be of
    GetLimit,    \* REQUEST_TIMEOUT_MS
    MaxVisits,   \* bound: times the route changes
    MaxActs      \* bound: writes sent

ASSUME CheckDetailAssumption == GetLimit \in Nat \ {0} /\ MaxVisits \in Nat /\ MaxActs \in Nat

VARIABLES
    route,     \* id
    display,   \* what the page shows: the check, and whose history
    busy,      \* loading
    failed,    \* error
    gets,      \* GETs under way: what of which check, and for how long
    acts,      \* writes under way, by the check they are of
    onRoute,   \* how long the route has not changed, up to GetLimit + 1
    visits, sentActs

detailVars == <<route, display, busy, failed, gets, acts, onRoute, visits, sentActs>>

PageParts == {"check", "history"}
Nothing == "nothing"

CheckDetailTypeOK ==
    /\ route \in Pages /\ display \in [PageParts -> Pages \cup {Nothing}]
    /\ busy \in BOOLEAN /\ failed \in BOOLEAN
    /\ gets \subseteq [what : PageParts, of : Pages, age : 0..GetLimit]
    /\ acts \subseteq Pages /\ onRoute \in 0..GetLimit + 1 /\ visits \in 0..MaxVisits /\ sentActs \in 0..MaxActs

\* load: what it asks for. Two requests of one moment for the same are as good as one.
Asked(page) == {[what |-> what, of |-> page, age |-> 0] : what \in PageParts}

CheckDetailInit ==
    /\ route \in Pages
    /\ display = [what \in PageParts |-> Nothing] /\ busy = TRUE /\ failed = FALSE
    /\ gets = Asked(route) /\ acts = {} /\ onRoute = 0 /\ visits = 0 /\ sentActs = 0

\* The route changes under the page, which loads again.
GoTo(page) ==
    /\ page # route /\ visits < MaxVisits
    /\ route' = page /\ visits' = visits + 1 /\ onRoute' = 0
    /\ busy' = TRUE
    /\ gets' = gets \cup Asked(page)
    /\ UNCHANGED <<display, failed, acts, sentActs>>

\* A GET is answered.
Arrives(get) ==
    /\ get \in gets
    /\ gets' = gets \ {get}
    /\ display' = [display EXCEPT ![get.what] = get.of]
    /\ IF get.what = "check" THEN busy' = FALSE /\ failed' = FALSE ELSE UNCHANGED <<busy, failed>>
    /\ UNCHANGED <<route, acts, onRoute, visits, sentActs>>

\* Mutant: a GET that fails leaves the page as it was.
FailsSilently(get) ==
    /\ get \in gets
    /\ gets' = gets \ {get}
    /\ UNCHANGED <<route, display, busy, failed, acts, onRoute, visits, sentActs>>

\* It fails, or is given up on: only the check's failure is told.
GetFails(get) ==
    /\ get \in gets
    /\ gets' = gets \ {get}
    /\ IF get.what = "check" THEN busy' = FALSE /\ failed' = TRUE ELSE UNCHANGED <<busy, failed>>
    /\ UNCHANGED <<route, display, acts, onRoute, visits, sentActs>>

\* Pause, resume or a new ping URL, of the check that is shown.
SendAct ==
    /\ display["check"] # Nothing /\ sentActs < MaxActs
    /\ sentActs' = sentActs + 1
    /\ acts' = acts \cup {display["check"]}
    /\ UNCHANGED <<route, display, busy, failed, gets, onRoute, visits>>

ActAnswered(page) ==
    /\ page \in acts
    /\ acts' = acts \ {page}
    /\ \/ display' = [display EXCEPT !["check"] = page] /\ UNCHANGED failed
       \/ failed' = TRUE /\ UNCHANGED display
    /\ UNCHANGED <<route, busy, gets, onRoute, visits, sentActs>>

\* Mutant: nothing is ever given up on.
OverdueNever(get) == FALSE

\* timeoutInterceptor: a GET this old has been given up on.
OverdueGet(get) == get.age = GetLimit

\* Every REFRESH_INTERVAL_MS, load(true), which is quiet.
RefreshTimer ==
    /\ \A get \in gets : ~OverdueGet(get)
    /\ gets' = {[get EXCEPT !.age = IF @ = GetLimit THEN @ ELSE @ + 1] : get \in gets} \cup Asked(route)
    /\ onRoute' = IF onRoute > GetLimit THEN onRoute ELSE onRoute + 1
    /\ UNCHANGED <<route, display, busy, failed, acts, visits, sentActs>>

CheckDetailNext ==
    \/ \E page \in Pages : GoTo(page) \/ ActAnswered(page)
    \/ \E get \in gets : Arrives(get) \/ GetFails(get)
    \/ SendAct \/ RefreshTimer

CheckDetailSpec == CheckDetailInit /\ [][CheckDetailNext]_detailVars

(***************************************************************************)
(* Properties.                                                             *)
(***************************************************************************)
\* CheckDetailComponent.load takes nothing back, so an answer that was asked for under
\* another route may overwrite a newer one; but only as long after the route changed as
\* timeoutInterceptor lets a GET hang, and never mixed with writes.
LateAnswersEnd ==
    \A what \in PageParts :
        display'[what] # display[what] /\ display'[what] # route /\ route' = route =>
            onRoute <= GetLimit \/ (what = "check" /\ acts' # acts)

\* loading: while the page says that it is loading, an answer is still to come.
LoadingEnds == busy => \E get \in gets : get.what = "check"
===============================================================================
