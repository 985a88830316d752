------------------------------ MODULE ChecksPage -------------------------------
(***************************************************************************)
(* The page that lists the checks of a project (checks.component.ts,       *)
(* project.store.ts, data-table.ts, checks-filters.ts), and the list it    *)
(* reads from the server page by page while checks come and go. A check is *)
(* a number, later ones first; it is DOWN when the number is even, and has *)
(* an environment when it is odd.                                          *)
(***************************************************************************)
EXTENDS Integers, Sequences, FiniteSets, SequencesExt

CONSTANTS
    Shown,             \* projects of the account
    LastCheck,         \* bound: checks of a project
    ListLimit,         \* PAGE_SIZE
    ListPages,         \* MAX_PAGES
    MayDeleteMidway    \* whether a check may be deleted while it is the cursor of a load

ASSUME ChecksPageAssumption ==
    /\ LastCheck \in Nat /\ ListLimit \in Nat \ {0} /\ ListPages \in Nat \ {0} /\ MayDeleteMidway \in BOOLEAN

VARIABLES
    checks,    \* of each project, on the server
    store,     \* ProjectStore: the projects, the one chosen, whether they are being asked for
    load,      \* the load in flight
    table,     \* DataTable: rows, filters, page
    notice     \* what the page says besides: the list is cut, the last load failed

pageVars == <<checks, store, load, table, notice>>

NothingSelected == "none"
AllEnvironments == ""
NoEnvironment == "__none__"
StateOf(check) == IF check % 2 = 0 THEN "DOWN" ELSE "UP"
EnvironmentOf(check) == IF check % 2 = 0 THEN AllEnvironments ELSE "production"
NoLoad == [on |-> FALSE, project |-> NothingSelected, pages |-> 0, items |-> <<>>, cursor |-> 0, there |-> {}]
EmptyTable == [project |-> NothingSelected, rows |-> <<>>, state |-> "", environment |-> AllEnvironments, page |-> 0]

ChecksPageTypeOK ==
    /\ \A p \in Shown : checks[p] \subseteq 1..LastCheck
    /\ store.all \subseteq Shown /\ store.chosen \in Shown \cup {NothingSelected}
    /\ load.on \in BOOLEAN /\ load.pages \in 0..ListPages /\ ToSet(load.items) \subseteq 1..LastCheck
    /\ ToSet(table.rows) \subseteq 1..LastCheck /\ table.page \in 0..LastCheck
    /\ notice.cut \in BOOLEAN /\ notice.failed \in BOOLEAN

ChecksPageInit ==
    /\ checks = [p \in Shown |-> {}]
    /\ store = [all |-> {}, chosen |-> NothingSelected, loading |-> FALSE]
    /\ load = NoLoad /\ table = EmptyTable /\ notice = [cut |-> FALSE, failed |-> FALSE, there |-> {}]

(***************************************************************************)
(* The server's list: ChecksRepository.list, paginate.                     *)
(***************************************************************************)
LaterFirst(set) == CHOOSE s \in [1..Cardinality(set) -> set] : \A i, j \in DOMAIN s : i < j => s[i] > s[j]

\* The row of the cursor is looked up first: below one that is gone there is nothing.
RowsAfter(project, cursor) ==
    CASE cursor = 0                    -> checks[project]
      [] cursor \in checks[project]    -> {c \in checks[project] : c < cursor}
      [] OTHER                         -> {}

HasAnother(rows) == Cardinality(rows) > ListLimit
ListPage(rows) == LET s == LaterFirst(rows) IN IF HasAnother(rows) THEN SubSeq(s, 1, ListLimit) ELSE s

(***************************************************************************)
(* The project store.                                                      *)
(***************************************************************************)
\* ProjectStore.selected: the first one when nothing, or something gone, is chosen.
SelectedIn(s) == IF s.chosen \in s.all THEN s.chosen
                 ELSE IF s.all = {} THEN NothingSelected ELSE CHOOSE p \in s.all : TRUE
Selected == SelectedIn(store)

\* Mutant: the answer of the load that is replaced still counts.
StartOverBehind(project) == IF load.on THEN load ELSE [NoLoad EXCEPT !.on = TRUE, !.project = project, !.there = checks[project]]

\* reload: what was being fetched is already stale.
StartOver(project) == [NoLoad EXCEPT !.on = TRUE, !.project = project, !.there = checks[project]]

\* A deliberate load, and the effect that follows the picker in the header.
WithProjects(s) ==
    /\ store' = s
    /\ load' = IF SelectedIn(s) \in {Selected, NothingSelected} THEN load ELSE StartOver(SelectedIn(s))

LoadProjects == /\ ~store.loading /\ store.all = {}
                /\ store' = [store EXCEPT !.loading = TRUE] /\ UNCHANGED <<checks, load, table, notice>>
ProjectsArrive(answered) ==
    /\ store.loading
    /\ WithProjects([store EXCEPT !.loading = FALSE, !.all = IF answered THEN Shown ELSE @])
    /\ UNCHANGED <<checks, table, notice>>
SelectProject(p) == p \in store.all /\ WithProjects([store EXCEPT !.chosen = p]) /\ UNCHANGED <<checks, table, notice>>
RemoveShown(p) ==
    /\ p \in store.all /\ store.all # {p}
    /\ WithProjects([store EXCEPT !.all = @ \ {p}, !.chosen = IF @ = p THEN NothingSelected ELSE @])
    /\ UNCHANGED <<checks, table, notice>>
AddProject(p) ==
    /\ store.all # {} /\ p \notin store.all
    /\ WithProjects([store EXCEPT !.all = @ \cup {p}])
    /\ UNCHANGED <<checks, table, notice>>

(***************************************************************************)
(* Loading the checks.                                                     *)
(***************************************************************************)
\* The background refresh finds nothing to add to a load that is still running.
Refresh ==
    /\ Selected # NothingSelected /\ ~load.on
    /\ load' = StartOver(Selected) /\ UNCHANGED <<checks, store, table, notice>>

\* create: the dialog closed on a new check.
CreateCheck(c) ==
    /\ Selected # NothingSelected /\ c \notin checks[Selected]
    /\ \A d \in checks[Selected] : d < c
    /\ checks' = [checks EXCEPT ![Selected] = @ \cup {c}]
    /\ load' = [StartOver(Selected) EXCEPT !.there = checks'[Selected]]
    /\ UNCHANGED <<store, table, notice>>

\* From elsewhere.
CheckGoes(p, c) ==
    /\ c \in checks[p] /\ (load.on /\ load.cursor = c /\ load.project = p => MayDeleteMidway)
    /\ checks' = [checks EXCEPT ![p] = @ \ {c}]
    /\ load' = [load EXCEPT !.there = IF load.project = p THEN @ \ {c} ELSE @]
    /\ notice' = [notice EXCEPT !.there = IF table.project = p THEN @ \ {c} ELSE @]
    /\ UNCHANGED <<store, table>>

\* Mutant: the list is only cut when the last page was full.
CutWhenFull(pages, more) == FALSE

\* `truncated`: the bound was hit with more to come.
Cut(pages, more) == more

\* Mutant: the choice applies whatever is left of it.
EnvironmentAsChosen(rows, chosen) == chosen

\* effectiveEnvironment: a choice that no longer exists is no filter.
EffectiveEnvironment(rows, chosen) ==
    LET have == {EnvironmentOf(c) : c \in rows}
        offered == IF have \ {AllEnvironments} = {} THEN {}
                   ELSE (have \ {AllEnvironments}) \cup (IF AllEnvironments \in have THEN {NoEnvironment} ELSE {})
    IN IF chosen \in offered THEN chosen ELSE AllEnvironments

PageArrives ==
    LET rows == RowsAfter(load.project, load.cursor)
        items == load.items \o ListPage(rows)
        more == HasAnother(rows)
        last == ~more \/ load.pages + 1 >= ListPages IN
    /\ load.on
    /\ IF last
       THEN /\ load' = NoLoad
            /\ table' = [table EXCEPT !.project = load.project, !.rows = items,
                   !.page = IF EffectiveEnvironment(ToSet(items), table.environment)
                               = EffectiveEnvironment(ToSet(table.rows), table.environment) THEN @ ELSE 0]
            /\ notice' = [cut |-> Cut(load.pages + 1, more), failed |-> FALSE, there |-> load.there]
       ELSE /\ load' = [load EXCEPT !.pages = @ + 1, !.items = items, !.cursor = Last(items)]
            /\ UNCHANGED <<table, notice>>
    /\ UNCHANGED <<checks, store>>

LoadFails ==
    /\ load.on /\ load' = NoLoad /\ notice' = [notice EXCEPT !.failed = TRUE]
    /\ UNCHANGED <<checks, store, table>>

(***************************************************************************)
(* The table: broken first, narrowed by state and environment, in pages of *)
(* one row.                                                                *)
(***************************************************************************)
ByUrgency(a, b) == IF StateOf(a) = StateOf(b) THEN a < b ELSE StateOf(a) = "DOWN"
BrokenFirst(set) == CHOOSE s \in [1..Cardinality(set) -> set] : \A i, j \in DOMAIN s : i < j => ByUrgency(s[i], s[j])

MatchesEnvironment(check, environment) ==
    CASE environment = AllEnvironments -> TRUE
      [] environment = NoEnvironment   -> EnvironmentOf(check) = AllEnvironments
      [] OTHER                         -> EnvironmentOf(check) = environment

Matching ==
    LET rows == ToSet(table.rows)
        environment == EffectiveEnvironment(rows, table.environment) IN
    BrokenFirst({c \in rows : table.state \in {"", StateOf(c)} /\ MatchesEnvironment(c, environment)})

\* Mutant: the page stays where it was.
OnPageAsLeft(rows) == IF table.page < Len(rows) THEN <<rows[table.page + 1]>> ELSE <<>>

\* A page past the end is the first one.
OnPage(rows) == IF rows = <<>> THEN <<>> ELSE <<rows[IF table.page < Len(rows) THEN table.page + 1 ELSE 1]>>

\* filterBy, filterByEnvironment: the effect sets the filter again, and with it the first
\* page.
FilterBy(state, environment) ==
    /\ <<state, environment>> # <<table.state, table.environment>>
    /\ table' = [table EXCEPT !.state = state, !.environment = environment, !.page = 0]
    /\ UNCHANGED <<checks, store, load, notice>>

TurnTo(page) ==
    /\ page < Len(Matching) /\ table' = [table EXCEPT !.page = page]
    /\ UNCHANGED <<checks, store, load, notice>>

ChecksPageNext ==
    \/ LoadProjects \/ Refresh \/ PageArrives \/ LoadFails
    \/ \E answered \in BOOLEAN : ProjectsArrive(answered)
    \/ \E p \in Shown : SelectProject(p) \/ RemoveShown(p) \/ AddProject(p)
    \/ \E c \in 1..LastCheck : CreateCheck(c)
    \/ \E p \in Shown, c \in 1..LastCheck : CheckGoes(p, c)
    \/ \E state \in {"", "DOWN"}, environment \in {AllEnvironments, NoEnvironment, "production"} : FilterBy(state, environment)
    \/ \E page \in 0..(LastCheck - 1) : TurnTo(page)

ChecksPageSpec == ChecksPageInit /\ [][ChecksPageNext]_pageVars

(***************************************************************************)
(* Properties.                                                             *)
(***************************************************************************)
\* The rows are those of the project in the header, or the page is loading those, or it
\* says that it could not.
RowsAreOfTheProject ==
    \/ table.project \in {Selected, NothingSelected} \/ Selected = NothingSelected
    \/ load.on /\ load.project = Selected
    \/ notice.failed

\* "A monitoring screen that silently omits checks is exactly the failure this product
\* exists to prevent": what was there when a load began and still is, is in the table
\* once, or the page says that the list is cut.
NothingIsOmittedSilently ==
    /\ notice.cut \/ notice.there \subseteq ToSet(table.rows)
    /\ IsInjective(table.rows)

\* There are results behind the table only if it shows some, and a choice of environment
\* never empties it by being gone.
TableIsNotEmptyForNothing ==
    /\ Matching # <<>> => OnPage(Matching) # <<>>
    /\ table.rows # <<>> /\ table.state = "" => Matching # <<>>
===============================================================================
