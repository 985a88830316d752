--------------------------------- MODULE Audit ---------------------------------
(***************************************************************************)
(* The record of who did what (audit.service.ts): events are written       *)
(* behind the request they are about, take their number when the insert    *)
(* runs and show when it commits; a reader follows the cursor from page to *)
(* page while others write and the retention job purges.                   *)
(***************************************************************************)
EXTENDS Integers, Sequences, FiniteSets, SequencesExt

CONSTANTS
    Writes,      \* events recorded
    People,      \* accounts that act
    MaxKnown,    \* addresses kept in memory: 5000
    PageLimit,   \* rows of a page
    KeepDays,    \* AUDIT_RETENTION_DAYS
    LastAuditDay \* bound

ASSUME AuditAssumption ==
    /\ IsFiniteSet(Writes) /\ MaxKnown \in Nat /\ PageLimit \in Nat \ {0}
    /\ KeepDays \in Nat /\ LastAuditDay \in Nat

VARIABLES
    writing,   \* each event on its way
    eventIds,  \* last number given out
    trail,     \* what can be read
    emails,    \* AuditService.emails: whose address is in memory
    accounts,  \* accounts that exist
    auditDay,
    reading    \* one reader, from the newest page to the oldest

auditVars == <<writing, eventIds, trail, emails, accounts, auditDay, reading>>

Lists == {"project", "account"}
NotWritten == [pc |-> "none"]
NotReading == [pc |-> "idle", list |-> "project", before |-> 0, there |-> {}, shown |-> <<>>]

AuditTypeOK ==
    /\ \A w \in Writes : writing[w].pc \in {"none", "resolve", "insert", "commit", "gone"}
    /\ eventIds \in 0..Cardinality(Writes)
    /\ \A e \in trail : e.id \in 1..eventIds /\ e.list \in Lists /\ e.day \in 0..LastAuditDay
    /\ emails \subseteq People /\ accounts \subseteq People /\ auditDay \in 0..LastAuditDay
    /\ Cardinality(emails) <= MaxKnown + 1
    /\ reading.pc \in {"idle", "reading", "done"}

AuditInit ==
    /\ writing = [w \in Writes |-> NotWritten] /\ eventIds = 0 /\ trail = {} /\ emails = {}
    /\ accounts = People /\ auditDay = 0 /\ reading = NotReading

(***************************************************************************)
(* Writing.                                                                *)
(***************************************************************************)
\* record: the request goes on at once. A caller that knows the address passes it.
Record(w, who, list, given) ==
    /\ writing[w].pc = "none" /\ who \in accounts
    /\ writing' = [writing EXCEPT ![w] =
           [pc |-> IF given THEN "insert" ELSE "resolve", who |-> who, list |-> list, id |-> 0]]
    /\ UNCHANGED <<eventIds, trail, emails, accounts, auditDay, reading>>

\* resolveEmail
ResolveEmail(w) ==
    LET who == writing[w].who
        found == who \in emails \cup accounts IN
    /\ writing[w].pc = "resolve"
    /\ writing' = [writing EXCEPT ![w].pc = "insert"]
    /\ emails' = IF who \in emails \/ ~found THEN emails
                 ELSE (IF Cardinality(emails) > MaxKnown THEN {} ELSE emails) \cup {who}
    /\ UNCHANGED <<eventIds, trail, accounts, auditDay, reading>>

InsertEvent(w) ==
    /\ writing[w].pc = "insert"
    /\ eventIds' = eventIds + 1
    /\ writing' = [writing EXCEPT ![w].pc = "commit", ![w].id = eventIds + 1]
    /\ UNCHANGED <<trail, emails, accounts, auditDay, reading>>

CommitEvent(w) ==
    /\ writing[w].pc = "commit"
    /\ trail' = trail \cup {[id |-> writing[w].id, list |-> writing[w].list, day |-> auditDay]}
    /\ writing' = [writing EXCEPT ![w] = [pc |-> "gone"]]
    /\ UNCHANGED <<eventIds, emails, accounts, auditDay, reading>>

\* A failure is logged and swallowed.
WriteFails(w) ==
    /\ writing[w].pc \in {"resolve", "insert", "commit"}
    /\ writing' = [writing EXCEPT ![w] = [pc |-> "gone"]]
    /\ UNCHANGED <<eventIds, trail, emails, accounts, auditDay, reading>>

DeletePerson(who) ==
    /\ who \in accounts /\ accounts' = accounts \ {who}
    /\ UNCHANGED <<writing, eventIds, trail, emails, auditDay, reading>>

\* purge
PurgeEvents ==
    /\ trail' = {e \in trail : e.day >= auditDay - KeepDays}
    /\ UNCHANGED <<writing, eventIds, emails, accounts, auditDay, reading>>

AuditDayPasses ==
    /\ auditDay < LastAuditDay /\ auditDay' = auditDay + 1
    /\ UNCHANGED <<writing, eventIds, trail, emails, accounts, reading>>

(***************************************************************************)
(* Reading: listForProject, listForUser.                                   *)
(***************************************************************************)
IdsOf(list) == {e.id : e \in {f \in trail : f.list = list}}

\* Mutant: the event the cursor names is shown again.
BeforeOrAt(list, cursor) == {id \in IdsOf(list) : cursor = 0 \/ id <= cursor}

\* Rows below the cursor; none is the first page.
Before(list, cursor) == {id \in IdsOf(list) : cursor = 0 \/ id < cursor}

\* One row more than the page is asked for, to know.
HasMore(rows) == Cardinality(rows) > PageLimit

NewestFirst(rows) == CHOOSE s \in [1..Cardinality(rows) -> rows] : \A i, j \in DOMAIN s : i < j => s[i] > s[j]
PageOf(rows) == LET sorted == NewestFirst(rows) IN IF HasMore(rows) THEN SubSeq(sorted, 1, PageLimit) ELSE sorted

BeginReading(list) ==
    /\ reading.pc # "reading"
    /\ reading' = [NotReading EXCEPT !.pc = "reading", !.list = list, !.there = IdsOf(list)]
    /\ UNCHANGED <<writing, eventIds, trail, emails, accounts, auditDay>>

ReadPage ==
    LET rows == Before(reading.list, reading.before)
        page == PageOf(rows) IN
    /\ reading.pc = "reading"
    /\ reading' = [reading EXCEPT !.shown = @ \o page,
                                  !.before = IF HasMore(rows) THEN Last(page) ELSE 0,
                                  !.pc = IF HasMore(rows) THEN "reading" ELSE "done"]
    /\ UNCHANGED <<writing, eventIds, trail, emails, accounts, auditDay>>

AuditNext ==
    \/ \E w \in Writes :
        \/ \E who \in People, list \in Lists, given \in BOOLEAN : Record(w, who, list, given)
        \/ ResolveEmail(w) \/ InsertEvent(w) \/ CommitEvent(w) \/ WriteFails(w)
    \/ \E who \in People : DeletePerson(who)
    \/ \E list \in Lists : BeginReading(list)
    \/ ReadPage \/ PurgeEvents \/ AuditDayPasses

AuditSpec == AuditInit /\ [][AuditNext]_auditVars

\* "An offset would drift as new events arrive underneath the reader": read to the end,
\* the pages hold every event that was there at first and still is, each once, newest
\* first, whatever was written or purged meanwhile.
ReadingIsWhole ==
    /\ \A i, j \in DOMAIN reading.shown : i < j => reading.shown[i] > reading.shown[j]
    /\ reading.pc = "done" =>
        reading.there \cap IdsOf(reading.list) \subseteq ToSet(reading.shown)
===============================================================================
