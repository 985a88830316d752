---------------------------- MODULE OverlapsProofs -----------------------------
(***************************************************************************)
(* What is done twice at once stays sound, for any persons, connections,   *)
(* instances, ceilings and lifetimes: first the registrations, then the    *)
(* sign-ins, then these and the queue under the specification that runs    *)
(* either of them.                                                         *)
(***************************************************************************)
EXTENDS MCOverlaps, QueueProofs, FiniteSetTheorems, TLAPS

-----------------------------------------------------------------------------
(***************************************************************************)
(* Registrations.                                                          *)
(***************************************************************************)

\* A registration that has an account, which nobody has deleted since.
HasAccount(v) == visit[v].pc \in {"created", "attach", "session"} /\ ~visit[v].deleted

(***************************************************************************)
(* Who an account is of is settled when it is inserted: until then nobody  *)
(* has a way in, and all who go on with it are the one person.             *)
(***************************************************************************)
AccountsHaveOwners ==
    /\ OnePersonPerAccount
    /\ mode # "full" => \A e \in Persons : \A way \in users[e].ways : way[2] = e
    /\ \A e \in Persons : users[e].verified => \A way \in users[e].ways : way[2] = e

RegistrationsHaveOwners ==
    \A v \in Visitors :
        /\ mode # "full" /\ visit[v].pc # "none" => visit[v].by = visit[v].email
        /\ mode = "full" /\ visit[v].pc # "none" => visit[v].pc # "ceremony" /\ visit[v].provider # "none"
        /\ visit[v].pc # "none" => Vouched(visit[v].provider, visit[v].email, visit[v].by)
        /\ HasAccount(v) =>
             LET e == visit[v].email IN
             /\ Exist(e)
             /\ \A way \in users[e].ways : way[2] = visit[v].by
             /\ users[e].verified => visit[v].by = e
             /\ \A w \in Visitors : HasAccount(w) /\ visit[w].email = e => visit[w].by = visit[v].by

\* Who has not counted as a sign-up yet, of those who tried.
ToCount == {v \in Visitors : visit[v].pc \in {"ceremony", "insert", "created"}}

OwnersInv ==
    /\ SignUpTypeOK
    /\ AccountsHaveOwners
    /\ RegistrationsHaveOwners
    /\ accepted + Cardinality(ToCount) <= attempts

VisitRows == [pc : {"none", "ceremony", "insert", "created", "attach", "session"},
              email : Persons, by : Persons, from : Connections \cup {"nowhere"},
              token : 0..MaxLinks, provider : Providers, deleted : BOOLEAN]

UserRows == [exists : BOOLEAN, from : Connections \cup {"nowhere"}, ways : SUBSET Ways,
             verified : BOOLEAN, used : BOOLEAN]

LEMMA VisitMoves ==
    ASSUME visit \in [Visitors -> VisitRows], NEW v \in Visitors,
           NEW pc \in {"none", "ceremony", "insert", "created", "attach", "session"},
           visit' = [visit EXCEPT ![v].pc = pc]
    PROVE  /\ visit' \in [Visitors -> VisitRows]
           /\ \A w \in Visitors : w # v => visit'[w] = visit[w]
           /\ visit'[v].pc = pc /\ visit'[v].email = visit[v].email /\ visit'[v].by = visit[v].by
           /\ visit'[v].from = visit[v].from /\ visit'[v].token = visit[v].token
           /\ visit'[v].provider = visit[v].provider /\ visit'[v].deleted = visit[v].deleted
BY DEF VisitRows

LEMMA VisitEnds ==
    ASSUME visit \in [Visitors -> VisitRows], NEW v \in Visitors, visit' = [visit EXCEPT ![v] = NoVisit]
    PROVE  /\ visit' \in [Visitors -> VisitRows]
           /\ \A w \in Visitors : w # v => visit'[w] = visit[w]
           /\ visit'[v].pc = "none"
BY SignUpAssumption DEF VisitRows, NoVisit, Providers

\* An account that was not there is given to one person, or it changes in their hands.
LEMMA UserChanges ==
    ASSUME users \in [Persons -> UserRows], NEW e \in Persons, NEW row \in UserRows,
           users' = [users EXCEPT ![e] = row]
    PROVE  /\ users' \in [Persons -> UserRows]
           /\ \A f \in Persons : f # e => users'[f] = users[f]
           /\ users'[e] = row
OBVIOUS

LEMMA NoUserIsRow == NoUser \in UserRows
BY DEF NoUser, UserRows

SignUpTypes ==
    /\ mode \in Modes
    /\ users \in [Persons -> UserRows]
    /\ \A e \in Persons : ~Exist(e) => users[e] = NoUser
    /\ links \subseteq 1..issued /\ issued \in 0..MaxLinks
    /\ accepted \in 0..MaxSubmits
    /\ visit \in [Visitors -> VisitRows]
    /\ attempts \in 0..MaxSubmits

LEMMA SignUpTypesAre == (SignUpTypeOK <=> SignUpTypes) /\ (SignUpTypeOK' <=> SignUpTypes')
BY DEF SignUpTypeOK, SignUpTypes, VisitRows, UserRows, Exist

\* Accounts stay of whom they were of.
LEMMA RegistrationsGoOn ==
    ASSUME RegistrationsHaveOwners, mode' = mode,
           \A w \in Visitors : visit[w] \in VisitRows,
           \A w \in Visitors : visit'[w].pc # "none"
              => /\ visit[w].pc # "none"
                 /\ visit'[w].email = visit[w].email /\ visit'[w].by = visit[w].by
                 /\ visit'[w].provider = visit[w].provider
                 /\ visit'[w].pc = "ceremony" => visit[w].pc = "ceremony",
           \A w \in Visitors : HasAccount(w)' => HasAccount(w) \/ mode # "full",
           \A w \in Visitors : HasAccount(w)' =>
              /\ users'[visit[w].email].exists
              /\ \A way \in users'[visit[w].email].ways : way[2] = visit[w].by
              /\ users'[visit[w].email].verified => visit[w].by = visit[w].email
    PROVE  RegistrationsHaveOwners'
<1> SUFFICES ASSUME NEW v \in Visitors
             PROVE  /\ mode' # "full" /\ visit'[v].pc # "none" => visit'[v].by = visit'[v].email
                    /\ mode' = "full" /\ visit'[v].pc # "none" => visit'[v].pc # "ceremony" /\ visit'[v].provider # "none"
                    /\ visit'[v].pc # "none" => Vouched(visit'[v].provider, visit'[v].email, visit'[v].by)
                    /\ HasAccount(v)' =>
                        /\ users'[visit'[v].email].exists
                        /\ \A way \in users'[visit'[v].email].ways : way[2] = visit'[v].by
                        /\ users'[visit'[v].email].verified => visit'[v].by = visit'[v].email
                        /\ \A w \in Visitors :
                             HasAccount(w)' /\ visit'[w].email = visit'[v].email => visit'[w].by = visit'[v].by
  BY DEF RegistrationsHaveOwners, Exist, Vouched
<1>1. \A w \in Visitors : HasAccount(w)' => visit'[w].pc # "none"
  BY DEF HasAccount
<1>2. HasAccount(v)' => \A w \in Visitors :
        HasAccount(w)' /\ visit'[w].email = visit'[v].email => visit'[w].by = visit'[v].by
  <2> SUFFICES ASSUME HasAccount(v)', NEW w \in Visitors, HasAccount(w)', visit'[w].email = visit'[v].email
               PROVE  visit'[w].by = visit'[v].by
    OBVIOUS
  <2>1. visit[w].email = visit[v].email /\ visit[v].pc # "none" /\ visit[w].pc # "none"
    BY <1>1
  <2>2. visit[w].by = visit[v].by
    <3>1. CASE mode # "full"
      BY <2>1, <3>1 DEF RegistrationsHaveOwners
    <3>2. CASE mode = "full"
      BY <2>1, <3>2 DEF RegistrationsHaveOwners
    <3> QED
      BY <3>1, <3>2
  <2> QED
    BY <1>1, <2>2
<1>3. HasAccount(v)' =>
        /\ users'[visit'[v].email].exists
        /\ \A way \in users'[visit'[v].email].ways : way[2] = visit'[v].by
        /\ users'[visit'[v].email].verified => visit'[v].by = visit'[v].email
  <2>1. HasAccount(v)' => visit'[v].email = visit[v].email /\ visit'[v].by = visit[v].by
    BY <1>1
  <2> QED
    BY Zenon, <2>1
<1>4. visit'[v].pc # "none" => Vouched(visit'[v].provider, visit'[v].email, visit'[v].by)
  BY DEF RegistrationsHaveOwners
<1>5. /\ mode' # "full" /\ visit'[v].pc # "none" => visit'[v].by = visit'[v].email
      /\ mode' = "full" /\ visit'[v].pc # "none" => visit'[v].pc # "ceremony" /\ visit'[v].provider # "none"
  BY DEF RegistrationsHaveOwners
<1> QED
  BY <1>2, <1>3, <1>4, <1>5

LEMMA ToCountIsFinite ==
    /\ IsFiniteSet(ToCount) /\ Cardinality(ToCount) \in Nat
    /\ IsFiniteSet(ToCount') /\ Cardinality(ToCount') \in Nat
BY SignUpAssumption, FS_Subset, FS_CardinalityType DEF ToCount

LEMMA NoMoreToCount ==
    ASSUME ToCount' \subseteq ToCount
    PROVE  Cardinality(ToCount') <= Cardinality(ToCount)
BY ToCountIsFinite, FS_Subset

\* Somebody asks to register.
LEMMA Registers ==
    ASSUME OwnersInv, mode' = mode, NEW v \in Visitors, NEW e \in Persons, NEW by \in Persons, NEW c \in Connections,
           NEW provider \in Providers, NEW pc \in {"ceremony", "insert"},
           Begin(v, e, by, c, provider, pc), Vouched(provider, e, by),
           mode # "full" => by = e, mode = "full" => pc = "insert" /\ provider # "none"
    PROVE  OwnersInv'
<1>1. SignUpTypes
  BY SignUpTypesAre DEF OwnersInv
<1>2. PICK token \in 0..issued :
        visit' = [visit EXCEPT ![v] = [pc |-> pc, email |-> e, by |-> by, from |-> c, token |-> token,
                                       provider |-> provider, deleted |-> FALSE]]
  BY DEF Begin
<1>3. UNCHANGED <<mode, users, links, issued, accepted>> /\ visit[v] = NoVisit
      /\ attempts < MaxSubmits /\ attempts' = attempts + 1
  BY DEF Begin
<1>4. /\ \A w \in Visitors : w # v => visit'[w] = visit[w]
      /\ visit'[v].pc = pc /\ visit'[v].email = e /\ visit'[v].by = by /\ visit'[v].provider = provider
  BY <1>1, <1>2 DEF SignUpTypes
<1>5. SignUpTypeOK'
  <2>1. token \in 0..MaxLinks
    BY <1>1, <1>2, SignUpAssumption DEF SignUpTypes
  <2>2. visit' \in [Visitors -> VisitRows]
    BY <1>1, <1>2, <2>1 DEF SignUpTypes, VisitRows
  <2>3. attempts' \in 0..MaxSubmits
    BY <1>1, <1>3, SignUpAssumption DEF SignUpTypes
  <2> QED
    BY <1>1, <1>3, <2>2, <2>3, SignUpTypesAre DEF SignUpTypes, Exist
<1>6. AccountsHaveOwners'
  BY <1>3 DEF OwnersInv, AccountsHaveOwners, OnePersonPerAccount
<1>7. ASSUME NEW w \in Visitors, HasAccount(w)'
      PROVE  w # v /\ HasAccount(w) /\ visit'[w] = visit[w]
  BY <1>4, <1>7 DEF HasAccount
<1>8. RegistrationsHaveOwners'
  <2>1. ASSUME NEW u \in Visitors
        PROVE  /\ mode' # "full" /\ visit'[u].pc # "none" => visit'[u].by = visit'[u].email
               /\ mode' = "full" /\ visit'[u].pc # "none" => visit'[u].pc # "ceremony" /\ visit'[u].provider # "none"
               /\ visit'[u].pc # "none" => Vouched(visit'[u].provider, visit'[u].email, visit'[u].by)
    BY <1>3, <1>4 DEF OwnersInv, RegistrationsHaveOwners
  <2>2. ASSUME NEW u \in Visitors, HasAccount(u)'
        PROVE  /\ users'[visit'[u].email].exists
               /\ \A way \in users'[visit'[u].email].ways : way[2] = visit'[u].by
               /\ users'[visit'[u].email].verified => visit'[u].by = visit'[u].email
    BY <1>3, <1>7, <2>2 DEF OwnersInv, RegistrationsHaveOwners, Exist
  <2>3. ASSUME NEW u \in Visitors, HasAccount(u)', NEW w \in Visitors, HasAccount(w)', visit'[w].email = visit'[u].email
        PROVE  visit'[w].by = visit'[u].by
    BY <1>7, <2>3 DEF OwnersInv, RegistrationsHaveOwners
  <2> QED
    BY <2>1, <2>2, <2>3 DEF RegistrationsHaveOwners, Exist, Vouched
<1>9. accepted' + Cardinality(ToCount') <= attempts'
  <2>1. ToCount' = ToCount \cup {v} /\ v \notin ToCount
    BY <1>3, <1>4 DEF ToCount, NoVisit
  <2>2. Cardinality(ToCount') = Cardinality(ToCount) + 1
    BY <2>1, ToCountIsFinite, FS_AddElement
  <2> QED
    BY <1>1, <1>3, <2>2, ToCountIsFinite DEF OwnersInv, SignUpTypes
<1> QED
  BY <1>5, <1>6, <1>8, <1>9 DEF OwnersInv

\* A registration goes on without touching its account, or ends.
LEMMA RegistrationMoves ==
    ASSUME OwnersInv, NEW v \in Visitors, Verify(v) \/ Created(v) \/ Stop(v)
    PROVE  OwnersInv'
<1>1. SignUpTypes
  BY SignUpTypesAre DEF OwnersInv
<1>2. UNCHANGED <<mode, users, issued, attempts>> /\ links' \subseteq links
  BY DEF Verify, Created, Stop
<1>3. /\ visit' \in [Visitors -> VisitRows]
      /\ \A w \in Visitors : w # v => visit'[w] = visit[w]
      /\ visit'[v].pc # "none" =>
           /\ visit'[v].pc \in {"insert", "attach"} /\ visit[v].pc # "none"
           /\ visit'[v].email = visit[v].email /\ visit'[v].by = visit[v].by
           /\ visit'[v].provider = visit[v].provider /\ visit'[v].deleted = visit[v].deleted
           /\ visit'[v].pc = "insert" => visit[v].pc = "ceremony"
           /\ visit'[v].pc = "attach" => \/ visit[v].pc = "created"
                                         \/ visit[v].pc = "ceremony" /\ Exist(visit[v].email)
  <2>1. CASE visit' = [visit EXCEPT ![v] = NoVisit]
    BY <1>1, <2>1, VisitEnds DEF SignUpTypes
  <2>2. CASE /\ visit' = [visit EXCEPT ![v].pc = "insert"]
             /\ visit[v].pc = "ceremony"
    BY <1>1, <2>2, VisitMoves DEF SignUpTypes
  <2>3. CASE /\ visit' = [visit EXCEPT ![v].pc = "attach"]
             /\ visit[v].pc = "created" \/ (visit[v].pc = "ceremony" /\ Exist(visit[v].email))
    BY <1>1, <2>3, VisitMoves DEF SignUpTypes
  <2>4. CASE Verify(v)
    <3>1. PICK next \in {"attach", "insert", "none"} :
            /\ visit' = [visit EXCEPT ![v] = IF next = "none" THEN NoVisit ELSE [@ EXCEPT !.pc = next]]
            /\ next = "attach" => Exist(visit[v].email)
      <4>1. CASE Exist(visit[v].email) /\ IsUnfinished(visit[v].email)
        BY <2>4, <4>1 DEF Verify
      <4>2. CASE ~Exist(visit[v].email) /\ Decide(visit[v].email, visit[v].from, visit[v].token)
        BY <2>4, <4>2 DEF Verify
      <4>3. CASE /\ ~(Exist(visit[v].email) /\ IsUnfinished(visit[v].email))
                 /\ ~(~Exist(visit[v].email) /\ Decide(visit[v].email, visit[v].from, visit[v].token))
        BY <2>4, <4>3 DEF Verify
      <4> QED
        BY <4>1, <4>2, <4>3
    <3>2. visit[v].pc = "ceremony"
      BY <2>4 DEF Verify
    <3> QED
      BY <2>1, <2>2, <2>3, <3>1, <3>2
  <2>5. CASE Created(v)
    <3>1. visit' = [visit EXCEPT ![v].pc = "attach"] /\ visit[v].pc = "created"
      BY <2>5 DEF Created
    <3> QED
      BY <2>3, <3>1
  <2>6. CASE Stop(v)
    BY <2>1, <2>6 DEF Stop
  <2> QED
    BY <2>4, <2>5, <2>6
<1>4. /\ visit'[v].pc \in {"none", "insert", "attach"}
      /\ HasAccount(v)' => visit[v].pc # "none" /\ Exist(visit[v].email) /\ (HasAccount(v) \/ mode # "full")
  <2>1. visit'[v].pc \in {"none", "insert", "attach"}
    BY <1>3
  <2>2. ASSUME HasAccount(v)'
        PROVE  visit[v].pc # "none" /\ Exist(visit[v].email) /\ (HasAccount(v) \/ mode # "full")
    <3>1. visit'[v].pc = "attach" /\ ~visit'[v].deleted
      BY <2>1, <2>2 DEF HasAccount
    <3>2. CASE visit[v].pc = "created"
      <4>1. HasAccount(v)
        BY <1>3, <3>1, <3>2 DEF HasAccount
      <4> QED
        BY <3>2, <4>1 DEF OwnersInv, RegistrationsHaveOwners
    <3>3. CASE visit[v].pc = "ceremony" /\ Exist(visit[v].email)
      BY <3>3 DEF OwnersInv, RegistrationsHaveOwners
    <3> QED
      BY <1>3, <3>1, <3>2, <3>3
  <2> QED
    BY <2>1, <2>2
<1>5. RegistrationsHaveOwners'
  <2>1. \A w \in Visitors : visit'[w].pc # "none"
              => /\ visit[w].pc # "none"
                 /\ visit'[w].email = visit[w].email /\ visit'[w].by = visit[w].by
                 /\ visit'[w].provider = visit[w].provider
                 /\ visit'[w].pc = "ceremony" => visit[w].pc = "ceremony"
    BY <1>3, <1>4
  <2>2. \A w \in Visitors : HasAccount(w)' => HasAccount(w) \/ mode # "full"
    BY <1>3, <1>4 DEF HasAccount
  <2>3. ASSUME NEW w \in Visitors, HasAccount(w)'
        PROVE  /\ users'[visit[w].email].exists
               /\ \A way \in users'[visit[w].email].ways : way[2] = visit[w].by
               /\ users'[visit[w].email].verified => visit[w].by = visit[w].email
    <3>1. visit[w].email \in Persons /\ visit[w].pc # "none"
      BY <1>1, <1>3, <1>4, <2>3 DEF SignUpTypes, VisitRows, HasAccount
    <3>2. users'[visit[w].email].exists
      BY <1>2, <1>3, <1>4, <2>3 DEF HasAccount, OwnersInv, RegistrationsHaveOwners, Exist
    <3>3. CASE mode # "full"
      BY <1>2, <3>1, <3>2, <3>3 DEF OwnersInv, AccountsHaveOwners, RegistrationsHaveOwners
    <3>4. CASE mode = "full"
      BY <1>2, <2>2, <2>3, <3>2, <3>4 DEF OwnersInv, RegistrationsHaveOwners
    <3> QED
      BY <3>3, <3>4
  <2> QED
    BY <1>1, <1>2, <2>1, <2>2, <2>3, RegistrationsGoOn DEF OwnersInv, SignUpTypes
<1>6. /\ accepted' \in Nat /\ accepted' + Cardinality(ToCount') <= attempts'
  <2>1. ToCount' \subseteq ToCount
    BY <1>3, <1>4 DEF ToCount
  <2>2. CASE accepted' = accepted
    BY <1>1, <1>2, <2>1, <2>2, NoMoreToCount, ToCountIsFinite DEF OwnersInv, SignUpTypes
  <2>3. CASE accepted' = accepted + 1 /\ Created(v)
    <3>1. v \in ToCount /\ v \notin ToCount'
      BY <1>1, <2>3, VisitMoves DEF Created, ToCount, SignUpTypes
    <3>2. ToCount' \subseteq ToCount \ {v}
      BY <2>1, <3>1
    <3>3. /\ IsFiniteSet(ToCount \ {v})
          /\ Cardinality(ToCount \ {v}) = Cardinality(ToCount) - 1
      BY <3>1, ToCountIsFinite, FS_RemoveElement
    <3>4. Cardinality(ToCount') <= Cardinality(ToCount) - 1
      BY <3>2, <3>3, FS_Subset
    <3> QED
      BY <1>1, <1>2, <2>3, <3>4, ToCountIsFinite DEF OwnersInv, SignUpTypes
  <2> QED
    BY <2>2, <2>3 DEF Verify, Created, Stop
<1>7. SignUpTypeOK'
  <2>1. accepted' \in 0..MaxSubmits
    BY <1>1, <1>2, <1>6, ToCountIsFinite, SignUpAssumption DEF SignUpTypes
  <2> QED
    BY <1>1, <1>2, <1>3, <2>1, SignUpTypesAre DEF SignUpTypes, Exist
<1> QED
  BY <1>2, <1>5, <1>6, <1>7 DEF OwnersInv, AccountsHaveOwners, OnePersonPerAccount

\* Nobody moves, and the accounts that are there change in their owner's hands.
LEMMA OwnersChange ==
    ASSUME OwnersInv, NEW e \in Persons,
           LinkProvider(e) \/ LetIn(e) \/ VerifyEmail(e) \/ LosePasskeys(e)
    PROVE  OwnersInv'
<1>1. SignUpTypes
  BY SignUpTypesAre DEF OwnersInv
<1>2. UNCHANGED <<mode, links, issued, accepted, visit, attempts>>
  BY DEF LinkProvider, LetIn, VerifyEmail, LosePasskeys
<1>3. users[e].exists
  <2>1. CASE LosePasskeys(e)
    BY <1>1, <2>1 DEF LosePasskeys, SignUpTypes, Exist, NoUser
  <2> QED
    BY <2>1 DEF LinkProvider, LetIn, VerifyEmail, Exist
<1>4. /\ users' \in [Persons -> UserRows]
      /\ \A f \in Persons : f # e => users'[f] = users[f]
      /\ users'[e].exists
      /\ users'[e].verified => users[e].verified \/ VerifyEmail(e)
      /\ \A way \in users'[e].ways : way \in users[e].ways \/ way[2] = e
      /\ users'[e].ways \subseteq users[e].ways \/ users[e].verified \/ mode # "full"
  <2>1. users[e] \in UserRows
    BY <1>1 DEF SignUpTypes
  <2>2. CASE LinkProvider(e)
    <3>1. <<"google", e>> \in Ways
      BY DEF Ways
    <3>2. users' = [users EXCEPT ![e] = [users[e] EXCEPT !.ways = @ \cup {<<"google", e>>}, !.used = TRUE]]
      BY <1>1, <2>2 DEF LinkProvider, SignUpTypes
    <3> QED
      BY <1>1, <1>3, <2>1, <2>2, <3>1, <3>2 DEF SignUpTypes, UserRows, LinkProvider
  <2>3. CASE LetIn(e)
    <3>1. PICK kind \in {"recovery code", "password"} :
            users' = [users EXCEPT ![e].ways = @ \cup {<<kind, e>>}]
      BY <2>3 DEF LetIn
    <3>2. <<kind, e>> \in Ways
      BY DEF Ways
    <3>3. [users[e] EXCEPT !.ways = @ \cup {<<kind, e>>}] \in UserRows
      BY <2>1, <3>2 DEF UserRows
    <3>4. /\ users' \in [Persons -> UserRows]
          /\ \A f \in Persons : f # e => users'[f] = users[f]
          /\ users'[e] = [users[e] EXCEPT !.ways = @ \cup {<<kind, e>>}]
      BY <1>1, <3>1, <3>3 DEF SignUpTypes
    <3>5. mode # "full"
      BY <2>3 DEF LetIn
    <3>6. /\ users'[e].exists = users[e].exists /\ users'[e].verified = users[e].verified
          /\ users'[e].ways = users[e].ways \cup {<<kind, e>>}
      BY <2>1, <3>4 DEF UserRows
    <3>7. \A way \in users'[e].ways : way \in users[e].ways \/ way[2] = e
      <4>1. <<kind, e>>[2] = e
        OBVIOUS
      <4> QED
        BY Zenon, <3>6, <4>1
    <3> QED
      BY Zenon, <1>3, <3>4, <3>5, <3>6, <3>7
  <2>4. CASE VerifyEmail(e)
    BY <1>1, <1>3, <2>1, <2>4 DEF SignUpTypes, UserRows, VerifyEmail
  <2>5. CASE LosePasskeys(e)
    BY <1>1, <1>3, <2>1, <2>5 DEF SignUpTypes, UserRows, LosePasskeys
  <2> QED
    BY <2>2, <2>3, <2>4, <2>5
<1>5. SignUpTypeOK'
  BY <1>1, <1>2, <1>4, SignUpTypesAre DEF SignUpTypes, Exist
<1>6. AccountsHaveOwners'
  <2>1. ASSUME users[e].verified \/ VerifyEmail(e) \/ mode # "full"
        PROVE  \A way \in users'[e].ways : way[2] = e
    BY <1>4, <2>1 DEF OwnersInv, AccountsHaveOwners, VerifyEmail
  <2>2. \A a, b \in users'[e].ways : a[2] = b[2]
    <3>1. CASE users[e].verified \/ mode # "full"
      BY <2>1, <3>1
    <3>2. CASE users'[e].ways \subseteq users[e].ways
      BY <3>2 DEF OwnersInv, AccountsHaveOwners, OnePersonPerAccount
    <3> QED
      BY <1>4, <3>1, <3>2
  <2> QED
    BY <1>2, <1>4, <2>1, <2>2 DEF OwnersInv, AccountsHaveOwners, OnePersonPerAccount
<1>7. RegistrationsHaveOwners'
  <2>1. ASSUME NEW w \in Visitors, HasAccount(w)
        PROVE  /\ users'[visit[w].email].exists
               /\ \A way \in users'[visit[w].email].ways : way[2] = visit[w].by
               /\ users'[visit[w].email].verified => visit[w].by = visit[w].email
    <3>1. /\ visit[w].email \in Persons /\ visit[w].pc # "none"
          /\ users[visit[w].email].exists
          /\ \A way \in users[visit[w].email].ways : way[2] = visit[w].by
          /\ users[visit[w].email].verified => visit[w].by = visit[w].email
          /\ mode # "full" => visit[w].by = visit[w].email
      BY <1>1, <2>1 DEF OwnersInv, RegistrationsHaveOwners, SignUpTypes, VisitRows, HasAccount, Exist
    <3>2. VerifyEmail(e) /\ visit[w].email = e => visit[w].by = e
      BY DEF VerifyEmail
    <3>3. CASE visit[w].email # e
      BY <1>4, <3>1, <3>3
    <3>4. CASE visit[w].email = e
      <4>1. users'[e].verified => visit[w].by = e
        BY <1>4, <3>1, <3>2, <3>4
      <4>2. \A way \in users'[e].ways : way[2] = visit[w].by
        BY <1>4, <3>1, <3>4
      <4> QED
        BY <1>4, <3>4, <4>1, <4>2
    <3> QED
      BY <3>3, <3>4
  <2>2. \A w \in Visitors : HasAccount(w)' => HasAccount(w)
    BY <1>2 DEF HasAccount
  <2> QED
    BY <1>1, <1>2, <2>1, <2>2, RegistrationsGoOn DEF OwnersInv, SignUpTypes
<1>8. ToCount' = ToCount
  BY <1>2 DEF ToCount
<1> QED
  BY <1>2, <1>5, <1>6, <1>7, <1>8 DEF OwnersInv

\* An account nobody has is given to whoever registers.
LEMMA OwnersAppear ==
    ASSUME OwnersInv, NEW v \in Visitors, Insert(v)
    PROVE  OwnersInv'
<1> DEFINE e == visit[v].email
<1>1. SignUpTypes
  BY SignUpTypesAre DEF OwnersInv
<1>2. UNCHANGED <<mode, links, issued, accepted, attempts>> /\ visit[v].pc = "insert"
  BY DEF Insert
<1>3. visit[v] \in VisitRows /\ e \in Persons
  BY <1>1 DEF SignUpTypes, VisitRows
<1>4. CASE Exist(e)
  <2>1. /\ visit' \in [Visitors -> VisitRows] /\ UNCHANGED users
        /\ \A w \in Visitors : w # v => visit'[w] = visit[w]
        /\ visit'[v].pc = "none"
    BY <1>1, <1>4, VisitEnds DEF Insert, SignUpTypes
  <2>2. RegistrationsHaveOwners'
    <3>1. \A w \in Visitors : HasAccount(w)' => w # v /\ HasAccount(w)
      BY <2>1 DEF HasAccount
    <3>2. \A w \in Visitors : HasAccount(w)' =>
              /\ users'[visit[w].email].exists
              /\ \A way \in users'[visit[w].email].ways : way[2] = visit[w].by
              /\ users'[visit[w].email].verified => visit[w].by = visit[w].email
      BY <2>1, <3>1 DEF OwnersInv, RegistrationsHaveOwners, Exist
    <3> QED
      BY <1>1, <1>2, <2>1, <3>1, <3>2, RegistrationsGoOn DEF OwnersInv, SignUpTypes
  <2>3. accepted' + Cardinality(ToCount') <= attempts'
    <3>1. ToCount' \subseteq ToCount
      BY <2>1 DEF ToCount
    <3> QED
      BY <1>1, <1>2, <3>1, NoMoreToCount, ToCountIsFinite DEF OwnersInv, SignUpTypes
  <2> QED
    BY <1>1, <1>2, <2>1, <2>2, <2>3, SignUpTypesAre
    DEF OwnersInv, SignUpTypes, AccountsHaveOwners, OnePersonPerAccount, Exist
<1>5. CASE ~Exist(e)
  <2>1. /\ visit' \in [Visitors -> VisitRows]
        /\ \A w \in Visitors : w # v => visit'[w] = visit[w]
        /\ visit'[v].pc = "created" /\ visit'[v].email = e /\ visit'[v].by = visit[v].by
        /\ visit'[v].provider = visit[v].provider
    BY <1>1, <1>5, VisitMoves DEF Insert, SignUpTypes
  <2>2. /\ users' \in [Persons -> UserRows]
        /\ \A f \in Persons : f # e => users'[f] = users[f]
        /\ users'[e].exists /\ users'[e].ways = {}
        /\ users'[e].verified => visit[v].provider = "google"
    <3>1. users' = [users EXCEPT ![e] = [NoUser EXCEPT !.exists = TRUE, !.from = visit[v].from,
                                                      !.verified = VerifiedBy(visit[v].provider)]]
      BY <1>5 DEF Insert
    <3> DEFINE row == [NoUser EXCEPT !.exists = TRUE, !.from = visit[v].from,
                                     !.verified = VerifiedBy(visit[v].provider)]
    <3>2. /\ row \in UserRows /\ row.exists /\ row.ways = {}
          /\ row.verified => visit[v].provider = "google"
      BY <1>3 DEF UserRows, NoUser, VisitRows, VerifiedBy
    <3> HIDE DEF row
    <3>3. /\ users' \in [Persons -> UserRows]
          /\ \A f \in Persons : f # e => users'[f] = users[f]
          /\ users'[e] = row
      BY <1>1, <1>3, <3>1, <3>2 DEF SignUpTypes, row
    <3> QED
      BY <3>2, <3>3
  <2>3. users'[e].verified => visit[v].by = e
    BY <1>2, <2>2 DEF OwnersInv, RegistrationsHaveOwners, Vouched
  <2>4. SignUpTypeOK'
    BY <1>1, <1>2, <1>3, <2>1, <2>2, SignUpTypesAre DEF SignUpTypes, Exist
  <2>5. AccountsHaveOwners'
    BY <1>2, <2>2 DEF OwnersInv, AccountsHaveOwners, OnePersonPerAccount
  \* Nobody else is at it: there was no account.
  <2>6. ASSUME NEW w \in Visitors, HasAccount(w)', w # v
        PROVE  HasAccount(w) /\ visit'[w] = visit[w] /\ visit[w].email # e /\ visit[w].email \in Persons
    <3>1. HasAccount(w) /\ visit'[w] = visit[w]
      BY <2>1, <2>6 DEF HasAccount
    <3>2. Exist(visit[w].email)
      BY <3>1 DEF OwnersInv, RegistrationsHaveOwners
    <3> QED
      BY <1>1, <1>5, <3>1, <3>2 DEF SignUpTypes, VisitRows
  <2>7. RegistrationsHaveOwners'
    <3>1. ASSUME NEW u \in Visitors
          PROVE  /\ mode' # "full" /\ visit'[u].pc # "none" => visit'[u].by = visit'[u].email
                 /\ mode' = "full" /\ visit'[u].pc # "none" => visit'[u].pc # "ceremony" /\ visit'[u].provider # "none"
                 /\ visit'[u].pc # "none" => Vouched(visit'[u].provider, visit'[u].email, visit'[u].by)
      BY <1>2, <2>1 DEF OwnersInv, RegistrationsHaveOwners
    <3>2. ASSUME NEW u \in Visitors, HasAccount(u)'
          PROVE  /\ users'[visit'[u].email].exists
                 /\ \A way \in users'[visit'[u].email].ways : way[2] = visit'[u].by
                 /\ users'[visit'[u].email].verified => visit'[u].by = visit'[u].email
      <4>1. CASE u = v
        BY <2>1, <2>2, <2>3, <4>1
      <4>2. CASE u # v
        BY <2>2, <2>6, <3>2, <4>2 DEF OwnersInv, RegistrationsHaveOwners, Exist
      <4> QED
        BY <4>1, <4>2
    <3>3. ASSUME NEW u \in Visitors, HasAccount(u)', NEW w \in Visitors, HasAccount(w)',
                 visit'[w].email = visit'[u].email
          PROVE  visit'[w].by = visit'[u].by
      <4>1. CASE u # v /\ w # v
        BY <2>6, <3>3, <4>1 DEF OwnersInv, RegistrationsHaveOwners
      <4>2. CASE u = v \/ w = v
        BY <2>1, <2>6, <3>3, <4>2
      <4> QED
        BY <4>1, <4>2
    <3> QED
      BY <3>1, <3>2, <3>3 DEF RegistrationsHaveOwners, Exist, Vouched
  <2>8. ToCount' = ToCount
    BY <1>2, <2>1 DEF ToCount
  <2> QED
    BY <1>2, <2>4, <2>5, <2>7, <2>8 DEF OwnersInv
<1> QED
  BY <1>4, <1>5

\* The owner is given a way in, and comes in.
LEMMA OwnersComeIn ==
    ASSUME OwnersInv, NEW v \in Visitors, Attach(v) \/ OpenSession(v)
    PROVE  OwnersInv'
<1> DEFINE e == visit[v].email
<1>1. SignUpTypes
  BY SignUpTypesAre DEF OwnersInv
<1>2. UNCHANGED <<mode, links, issued, accepted, attempts>> /\ visit[v].pc \in {"attach", "session"}
  BY DEF Attach, OpenSession
<1>3. visit[v] \in VisitRows /\ e \in Persons /\ users[e] \in UserRows
  BY <1>1 DEF SignUpTypes, VisitRows
<1>4. /\ visit' \in [Visitors -> VisitRows]
      /\ \A w \in Visitors : w # v => visit'[w] = visit[w]
      /\ \/ visit'[v].pc = "none"
         \/ /\ visit'[v].pc = "session" /\ ~visit[v].deleted
            /\ visit'[v].email = e /\ visit'[v].by = visit[v].by
            /\ visit'[v].provider = visit[v].provider /\ visit'[v].deleted = visit[v].deleted
  <2>1. CASE visit' = [visit EXCEPT ![v] = NoVisit]
    BY <1>1, <2>1, VisitEnds DEF SignUpTypes
  <2>2. CASE visit' = [visit EXCEPT ![v].pc = "session"] /\ ~visit[v].deleted
    BY <1>1, <2>2, VisitMoves DEF SignUpTypes
  <2> QED
    BY <2>1, <2>2 DEF Attach, OpenSession
<1>5. WayOf(v) \in Ways /\ WayOf(v)[2] = visit[v].by
  <2>1. CASE mode = "passkey"
    BY <1>3, <2>1 DEF WayOf, Ways, VisitRows
  <2>2. CASE mode = "password"
    BY <1>3, <2>2 DEF WayOf, Ways, VisitRows
  <2>3. CASE mode = "full"
    <3>1. visit[v].provider \in {"google", "microsoft"}
      BY <1>2, <1>3, <2>3 DEF OwnersInv, RegistrationsHaveOwners, VisitRows, Providers
    <3> QED
      BY <1>3, <2>3, <3>1 DEF WayOf, Ways, VisitRows
  <2> QED
    BY <1>1, <2>1, <2>2, <2>3, SignUpAssumption DEF SignUpTypes
<1>6. /\ users' \in [Persons -> UserRows]
      /\ \A f \in Persons : f # e => users'[f] = users[f]
      /\ users'[e].exists = users[e].exists /\ users'[e].verified = users[e].verified
      /\ users'[e] = users[e] \/ users[e].exists
      /\ \/ users'[e].ways = users[e].ways
         \/ HasAccount(v) /\ users'[e].ways = users[e].ways \cup {WayOf(v)}
  <2>1. visit[v].deleted \in BOOLEAN /\ (~visit[v].deleted => HasAccount(v))
    BY <1>2, <1>3 DEF VisitRows, HasAccount
  <2>2. HasAccount(v) => users[e].exists
    BY DEF OwnersInv, RegistrationsHaveOwners, Exist
  <2>3. CASE UNCHANGED users
    BY <1>1, <2>3 DEF SignUpTypes
  <2>4. CASE ~visit[v].deleted /\ users' = [users EXCEPT ![e].ways = @ \cup {WayOf(v)}]
    BY <1>1, <1>3, <1>5, <2>1, <2>2, <2>4 DEF SignUpTypes, UserRows
  <2>5. CASE users' = [users EXCEPT ![e].used = @ \/ ~visit[v].deleted]
    <3>1. [users[e] EXCEPT !.used = @ \/ ~visit[v].deleted] \in UserRows
      BY <1>3, <2>1 DEF UserRows
    <3>2. visit[v].deleted => [users[e] EXCEPT !.used = @ \/ ~visit[v].deleted] = users[e]
      BY <1>3, <2>1 DEF UserRows
    <3>3. users' = [users EXCEPT ![e] = [users[e] EXCEPT !.used = @ \/ ~visit[v].deleted]]
      BY <1>1, <2>5 DEF SignUpTypes
    <3> DEFINE row == [users[e] EXCEPT !.used = @ \/ ~visit[v].deleted]
    <3>4. row.exists = users[e].exists /\ row.verified = users[e].verified /\ row.ways = users[e].ways
      BY <1>3 DEF UserRows
    <3> HIDE DEF row
    <3>5. /\ users' \in [Persons -> UserRows]
          /\ \A f \in Persons : f # e => users'[f] = users[f]
          /\ users'[e] = row
      BY <1>1, <1>3, <3>1, <3>3, UserChanges DEF SignUpTypes, row
    <3> QED
      BY <2>1, <2>2, <3>2, <3>4, <3>5 DEF row
  <2>6. CASE Attach(v)
    BY <2>3, <2>4, <2>6 DEF Attach
  <2>7. CASE OpenSession(v)
    BY <2>5, <2>7 DEF OpenSession
  <2> QED
    BY <2>6, <2>7
<1>7. SignUpTypeOK'
  BY <1>1, <1>2, <1>4, <1>6, SignUpTypesAre DEF SignUpTypes, Exist
<1>8. HasAccount(v) =>
        /\ \A way \in users[e].ways : way[2] = visit[v].by
        /\ users[e].verified => visit[v].by = e
        /\ mode # "full" => visit[v].by = e
        /\ \A w \in Visitors : HasAccount(w) /\ visit[w].email = e => visit[w].by = visit[v].by
  BY <1>2 DEF OwnersInv, RegistrationsHaveOwners
<1>9. AccountsHaveOwners'
  <2>1. \A a, b \in users'[e].ways : a[2] = b[2]
    <3>1. CASE users'[e].ways = users[e].ways
      BY <1>3, <3>1 DEF OwnersInv, AccountsHaveOwners, OnePersonPerAccount
    <3>2. CASE HasAccount(v) /\ users'[e].ways = users[e].ways \cup {WayOf(v)}
      BY <1>5, <1>8, <3>2
    <3> QED
      BY <1>6, <3>1, <3>2
  <2>2. users'[e].verified \/ mode # "full" => \A way \in users'[e].ways : way[2] = e
    <3>1. users[e].verified \/ mode # "full" => \A way \in users[e].ways : way[2] = e
      BY <1>3 DEF OwnersInv, AccountsHaveOwners
    <3> QED
      BY <1>5, <1>6, <1>8, <3>1
  <2> QED
    BY <1>2, <1>6, <2>1, <2>2 DEF OwnersInv, AccountsHaveOwners, OnePersonPerAccount
<1>10. \A w \in Visitors : HasAccount(w)' => HasAccount(w)
  BY <1>2, <1>4 DEF HasAccount
<1>11. RegistrationsHaveOwners'
  <2>1. ASSUME NEW w \in Visitors, HasAccount(w)
        PROVE  /\ users'[visit[w].email].exists
               /\ \A way \in users'[visit[w].email].ways : way[2] = visit[w].by
               /\ users'[visit[w].email].verified => visit[w].by = visit[w].email
    <3>1. /\ visit[w].email \in Persons /\ users[visit[w].email].exists
          /\ \A way \in users[visit[w].email].ways : way[2] = visit[w].by
          /\ users[visit[w].email].verified => visit[w].by = visit[w].email
      BY <1>1, <2>1 DEF OwnersInv, RegistrationsHaveOwners, SignUpTypes, VisitRows, Exist
    <3>2. CASE visit[w].email # e
      BY <1>6, <3>1, <3>2
    <3>3. CASE visit[w].email = e
      <4>1. HasAccount(v) => visit[v].by = visit[w].by
        BY <1>8, <2>1, <3>3
      <4>2. \A way \in users'[e].ways : way[2] = visit[w].by
        BY <1>5, <1>6, <3>1, <3>3, <4>1
      <4> QED
        BY <1>6, <3>1, <3>3, <4>2
    <3> QED
      BY <3>2, <3>3
  <2>2. \A w \in Visitors : visit'[w].pc # "none"
              => /\ visit[w].pc # "none"
                 /\ visit'[w].email = visit[w].email /\ visit'[w].by = visit[w].by
                 /\ visit'[w].provider = visit[w].provider
                 /\ visit'[w].pc = "ceremony" => visit[w].pc = "ceremony"
    BY <1>2, <1>4
  <2> QED
    BY <1>1, <1>2, <1>10, <2>1, <2>2, RegistrationsGoOn DEF OwnersInv, SignUpTypes
<1>12. ToCount' \subseteq ToCount
  BY <1>4 DEF ToCount
<1>13. accepted' + Cardinality(ToCount') <= attempts'
  BY <1>1, <1>2, <1>12, NoMoreToCount, ToCountIsFinite DEF OwnersInv, SignUpTypes
<1> QED
  BY <1>7, <1>9, <1>11, <1>13 DEF OwnersInv

\* The operator sends a link, or time passes.
LEMMA OwnersStay ==
    ASSUME OwnersInv, IssueLink \/ ExpireLink \/ HourPasses
    PROVE  OwnersInv'
<1>1. SignUpTypes
  BY SignUpTypesAre DEF OwnersInv
<1>2. UNCHANGED <<mode, users, visit, attempts>> /\ accepted' \in {0, accepted}
  BY DEF IssueLink, ExpireLink, HourPasses
<1>3. links' \subseteq 1..issued' /\ issued' \in 0..MaxLinks
  <2>1. CASE IssueLink
    BY <1>1, <2>1, SignUpAssumption DEF IssueLink, SignUpTypes
  <2>2. CASE ExpireLink
    BY <1>1, <2>2 DEF ExpireLink, SignUpTypes
  <2>3. CASE HourPasses
    BY <1>1, <2>3 DEF HourPasses, SignUpTypes
  <2> QED
    BY <2>1, <2>2, <2>3
<1>4. accepted' \in 0..MaxSubmits /\ accepted' <= accepted
  BY <1>1, <1>2, SignUpAssumption DEF SignUpTypes
<1>5. SignUpTypeOK'
  BY <1>1, <1>2, <1>3, <1>4, SignUpTypesAre DEF SignUpTypes, Exist
<1>6. ToCount' = ToCount
  BY <1>2 DEF ToCount
<1>7. accepted' + Cardinality(ToCount') <= attempts'
  BY <1>1, <1>2, <1>4, <1>6, ToCountIsFinite DEF OwnersInv, SignUpTypes
<1> QED
  BY <1>2, <1>5, <1>7
  DEF OwnersInv, AccountsHaveOwners, RegistrationsHaveOwners, OnePersonPerAccount, HasAccount, Exist

\* Registrations of a deleted account are over.
LEMMA OwnersLeave ==
    ASSUME OwnersInv, NEW e \in Persons, DeleteAccount(e)
    PROVE  OwnersInv'
<1>1. SignUpTypes
  BY SignUpTypesAre DEF OwnersInv
<1>2. UNCHANGED <<mode, links, issued, accepted, attempts>>
  BY DEF DeleteAccount
<1>3. /\ users' \in [Persons -> UserRows]
      /\ \A f \in Persons : f # e => users'[f] = users[f]
      /\ users'[e] = NoUser
  BY <1>1, NoUserIsRow, UserChanges DEF DeleteAccount, SignUpTypes
<1>4. visit' = [w \in Visitors |-> IF visit[w].email = e /\ visit[w].pc \in {"created", "attach", "session"}
                                   THEN [visit[w] EXCEPT !.deleted = TRUE] ELSE visit[w]]
  BY DEF DeleteAccount
<1>5. ASSUME NEW w \in Visitors
      PROVE  /\ visit'[w] \in VisitRows /\ visit'[w].pc = visit[w].pc
             /\ visit'[w].email = visit[w].email /\ visit'[w].by = visit[w].by
             /\ visit'[w].provider = visit[w].provider
             /\ HasAccount(w)' => HasAccount(w) /\ visit[w].email # e
  <2>1. visit[w] \in VisitRows
    BY <1>1 DEF SignUpTypes
  <2> QED
    BY <1>4, <2>1 DEF VisitRows, HasAccount
<1>6. visit' \in [Visitors -> VisitRows]
  <2>1. visit' = [w \in Visitors |-> visit'[w]]
    BY <1>4
  <2> QED
    BY <1>5, <2>1
<1>7. SignUpTypeOK'
  BY <1>1, <1>2, <1>3, <1>6, SignUpTypesAre DEF SignUpTypes, Exist
<1>8. NoUser.ways = {} /\ ~NoUser.verified
  BY DEF NoUser
<1>9. AccountsHaveOwners'
  BY <1>2, <1>3, <1>8 DEF OwnersInv, AccountsHaveOwners, OnePersonPerAccount
<1>10. RegistrationsHaveOwners'
  <2>1. ASSUME NEW w \in Visitors, HasAccount(w)'
        PROVE  /\ users'[visit[w].email].exists
               /\ \A way \in users'[visit[w].email].ways : way[2] = visit[w].by
               /\ users'[visit[w].email].verified => visit[w].by = visit[w].email
    <3>1. HasAccount(w) /\ visit[w].email # e /\ visit[w].email \in Persons
      BY <1>1, <1>5, <2>1 DEF SignUpTypes, VisitRows
    <3> QED
      BY <1>3, <3>1 DEF OwnersInv, RegistrationsHaveOwners, Exist
  <2>2. \A w \in Visitors : HasAccount(w)' => HasAccount(w)
    BY <1>5
  <2> QED
    BY <1>1, <1>2, <1>5, <2>1, <2>2, RegistrationsGoOn DEF OwnersInv, SignUpTypes
<1>11. ToCount' = ToCount
  BY <1>5 DEF ToCount
<1> QED
  BY <1>2, <1>7, <1>9, <1>10, <1>11 DEF OwnersInv

LEMMA OwnersStep == OwnersInv /\ [SignUpNext]_signUpVars => OwnersInv'
<1> SUFFICES ASSUME OwnersInv, [SignUpNext]_signUpVars PROVE OwnersInv'
  OBVIOUS
<1>1. ASSUME NEW v \in Visitors, NEW e \in Persons, NEW c \in Connections, Options(v, e, c)
      PROVE  OwnersInv'
  <2>1. "none" \in Providers /\ Vouched("none", e, e)
    BY DEF Providers, Vouched
  <2>2. mode = "passkey" /\ mode' = mode /\ Begin(v, e, e, c, "none", "ceremony")
    BY <1>1 DEF Options, Begin
  <2> QED
    BY <2>1, <2>2, Registers
<1>2. ASSUME NEW v \in Visitors, NEW e \in Persons, NEW c \in Connections, SignUpWithPassword(v, e, c)
      PROVE  OwnersInv'
  <2>1. "none" \in Providers /\ Vouched("none", e, e)
    BY DEF Providers, Vouched
  <2>2. mode = "password" /\ mode' = mode /\ Begin(v, e, e, c, "none", "insert")
    BY <1>2 DEF SignUpWithPassword, Begin
  <2> QED
    BY <2>1, <2>2, Registers
<1>3. ASSUME NEW v \in Visitors, NEW e \in Persons, NEW c \in Connections, NEW by \in Persons,
             NEW provider \in Providers, SignUpWithProvider(v, e, by, c, provider)
      PROVE  OwnersInv'
  <2>1. /\ mode = "full" /\ mode' = mode /\ provider # "none" /\ Vouched(provider, e, by)
        /\ Begin(v, e, by, c, provider, "insert")
    BY <1>3 DEF SignUpWithProvider, Begin
  <2> QED
    BY <2>1, Registers
<1>4. CASE UNCHANGED signUpVars
  BY <1>4 DEF signUpVars, OwnersInv, SignUpTypeOK, AccountsHaveOwners, RegistrationsHaveOwners,
              OnePersonPerAccount, HasAccount, Exist, ToCount
<1> QED
  BY <1>1, <1>2, <1>3, <1>4, RegistrationMoves, OwnersChange, OwnersAppear, OwnersComeIn, OwnersStay, OwnersLeave
  DEF SignUpNext

LEMMA OwnersInit == SignUpInit => OwnersInv
<1> SUFFICES ASSUME SignUpInit PROVE OwnersInv
  OBVIOUS
<1>1. SignUpTypes
  <2>1. NoVisit \in VisitRows
    BY SignUpAssumption DEF NoVisit, VisitRows, Providers
  <2> QED
    BY <2>1, NoUserIsRow, SignUpAssumption DEF SignUpInit, SignUpTypes
<1>2. AccountsHaveOwners
  BY DEF SignUpInit, AccountsHaveOwners, OnePersonPerAccount, NoUser
<1>3. RegistrationsHaveOwners
  BY DEF SignUpInit, RegistrationsHaveOwners, HasAccount, NoVisit
<1>4. ToCount = {}
  BY DEF SignUpInit, ToCount, NoVisit
<1> QED
  BY <1>1, <1>2, <1>3, <1>4, FS_EmptySet, SignUpTypesAre DEF SignUpInit, OwnersInv

\* Who was let through and has not inserted the account yet.
ToInsert(c) == {v \in Visitors : visit[v].pc = "insert" /\ visit[v].from = c /\ visit[v].email # Admin}

\* Everyone's account but the administrator's.
OthersFrom(c) == AccountsFrom(c) \ {Admin}

(***************************************************************************)
(* Whoever may still insert an account was let through below the ceiling.  *)
(***************************************************************************)
AccountsInv ==
    \A c \in Connections :
        /\ IsFiniteSet(OthersFrom(c))
        /\ Cardinality(OthersFrom(c)) + Cardinality(ToInsert(c)) <= MaxPerAddress + Cardinality(Visitors) - 1

LEMMA ToInsertIsFinite ==
    ASSUME NEW c
    PROVE  /\ IsFiniteSet(ToInsert(c)) /\ Cardinality(ToInsert(c)) \in Nat
           /\ IsFiniteSet(ToInsert(c)') /\ Cardinality(ToInsert(c)') \in Nat
           /\ Cardinality(ToInsert(c)') <= Cardinality(Visitors) /\ Cardinality(Visitors) \in Nat
BY SignUpAssumption, FS_Subset, FS_CardinalityType DEF ToInsert

\* No account and no registration let through is new.
LEMMA NobodyAppears ==
    ASSUME AccountsInv, NEW c \in Connections,
           OthersFrom(c)' \subseteq OthersFrom(c), ToInsert(c)' \subseteq ToInsert(c)
    PROVE  /\ IsFiniteSet(OthersFrom(c)')
           /\ Cardinality(OthersFrom(c)') + Cardinality(ToInsert(c)') <= MaxPerAddress + Cardinality(Visitors) - 1
<1>1. /\ IsFiniteSet(OthersFrom(c)') /\ Cardinality(OthersFrom(c)') <= Cardinality(OthersFrom(c))
      /\ Cardinality(OthersFrom(c)) \in Nat /\ Cardinality(OthersFrom(c)') \in Nat
  BY FS_Subset, FS_CardinalityType DEF AccountsInv
<1>2. Cardinality(ToInsert(c)') <= Cardinality(ToInsert(c))
  BY ToInsertIsFinite, FS_Subset
<1> QED
  BY <1>1, <1>2, ToInsertIsFinite, SignUpAssumption DEF AccountsInv

\* Accounts stay as few, and a registration is let through, if at all, below the ceiling.
LEMMA LetThrough ==
    ASSUME AccountsInv, MaxPerAddress > 0, NEW c \in Connections, OthersFrom(c)' = OthersFrom(c),
           WithinAddressQuota(c)
    PROVE  /\ IsFiniteSet(OthersFrom(c)')
           /\ Cardinality(OthersFrom(c)') + Cardinality(ToInsert(c)') <= MaxPerAddress + Cardinality(Visitors) - 1
<1>1. IsFiniteSet(OthersFrom(c)) /\ Cardinality(OthersFrom(c)) \in Nat
  BY FS_CardinalityType DEF AccountsInv
<1>2. IsFiniteSet(AccountsFrom(c))
  <2>1. IsFiniteSet(OthersFrom(c) \cup {Admin}) /\ AccountsFrom(c) \in SUBSET (OthersFrom(c) \cup {Admin})
    BY <1>1, FS_AddElement DEF OthersFrom
  <2> QED
    BY <2>1, FS_Subset
<1>3. Cardinality(OthersFrom(c)) <= Cardinality(AccountsFrom(c)) /\ Cardinality(AccountsFrom(c)) \in Nat
  BY <1>2, FS_Subset, FS_CardinalityType DEF OthersFrom
<1>4. Cardinality(AccountsFrom(c)) < MaxPerAddress
  BY SignUpAssumption DEF WithinAddressQuota
<1> QED
  BY <1>1, <1>3, <1>4, ToInsertIsFinite, SignUpAssumption

\* Users change without appearing, and registrations without being let through.
LEMMA AccountsStayFew ==
    ASSUME AccountsInv,
           \A e \in Persons : users'[e].exists => users[e].exists /\ users'[e].from = users[e].from,
           \A v \in Visitors : visit'[v].pc = "insert" => visit'[v] = visit[v]
    PROVE  AccountsInv'
<1> SUFFICES ASSUME NEW c \in Connections
             PROVE  /\ IsFiniteSet(OthersFrom(c)')
                    /\ Cardinality(OthersFrom(c)') + Cardinality(ToInsert(c)')
                       <= MaxPerAddress + Cardinality(Visitors) - 1
  BY DEF AccountsInv
<1>1. OthersFrom(c)' \subseteq OthersFrom(c)
  BY DEF OthersFrom, AccountsFrom, Exist
<1>2. ToInsert(c)' \subseteq ToInsert(c)
  BY DEF ToInsert
<1> QED
  BY <1>1, <1>2, NobodyAppears

\* One registration is let through.
LEMMA OneIsLetThrough ==
    ASSUME AccountsInv, MaxPerAddress > 0, UNCHANGED users, NEW v \in Visitors,
           \A w \in Visitors : w # v => visit'[w] = visit[w],
           visit'[v].pc = "insert" => visit'[v].email = Admin \/ WithinAddressQuota(visit'[v].from)
    PROVE  AccountsInv'
<1> SUFFICES ASSUME NEW c \in Connections
             PROVE  /\ IsFiniteSet(OthersFrom(c)')
                    /\ Cardinality(OthersFrom(c)') + Cardinality(ToInsert(c)')
                       <= MaxPerAddress + Cardinality(Visitors) - 1
  BY DEF AccountsInv
<1>1. OthersFrom(c)' = OthersFrom(c)
  BY DEF OthersFrom, AccountsFrom, Exist
<1>2. CASE v \in ToInsert(c)'
  <2>1. WithinAddressQuota(c)
    BY <1>2 DEF ToInsert
  <2> QED
    BY <1>1, <2>1, LetThrough
<1>3. CASE v \notin ToInsert(c)'
  <2>1. ToInsert(c)' \subseteq ToInsert(c)
    BY <1>3 DEF ToInsert
  <2> QED
    BY <1>1, <2>1, NobodyAppears
<1> QED
  BY <1>2, <1>3

\* What was let through is inserted.
LEMMA InsertedAsLetThrough ==
    ASSUME OwnersInv, AccountsInv, NEW v \in Visitors, Insert(v)
    PROVE  AccountsInv'
<1> DEFINE e == visit[v].email
<1>1. SignUpTypes
  BY SignUpTypesAre DEF OwnersInv
<1>2. visit[v] \in VisitRows /\ e \in Persons /\ visit[v].pc = "insert"
  BY <1>1 DEF SignUpTypes, VisitRows, Insert
<1>3. CASE Exist(e)
  <2>1. UNCHANGED users /\ \A w \in Visitors : visit'[w].pc = "insert" => visit'[w] = visit[w]
    BY <1>1, <1>3, VisitEnds DEF Insert, SignUpTypes
  <2> QED
    BY <2>1, AccountsStayFew
<1>4. CASE ~Exist(e)
  <2>1. /\ \A w \in Visitors : w # v => visit'[w] = visit[w]
        /\ visit'[v].pc = "created"
    BY <1>1, <1>4, VisitMoves DEF Insert, SignUpTypes
  <2>2. /\ \A f \in Persons : f # e => users'[f] = users[f]
        /\ users'[e].exists /\ users'[e].from = visit[v].from
    BY <1>1, <1>2, <1>4 DEF Insert, SignUpTypes, NoUser
  <2>3. ASSUME NEW c \in Connections
        PROVE  /\ IsFiniteSet(OthersFrom(c)')
               /\ Cardinality(OthersFrom(c)') + Cardinality(ToInsert(c)')
                  <= MaxPerAddress + Cardinality(Visitors) - 1
    <3>1. CASE c = visit[v].from /\ e # Admin
      <4>1. OthersFrom(c)' = OthersFrom(c) \cup {e} /\ e \notin OthersFrom(c)
        BY <1>2, <1>4, <2>2, <3>1 DEF OthersFrom, AccountsFrom, Exist
      <4>2. ToInsert(c)' = ToInsert(c) \ {v} /\ v \in ToInsert(c)
        BY <1>2, <2>1, <3>1 DEF ToInsert
      <4>3. /\ IsFiniteSet(OthersFrom(c)') /\ Cardinality(OthersFrom(c)') = Cardinality(OthersFrom(c)) + 1
            /\ Cardinality(OthersFrom(c)) \in Nat
        <5>1. IsFiniteSet(OthersFrom(c))
          BY DEF AccountsInv
        <5>2. \A S, x : IsFiniteSet(S) /\ x \notin S =>
                /\ IsFiniteSet(S \cup {x}) /\ Cardinality(S \cup {x}) = Cardinality(S) + 1
                /\ Cardinality(S) \in Nat
          BY FS_AddElement, FS_CardinalityType
        <5> QED
          BY Zenon, <4>1, <5>1, <5>2
      <4>4. Cardinality(ToInsert(c)') = Cardinality(ToInsert(c)) - 1
        BY <4>2, ToInsertIsFinite, FS_RemoveElement
      <4> QED
        BY <4>3, <4>4, ToInsertIsFinite, SignUpAssumption DEF AccountsInv
    <3>2. CASE ~(c = visit[v].from /\ e # Admin)
      <4>1. OthersFrom(c)' \subseteq OthersFrom(c)
        BY <2>2, <3>2 DEF OthersFrom, AccountsFrom, Exist
      <4>2. ToInsert(c)' \subseteq ToInsert(c)
        BY <2>1 DEF ToInsert
      <4> QED
        BY <4>1, <4>2, NobodyAppears
    <3> QED
      BY <3>1, <3>2
  <2> QED
    BY <2>3 DEF AccountsInv
<1> QED
  BY <1>3, <1>4

LEMMA AccountsStep ==
    ASSUME OwnersInv, AccountsInv, MaxPerAddress > 0, [SignUpNext]_signUpVars
    PROVE  AccountsInv'
<1>1. SignUpTypes
  BY SignUpTypesAre DEF OwnersInv
<1>2. ASSUME NEW v \in Visitors, NEW e \in Persons, NEW by \in Persons, NEW c \in Connections,
             NEW provider \in Providers, NEW pc \in {"ceremony", "insert"}, Begin(v, e, by, c, provider, pc)
      PROVE  AccountsInv'
  <2>1. PICK token \in 0..issued :
          /\ visit' = [visit EXCEPT ![v] = [pc |-> pc, email |-> e, by |-> by, from |-> c, token |-> token,
                                            provider |-> provider, deleted |-> FALSE]]
          /\ pc = "insert" => Decide(e, c, token)
    BY <1>2 DEF Begin
  <2>2. /\ \A w \in Visitors : w # v => visit'[w] = visit[w]
        /\ visit'[v].pc = pc /\ visit'[v].email = e /\ visit'[v].from = c
    BY <1>1, <2>1 DEF SignUpTypes
  <2> QED
    BY <1>2, <2>1, <2>2, OneIsLetThrough DEF Decide, Begin
<1>3. ASSUME NEW v \in Visitors, Verify(v)
      PROVE  AccountsInv'
  <2>1. CASE Exist(visit[v].email) /\ IsUnfinished(visit[v].email)
    <3>1. visit' = [visit EXCEPT ![v].pc = "attach"]
      BY <1>3, <2>1 DEF Verify
    <3> QED
      BY <1>1, <1>3, <3>1, VisitMoves, OneIsLetThrough DEF Verify, SignUpTypes
  <2>2. CASE ~Exist(visit[v].email) /\ Decide(visit[v].email, visit[v].from, visit[v].token)
    <3>1. visit' = [visit EXCEPT ![v].pc = "insert"]
      BY <1>3, <2>2 DEF Verify
    <3>2. /\ \A w \in Visitors : w # v => visit'[w] = visit[w]
          /\ visit'[v].email = visit[v].email /\ visit'[v].from = visit[v].from
      BY <1>1, <3>1, VisitMoves DEF SignUpTypes
    <3> QED
      BY <1>3, <2>2, <3>2, OneIsLetThrough DEF Verify, Decide
  <2>3. CASE /\ ~(Exist(visit[v].email) /\ IsUnfinished(visit[v].email))
             /\ ~(~Exist(visit[v].email) /\ Decide(visit[v].email, visit[v].from, visit[v].token))
    <3>1. visit' = [visit EXCEPT ![v] = NoVisit]
      BY <1>3, <2>3 DEF Verify
    <3> QED
      BY <1>1, <1>3, <3>1, VisitEnds, OneIsLetThrough DEF Verify, SignUpTypes
  <2> QED
    BY <2>1, <2>2, <2>3
<1>4. ASSUME NEW v \in Visitors, Created(v) \/ Stop(v)
      PROVE  AccountsInv'
  <2>1. UNCHANGED users
    BY <1>4 DEF Created, Stop
  <2>2. \A w \in Visitors : visit'[w].pc = "insert" => visit'[w] = visit[w]
    <3>1. CASE Created(v)
      BY <1>1, <3>1, VisitMoves DEF Created, SignUpTypes
    <3>2. CASE Stop(v)
      BY <1>1, <3>2, VisitEnds DEF Stop, SignUpTypes
    <3> QED
      BY <1>4, <3>1, <3>2
  <2> QED
    BY <2>1, <2>2, AccountsStayFew
<1>5. ASSUME NEW v \in Visitors, Attach(v) \/ OpenSession(v)
      PROVE  AccountsInv'
  <2>1. users[visit[v].email] \in UserRows /\ visit[v].email \in Persons
    BY <1>1 DEF SignUpTypes, VisitRows
  <2>2. \A w \in Visitors : visit'[w].pc = "insert" => visit'[w] = visit[w]
    BY <1>1, <1>5, VisitMoves, VisitEnds DEF Attach, OpenSession, SignUpTypes
  <2>3. \A e \in Persons : users'[e].exists => users[e].exists /\ users'[e].from = users[e].from
    <3>1. CASE Attach(v)
      BY <1>1, <2>1, <3>1 DEF Attach, SignUpTypes, UserRows
    <3>2. CASE OpenSession(v)
      BY <1>1, <2>1, <3>2 DEF OpenSession, SignUpTypes, UserRows
    <3> QED
      BY <1>5, <3>1, <3>2
  <2> QED
    BY <2>2, <2>3, AccountsStayFew
<1>6. ASSUME NEW e \in Persons,
             LinkProvider(e) \/ LetIn(e) \/ VerifyEmail(e) \/ LosePasskeys(e) \/ DeleteAccount(e)
      PROVE  AccountsInv'
  <2>1. users[e] \in UserRows
    BY <1>1 DEF SignUpTypes
  <2>2. \A w \in Visitors : visit'[w].pc = "insert" => visit'[w] = visit[w]
    <3>1. CASE DeleteAccount(e)
      <4>1. \A w \in Visitors : visit[w] \in VisitRows
        BY <1>1 DEF SignUpTypes
      <4>2. \A w \in Visitors : visit'[w] = IF visit[w].email = e /\ visit[w].pc \in {"created", "attach", "session"}
                                            THEN [visit[w] EXCEPT !.deleted = TRUE] ELSE visit[w]
        BY <3>1 DEF DeleteAccount
      <4> QED
        BY <4>1, <4>2 DEF VisitRows
    <3> QED
      BY <1>6, <3>1 DEF LinkProvider, LetIn, VerifyEmail, LosePasskeys
  <2>3. \A f \in Persons : users'[f].exists => users[f].exists /\ users'[f].from = users[f].from
    <3>1. CASE LinkProvider(e)
      BY <1>1, <2>1, <3>1 DEF LinkProvider, SignUpTypes, UserRows
    <3>2. CASE LetIn(e)
      BY <1>1, <2>1, <3>2 DEF LetIn, SignUpTypes, UserRows
    <3>3. CASE VerifyEmail(e)
      BY <1>1, <2>1, <3>3 DEF VerifyEmail, SignUpTypes, UserRows
    <3>4. CASE LosePasskeys(e)
      BY <1>1, <2>1, <3>4 DEF LosePasskeys, SignUpTypes, UserRows
    <3>5. CASE DeleteAccount(e)
      BY <1>1, <2>1, <3>5 DEF DeleteAccount, SignUpTypes, UserRows, NoUser
    <3> QED
      BY <1>6, <3>1, <3>2, <3>3, <3>4, <3>5
  <2> QED
    BY <2>2, <2>3, AccountsStayFew
<1>7. CASE IssueLink \/ ExpireLink \/ HourPasses \/ UNCHANGED signUpVars
  BY <1>7, AccountsStayFew DEF IssueLink, ExpireLink, HourPasses, signUpVars
<1>8. ASSUME NEW v \in Visitors, NEW e \in Persons, NEW c \in Connections,
             Options(v, e, c) \/ SignUpWithPassword(v, e, c)
      PROVE  AccountsInv'
  <2>1. "none" \in Providers
    BY DEF Providers
  <2> QED
    BY <1>2, <1>8, <2>1 DEF Options, SignUpWithPassword
<1>9. ASSUME NEW v \in Visitors, NEW e \in Persons, NEW c \in Connections, NEW by \in Persons,
             NEW provider \in Providers, SignUpWithProvider(v, e, by, c, provider)
      PROVE  AccountsInv'
  BY <1>2, <1>9 DEF SignUpWithProvider
<1> QED
  BY <1>3, <1>4, <1>5, <1>6, <1>7, <1>8, <1>9, InsertedAsLetThrough DEF SignUpNext

LEMMA AccountsInit ==
    ASSUME SignUpInit, MaxPerAddress > 0
    PROVE  AccountsInv
<1> SUFFICES ASSUME NEW c \in Connections
             PROVE  /\ IsFiniteSet(OthersFrom(c))
                    /\ Cardinality(OthersFrom(c)) + Cardinality(ToInsert(c))
                       <= MaxPerAddress + Cardinality(Visitors) - 1
  BY DEF AccountsInv
<1>1. OthersFrom(c) = {} /\ ToInsert(c) = {}
  BY DEF SignUpInit, OthersFrom, AccountsFrom, Exist, NoUser, ToInsert, NoVisit
<1> QED
  BY <1>1, FS_EmptySet, FS_CardinalityType, SignUpAssumption

(***************************************************************************)
(* What every state of a registration satisfies, with or without a ceiling *)
(* on accounts.                                                            *)
(***************************************************************************)
SignUpInv == OwnersInv /\ (MaxPerAddress > 0 => AccountsInv)

LEMMA SignUpInvariance ==
    /\ SignUpInit => SignUpInv
    /\ SignUpInv /\ [SignUpNext]_signUpVars => SignUpInv'
BY OwnersInit, OwnersStep, AccountsInit, AccountsStep DEF SignUpInv

LEMMA SignUpIsSound == SignUpInv => SignUpTypeOK /\ AccountsWithinCeiling /\ OnePersonPerAccount
<1> SUFFICES ASSUME SignUpInv PROVE AccountsWithinCeiling
  BY DEF SignUpInv, OwnersInv, AccountsHaveOwners
<1> SUFFICES ASSUME MaxPerAddress > 0, NEW c \in Connections
             PROVE  Cardinality(OthersFrom(c)) <= MaxPerAddress + Cardinality(Visitors) - 1
  BY DEF AccountsWithinCeiling, OthersFrom
<1>1. /\ IsFiniteSet(OthersFrom(c))
      /\ Cardinality(OthersFrom(c)) + Cardinality(ToInsert(c)) <= MaxPerAddress + Cardinality(Visitors) - 1
  BY DEF SignUpInv, AccountsInv
<1> QED
  BY <1>1, ToInsertIsFinite, FS_CardinalityType, SignUpAssumption


-----------------------------------------------------------------------------
(***************************************************************************)
(* Sign-ins.                                                               *)
(***************************************************************************)
SignInRows == [pc : Steps, kind : {"none", "password", "passkey", "code", "removal"}, code : Codes \cup {<<>>},
               version : 0..MaxSets, failures : Nat, stray : BOOLEAN]

SessionRows == [stray : BOOLEAN, version : 0..MaxSets]

LockRows == [failures : Nat, lockedUntil : 0..(MaxTime + LockFor), disabled : BOOLEAN]

SignInTypes ==
    /\ method \in {"password", "passkey"}
    /\ user \in LockRows
    /\ version \in 1..MaxSets /\ codes \subseteq Codes
    /\ passkeys \in 0..MaxPasskeys
    /\ sessions \in Seq(SessionRows) /\ tries \in Seq(Nat)
    /\ signIn \in [SignIns -> SignInRows]
    /\ time \in 0..MaxTime /\ left \in Nat
    /\ opened \in [Codes -> Nat]

(***************************************************************************)
(* A sign-in that was let in, and not overtaken by the operator, is of an  *)
(* account that is enabled and of the password it has.                     *)
(***************************************************************************)
LetInAreAllowed ==
    \A s \in SignIns :
        /\ signIn[s].pc = "check" /\ signIn[s].kind = "code" => method = "passkey"
        /\ signIn[s].pc = "insert" => signIn[s].stray \/ ~user.disabled
        /\ signIn[s].pc \in {"session", "insert"} =>
             signIn[s].stray \/ (method = "password" => signIn[s].version = version)

ShutInv == ShutOutMeansOut /\ LetInAreAllowed

\* A good code, or one of a set to come, has opened nothing yet.
CodesInv ==
    \A c \in Codes :
        /\ opened[c] <= 1
        /\ c \in codes => opened[c] = 0 /\ c[1] <= version
        /\ c[1] > version => opened[c] = 0

\* Sign-ins with a session that have not trimmed yet.
ToTrim == {s \in SignIns : signIn[s].pc \in {"after", "trim"}}

SessionsInv == Len(sessions) <= MaxSessions + left + Cardinality(ToTrim)

\* A removal counted two, and is the only one.
PasskeysInv ==
    /\ method = "passkey" => passkeys > 0
    /\ \A s \in SignIns : signIn[s].pc = "remove" =>
         /\ signIn[s].kind = "removal"
         /\ method = "passkey" => passkeys > 1
    /\ \A s, t \in SignIns : signIn[s].pc = "remove" /\ signIn[t].pc = "remove" => s = t

Guessing(s) == signIn[s].pc \in {"check", "read", "count"}

\* A wrong guess that no failure was recorded for.
Unrecorded == \E s \in SignIns : signIn[s].pc \in {"read", "count"}

\* From the ceiling on, every guess waits for the lockout of the one before.
TriesAreApart ==
    /\ \A i \in DOMAIN tries : tries[i] <= time
    /\ \A i, j \in DOMAIN tries : i < j =>
         /\ tries[i] <= tries[j]
         /\ j > MaxFailed => tries[j] >= tries[i] + LockFor

(***************************************************************************)
(* The count is of all the guesses, and their lockout is on, but for the   *)
(* one that is being recorded.                                             *)
(***************************************************************************)
GuessesInv ==
    /\ TriesAreApart
    /\ \A s, t \in SignIns : Guessing(s) /\ Guessing(t) => s = t
    /\ \A s \in SignIns :
         /\ signIn[s].pc = "check" =>
              /\ user.lockedUntil <= time
              /\ signIn[s].kind = "code" => Len(tries) <= signIn[s].failures
         /\ signIn[s].pc = "read" => Len(tries) <= user.failures + 1
         /\ signIn[s].pc = "count" => Len(tries) <= signIn[s].failures + 1
    /\ ~Unrecorded =>
         /\ Len(tries) <= user.failures
         /\ Len(tries) >= MaxFailed => user.lockedUntil >= tries[Len(tries)] + LockFor

SignInInv ==
    /\ SignInTypes
    /\ ShutInv
    /\ CodesInv
    /\ SessionsInv
    /\ OneAtATime => PasskeysInv /\ GuessesInv


LEMMA NoSignInIsRow ==
    /\ NoSignIn \in SignInRows
    /\ NoSignIn.pc = "none" /\ NoSignIn.kind = "none" /\ NoSignIn.failures = 0 /\ NoSignIn.stray = FALSE
BY SignInAssumption DEF NoSignIn, SignInRows, Steps

LEMMA SignInMoves ==
    ASSUME signIn \in [SignIns -> SignInRows], NEW s \in SignIns, NEW pc \in Steps, ToSign(s, pc)
    PROVE  /\ signIn' \in [SignIns -> SignInRows]
           /\ \A t \in SignIns : t # s => signIn'[t] = signIn[t]
           /\ signIn'[s].pc = pc /\ signIn'[s].kind = signIn[s].kind /\ signIn'[s].code = signIn[s].code
           /\ signIn'[s].version = signIn[s].version /\ signIn'[s].failures = signIn[s].failures
           /\ signIn'[s].stray = signIn[s].stray
BY DEF ToSign, SignInRows

LEMMA SignInIs ==
    ASSUME signIn \in [SignIns -> SignInRows], NEW s \in SignIns, NEW row \in SignInRows,
           signIn' = [signIn EXCEPT ![s] = row]
    PROVE  /\ signIn' \in [SignIns -> SignInRows]
           /\ \A t \in SignIns : t # s => signIn'[t] = signIn[t]
           /\ signIn'[s] = row
OBVIOUS

LEMMA SignInEnds ==
    ASSUME signIn \in [SignIns -> SignInRows], NEW s \in SignIns, Ended(s)
    PROVE  /\ signIn' \in [SignIns -> SignInRows]
           /\ \A t \in SignIns : t # s => signIn'[t] = signIn[t]
           /\ signIn'[s].pc = "none" /\ signIn'[s] = NoSignIn
BY NoSignInIsRow, SignInIs DEF Ended, NoSignIn

\* What a sign-in, or a removal, begins with.
LEMMA SignInBegins ==
    ASSUME SignInTypes, NEW s \in SignIns
    PROVE  /\ \A guess \in 0..version : SignInWithPassword(s, guess) =>
                LET row == signIn'[s] IN
                /\ signIn' = [signIn EXCEPT ![s] = row] /\ row \in SignInRows
                /\ row.pc = "check" /\ row.kind = "password" /\ ~row.stray
           /\ SignInWithPasskey(s) =>
                LET row == signIn'[s] IN
                /\ signIn' = [signIn EXCEPT ![s] = row] /\ row \in SignInRows
                /\ row.pc = "session" /\ row.kind = "passkey" /\ ~row.stray /\ method = "passkey"
           /\ \A code \in Codes : SignInWithCode(s, code) =>
                LET row == signIn'[s] IN
                /\ signIn' = [signIn EXCEPT ![s] = row] /\ row \in SignInRows
                /\ row.pc = "check" /\ row.kind = "code" /\ ~row.stray /\ row.failures = user.failures
                /\ method = "passkey"
           /\ CountPasskeys(s) =>
                LET row == signIn'[s] IN
                /\ signIn' = [signIn EXCEPT ![s] = row] /\ row \in SignInRows
                /\ row.pc = "remove" /\ row.kind = "removal"
<1>0. user.failures \in Nat /\ version \in 0..MaxSets
  BY SignInAssumption DEF SignInTypes, LockRows
<1>1. ASSUME NEW row \in SignInRows, Start(s, row)
      PROVE  signIn' = [signIn EXCEPT ![s] = row] /\ signIn'[s] = row
  BY <1>1 DEF Start, SignInTypes
<1>2. ASSUME NEW guess \in 0..version, SignInWithPassword(s, guess)
      PROVE  LET row == signIn'[s] IN
                /\ signIn' = [signIn EXCEPT ![s] = row] /\ row \in SignInRows
                /\ row.pc = "check" /\ row.kind = "password" /\ ~row.stray
  <2> DEFINE row == [NoSignIn EXCEPT !.pc = "check", !.kind = "password", !.version = guess]
  <2>0. guess \in 0..MaxSets
    BY <1>0, SignInAssumption
  <2>1. row \in SignInRows /\ row.pc = "check" /\ row.kind = "password" /\ ~row.stray
    BY <2>0, NoSignInIsRow DEF SignInRows, Steps
  <2>2. Start(s, row)
    BY <1>2 DEF SignInWithPassword
  <2> HIDE DEF row
  <2> QED
    BY <1>1, <2>1, <2>2
<1>3. ASSUME SignInWithPasskey(s)
      PROVE  LET row == signIn'[s] IN
                /\ signIn' = [signIn EXCEPT ![s] = row] /\ row \in SignInRows
                /\ row.pc = "session" /\ row.kind = "passkey" /\ ~row.stray /\ method = "passkey"
  <2> DEFINE row == [NoSignIn EXCEPT !.pc = "session", !.kind = "passkey"]
  <2>1. row \in SignInRows /\ row.pc = "session" /\ row.kind = "passkey" /\ ~row.stray
    BY NoSignInIsRow DEF SignInRows, Steps
  <2>2. Start(s, row) /\ method = "passkey"
    BY <1>3 DEF SignInWithPasskey
  <2> HIDE DEF row
  <2> QED
    BY <1>1, <2>1, <2>2
<1>4. ASSUME NEW code \in Codes, SignInWithCode(s, code)
      PROVE  LET row == signIn'[s] IN
                /\ signIn' = [signIn EXCEPT ![s] = row] /\ row \in SignInRows
                /\ row.pc = "check" /\ row.kind = "code" /\ ~row.stray /\ row.failures = user.failures
                /\ method = "passkey"
  <2> DEFINE row == [NoSignIn EXCEPT !.pc = "check", !.kind = "code", !.code = code, !.failures = user.failures]
  <2>1. row \in SignInRows /\ row.pc = "check" /\ row.kind = "code" /\ ~row.stray /\ row.failures = user.failures
    BY <1>0, NoSignInIsRow DEF SignInRows, Steps
  <2>2. Start(s, row) /\ method = "passkey"
    BY <1>4 DEF SignInWithCode
  <2> HIDE DEF row
  <2> QED
    BY <1>1, <2>1, <2>2
<1>5. ASSUME CountPasskeys(s)
      PROVE  LET row == signIn'[s] IN
                /\ signIn' = [signIn EXCEPT ![s] = row] /\ row \in SignInRows
                /\ row.pc = "remove" /\ row.kind = "removal"
  <2> DEFINE row == [NoSignIn EXCEPT !.pc = "remove", !.kind = "removal"]
  <2>1. row \in SignInRows /\ row.pc = "remove" /\ row.kind = "removal"
    BY NoSignInIsRow DEF SignInRows, Steps
  <2>2. Start(s, row)
    BY <1>5 DEF CountPasskeys
  <2> HIDE DEF row
  <2> QED
    BY <1>1, <2>1, <2>2
<1> QED
  BY <1>2, <1>3, <1>4, <1>5

\* A code that is good opens the account, another one is counted.
LEMMA CodeIsSpent ==
    ASSUME SignInTypes, NEW s \in SignIns, SpendCode(s)
    PROVE  /\ signIn' \in [SignIns -> SignInRows]
           /\ \A t \in SignIns : t # s => signIn'[t] = signIn[t]
           /\ IsGood(signIn[s].code) => signIn'[s].pc = "session"
           /\ ~IsGood(signIn[s].code) => signIn'[s].pc = "count" /\ signIn'[s].failures = signIn[s].failures
                                          /\ signIn'[s].kind = "code"
<1>1. signIn[s] \in SignInRows /\ signIn[s].kind = "code"
  BY DEF SignInTypes, SpendCode
<1>2. CASE IsGood(signIn[s].code)
  <2>1. signIn' = [signIn EXCEPT ![s] = [NoSignIn EXCEPT !.pc = "session", !.kind = "code"]]
    BY <1>2 DEF SpendCode
  <2> DEFINE row == [NoSignIn EXCEPT !.pc = "session", !.kind = "code"]
  <2>2. row \in SignInRows /\ row.pc = "session"
    BY NoSignInIsRow DEF SignInRows, Steps
  <2> HIDE DEF row
  <2>3. signIn' = [signIn EXCEPT ![s] = row]
    BY <2>1 DEF row
  <2> QED
    BY <1>2, <2>2, <2>3, SignInIs DEF SignInTypes
<1>3. CASE ~IsGood(signIn[s].code)
  <2>1. ToSign(s, "count")
    BY <1>3 DEF SpendCode, ToSign, SignInTypes
  <2> QED
    BY <1>1, <1>3, <2>1, SignInMoves DEF SignInTypes, Steps
<1> QED
  BY <1>2, <1>3

\* Those who were let in already keep at it.
LEMMA StraysAre ==
    ASSUME SignInTypes, NEW pcs, signIn' = Strays(pcs)
    PROVE  /\ signIn' \in [SignIns -> SignInRows]
           /\ \A t \in SignIns :
                /\ signIn'[t].pc = signIn[t].pc /\ signIn'[t].kind = signIn[t].kind
                /\ signIn'[t].version = signIn[t].version /\ signIn'[t].failures = signIn[t].failures
                /\ signIn[t].stray \/ signIn[t].pc \in pcs => signIn'[t].stray
<1>1. \A t \in SignIns : signIn[t] \in SignInRows
  BY DEF SignInTypes
<1>2. \A t \in SignIns : signIn'[t] = IF signIn[t].pc \in pcs THEN [signIn[t] EXCEPT !.stray = TRUE] ELSE signIn[t]
  BY DEF Strays
<1>3. ASSUME NEW t \in SignIns
      PROVE  /\ signIn'[t] \in SignInRows
             /\ signIn'[t].pc = signIn[t].pc /\ signIn'[t].kind = signIn[t].kind
             /\ signIn'[t].version = signIn[t].version /\ signIn'[t].failures = signIn[t].failures
             /\ signIn[t].stray \/ signIn[t].pc \in pcs => signIn'[t].stray
  BY <1>1, <1>2 DEF SignInRows
<1>4. signIn' = [t \in SignIns |-> signIn'[t]]
  BY DEF Strays
<1> QED
  BY <1>3, <1>4


\* Everything else a sign-in, the owner, the operator or time does.
Elsewhere ==
    \/ AddPasskey \/ ReplaceCodes \/ Enable \/ Unlock \/ EndSessions \/ TimePasses
    \/ \E i \in DOMAIN sessions : SignOut(i)
    \/ UNCHANGED signInVars

LEMMA ElsewhereNobodyMoves == Elsewhere => signIn' = signIn
BY DEF Elsewhere, AddPasskey, ReplaceCodes, Enable, Unlock, EndSessions, TimePasses, SignOut, signInVars

\* One of these is what happens.
LEMMA SignInCases ==
    ASSUME [SignInNext]_signInVars
    PROVE  \/ Elsewhere
           \/ Disable \/ ResetPassword
           \/ \E s \in SignIns :
                \/ \E guess \in 0..version : SignInWithPassword(s, guess)
                \/ \E code \in Codes : SignInWithCode(s, code)
                \/ SignInWithPasskey(s) \/ CountPasskeys(s)
                \/ ComparePassword(s) \/ SpendCode(s) \/ ReadFailures(s) \/ RecordFailure(s)
                \/ CheckDisabled(s) \/ InsertSession(s) \/ RecordSuccessfulLogin(s) \/ TrimSessions(s)
                \/ SignInStops(s) \/ RemovePasskey(s)
BY DEF SignInNext, Elsewhere

\* How each sign-in moves.
LEMMA SignInsMove ==
    ASSUME SignInTypes, [SignInNext]_signInVars
    PROVE  signIn' \in [SignIns -> SignInRows]
<1>1. \A s \in SignIns : signIn[s] \in SignInRows
  BY DEF SignInTypes
<1>2. CASE Elsewhere
  BY <1>2, ElsewhereNobodyMoves DEF SignInTypes
<1>3. CASE Disable \/ ResetPassword
  BY <1>3, StraysAre DEF Disable, ResetPassword
<1>4. ASSUME NEW s \in SignIns,
             \/ \E guess \in 0..version : SignInWithPassword(s, guess)
             \/ \E code \in Codes : SignInWithCode(s, code)
             \/ SignInWithPasskey(s) \/ CountPasskeys(s)
      PROVE  signIn' \in [SignIns -> SignInRows]
  BY <1>4, SignInBegins, SignInIs DEF SignInTypes
<1>5. ASSUME NEW s \in SignIns, ComparePassword(s) \/ InsertSession(s) \/ RecordSuccessfulLogin(s)
      PROVE  signIn' \in [SignIns -> SignInRows]
  <2>1. PICK pc \in Steps : ToSign(s, pc)
    BY <1>5 DEF ComparePassword, InsertSession, RecordSuccessfulLogin, Steps
  <2> QED
    BY <2>1, SignInMoves DEF SignInTypes
<1>6. ASSUME NEW s \in SignIns, ReadFailures(s)
      PROVE  signIn' \in [SignIns -> SignInRows]
  <2>1. user.failures \in Nat
    BY DEF SignInTypes, LockRows
  <2> DEFINE row == [signIn[s] EXCEPT !.pc = "count", !.failures = user.failures]
  <2>2. row \in SignInRows
    BY <1>1, <2>1 DEF SignInRows, Steps
  <2>3. signIn' = [signIn EXCEPT ![s] = row]
    BY <1>6 DEF ReadFailures, SignInTypes
  <2> HIDE DEF row
  <2> QED
    BY <2>2, <2>3, SignInIs DEF SignInTypes
<1>7. ASSUME NEW s \in SignIns, RecordFailure(s) \/ TrimSessions(s) \/ SignInStops(s) \/ RemovePasskey(s)
      PROVE  signIn' \in [SignIns -> SignInRows]
  BY <1>7, SignInEnds DEF RecordFailure, TrimSessions, SignInStops, RemovePasskey, SignInTypes
<1>8. ASSUME NEW s \in SignIns, CheckDisabled(s)
      PROVE  signIn' \in [SignIns -> SignInRows]
  BY <1>8, SignInEnds, SignInMoves DEF CheckDisabled, SignInTypes, Steps
<1> QED
  BY <1>2, <1>3, <1>4, <1>5, <1>6, <1>7, <1>8, CodeIsSpent, SignInCases

LEMMA NewestAre ==
    ASSUME sessions \in Seq(SessionRows)
    PROVE  /\ NewestSessions \in Seq(SessionRows) /\ Len(NewestSessions) <= MaxSessions
           /\ \A i \in DOMAIN NewestSessions : \E j \in DOMAIN sessions : NewestSessions[i] = sessions[j]
<1>1. CASE Len(sessions) > MaxSessions
  <2> DEFINE a == Len(sessions) - MaxSessions + 1
  <2>1. NewestSessions = SubSeq(sessions, a, Len(sessions))
    BY <1>1 DEF NewestSessions
  <2>2. a \in Nat /\ a >= 1 /\ a <= Len(sessions) /\ Len(sessions) \in Nat /\ MaxSessions \in Nat
    BY <1>1, SignInAssumption
  <2>3. Len(sessions) - a + 1 = MaxSessions
    BY <2>2
  <2> HIDE DEF a
  <2>4. /\ NewestSessions \in Seq(SessionRows) /\ Len(NewestSessions) = MaxSessions
        /\ \A i \in 1..MaxSessions : NewestSessions[i] = sessions[a + i - 1] /\ a + i - 1 \in 1..Len(sessions)
    BY <2>1, <2>2, <2>3
  <2> QED
    BY <2>2, <2>4
<1>2. CASE ~(Len(sessions) > MaxSessions)
  <2>1. NewestSessions = SubSeq(sessions, 1, Len(sessions)) /\ Len(sessions) <= MaxSessions
    BY <1>2, SignInAssumption DEF NewestSessions
  <2>2. NewestSessions = sessions
    BY <2>1
  <2> QED
    BY <2>1, <2>2
<1> QED
  BY <1>1, <1>2

LEMMA OthersRemain ==
    ASSUME sessions \in Seq(SessionRows), NEW i \in DOMAIN sessions
    PROVE  /\ RemoveAt(sessions, i) \in Seq(SessionRows) /\ Len(RemoveAt(sessions, i)) <= Len(sessions)
           /\ \A j \in DOMAIN RemoveAt(sessions, i) :
                \E k \in DOMAIN sessions : RemoveAt(sessions, i)[j] = sessions[k]
<1> DEFINE a == SubSeq(sessions, 1, i - 1)
           b == SubSeq(sessions, i + 1, Len(sessions))
<1>1. RemoveAt(sessions, i) = a \o b
  BY DEF RemoveAt
<1>2. i \in 1..Len(sessions) /\ Len(sessions) \in Nat
  OBVIOUS
<1>3. /\ a \in Seq(SessionRows) /\ Len(a) = i - 1
      /\ \A j \in 1..(i - 1) : a[j] = sessions[j]
  BY <1>2
<1>4. /\ b \in Seq(SessionRows) /\ Len(b) = Len(sessions) - i
      /\ \A j \in 1..(Len(sessions) - i) : b[j] = sessions[i + j]
  BY <1>2
<1> HIDE DEF a, b
<1>5. /\ a \o b \in Seq(SessionRows) /\ Len(a \o b) = Len(sessions) - 1
      /\ DOMAIN (a \o b) = 1..(Len(sessions) - 1) /\ DOMAIN sessions = 1..Len(sessions)
      /\ \A j \in 1..(i - 1) : (a \o b)[j] = a[j]
      /\ \A j \in 1..(Len(sessions) - i) : (a \o b)[(i - 1) + j] = b[j]
  BY <1>2, <1>3, <1>4
<1>6. ASSUME NEW j \in 1..(Len(sessions) - 1)
      PROVE  \E k \in 1..Len(sessions) : (a \o b)[j] = sessions[k]
  <2>1. CASE j \in 1..(i - 1)
    <3>1. j \in 1..Len(sessions) /\ (a \o b)[j] = sessions[j]
      BY <1>2, <1>3, <1>5, <2>1
    <3> QED
      BY <3>1
  <2>2. CASE j \notin 1..(i - 1)
    <3>1. PICK n \in 1..(Len(sessions) - i) : j = (i - 1) + n /\ i + n \in 1..Len(sessions)
      <4>1. j - (i - 1) \in 1..(Len(sessions) - i) /\ j = (i - 1) + (j - (i - 1)) /\ i + (j - (i - 1)) \in 1..Len(sessions)
        BY <1>2, <2>2
      <4> QED
        BY <4>1
    <3>2. (a \o b)[j] = sessions[i + n]
      BY <1>4, <1>5, <3>1
    <3> QED
      BY <3>1, <3>2
  <2> QED
    BY <2>1, <2>2
<1> DEFINE r == a \o b
<1>7. r \in Seq(SessionRows) /\ Len(r) <= Len(sessions)
  <2>1. Len(r) = Len(sessions) - 1
    BY <1>5
  <2> QED
    BY <1>2, <1>5, <2>1
<1>8. DOMAIN r = 1..(Len(sessions) - 1) /\ DOMAIN sessions = 1..Len(sessions)
  BY <1>5
<1>9. \A j \in 1..(Len(sessions) - 1) : \E k \in 1..Len(sessions) : r[j] = sessions[k]
  BY <1>6
<1>10. RemoveAt(sessions, i) = r
  BY <1>1
<1> HIDE DEF r
<1>11. \A j \in DOMAIN r : \E k \in DOMAIN sessions : r[j] = sessions[k]
  BY Zenon, <1>8, <1>9
<1> QED
  BY Zenon, <1>7, <1>10, <1>11


LEMMA SessionsMove ==
    ASSUME SignInTypes, [SignInNext]_signInVars
    PROVE  sessions' \in Seq(SessionRows)
<1>1. sessions \in Seq(SessionRows)
  BY DEF SignInTypes
<1>2. ASSUME NEW s \in SignIns, InsertSession(s)
      PROVE  sessions' \in Seq(SessionRows)
  <2>1. [stray |-> signIn[s].stray, version |-> signIn[s].version] \in SessionRows
    <3>1. signIn[s] \in SignInRows
      BY DEF SignInTypes
    <3> QED
      BY <3>1 DEF SignInRows, SessionRows
  <2> QED
    BY <1>1, <1>2, <2>1 DEF InsertSession
<1>3. ASSUME NEW s \in SignIns, TrimSessions(s)
      PROVE  sessions' \in Seq(SessionRows)
  BY <1>1, <1>3, NewestAre DEF TrimSessions
<1>4. ASSUME NEW i \in DOMAIN sessions, SignOut(i)
      PROVE  sessions' \in Seq(SessionRows)
  BY <1>1, <1>4, OthersRemain DEF SignOut
<1>5. <<>> \in Seq(SessionRows)
  OBVIOUS
<1>6. CASE Elsewhere
  <2>1. CASE AddPasskey \/ ReplaceCodes \/ Enable \/ Unlock \/ TimePasses \/ UNCHANGED signInVars
    BY <1>1, <2>1 DEF AddPasskey, ReplaceCodes, Enable, Unlock, TimePasses, signInVars
  <2>2. CASE EndSessions
    BY <1>5, <2>2 DEF EndSessions
  <2> QED
    BY <1>4, <1>6, <2>1, <2>2 DEF Elsewhere
<1>7. CASE Disable \/ ResetPassword
  BY <1>5, <1>7 DEF Disable, ResetPassword
<1>8. ASSUME NEW s \in SignIns,
             \/ \E guess \in 0..version : SignInWithPassword(s, guess)
             \/ \E code \in Codes : SignInWithCode(s, code)
             \/ SignInWithPasskey(s) \/ CountPasskeys(s)
             \/ ComparePassword(s) \/ SpendCode(s) \/ ReadFailures(s) \/ RecordFailure(s)
             \/ CheckDisabled(s) \/ RecordSuccessfulLogin(s) \/ SignInStops(s) \/ RemovePasskey(s)
      PROVE  sessions' \in Seq(SessionRows)
  BY <1>1, <1>8
  DEF SignInWithPassword, SignInWithCode, SignInWithPasskey, CountPasskeys, Start, ComparePassword, SpendCode,
      ReadFailures, RecordFailure, CheckDisabled, RecordSuccessfulLogin, SignInStops, RemovePasskey
<1> QED
  BY <1>2, <1>3, <1>6, <1>7, <1>8, SignInCases

LEMMA UserMoves ==
    ASSUME SignInTypes, [SignInNext]_signInVars
    PROVE  /\ user' \in LockRows
           /\ Disable \/ Enable \/ user'.disabled = user.disabled
<1>1. user \in LockRows /\ time \in 0..MaxTime
  BY DEF SignInTypes
<1>2. ASSUME NEW s \in SignIns, RecordFailure(s)
      PROVE  user' \in LockRows /\ user'.disabled = user.disabled
  <2>1. signIn[s].failures + 1 \in Nat
    BY DEF SignInTypes, SignInRows
  <2>2. (IF Locks(signIn[s].failures + 1) THEN time + LockFor ELSE 0) \in 0..(MaxTime + LockFor)
    BY <1>1, SignInAssumption
  <2>3. PICK n \in Nat, l \in 0..(MaxTime + LockFor) : user' = [user EXCEPT !.failures = n, !.lockedUntil = l]
    BY <1>2, <2>1, <2>2 DEF RecordFailure
  <2> QED
    BY <1>1, <2>3 DEF LockRows
<1>3. ASSUME user' = [user EXCEPT !.failures = 0, !.lockedUntil = 0]
      PROVE  user' \in LockRows /\ user'.disabled = user.disabled
  <2>1. 0 \in 0..(MaxTime + LockFor)
    BY SignInAssumption
  <2> QED
    BY <1>1, <1>3, <2>1 DEF LockRows
<1>4. CASE Disable \/ Enable
  BY <1>1, <1>4 DEF Disable, Enable, LockRows
<1>5. CASE ResetPassword \/ Unlock
  BY <1>3, <1>5 DEF ResetPassword, Unlock
<1>6. CASE Elsewhere
  BY <1>1, <1>4, <1>5, <1>6 DEF Elsewhere, AddPasskey, ReplaceCodes, EndSessions, TimePasses, SignOut, signInVars
<1>7. ASSUME NEW s \in SignIns, RecordSuccessfulLogin(s)
      PROVE  user' \in LockRows /\ user'.disabled = user.disabled
  BY <1>3, <1>7 DEF RecordSuccessfulLogin
<1>8. ASSUME NEW s \in SignIns,
             \/ \E guess \in 0..version : SignInWithPassword(s, guess)
             \/ \E code \in Codes : SignInWithCode(s, code)
             \/ SignInWithPasskey(s) \/ CountPasskeys(s)
             \/ ComparePassword(s) \/ SpendCode(s) \/ ReadFailures(s) \/ TrimSessions(s)
             \/ CheckDisabled(s) \/ InsertSession(s) \/ SignInStops(s) \/ RemovePasskey(s)
      PROVE  user' = user
  BY <1>8
  DEF SignInWithPassword, SignInWithCode, SignInWithPasskey, CountPasskeys, Start, ComparePassword, SpendCode,
      ReadFailures, TrimSessions, CheckDisabled, InsertSession, SignInStops, RemovePasskey
<1> QED
  BY <1>1, <1>2, <1>4, <1>5, <1>6, <1>7, <1>8, SignInCases

LEMMA CodesMove ==
    ASSUME SignInTypes, [SignInNext]_signInVars
    PROVE  /\ method' = method
           /\ version' \in 1..MaxSets /\ codes' \subseteq Codes
           /\ passkeys' \in 0..MaxPasskeys /\ opened' \in [Codes -> Nat]
           /\ time' \in 0..MaxTime /\ left' \in Nat /\ tries' \in Seq(Nat)
<1>1. SignInTypes
  OBVIOUS
<1>2. CASE Elsewhere
  <2>1. CASE AddPasskey
    BY <1>1, <2>1, SignInAssumption DEF AddPasskey, SignInTypes
  <2>2. CASE ReplaceCodes
    <3>1. version' \in 1..MaxSets
      BY <1>1, <2>2, SignInAssumption DEF ReplaceCodes, SignInTypes
    <3>2. codes' \subseteq Codes
      BY <2>2, <3>1 DEF ReplaceCodes, Codes
    <3> QED
      BY <1>1, <2>2, <3>1, <3>2 DEF ReplaceCodes, SignInTypes
  <2>3. CASE Enable \/ Unlock \/ EndSessions
    <3>1. UNCHANGED <<method, version, codes, passkeys, time, opened, left>> /\ (tries' = tries \/ tries' = <<>>)
      BY <2>3 DEF Enable, Unlock, EndSessions
    <3>2. tries' \in Seq(Nat)
      <4>1. tries \in Seq(Nat) /\ <<>> \in Seq(Nat)
        BY <1>1 DEF SignInTypes
      <4> QED
        BY <3>1, <4>1
    <3> QED
      BY <1>1, <3>1, <3>2 DEF SignInTypes
  <2>4. CASE TimePasses
    BY <1>1, <2>4, SignInAssumption DEF TimePasses, SignInTypes
  <2>5. CASE (\E i \in DOMAIN sessions : SignOut(i)) \/ UNCHANGED signInVars
    BY <1>1, <2>5 DEF SignOut, signInVars, SignInTypes
  <2> QED
    BY <1>2, <2>1, <2>2, <2>3, <2>4, <2>5 DEF Elsewhere
<1>3. CASE Disable
  BY <1>1, <1>3 DEF Disable, SignInTypes
<1>4. CASE ResetPassword
  BY <1>1, <1>4, SignInAssumption DEF ResetPassword, SignInTypes
<1>5. ASSUME NEW s \in SignIns, SpendCode(s)
      PROVE  codes' \subseteq Codes /\ opened' \in [Codes -> Nat] /\ tries' \in Seq(Nat)
             /\ UNCHANGED <<method, version, passkeys, time, left>>
  <2>1. codes' \subseteq Codes /\ UNCHANGED <<method, version, passkeys, time, left>>
    BY <1>1, <1>5 DEF SpendCode, SignInTypes
  <2>2. tries' \in Seq(Nat)
    <3>1. time \in Nat /\ tries \in Seq(Nat)
      BY <1>1, SignInAssumption DEF SignInTypes
    <3>2. tries' = tries \/ tries' = Append(tries, time)
      BY <1>5 DEF SpendCode
    <3> QED
      BY <3>1, <3>2
  <2>3. opened' \in [Codes -> Nat]
    <3>1. \/ opened' = opened
          \/ opened' = [opened EXCEPT ![signIn[s].code] = @ + 1] /\ signIn[s].code \in Codes
      BY <1>1, <1>5 DEF SpendCode, IsGood, SignInTypes
    <3> QED
      BY <1>1, <3>1 DEF SignInTypes
  <2> QED
    BY <2>1, <2>2, <2>3
<1>6. ASSUME NEW s \in SignIns, ComparePassword(s)
      PROVE  tries' \in Seq(Nat) /\ UNCHANGED <<method, version, codes, passkeys, opened, time, left>>
  <2>1. time \in Nat
    BY <1>1, SignInAssumption DEF SignInTypes
  <2> QED
    BY <1>1, <1>6, <2>1 DEF ComparePassword, SignInTypes
<1>7. ASSUME NEW s \in SignIns, RecordSuccessfulLogin(s)
      PROVE  tries' \in Seq(Nat) /\ UNCHANGED <<method, version, codes, passkeys, opened, time, left>>
  BY <1>7 DEF RecordSuccessfulLogin
<1>8. ASSUME NEW s \in SignIns, RemovePasskey(s)
      PROVE  passkeys' \in 0..MaxPasskeys /\ UNCHANGED <<method, version, codes, tries, opened, time, left>>
  BY <1>1, <1>8, SignInAssumption DEF RemovePasskey, SignInTypes
<1>9. ASSUME NEW s \in SignIns, SignInStops(s)
      PROVE  left' \in Nat /\ UNCHANGED <<method, version, codes, tries, opened, time, passkeys>>
  BY <1>1, <1>9 DEF SignInStops, SignInTypes
<1>10. ASSUME NEW s \in SignIns,
             \/ \E guess \in 0..version : SignInWithPassword(s, guess)
             \/ \E code \in Codes : SignInWithCode(s, code)
             \/ SignInWithPasskey(s) \/ CountPasskeys(s)
             \/ ReadFailures(s) \/ RecordFailure(s) \/ TrimSessions(s)
             \/ CheckDisabled(s) \/ InsertSession(s)
      PROVE  UNCHANGED <<method, version, codes, passkeys, opened, time, left, tries>>
  BY <1>10
  DEF SignInWithPassword, SignInWithCode, SignInWithPasskey, CountPasskeys, Start,
      ReadFailures, RecordFailure, TrimSessions, CheckDisabled, InsertSession
<1>11. version \in 1..MaxSets /\ codes \subseteq Codes /\ passkeys \in 0..MaxPasskeys /\ opened \in [Codes -> Nat]
       /\ time \in 0..MaxTime /\ left \in Nat /\ tries \in Seq(Nat)
  BY <1>1 DEF SignInTypes
<1> QED
  BY <1>2, <1>3, <1>4, <1>5, <1>6, <1>7, <1>8, <1>9, <1>10, <1>11, SignInCases

LEMMA SignInTypesStep == SignInTypes /\ [SignInNext]_signInVars => SignInTypes'
<1> SUFFICES ASSUME SignInTypes, [SignInNext]_signInVars PROVE SignInTypes'
  OBVIOUS
<1>1. method' \in {"password", "passkey"}
  BY CodesMove DEF SignInTypes
<1> QED
  BY Zenon, <1>1, SignInsMove, SessionsMove, UserMoves, CodesMove DEF SignInTypes


\* Who is shut out stays out.
LEMMA ShutStep ==
    ASSUME SignInTypes, ShutInv, [SignInNext]_signInVars
    PROVE  ShutInv'
<1>1. /\ sessions \in Seq(SessionRows) /\ user \in LockRows
      /\ \A s \in SignIns : signIn[s] \in SignInRows
      /\ signIn \in [SignIns -> SignInRows]
  BY DEF SignInTypes
\* Sessions are of those before, nobody else is let in, and no account is shut.
<1>2. ASSUME UNCHANGED <<method, version>>, user'.disabled = user.disabled \/ ~user'.disabled,
             \A i \in DOMAIN sessions' : \E j \in DOMAIN sessions : sessions'[i] = sessions[j],
             \A s \in SignIns : signIn'[s].pc \in {"check", "session", "insert"} =>
                /\ signIn'[s].pc = signIn[s].pc /\ signIn'[s].stray = signIn[s].stray
                /\ signIn'[s].kind = signIn[s].kind
                /\ signIn'[s].version = signIn[s].version
      PROVE  ShutInv'
  BY <1>2 DEF ShutInv, ShutOutMeansOut, LetInAreAllowed
<1>3. \A i \in DOMAIN sessions : \E j \in DOMAIN sessions : sessions[i] = sessions[j]
  OBVIOUS
<1>4. CASE Elsewhere
  <2>1. CASE ReplaceCodes
    <3>1. method = "passkey" /\ UNCHANGED <<method, user, sessions, signIn>>
      BY <2>1 DEF ReplaceCodes
    <3> QED
      BY <3>1 DEF ShutInv, ShutOutMeansOut, LetInAreAllowed
  <2>2. ASSUME NEW i \in DOMAIN sessions, SignOut(i)
        PROVE  ShutInv'
    <3>1. \A j \in DOMAIN sessions' : \E k \in DOMAIN sessions : sessions'[j] = sessions[k]
      BY <1>1, <2>2, OthersRemain DEF SignOut
    <3> QED
      BY <1>2, <2>2, <3>1 DEF SignOut
  <2>3. CASE Enable \/ Unlock
    <3>1. user'.disabled = user.disabled \/ ~user'.disabled
      BY <1>1, <2>3 DEF Enable, Unlock, LockRows
    <3> QED
      BY <1>2, <1>3, <2>3, <3>1 DEF Enable, Unlock
  <2>4. CASE EndSessions
    BY <1>2, <2>4 DEF EndSessions
  <2>5. CASE AddPasskey \/ TimePasses \/ UNCHANGED signInVars
    BY <1>2, <1>3, <2>5 DEF AddPasskey, TimePasses, signInVars
  <2> QED
    BY <1>4, <2>1, <2>2, <2>3, <2>4, <2>5 DEF Elsewhere
<1>5. CASE Disable
  <2>1. /\ sessions' = <<>> /\ UNCHANGED <<method, version>>
        /\ \A t \in SignIns :
             /\ signIn'[t].pc = signIn[t].pc /\ signIn'[t].version = signIn[t].version
             /\ signIn'[t].kind = signIn[t].kind
             /\ signIn[t].stray \/ signIn[t].pc = "insert" => signIn'[t].stray
    BY <1>5, StraysAre DEF Disable
  <2> QED
    BY <2>1 DEF ShutInv, ShutOutMeansOut, LetInAreAllowed
<1>6. CASE ResetPassword
  <2>1. /\ sessions' = <<>> /\ UNCHANGED method
        /\ \A t \in SignIns :
             /\ signIn'[t].pc = signIn[t].pc
             /\ signIn'[t].kind = signIn[t].kind
             /\ signIn[t].stray \/ signIn[t].pc \in {"session", "insert"} => signIn'[t].stray
    BY <1>6, StraysAre DEF ResetPassword
  <2> QED
    BY <2>1 DEF ShutInv, ShutOutMeansOut, LetInAreAllowed
<1>7. ASSUME NEW s \in SignIns,
             \/ \E guess \in 0..version : SignInWithPassword(s, guess)
             \/ \E code \in Codes : SignInWithCode(s, code)
             \/ SignInWithPasskey(s) \/ CountPasskeys(s)
      PROVE  ShutInv'
  <2>1. UNCHANGED <<method, version, user, sessions>>
    BY <1>7 DEF SignInWithPassword, SignInWithCode, SignInWithPasskey, CountPasskeys, Start
  <2>2. /\ \A t \in SignIns : t # s => signIn'[t] = signIn[t]
        /\ signIn'[s].pc \in {"check", "remove", "session"}
        /\ signIn'[s].pc = "session" => method = "passkey"
        /\ signIn'[s].pc = "check" /\ signIn'[s].kind = "code" => method = "passkey"
    BY <1>1, <1>7, SignInBegins, SignInIs
  <2> QED
    BY <2>1, <2>2 DEF ShutInv, ShutOutMeansOut, LetInAreAllowed
<1>8. ASSUME NEW s \in SignIns, ComparePassword(s)
      PROVE  ShutInv'
  <2>1. UNCHANGED <<method, version, user, sessions>>
    BY <1>8 DEF ComparePassword
  <2>2. PICK pc \in {"session", "read"} : ToSign(s, pc) /\ (pc = "session" => signIn[s].version = version)
    BY <1>8 DEF ComparePassword
  <2>3. /\ \A t \in SignIns : t # s => signIn'[t] = signIn[t]
        /\ signIn'[s].pc = pc /\ signIn'[s].version = signIn[s].version
    BY <1>1, <2>2, SignInMoves DEF Steps
  <2> QED
    BY <2>1, <2>2, <2>3 DEF ShutInv, ShutOutMeansOut, LetInAreAllowed
<1>9. ASSUME NEW s \in SignIns, SpendCode(s)
      PROVE  ShutInv'
  <2>1. UNCHANGED <<method, version, user, sessions>> /\ method = "passkey"
    BY <1>9 DEF SpendCode, ShutInv, LetInAreAllowed
  <2>2. /\ \A t \in SignIns : t # s => signIn'[t] = signIn[t]
        /\ signIn'[s].pc \in {"session", "count"}
    BY <1>9, CodeIsSpent
  <2> QED
    BY <2>1, <2>2 DEF ShutInv, ShutOutMeansOut, LetInAreAllowed
<1>10. ASSUME NEW s \in SignIns, ReadFailures(s)
       PROVE  ShutInv'
  <2>1. \A t \in SignIns : t # s => signIn'[t] = signIn[t]
    BY <1>1, <1>10 DEF ReadFailures
  <2>2. signIn'[s].pc = "count"
    BY <1>1, <1>10 DEF ReadFailures, SignInRows
  <2> QED
    BY <1>2, <1>3, <1>10, <2>1, <2>2 DEF ReadFailures
<1>11. ASSUME NEW s \in SignIns,
              RecordFailure(s) \/ TrimSessions(s) \/ SignInStops(s) \/ RemovePasskey(s)
       PROVE  ShutInv'
  <2>1. /\ \A t \in SignIns : t # s => signIn'[t] = signIn[t]
        /\ signIn'[s].pc = "none"
    BY <1>1, <1>11, SignInEnds DEF RecordFailure, TrimSessions, SignInStops, RemovePasskey
  <2>2. user'.disabled = user.disabled
    BY <1>11, UserMoves DEF RecordFailure, TrimSessions, SignInStops, RemovePasskey, LockRows, Disable, Enable
  <2>3. \A i \in DOMAIN sessions' : \E j \in DOMAIN sessions : sessions'[i] = sessions[j]
    <3>1. CASE TrimSessions(s)
      BY <1>1, <3>1, NewestAre DEF TrimSessions
    <3> QED
      BY <1>3, <1>11, <3>1 DEF RecordFailure, SignInStops, RemovePasskey
  <2>4. UNCHANGED <<method, version>>
    BY <1>11 DEF RecordFailure, TrimSessions, SignInStops, RemovePasskey
  <2> QED
    BY <1>2, <2>1, <2>2, <2>3, <2>4
<1>12. ASSUME NEW s \in SignIns, CheckDisabled(s)
       PROVE  ShutInv'
  <2>1. UNCHANGED <<method, version, user, sessions>> /\ signIn[s].pc = "session"
    BY <1>12 DEF CheckDisabled
  <2>2. \A t \in SignIns : t # s => signIn'[t] = signIn[t]
    BY <1>1, <1>12, SignInEnds, SignInMoves DEF CheckDisabled, Steps
  <2>3. \/ signIn'[s].pc = "none"
        \/ /\ signIn'[s].pc = "insert" /\ ~user.disabled
           /\ signIn'[s].stray = signIn[s].stray /\ signIn'[s].version = signIn[s].version
    BY <1>1, <1>12, SignInEnds, SignInMoves DEF CheckDisabled, Steps
  <2> QED
    BY <2>1, <2>2, <2>3 DEF ShutInv, ShutOutMeansOut, LetInAreAllowed
<1>13. ASSUME NEW s \in SignIns, InsertSession(s)
       PROVE  ShutInv'
  <2> DEFINE row == [stray |-> signIn[s].stray, version |-> signIn[s].version]
  <2>1. UNCHANGED <<method, version, user>> /\ signIn[s].pc = "insert" /\ sessions' = Append(sessions, row)
        /\ ToSign(s, "after")
    BY <1>13 DEF InsertSession
  <2>2. /\ \A t \in SignIns : t # s => signIn'[t] = signIn[t]
        /\ signIn'[s].pc = "after"
    BY <1>1, <2>1, SignInMoves DEF Steps
  <2>3. row.stray \/ (~user.disabled /\ (method = "password" => row.version = version))
    BY <2>1 DEF ShutInv, LetInAreAllowed
  <2>4. row \in SessionRows
    BY <1>1 DEF SignInRows, SessionRows
  <2> HIDE DEF row
  <2>5. \A i \in DOMAIN sessions' : sessions'[i] = row \/ \E j \in DOMAIN sessions : sessions'[i] = sessions[j]
    BY <1>1, <2>1, <2>4
  <2>6. ShutOutMeansOut'
    BY <2>1, <2>3, <2>5 DEF ShutInv, ShutOutMeansOut
  <2>7. LetInAreAllowed'
    BY <2>1, <2>2 DEF ShutInv, LetInAreAllowed
  <2> QED
    BY <2>6, <2>7 DEF ShutInv
<1>14. ASSUME NEW s \in SignIns, RecordSuccessfulLogin(s)
       PROVE  ShutInv'
  <2>1. ToSign(s, "trim") /\ UNCHANGED <<method, version, sessions>>
    BY <1>14 DEF RecordSuccessfulLogin
  <2>2. /\ \A t \in SignIns : t # s => signIn'[t] = signIn[t]
        /\ signIn'[s].pc = "trim"
    BY <1>1, <2>1, SignInMoves DEF Steps
  <2>3. user'.disabled = user.disabled
    BY <1>1, <1>14 DEF RecordSuccessfulLogin, LockRows
  <2> QED
    BY <1>2, <1>3, <2>1, <2>2, <2>3
<1> QED
  BY <1>4, <1>5, <1>6, <1>7, <1>8, <1>9, <1>10, <1>11, <1>12, <1>13, <1>14, SignInCases


\* A code that has opened the account is spent.
LEMMA CodesStep ==
    ASSUME SignInTypes, CodesInv, [SignInNext]_signInVars
    PROVE  CodesInv'
<1>1. /\ opened \in [Codes -> Nat] /\ version \in 1..MaxSets
      /\ \A c \in Codes : c[1] \in Nat
  BY SignInAssumption DEF SignInTypes, Codes
<1>2. CASE UNCHANGED <<version, codes, opened>>
  BY <1>2 DEF CodesInv
<1>3. CASE ReplaceCodes
  <2>1. version' = version + 1 /\ opened' = opened
    BY <1>3 DEF ReplaceCodes
  <2>2. \A c \in codes' : c[1] = version + 1
    BY <1>3 DEF ReplaceCodes
  <2> QED
    BY <1>1, <2>1, <2>2, SignInAssumption DEF CodesInv
<1>4. CASE ResetPassword
  BY <1>1, <1>4, SignInAssumption DEF ResetPassword, CodesInv
<1>5. ASSUME NEW s \in SignIns, SpendCode(s)
      PROVE  CodesInv'
  <2> DEFINE code == signIn[s].code
  <2>1. version' = version /\ codes' = codes \ {code}
        /\ opened' = IF IsGood(code) THEN [opened EXCEPT ![code] = @ + 1] ELSE opened
    BY <1>5 DEF SpendCode
  <2> HIDE DEF code
  <2>2. CASE IsGood(code)
    <3>1. code \in codes
      BY <2>2 DEF IsGood
    <3>2. \A c \in Codes : opened'[c] = IF c = code THEN opened[c] + 1 ELSE opened[c]
      BY <1>1, <2>1, <2>2
    <3> QED
      BY <1>1, <2>1, <3>1, <3>2, SignInAssumption DEF CodesInv
  <2>3. CASE ~IsGood(code)
    BY <2>1, <2>3 DEF CodesInv
  <2> QED
    BY <2>2, <2>3
<1>6. Elsewhere => ReplaceCodes \/ UNCHANGED <<version, codes, opened>>
  BY DEF Elsewhere, AddPasskey, Enable, Unlock, EndSessions, TimePasses, SignOut, signInVars
<1>7. Disable => UNCHANGED <<version, codes, opened>>
  BY DEF Disable
<1>8. ASSUME NEW s \in SignIns,
             \/ \E guess \in 0..version : SignInWithPassword(s, guess)
             \/ \E code \in Codes : SignInWithCode(s, code)
             \/ SignInWithPasskey(s) \/ CountPasskeys(s)
             \/ ComparePassword(s) \/ ReadFailures(s) \/ RecordFailure(s)
             \/ CheckDisabled(s) \/ InsertSession(s) \/ RecordSuccessfulLogin(s) \/ TrimSessions(s)
             \/ SignInStops(s) \/ RemovePasskey(s)
      PROVE  UNCHANGED <<version, codes, opened>>
  BY <1>8
  DEF SignInWithPassword, SignInWithCode, SignInWithPasskey, CountPasskeys, Start, ComparePassword,
      ReadFailures, RecordFailure, CheckDisabled, InsertSession, RecordSuccessfulLogin, TrimSessions,
      SignInStops, RemovePasskey
<1> QED
  BY <1>2, <1>3, <1>4, <1>5, <1>6, <1>7, <1>8, SignInCases

LEMMA ToTrimIsFinite ==
    /\ IsFiniteSet(ToTrim) /\ Cardinality(ToTrim) \in Nat
    /\ IsFiniteSet(ToTrim') /\ Cardinality(ToTrim') \in Nat
BY SignInAssumption, FS_Subset, FS_CardinalityType DEF ToTrim

\* A session above the ceiling is of a sign-in that is to trim it, or that never did.
LEMMA SessionsStep ==
    ASSUME SignInTypes, SessionsInv, [SignInNext]_signInVars
    PROVE  SessionsInv'
<1>1. /\ sessions \in Seq(SessionRows) /\ left \in Nat /\ Len(sessions) \in Nat /\ MaxSessions \in Nat
      /\ signIn \in [SignIns -> SignInRows]
  BY SignInAssumption DEF SignInTypes
<1>2. ASSUME Len(sessions') \in Nat, Len(sessions') <= Len(sessions), left' = left, ToTrim \subseteq ToTrim'
      PROVE  SessionsInv'
  <2>1. Cardinality(ToTrim) <= Cardinality(ToTrim')
    BY <1>2, ToTrimIsFinite, FS_Subset
  <2> QED
    BY <1>1, <1>2, <2>1, ToTrimIsFinite DEF SessionsInv
<1>3. CASE Elsewhere
  <2>1. Len(sessions') \in Nat /\ Len(sessions') <= Len(sessions) /\ left' = left
    <3>1. ASSUME NEW i \in DOMAIN sessions, SignOut(i)
          PROVE  Len(sessions') \in Nat /\ Len(sessions') <= Len(sessions) /\ left' = left
      BY <1>1, <3>1, OthersRemain DEF SignOut
    <3>2. CASE EndSessions
      BY <1>1, <3>2 DEF EndSessions
    <3>3. CASE AddPasskey \/ ReplaceCodes \/ Enable \/ Unlock \/ TimePasses \/ UNCHANGED signInVars
      BY <1>1, <3>3 DEF AddPasskey, ReplaceCodes, Enable, Unlock, TimePasses, signInVars
    <3> QED
      BY <1>3, <3>1, <3>2, <3>3 DEF Elsewhere
  <2>2. ToTrim' = ToTrim
    BY <1>3, ElsewhereNobodyMoves DEF ToTrim
  <2> QED
    BY <1>2, <2>1, <2>2
<1>4. CASE Disable \/ ResetPassword
  <2>1. sessions' = <<>> /\ left' = left
    BY <1>4 DEF Disable, ResetPassword
  <2>2. \A t \in SignIns : signIn'[t].pc = signIn[t].pc
    BY <1>4, StraysAre DEF Disable, ResetPassword
  <2>3. ToTrim' = ToTrim
    BY <2>2 DEF ToTrim
  <2> QED
    BY <1>1, <1>2, <2>1, <2>3
<1>5. ASSUME NEW s \in SignIns, UNCHANGED <<sessions, left>>, signIn[s].pc \notin {"after", "trim"},
             \A t \in SignIns : t # s => signIn'[t] = signIn[t]
      PROVE  SessionsInv'
  <2>1. ToTrim \subseteq ToTrim'
    BY <1>5 DEF ToTrim
  <2> QED
    BY <1>1, <1>2, <1>5, <2>1
<1>6. ASSUME NEW s \in SignIns,
             \/ \E guess \in 0..version : SignInWithPassword(s, guess)
             \/ \E code \in Codes : SignInWithCode(s, code)
             \/ SignInWithPasskey(s) \/ CountPasskeys(s)
      PROVE  SessionsInv'
  <2>1. UNCHANGED <<sessions, left>> /\ signIn[s] = NoSignIn
    BY <1>6 DEF SignInWithPassword, SignInWithCode, SignInWithPasskey, CountPasskeys, Start
  <2>2. \A t \in SignIns : t # s => signIn'[t] = signIn[t]
    BY <1>1, <1>6, SignInBegins, SignInIs
  <2> QED
    BY <1>5, <2>1, <2>2, NoSignInIsRow
<1>7. ASSUME NEW s \in SignIns, ComparePassword(s) \/ SpendCode(s) \/ ReadFailures(s) \/ CheckDisabled(s)
      PROVE  SessionsInv'
  <2>1. UNCHANGED <<sessions, left>> /\ signIn[s].pc \in {"check", "read", "session"}
    BY <1>7 DEF ComparePassword, SpendCode, ReadFailures, CheckDisabled
  <2>2. \A t \in SignIns : t # s => signIn'[t] = signIn[t]
    <3>1. CASE ComparePassword(s)
      BY <1>1, <3>1 DEF ComparePassword, ToSign
    <3>2. CASE SpendCode(s)
      BY <3>2, CodeIsSpent
    <3>3. CASE ReadFailures(s)
      BY <1>1, <3>3 DEF ReadFailures
    <3>4. CASE CheckDisabled(s)
      BY <1>1, <3>4 DEF CheckDisabled, ToSign, Ended
    <3> QED
      BY <1>7, <3>1, <3>2, <3>3, <3>4
  <2> QED
    BY <1>5, <2>1, <2>2
<1>8. ASSUME NEW s \in SignIns, RecordFailure(s) \/ RemovePasskey(s)
      PROVE  SessionsInv'
  <2>1. UNCHANGED <<sessions, left>> /\ signIn[s].pc \in {"count", "remove"}
    BY <1>8 DEF RecordFailure, RemovePasskey
  <2>2. \A t \in SignIns : t # s => signIn'[t] = signIn[t]
    BY <1>1, <1>8, SignInEnds DEF RecordFailure, RemovePasskey
  <2> QED
    BY <1>5, <2>1, <2>2
<1>9. ASSUME NEW s \in SignIns, InsertSession(s)
      PROVE  SessionsInv'
  <2>1. left' = left /\ signIn[s].pc = "insert" /\ ToSign(s, "after")
    BY <1>9 DEF InsertSession
  <2>2. Len(sessions') = Len(sessions) + 1
    <3>1. PICK row \in SessionRows : sessions' = Append(sessions, row)
      <4>1. signIn[s] \in SignInRows
        BY <1>1
      <4> QED
        BY <1>9, <4>1 DEF InsertSession, SessionRows, SignInRows
    <3> QED
      BY <1>1, <3>1
  <2>3. /\ \A t \in SignIns : t # s => signIn'[t] = signIn[t]
        /\ signIn'[s].pc = "after"
    BY <1>1, <2>1, SignInMoves DEF Steps
  <2>4. ToTrim' = ToTrim \cup {s} /\ s \notin ToTrim
    BY <2>1, <2>3 DEF ToTrim
  <2>5. Cardinality(ToTrim') = Cardinality(ToTrim) + 1
    BY <2>4, ToTrimIsFinite, FS_AddElement
  <2> QED
    BY <1>1, <2>1, <2>2, <2>5, ToTrimIsFinite DEF SessionsInv
<1>10. ASSUME NEW s \in SignIns, RecordSuccessfulLogin(s)
       PROVE  SessionsInv'
  <2>1. UNCHANGED <<sessions, left>> /\ ToSign(s, "trim")
    BY <1>10 DEF RecordSuccessfulLogin
  <2>2. /\ \A t \in SignIns : t # s => signIn'[t] = signIn[t]
        /\ signIn'[s].pc = "trim"
    BY <1>1, <2>1, SignInMoves DEF Steps
  <2>3. ToTrim \subseteq ToTrim'
    BY <2>2 DEF ToTrim
  <2> QED
    BY <1>1, <1>2, <2>1, <2>3
<1>11. ASSUME NEW s \in SignIns, TrimSessions(s)
       PROVE  SessionsInv'
  <2>1. /\ sessions' \in Seq(SessionRows) /\ Len(sessions') <= MaxSessions /\ left' = left
    BY <1>1, <1>11, NewestAre DEF TrimSessions
  <2>2. Len(sessions') \in Nat
    BY <2>1
  <2> QED
    BY <1>1, <2>1, <2>2, ToTrimIsFinite DEF SessionsInv
<1>12. ASSUME NEW s \in SignIns, SignInStops(s)
       PROVE  SessionsInv'
  <2>1. sessions' = sessions /\ left' = IF signIn[s].pc \in {"after", "trim"} THEN left + 1 ELSE left
    BY <1>12 DEF SignInStops
  <2>2. \A t \in SignIns : t # s => signIn'[t] = signIn[t]
    BY <1>1, <1>12, SignInEnds DEF SignInStops
  <2>3. CASE signIn[s].pc \in {"after", "trim"}
    <3>1. s \in ToTrim /\ ToTrim \ {s} \subseteq ToTrim'
      BY <2>2, <2>3 DEF ToTrim
    <3>2. IsFiniteSet(ToTrim \ {s}) /\ Cardinality(ToTrim \ {s}) = Cardinality(ToTrim) - 1
      BY <3>1, ToTrimIsFinite, FS_RemoveElement
    <3>3. Cardinality(ToTrim) - 1 <= Cardinality(ToTrim')
      BY <3>1, <3>2, ToTrimIsFinite, FS_Subset
    <3> QED
      BY <1>1, <2>1, <2>3, <3>3, ToTrimIsFinite DEF SessionsInv
  <2>4. CASE signIn[s].pc \notin {"after", "trim"}
    BY <1>5, <2>1, <2>2, <2>4
  <2> QED
    BY <2>3, <2>4
<1> QED
  BY <1>3, <1>4, <1>6, <1>7, <1>8, <1>9, <1>10, <1>11, <1>12, SignInCases


\* Whoever removes a passkey counted two, and nobody else does.
LEMMA PasskeysStep ==
    ASSUME SignInTypes, PasskeysInv, OneAtATime, [SignInNext]_signInVars
    PROVE  PasskeysInv'
<1>1. /\ signIn \in [SignIns -> SignInRows] /\ passkeys \in Nat /\ passkeys' \in Nat
      /\ method' = method
  BY SignInAssumption, CodesMove DEF SignInTypes
<1>2. ASSUME passkeys' >= passkeys,
             \A t \in SignIns : signIn'[t].pc = "remove" => signIn[t].pc = "remove" /\ signIn'[t].kind = signIn[t].kind
      PROVE  PasskeysInv'
  BY <1>1, <1>2 DEF PasskeysInv
<1>3. CASE Elsewhere
  <2>1. passkeys' >= passkeys
    BY <1>1, <1>3
    DEF Elsewhere, AddPasskey, ReplaceCodes, Enable, Unlock, EndSessions, TimePasses, SignOut, signInVars
  <2> QED
    BY <1>2, <1>3, <2>1, ElsewhereNobodyMoves
<1>4. CASE Disable \/ ResetPassword
  <2>1. passkeys' = passkeys
    BY <1>4 DEF Disable, ResetPassword
  <2>2. \A t \in SignIns : signIn'[t].pc = signIn[t].pc /\ signIn'[t].kind = signIn[t].kind
    BY <1>4, StraysAre DEF Disable, ResetPassword
  <2> QED
    BY <1>1, <1>2, <2>1, <2>2
<1>5. ASSUME NEW s \in SignIns, passkeys' = passkeys, signIn'[s].pc # "remove",
             \A t \in SignIns : t # s => signIn'[t] = signIn[t]
      PROVE  PasskeysInv'
  BY <1>1, <1>2, <1>5
<1>6. ASSUME NEW s \in SignIns,
             \/ \E guess \in 0..version : SignInWithPassword(s, guess)
             \/ \E code \in Codes : SignInWithCode(s, code)
             \/ SignInWithPasskey(s)
      PROVE  PasskeysInv'
  <2>1. passkeys' = passkeys
    BY <1>6 DEF SignInWithPassword, SignInWithCode, SignInWithPasskey, Start
  <2>2. signIn'[s].pc # "remove" /\ \A t \in SignIns : t # s => signIn'[t] = signIn[t]
    BY <1>1, <1>6, SignInBegins, SignInIs
  <2> QED
    BY <1>5, <2>1, <2>2
<1>7. ASSUME NEW s \in SignIns, CountPasskeys(s)
      PROVE  PasskeysInv'
  <2>1. /\ passkeys' = passkeys /\ passkeys > 1
        /\ \A t \in SignIns : signIn[t].kind # "removal"
    BY <1>1, <1>7 DEF CountPasskeys, IsLastPasskey, Start
  <2>2. signIn'[s].kind = "removal" /\ \A t \in SignIns : t # s => signIn'[t] = signIn[t]
    BY <1>1, <1>7, SignInBegins, SignInIs
  <2>3. \A t \in SignIns : t # s => signIn'[t].pc # "remove"
    BY <2>1, <2>2 DEF PasskeysInv
  <2> QED
    BY <1>1, <2>1, <2>2, <2>3 DEF PasskeysInv
<1>8. ASSUME NEW s \in SignIns, RemovePasskey(s)
      PROVE  PasskeysInv'
  <2>1. passkeys' = passkeys - 1 /\ signIn[s].pc = "remove"
    BY <1>8 DEF RemovePasskey
  <2>2. signIn'[s].pc = "none" /\ \A t \in SignIns : t # s => signIn'[t] = signIn[t]
    BY <1>1, <1>8, SignInEnds DEF RemovePasskey
  <2>3. \A t \in SignIns : signIn'[t].pc # "remove"
    BY <2>1, <2>2 DEF PasskeysInv
  <2> QED
    BY <1>1, <2>1, <2>3 DEF PasskeysInv
<1>9. ASSUME NEW s \in SignIns, SpendCode(s)
      PROVE  PasskeysInv'
  <2>1. passkeys' = passkeys
    BY <1>9 DEF SpendCode
  <2> QED
    BY <1>5, <1>9, <2>1, CodeIsSpent
<1>10. ASSUME NEW s \in SignIns, ComparePassword(s) \/ InsertSession(s) \/ RecordSuccessfulLogin(s)
       PROVE  PasskeysInv'
  <2>1. passkeys' = passkeys /\ \E pc \in Steps : ToSign(s, pc) /\ pc # "remove"
    BY <1>10 DEF ComparePassword, InsertSession, RecordSuccessfulLogin, Steps
  <2> QED
    BY <1>1, <1>5, <2>1, SignInMoves
<1>11. ASSUME NEW s \in SignIns, ReadFailures(s)
       PROVE  PasskeysInv'
  <2>1. passkeys' = passkeys /\ signIn'[s].pc = "count" /\ \A t \in SignIns : t # s => signIn'[t] = signIn[t]
    BY <1>1, <1>11 DEF ReadFailures, SignInRows
  <2> QED
    BY <1>5, <2>1
<1>12. ASSUME NEW s \in SignIns, RecordFailure(s) \/ TrimSessions(s) \/ SignInStops(s)
       PROVE  PasskeysInv'
  <2>1. passkeys' = passkeys /\ Ended(s)
    BY <1>12 DEF RecordFailure, TrimSessions, SignInStops
  <2> QED
    BY <1>1, <1>5, <2>1, SignInEnds
<1>13. ASSUME NEW s \in SignIns, CheckDisabled(s)
       PROVE  PasskeysInv'
  <2>1. passkeys' = passkeys /\ (Ended(s) \/ ToSign(s, "insert"))
    BY <1>13 DEF CheckDisabled
  <2> QED
    BY <1>1, <1>5, <2>1, SignInEnds, SignInMoves DEF Steps
<1> QED
  BY <1>3, <1>4, <1>6, <1>7, <1>8, <1>9, <1>10, <1>11, <1>12, <1>13, SignInCases


\* A wrong guess that was not turned away comes after the lockout of those before.
LEMMA GuessIsApart ==
    ASSUME SignInTypes, GuessesInv, NEW s \in SignIns, signIn[s].pc = "check",
           tries' = Append(tries, time), time' = time
    PROVE  /\ TriesAreApart'
           /\ Len(tries') = Len(tries) + 1 /\ Len(tries) <= user.failures
<1>1. /\ tries \in Seq(Nat) /\ time \in Nat /\ Len(tries) \in Nat
      /\ MaxFailed \in Nat \ {0} /\ LockFor \in Nat
      /\ user.lockedUntil \in Nat /\ user.failures \in Nat
  BY SignInAssumption DEF SignInTypes, LockRows
<1>2. ~Unrecorded /\ user.lockedUntil <= time
  BY DEF GuessesInv, Guessing, Unrecorded
<1>3. /\ Len(tries) <= user.failures
      /\ Len(tries) >= MaxFailed => user.lockedUntil >= tries[Len(tries)] + LockFor
  BY <1>2 DEF GuessesInv
<1>4. /\ Len(tries') = Len(tries) + 1 /\ DOMAIN tries' = 1..(Len(tries) + 1)
      /\ tries'[Len(tries) + 1] = time
      /\ \A i \in 1..Len(tries) : tries'[i] = tries[i] /\ tries[i] \in Nat
  BY <1>1
<1>5. /\ \A i \in 1..Len(tries) : tries[i] <= time
      /\ \A i, j \in 1..Len(tries) : i < j => tries[i] <= tries[j] /\ (j > MaxFailed => tries[j] >= tries[i] + LockFor)
  BY <1>1 DEF GuessesInv, TriesAreApart
<1>6. \A i \in 1..(Len(tries) + 1) : tries'[i] <= time'
  BY <1>1, <1>4, <1>5
<1>7. ASSUME NEW i \in 1..(Len(tries) + 1), NEW j \in 1..(Len(tries) + 1), i < j
      PROVE  tries'[i] <= tries'[j] /\ (j > MaxFailed => tries'[j] >= tries'[i] + LockFor)
  <2>1. CASE j <= Len(tries)
    BY <1>1, <1>4, <1>5, <1>7, <2>1
  <2>2. CASE j = Len(tries) + 1
    <3>1. i \in 1..Len(tries) /\ Len(tries) \in 1..Len(tries)
      BY <1>1, <1>7, <2>2
    <3>2. tries[i] <= tries[Len(tries)] /\ tries[i] <= time /\ tries[i] \in Nat /\ tries[Len(tries)] \in Nat
      BY <1>4, <1>5, <3>1
    <3>3. j > MaxFailed => time >= tries[Len(tries)] + LockFor
      BY <1>1, <1>2, <1>3, <1>4, <2>2, <3>1
    <3> QED
      BY <1>1, <1>4, <2>2, <3>1, <3>2, <3>3
  <2> QED
    BY <1>1, <2>1, <2>2
<1> QED
  BY <1>3, <1>4, <1>6, <1>7 DEF TriesAreApart

\* The count keeps up with the guesses, when no two are made at once.
LEMMA GuessesStep ==
    ASSUME SignInTypes, GuessesInv, OneAtATime, [SignInNext]_signInVars
    PROVE  GuessesInv'
<1>1. /\ signIn \in [SignIns -> SignInRows] /\ \A t \in SignIns : signIn[t] \in SignInRows
      /\ user \in LockRows /\ user.failures \in Nat /\ user.lockedUntil \in Nat
      /\ tries \in Seq(Nat) /\ Len(tries) \in Nat /\ time \in Nat
      /\ MaxFailed \in Nat \ {0} /\ LockFor \in Nat
  BY SignInAssumption DEF SignInTypes, LockRows
\* Nothing that has to do with guessing.
<1>2. ASSUME UNCHANGED <<tries, time>>, user'.failures = user.failures, user'.lockedUntil = user.lockedUntil,
             \A t \in SignIns :
                /\ signIn'[t].pc \in {"check", "read", "count"} =>
                     /\ signIn'[t].pc = signIn[t].pc /\ signIn'[t].kind = signIn[t].kind
                     /\ signIn'[t].failures = signIn[t].failures
                /\ signIn[t].pc \in {"read", "count"} => signIn'[t].pc = signIn[t].pc
      PROVE  GuessesInv'
  <2>1. TriesAreApart'
    BY <1>2 DEF GuessesInv, TriesAreApart
  <2>2. Unrecorded => Unrecorded'
    BY <1>2 DEF Unrecorded
  <2> QED
    BY <1>2, <2>1, <2>2 DEF GuessesInv, Guessing
<1>3. ASSUME NEW s \in SignIns, UNCHANGED <<tries, time, user>>,
             signIn[s].pc \notin {"read", "count"}, signIn'[s].pc \notin {"check", "read", "count"},
             \A t \in SignIns : t # s => signIn'[t] = signIn[t]
      PROVE  GuessesInv'
  BY <1>2, <1>3
\* The count is cleared.
<1>4. ASSUME tries' = <<>>, time' = time, user'.failures = 0, user'.lockedUntil = 0,
             \A t \in SignIns : signIn'[t].pc \in {"check", "read", "count"} =>
                /\ signIn'[t].pc = signIn[t].pc /\ signIn'[t].kind = signIn[t].kind
                /\ signIn'[t].failures = signIn[t].failures
      PROVE  GuessesInv'
  <2>1. Len(tries') = 0 /\ DOMAIN tries' = {}
    BY <1>4
  <2>2. TriesAreApart'
    BY <2>1 DEF TriesAreApart
  <2>3. \A t \in SignIns : signIn[t].failures \in Nat
    BY <1>1 DEF SignInRows
  <2> QED
    BY <1>1, <1>4, <2>1, <2>2, <2>3 DEF GuessesInv, Guessing
<1>5. ASSUME user' = [user EXCEPT !.failures = 0, !.lockedUntil = 0]
      PROVE  user'.failures = 0 /\ user'.lockedUntil = 0
  BY <1>1, <1>5 DEF LockRows
<1>6. CASE Elsewhere
  <2>1. signIn' = signIn
    BY <1>6, ElsewhereNobodyMoves
  <2>2. CASE AddPasskey \/ ReplaceCodes \/ EndSessions \/ UNCHANGED signInVars \/ \E i \in DOMAIN sessions : SignOut(i)
    <3>1. UNCHANGED <<tries, time, user>>
      BY <2>2 DEF AddPasskey, ReplaceCodes, EndSessions, signInVars, SignOut
    <3> QED
      BY <1>2, <2>1, <3>1
  <2>3. CASE Enable
    <3>1. UNCHANGED <<tries, time>> /\ user'.failures = user.failures /\ user'.lockedUntil = user.lockedUntil
      BY <1>1, <2>3 DEF Enable, LockRows
    <3> QED
      BY <1>2, <2>1, <3>1
  <2>4. CASE Unlock
    BY <1>4, <1>5, <2>1, <2>4 DEF Unlock
  <2>5. CASE TimePasses
    <3>1. time' = time + 1 /\ UNCHANGED <<user, tries>>
      BY <2>5 DEF TimePasses
    <3>2. \A i \in DOMAIN tries : tries[i] \in Nat
      BY <1>1
    <3>3. TriesAreApart'
      BY <1>1, <3>1, <3>2 DEF GuessesInv, TriesAreApart
    <3> QED
      BY <1>1, <2>1, <3>1, <3>3 DEF GuessesInv, Guessing, Unrecorded
  <2> QED
    BY <1>6, <2>2, <2>3, <2>4, <2>5 DEF Elsewhere
<1>7. CASE Disable
  <2>1. UNCHANGED <<tries, time>> /\ user'.failures = user.failures /\ user'.lockedUntil = user.lockedUntil
    BY <1>1, <1>7 DEF Disable, LockRows
  <2>2. \A t \in SignIns : signIn'[t].pc = signIn[t].pc /\ signIn'[t].kind = signIn[t].kind
                           /\ signIn'[t].failures = signIn[t].failures
    BY <1>7, StraysAre DEF Disable
  <2> QED
    BY <1>2, <2>1, <2>2
<1>8. CASE ResetPassword
  <2>1. \A t \in SignIns : signIn'[t].pc = signIn[t].pc /\ signIn'[t].kind = signIn[t].kind
                           /\ signIn'[t].failures = signIn[t].failures
    BY <1>8, StraysAre DEF ResetPassword
  <2>2. tries' = <<>> /\ time' = time /\ user'.failures = 0 /\ user'.lockedUntil = 0
    BY <1>5, <1>8 DEF ResetPassword
  <2> QED
    BY <1>4, <2>1, <2>2
<1>9. ASSUME NEW s \in SignIns,
             \/ \E guess \in 0..version : SignInWithPassword(s, guess)
             \/ \E code \in Codes : SignInWithCode(s, code)
      PROVE  GuessesInv'
  <2>1. /\ \A t \in SignIns : signIn[t].pc \notin {"check", "read", "count"}
        /\ UNCHANGED <<user, time, tries>> /\ ~IsLocked
    BY <1>9 DEF SignInWithPassword, SignInWithCode, Start
  <2>2. /\ signIn'[s].pc = "check" /\ (signIn'[s].kind = "code" => signIn'[s].failures = user.failures)
        /\ \A t \in SignIns : t # s => signIn'[t] = signIn[t]
    BY <1>1, <1>9, SignInBegins, SignInIs
  <2>3. Len(tries) <= user.failures /\ user.lockedUntil <= time
    BY <1>1, <2>1 DEF GuessesInv, Unrecorded, IsLocked
  <2>4. ~Unrecorded /\ ~Unrecorded'
    BY <2>1, <2>2 DEF Unrecorded
  <2>5. \A t \in SignIns : signIn'[t].pc \in {"check", "read", "count"} => t = s
    BY <2>1, <2>2
  <2>6. TriesAreApart'
    BY <2>1 DEF GuessesInv, TriesAreApart
  <2> QED
    BY <2>1, <2>2, <2>3, <2>4, <2>5, <2>6 DEF GuessesInv, Guessing
<1>10. ASSUME NEW s \in SignIns, SignInWithPasskey(s) \/ CountPasskeys(s)
       PROVE  GuessesInv'
  <2>1. UNCHANGED <<user, time, tries>> /\ signIn[s] = NoSignIn
    BY <1>10 DEF SignInWithPasskey, CountPasskeys, Start
  <2>2. signIn'[s].pc \in {"session", "remove"} /\ \A t \in SignIns : t # s => signIn'[t] = signIn[t]
    BY <1>1, <1>10, SignInBegins, SignInIs
  <2> QED
    BY <1>3, <2>1, <2>2, NoSignInIsRow
\* A wrong guess.
<1>11. ASSUME NEW s \in SignIns, signIn[s].pc = "check", signIn'[s].pc \in {"read", "count"},
              tries' = Append(tries, time), UNCHANGED <<user, time>>,
              \A t \in SignIns : t # s => signIn'[t] = signIn[t],
              signIn'[s].failures = signIn[s].failures,
              signIn'[s].pc = "count" => signIn[s].kind = "code"
       PROVE  GuessesInv'
  <2>1. TriesAreApart' /\ Len(tries') = Len(tries) + 1 /\ Len(tries) <= user.failures
    BY <1>11, GuessIsApart
  <2>2. \A t \in SignIns : t # s => signIn[t].pc \notin {"check", "read", "count"}
    BY <1>11 DEF GuessesInv, Guessing
  <2>3. Unrecorded'
    BY <1>11 DEF Unrecorded
  <2>4. signIn[s].failures \in Nat /\ (signIn[s].kind = "code" => Len(tries) <= signIn[s].failures)
    BY <1>1, <1>11 DEF GuessesInv, SignInRows
  <2>5. /\ signIn'[s].pc = "read" => Len(tries') <= user'.failures + 1
        /\ signIn'[s].pc = "count" => Len(tries') <= signIn'[s].failures + 1
    BY <1>1, <1>11, <2>1, <2>4
  <2>6. \A t \in SignIns : signIn'[t].pc \in {"check", "read", "count"} => t = s
    BY <1>11, <2>2
  <2>7. signIn'[s].pc # "check"
    BY <1>11
  <2> QED
    BY <2>1, <2>3, <2>5, <2>6, <2>7 DEF GuessesInv, Guessing
<1>12. ASSUME NEW s \in SignIns, ComparePassword(s)
       PROVE  GuessesInv'
  <2>1. signIn[s].pc = "check" /\ UNCHANGED <<user, time>>
    BY <1>12 DEF ComparePassword
  <2>2. CASE signIn[s].version = version
    <3>1. tries' = tries /\ ToSign(s, "session")
      BY <1>12, <2>2 DEF ComparePassword
    <3> QED
      BY <1>1, <1>3, <2>1, <3>1, SignInMoves DEF Steps
  <2>3. CASE signIn[s].version # version
    <3>1. tries' = Append(tries, time) /\ ToSign(s, "read")
      BY <1>12, <2>3 DEF ComparePassword
    <3> QED
      BY <1>1, <1>11, <2>1, <3>1, SignInMoves DEF Steps
  <2> QED
    BY <2>2, <2>3
<1>13. ASSUME NEW s \in SignIns, SpendCode(s)
       PROVE  GuessesInv'
  <2>1. signIn[s].pc = "check" /\ signIn[s].kind = "code" /\ UNCHANGED <<user, time>>
        /\ tries' = IF IsGood(signIn[s].code) THEN tries ELSE Append(tries, time)
    BY <1>13 DEF SpendCode
  <2>2. CASE IsGood(signIn[s].code)
    BY <1>3, <1>13, <2>1, <2>2, CodeIsSpent
  <2>3. CASE ~IsGood(signIn[s].code)
    BY <1>11, <1>13, <2>1, <2>3, CodeIsSpent
  <2> QED
    BY <2>2, <2>3
<1>14. ASSUME NEW s \in SignIns, ReadFailures(s)
       PROVE  GuessesInv'
  <2>1. signIn[s].pc = "read" /\ UNCHANGED <<user, time, tries>>
    BY <1>14 DEF ReadFailures
  <2>2. /\ signIn'[s].pc = "count" /\ signIn'[s].failures = user.failures
        /\ \A t \in SignIns : t # s => signIn'[t] = signIn[t]
    BY <1>1, <1>14 DEF ReadFailures, SignInRows
  <2>3. TriesAreApart' /\ Unrecorded'
    BY <2>1, <2>2 DEF GuessesInv, TriesAreApart, Unrecorded
  <2>4. \A t \in SignIns : t # s => signIn[t].pc \notin {"check", "read", "count"}
    BY <2>1 DEF GuessesInv, Guessing
  <2>5. Len(tries) <= user.failures + 1
    BY <2>1 DEF GuessesInv
  <2> QED
    BY <2>1, <2>2, <2>3, <2>4, <2>5 DEF GuessesInv, Guessing
<1>15. ASSUME NEW s \in SignIns, RecordFailure(s)
       PROVE  GuessesInv'
  <2> DEFINE n == signIn[s].failures + 1
  <2>1. /\ signIn[s].pc = "count" /\ UNCHANGED <<tries, time>> /\ n \in Nat
        /\ user'.failures = n /\ user'.lockedUntil = (IF Locks(n) THEN time + LockFor ELSE 0)
    BY <1>1, <1>15 DEF RecordFailure, LockRows, SignInRows
  <2>2. signIn'[s].pc = "none" /\ \A t \in SignIns : t # s => signIn'[t] = signIn[t]
    BY <1>1, <1>15, SignInEnds DEF RecordFailure
  <2>3. \A t \in SignIns : signIn'[t].pc \notin {"check", "read", "count"}
    BY <2>1, <2>2 DEF GuessesInv, Guessing
  <2>4. Len(tries) <= n
    BY <2>1 DEF GuessesInv
  <2>5. TriesAreApart'
    BY <2>1 DEF GuessesInv, TriesAreApart
  <2> HIDE DEF n
  <2>6. Len(tries) >= MaxFailed => user'.lockedUntil >= tries[Len(tries)] + LockFor
    <3>1. SUFFICES ASSUME Len(tries) >= MaxFailed PROVE user'.lockedUntil >= tries[Len(tries)] + LockFor
      OBVIOUS
    <3>2. Len(tries) \in DOMAIN tries
      BY <1>1, <3>1
    <3>3. tries[Len(tries)] <= time /\ tries[Len(tries)] \in Nat
      BY <1>1, <3>2 DEF GuessesInv, TriesAreApart
    <3>4. user'.lockedUntil = time + LockFor
      BY <1>1, <2>1, <2>4, <3>1 DEF Locks
    <3> QED
      BY <1>1, <3>3, <3>4
  <2> QED
    BY <2>1, <2>3, <2>4, <2>5, <2>6 DEF GuessesInv, Guessing
<1>16. ASSUME NEW s \in SignIns, CheckDisabled(s) \/ InsertSession(s)
       PROVE  GuessesInv'
  <2>1. /\ signIn[s].pc \in {"session", "insert"} /\ UNCHANGED <<tries, time, user>>
        /\ Ended(s) \/ \E pc \in {"insert", "after"} : ToSign(s, pc)
    BY <1>16 DEF CheckDisabled, InsertSession
  <2> QED
    BY <1>1, <1>3, <2>1, SignInEnds, SignInMoves DEF Steps
<1>17. ASSUME NEW s \in SignIns, TrimSessions(s) \/ SignInStops(s) \/ RemovePasskey(s)
       PROVE  GuessesInv'
  <2>1. signIn[s].pc \notin {"read", "count"} /\ UNCHANGED <<tries, time, user>> /\ Ended(s)
    BY <1>17 DEF TrimSessions, SignInStops, RemovePasskey
  <2> QED
    BY <1>1, <1>3, <2>1, SignInEnds
<1>18. ASSUME NEW s \in SignIns, RecordSuccessfulLogin(s)
       PROVE  GuessesInv'
  <2>1. tries' = <<>> /\ time' = time /\ user'.failures = 0 /\ user'.lockedUntil = 0 /\ ToSign(s, "trim")
    BY <1>5, <1>18 DEF RecordSuccessfulLogin
  <2>2. signIn'[s].pc = "trim" /\ \A t \in SignIns : t # s => signIn'[t] = signIn[t]
    BY <1>1, <2>1, SignInMoves DEF Steps
  <2> QED
    BY <1>4, <2>1, <2>2
<1> QED
  BY <1>6, <1>7, <1>8, <1>9, <1>10, <1>12, <1>13, <1>14, <1>15, <1>16, <1>17, <1>18, SignInCases


\* A stretch as long as a lockout has the guesses before the ceiling, or one after it.
LEMMA GuessesAreFew ==
    ASSUME SignInTypes, GuessesInv
    PROVE  GuessesAreBounded
<1> SUFFICES ASSUME NEW t \in 0..time
             PROVE  Cardinality({i \in DOMAIN tries : tries[i] \in t..(t + LockFor - 1)}) <= MaxFailed
  BY DEF GuessesAreBounded
<1> DEFINE W == {i \in DOMAIN tries : tries[i] \in t..(t + LockFor - 1)}
<1>1. /\ t \in Nat /\ MaxFailed \in Nat \ {0} /\ LockFor \in Nat \ {0}
      /\ tries \in Seq(Nat) /\ Len(tries) \in Nat /\ DOMAIN tries = 1..Len(tries)
      /\ \A i \in DOMAIN tries : tries[i] \in Nat
  BY SignInAssumption DEF SignInTypes
<1>2. \A i, j \in DOMAIN tries : i < j /\ j > MaxFailed => tries[j] >= tries[i] + LockFor
  BY DEF GuessesInv, TriesAreApart
<1>3. CASE W \subseteq 1..MaxFailed
  <2>1. IsFiniteSet(1..MaxFailed) /\ Cardinality(1..MaxFailed) = MaxFailed
    <3>1. 1 \in Int /\ MaxFailed \in Int /\ ~(1 > MaxFailed) /\ MaxFailed - 1 + 1 = MaxFailed
      BY <1>1
    <3>2. /\ IsFiniteSet(1..MaxFailed)
          /\ Cardinality(1..MaxFailed) = IF 1 > MaxFailed THEN 0 ELSE MaxFailed - 1 + 1
      BY ONLY <3>1, FS_Interval, Zenon
    <3> QED
      BY <3>1, <3>2
  <2> HIDE DEF W
  <2>2. Cardinality(W) <= MaxFailed
    BY <1>3, <2>1, FS_Subset
  <2> QED
    BY <2>2 DEF W
<1>4. CASE ~(W \subseteq 1..MaxFailed)
  <2>1. PICK k \in W : k \notin 1..MaxFailed
    BY <1>4
  <2>2. k \in DOMAIN tries /\ k \in Nat /\ k > MaxFailed /\ tries[k] >= t /\ tries[k] <= t + LockFor - 1
    BY <1>1, <2>1
  <2>3. ASSUME NEW i \in W
        PROVE  i = k
    <3>1. i \in DOMAIN tries /\ i \in Nat /\ tries[i] >= t /\ tries[i] <= t + LockFor - 1
      BY <1>1
    <3>2. ~(i < k)
      BY <1>1, <1>2, <2>2, <3>1
    <3>3. ~(k < i)
      BY <1>1, <1>2, <2>2, <3>1
    <3> QED
      BY <2>2, <3>1, <3>2, <3>3
  <2>4. W = {k}
    BY <2>1, <2>3
  <2> HIDE DEF W
  <2>5. Cardinality(W) = 1
    BY <2>4, FS_Singleton
  <2> QED
    BY <1>1, <2>5 DEF W
<1> QED
  BY <1>3, <1>4

LEMMA SignInInvInit == SignInInit => SignInInv
<1> SUFFICES ASSUME SignInInit PROVE SignInInv
  OBVIOUS
<1>1. \A s \in SignIns : signIn[s].pc = "none" /\ signIn[s] = NoSignIn
  BY NoSignInIsRow DEF SignInInit
<1>2. /\ sessions = <<>> /\ tries = <<>> /\ DOMAIN sessions = {} /\ DOMAIN tries = {}
      /\ Len(sessions) = 0 /\ Len(tries) = 0 /\ left = 0 /\ time = 0 /\ version = 1
  BY DEF SignInInit
<1>3. user \in LockRows /\ user.failures = 0 /\ user.lockedUntil = 0 /\ ~user.disabled
  BY SignInAssumption DEF SignInInit, LockRows
<1>4. codes \subseteq Codes /\ \A c \in codes : c[1] = 1
  BY SignInAssumption DEF SignInInit, Codes
<1>5. SignInTypes
  <2>1. signIn \in [SignIns -> SignInRows]
    BY NoSignInIsRow DEF SignInInit
  <2>2. sessions \in Seq(SessionRows) /\ tries \in Seq(Nat)
    BY <1>2
  <2>3. opened \in [Codes -> Nat]
    BY DEF SignInInit
  <2>4. method \in {"password", "passkey"} /\ passkeys \in 0..MaxPasskeys /\ version \in 1..MaxSets
        /\ time \in 0..MaxTime /\ left \in Nat
    BY SignInAssumption DEF SignInInit
  <2> QED
    BY <1>3, <1>4, <2>1, <2>2, <2>3, <2>4 DEF SignInTypes
<1>6. ShutInv
  BY <1>1, <1>2 DEF ShutInv, ShutOutMeansOut, LetInAreAllowed
<1>7. CodesInv
  BY <1>2, <1>4 DEF CodesInv, SignInInit
<1>8. SessionsInv
  BY <1>2, ToTrimIsFinite, SignInAssumption DEF SessionsInv
<1>9. PasskeysInv
  BY <1>1 DEF PasskeysInv, SignInInit
<1>10. GuessesInv
  BY <1>1, <1>2, <1>3, SignInAssumption DEF GuessesInv, TriesAreApart, Guessing, Unrecorded
<1> QED
  BY <1>5, <1>6, <1>7, <1>8, <1>9, <1>10 DEF SignInInv

LEMMA SignInInvStep == SignInInv /\ [SignInNext]_signInVars => SignInInv'
<1> SUFFICES ASSUME SignInInv, [SignInNext]_signInVars PROVE SignInInv'
  OBVIOUS
<1>1. SignInTypes' /\ ShutInv' /\ CodesInv' /\ SessionsInv'
  BY SignInTypesStep, ShutStep, CodesStep, SessionsStep DEF SignInInv
<1>2. OneAtATime => PasskeysInv' /\ GuessesInv'
  BY PasskeysStep, GuessesStep DEF SignInInv
<1> QED
  BY <1>1, <1>2 DEF SignInInv

LEMMA SignInIsSound ==
    SignInInv => /\ SignInTypeOK /\ ShutOutMeansOut /\ CodesWorkOnce /\ SessionsAreBounded
                 /\ OneAtATime => GuessesAreBounded /\ LastPasskeyStays
<1> SUFFICES ASSUME SignInInv
             PROVE  /\ SignInTypeOK /\ ShutOutMeansOut /\ CodesWorkOnce /\ SessionsAreBounded
                    /\ OneAtATime => GuessesAreBounded /\ LastPasskeyStays
  OBVIOUS
<1>1. SignInTypeOK
  <2>1. \A i \in DOMAIN sessions : sessions[i] \in SessionRows
    BY DEF SignInInv, SignInTypes
  <2>2. \A s \in SignIns : signIn[s] \in SignInRows
    BY DEF SignInInv, SignInTypes
  <2> QED
    BY <2>1, <2>2 DEF SignInInv, SignInTypes, SignInTypeOK, SessionRows, SignInRows, LockRows
<1>2. ShutOutMeansOut /\ CodesWorkOnce /\ SessionsAreBounded
  BY DEF SignInInv, ShutInv, CodesInv, CodesWorkOnce, SessionsInv, SessionsAreBounded, ToTrim
<1>3. OneAtATime => GuessesAreBounded /\ LastPasskeyStays
  BY GuessesAreFew DEF SignInInv, PasskeysInv, LastPasskeyStays
<1> QED
  BY <1>1, <1>2, <1>3


-----------------------------------------------------------------------------
(***************************************************************************)
(* One or another of them.                                                 *)
(***************************************************************************)

PeopleInv ==
    /\ part = "SignUp" => SignUpInv
    /\ part = "SignIn" => SignInInv

QueueInv == TruthInv /\ QueueTypeInv /\ AttemptsInv /\ CountersInv /\ (BatchesFit => LeaseInv)

\* One component moves, as it does on its own.
LEMMA OneOverlaps ==
    [OverlapsNext]_overlapsVars
    => /\ part' = part
       /\ part = "SignUp" => [SignUpNext]_signUpVars
       /\ part = "SignIn" => [SignInNext]_signInVars
       /\ part = "Queue" => [QueueNext]_queueVars
BY Zenon DEF OverlapsNext, overlapsVars

LEMMA PeopleInvariance ==
    /\ OverlapsInit => PeopleInv
    /\ PeopleInv /\ [OverlapsNext]_overlapsVars => PeopleInv'
<1>1. OverlapsInit => PeopleInv
  <2>1. OverlapsInit => (part = "SignUp" => SignUpInit) /\ (part = "SignIn" => SignInInit)
    BY DEF OverlapsInit
  <2> QED
    BY <2>1, SignUpInvariance, SignInInvInit DEF PeopleInv
<1>2. PeopleInv /\ [OverlapsNext]_overlapsVars => PeopleInv'
  BY OneOverlaps, SignUpInvariance, SignInInvStep DEF PeopleInv
<1> QED
  BY <1>1, <1>2

LEMMA QueueInvariance ==
    ASSUME QueueIsFinite, IsFiniteSet(Servers)
    PROVE  /\ OverlapsInit => (part = "Queue" => QueueInv)
           /\ (part = "Queue" => QueueInv) /\ [OverlapsNext]_overlapsVars => (part = "Queue" => QueueInv)'
<1>1. QueueInit => QueueInv
  BY TruthInit, QueueTypeInit, AttemptsInit, CountersInit, LeaseInit DEF QueueInv
<1>2. OverlapsInit => (part = "Queue" => QueueInit)
  BY DEF OverlapsInit
<1>3. ASSUME QueueInv, [QueueNext]_queueVars
      PROVE  QueueInv'
  <2>1. TruthInv' /\ QueueTypeInv' /\ AttemptsInv'
    BY <1>3, TruthStep, QueueTypeStep, AttemptsStep DEF QueueInv
  <2>2. QueueTypeOK /\ QueueTypeOK'
    BY <1>3, <2>1 DEF QueueInv, QueueTypeInv
  <2>3. CountersInv' /\ (BatchesFit => LeaseInv')
    BY <1>3, <2>2, CountersStep, LeaseStep DEF QueueInv
  <2> QED
    BY <2>1, <2>3 DEF QueueInv, BatchesFit
<1>4. (part = "Queue" => QueueInv) /\ [OverlapsNext]_overlapsVars => (part = "Queue" => QueueInv)'
  BY <1>3, OneOverlaps
<1> QED
  BY <1>1, <1>2, <1>4

(***************************************************************************)
(* Two people at one form never make an account too many from one address, *)
(* and an address never has two owners or one who did not prove it was     *)
(* theirs: for any number of people, connections and visits, whatever the  *)
(* ceiling, in any mode (SignupPolicyService).                             *)
(***************************************************************************)
THEOREM SignUpsStaySound == OverlapsSpec => []SignUpsAreSound
<1>1. PeopleInv => SignUpsAreSound
  BY SignUpIsSound DEF PeopleInv, SignUpsAreSound
<1> QED
  BY <1>1, PeopleInvariance, PTL DEF OverlapsSpec

(***************************************************************************)
(* An account that is disabled has no session, and a password that was     *)
(* replaced leaves none, but for the one that was being opened when the    *)
(* operator acted: for any number of sign-ins at once (the session hooks,  *)
(* SupportCommands).                                                       *)
(***************************************************************************)
THEOREM ShutOutForGood == OverlapsSpec => []ShutOut
<1>1. PeopleInv => ShutOut
  BY SignInIsSound DEF PeopleInv, ShutOut
<1> QED
  BY <1>1, PeopleInvariance, PTL DEF OverlapsSpec

(***************************************************************************)
(* A recovery code opens one session, and the sessions beyond the ceiling  *)
(* are of sign-ins that are about to trim them, or that stopped: however   *)
(* many sign-ins overlap (RecoveryCodesService.spend, the session hook).   *)
(***************************************************************************)
THEOREM CodesAndSessionsAreBounded ==
    OverlapsSpec => [](part = "SignIn" => CodesWorkOnce /\ SessionsAreBounded)
<1>1. PeopleInv => (part = "SignIn" => CodesWorkOnce /\ SessionsAreBounded)
  BY SignInIsSound DEF PeopleInv
<1> QED
  BY <1>1, PeopleInvariance, PTL DEF OverlapsSpec

(***************************************************************************)
(* And when no two guesses, nor two removals of a passkey, are made at     *)
(* once, no stretch as long as a lockout has more wrong guesses than the   *)
(* ceiling, and the last passkey stays (LoginLockoutService, hooks.before).*)
(***************************************************************************)
THEOREM SignInsStayBounded == OneAtATime => (OverlapsSpec => []SignInsAreBounded)
<1> SUFFICES ASSUME OneAtATime PROVE OverlapsSpec => []SignInsAreBounded
  OBVIOUS
<1>1. PeopleInv => SignInsAreBounded
  BY SignInIsSound DEF PeopleInv, SignInsAreBounded
<1> QED
  BY <1>1, PeopleInvariance, PTL DEF OverlapsSpec

(***************************************************************************)
(* Any finite number of instances that drain one queue: what is called     *)
(* sent was handed over, recoveries follow outages somebody heard of,      *)
(* attempts and counters bound each other, and when a batch fits in its    *)
(* lease no row is in two hands (NotificationQueue.drain).                 *)
(***************************************************************************)
THEOREM SendsStaySound ==
    QueueIsFinite /\ IsFiniteSet(Servers) /\ BatchesFit => (OverlapsSpec => []SendsAreSound)
<1> SUFFICES ASSUME QueueIsFinite, IsFiniteSet(Servers), BatchesFit
             PROVE  OverlapsSpec => []SendsAreSound
  OBVIOUS
<1>1. QueueInv => SentMeansTold /\ NoRecoveryOutOfTheBlue
  BY DEF QueueInv, TruthInv
<1>2. QueueInv => SendsWithinAttempts /\ DisjointBatches
  BY AttemptsAreEnough DEF QueueInv, LeaseInv
<1>3. QueueInv => CounterNeverInflated
  BY CountersAreTrue DEF QueueInv, QueueTypeInv
<1>4. (part = "Queue" => QueueInv) => SendsAreSound
  BY <1>1, <1>2, <1>3 DEF SendsAreSound
<1> QED
  BY <1>4, QueueInvariance, PTL DEF OverlapsSpec

(***************************************************************************)
(* An outcome that was recorded is not changed by a late statement of      *)
(* another pass (MARK_SENT_SQL, RETRY_SQL).                                *)
(***************************************************************************)
THEOREM OutcomesStayFinal ==
    QueueIsFinite /\ IsFiniteSet(Servers) /\ BatchesFit => (OverlapsSpec => OutcomesAreFinal)
<1> SUFFICES ASSUME QueueIsFinite, IsFiniteSet(Servers), BatchesFit
             PROVE  OverlapsSpec => OutcomesAreFinal
  OBVIOUS
<1>1. (part = "Queue" => QueueInv) /\ [OverlapsNext]_overlapsVars
      => [part = "Queue" => OutcomeIsFinal]_overlapsVars
  BY OneOverlaps, SettledIsLeftAlone DEF QueueInv, QueueTypeInv
<1> QED
  BY <1>1, QueueInvariance, PTL DEF OverlapsSpec, OutcomesAreFinal

(***************************************************************************)
(* Every table, visit, sign-in and pass is of its type in every state.     *)
(***************************************************************************)
THEOREM OverlapsTypeCorrect ==
    QueueIsFinite /\ IsFiniteSet(Servers) => (OverlapsSpec => []OverlapsTypeOK)
<1> SUFFICES ASSUME QueueIsFinite, IsFiniteSet(Servers)
             PROVE  OverlapsSpec => []OverlapsTypeOK
  OBVIOUS
<1>1. PeopleInv /\ (part = "Queue" => QueueInv) => OverlapsTypeOK
  BY SignUpIsSound, SignInIsSound DEF PeopleInv, QueueInv, QueueTypeInv, OverlapsTypeOK
<1> QED
  BY <1>1, PeopleInvariance, QueueInvariance, PTL DEF OverlapsSpec

=============================================================================
