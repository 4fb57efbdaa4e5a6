-------------------------- MODULE BackOfficeProofs --------------------------
(***************************************************************************)
(* Proofs about the back office.  Accounts: for any logins, addresses,     *)
(* settings, visits and deaths, and any number of visits under way         *)
(* together.  Reports: for any replicas, tribes, events and deaths.  Kits  *)
(* and their campaigns: for any products, costs, prices, clerks and        *)
(* deaths, while a request waits for the one before it.  At the end: the   *)
(* types of all three, whichever of them the behaviour is about.           *)
(***************************************************************************)
EXTENDS MCBackOffice, SumProofs

-----------------------------------------------------------------------------
(***************************************************************************)
(* Accounts.                                                               *)
(***************************************************************************)
\* The fields of a visit, and of what it read, have their types.
LEMMA VisitFields ==
    ASSUME AccountsTypeOK, NEW v \in Visits
    PROVE  /\ visit[v] \in VisitDoc /\ visit[v].pc \in VisitPc
           /\ visit[v].login \in Logins \cup {Unset}
           /\ visit[v].address \in Addresses \cup {Unset}
           /\ visit[v].username \in Usernames \cup {Unset}
           /\ visit[v].name \in OwnerNames \cup {Unset}
           /\ visit[v].setting \in Settings \cup {Unset}
           /\ visit[v].read.password \in Visits \cup {Unset}
           /\ visit[v].read.tokenVersion \in Nat
           /\ visit[v].read.settings \subseteq Settings
BY DEF AccountsTypeOK, VisitDoc

\* A handler that goes on changes its next step only.
LEMMA Goes ==
    ASSUME AccountsTypeOK, NEW v \in Visits, NEW pc \in VisitPc, GoesTo(v, pc)
    PROVE  /\ visit' \in [Visits -> VisitDoc]
           /\ \A w \in Visits \ {v} : visit'[w] = visit[w]
           /\ visit'[v].pc = pc
           /\ visit'[v].op = visit[v].op /\ visit'[v].login = visit[v].login
           /\ visit'[v].address = visit[v].address /\ visit'[v].username = visit[v].username
           /\ visit'[v].name = visit[v].name /\ visit'[v].setting = visit[v].setting
           /\ visit'[v].value = visit[v].value /\ visit'[v].read = visit[v].read
BY DEF AccountsTypeOK, GoesTo, VisitDoc

\* A visit begins with what it was given.
LEMMA Entered ==
    ASSUME AccountsTypeOK, NEW v \in Visits, NEW q \in VisitDoc, Enters(v, q)
    PROVE  /\ visit' \in [Visits -> VisitDoc] /\ visit'[v] = q
           /\ \A w \in Visits \ {v} : visit'[w] = visit[w]
BY DEF AccountsTypeOK, Enters

\* A visit that has ended remembers nothing.
LEMMA Ended ==
    ASSUME AccountsTypeOK, NEW v \in Visits, VisitEnds(v)
    PROVE  /\ visit' \in [Visits -> VisitDoc]
           /\ \A w \in Visits \ {v} : visit'[w] = visit[w]
           /\ visit'[v].pc = "done" /\ visit'[v].login = Unset
           /\ visit'[v].address = Unset /\ visit'[v].name = Unset
           /\ visit'[v].setting = Unset /\ visit'[v].read.password = Unset
<1>1. [NoVisit EXCEPT !.pc = "done"] \in VisitDoc
  BY DEF NoVisit, Nothing, VisitDoc, VisitPc
<1> QED
  BY <1>1 DEF AccountsTypeOK, VisitEnds, NoVisit, Nothing

-----------------------------------------------------------------------------
(***************************************************************************)
(* The inductive invariant.                                                *)
(***************************************************************************)
Inserted == {"tribe", "undo"}
Serving  == {"sign", "set", "reread", "email", "patch", "write", "merge"}
Editing  == {"email", "patch", "write", "merge"}

\* Onboarding works on a login that has no tribe yet, everyone else on an owner's.
RoleOf(q) ==
    /\ q.pc \in Inserted => q.login \in Users \ Owners
    /\ q.pc \in Serving => q.login \in Owners
    /\ q.pc \notin Inserted \cup Serving => q.login = Unset
    /\ q.pc = "merge" => q.setting \in Settings

\* An address that passed the look-up is none that the index cannot see.
AddressOf(q) ==
    /\ q.pc \in {"username", "user"} =>
         \A u \in Users : login[u].cased => login[u].address # q.address
    /\ q.pc = "patch" /\ q.address # Unset =>
         \A u \in Users \ {q.login} : login[u].cased => login[u].address # q.address

\* A version is the current one just if the password that goes with it is.
Matches(u, tv, password) ==
    /\ tv <= login[u].tokenVersion
    /\ tv = login[u].tokenVersion <=> login[u].password = password

ReadOf(q) == q.pc = "sign" => Matches(q.login, q.read.tokenVersion, q.read.password)

\* Alone, a visit still finds what it read, and the name it gave the login.
TurnOf(q) ==
    /\ q.pc \in Editing => q.read.settings = tribe[q.login].settings
    /\ q.pc = "write" /\ q.name # Unset => login[q.login].name = q.name

\* Visits that have yet to set the password they bring.
Fresh(q) == q.pc \in {"idle", "username", "user", "set"}

Roles ==
    /\ Owners \subseteq Users
    /\ \A v \in Visits : RoleOf(visit[v])
    /\ \A v, w \in Visits :
         visit[v].pc \in Inserted /\ visit[w].pc \in Inserted /\ visit[v].login = visit[w].login
         => v = w

AddressesHeld == OneLoginPerAddress /\ \A v \in Visits : AddressOf(visit[v])

SessionsHeld ==
    /\ \A s \in sessions :
         /\ s.login \in Owners /\ s.tv <= login[s.login].tokenVersion
         /\ ~s.overtaken => Matches(s.login, s.tv, s.password)
    /\ \A v \in Visits : ReadOf(visit[v])

PasswordsFresh ==
    \A v \in Visits : Fresh(visit[v]) =>
        /\ \A u \in Logins : login[u].password # v
        /\ \A s \in sessions : s.password # v
        /\ \A w \in Visits : visit[w].read.password # v

TurnHeld ==
    /\ \A u \in Logins \ Owners : tribe[u].settings = {}
    /\ InTurn =>
         /\ \A v, w \in UnderWay : v = w
         /\ \A u \in Owners \ halved : tribe[u].name \in {Unset, login[u].name}
         /\ \A u \in Logins : saved[u] = tribe[u].settings
         /\ \A v \in Visits : TurnOf(visit[v])

\* A login without a tribe is somebody's who is not done with it.
Accounted ==
    visitsDied = 0 =>
        \A u \in Users \ Owners : \E v \in Visits : visit[v].pc \in Inserted /\ visit[v].login = u

AccountsInv ==
    /\ AccountsTypeOK /\ Roles /\ AddressesHeld /\ SessionsHeld /\ PasswordsFresh
    /\ TurnHeld /\ Accounted

\* The invariant says what the runs check.
LEMMA InvAgrees == AccountsInv => AccountsAgree
<1> SUFFICES ASSUME AccountsInv
             PROVE  AccountsAgree
  OBVIOUS
<1> USE DEF AccountsInv
<1>1. OneLoginPerAddress
  BY DEF AddressesHeld
<1>2. LoginsHaveTribes
  <2>1. ASSUME AccountsRest, visitsDied = 0, NEW u \in Users
        PROVE  u \in Owners
    BY <2>1 DEF Accounted, AccountsRest, UnderWay, Inserted
  <2> QED
    BY <2>1 DEF Roles, LoginsHaveTribes
<1>3. SessionsFollowPassword
  BY DEF SessionsFollowPassword, SessionsHeld, Matches, validate, Roles, Users
<1>4. NamesMirrored
  BY DEF NamesMirrored, TurnHeld
<1>5. SettingsKept
  BY DEF SettingsKept, TurnHeld, Owners
<1> QED
  BY <1>1, <1>2, <1>3, <1>4, <1>5 DEF AccountsAgree

\* The first tribe and its login.
LEMMA InitHolds == AccountsInit => AccountsInv
<1> SUFFICES ASSUME AccountsInit
             PROVE  AccountsInv
  OBVIOUS
<1>1. PICK a \in Addresses, s \in Usernames, n \in OwnerNames, old \in BOOLEAN :
        /\ login = [[u \in Logins |-> NoLogin] EXCEPT ![Veteran] =
              [NoLogin EXCEPT !.exists = TRUE, !.address = a, !.cased = old, !.name = n]]
        /\ tribe = [[u \in Logins |-> NoTribe] EXCEPT ![Veteran] =
              [NoTribe EXCEPT !.exists = TRUE, !.username = s]]
  BY DEF AccountsInit
<1>2. visit = [v \in Visits |-> NoVisit] /\ sessions = {} /\ halved = {} /\ visitsDied = 0
      /\ saved = [u \in Logins |-> {}] /\ atOnce \in AtOnce
  BY DEF AccountsInit
<1>3. NoVisit \in VisitDoc /\ NoVisit.pc = "idle" /\ NoVisit.login = Unset
      /\ NoVisit.read.password = Unset
  BY DEF NoVisit, Nothing, VisitDoc, VisitPc
<1>4. login \in [Logins -> LoginDoc] /\ tribe \in [Logins -> TribeDoc]
  BY <1>1, AccountsAssumption DEF NoLogin, NoTribe, LoginDoc, TribeDoc
<1>5. \A u \in Logins : /\ login[u].exists <=> u = Veteran
                        /\ tribe[u].exists <=> u = Veteran
                        /\ tribe[u].settings = {} /\ tribe[u].name = Unset
                        /\ login[u].password = Unset
  BY <1>1, AccountsAssumption DEF NoLogin, NoTribe
<1>6. AccountsTypeOK
  BY <1>2, <1>3, <1>4, AccountsAssumption DEF AccountsTypeOK
<1>7. Roles
  BY <1>2, <1>3, <1>5 DEF Roles, RoleOf, Inserted, Serving, Users, Owners
<1>8. AddressesHeld
  BY <1>2, <1>3, <1>5 DEF AddressesHeld, AddressOf, OneLoginPerAddress, Users
<1>9. SessionsHeld /\ PasswordsFresh
  BY <1>2, <1>3, <1>5, AccountsAssumption DEF SessionsHeld, ReadOf, PasswordsFresh
<1>10. TurnHeld
  BY <1>2, <1>3, <1>5 DEF TurnHeld, TurnOf, Editing, UnderWay, Owners
<1>11. Accounted
  BY <1>5 DEF Accounted, Users, Owners
<1> QED
  BY <1>6, <1>7, <1>8, <1>9, <1>10, <1>11 DEF AccountsInv

\* A step of a visit that is past its own password, and stores none but that.
LEMMA FreshStays ==
    ASSUME PasswordsFresh, NEW v \in Visits, ~Fresh(visit'[v]), sessions' = sessions,
           \A w \in Visits \ {v} : visit'[w] = visit[w],
           visit'[v].read.password \in {visit[v].read.password, Unset},
           \A w \in Logins : login'[w].password \in {login[w].password, Unset, v}
    PROVE  PasswordsFresh'
<1> SUFFICES ASSUME NEW x \in Visits, Fresh(visit'[x])
             PROVE  /\ \A w \in Logins : login'[w].password # x
                    /\ \A s \in sessions' : s.password # x
                    /\ \A w \in Visits : visit'[w].read.password # x
  BY DEF PasswordsFresh, Fresh
<1>1. x # v /\ x # Unset
  BY AccountsAssumption
<1>2. Fresh(visit[x])
  BY <1>1
<1>3. /\ \A w \in Logins : login[w].password # x
      /\ \A s \in sessions : s.password # x
      /\ \A w \in Visits : visit[w].read.password # x
  BY <1>2 DEF PasswordsFresh
<1>4. \A w \in Logins : login'[w].password # x
  BY <1>1, <1>3
<1>5. \A w \in Visits : visit'[w].read.password # x
  BY <1>1, <1>3
<1> QED
  BY <1>3, <1>4, <1>5

-----------------------------------------------------------------------------
(***************************************************************************)
(* Steps that change nothing but a visit.                                  *)
(***************************************************************************)

\* Passwords a visit may come to hold: what it read before, or what is stored.
ReadBefore(v, password) ==
    password = Unset \/ password = visit[v].read.password \/ \E u \in Logins : password = login[u].password

LEMMA VisitOnly ==
    ASSUME AccountsInv, NEW v \in Visits,
           UNCHANGED <<login, tribe, sessions, saved, halved, atOnce>>,
           visitsDied' \in 0 .. AccountDeaths, visitsDied' >= visitsDied,
           visit' \in [Visits -> VisitDoc], \A w \in Visits \ {v} : visit'[w] = visit[w],
           RoleOf(visit'[v]), AddressOf(visit'[v]), ReadOf(visit'[v]),
           Fresh(visit'[v]) => Fresh(visit[v]),
           ReadBefore(v, visit'[v].read.password),
           visit'[v].pc \in Inserted =>
             visit[v].pc \in Inserted /\ visit'[v].login = visit[v].login,
           visit[v].pc \in Inserted => visit'[v].pc \in Inserted \/ visitsDied' > 0,
           InTurn =>
             /\ TurnOf(visit'[v])
             /\ visit'[v].pc \in {"idle", "done"} \/ v \in UnderWay \/ UnderWay = {}
    PROVE  AccountsInv'
<1>t. /\ AccountsTypeOK /\ Roles /\ AddressesHeld /\ SessionsHeld /\ PasswordsFresh
      /\ TurnHeld /\ Accounted
  BY DEF AccountsInv
<1>1. AccountsTypeOK'
  BY <1>t DEF AccountsTypeOK
<1>2. Roles'
  BY <1>t DEF Roles, RoleOf, Users, Owners
<1>3. AddressesHeld'
  BY <1>t DEF AddressesHeld, AddressOf, OneLoginPerAddress, Users
<1>4. SessionsHeld'
  BY <1>t DEF SessionsHeld, ReadOf, Matches, Owners
<1>5. PasswordsFresh'
  <2> SUFFICES ASSUME NEW x \in Visits, Fresh(visit'[x])
               PROVE  /\ \A u \in Logins : login[u].password # x
                      /\ \A s \in sessions : s.password # x
                      /\ \A w \in Visits : visit'[w].read.password # x
    BY DEF PasswordsFresh, Fresh
  <2>1. Fresh(visit[x])
    OBVIOUS
  <2>2. x # Unset
    BY AccountsAssumption
  <2> QED
    BY <2>1, <2>2, <1>t DEF PasswordsFresh, ReadBefore
<1>6. TurnHeld'
  <2>1. InTurn => \A x, y \in UnderWay' : x = y
    BY <1>t DEF TurnHeld, UnderWay
  <2>2. InTurn => \A x \in Visits : TurnOf(visit'[x])
    BY <1>t DEF TurnHeld
  <2> QED
    BY <2>1, <2>2, <1>t DEF TurnHeld, TurnOf, InTurn, Owners
<1>7. Accounted'
  <2> SUFFICES ASSUME visitsDied' = 0, NEW u \in Users \ Owners
               PROVE  \E x \in Visits : visit'[x].pc \in Inserted /\ visit'[x].login = u
    BY DEF Accounted, Users, Owners
  <2>1. visitsDied = 0
    BY <1>t DEF AccountsTypeOK
  <2>2. PICK x \in Visits : visit[x].pc \in Inserted /\ visit[x].login = u
    BY <2>1, <1>t DEF Accounted
  <2>3. CASE x = v
    BY <2>2, <2>3
  <2>4. CASE x # v
    BY <2>2, <2>4
  <2> QED
    BY <2>3, <2>4
<1> QED
  BY <1>1, <1>2, <1>3, <1>4, <1>5, <1>6, <1>7 DEF AccountsInv

\* A visit that is let in while visits come one at a time finds no other.
LEMMA AloneInTurn ==
    ASSUME AccountsTypeOK, NEW v \in Visits, MayBegin(v)
    PROVE  visit[v].pc = "idle" /\ (InTurn => UnderWay = {})
<1>1. visit[v].pc = "idle"
  BY DEF MayBegin, VisitAt
<1>2. ASSUME InTurn
      PROVE  UnderWay = {}
  <2>1. IsFiniteSet(UnderWay)
    BY AccountsAssumption, FS_Subset DEF UnderWay
  <2>2. Cardinality(UnderWay) < 1
    BY <1>2 DEF MayBegin, InTurn
  <2>3. Cardinality(UnderWay) \in Nat
    BY <2>1, FS_CardinalityType
  <2>4. Cardinality(UnderWay) = 0
    BY <2>2, <2>3
  <2> QED
    BY <2>1, <2>4, FS_EmptySet
<1> QED
  BY <1>1, <1>2

\* A visit that begins: nothing it is about to write has been written.
LEMMA Begins ==
    ASSUME AccountsInv, NEW v \in Visits, MayBegin(v), NEW q \in VisitDoc, Enters(v, q),
           UNCHANGED <<login, tribe, sessions, saved, halved, atOnce, visitsDied>>,
           RoleOf(q), AddressOf(q), ReadOf(q), InTurn => TurnOf(q), q.pc \notin Inserted,
           ReadBefore(v, q.read.password)
    PROVE  AccountsInv'
<1>1. visit[v].pc = "idle" /\ (InTurn => UnderWay = {})
  BY AloneInTurn DEF AccountsInv
<1>2. /\ visit' \in [Visits -> VisitDoc] /\ visit'[v] = q
      /\ \A w \in Visits \ {v} : visit'[w] = visit[w]
  BY Entered DEF AccountsInv
<1>3. visitsDied' \in 0 .. AccountDeaths /\ visitsDied' >= visitsDied
  BY DEF AccountsInv, AccountsTypeOK
<1> QED
  BY <1>1, <1>2, <1>3, VisitOnly DEF Fresh, Inserted

\* What a handler reads of its owner's documents.
LEMMA ReadIsTyped ==
    ASSUME AccountsTypeOK, NEW u \in Logins
    PROVE  /\ Read(u).password = login[u].password /\ Read(u).tokenVersion = login[u].tokenVersion
           /\ Read(u).settings = tribe[u].settings
           /\ Read(u) \in [password: Visits \cup {Unset}, tokenVersion: Nat, settings: SUBSET Settings]
BY DEF AccountsTypeOK, LoginDoc, TribeDoc, Read

\* create begins with the look-up of the address.
LEMMA OnboardingBegins ==
    ASSUME AccountsInv, NEW v \in Visits, BeginOnboarding(v)
    PROVE  AccountsInv'
<1>1. PICK a \in Addresses, s \in Usernames, n \in OwnerNames :
        /\ findOneByEmail(a) = {}
        /\ Enters(v, [NoVisit EXCEPT !.pc = "username", !.op = "onboard", !.address = a,
                                     !.username = s, !.name = n])
  BY DEF BeginOnboarding
<1> DEFINE q == [NoVisit EXCEPT !.pc = "username", !.op = "onboard", !.address = a,
                                !.username = s, !.name = n]
<1>2. /\ q \in VisitDoc /\ q.pc = "username" /\ q.login = Unset /\ q.address = a
      /\ q.read.password = Unset
  BY DEF NoVisit, Nothing, VisitDoc, VisitPc
<1>3. MayBegin(v)
      /\ UNCHANGED <<login, tribe, sessions, saved, halved, atOnce, visitsDied>>
  BY DEF BeginOnboarding
<1>4. RoleOf(q)
  BY <1>2 DEF RoleOf, Inserted, Serving
<1>5. AddressOf(q)
  BY <1>1, <1>2 DEF AddressOf, findOneByEmail
<1>6. ReadOf(q) /\ TurnOf(q) /\ q.pc \notin Inserted /\ ReadBefore(v, q.read.password)
  BY <1>2 DEF ReadOf, TurnOf, Inserted, Editing, ReadBefore
<1> HIDE DEF q
<1> QED
  BY <1>1, <1>2, <1>3, <1>4, <1>5, <1>6, Begins DEF q

\* login, changePassword and resetPassword begin with a read of the owner's user.
LEMMA OwnerBegins ==
    ASSUME AccountsInv, NEW v \in Visits,
           SignIn(v) \/ \E op \in {"change", "reset"} : BeginPassword(v, op)
    PROVE  AccountsInv'
<1>1. PICK u \in Users \cap Owners, op \in {"login", "change", "reset"}, pc \in {"sign", "set"} :
        Enters(v, [NoVisit EXCEPT !.pc = pc, !.op = op, !.login = u, !.read = Read(u)])
  BY DEF SignIn, BeginPassword
<1> DEFINE q == [NoVisit EXCEPT !.pc = pc, !.op = op, !.login = u, !.read = Read(u)]
<1>2. u \in Logins
  BY DEF Users
<1>3. AccountsTypeOK
  BY DEF AccountsInv
<1>4. q \in VisitDoc /\ q.pc = pc /\ q.login = u /\ q.read = Read(u)
  BY <1>2, <1>3, ReadIsTyped DEF NoVisit, VisitDoc, VisitPc
<1>5. MayBegin(v)
      /\ UNCHANGED <<login, tribe, sessions, saved, halved, atOnce, visitsDied>>
  BY DEF SignIn, BeginPassword
<1>6. RoleOf(q) /\ q.pc \notin Inserted
  BY <1>4 DEF RoleOf, Inserted, Serving
<1>7. AddressOf(q) /\ TurnOf(q)
  BY <1>4 DEF AddressOf, TurnOf, Editing
<1>8. ReadOf(q) /\ ReadBefore(v, q.read.password)
  <2>1. login[u].tokenVersion \in Nat
    BY <1>2, <1>3 DEF AccountsTypeOK, LoginDoc
  <2> QED
    BY <2>1, <1>2, <1>3, <1>4, ReadIsTyped DEF ReadOf, Matches, ReadBefore
<1> HIDE DEF q
<1> QED
  BY <1>1, <1>4, <1>5, <1>6, <1>7, <1>8, Begins DEF q

\* The record of an edit, and where it starts.
EditOf(u, n, a, s, c, x, pc) ==
    [NoVisit EXCEPT !.op = "edit", !.login = u, !.name = n, !.address = a, !.username = s,
                    !.setting = c, !.value = x, !.read = Read(u), !.pc = pc]

FirstStep(a, n) == IF a # Unset THEN "email" ELSE IF n # Unset THEN "patch" ELSE "write"

LEMMA EditTyped ==
    ASSUME AccountsTypeOK, NEW u \in Owners, NEW n \in OwnerNames \cup {Unset},
           NEW a \in Addresses \cup {Unset}, NEW s \in Usernames \cup {Unset},
           NEW c \in ConfigParts \cup {Unset}, NEW x \in BOOLEAN, NEW pc \in VisitPc
    PROVE  /\ EditOf(u, n, a, s, c, x, pc) \in VisitDoc
           /\ EditOf(u, n, a, s, c, x, pc).login = u
           /\ EditOf(u, n, a, s, c, x, pc).read = Read(u)
           /\ EditOf(u, n, a, s, c, x, pc).address = a
           /\ EditOf(u, n, a, s, c, x, pc).name = n
           /\ EditOf(u, n, a, s, c, x, pc).pc = pc
<1>1. u \in Logins
  BY DEF Owners
<1>2. c \in Settings \cup {Unset}
  BY DEF Settings
<1>3. Read(u) \in [password: Visits \cup {Unset}, tokenVersion: Nat, settings: SUBSET Settings]
  BY <1>1, ReadIsTyped
<1> QED
  BY ZenonT(60), <1>1, <1>2, <1>3 DEF EditOf, NoVisit, VisitDoc

\* update and updatePermissions begin with a read of the tribe.
LEMMA EditBegins ==
    ASSUME AccountsInv, NEW v \in Visits, BeginEdit(v) \/ BeginGrant(v)
    PROVE  AccountsInv'
<1>1. PICK q : /\ Enters(v, q) /\ q \in VisitDoc /\ q.login \in Owners /\ q.read = Read(q.login)
               /\ q.pc \in Editing /\ (q.pc = "patch" => q.address = Unset)
               /\ (q.pc = "write" => q.name = Unset) /\ (q.pc = "merge" => q.setting \in Settings)
  <2>0. AccountsTypeOK
    BY DEF AccountsInv
  <2>1. CASE BeginEdit(v)
    <3>1. PICK u \in Owners, form \in EditForms :
            \E n \in Field("name", form, OwnerNames), a \in Field("address", form, Addresses),
               s \in Field("username", form, Usernames), c \in Field("config", form, ConfigParts),
               x \in IF "config" \in form THEN BOOLEAN ELSE {FALSE} :
              Enters(v, EditOf(u, n, a, s, c, x, FirstStep(a, n)))
      BY <2>1 DEF BeginEdit, EditOf, FirstStep
    <3>2. PICK n \in Field("name", form, OwnerNames), a \in Field("address", form, Addresses),
               s \in Field("username", form, Usernames), c \in Field("config", form, ConfigParts),
               x \in IF "config" \in form THEN BOOLEAN ELSE {FALSE} :
            Enters(v, EditOf(u, n, a, s, c, x, FirstStep(a, n)))
      BY <3>1
    <3>3. /\ n \in OwnerNames \cup {Unset} /\ a \in Addresses \cup {Unset}
          /\ s \in Usernames \cup {Unset} /\ c \in ConfigParts \cup {Unset} /\ x \in BOOLEAN
      BY DEF Field
    <3>4. FirstStep(a, n) \in Editing \cap VisitPc
      BY DEF FirstStep, Editing, VisitPc
    <3> DEFINE q == EditOf(u, n, a, s, c, x, FirstStep(a, n))
    <3>5. /\ q \in VisitDoc /\ q.login = u /\ q.read = Read(u)
          /\ q.address = a /\ q.name = n /\ q.pc = FirstStep(a, n)
      BY <3>3, <3>4, <2>0, EditTyped
    <3>6. /\ q.pc = "patch" => q.address = Unset
          /\ q.pc = "write" => q.name = Unset
      BY <3>5 DEF FirstStep
    <3>7. Enters(v, q)
      BY <3>2
    <3> HIDE DEF q
    <3>8. q.pc # "merge"
      BY <3>5 DEF FirstStep
    <3> QED
      BY <3>4, <3>5, <3>6, <3>7, <3>8
  <2>2. CASE BeginGrant(v)
    <3>1. PICK u \in Owners, p \in Permissions, x \in BOOLEAN :
            Enters(v, [NoVisit EXCEPT !.pc = "merge", !.op = "grant", !.login = u, !.setting = p,
                                      !.value = x, !.read = Read(u)])
      BY <2>2 DEF BeginGrant
    <3> DEFINE q == [NoVisit EXCEPT !.pc = "merge", !.op = "grant", !.login = u, !.setting = p,
                                    !.value = x, !.read = Read(u)]
    <3>2. u \in Logins
      BY DEF Owners
    <3>3. q.login = u /\ q.read = Read(u) /\ q.pc = "merge" /\ q.setting \in Settings
      BY DEF NoVisit, Settings
    <3>4. q \in VisitDoc
      BY <3>2, <2>0, ReadIsTyped DEF NoVisit, VisitDoc, VisitPc, Settings
    <3>5. Enters(v, q)
      BY <3>1
    <3> HIDE DEF q
    <3> QED
      BY <3>3, <3>4, <3>5 DEF Editing
  <2> QED
    BY <2>1, <2>2
<1>2. MayBegin(v)
      /\ UNCHANGED <<login, tribe, sessions, saved, halved, atOnce, visitsDied>>
  BY DEF BeginEdit, BeginGrant
<1>3. q.login \in Logins
  BY <1>1 DEF Owners
<1>4. RoleOf(q) /\ AddressOf(q) /\ ReadOf(q) /\ q.pc \notin Inserted
  BY <1>1 DEF RoleOf, AddressOf, ReadOf, Inserted, Serving, Editing
<1>5. TurnOf(q) /\ ReadBefore(v, q.read.password)
  BY <1>1, <1>3, ReadIsTyped DEF AccountsInv, TurnOf, ReadBefore
<1> QED
  BY <1>1, <1>2, <1>4, <1>5, Begins

\* A visit that ends without another write, unless it leaves a login behind.
LEMMA Leaves ==
    ASSUME AccountsInv, NEW v \in Visits, VisitEnds(v),
           UNCHANGED <<login, tribe, sessions, saved, halved, atOnce>>,
           visitsDied' \in 0 .. AccountDeaths, visitsDied' >= visitsDied,
           visit[v].pc \in Inserted => visitsDied' > 0
    PROVE  AccountsInv'
<1>1. /\ visit' \in [Visits -> VisitDoc]
      /\ \A w \in Visits \ {v} : visit'[w] = visit[w]
      /\ visit'[v].pc = "done" /\ visit'[v].login = Unset /\ visit'[v].read.password = Unset
  BY Ended DEF AccountsInv
<1>2. RoleOf(visit'[v]) /\ AddressOf(visit'[v]) /\ ReadOf(visit'[v]) /\ TurnOf(visit'[v])
  BY <1>1 DEF RoleOf, AddressOf, ReadOf, TurnOf, Inserted, Serving, Editing
<1>3. ~Fresh(visit'[v]) /\ visit'[v].pc \notin Inserted /\ ReadBefore(v, visit'[v].read.password)
  BY <1>1 DEF Fresh, Inserted, ReadBefore
<1> QED
  BY <1>1, <1>2, <1>3, VisitOnly

\* The look-up of the username.
LEMMA UsernameChecked ==
    ASSUME AccountsInv, NEW v \in Visits, CheckUsername(v)
    PROVE  AccountsInv'
<1>1. visit[v].pc = "username"
      /\ UNCHANGED <<login, tribe, sessions, saved, halved, atOnce, visitsDied>>
  BY DEF CheckUsername, VisitAt
<1>2. visitsDied' \in 0 .. AccountDeaths /\ visitsDied' >= visitsDied
  BY <1>1 DEF AccountsInv, AccountsTypeOK
<1>3. CASE VisitEnds(v)
  BY <1>1, <1>2, <1>3, Leaves DEF Inserted
<1>4. CASE GoesTo(v, "user")
  <2>1. /\ visit' \in [Visits -> VisitDoc]
        /\ \A w \in Visits \ {v} : visit'[w] = visit[w]
        /\ visit'[v].pc = "user" /\ visit'[v].login = visit[v].login
        /\ visit'[v].address = visit[v].address /\ visit'[v].read = visit[v].read
    BY <1>4, Goes DEF AccountsInv, VisitPc
  <2>2. RoleOf(visit[v]) /\ AddressOf(visit[v])
    BY DEF AccountsInv, Roles, AddressesHeld
  <2>3. RoleOf(visit'[v]) /\ AddressOf(visit'[v])
    BY <1>1, <2>1, <2>2 DEF RoleOf, AddressOf, Inserted, Serving
  <2>4. /\ ReadOf(visit'[v]) /\ TurnOf(visit'[v]) /\ Fresh(visit[v]) /\ visit'[v].pc \notin Inserted
        /\ visit[v].pc \notin Inserted /\ ReadBefore(v, visit'[v].read.password) /\ v \in UnderWay
    BY <1>1, <2>1 DEF ReadOf, TurnOf, Fresh, Inserted, Editing, ReadBefore, UnderWay
  <2> QED
    BY <1>1, <1>2, <2>1, <2>3, <2>4, VisitOnly
<1> QED
  BY <1>3, <1>4 DEF CheckUsername

\* The look-up of the address in update.
LEMMA EmailChecked ==
    ASSUME AccountsInv, NEW v \in Visits, CheckEmail(v)
    PROVE  AccountsInv'
<1>1. visit[v].pc = "email"
      /\ UNCHANGED <<login, tribe, sessions, saved, halved, atOnce, visitsDied>>
  BY DEF CheckEmail, VisitAt
<1>2. visitsDied' \in 0 .. AccountDeaths /\ visitsDied' >= visitsDied
  BY <1>1 DEF AccountsInv, AccountsTypeOK
<1>3. CASE VisitEnds(v)
  BY <1>1, <1>2, <1>3, Leaves DEF Inserted
<1>4. CASE findOneByEmail(visit[v].address) \subseteq {visit[v].login} /\ GoesTo(v, "patch")
  <2>1. /\ visit' \in [Visits -> VisitDoc]
        /\ \A w \in Visits \ {v} : visit'[w] = visit[w]
        /\ visit'[v].pc = "patch" /\ visit'[v].login = visit[v].login
        /\ visit'[v].address = visit[v].address /\ visit'[v].read = visit[v].read
    BY <1>4, Goes DEF AccountsInv, VisitPc
  <2>2. RoleOf(visit[v]) /\ (InTurn => TurnOf(visit[v]))
    BY DEF AccountsInv, Roles, TurnHeld
  <2>3. RoleOf(visit'[v]) /\ (InTurn => TurnOf(visit'[v]))
    BY <1>1, <2>1, <2>2 DEF RoleOf, TurnOf, Inserted, Serving, Editing
  <2>4. AddressOf(visit'[v])
    BY <1>4, <2>1 DEF AddressOf, findOneByEmail
  <2>5. /\ ReadOf(visit'[v]) /\ ~Fresh(visit'[v]) /\ visit'[v].pc \notin Inserted
        /\ visit[v].pc \notin Inserted /\ ReadBefore(v, visit'[v].read.password) /\ v \in UnderWay
    BY <1>1, <2>1 DEF ReadOf, Fresh, Inserted, ReadBefore, UnderWay
  <2> QED
    BY <1>1, <1>2, <2>1, <2>3, <2>4, <2>5, VisitOnly
<1> QED
  BY <1>3, <1>4 DEF CheckEmail

\* A process that dies leaves what it had written.
LEMMA VisitDead ==
    ASSUME AccountsInv, NEW v \in Visits, VisitDies(v)
    PROVE  AccountsInv'
<1>1. VisitEnds(v) /\ UNCHANGED <<login, tribe, sessions, saved, halved, atOnce>>
  BY DEF VisitDies
<1>2. visitsDied' \in 0 .. AccountDeaths /\ visitsDied' >= visitsDied /\ visitsDied' > 0
  BY AccountsAssumption DEF VisitDies, AccountsInv, AccountsTypeOK
<1> QED
  BY <1>1, <1>2, Leaves

-----------------------------------------------------------------------------
(***************************************************************************)
(* Steps that change a login.                                              *)
(***************************************************************************)

\* create inserts the login of the tribe to come.
LEMMA UserInserted ==
    ASSUME AccountsInv, NEW v \in Visits, InsertUser(v)
    PROVE  AccountsInv'
<1>t. /\ AccountsTypeOK /\ Roles /\ AddressesHeld /\ SessionsHeld /\ PasswordsFresh
      /\ TurnHeld /\ Accounted
  BY DEF AccountsInv
<1>1. visit[v].pc = "user"
      /\ UNCHANGED <<tribe, sessions, saved, halved, atOnce, visitsDied>>
  BY DEF InsertUser, VisitAt
<1>2. CASE VisitEnds(v) /\ UNCHANGED login
  <2>1. visitsDied' \in 0 .. AccountDeaths /\ visitsDied' >= visitsDied
    BY <1>1, <1>t DEF AccountsTypeOK
  <2> QED
    BY <1>1, <1>2, <2>1, Leaves DEF Inserted
<1>3. ASSUME ~EmailIndexHas(visit[v].address, Unset), NEW u \in Logins, NewId(u),
             login' = [login EXCEPT ![u] = [NoLogin EXCEPT !.exists = TRUE,
                !.address = visit[v].address, !.name = visit[v].name, !.password = v]],
             visit' = [visit EXCEPT ![v] = [visit[v] EXCEPT !.pc = "tribe", !.login = u]]
      PROVE  AccountsInv'
  <2>1. /\ login' \in [Logins -> LoginDoc] /\ \A w \in Logins \ {u} : login'[w] = login[w]
        /\ login'[u].exists /\ login'[u].address = visit[v].address /\ ~login'[u].cased
        /\ login'[u].password = v
    BY <1>3, <1>t, VisitFields DEF AccountsTypeOK, NoLogin, LoginDoc
  <2>2. /\ visit' \in [Visits -> VisitDoc] /\ \A w \in Visits \ {v} : visit'[w] = visit[w]
        /\ visit'[v].pc = "tribe" /\ visit'[v].login = u /\ visit'[v].read = visit[v].read
    <3> DEFINE q == [visit[v] EXCEPT !.pc = "tribe", !.login = u]
    <3>1. visit[v] \in VisitDoc
      BY <1>t, VisitFields
    <3>2. q \in VisitDoc /\ q.pc = "tribe" /\ q.login = u /\ q.read = visit[v].read
      BY <3>1 DEF VisitDoc, VisitPc
    <3>3. visit' = [visit EXCEPT ![v] = q]
      BY <1>3
    <3> HIDE DEF q
    <3> QED
      BY <3>2, <3>3, <1>t DEF AccountsTypeOK
  <2>3. u \notin Users /\ u \notin Owners /\ \A w \in Visits : visit[w].login # u
    BY <1>3 DEF NewId, Users, Owners
  <2>4. Users' = Users \cup {u} /\ Owners' = Owners
    BY <2>1, <1>1 DEF Users, Owners
  <2>5. AccountsTypeOK'
    BY <2>1, <2>2, <1>1, <1>t DEF AccountsTypeOK
  <2>6. Roles'
    BY <2>2, <2>3, <2>4, <1>t, <1>1 DEF Roles, RoleOf, Inserted, Serving
  <2>7. AddressesHeld'
    <3>1. \A w \in Users : login[w].address # visit[v].address
      <4>1. \A w \in Users : login[w].cased => login[w].address # visit[v].address
        BY <1>1, <1>t DEF AddressesHeld, AddressOf
      <4>2. \A w \in Users : ~login[w].cased => login[w].address # visit[v].address
        BY <1>3, AccountsAssumption DEF EmailIndexHas, Users
      <4> QED
        BY <4>1, <4>2
    <3>2. OneLoginPerAddress'
      BY <3>1, <2>1, <2>3, <2>4, <1>t DEF AddressesHeld, OneLoginPerAddress, Users
    <3>3. \A w \in Visits : AddressOf(visit[w])'
      BY <2>1, <2>2, <2>4, <1>t DEF AddressesHeld, AddressOf, Users
    <3> QED
      BY <3>2, <3>3 DEF AddressesHeld
  <2>8. SessionsHeld'
    <3>1. \A w \in Owners : login'[w] = login[w]
      BY <2>1, <2>3 DEF Owners
    <3>2. \A x \in Visits : ReadOf(visit[x])'
      BY <3>1, <2>2, <1>t DEF SessionsHeld, ReadOf, Matches, Roles, RoleOf, Serving
    <3> QED
      BY <3>1, <3>2, <2>4, <1>1, <1>t DEF SessionsHeld, Matches
  <2>9. PasswordsFresh'
    <3>1. ~Fresh(visit'[v]) /\ visit'[v].read.password = visit[v].read.password
      BY <2>2 DEF Fresh
    <3>2. \A w \in Logins : login'[w].password \in {login[w].password, Unset, v}
      BY <2>1
    <3> QED
      BY <3>1, <3>2, <2>2, <1>1, <1>t, FreshStays
  <2>10. TurnHeld'
    <3>1. \A w \in Owners : login'[w] = login[w]
      BY <2>1, <2>3 DEF Owners
    <3>2. UnderWay' = UnderWay
      BY <2>2, <1>1 DEF UnderWay
    <3>3. InTurn => \A x \in Visits : TurnOf(visit[x])'
      BY <3>1, <2>2, <1>1, <1>t DEF TurnHeld, TurnOf, Roles, RoleOf, Serving, Editing
    <3> QED
      BY <3>1, <3>2, <3>3, <2>4, <1>1, <1>t DEF TurnHeld, InTurn
  <2>11. Accounted'
    BY <2>2, <2>4, <1>1, <1>t DEF Accounted, Inserted
  <2> QED
    BY <2>5, <2>6, <2>7, <2>8, <2>9, <2>10, <2>11 DEF AccountsInv
<1> QED
  BY <1>2, <1>3 DEF InsertUser

\* The compensation takes the login back; nobody else works on it.
LEMMA UserDeleted ==
    ASSUME AccountsInv, NEW v \in Visits, DeleteUser(v)
    PROVE  AccountsInv'
<1>t. /\ AccountsTypeOK /\ Roles /\ AddressesHeld /\ SessionsHeld /\ PasswordsFresh
      /\ TurnHeld /\ Accounted
  BY DEF AccountsInv
<1> DEFINE u == visit[v].login
<1>1. /\ visit[v].pc = "undo" /\ login' = [login EXCEPT ![u] = NoLogin] /\ VisitEnds(v)
      /\ UNCHANGED <<tribe, sessions, saved, halved, atOnce, visitsDied>>
  BY DEF DeleteUser, VisitAt
<1>2. u \in Logins /\ u \in Users /\ u \notin Owners
  BY <1>1, <1>t DEF Roles, RoleOf, Inserted, Users
<1>3. /\ visit' \in [Visits -> VisitDoc] /\ \A w \in Visits \ {v} : visit'[w] = visit[w]
      /\ visit'[v].pc = "done" /\ visit'[v].login = Unset /\ visit'[v].read.password = Unset
  BY <1>1, <1>t, Ended
<1> HIDE DEF u
<1>4. /\ login' \in [Logins -> LoginDoc] /\ \A w \in Logins \ {u} : login'[w] = login[w]
      /\ ~login'[u].exists /\ login'[u].password = Unset
  <2>1. NoLogin \in LoginDoc /\ ~NoLogin.exists /\ NoLogin.password = Unset
    BY DEF NoLogin, LoginDoc
  <2> QED
    BY <2>1, <1>1, <1>2, <1>t DEF AccountsTypeOK
<1>5. Users' = Users \ {u} /\ Owners' = Owners /\ \A w \in Owners : login'[w] = login[w]
  BY <1>1, <1>2, <1>4 DEF Users, Owners
<1>6. AccountsTypeOK'
  BY <1>1, <1>3, <1>4, <1>t DEF AccountsTypeOK
<1>7. \A w \in Visits \ {v} : visit[w].pc \in Inserted => visit[w].login # u
  BY <1>1, <1>t DEF Roles, Inserted, u
<1>8. Roles'
  BY <1>2, <1>3, <1>5, <1>7, <1>t DEF Roles, RoleOf, Inserted, Serving
<1>9. AddressesHeld'
  <2>1. OneLoginPerAddress'
    BY <1>4, <1>5, <1>t DEF AddressesHeld, OneLoginPerAddress, Users
  <2>2. \A w \in Visits : AddressOf(visit[w])'
    BY <1>3, <1>4, <1>5, <1>t DEF AddressesHeld, AddressOf, Users
  <2> QED
    BY <2>1, <2>2 DEF AddressesHeld
<1>10. SessionsHeld'
  <2>1. \A x \in Visits : ReadOf(visit[x])'
    BY <1>3, <1>5, <1>t DEF SessionsHeld, ReadOf, Matches, Roles, RoleOf, Serving
  <2> QED
    BY <2>1, <1>1, <1>5, <1>t DEF SessionsHeld, Matches
<1>11. PasswordsFresh'
  <2>1. ~Fresh(visit'[v]) /\ visit'[v].read.password \in {visit[v].read.password, Unset}
    BY <1>3 DEF Fresh
  <2>2. \A w \in Logins : login'[w].password \in {login[w].password, Unset, v}
    BY <1>4
  <2> QED
    BY <2>1, <2>2, <1>1, <1>3, <1>t, FreshStays
<1>12. TurnHeld'
  <2>1. UnderWay' \subseteq UnderWay
    BY <1>3 DEF UnderWay
  <2>2. InTurn => \A x \in Visits : TurnOf(visit[x])'
    BY <1>1, <1>3, <1>5, <1>t DEF TurnHeld, TurnOf, Roles, RoleOf, Serving, Editing
  <2> QED
    BY <2>1, <2>2, <1>1, <1>5, <1>t DEF TurnHeld, InTurn
<1>13. Accounted'
  <2> SUFFICES ASSUME visitsDied = 0, NEW w \in Users \ Owners, w # u
               PROVE  \E x \in Visits : visit'[x].pc \in Inserted /\ visit'[x].login = w
    BY <1>1, <1>5 DEF Accounted
  <2>1. PICK x \in Visits : visit[x].pc \in Inserted /\ visit[x].login = w
    BY <1>t DEF Accounted
  <2>2. x # v
    BY <2>1 DEF u
  <2> QED
    BY <2>1, <2>2, <1>3
<1> QED
  BY <1>6, <1>8, <1>9, <1>10, <1>11, <1>12, <1>13 DEF AccountsInv

\* updatePassword: a new password, and with it a new version.
LEMMA PasswordSet ==
    ASSUME AccountsInv, NEW v \in Visits, updatePassword(v)
    PROVE  AccountsInv'
<1>t. /\ AccountsTypeOK /\ Roles /\ AddressesHeld /\ SessionsHeld /\ PasswordsFresh
      /\ TurnHeld /\ Accounted
  BY DEF AccountsInv
<1> DEFINE u == visit[v].login
<1>1. /\ visit[v].pc = "set"
      /\ login' = [login EXCEPT ![u].password = v, ![u].tokenVersion = @ + 1]
      /\ GoesTo(v, "reread") \/ VisitEnds(v)
      /\ UNCHANGED <<tribe, sessions, saved, halved, atOnce, visitsDied>>
  BY DEF updatePassword, VisitAt
<1>2. u \in Logins /\ u \in Users /\ u \in Owners
  BY <1>1, <1>t DEF Roles, RoleOf, Serving, Users
<1>3. /\ visit' \in [Visits -> VisitDoc] /\ \A w \in Visits \ {v} : visit'[w] = visit[w]
      /\ \/ visit'[v].pc = "reread" /\ visit'[v].login = u
         \/ visit'[v].pc = "done" /\ visit'[v].login = Unset
      /\ visit'[v].read.password \in {Unset, visit[v].read.password}
  <2>1. CASE GoesTo(v, "reread")
    <3>1. "reread" \in VisitPc
      BY DEF VisitPc
    <3>2. /\ visit' \in [Visits -> VisitDoc] /\ \A w \in Visits \ {v} : visit'[w] = visit[w]
          /\ visit'[v].pc = "reread" /\ visit'[v].login = visit[v].login
          /\ visit'[v].read = visit[v].read
      BY <3>1, <2>1, <1>t, Goes
    <3> QED
      BY <3>2
  <2>2. CASE VisitEnds(v)
    BY <2>2, <1>t, Ended
  <2> QED
    BY <2>1, <2>2, <1>1
<1> HIDE DEF u
<1>4. /\ login' \in [Logins -> LoginDoc] /\ \A w \in Logins \ {u} : login'[w] = login[w]
      /\ login'[u].exists = login[u].exists /\ login'[u].address = login[u].address
      /\ login'[u].cased = login[u].cased /\ login'[u].name = login[u].name
      /\ login'[u].password = v /\ login'[u].tokenVersion = login[u].tokenVersion + 1
      /\ login[u].tokenVersion \in Nat
  BY <1>1, <1>2, <1>t DEF AccountsTypeOK, LoginDoc
<1>5. Users' = Users /\ Owners' = Owners
  BY <1>1, <1>2, <1>4 DEF Users, Owners
<1>6. AccountsTypeOK'
  BY <1>1, <1>3, <1>4, <1>t DEF AccountsTypeOK
<1>7. Roles'
  BY <1>1, <1>2, <1>3, <1>5, <1>t DEF Roles, RoleOf, Inserted, Serving
<1>8. AddressesHeld'
  <2>1. \A w \in Logins : login'[w].address = login[w].address /\ login'[w].cased = login[w].cased
    BY <1>4
  <2>2. OneLoginPerAddress'
    BY <2>1, <1>5, <1>t DEF AddressesHeld, OneLoginPerAddress, Users
  <2>3. \A w \in Visits : AddressOf(visit[w])'
    BY <2>1, <1>3, <1>5, <1>t DEF AddressesHeld, AddressOf, Users
  <2> QED
    BY <2>2, <2>3 DEF AddressesHeld
<1>9. SessionsHeld'
  <2>1. ASSUME NEW s \in sessions
        PROVE  /\ s.login \in Owners /\ s.tv <= login'[s.login].tokenVersion
               /\ ~s.overtaken => Matches(s.login, s.tv, s.password)'
    <3>1. /\ s.login \in Owners /\ s.tv <= login[s.login].tokenVersion /\ s.tv \in Nat
          /\ ~s.overtaken => Matches(s.login, s.tv, s.password)
          /\ s.password # v
      BY <1>1, <1>t DEF SessionsHeld, PasswordsFresh, Fresh, AccountsTypeOK, Session
    <3>2. CASE s.login = u
      BY <3>1, <3>2, <1>4 DEF Matches
    <3>3. CASE s.login # u
      BY <3>1, <3>3, <1>4 DEF Matches, Owners
    <3> QED
      BY <3>2, <3>3
  <2>2. ASSUME NEW x \in Visits
        PROVE  ReadOf(visit[x])'
    <3>1. CASE x = v
      BY <3>1, <1>3 DEF ReadOf
    <3>2. CASE x # v /\ visit[x].pc = "sign"
      <4>1. /\ visit[x].login \in Owners /\ visit[x].read.tokenVersion \in Nat
            /\ Matches(visit[x].login, visit[x].read.tokenVersion, visit[x].read.password)
            /\ visit[x].read.password # v
        BY <3>2, <1>1, <1>t, VisitFields
           DEF SessionsHeld, ReadOf, Roles, RoleOf, Serving, PasswordsFresh, Fresh
      <4>2. CASE visit[x].login = u
        BY <3>2, <4>1, <4>2, <1>3, <1>4 DEF Matches, ReadOf
      <4>3. CASE visit[x].login # u
        BY <3>2, <4>1, <4>3, <1>3, <1>4 DEF Matches, ReadOf, Owners
      <4> QED
        BY <4>2, <4>3
    <3>3. CASE x # v /\ visit[x].pc # "sign"
      BY <3>3, <1>3 DEF ReadOf
    <3> QED
      BY <3>1, <3>2, <3>3
  <2> QED
    BY <2>1, <2>2, <1>1, <1>5 DEF SessionsHeld
<1>10. PasswordsFresh'
  <2>1. ~Fresh(visit'[v]) /\ visit'[v].read.password \in {visit[v].read.password, Unset}
    BY <1>3 DEF Fresh
  <2>2. \A w \in Logins : login'[w].password \in {login[w].password, Unset, v}
    BY <1>4
  <2> QED
    BY <2>1, <2>2, <1>1, <1>3, <1>t, FreshStays
<1>11. TurnHeld'
  <2>1. UnderWay' \subseteq UnderWay
    BY <1>1, <1>3 DEF UnderWay
  <2>2. \A w \in Logins : login'[w].name = login[w].name
    BY <1>4
  <2>3. InTurn => \A x \in Visits : TurnOf(visit[x])'
    <3>1. \A x \in Visits : visit[x].pc \in Editing => visit[x].login \in Logins
      BY <1>t DEF Roles, RoleOf, Editing, Serving, Owners
    <3>2. visit'[v].pc \notin Editing
      BY <1>3 DEF Editing
    <3>3. "write" \in Editing
      BY DEF Editing
    <3> SUFFICES ASSUME InTurn, NEW x \in Visits, visit'[x].pc \in Editing
                 PROVE  /\ visit'[x].read.settings = tribe'[visit'[x].login].settings
                        /\ visit'[x].pc = "write" /\ visit'[x].name # Unset
                           => login'[visit'[x].login].name = visit'[x].name
      BY <3>3, Zenon DEF TurnOf
    <3>4. visit'[x] = visit[x]
      BY <3>2, <1>3
    <3>5. TurnOf(visit[x])
      BY <1>t DEF TurnHeld
    <3> QED
      BY <3>1, <3>4, <3>5, <2>2, <1>1 DEF TurnOf
  <2> QED
    BY <2>1, <2>2, <2>3, <1>1, <1>5, <1>t DEF TurnHeld, InTurn, Owners
<1>12. Accounted'
  BY <1>1, <1>3, <1>5, <1>t DEF Accounted, Inserted
<1> QED
  BY <1>6, <1>7, <1>8, <1>9, <1>10, <1>11, <1>12 DEF AccountsInv

\* What an update leaves of the login's document.
LEMMA PatchedTyped ==
    ASSUME NEW doc \in LoginDoc, NEW q \in VisitDoc
    PROVE  /\ Patched(doc, q) \in LoginDoc
           /\ Patched(doc, q).exists = doc.exists /\ Patched(doc, q).password = doc.password
           /\ Patched(doc, q).tokenVersion = doc.tokenVersion
           /\ Patched(doc, q).name = IF q.name = Unset THEN doc.name ELSE q.name
           /\ Patched(doc, q).address = IF q.address = Unset THEN doc.address ELSE q.address
           /\ Patched(doc, q).cased => doc.cased /\ q.address = Unset
<1> DEFINE n == IF q.name = Unset THEN doc.name ELSE q.name
           a == IF q.address = Unset THEN doc.address ELSE q.address
           c == IF q.address = Unset THEN doc.cased ELSE FALSE
<1>1. n \in OwnerNames \cup {Unset} /\ a \in Addresses \cup {Unset} /\ c \in BOOLEAN
  BY DEF LoginDoc, VisitDoc
<1>2. Patched(doc, q) = [doc EXCEPT !.name = n, !.cased = c, !.address = a]
  BY DEF Patched
<1>3. c => doc.cased /\ q.address = Unset
  BY DEF LoginDoc
<1> HIDE DEF n, a, c
<1>4. /\ [doc EXCEPT !.name = n, !.cased = c, !.address = a] \in LoginDoc
      /\ Patched(doc, q).exists = doc.exists /\ Patched(doc, q).password = doc.password
      /\ Patched(doc, q).tokenVersion = doc.tokenVersion /\ Patched(doc, q).name = n
      /\ Patched(doc, q).address = a /\ Patched(doc, q).cased = c
  BY <1>1, <1>2 DEF LoginDoc
<1> QED
  BY <1>2, <1>3, <1>4 DEF n, a

\* users.update: the name is renewed, the address is one no other login has.
LEMMA UserPatched ==
    ASSUME AccountsInv, NEW v \in Visits, Patch(v)
    PROVE  AccountsInv'
<1>t. /\ AccountsTypeOK /\ Roles /\ AddressesHeld /\ SessionsHeld /\ PasswordsFresh
      /\ TurnHeld /\ Accounted
  BY DEF AccountsInv
<1> DEFINE q == visit[v]
           u == q.login
           clash == q.address # Unset /\ EmailIndexHas(q.address, u)
<1>1. q.pc = "patch" /\ UNCHANGED <<tribe, sessions, saved, atOnce, visitsDied>>
  BY DEF Patch, VisitAt
<1>2. u \in Logins /\ u \in Users /\ u \in Owners
  BY <1>1, <1>t DEF Roles, RoleOf, Serving, Users
<1>3. CASE clash
  <2>1. VisitEnds(v) /\ UNCHANGED <<login, halved>>
    BY <1>3 DEF Patch
  <2>2. visitsDied' \in 0 .. AccountDeaths /\ visitsDied' >= visitsDied
    BY <1>1, <1>t DEF AccountsTypeOK
  <2> QED
    BY <1>1, <2>1, <2>2, Leaves DEF Inserted
<1>4. CASE ~clash
  <2>1. /\ login' = [login EXCEPT ![u] = Patched(login[u], q)]
        /\ halved' = IF q.name = Unset THEN halved ELSE halved \cup {u}
        /\ GoesTo(v, "write")
    BY <1>2, <1>4 DEF Patch
  <2>2. /\ visit' \in [Visits -> VisitDoc] /\ \A w \in Visits \ {v} : visit'[w] = visit[w]
        /\ visit'[v].pc = "write" /\ visit'[v].login = u /\ visit'[v].name = q.name
        /\ visit'[v].read = q.read
    <3>1. "write" \in VisitPc
      BY DEF VisitPc
    <3> QED
      BY <3>1, <2>1, <1>t, Goes
  <2>3. q.name \in OwnerNames \cup {Unset} /\ q.address \in Addresses \cup {Unset}
    BY <1>t, VisitFields
  <2>4. q.address # Unset => \A w \in Users \ {u} : login[w].address # q.address
    <3>1. q.address # Unset => \A w \in Users \ {u} : login[w].cased => login[w].address # q.address
      BY <1>1, <1>t DEF AddressesHeld, AddressOf
    <3>2. q.address # Unset => \A w \in Users \ {u} : ~login[w].cased => login[w].address # q.address
      BY <1>4 DEF EmailIndexHas
    <3> QED
      BY <3>1, <3>2
  <2> HIDE DEF q, u, clash
  <2>5. login[u] \in LoginDoc
    BY <1>2, <1>t DEF AccountsTypeOK
  <2>6. /\ login' \in [Logins -> LoginDoc] /\ \A w \in Logins \ {u} : login'[w] = login[w]
        /\ login'[u].exists = login[u].exists /\ login'[u].password = login[u].password
        /\ login'[u].tokenVersion = login[u].tokenVersion
        /\ login'[u].name = IF q.name = Unset THEN login[u].name ELSE q.name
        /\ login'[u].address = IF q.address = Unset THEN login[u].address ELSE q.address
        /\ login'[u].cased => login[u].cased /\ q.address = Unset
    <3>1. q \in VisitDoc
      BY <1>t, VisitFields DEF q
    <3> HIDE DEF q
    <3> QED
      BY <3>1, <2>1, <2>5, <1>2, <1>t, PatchedTyped DEF AccountsTypeOK
  <2>7. Users' = Users /\ Owners' = Owners
    BY <1>1, <1>2, <2>6 DEF Users, Owners
  <2>8. AccountsTypeOK'
    BY <1>1, <1>2, <2>1, <2>2, <2>6, <1>t DEF AccountsTypeOK
  <2>9. Roles'
    BY <1>1, <1>2, <2>2, <2>7, <1>t DEF Roles, RoleOf, Inserted, Serving
  <2>10. AddressesHeld'
    <3>1. OneLoginPerAddress'
      BY <2>4, <2>6, <2>7, <1>2, <1>t DEF AddressesHeld, OneLoginPerAddress, Users
    <3>2. ASSUME NEW x \in Visits
          PROVE  AddressOf(visit[x])'
      <4>1. CASE x = v
        BY <4>1, <2>2 DEF AddressOf
      <4>2. CASE x # v
        <5>1. visit'[x] = visit[x] /\ AddressOf(visit[x])
          BY <4>2, <2>2, <1>t DEF AddressesHeld
        <5>2. \A w \in Users : login'[w].cased =>
                login[w].cased /\ (w # u \/ q.address = Unset => login'[w].address = login[w].address)
          BY <2>6 DEF Users
        <5>3. login'[u].cased => q.address = Unset
          BY <2>6
        <5>4. \A w \in Users : login'[w].cased => login[w].cased /\ login'[w].address = login[w].address
          BY <5>2, <5>3
        <5> QED
          BY <5>1, <5>4, <2>7 DEF AddressOf
      <4> QED
        BY <4>1, <4>2
    <3> QED
      BY <3>1, <3>2 DEF AddressesHeld
  <2>11. \A w \in Logins : /\ login'[w].password = login[w].password
                           /\ login'[w].tokenVersion = login[w].tokenVersion
    BY <2>6
  <2>12. SessionsHeld'
    <3>1. \A x \in Visits : visit'[x].pc = "sign" => visit'[x] = visit[x] /\ visit[x].login \in Logins
      BY <2>2, <1>t DEF Roles, RoleOf, Serving, Owners
    <3>2. \A x \in Visits : ReadOf(visit[x])'
      BY <3>1, <2>11, <1>t DEF SessionsHeld, ReadOf, Matches
    <3> QED
      BY <3>2, <2>7, <2>11, <1>1, <1>t DEF SessionsHeld, Matches, Owners
  <2>13. PasswordsFresh'
    BY <2>2, <2>11, <1>1, <1>t DEF PasswordsFresh, Fresh, q
  <2>14. TurnHeld'
    <3>1. UnderWay' = UnderWay
      BY <2>2, <1>1 DEF UnderWay, q
    <3>2. ASSUME NEW w \in Owners \ halved'
          PROVE  w \in Owners \ halved /\ login'[w].name = login[w].name
      BY <3>2, <2>1, <2>6 DEF Owners
    <3>3. ASSUME InTurn, NEW x \in Visits
          PROVE  TurnOf(visit[x])'
      <4>1. CASE x = v
        <5>1. TurnOf(q)
          BY <3>3, <1>t DEF TurnHeld, q
        <5> QED
          BY <4>1, <5>1, <2>2, <2>6, <1>1 DEF TurnOf, Editing, u
      <4>2. CASE x # v
        <5>1. v \in UnderWay /\ \A y, z \in UnderWay : y = z
          BY <3>3, <1>1, <1>t DEF UnderWay, TurnHeld, q
        <5>2. visit'[x].pc \in {"idle", "done"}
          BY <4>2, <5>1, <2>2 DEF UnderWay
        <5> QED
          BY <5>2 DEF TurnOf, Editing
      <4> QED
        BY <4>1, <4>2
    <3> QED
      BY <3>1, <3>2, <3>3, <2>7, <1>1, <1>t DEF TurnHeld, InTurn
  <2>15. Accounted'
    BY <2>2, <2>7, <1>1, <1>t DEF Accounted, Inserted, q
  <2> QED
    BY <2>8, <2>9, <2>10, <2>12, <2>13, <2>14, <2>15 DEF AccountsInv
<1> QED
  BY <1>3, <1>4

-----------------------------------------------------------------------------
(***************************************************************************)
(* Steps that change a tribe.                                              *)
(***************************************************************************)

\* create saves the tribe of its login, or goes on to take the login back.
LEMMA TribeSaved ==
    ASSUME AccountsInv, NEW v \in Visits, SaveTribe(v)
    PROVE  AccountsInv'
<1>t. /\ AccountsTypeOK /\ Roles /\ AddressesHeld /\ SessionsHeld /\ PasswordsFresh
      /\ TurnHeld /\ Accounted
  BY DEF AccountsInv
<1>1. visit[v].pc = "tribe" /\ UNCHANGED <<login, sessions, saved, halved, atOnce, visitsDied>>
  BY DEF SaveTribe, VisitAt
<1>2. CASE GoesTo(v, "undo") /\ UNCHANGED tribe
  <2>1. /\ visit' \in [Visits -> VisitDoc] /\ \A w \in Visits \ {v} : visit'[w] = visit[w]
        /\ visit'[v].pc = "undo" /\ visit'[v].login = visit[v].login
        /\ visit'[v].read = visit[v].read
    <3>1. "undo" \in VisitPc
      BY DEF VisitPc
    <3> QED
      BY <3>1, <1>2, <1>t, Goes
  <2>2. RoleOf(visit'[v])
    BY <1>1, <2>1, <1>t DEF Roles, RoleOf, Inserted, Serving
  <2>3. AddressOf(visit'[v]) /\ ReadOf(visit'[v]) /\ TurnOf(visit'[v])
    BY <2>1 DEF AddressOf, ReadOf, TurnOf, Editing
  <2>4. /\ ~Fresh(visit'[v]) /\ ReadBefore(v, visit'[v].read.password) /\ v \in UnderWay
        /\ visit'[v].pc \in Inserted /\ visit[v].pc \in Inserted
    BY <1>1, <2>1 DEF Fresh, ReadBefore, UnderWay, Inserted
  <2>5. visitsDied' \in 0 .. AccountDeaths /\ visitsDied' >= visitsDied
    BY <1>1, <1>t DEF AccountsTypeOK
  <2> QED
    BY <1>1, <1>2, <2>1, <2>2, <2>3, <2>4, <2>5, VisitOnly
<1> DEFINE u == visit[v].login
<1>3. ASSUME tribe' = [tribe EXCEPT ![u] =
                [NoTribe EXCEPT !.exists = TRUE, !.username = visit[v].username]],
             VisitEnds(v)
      PROVE  AccountsInv'
  <2>1. u \in Logins /\ u \in Users /\ u \notin Owners
    BY <1>1, <1>t DEF Roles, RoleOf, Inserted, Users
  <2>2. /\ visit' \in [Visits -> VisitDoc] /\ \A w \in Visits \ {v} : visit'[w] = visit[w]
        /\ visit'[v].pc = "done" /\ visit'[v].login = Unset /\ visit'[v].read.password = Unset
    BY <1>3, <1>t, Ended
  <2>3. /\ tribe' \in [Logins -> TribeDoc] /\ \A w \in Logins \ {u} : tribe'[w] = tribe[w]
        /\ tribe'[u].exists /\ tribe'[u].name = Unset /\ tribe'[u].settings = {}
    <3> DEFINE d == [NoTribe EXCEPT !.exists = TRUE, !.username = visit[v].username]
    <3>1. d \in TribeDoc /\ d.exists /\ d.name = Unset /\ d.settings = {}
      BY <1>t, VisitFields DEF NoTribe, TribeDoc
    <3>2. tribe' = [tribe EXCEPT ![u] = d]
      BY <1>3
    <3> HIDE DEF d, u
    <3> QED
      BY <3>1, <3>2, <2>1, <1>t DEF AccountsTypeOK
  <2> HIDE DEF u
  <2>4. Users' = Users /\ Owners' = Owners \cup {u}
    BY <1>1, <2>1, <2>3 DEF Users, Owners
  <2>5. AccountsTypeOK'
    BY <1>1, <2>2, <2>3, <1>t DEF AccountsTypeOK
  <2>6. \A w \in Visits \ {v} : visit[w].pc \in Inserted => visit[w].login # u
    BY <1>1, <1>t DEF Roles, Inserted, u
  <2>7. Roles'
    BY <2>1, <2>2, <2>4, <2>6, <1>t DEF Roles, RoleOf, Inserted, Serving
  <2>8. AddressesHeld'
    BY <1>1, <2>2, <2>4, <1>t DEF AddressesHeld, AddressOf, OneLoginPerAddress, Users
  <2>9. SessionsHeld'
    BY <1>1, <2>2, <2>4, <1>t DEF SessionsHeld, ReadOf, Matches
  <2>10. PasswordsFresh'
    <3>1. ~Fresh(visit'[v]) /\ visit'[v].read.password = Unset
      BY <2>2 DEF Fresh
    <3>2. sessions' = sessions /\ \A w \in Logins : login'[w].password = login[w].password
      BY <1>1
    <3> QED
      BY <3>1, <3>2, <2>2, <1>t, FreshStays
  <2>11. TurnHeld'
    <3>1. UnderWay' \subseteq UnderWay
      BY <2>2 DEF UnderWay
    <3>2. \A w \in Logins : tribe'[w].settings = tribe[w].settings
      BY <2>1, <2>3, <1>t DEF TurnHeld
    <3>3. ASSUME InTurn, NEW x \in Visits
          PROVE  TurnOf(visit[x])'
      <4>1. CASE x = v
        BY <4>1, <2>2 DEF TurnOf, Editing
      <4>2. CASE x # v
        <5>1. TurnOf(visit[x]) /\ RoleOf(visit[x]) /\ visit'[x] = visit[x]
          BY <3>3, <4>2, <2>2, <1>t DEF TurnHeld, Roles
        <5> QED
          BY <5>1, <3>2, <1>1 DEF TurnOf, RoleOf, Editing, Serving, Owners
      <4> QED
        BY <4>1, <4>2
    <3>4. \A w \in Owners : tribe'[w] = tribe[w]
      BY <2>1, <2>3 DEF Owners
    <3> QED
      BY <3>1, <3>2, <3>3, <3>4, <2>3, <2>4, <1>1, <1>t DEF TurnHeld, InTurn
  <2>12. Accounted'
    <3> SUFFICES ASSUME visitsDied = 0, NEW w \in Users \ Owners, w # u
                 PROVE  \E x \in Visits : visit'[x].pc \in Inserted /\ visit'[x].login = w
      BY <1>1, <2>4 DEF Accounted
    <3>1. PICK x \in Visits : visit[x].pc \in Inserted /\ visit[x].login = w
      BY <1>t DEF Accounted
    <3>2. x # v
      BY <3>1 DEF u
    <3> QED
      BY <3>1, <3>2, <2>2
  <2> QED
    BY <2>5, <2>7, <2>8, <2>9, <2>10, <2>11, <2>12 DEF AccountsInv
<1> QED
  BY <1>2, <1>3 DEF SaveTribe

\* A write to the tribe of an owner that ends the visit.  The login it had half
\* renamed may be whole again, no other.
LEMMA TribeWritten ==
    ASSUME AccountsInv, NEW v \in Visits, visit[v].pc \in {"write", "merge"}, VisitEnds(v),
           UNCHANGED <<login, sessions, atOnce, visitsDied>>,
           NEW d \in TribeDoc, tribe' = [tribe EXCEPT ![visit[v].login] = d], d.exists,
           saved' \in [Logins -> SUBSET Settings], halved' \subseteq Logins,
           InTurn =>
             /\ saved'[visit[v].login] = d.settings
             /\ \A w \in Logins \ {visit[v].login} : saved'[w] = saved[w]
             /\ halved \ {visit[v].login} \subseteq halved'
             /\ visit[v].login \in halved' \/ d.name \in {Unset, login[visit[v].login].name}
    PROVE  AccountsInv'
<1>t. /\ AccountsTypeOK /\ Roles /\ AddressesHeld /\ SessionsHeld /\ PasswordsFresh
      /\ TurnHeld /\ Accounted
  BY DEF AccountsInv
<1> DEFINE u == visit[v].login
<1>1. u \in Logins /\ u \in Users /\ u \in Owners
  BY <1>t DEF Roles, RoleOf, Serving, Users
<1>2. /\ visit' \in [Visits -> VisitDoc] /\ \A w \in Visits \ {v} : visit'[w] = visit[w]
      /\ visit'[v].pc = "done" /\ visit'[v].login = Unset /\ visit'[v].read.password = Unset
  BY <1>t, Ended
<1>3. /\ tribe' \in [Logins -> TribeDoc] /\ tribe'[u] = d
      /\ \A w \in Logins \ {u} : tribe'[w] = tribe[w]
  BY <1>1, <1>t DEF AccountsTypeOK
<1>4. Users' = Users /\ Owners' = Owners
  BY <1>1, <1>3 DEF Users, Owners
<1> HIDE DEF u
<1>5. AccountsTypeOK'
  BY <1>2, <1>3, <1>t DEF AccountsTypeOK
<1>6. Roles'
  BY <1>2, <1>4, <1>t DEF Roles, RoleOf, Inserted, Serving
<1>7. AddressesHeld'
  BY <1>2, <1>4, <1>t DEF AddressesHeld, AddressOf, OneLoginPerAddress, Users
<1>8. SessionsHeld'
  BY <1>2, <1>4, <1>t DEF SessionsHeld, ReadOf, Matches
<1>9. PasswordsFresh'
  <2>1. ~Fresh(visit'[v]) /\ visit'[v].read.password = Unset
    BY <1>2 DEF Fresh
  <2>2. \A w \in Logins : login'[w].password = login[w].password
    OBVIOUS
  <2> QED
    BY <2>1, <2>2, <1>2, <1>t, FreshStays
<1>10. TurnHeld'
  <2>1. UnderWay' \subseteq UnderWay
    BY <1>2 DEF UnderWay
  <2>2. \A w \in Logins \ Owners : tribe'[w].settings = {}
    BY <1>1, <1>3, <1>t DEF TurnHeld
  <2>3. ASSUME InTurn
        PROVE  /\ \A w \in Logins : saved'[w] = tribe'[w].settings
               /\ \A w \in Owners \ halved' : tribe'[w].name \in {Unset, login[w].name}
    <3>1. ASSUME NEW w \in Logins
          PROVE  saved'[w] = tribe'[w].settings
      BY <2>3, <1>3, <1>t DEF TurnHeld, u
    <3>2. ASSUME NEW w \in Owners \ halved'
          PROVE  tribe'[w].name \in {Unset, login[w].name}
      BY <2>3, <3>2, <1>3, <1>t DEF TurnHeld, u, Owners
    <3> QED
      BY <3>1, <3>2
  <2>4. ASSUME InTurn, NEW x \in Visits
        PROVE  TurnOf(visit[x])'
    <3>1. v \in UnderWay /\ \A y, z \in UnderWay : y = z
      BY <2>4, <1>t DEF UnderWay, TurnHeld
    <3>2. visit'[x].pc \in {"idle", "done"}
      BY <3>1, <1>2 DEF UnderWay
    <3> QED
      BY <3>2 DEF TurnOf, Editing
  <2> QED
    BY <2>1, <2>2, <2>3, <2>4, <1>4, <1>t DEF TurnHeld, InTurn
<1>11. Accounted'
  BY <1>2, <1>4, <1>t DEF Accounted, Inserted
<1> QED
  BY <1>5, <1>6, <1>7, <1>8, <1>9, <1>10, <1>11 DEF AccountsInv

\* One setting set or cleared, and alone also in what was read before.
LEMMA MergedIsHaving ==
    ASSUME AccountsTypeOK, NEW v \in Visits, visit[v].login \in Logins,
           visit[v].setting \in Settings, NEW parts \in SUBSET Settings
    PROVE  /\ Merged(visit[v], parts) \subseteq Settings
           /\ \A old \in SUBSET Settings :
                Having(old, visit[v].setting, visit[v].value) \subseteq Settings
           /\ visit[v].read.settings = tribe[visit[v].login].settings =>
                Merged(visit[v], parts) =
                  Having(tribe[visit[v].login].settings, visit[v].setting, visit[v].value)
<1>1. visit[v].read.settings \subseteq Settings /\ tribe[visit[v].login].settings \subseteq Settings
  BY VisitFields DEF AccountsTypeOK, TribeDoc
<1>2. \A S, P : (S \cap P) \cup (S \ P) = S
  OBVIOUS
<1>3. \A old \in SUBSET Settings :
        Having(old, visit[v].setting, visit[v].value) \subseteq Settings
  BY DEF Having
<1>4. (visit[v].read.settings \cap parts) \cup (tribe[visit[v].login].settings \ parts) \in SUBSET Settings
  BY <1>1
<1> QED
  BY <1>2, <1>3, <1>4 DEF Merged

\* What an update leaves of the tribe's document.
LEMMA RewrittenTyped ==
    ASSUME AccountsTypeOK, NEW v \in Visits, visit[v].login \in Logins, NEW doc \in TribeDoc
    PROVE  /\ Rewritten(doc, visit[v]) \in TribeDoc
           /\ Rewritten(doc, visit[v]).exists = doc.exists
           /\ Rewritten(doc, visit[v]).name = IF visit[v].name = Unset THEN doc.name ELSE visit[v].name
           /\ Rewritten(doc, visit[v]).settings =
                IF visit[v].setting = Unset THEN doc.settings ELSE Merged(visit[v], ConfigParts)
<1> DEFINE q == visit[v]
           s == IF q.username = Unset THEN doc.username ELSE q.username
           n == IF q.name = Unset THEN doc.name ELSE q.name
           c == IF q.setting = Unset THEN doc.settings ELSE Merged(q, ConfigParts)
<1>1. s \in Usernames \cup {Unset} /\ n \in OwnerNames \cup {Unset}
  BY VisitFields DEF TribeDoc
<1>2. c \in SUBSET Settings
  <2>1. ConfigParts \in SUBSET Settings
    BY DEF Settings
  <2>2. CASE q.setting = Unset
    BY <2>2 DEF TribeDoc
  <2>3. CASE q.setting # Unset
    <3>1. q.setting \in Settings
      BY <2>3, VisitFields
    <3> QED
      BY <2>1, <2>3, <3>1, MergedIsHaving
  <2> QED
    BY <2>2, <2>3
<1>3. Rewritten(doc, q) = [doc EXCEPT !.username = s, !.name = n, !.settings = c]
  BY DEF Rewritten
<1> HIDE DEF s, n, c
<1>4. /\ [doc EXCEPT !.username = s, !.name = n, !.settings = c] \in TribeDoc
      /\ Rewritten(doc, q).exists = doc.exists
      /\ Rewritten(doc, q).name = n /\ Rewritten(doc, q).settings = c
  BY <1>1, <1>2, <1>3 DEF TribeDoc
<1> QED
  BY <1>3, <1>4 DEF n, c

\* update writes the tribe, unless the username is taken.
LEMMA TribeUpdated ==
    ASSUME AccountsInv, NEW v \in Visits, WriteTribe(v)
    PROVE  AccountsInv'
<1>t. AccountsTypeOK /\ Roles /\ TurnHeld
  BY DEF AccountsInv
<1> DEFINE q == visit[v]
           u == q.login
<1>1. q.pc = "write" /\ VisitEnds(v) /\ UNCHANGED <<login, sessions, atOnce, visitsDied>>
  BY DEF WriteTribe, VisitAt
<1>2. u \in Logins /\ tribe[u].exists
  BY <1>1, <1>t DEF Roles, RoleOf, Serving, Owners
<1>3. CASE UNCHANGED <<tribe, saved, halved>>
  <2>1. visitsDied' \in 0 .. AccountDeaths /\ visitsDied' >= visitsDied
    BY <1>1, <1>t DEF AccountsTypeOK
  <2> QED
    BY <1>1, <1>3, <2>1, Leaves DEF Inserted
<1>4. ASSUME tribe' = [tribe EXCEPT ![u] = Rewritten(tribe[u], q)],
             halved' = IF q.name = Unset THEN halved ELSE halved \ {u},
             Remembers(q)
      PROVE  AccountsInv'
  <2> DEFINE d == Rewritten(tribe[u], q)
  <2>1. tribe[u] \in TribeDoc
    BY <1>2, <1>t DEF AccountsTypeOK
  <2>2. /\ d \in TribeDoc /\ d.exists
        /\ d.name = IF q.name = Unset THEN tribe[u].name ELSE q.name
        /\ d.settings = IF q.setting = Unset THEN tribe[u].settings ELSE Merged(q, ConfigParts)
    BY <1>2, <1>t, <2>1, RewrittenTyped
  <2>3. /\ q.name \in OwnerNames \cup {Unset} /\ q.setting \in Settings \cup {Unset}
        /\ q.read.settings \subseteq Settings
    BY <1>t, VisitFields
  <2>4. q.setting # Unset =>
          /\ \A old \in SUBSET Settings : Having(old, q.setting, q.value) \subseteq Settings
          /\ q.read.settings = tribe[u].settings =>
               Merged(q, ConfigParts) = Having(tribe[u].settings, q.setting, q.value)
    <3>1. ConfigParts \in SUBSET Settings
      BY DEF Settings
    <3> QED
      BY <3>1, <1>2, <1>t, <2>3, MergedIsHaving
  <2>5. InTurn => /\ q.read.settings = tribe[u].settings
                  /\ q.name # Unset => login[u].name = q.name
                  /\ saved[u] = tribe[u].settings
                  /\ u \in halved \/ tribe[u].name \in {Unset, login[u].name}
    BY <1>1, <1>2, <1>t DEF TurnHeld, TurnOf, Editing, Owners
  <2>6. tribe' = [tribe EXCEPT ![u] = d]
    BY <1>4
  <2>7. halved \subseteq Logins /\ saved \in [Logins -> SUBSET Settings]
    BY <1>t DEF AccountsTypeOK
  <2> HIDE DEF d, u, q
  <2>8. halved' \subseteq Logins /\ halved \ {u} \subseteq halved'
    BY <1>4, <2>7
  <2>9. saved' \in [Logins -> SUBSET Settings]
    BY <1>2, <1>4, <2>4, <2>7 DEF Remembers
  <2>10. InTurn => saved'[u] = d.settings /\ \A w \in Logins \ {u} : saved'[w] = saved[w]
    BY <1>2, <1>4, <2>2, <2>4, <2>5, <2>7 DEF Remembers, u
  <2>11. InTurn => u \in halved' \/ d.name \in {Unset, login[u].name}
    BY <1>4, <2>2, <2>5
  <2> QED
    BY <1>1, <2>2, <2>6, <2>8, <2>9, <2>10, <2>11, TribeWritten DEF u, q
<1> QED
  BY <1>3, <1>4 DEF WriteTribe

\* updatePermissions writes what it merged.
LEMMA GrantWritten ==
    ASSUME AccountsInv, NEW v \in Visits, WriteGrant(v)
    PROVE  AccountsInv'
<1>t. AccountsTypeOK /\ Roles /\ TurnHeld
  BY DEF AccountsInv
<1> DEFINE q == visit[v]
           u == q.login
           d == [tribe[u] EXCEPT !.settings = Merged(q, Permissions)]
<1>1. /\ q.pc = "merge" /\ VisitEnds(v)
      /\ UNCHANGED <<login, sessions, halved, atOnce, visitsDied>>
      /\ Remembers(q)
  BY DEF WriteGrant, VisitAt
<1>2. u \in Logins /\ u \in Owners /\ tribe[u].exists /\ q.setting \in Settings
  BY <1>1, <1>t DEF Roles, RoleOf, Serving, Owners
<1>3. q.setting # Unset
  BY <1>2, AccountsAssumption
<1>4. /\ Merged(q, Permissions) \subseteq Settings
      /\ \A old \in SUBSET Settings : Having(old, q.setting, q.value) \subseteq Settings
      /\ q.read.settings = tribe[u].settings =>
           Merged(q, Permissions) = Having(tribe[u].settings, q.setting, q.value)
  <2>1. Permissions \in SUBSET Settings
    BY DEF Settings
  <2> QED
    BY <2>1, <1>2, <1>t, MergedIsHaving
<1>5. InTurn => /\ q.read.settings = tribe[u].settings
                /\ saved[u] = tribe[u].settings
                /\ u \in halved \/ tribe[u].name \in {Unset, login[u].name}
  BY <1>1, <1>2, <1>t DEF TurnHeld, TurnOf, Editing
<1>6. tribe[u] \in TribeDoc /\ halved \subseteq Logins /\ saved \in [Logins -> SUBSET Settings]
  BY <1>2, <1>t DEF AccountsTypeOK
<1>7. tribe' = [tribe EXCEPT ![u] = d]
  BY <1>2 DEF WriteGrant
<1>8. /\ d \in TribeDoc /\ d.exists /\ d.name = tribe[u].name
      /\ d.settings = Merged(q, Permissions)
  <2> DEFINE m == Merged(q, Permissions)
  <2>1. m \in SUBSET Settings
    BY <1>4
  <2> HIDE DEF m, u
  <2>2. [tribe[u] EXCEPT !.settings = m] \in TribeDoc
    BY <2>1, <1>6 DEF TribeDoc
  <2>3. /\ [tribe[u] EXCEPT !.settings = m].exists = tribe[u].exists
        /\ [tribe[u] EXCEPT !.settings = m].name = tribe[u].name
        /\ [tribe[u] EXCEPT !.settings = m].settings = m
    BY <1>6 DEF TribeDoc
  <2> QED
    BY <2>2, <2>3, <1>2 DEF m
<1> HIDE DEF d, u, q
<1>9. saved' \in [Logins -> SUBSET Settings]
  BY <1>1, <1>2, <1>3, <1>4, <1>6 DEF Remembers
<1>10. InTurn => saved'[u] = d.settings /\ \A w \in Logins \ {u} : saved'[w] = saved[w]
  BY <1>1, <1>2, <1>3, <1>4, <1>5, <1>6, <1>8 DEF Remembers, u
<1> QED
  BY <1>1, <1>5, <1>6, <1>7, <1>8, <1>9, <1>10, TribeWritten DEF u, q

-----------------------------------------------------------------------------
(***************************************************************************)
(* Steps that sign a token.                                                *)
(***************************************************************************)

\* A token whose version is current just if its password is, for a password
\* nobody is still to set.
LEMMA TokenSigned ==
    ASSUME AccountsInv, NEW v \in Visits, visit[v].pc \notin Inserted, VisitEnds(v),
           UNCHANGED <<login, tribe, saved, halved, atOnce, visitsDied>>,
           NEW s \in Session, sessions' = sessions \cup {s},
           s.login \in Owners, s.tv <= login[s.login].tokenVersion,
           ~s.overtaken => Matches(s.login, s.tv, s.password),
           \A x \in Visits \ {v} : Fresh(visit[x]) => s.password # x
    PROVE  AccountsInv'
<1>t. /\ AccountsTypeOK /\ Roles /\ AddressesHeld /\ SessionsHeld /\ PasswordsFresh
      /\ TurnHeld /\ Accounted
  BY DEF AccountsInv
<1>1. /\ visit' \in [Visits -> VisitDoc] /\ \A w \in Visits \ {v} : visit'[w] = visit[w]
      /\ visit'[v].pc = "done" /\ visit'[v].login = Unset /\ visit'[v].read.password = Unset
  BY <1>t, Ended
<1>2. Users' = Users /\ Owners' = Owners
  BY DEF Users, Owners
<1>3. AccountsTypeOK'
  BY <1>1, <1>t DEF AccountsTypeOK
<1>4. Roles'
  BY <1>1, <1>2, <1>t DEF Roles, RoleOf, Inserted, Serving
<1>5. AddressesHeld'
  BY <1>1, <1>2, <1>t DEF AddressesHeld, AddressOf, OneLoginPerAddress, Users
<1>6. SessionsHeld'
  <2>1. \A x \in Visits : ReadOf(visit[x])'
    BY <1>1, <1>t DEF SessionsHeld, ReadOf, Matches
  <2>2. \A x \in sessions' :
          /\ x.login \in Owners /\ x.tv <= login[x.login].tokenVersion
          /\ ~x.overtaken => Matches(x.login, x.tv, x.password)
    BY <1>t DEF SessionsHeld
  <2> QED
    BY <2>1, <2>2, <1>2 DEF SessionsHeld, Matches
<1>7. PasswordsFresh'
  <2> SUFFICES ASSUME NEW x \in Visits, Fresh(visit'[x])
               PROVE  /\ \A u \in Logins : login[u].password # x
                      /\ \A y \in sessions' : y.password # x
                      /\ \A w \in Visits : visit'[w].read.password # x
    BY DEF PasswordsFresh, Fresh
  <2>1. x # v /\ Fresh(visit[x]) /\ x # Unset
    BY <1>1, AccountsAssumption DEF Fresh
  <2> QED
    BY <2>1, <1>1, <1>t DEF PasswordsFresh
<1>8. TurnHeld'
  <2>1. UnderWay' \subseteq UnderWay
    BY <1>1 DEF UnderWay
  <2>2. InTurn => \A x \in Visits : TurnOf(visit[x])'
    BY <1>1, <1>t DEF TurnHeld, TurnOf, Editing
  <2> QED
    BY <2>1, <2>2, <1>2, <1>t DEF TurnHeld, InTurn
<1>9. Accounted'
  BY <1>1, <1>2, <1>t DEF Accounted, Inserted
<1> QED
  BY <1>3, <1>4, <1>5, <1>6, <1>7, <1>8, <1>9 DEF AccountsInv

\* A sign-in is signed with the version that went with the password it proved.
LEMMA SignedIn ==
    ASSUME AccountsInv, NEW v \in Visits, Sign(v)
    PROVE  AccountsInv'
<1>t. AccountsTypeOK /\ Roles /\ SessionsHeld /\ PasswordsFresh
  BY DEF AccountsInv
<1> DEFINE q == visit[v]
           s == Token(q.login, q.read, q.read.password)
<1>1. /\ q.pc = "sign" /\ VisitEnds(v) /\ sessions' = sessions \cup {s}
      /\ UNCHANGED <<login, tribe, saved, halved, atOnce, visitsDied>>
  BY DEF Sign, VisitAt
<1>2. q.login \in Owners /\ q.login \in Logins
  BY <1>1, <1>t DEF Roles, RoleOf, Serving, Owners
<1>3. Matches(q.login, q.read.tokenVersion, q.read.password)
  BY <1>1, <1>t DEF SessionsHeld, ReadOf
<1>4. \A x \in Visits : Fresh(visit[x]) => q.read.password # x
  BY <1>t DEF PasswordsFresh
<1>5. q.read.password \in Visits \cup {Unset} /\ q.read.tokenVersion \in Nat
  BY <1>t, VisitFields
<1>6. q.pc \notin Inserted
  BY <1>1 DEF Inserted
<1> HIDE DEF q
<1>7. /\ s \in Session /\ s.login = q.login /\ s.tv = q.read.tokenVersion
      /\ s.password = q.read.password
  BY <1>2, <1>5 DEF Token, Session
<1>8. s.login \in Owners /\ s.tv <= login[s.login].tokenVersion
      /\ Matches(s.login, s.tv, s.password)
  BY <1>2, <1>3, <1>7 DEF Matches
<1> HIDE DEF s
<1> QED
  BY <1>1, <1>4, <1>6, <1>7, <1>8, TokenSigned DEF q

\* A change is signed with the version that is read back: the one the change
\* made, or a later one that goes with another password.
LEMMA SignedAgain ==
    ASSUME AccountsInv, NEW v \in Visits, SignAgain(v)
    PROVE  AccountsInv'
<1>t. AccountsTypeOK /\ Roles
  BY DEF AccountsInv
<1> DEFINE u == visit[v].login
           s == Token(u, login[u], v)
<1>1. /\ visit[v].pc = "reread" /\ VisitEnds(v) /\ sessions' = sessions \cup {s}
      /\ UNCHANGED <<login, tribe, saved, halved, atOnce, visitsDied>>
  BY DEF SignAgain, VisitAt
<1>2. u \in Owners /\ u \in Logins
  BY <1>1, <1>t DEF Roles, RoleOf, Serving, Owners
<1>3. login[u].tokenVersion \in Nat
  BY <1>2, <1>t DEF AccountsTypeOK, LoginDoc
<1>4. visit[v].pc \notin Inserted
  BY <1>1 DEF Inserted
<1> HIDE DEF u
<1>5. /\ s \in Session /\ s.login = u /\ s.tv = login[u].tokenVersion
      /\ s.password = v /\ s.overtaken = (login[u].password # v)
  BY <1>2, <1>3 DEF Token, Session
<1> HIDE DEF s
<1>6. /\ s.login \in Owners /\ s.tv <= login[s.login].tokenVersion
      /\ ~s.overtaken => Matches(s.login, s.tv, s.password)
  <2>1. s.login \in Owners /\ s.tv <= login[s.login].tokenVersion
    BY <1>2, <1>3, <1>5
  <2>2. ASSUME ~s.overtaken
        PROVE  login[u].password = v
    BY <2>2, <1>5
  <2>3. login[u].password = v => Matches(u, login[u].tokenVersion, v)
    BY <1>3 DEF Matches
  <2> QED
    BY <2>1, <2>2, <2>3, <1>5
<1>7. \A x \in Visits \ {v} : Fresh(visit[x]) => s.password # x
  BY <1>5
<1> QED
  BY <1>1, <1>4, <1>5, <1>6, <1>7, TokenSigned

-----------------------------------------------------------------------------
\* Every step keeps the invariant.
LEMMA NextHolds == AccountsInv /\ [AccountsNext]_accountVars => AccountsInv'
<1> SUFFICES ASSUME AccountsInv, [AccountsNext]_accountVars
             PROVE  AccountsInv'
  OBVIOUS
<1>1. CASE UNCHANGED accountVars
  <2>1. /\ UNCHANGED <<login, tribe, visit, sessions, saved, halved, atOnce, visitsDied>>
        /\ Users' = Users /\ Owners' = Owners /\ UnderWay' = UnderWay
    BY <1>1 DEF accountVars, Users, Owners, UnderWay
  <2>2. AccountsTypeOK' /\ Roles'
    BY <2>1 DEF AccountsInv, AccountsTypeOK, Roles, RoleOf
  <2>3. AddressesHeld' /\ PasswordsFresh' /\ Accounted'
    BY <2>1 DEF AccountsInv, AddressesHeld, AddressOf, OneLoginPerAddress, PasswordsFresh,
                Fresh, Accounted
  <2>4. SessionsHeld' /\ TurnHeld'
    BY <2>1 DEF AccountsInv, SessionsHeld, ReadOf, Matches, TurnHeld, TurnOf, InTurn
  <2> QED
    BY <2>2, <2>3, <2>4 DEF AccountsInv
<1>2. ASSUME NEW v \in Visits,
             \/ BeginOnboarding(v) \/ CheckUsername(v) \/ InsertUser(v) \/ SaveTribe(v)
             \/ DeleteUser(v) \/ SignIn(v) \/ Sign(v) \/ updatePassword(v) \/ SignAgain(v)
             \/ \E op \in {"change", "reset"} : BeginPassword(v, op)
             \/ BeginEdit(v) \/ CheckEmail(v) \/ Patch(v) \/ WriteTribe(v)
             \/ BeginGrant(v) \/ WriteGrant(v) \/ VisitDies(v)
      PROVE  AccountsInv'
  <2>1. CASE BeginOnboarding(v)
    BY <2>1, OnboardingBegins
  <2>2. CASE CheckUsername(v)
    BY <2>2, UsernameChecked
  <2>3. CASE InsertUser(v)
    BY <2>3, UserInserted
  <2>4. CASE SaveTribe(v)
    BY <2>4, TribeSaved
  <2>5. CASE DeleteUser(v)
    BY <2>5, UserDeleted
  <2>6. CASE SignIn(v) \/ \E op \in {"change", "reset"} : BeginPassword(v, op)
    BY <2>6, OwnerBegins
  <2>7. CASE Sign(v)
    BY <2>7, SignedIn
  <2>8. CASE updatePassword(v)
    BY <2>8, PasswordSet
  <2>9. CASE SignAgain(v)
    BY <2>9, SignedAgain
  <2>10. CASE BeginEdit(v) \/ BeginGrant(v)
    BY <2>10, EditBegins
  <2>11. CASE CheckEmail(v)
    BY <2>11, EmailChecked
  <2>12. CASE Patch(v)
    BY <2>12, UserPatched
  <2>13. CASE WriteTribe(v)
    BY <2>13, TribeUpdated
  <2>14. CASE WriteGrant(v)
    BY <2>14, GrantWritten
  <2>15. CASE VisitDies(v)
    BY <2>15, VisitDead
  <2> QED
    BY <1>2, <2>1, <2>2, <2>3, <2>4, <2>5, <2>6, <2>7, <2>8, <2>9, <2>10, <2>11, <2>12,
       <2>13, <2>14, <2>15
<1> QED
  BY <1>1, <1>2 DEF AccountsNext

\* Whatever the order of the requests' database calls, and whichever die half
\* way: one login per address, a tribe for each, sessions that end with their
\* password, names and settings as they were saved (tribes.service, auth.service,
\* users.service).
THEOREM AccountsAlwaysAgree == AccountsSpec => []AccountsAgree
<1>1. AccountsInit => AccountsInv
  BY InitHolds
<1>2. AccountsInv /\ [AccountsNext]_accountVars => AccountsInv'
  BY NextHolds
<1>3. AccountsInv => AccountsAgree
  BY InvAgrees
<1> QED
  BY <1>1, <1>2, <1>3, PTL DEF AccountsSpec

\* The documents, the requests and the tokens always have their types.
THEOREM AccountsTypeCorrect == AccountsSpec => []AccountsTypeOK
<1>1. AccountsInit => AccountsInv
  BY InitHolds
<1>2. AccountsInv /\ [AccountsNext]_accountVars => AccountsInv'
  BY NextHolds
<1>3. AccountsInv => AccountsTypeOK
  BY DEF AccountsInv
<1> QED
  BY <1>1, <1>2, <1>3, PTL DEF AccountsSpec

-----------------------------------------------------------------------------
(***************************************************************************)
(* Scheduled reports and reminders.                                        *)
(***************************************************************************)
\* A firing, and the state of the reports, have their types.
FiringDoc == [pc : {"idle", "claim", "read", "send"}, job : DOMAIN Counted, end : Int,
              left : SUBSET Tribes, found : SUBSET Events]

JobsTyped ==
    /\ schedule \in Schedules /\ now \in 0 .. JobTime
    /\ stamp \in [Events -> -1 .. now] /\ written \in [Events -> -1 .. now]
    /\ closed \subseteq job_runs /\ job_runs \subseteq Windows
    /\ firing \in [Replicas -> FiringDoc]
    /\ IsABag(told) /\ BagToSet(told) \subseteq Windows \X Tribes /\ missed \subseteq Windows \X Tribes
    /\ reports \in [Events -> Nat]

\* A window of a job that counts changes ends at one of its cut-offs.
AtCutoff(j, t) ==
    /\ j = "digest" => Hour(t) = CUTOFF_HOUR
    /\ j = "weekly" => Hour(t) = CLOSING_HOUR /\ Weekday(t) = FRIDAY

\* What is known of a window from its firing on: it is of the job that is due,
\* and if it counts changes it is over.
WindowFits(w) ==
    /\ w \in Windows /\ w[1] = schedule
    /\ w[1] # "reminder" => AtCutoff(w[1], w[2]) /\ w[2] <= now

WindowsFit ==
    /\ \A w \in job_runs : WindowFits(w)
    /\ \A r \in Replicas : firing[r].pc # "idle" => WindowFits(Window(r))

\* A run has its window claimed, to itself, and not yet closed.
Runs(r) == firing[r].pc \in {"read", "send"}
Claimed ==
    /\ \A r \in Replicas : Runs(r) => Window(r) \in job_runs /\ Window(r) \notin closed
    /\ \A r, s \in Replicas : Runs(r) /\ Runs(s) /\ Window(r) = Window(s) => r = s

\* Messages are of claimed windows, and none was sent to a tribe that a run
\* still has before it.
Untold(r, t) ==
    firing[r].pc = "read" \/ (firing[r].pc = "send" /\ t \in firing[r].left)
        => <<Window(r), t>> \notin DOMAIN told
ToldOfClaims ==
    /\ \A x \in DOMAIN told : x[1] \in job_runs /\ told[x] = 1
    /\ \A r \in Replicas, t \in Tribes : Untold(r, t)

\* e counts in window w; w counts e that was in time.
Stamped(e, w) ==
    KindOf[e] \in Counted[w[1]] /\ stamp[e] \in w[2] - Length(w[1]) .. w[2] - 1
InTime(e, w) == Stamped(e, w) /\ written[e] # -1 /\ written[e] < w[2]

\* e was counted, or the message of window w that counts it is logged as lost.
Heard(e, w) == reports[e] >= 1 \/ <<w, TribeOf[e]>> \in missed

\* A run has found what was in time, and nothing that is not its window's; it
\* has reported what it does not still have to tell, or has logged why not.
FoundBy(r, e) ==
    firing[r].pc = "send" =>
        /\ InTime(e, Window(r)) => e \in firing[r].found
        /\ e \in firing[r].found => Stamped(e, Window(r)) /\ written[e] # -1
        /\ e \in firing[r].found /\ TribeOf[e] \notin firing[r].left => Heard(e, Window(r))

\* A change that was counted was told to its tribe in a window that counts it.
CountedOf(e) ==
    /\ reports[e] <= 1
    /\ reports[e] = 1 =>
          /\ written[e] # -1
          /\ \E w \in job_runs : Stamped(e, w) /\ <<w, TribeOf[e]>> \in DOMAIN told
    /\ \A w \in closed : InTime(e, w) => Heard(e, w)

JobsInv ==
    /\ JobsTyped
    /\ \A e \in Events : written[e] # -1 => stamp[e] # -1
    /\ WindowsFit /\ Claimed /\ ToldOfClaims
    /\ \A r \in Replicas, e \in Events : FoundBy(r, e)
    /\ \A e \in Events : CountedOf(e)

-----------------------------------------------------------------------------
\* What is left over, and that it determines whole multiples.
LEMMA DivMod ==
    ASSUME NEW n \in Int, NEW d \in Nat \ {0}
    PROVE  /\ n \div d \in Int /\ n % d \in 0 .. d - 1
           /\ n = d * (n \div d) + (n % d)
  OBVIOUS

LEMMA ProductGrows ==
    ASSUME NEW m \in Int, m >= 1, NEW d \in Nat
    PROVE  d * m \in Int /\ d * m >= d
  <1>1. m - 1 \in Nat /\ d * (m - 1) >= 0
    OBVIOUS
  <1>2. d * m = d * (m - 1) + d
    OBVIOUS
  <1>3. QED
    BY <1>1, <1>2

\* Two times with the same remainder are whole multiples apart.
LEMMA ApartByWhole ==
    ASSUME NEW a \in Int, NEW b \in Int, NEW d \in Nat \ {0}, a % d = b % d, a < b
    PROVE  b - a >= d
  <1> DEFINE x == a \div d
             y == b \div d
  <1>1. /\ x \in Int /\ y \in Int /\ a % d \in Int
        /\ a = d * x + (a % d) /\ b = d * y + (b % d)
    BY DivMod
  <1> HIDE DEF x, y
  <1>2. d * y - d * x = b - a
    BY <1>1
  <1>3. y > x
    <2>1. SUFFICES ASSUME y <= x PROVE FALSE
      BY <1>1
    <2>2. x - y \in Nat /\ d * (x - y) >= 0
      BY <2>1, <1>1
    <2>3. d * (x - y) = d * x - d * y
      BY <1>1
    <2>4. QED
      BY <2>2, <2>3, <1>1, <1>2
  <1>4. d * (y - x) >= d
    BY <1>1, <1>3, ProductGrows
  <1>5. d * (y - x) = d * y - d * x
    BY <1>1
  <1>6. QED
    BY <1>1, <1>2, <1>4, <1>5

LEMMA LengthType == Length("digest") = DAY /\ Length("weekly") = WEEK * DAY /\ WEEK * DAY \in Nat /\ WEEK * DAY >= DAY
  <1>1. WEEK \in Nat /\ WEEK >= 1 /\ DAY \in Nat
    BY WindowsAssumption
  <1>2. DAY * WEEK >= DAY /\ DAY * WEEK \in Int
    BY <1>1, ProductGrows
  <1>3. DAY * WEEK = WEEK * DAY
    BY <1>1
  <1>4. WEEK * DAY \in Nat
    BY <1>1, <1>2, <1>3
  <1>5. QED
    BY <1>1, <1>2, <1>3, <1>4 DEF Length

\* Two windows of a job that end at different cut-offs do not overlap.
LEMMA CutoffsApart ==
    ASSUME NEW j \in {"digest", "weekly"}, NEW a \in Int, NEW b \in Int,
           AtCutoff(j, a), AtCutoff(j, b), a < b
    PROVE  b - a >= Length(j)
  <1> DEFINE s == a + OFFSET
             t == b + OFFSET
  <1>1. DAY \in Nat \ {0} /\ WEEK \in Nat \ {0} /\ OFFSET \in Int /\ EPOCH \in Int
    BY WindowsAssumption
  <1>2. s \in Int /\ t \in Int /\ s < t /\ t - s = b - a
    BY <1>1
  <1>3. s % DAY = t % DAY
    BY DEF AtCutoff, Hour
  <1>4. CASE j = "digest"
    <2> HIDE DEF s, t
    <2>1. t - s >= DAY
      BY <1>1, <1>2, <1>3, ApartByWhole
    <2>2. QED
      BY <2>1, <1>2, <1>4, LengthType
  <1>5. CASE j = "weekly"
    <2> DEFINE x == s \div DAY
               y == t \div DAY
    <2>1. (x + EPOCH) % WEEK = (y + EPOCH) % WEEK
      BY <1>5 DEF AtCutoff, Weekday, istDay
    <2> HIDE DEF s, t
    <2>2. x \in Int /\ y \in Int /\ s % DAY \in Int /\ s = DAY * x + (s % DAY) /\ t = DAY * y + (t % DAY)
      BY <1>1, <1>2, DivMod
    <2> HIDE DEF x, y
    <2>3. y > x
      <3>1. SUFFICES ASSUME y <= x PROVE FALSE
        BY <2>2
      <3>2. DAY * (x - y) >= 0 /\ DAY * (x - y) = DAY * x - DAY * y
        BY <3>1, <2>2, <1>1
      <3>3. QED
        BY <3>2, <2>2, <1>1, <1>2, <1>3
    <2>4. x + EPOCH \in Int /\ y + EPOCH \in Int /\ x + EPOCH < y + EPOCH
      BY <2>2, <2>3, <1>1
    <2>5. (y + EPOCH) - (x + EPOCH) >= WEEK
      BY <2>1, <2>4, <1>1, ApartByWhole
    <2>6. y - x - WEEK \in Nat
      BY <2>5, <2>2, <1>1
    <2>7. DAY * (y - x - WEEK) >= 0
      BY <2>6, <1>1
    <2>8. DAY * (y - x - WEEK) = DAY * y - DAY * x - WEEK * DAY
      BY <2>2, <1>1
    <2>9. WEEK * DAY \in Nat
      BY LengthType
    <2>10. t - s >= WEEK * DAY
      BY <2>2, <2>7, <2>8, <2>9, <1>1, <1>2, <1>3
    <2>11. QED
      BY <2>10, <1>2, <1>5, LengthType
  <1>6. QED
    BY <1>4, <1>5

\* A job that is due closes its window now; the reminder's closes later.
LEMMA DueNow ==
    ASSUME NEW t \in Nat, schedule \in DOMAIN Counted, now = t, Due(schedule)
    PROVE  LET e == WindowOf(schedule, now) IN
           /\ e \in Nat
           /\ schedule # "reminder" => AtCutoff(schedule, e) /\ e <= now
  <1>1. /\ DAY \in Nat \ {0} /\ WEEK \in Nat \ {0} /\ OFFSET \in Nat /\ EPOCH \in Int
        /\ CUTOFF_HOUR \in Int /\ CLOSING_HOUR \in Int /\ FRIDAY \in Int
    BY WindowsAssumption
  <1> DEFINE s == now + OFFSET
  <1>2. s \in Int /\ s >= OFFSET /\ istDay(now) = s \div DAY /\ Hour(now) = s % DAY
    BY <1>1 DEF istDay, Hour
  <1> HIDE DEF s
  <1>3. istDay(now) \in Int /\ Hour(now) \in 0 .. DAY - 1 /\ s = DAY * istDay(now) + Hour(now)
    BY <1>1, <1>2, DivMod
  <1>4. s = istDay(now) * DAY + Hour(now) /\ istDay(now) * DAY \in Int
    BY <1>1, <1>3
  <1>5. s - OFFSET = now
    BY <1>1 DEF s
  <1>6. CASE schedule = "digest"
    <2>1. Hour(now) = CUTOFF_HOUR
      BY <1>6 DEF Due
    <2>2. WindowOf(schedule, now) = istDay(now) * DAY + CUTOFF_HOUR - OFFSET
      BY <1>6, <2>1, <1>1, <1>3 DEF WindowOf, windowEndingAt
    <2>3. WindowOf(schedule, now) = now
      BY <2>2, <2>1, <1>1, <1>4, <1>5
    <2>4. QED
      BY <2>3, <2>1, <1>6 DEF AtCutoff
  <1>7. CASE schedule = "weekly"
    <2>1. Hour(now) = CLOSING_HOUR /\ Weekday(now) = FRIDAY
      BY <1>7 DEF Due
    <2>2. (FRIDAY - FRIDAY + WEEK) % WEEK = 0
      <3>1. FRIDAY - FRIDAY + WEEK = WEEK /\ WEEK % WEEK = 0
        BY <1>1
      <3>2. QED
        BY <3>1
    <2>3. (Weekday(now) - FRIDAY + WEEK) % WEEK = 0
      BY <2>1, <2>2
    <2> DEFINE since == (Weekday(now) - FRIDAY + WEEK) % WEEK
    <2> HIDE DEF since
    <2>4. weeklyWindowEndingAt(now) = istDay(now) * DAY + CLOSING_HOUR - since * DAY - OFFSET
      <3>1. weeklyWindowEndingAt(now) =
              (IF since = 0 /\ Hour(now) < CLOSING_HOUR
               THEN (istDay(now) * DAY + CLOSING_HOUR - since * DAY) - WEEK * DAY
               ELSE istDay(now) * DAY + CLOSING_HOUR - since * DAY) - OFFSET
        BY Zenon DEF weeklyWindowEndingAt, since
      <3>2. ~(Hour(now) < CLOSING_HOUR)
        BY <2>1, <1>1
      <3>3. weeklyWindowEndingAt(now) = (istDay(now) * DAY + CLOSING_HOUR - since * DAY) - OFFSET
        BY <3>1, <3>2
      <3>4. QED
        BY <3>3, <2>3, <1>1, <1>3 DEF since
    <2>5. WindowOf(schedule, now) = now
      BY <2>4, <2>1, <2>3, <1>1, <1>4, <1>5, <1>7 DEF WindowOf, since
    <2>6. QED
      BY <2>5, <2>1, <1>7 DEF AtCutoff
  <1>8. CASE schedule = "reminder"
    <2>1. WindowOf(schedule, now) = (istDay(now) + 1) * DAY - OFFSET
      BY <1>8 DEF WindowOf
    <2>2. (istDay(now) + 1) * DAY = istDay(now) * DAY + DAY
      BY <1>1, <1>3
    <2>3. QED
      BY <2>1, <2>2, <1>1, <1>3, <1>4, <1>5, <1>8
  <1>9. QED
    BY <1>6, <1>7, <1>8 DEF Counted

-----------------------------------------------------------------------------
\* No change belongs to two windows.
LEMMA OneWindow ==
    ASSUME JobsTyped, NEW e \in Events, NEW v, NEW w, WindowFits(v), WindowFits(w),
           Stamped(e, v), Stamped(e, w)
    PROVE  v = w
  <1>1. /\ v = <<schedule, v[2]>> /\ w = <<schedule, w[2]>> /\ v[2] \in Int /\ w[2] \in Int
        /\ v[1] = schedule /\ w[1] = schedule
    BY DEF WindowFits, Windows
  <1>2. schedule \in {"digest", "weekly"}
    BY <1>1, JobsAssumption DEF JobsTyped, Stamped, Counted
  <1>3. AtCutoff(schedule, v[2]) /\ AtCutoff(schedule, w[2])
    BY <1>1, <1>2 DEF WindowFits
  <1>4. stamp[e] \in Int /\ Length(schedule) \in Int
    BY <1>2, LengthType, WindowsAssumption DEF JobsTyped
  <1>5. /\ stamp[e] >= v[2] - Length(schedule) /\ stamp[e] < v[2]
        /\ stamp[e] >= w[2] - Length(schedule) /\ stamp[e] < w[2]
    BY <1>1, <1>4 DEF Stamped
  <1>6. ~(v[2] < w[2]) /\ ~(w[2] < v[2])
    BY <1>1, <1>2, <1>3, <1>4, <1>5, CutoffsApart
  <1>7. v[2] = w[2]
    BY <1>1, <1>6
  <1>8. QED
    BY <1>1, <1>7

LEMMA JobsInitInv == JobsInit => JobsInv
  <1> SUFFICES ASSUME JobsInit PROVE JobsInv
    OBVIOUS
  <1>1. /\ now = 0 /\ job_runs = {} /\ closed = {} /\ schedule \in Schedules
        /\ \A e \in Events : stamp[e] = -1 /\ written[e] = -1 /\ reports[e] = 0
        /\ \A r \in Replicas : firing[r] = NotFiring
        /\ DOMAIN told = {} /\ missed = {}
    BY DEF JobsInit, EmptyBag, SetToBag
  <1>2. JobsTyped
    <2>1. NotFiring \in FiringDoc
      BY DEF NotFiring, FiringDoc, Counted
    <2>2. IsABag(told) /\ BagToSet(told) = {}
      BY DEF JobsInit, EmptyBag, SetToBag, IsABag, BagToSet
    <2>3. stamp \in [Events -> -1 .. now] /\ written \in [Events -> -1 .. now]
      BY DEF JobsInit
    <2>4. 0 \in 0 .. JobTime
      BY JobsAssumption
    <2>5. firing \in [Replicas -> FiringDoc] /\ reports \in [Events -> Nat]
      BY <2>1 DEF JobsInit
    <2>6. QED
      BY <1>1, <2>2, <2>3, <2>4, <2>5 DEF JobsTyped
  <1>3. \A r \in Replicas : firing[r].pc = "idle"
    BY <1>1 DEF NotFiring
  <1>4. WindowsFit /\ Claimed /\ ToldOfClaims
    BY <1>1, <1>3 DEF WindowsFit, Claimed, ToldOfClaims, Runs, Untold
  <1>5. \A r \in Replicas, e \in Events : FoundBy(r, e)
    BY <1>3 DEF FoundBy, Heard
  <1>6. \A e \in Events : CountedOf(e)
    BY <1>1 DEF CountedOf, Heard
  <1>7. QED
    BY <1>1, <1>2, <1>4, <1>5, <1>6 DEF JobsInv

-----------------------------------------------------------------------------
\* A change that begins has not been written, so that nothing counts it yet.
LEMMA BeginKeeps == ASSUME JobsInv, NEW e \in Events, Begin(e) PROVE JobsInv'
  <1>1. /\ JobsTyped /\ \A d \in Events : written[d] # -1 => stamp[d] # -1
        /\ WindowsFit /\ Claimed /\ ToldOfClaims
        /\ \A r \in Replicas, d \in Events : FoundBy(r, d)
        /\ \A d \in Events : CountedOf(d)
    BY DEF JobsInv
  <1>2. /\ stamp[e] = -1 /\ stamp' = [stamp EXCEPT ![e] = now]
        /\ UNCHANGED <<schedule, now, written, job_runs, firing, told, missed, reports, closed, deaths>>
    BY DEF Begin
  <1>3. written[e] = -1 /\ \A d \in Events : written[d] # -1 => stamp'[d] = stamp[d]
    BY <1>1, <1>2 DEF JobsTyped
  <1>4. JobsTyped'
    <2>1. now \in -1 .. now
      BY <1>1, JobsAssumption DEF JobsTyped
    <2>2. QED
      BY <1>1, <1>2, <2>1 DEF JobsTyped
  <1>5. (\A d \in Events : written[d] # -1 => stamp[d] # -1)'
    BY <1>1, <1>2, <1>3
  <1>6. WindowsFit' /\ Claimed' /\ ToldOfClaims'
    BY <1>1, <1>2 DEF WindowsFit, WindowFits, AtCutoff, Claimed, ToldOfClaims, Untold, Runs, Window
  <1>7. \A w : \A d \in Events : written[d] # -1 => (Stamped(d, w)' <=> Stamped(d, w))
    BY <1>2, <1>3 DEF Stamped
  <1>8. \A w : \A d \in Events : InTime(d, w)' <=> InTime(d, w)
    BY <1>2, <1>3, <1>7 DEF InTime
  <1>9. ASSUME NEW r \in Replicas, NEW d \in Events PROVE FoundBy(r, d)'
    <2>1. FoundBy(r, d) /\ Window(r)' = Window(r)
      BY <1>1, <1>2 DEF Window
    <2>2. InTime(d, Window(r))' <=> InTime(d, Window(r))
      BY <1>2, <1>3, <2>1 DEF InTime, Stamped
    <2>3. written[d] # -1 => (Stamped(d, Window(r))' <=> Stamped(d, Window(r)))
      BY <1>2, <1>3, <2>1 DEF Stamped
    <2>4. QED
      BY <1>2, <2>1, <2>2, <2>3 DEF FoundBy, Heard
  <1>10. ASSUME NEW d \in Events PROVE CountedOf(d)'
    BY <1>1, <1>2, <1>3, <1>7, <1>8 DEF CountedOf, Heard
  <1>11. QED
    BY <1>4, <1>5, <1>6, <1>9, <1>10 DEF JobsInv

\* What is written now is in time for no window that is over.
LEMMA WriteEventKeeps == ASSUME JobsInv, NEW e \in Events, WriteEvent(e) PROVE JobsInv'
  <1>1. /\ JobsTyped /\ \A d \in Events : written[d] # -1 => stamp[d] # -1
        /\ WindowsFit /\ Claimed /\ ToldOfClaims
        /\ \A r \in Replicas, d \in Events : FoundBy(r, d)
        /\ \A d \in Events : CountedOf(d)
    BY DEF JobsInv
  <1>2. /\ stamp[e] # -1 /\ written[e] = -1 /\ written' = [written EXCEPT ![e] = now]
        /\ UNCHANGED <<schedule, now, stamp, job_runs, firing, told, missed, reports, closed, deaths>>
    BY DEF WriteEvent
  <1>3. \A d \in Events : d # e => written'[d] = written[d]
    BY <1>1, <1>2 DEF JobsTyped
  <1>4. JobsTyped'
    <2>1. now \in -1 .. now
      BY <1>1, JobsAssumption DEF JobsTyped
    <2>2. QED
      BY <1>1, <1>2, <2>1 DEF JobsTyped
  <1>5. written'[e] = now /\ now \in Nat /\ now # -1
    BY <1>1, <1>2, JobsAssumption DEF JobsTyped
  <1>6. (\A d \in Events : written[d] # -1 => stamp[d] # -1)'
    BY <1>1, <1>2, <1>3
  <1>7. WindowsFit' /\ Claimed' /\ ToldOfClaims'
    BY <1>1, <1>2 DEF WindowsFit, WindowFits, AtCutoff, Claimed, ToldOfClaims, Untold, Runs, Window
  <1>8. \A w : \A d \in Events : WindowFits(w) /\ InTime(d, w)' => InTime(d, w)
    <2> SUFFICES ASSUME NEW d \in Events, NEW w, WindowFits(w), InTime(d, w)' PROVE InTime(d, w)
      OBVIOUS
    <2>1. Stamped(d, w) /\ w[2] \in Int
      BY <1>2 DEF InTime, Stamped, WindowFits, Windows
    <2>2. w[1] # "reminder"
      BY <2>1 DEF Stamped, Counted
    <2>3. w[2] <= now
      BY <2>2 DEF WindowFits
    <2>4. d # e
      BY <2>1, <2>3, <1>5 DEF InTime
    <2>5. QED
      BY <2>1, <2>4, <1>3 DEF InTime
  <1>9. ASSUME NEW r \in Replicas, NEW d \in Events PROVE FoundBy(r, d)'
    <2> SUFFICES ASSUME firing[r].pc = "send" PROVE FoundBy(r, d)'
      BY <1>2 DEF FoundBy, Heard
    <2>1. FoundBy(r, d) /\ Window(r)' = Window(r) /\ WindowFits(Window(r))
      BY <1>1, <1>2 DEF Window, WindowsFit
    <2>2. Stamped(d, Window(r))' <=> Stamped(d, Window(r))
      BY <1>2, <2>1 DEF Stamped
    <2>3. InTime(d, Window(r))' => InTime(d, Window(r))
      <3>1. \A w : w = Window(r) => (InTime(d, w)' => InTime(d, w))
        BY <1>8, <2>1
      <3>2. PICK w : w = Window(r)
        OBVIOUS
      <3>3. InTime(d, Window(r))' => InTime(d, w)'
        BY <3>2, <2>1 DEF InTime, Stamped
      <3>4. QED
        BY <3>1, <3>2, <3>3
    <2>4. written[d] # -1 => written'[d] # -1
      BY <1>2, <1>3
    <2>5. QED
      BY <1>2, <2>1, <2>2, <2>3, <2>4 DEF FoundBy, Heard
  <1>10. ASSUME NEW d \in Events PROVE CountedOf(d)'
    <2>1. CountedOf(d) /\ \A w \in closed : WindowFits(w)
      BY <1>1 DEF WindowsFit, JobsTyped
    <2>2. \A w : Stamped(d, w)' <=> Stamped(d, w)
      BY <1>2 DEF Stamped
    <2>3. written[d] # -1 => written'[d] # -1
      BY <1>2, <1>3
    <2>4. QED
      BY <1>2, <1>8, <2>1, <2>2, <2>3 DEF CountedOf, Heard
  <1>11. QED
    BY <1>4, <1>6, <1>7, <1>9, <1>10 DEF JobsInv

\* The clock goes on.
LEMMA PassKeeps == ASSUME JobsInv, Pass PROVE JobsInv'
  <1>1. /\ JobsTyped /\ \A d \in Events : written[d] # -1 => stamp[d] # -1
        /\ WindowsFit /\ Claimed /\ ToldOfClaims
        /\ \A r \in Replicas, d \in Events : FoundBy(r, d)
        /\ \A d \in Events : CountedOf(d)
    BY DEF JobsInv
  <1>2. /\ now < JobTime /\ now' = now + 1
        /\ UNCHANGED <<schedule, stamp, written, job_runs, firing, told, missed, reports, closed, deaths>>
    BY DEF Pass
  <1>3. now \in Nat /\ now' \in 0 .. JobTime /\ -1 .. now \subseteq -1 .. now'
    BY <1>1, <1>2, JobsAssumption DEF JobsTyped
  <1>4. JobsTyped'
    <2>1. stamp' \in [Events -> -1 .. now'] /\ written' \in [Events -> -1 .. now']
      BY <1>1, <1>2, <1>3 DEF JobsTyped
    <2>2. QED
      BY <1>1, <1>2, <1>3, <2>1 DEF JobsTyped
  <1>5. \A w : WindowFits(w) => WindowFits(w)'
    BY <1>2, <1>3 DEF WindowFits, AtCutoff, Windows
  <1>6. WindowsFit'
    <2>1. \A r \in Replicas : Window(r)' = Window(r)
      BY <1>2 DEF Window
    <2>2. ASSUME NEW r \in Replicas, firing[r].pc # "idle" PROVE WindowFits(Window(r))'
      <3>1. PICK w : w = Window(r)
        OBVIOUS
      <3>2. WindowFits(w)'
        BY <1>1, <1>5, <2>2, <3>1 DEF WindowsFit
      <3>3. QED
        BY <3>1, <3>2, <2>1 DEF WindowFits, AtCutoff, Windows
    <2>3. \A w \in job_runs : WindowFits(w)'
      BY <1>1, <1>5 DEF WindowsFit
    <2>4. QED
      BY <1>2, <2>2, <2>3 DEF WindowsFit
  <1>7. Claimed' /\ ToldOfClaims'
    BY <1>1, <1>2 DEF Claimed, ToldOfClaims, Untold, Runs, Window
  <1>8. \A r \in Replicas, d \in Events : FoundBy(r, d)'
    BY <1>1, <1>2 DEF FoundBy, Heard, InTime, Stamped, Window
  <1>9. \A d \in Events : CountedOf(d)'
    BY <1>1, <1>2 DEF CountedOf, Heard, InTime, Stamped
  <1>10. QED
    BY <1>1, <1>2, <1>4, <1>6, <1>7, <1>8, <1>9 DEF JobsInv

-----------------------------------------------------------------------------
\* What is known of the firings but the one a step is about, and of the
\* changes, holds after it if the step leaves the messages, claims and counts.
LEMMA FiringOnly ==
    ASSUME JobsInv, NEW r \in Replicas, NEW q \in FiringDoc,
           firing' = [firing EXCEPT ![r] = q],
           UNCHANGED <<schedule, now, stamp, written, told, reports>>, missed \subseteq missed'
    PROVE  /\ firing' \in [Replicas -> FiringDoc] /\ firing'[r] = q
           /\ \A s \in Replicas \ {r} :
                /\ firing'[s] = firing[s] /\ Window(s)' = Window(s) /\ Runs(s)' = Runs(s)
                /\ \A t \in Tribes : Untold(s, t)'
                /\ \A d \in Events : FoundBy(s, d)'
           /\ Window(r)' = <<q.job, q.end>> /\ Runs(r)' = (q.pc \in {"read", "send"})
           /\ \A w : WindowFits(w)' <=> WindowFits(w)
           /\ \A w : \A d \in Events : (Stamped(d, w)' <=> Stamped(d, w)) /\ (InTime(d, w)' <=> InTime(d, w))
  <1>1. JobsTyped /\ ToldOfClaims /\ \A s \in Replicas, d \in Events : FoundBy(s, d)
    BY DEF JobsInv
  <1>2. firing' \in [Replicas -> FiringDoc] /\ firing'[r] = q /\ \A s \in Replicas \ {r} : firing'[s] = firing[s]
    BY <1>1 DEF JobsTyped
  <1>3. ASSUME NEW s \in Replicas \ {r}
        PROVE  /\ firing'[s] = firing[s] /\ Window(s)' = Window(s) /\ Runs(s)' = Runs(s)
               /\ \A t \in Tribes : Untold(s, t)'
               /\ \A d \in Events : FoundBy(s, d)'
    <2>1. firing'[s] = firing[s]
      BY <1>2
    <2>2. Window(s)' = Window(s) /\ Runs(s)' = Runs(s)
      BY <2>1 DEF Window, Runs
    <2>3. \A t \in Tribes : Untold(s, t)'
      BY <1>1, <2>1 DEF ToldOfClaims, Untold, Window
    <2>4. \A d \in Events : FoundBy(s, d)'
      BY <1>1, <2>1 DEF FoundBy, Heard, InTime, Stamped, Window
    <2>5. QED
      BY <2>1, <2>2, <2>3, <2>4
  <1>4. Window(r)' = <<q.job, q.end>> /\ Runs(r)' = (q.pc \in {"read", "send"})
    BY <1>2 DEF Window, Runs
  <1>5. \A w : WindowFits(w)' <=> WindowFits(w)
    BY DEF WindowFits, AtCutoff, Windows
  <1>6. \A w : \A d \in Events : (Stamped(d, w)' <=> Stamped(d, w)) /\ (InTime(d, w)' <=> InTime(d, w))
    BY DEF Stamped, InTime
  <1>7. QED
    BY <1>2, <1>3, <1>4, <1>5, <1>6

\* A firing that is not running, or no more, knows nothing that could be wrong.
LEMMA Resting ==
    ASSUME JobsInv, NEW r \in Replicas, NEW q \in FiringDoc, q.pc \in {"idle", "claim"},
           q.pc # "idle" => WindowFits(<<q.job, q.end>>),
           firing' = [firing EXCEPT ![r] = q],
           UNCHANGED <<schedule, now, stamp, written, job_runs, told, missed, reports, closed>>
    PROVE  JobsInv'
  <1>1. /\ JobsTyped /\ \A d \in Events : written[d] # -1 => stamp[d] # -1
        /\ WindowsFit /\ Claimed /\ ToldOfClaims
        /\ \A d \in Events : CountedOf(d)
    BY DEF JobsInv
  <1> DEFINE Others == Replicas \ {r}
  <1>2. /\ firing' \in [Replicas -> FiringDoc] /\ firing'[r] = q
        /\ \A s \in Others :
                /\ firing'[s] = firing[s] /\ Window(s)' = Window(s) /\ Runs(s)' = Runs(s)
                /\ \A t \in Tribes : Untold(s, t)'
                /\ \A d \in Events : FoundBy(s, d)'
        /\ Window(r)' = <<q.job, q.end>> /\ Runs(r)' = (q.pc \in {"read", "send"})
        /\ \A w : WindowFits(w)' <=> WindowFits(w)
        /\ \A w : \A d \in Events : (Stamped(d, w)' <=> Stamped(d, w)) /\ (InTime(d, w)' <=> InTime(d, w))
    BY FiringOnly
  <1>3. ~Runs(r)'
    BY <1>2
  <1>4. JobsTyped'
    BY <1>1, <1>2 DEF JobsTyped
  <1>5. WindowsFit'
    <2>1. ASSUME NEW s \in Replicas, firing'[s].pc # "idle" PROVE WindowFits(Window(s))'
      <3>1. PICK w : w = Window(s)'
        OBVIOUS
      <3>2. WindowFits(w)
        BY <1>1, <1>2, <2>1, <3>1 DEF WindowsFit
      <3>3. WindowFits(w)'
        BY <1>2, <3>2
      <3>4. QED
        BY <3>1, <3>3 DEF WindowFits, AtCutoff, Windows
    <2>2. \A w \in job_runs' : WindowFits(w)'
      BY <1>1, <1>2 DEF WindowsFit
    <2>3. QED
      BY <2>1, <2>2 DEF WindowsFit
  <1>6. Claimed'
    <2>1. \A s \in Replicas : Runs(s)' => s \in Others
      BY <1>3
    <2>2. QED
      BY <1>1, <1>2, <2>1 DEF Claimed
  <1>7. ToldOfClaims'
    <2>1. \A t \in Tribes : Untold(r, t)'
      BY <1>2 DEF Untold
    <2>2. \A s \in Replicas, t \in Tribes : Untold(s, t)'
      BY <1>2, <2>1
    <2>3. QED
      BY <1>1, <2>2 DEF ToldOfClaims
  <1>8. \A s \in Replicas, d \in Events : FoundBy(s, d)'
    <2>1. \A d \in Events : FoundBy(r, d)'
      BY <1>2 DEF FoundBy, Heard
    <2>2. QED
      BY <1>2, <2>1
  <1>9. \A d \in Events : CountedOf(d)'
    BY <1>1, <1>2 DEF CountedOf, Heard
  <1>10. QED
    BY <1>1, <1>4, <1>5, <1>6, <1>7, <1>8, <1>9 DEF JobsInv

LEMMA IdleDoc == NotFiring \in FiringDoc /\ NotFiring.pc = "idle"
  BY DEF NotFiring, FiringDoc, Counted

LEMMA DieKeeps == ASSUME JobsInv, NEW r \in Replicas, Die(r) PROVE JobsInv'
  BY IdleDoc, Resting DEF Die

\* A job fires when its window has just ended, or for reminders before it has.
LEMMA FireKeeps == ASSUME JobsInv, NEW r \in Replicas, Fire(r) PROVE JobsInv'
  <1> DEFINE q == [NotFiring EXCEPT !.pc = "claim", !.job = schedule, !.end = WindowOf(schedule, now)]
  <1>1. JobsTyped /\ schedule \in DOMAIN Counted /\ now \in Nat
    BY JobsAssumption DEF JobsInv, JobsTyped
  <1>2. /\ Due(schedule) /\ WindowOf(schedule, now) <= JobTime
        /\ firing' = [firing EXCEPT ![r] = q]
        /\ UNCHANGED <<schedule, now, stamp, written, job_runs, told, missed, reports, closed>>
    BY DEF Fire
  <1>3. /\ WindowOf(schedule, now) \in Nat
        /\ schedule # "reminder" => AtCutoff(schedule, WindowOf(schedule, now)) /\ WindowOf(schedule, now) <= now
    BY <1>1, <1>2, DueNow
  <1>4. q.pc = "claim" /\ q.job = schedule /\ q.end = WindowOf(schedule, now) /\ q \in FiringDoc
    <2>1. NotFiring \in FiringDoc
      BY IdleDoc
    <2>2. WindowOf(schedule, now) \in Int
      BY <1>3
    <2>3. \A n \in FiringDoc, e \in Int :
             LET p == [n EXCEPT !.pc = "claim", !.job = schedule, !.end = e] IN
             p.pc = "claim" /\ p.job = schedule /\ p.end = e /\ p \in FiringDoc
      BY <1>1 DEF FiringDoc
    <2>4. QED
      BY <2>1, <2>2, <2>3
  <1>5. <<q.job, q.end>> \in Windows
    <2>1. WEEK * DAY \in Nat /\ JobTime \in Nat
      BY LengthType, JobsAssumption
    <2>2. WindowOf(schedule, now) \in -(WEEK * DAY) .. JobTime
      BY <2>1, <1>2, <1>3
    <2>3. QED
      BY <1>1, <1>4, <2>2 DEF Windows, JobsTyped
  <1> HIDE DEF q
  <1>6. WindowFits(<<q.job, q.end>>)
    BY <1>3, <1>4, <1>5 DEF WindowFits
  <1>7. QED
    BY <1>2, <1>4, <1>6, Resting

-----------------------------------------------------------------------------
\* The one that claims its window has it to itself; nothing was said of it yet.
LEMMA ClaimKeeps == ASSUME JobsInv, NEW r \in Replicas, claimJobWindow(r) PROVE JobsInv'
  <1>1. /\ JobsTyped /\ \A d \in Events : written[d] # -1 => stamp[d] # -1
        /\ WindowsFit /\ Claimed /\ ToldOfClaims
        /\ \A d \in Events : CountedOf(d)
    BY DEF JobsInv
  <1>2. /\ firing[r].pc = "claim" /\ job_runs' = job_runs \cup {Window(r)}
        /\ UNCHANGED <<schedule, now, stamp, written, told, missed, reports, closed, deaths>>
        /\ firing' = [firing EXCEPT ![r] =
              IF Window(r) \in job_runs THEN NotFiring ELSE [firing[r] EXCEPT !.pc = "read"]]
    BY DEF claimJobWindow
  <1>3. CASE Window(r) \in job_runs
    <2>1. job_runs' = job_runs /\ firing' = [firing EXCEPT ![r] = NotFiring]
      BY <1>2, <1>3
    <2>2. QED
      BY <2>1, <1>2, IdleDoc, Resting
  <1>4. CASE Window(r) \notin job_runs
    <2> DEFINE q == [firing[r] EXCEPT !.pc = "read"]
               Others == Replicas \ {r}
    <2>1. firing[r] \in FiringDoc
      BY <1>1 DEF JobsTyped
    <2>2. q \in FiringDoc /\ q.pc = "read" /\ <<q.job, q.end>> = Window(r)
      BY <2>1 DEF FiringDoc, Window
    <2>3. firing' = [firing EXCEPT ![r] = q]
      BY <1>2, <1>4
    <2> HIDE DEF q
    <2>4. /\ firing' \in [Replicas -> FiringDoc] /\ firing'[r] = q
          /\ \A s \in Others :
                /\ firing'[s] = firing[s] /\ Window(s)' = Window(s) /\ Runs(s)' = Runs(s)
                /\ \A t \in Tribes : Untold(s, t)'
                /\ \A d \in Events : FoundBy(s, d)'
          /\ Window(r)' = <<q.job, q.end>>
          /\ \A w : WindowFits(w)' <=> WindowFits(w)
          /\ \A w : \A d \in Events : (Stamped(d, w)' <=> Stamped(d, w)) /\ (InTime(d, w)' <=> InTime(d, w))
      BY <1>2, <2>2, <2>3, FiringOnly
    <2>5. Window(r)' = Window(r) /\ WindowFits(Window(r)) /\ Window(r) \in Windows
      BY <1>1, <1>2, <2>2, <2>4 DEF WindowsFit, WindowFits
    <2>6. JobsTyped'
      BY <1>1, <1>2, <2>4, <2>5 DEF JobsTyped
    <2>7. WindowsFit'
      <3>1. ASSUME NEW s \in Replicas, firing'[s].pc # "idle" PROVE WindowFits(Window(s))'
        <4>1. PICK w : w = Window(s)'
          OBVIOUS
        <4>2. WindowFits(w)
          BY <1>1, <2>4, <2>5, <3>1, <4>1 DEF WindowsFit
        <4>3. WindowFits(w)'
          BY <2>4, <4>2
        <4>4. QED
          BY <4>1, <4>3 DEF WindowFits, AtCutoff, Windows
      <3>2. \A w \in job_runs' : WindowFits(w)'
        BY <1>1, <1>2, <2>4, <2>5 DEF WindowsFit
      <3>3. QED
        BY <3>1, <3>2 DEF WindowsFit
    <2>8. Claimed'
      <3>1. Window(r) \notin closed
        BY <1>1, <1>4 DEF JobsTyped
      <3>2. \A s \in Others : Runs(s)' => Window(s)' \in job_runs /\ Window(s)' \notin closed
        BY <1>1, <2>4 DEF Claimed
      <3>3. \A s \in Others : Runs(s)' => Window(s)' # Window(r)'
        BY <3>2, <2>5, <1>4
      <3>4. \A s, p \in Others : Runs(s)' /\ Runs(p)' /\ Window(s)' = Window(p)' => s = p
        BY <1>1, <2>4 DEF Claimed
      <3>5. QED
        BY <1>2, <2>5, <3>1, <3>2, <3>3, <3>4 DEF Claimed
    <2>9. ToldOfClaims'
      <3>1. \A t \in Tribes : <<Window(r), t>> \notin DOMAIN told
        BY <1>1, <1>4 DEF ToldOfClaims
      <3>2. \A t \in Tribes : Untold(r, t)'
        BY <1>2, <2>5, <3>1 DEF Untold
      <3>3. \A s \in Replicas, t \in Tribes : Untold(s, t)'
        BY <2>4, <3>2
      <3>4. QED
        BY <1>1, <1>2, <3>3 DEF ToldOfClaims
    <2>10. \A s \in Replicas, d \in Events : FoundBy(s, d)'
      <3>1. \A d \in Events : FoundBy(r, d)'
        BY <2>2, <2>4 DEF FoundBy, Heard
      <3>2. QED
        BY <2>4, <3>1
    <2>11. \A d \in Events : CountedOf(d)'
      BY <1>1, <1>2, <2>4 DEF CountedOf, Heard
    <2>12. QED
      BY <1>1, <1>2, <2>6, <2>7, <2>8, <2>9, <2>10, <2>11 DEF JobsInv
  <1>5. QED
    BY <1>3, <1>4

\* A report finds what is in time: for a window that counts, all of it, since
\* the window is over.
LEMMA BuildKeeps == ASSUME JobsInv, NEW r \in Replicas, buildReports(r) PROVE JobsInv'
  <1>1. /\ JobsTyped /\ \A d \in Events : written[d] # -1 => stamp[d] # -1
        /\ WindowsFit /\ Claimed /\ ToldOfClaims
        /\ \A d \in Events : CountedOf(d)
    BY DEF JobsInv
  <1> DEFINE found == {e \in Events : InWindow(e, firing[r])}
             whom == IF firing[r].job = "reminder" THEN Tribes ELSE {TribeOf[e] : e \in found}
             q == [firing[r] EXCEPT !.pc = "send", !.left = whom, !.found = found]
             Others == Replicas \ {r}
  <1>2. /\ firing[r].pc = "read"
        /\ UNCHANGED <<schedule, now, stamp, written, job_runs, told, missed, reports, closed, deaths>>
    BY DEF buildReports
  <1>3. firing[r] \in FiringDoc /\ found \subseteq Events /\ whom \subseteq Tribes
    BY <1>1 DEF JobsTyped, Tribes
  <1>4. firing' = [firing EXCEPT ![r] = q]
    BY <1>1, <1>3 DEF buildReports, JobsTyped, FiringDoc
  <1> HIDE DEF found, whom
  <1>5. q \in FiringDoc /\ q.pc = "send" /\ q.left = whom /\ q.found = found /\ <<q.job, q.end>> = Window(r)
    BY <1>3 DEF FiringDoc, Window
  <1> HIDE DEF q
  <1>6. /\ firing' \in [Replicas -> FiringDoc] /\ firing'[r] = q
        /\ \A s \in Others :
                /\ firing'[s] = firing[s] /\ Window(s)' = Window(s) /\ Runs(s)' = Runs(s)
                /\ \A t \in Tribes : Untold(s, t)'
                /\ \A d \in Events : FoundBy(s, d)'
        /\ Window(r)' = <<q.job, q.end>> /\ Runs(r)' = (q.pc \in {"read", "send"})
        /\ \A w : WindowFits(w)' <=> WindowFits(w)
        /\ \A w : \A d \in Events : (Stamped(d, w)' <=> Stamped(d, w)) /\ (InTime(d, w)' <=> InTime(d, w))
    BY <1>2, <1>4, <1>5, FiringOnly
  <1>7. Window(r)' = Window(r) /\ Runs(r) /\ Runs(r)' /\ \A s \in Replicas : Window(s)' = Window(s) /\ Runs(s)' = Runs(s)
    BY <1>2, <1>5, <1>6 DEF Runs
  <1>8. JobsTyped'
    BY <1>1, <1>2, <1>6 DEF JobsTyped
  <1>9. WindowsFit'
    <2>1. ASSUME NEW s \in Replicas, firing'[s].pc # "idle" PROVE WindowFits(Window(s))'
      <3>1. PICK w : w = Window(s)'
        OBVIOUS
      <3>2. WindowFits(w)
        BY <1>1, <1>2, <1>6, <1>7, <2>1, <3>1 DEF WindowsFit
      <3>3. WindowFits(w)'
        BY <1>6, <3>2
      <3>4. QED
        BY <3>1, <3>3 DEF WindowFits, AtCutoff, Windows
    <2>2. \A w \in job_runs' : WindowFits(w)'
      BY <1>1, <1>2, <1>6 DEF WindowsFit
    <2>3. QED
      BY <2>1, <2>2 DEF WindowsFit
  <1>10. Claimed'
    BY <1>1, <1>2, <1>7 DEF Claimed
  <1>11. ToldOfClaims'
    <2>1. \A t \in Tribes : <<Window(r), t>> \notin DOMAIN told
      BY <1>1, <1>2 DEF ToldOfClaims, Untold
    <2>2. \A t \in Tribes : Untold(r, t)'
      BY <1>2, <1>7, <2>1 DEF Untold
    <2>3. \A s \in Replicas, t \in Tribes : Untold(s, t)'
      BY <1>6, <2>2
    <2>4. QED
      BY <1>1, <1>2, <2>3 DEF ToldOfClaims
  <1>12. ASSUME NEW d \in Events PROVE FoundBy(r, d)'
    <2>1. d \in found <=> Stamped(d, Window(r)) /\ written[d] # -1
      BY DEF found, InWindow, Stamped, Window
    <2>2. PICK w : w = Window(r)
      OBVIOUS
    <2>3. InTime(d, Window(r))' => Stamped(d, w)'
      BY <1>7, <2>2 DEF InTime, Stamped
    <2>4. InTime(d, Window(r))' => d \in found
      BY <1>2, <1>6, <2>1, <2>2, <2>3 DEF InTime
    <2>5. d \in found => Stamped(d, Window(r))' /\ written'[d] # -1
      <3>1. Stamped(d, w)' => Stamped(d, Window(r))'
        BY <1>7, <2>2 DEF Stamped
      <3>2. QED
        BY <1>2, <1>6, <2>1, <2>2, <3>1
    <2>6. d \in found => TribeOf[d] \in whom
      BY DEF whom, Tribes
    <2>7. QED
      BY <1>5, <1>6, <2>4, <2>5, <2>6 DEF FoundBy, Heard
  <1>13. \A s \in Replicas, d \in Events : FoundBy(s, d)'
    BY <1>6, <1>12
  <1>14. \A d \in Events : CountedOf(d)'
    BY <1>1, <1>2, <1>6 DEF CountedOf, Heard
  <1>15. QED
    BY <1>1, <1>2, <1>8, <1>9, <1>10, <1>11, <1>13, <1>14 DEF JobsInv

\* A message to a tribe that had none of this window: what it counts was in no
\* other, since no change belongs to two windows.
LEMMA ToldKeeps ==
    ASSUME JobsInv, NEW r \in Replicas, NEW t \in Tribes, SendReport(r, t), Told(r, t)
    PROVE  JobsInv'
  <1>1. /\ JobsTyped /\ \A d \in Events : written[d] # -1 => stamp[d] # -1
        /\ WindowsFit /\ Claimed /\ ToldOfClaims
        /\ \A s \in Replicas, d \in Events : FoundBy(s, d)
        /\ \A d \in Events : CountedOf(d)
    BY DEF JobsInv
  <1> DEFINE q == [firing[r] EXCEPT !.left = firing[r].left \ {t}]
             x == <<Window(r), t>>
             found == firing[r].found
             Others == Replicas \ {r}
  <1>2. /\ firing[r].pc = "send" /\ t \in firing[r].left
        /\ told' = told (+) SetToBag({x})
        /\ reports' = [e \in Events |-> IF e \in found /\ TribeOf[e] = t THEN reports[e] + 1 ELSE reports[e]]
        /\ UNCHANGED <<schedule, now, stamp, written, job_runs, closed, deaths>>
        /\ missed' = missed \/ missed' = missed \cup {x}
    BY DEF SendReport, Told, Missed
  <1>3. firing[r] \in FiringDoc
    BY <1>1 DEF JobsTyped
  <1>4. firing' = [firing EXCEPT ![r] = q]
    BY <1>1, <1>3 DEF SendReport, JobsTyped, FiringDoc
  <1>5. /\ q \in FiringDoc /\ q.pc = "send" /\ q.left = firing[r].left \ {t} /\ q.found = found
        /\ <<q.job, q.end>> = Window(r)
    BY <1>2, <1>3 DEF FiringDoc, Window
  <1> HIDE DEF q
  <1>6. firing' \in [Replicas -> FiringDoc] /\ firing'[r] = q /\ \A s \in Others : firing'[s] = firing[s]
    BY <1>1, <1>4, <1>5 DEF JobsTyped
  <1>7. \A s \in Replicas : Window(s)' = Window(s) /\ firing'[s].pc = firing[s].pc /\ (Runs(s)' <=> Runs(s))
                            /\ firing'[s].found = firing[s].found
    BY <1>2, <1>5, <1>6 DEF Window, Runs
  <1>8. x \notin DOMAIN told /\ Runs(r) /\ Window(r) \in job_runs /\ WindowFits(Window(r)) /\ Window(r) \in Windows
    BY <1>1, <1>2 DEF ToldOfClaims, Untold, Runs, Claimed, WindowsFit, WindowFits
  <1>9. DOMAIN told' = DOMAIN told \cup {x} /\ told'[x] = 1 /\ \A y \in DOMAIN told : told'[y] = told[y]
    <2>1. \A y \in DOMAIN told : told[y] \in Nat
      BY <1>1 DEF JobsTyped, IsABag
    <2> HIDE DEF x
    <2>2. told' = [y \in DOMAIN told \cup {x} |-> (IF y \in DOMAIN told THEN told[y] ELSE 0)
                                                  + (IF y \in {x} THEN 1 ELSE 0)]
      BY <1>2 DEF SetToBag, (+)
    <2>3. QED
      BY <1>8, <2>1, <2>2
  <1>10. \A e \in Events : /\ reports[e] \in Nat
                           /\ e \in found /\ TribeOf[e] = t => reports'[e] = reports[e] + 1
                           /\ ~(e \in found /\ TribeOf[e] = t) => reports'[e] = reports[e]
    BY <1>1, <1>2 DEF JobsTyped
  <1>11. JobsTyped'
    <2>1. IsABag(told)' /\ BagToSet(told)' \subseteq Windows \X Tribes
      <3>1. x \in Windows \X Tribes
        BY <1>8
      <3>2. told' = [y \in DOMAIN told' |-> told'[y]]
        BY <1>2 DEF SetToBag, (+)
      <3>3. \A y \in DOMAIN told : told[y] \in {n \in Nat : n > 0}
        BY <1>1 DEF JobsTyped, IsABag
      <3>4. \A y \in DOMAIN told' : told'[y] \in {n \in Nat : n > 0}
        BY <1>9, <3>3
      <3>5. IsABag(told)'
        BY <3>2, <3>4 DEF IsABag
      <3>6. QED
        BY <1>1, <1>9, <3>1, <3>5 DEF JobsTyped, BagToSet
    <2>2. reports' \in [Events -> Nat]
      BY <1>2, <1>10
    <2>3. missed' \subseteq Windows \X Tribes
      BY <1>1, <1>2, <1>8 DEF JobsTyped
    <2>4. QED
      BY <1>1, <1>2, <1>6, <2>1, <2>2, <2>3 DEF JobsTyped
  <1>12. \A w : WindowFits(w)' <=> WindowFits(w)
    BY <1>2 DEF WindowFits, AtCutoff, Windows
  <1>13. \A w : \A d \in Events : (Stamped(d, w)' <=> Stamped(d, w)) /\ (InTime(d, w)' <=> InTime(d, w))
    BY <1>2 DEF Stamped, InTime
  <1>14. WindowsFit'
    <2>1. ASSUME NEW s \in Replicas, firing'[s].pc # "idle" PROVE WindowFits(Window(s))'
      <3>1. PICK w : w = Window(s)'
        OBVIOUS
      <3>2. WindowFits(w)
        BY <1>1, <1>7, <2>1, <3>1 DEF WindowsFit
      <3>3. WindowFits(w)'
        BY <1>12, <3>2
      <3>4. QED
        BY <3>1, <3>3 DEF WindowFits, AtCutoff, Windows
    <2>2. \A w \in job_runs' : WindowFits(w)'
      BY <1>1, <1>2, <1>12 DEF WindowsFit
    <2>3. QED
      BY <2>1, <2>2 DEF WindowsFit
  <1>15. Claimed'
    BY <1>1, <1>2, <1>7 DEF Claimed
  <1>16. ToldOfClaims'
    <2>1. ASSUME NEW s \in Others, NEW u \in Tribes PROVE Untold(s, u)'
      <3>1. firing'[s] = firing[s] /\ Window(s)' = Window(s) /\ Untold(s, u)
        BY <1>1, <1>6, <1>7 DEF ToldOfClaims
      <3>2. Runs(s) => Window(s) # Window(r)
        BY <1>1, <1>8 DEF Claimed
      <3>3. Runs(s) => <<Window(s), u>> # x
        BY <3>2
      <3>4. QED
        BY <3>1, <3>3, <1>9 DEF Untold, Runs
    <2>2. ASSUME NEW u \in Tribes PROVE Untold(r, u)'
      <3>1. Untold(r, u) /\ Window(r)' = Window(r)
        BY <1>1, <1>7 DEF ToldOfClaims
      <3>2. u # t => <<Window(r), u>> # x
        OBVIOUS
      <3>3. QED
        BY <3>1, <3>2, <1>2, <1>5, <1>6, <1>9 DEF Untold
    <2>3. \A s \in Replicas, u \in Tribes : Untold(s, u)'
      BY <2>1, <2>2
    <2>4. \A y \in DOMAIN told' : y[1] \in job_runs' /\ told'[y] = 1
      <3>1. x[1] = Window(r)
        OBVIOUS
      <3> HIDE DEF x
      <3>2. \A y \in DOMAIN told' : y \in DOMAIN told \/ y = x
        BY <1>9
      <3>3. QED
        BY <1>1, <1>2, <1>8, <1>9, <3>1, <3>2 DEF ToldOfClaims
    <2>5. QED
      BY <2>3, <2>4 DEF ToldOfClaims
  <1>17. ASSUME NEW d \in Events, d \in found, TribeOf[d] = t
         PROVE  reports[d] = 0 /\ Stamped(d, Window(r)) /\ written[d] # -1
    <2>1. Stamped(d, Window(r)) /\ written[d] # -1
      BY <1>1, <1>2, <1>17 DEF FoundBy, Heard
    <2>2. SUFFICES ASSUME reports[d] # 0 PROVE FALSE
      BY <2>1
    <2>3. CountedOf(d) /\ reports[d] \in Nat
      BY <1>1, <1>10
    <2>4. reports[d] = 1
      BY <2>2, <2>3 DEF CountedOf, Heard
    <2>5. PICK w \in job_runs : Stamped(d, w) /\ <<w, TribeOf[d]>> \in DOMAIN told
      BY <2>3, <2>4 DEF CountedOf, Heard
    <2>6. WindowFits(w)
      BY <1>1 DEF WindowsFit
    <2>7. w = Window(r)
      BY <1>1, <1>8, <2>1, <2>5, <2>6, OneWindow
    <2>8. QED
      BY <2>5, <2>7, <1>8, <1>17
  <1>18. ASSUME NEW s \in Replicas, NEW d \in Events PROVE FoundBy(s, d)'
    <2>1. FoundBy(s, d) /\ Window(s)' = Window(s) /\ firing'[s].pc = firing[s].pc
          /\ firing'[s].found = firing[s].found
      BY <1>1, <1>7
    <2>2. Stamped(d, Window(s))' <=> Stamped(d, Window(s))
      BY <1>2, <2>1 DEF Stamped
    <2>3. InTime(d, Window(s))' <=> InTime(d, Window(s))
      BY <1>2, <2>1, <2>2 DEF InTime
    <2>4. reports[d] \in Nat /\ reports'[d] >= reports[d]
      BY <1>10
    <2>5. Heard(d, Window(s)) => Heard(d, Window(s))'
      <3>1. missed \subseteq missed'
        BY <1>2
      <3>2. reports[d] >= 1 => reports'[d] >= 1
        BY <2>4, <1>10
      <3>3. QED
        BY <3>1, <3>2, <2>1 DEF Heard
    <2>6. CASE s # r
      BY <1>2, <1>6, <2>1, <2>2, <2>3, <2>5, <2>6 DEF FoundBy
    <2>7. CASE s = r
      <3>1. d \in found /\ TribeOf[d] = t => Heard(d, Window(s))'
        BY <1>10 DEF Heard
      <3>2. d \in found /\ TribeOf[d] \notin q.left => Heard(d, Window(s))'
        BY <1>2, <1>5, <2>1, <2>5, <2>7, <3>1 DEF FoundBy
      <3>3. QED
        BY <1>2, <1>6, <2>1, <2>2, <2>3, <2>7, <3>2 DEF FoundBy
    <2>8. QED
      BY <2>6, <2>7
  <1>19. ASSUME NEW d \in Events PROVE CountedOf(d)'
    <2>1. CountedOf(d) /\ reports[d] \in Nat
      BY <1>1, <1>10
    <2>0. \A w : Heard(d, w) => Heard(d, w)'
      BY <1>2, <1>10, <2>1 DEF Heard
    <2>2. CASE d \in found /\ TribeOf[d] = t
      <3>1. reports'[d] = 1 /\ Stamped(d, Window(r)) /\ written[d] # -1
        BY <1>10, <1>17, <2>2
      <3>2. \E w \in job_runs : Stamped(d, w) /\ <<w, TribeOf[d]>> \in DOMAIN told'
        BY <1>8, <1>9, <2>2, <3>1
      <3>3. QED
        BY <1>2, <1>13, <3>1, <3>2 DEF CountedOf, Heard
    <2>3. CASE ~(d \in found /\ TribeOf[d] = t)
      <3>1. reports'[d] = reports[d]
        BY <1>10, <2>3
      <3>2. reports[d] = 1 => \E w \in job_runs : Stamped(d, w) /\ <<w, TribeOf[d]>> \in DOMAIN told'
        BY <1>9, <2>1 DEF CountedOf, Heard
      <3>3. QED
        BY <1>2, <1>13, <2>0, <2>1, <3>1, <3>2 DEF CountedOf
    <2>4. QED
      BY <2>2, <2>3
  <1>20. QED
    BY <1>1, <1>2, <1>11, <1>14, <1>15, <1>16, <1>18, <1>19 DEF JobsInv

\* A message that is logged as skipped or failed: its tribe is left out.
LEMMA MissedKeeps ==
    ASSUME JobsInv, NEW r \in Replicas, NEW t \in Tribes, SendReport(r, t),
           Missed(r, t), UNCHANGED <<told, reports>>
    PROVE  JobsInv'
  <1>1. /\ JobsTyped /\ \A d \in Events : written[d] # -1 => stamp[d] # -1
        /\ WindowsFit /\ Claimed /\ ToldOfClaims
        /\ \A s \in Replicas, d \in Events : FoundBy(s, d)
        /\ \A d \in Events : CountedOf(d)
    BY DEF JobsInv
  <1> DEFINE q == [firing[r] EXCEPT !.left = firing[r].left \ {t}]
             Others == Replicas \ {r}
  <1>2. /\ firing[r].pc = "send" /\ t \in firing[r].left
        /\ UNCHANGED <<schedule, now, stamp, written, job_runs, told, reports, closed, deaths>>
        /\ missed' = missed \cup {<<Window(r), t>>}
    BY DEF SendReport, Missed
  <1>3. firing[r] \in FiringDoc
    BY <1>1 DEF JobsTyped
  <1>4. firing' = [firing EXCEPT ![r] = q]
    BY <1>1, <1>3 DEF SendReport, JobsTyped, FiringDoc
  <1>5. /\ q \in FiringDoc /\ q.pc = "send" /\ q.left = firing[r].left \ {t}
        /\ q.found = firing[r].found /\ <<q.job, q.end>> = Window(r)
    BY <1>2, <1>3 DEF FiringDoc, Window
  <1> HIDE DEF q
  <1>6. /\ firing' \in [Replicas -> FiringDoc] /\ firing'[r] = q
        /\ \A s \in Others :
                /\ firing'[s] = firing[s] /\ Window(s)' = Window(s) /\ Runs(s)' = Runs(s)
                /\ \A u \in Tribes : Untold(s, u)'
                /\ \A d \in Events : FoundBy(s, d)'
        /\ Window(r)' = <<q.job, q.end>> /\ Runs(r)' = (q.pc \in {"read", "send"})
        /\ \A w : WindowFits(w)' <=> WindowFits(w)
        /\ \A w : \A d \in Events : (Stamped(d, w)' <=> Stamped(d, w)) /\ (InTime(d, w)' <=> InTime(d, w))
    BY <1>2, <1>4, <1>5, FiringOnly
  <1>7. /\ Window(r)' = Window(r) /\ Runs(r)
        /\ \A s \in Replicas : Window(s)' = Window(s) /\ Runs(s)' = Runs(s) /\ firing'[s].pc = firing[s].pc
    BY <1>2, <1>5, <1>6 DEF Runs
  <1>8. JobsTyped'
    <2>1. Window(r) \in Windows
      BY <1>1, <1>2 DEF WindowsFit, WindowFits
    <2>2. QED
      BY <1>1, <1>2, <1>6, <2>1 DEF JobsTyped
  <1>9. WindowsFit'
    <2>1. ASSUME NEW s \in Replicas, firing'[s].pc # "idle" PROVE WindowFits(Window(s))'
      <3>1. PICK w : w = Window(s)'
        OBVIOUS
      <3>2. WindowFits(w)
        BY <1>1, <1>7, <2>1, <3>1 DEF WindowsFit
      <3>3. WindowFits(w)'
        BY <1>6, <3>2
      <3>4. QED
        BY <3>1, <3>3 DEF WindowFits, AtCutoff, Windows
    <2>2. \A w \in job_runs' : WindowFits(w)'
      BY <1>1, <1>2, <1>6 DEF WindowsFit
    <2>3. QED
      BY <2>1, <2>2 DEF WindowsFit
  <1>10. Claimed'
    BY <1>1, <1>2, <1>7 DEF Claimed
  <1>11. ToldOfClaims'
    <2>1. \A u \in Tribes : Untold(r, u)'
      BY <1>1, <1>2, <1>5, <1>6, <1>7 DEF ToldOfClaims, Untold
    <2>2. \A s \in Replicas, u \in Tribes : Untold(s, u)'
      BY <1>6, <2>1
    <2>3. QED
      BY <1>1, <1>2, <2>2 DEF ToldOfClaims
  <1>12. ASSUME NEW d \in Events PROVE FoundBy(r, d)'
    <2>1. FoundBy(r, d)
      BY <1>1
    <2>2. Stamped(d, Window(r))' <=> Stamped(d, Window(r))
      BY <1>2, <1>7 DEF Stamped
    <2>3. InTime(d, Window(r))' <=> InTime(d, Window(r))
      BY <1>2, <1>7, <2>2 DEF InTime
    <2>4. TribeOf[d] = t => Heard(d, Window(r))'
      BY <1>2, <1>7 DEF Heard
    <2>5. Heard(d, Window(r)) => Heard(d, Window(r))'
      BY <1>2, <1>7 DEF Heard
    <2>6. QED
      BY <1>2, <1>5, <1>6, <2>1, <2>2, <2>3, <2>4, <2>5 DEF FoundBy
  <1>13. \A s \in Replicas, d \in Events : FoundBy(s, d)'
    BY <1>6, <1>12
  <1>14. \A d \in Events : CountedOf(d)'
    BY <1>1, <1>2, <1>6 DEF CountedOf, Heard
  <1>15. QED
    BY <1>1, <1>2, <1>8, <1>9, <1>10, <1>11, <1>13, <1>14 DEF JobsInv

LEMMA SendKeeps == ASSUME JobsInv, NEW r \in Replicas, NEW t \in Tribes, SendReport(r, t) PROVE JobsInv'
  BY ToldKeeps, MissedKeeps DEF SendReport

\* A run that has nobody left to tell has counted all that was in time.
LEMMA FinishKeeps == ASSUME JobsInv, NEW r \in Replicas, FinishRun(r) PROVE JobsInv'
  <1>1. /\ JobsTyped /\ \A d \in Events : written[d] # -1 => stamp[d] # -1
        /\ WindowsFit /\ Claimed /\ ToldOfClaims
        /\ \A s \in Replicas, d \in Events : FoundBy(s, d)
        /\ \A d \in Events : CountedOf(d)
    BY DEF JobsInv
  <1> DEFINE Others == Replicas \ {r}
  <1>2. /\ firing[r].pc = "send" /\ firing[r].left = {}
        /\ closed' = closed \cup {Window(r)}
        /\ firing' = [firing EXCEPT ![r] = NotFiring]
        /\ UNCHANGED <<schedule, now, stamp, written, job_runs, told, missed, reports, deaths>>
    BY DEF FinishRun
  <1>3. NotFiring \in FiringDoc /\ NotFiring.pc = "idle"
    BY IdleDoc
  <1>4. /\ firing' \in [Replicas -> FiringDoc] /\ firing'[r] = NotFiring
        /\ \A s \in Others :
                /\ firing'[s] = firing[s] /\ Window(s)' = Window(s) /\ Runs(s)' = Runs(s)
                /\ \A t \in Tribes : Untold(s, t)'
                /\ \A d \in Events : FoundBy(s, d)'
        /\ \A w : WindowFits(w)' <=> WindowFits(w)
        /\ \A w : \A d \in Events : (Stamped(d, w)' <=> Stamped(d, w)) /\ (InTime(d, w)' <=> InTime(d, w))
    BY <1>2, <1>3, FiringOnly
  <1>5. Runs(r) /\ Window(r) \in job_runs /\ ~Runs(r)'
    BY <1>1, <1>2, <1>3, <1>4 DEF Claimed, Runs
  <1>6. JobsTyped'
    BY <1>1, <1>2, <1>4, <1>5 DEF JobsTyped
  <1>7. WindowsFit'
    <2>1. ASSUME NEW s \in Replicas, firing'[s].pc # "idle" PROVE WindowFits(Window(s))'
      <3>1. PICK w : w = Window(s)'
        OBVIOUS
      <3>2. WindowFits(w)
        BY <1>1, <1>3, <1>4, <2>1, <3>1 DEF WindowsFit
      <3>3. WindowFits(w)'
        BY <1>4, <3>2
      <3>4. QED
        BY <3>1, <3>3 DEF WindowFits, AtCutoff, Windows
    <2>2. \A w \in job_runs' : WindowFits(w)'
      BY <1>1, <1>2, <1>4 DEF WindowsFit
    <2>3. QED
      BY <2>1, <2>2 DEF WindowsFit
  <1>8. Claimed'
    <2>1. \A s \in Others : Runs(s)' => Window(s)' \in job_runs /\ Window(s)' \notin closed /\ Window(s)' # Window(r)
      BY <1>1, <1>4, <1>5 DEF Claimed
    <2>2. \A s, p \in Others : Runs(s)' /\ Runs(p)' /\ Window(s)' = Window(p)' => s = p
      BY <1>1, <1>4 DEF Claimed
    <2>3. \A s \in Replicas : Runs(s)' => s \in Others
      BY <1>5
    <2>4. QED
      BY <1>2, <2>1, <2>2, <2>3 DEF Claimed
  <1>9. ToldOfClaims'
    <2>1. \A t \in Tribes : Untold(r, t)'
      BY <1>3, <1>4 DEF Untold
    <2>2. \A s \in Replicas, t \in Tribes : Untold(s, t)'
      BY <1>4, <2>1
    <2>3. QED
      BY <1>1, <1>2, <2>2 DEF ToldOfClaims
  <1>10. \A s \in Replicas, d \in Events : FoundBy(s, d)'
    <2>1. \A d \in Events : FoundBy(r, d)'
      BY <1>3, <1>4 DEF FoundBy, Heard
    <2>2. QED
      BY <1>4, <2>1
  <1>11. ASSUME NEW d \in Events PROVE CountedOf(d)'
    <2>1. CountedOf(d) /\ FoundBy(r, d) /\ reports[d] \in Nat
      BY <1>1 DEF JobsTyped
    <2>2. InTime(d, Window(r)) => Heard(d, Window(r))
      BY <2>1, <1>2 DEF FoundBy
    <2>3. \A w \in closed' : InTime(d, w) => Heard(d, w)
      BY <1>2, <2>1, <2>2 DEF CountedOf, Heard
    <2>4. QED
      BY <1>2, <1>4, <2>1, <2>3 DEF CountedOf, Heard
  <1>12. QED
    BY <1>1, <1>2, <1>6, <1>7, <1>8, <1>9, <1>10, <1>11 DEF JobsInv

-----------------------------------------------------------------------------
LEMMA JobsStepInv == JobsInv /\ [JobsNext]_jobVars => JobsInv'
  <1> SUFFICES ASSUME JobsInv, [JobsNext]_jobVars PROVE JobsInv'
    OBVIOUS
  <1>1. ASSUME NEW e \in Events, Begin(e) \/ WriteEvent(e) PROVE JobsInv'
    BY <1>1, BeginKeeps, WriteEventKeeps
  <1>2. ASSUME NEW r \in Replicas, Fire(r) \/ Die(r) PROVE JobsInv'
    BY <1>2, FireKeeps, DieKeeps
  <1>3. ASSUME NEW r \in Replicas, claimJobWindow(r) PROVE JobsInv'
    BY <1>3, ClaimKeeps
  <1>4. ASSUME NEW r \in Replicas, buildReports(r) PROVE JobsInv'
    BY <1>4, BuildKeeps
  <1>5. ASSUME NEW r \in Replicas, NEW t \in Tribes, SendReport(r, t) PROVE JobsInv'
    BY <1>5, SendKeeps
  <1>6. ASSUME NEW r \in Replicas, FinishRun(r) PROVE JobsInv'
    BY <1>6, FinishKeeps
  <1>7. CASE Pass
    BY <1>7, PassKeeps
  <1>8. CASE UNCHANGED jobVars
    <2>1. JobsTyped'
      BY <1>8 DEF jobVars, JobsInv, JobsTyped
    <2>2. WindowsFit'
      BY <1>8 DEF jobVars, JobsInv, WindowsFit, WindowFits, AtCutoff, Window
    <2>3. Claimed'
      BY <1>8 DEF jobVars, JobsInv, Claimed, Runs, Window
    <2>4. ToldOfClaims'
      BY <1>8 DEF jobVars, JobsInv, ToldOfClaims, Untold, Window
    <2>5. ASSUME NEW r \in Replicas, NEW e \in Events PROVE FoundBy(r, e)'
      BY <1>8 DEF jobVars, JobsInv, FoundBy, Heard, InTime, Stamped, Window
    <2>6. ASSUME NEW e \in Events PROVE CountedOf(e)'
      BY <1>8 DEF jobVars, JobsInv, CountedOf, Heard, InTime, Stamped
    <2>7. ASSUME NEW e \in Events PROVE (written[e] # -1 => stamp[e] # -1)'
      BY <1>8 DEF jobVars, JobsInv
    <2>8. QED
      BY <2>1, <2>2, <2>3, <2>4, <2>5, <2>6, <2>7 DEF JobsInv
  <1>9. QED
    BY <1>1, <1>2, <1>3, <1>4, <1>5, <1>6, <1>7, <1>8 DEF JobsNext

LEMMA JobsInvAlways == JobsSpec => []JobsInv
  BY JobsInitInv, JobsStepInv, PTL DEF JobsSpec

\* A tribe gets at most one message per window and no change is counted twice;
\* once the run of its window ends, one that was in time has been counted, or the
\* message of its tribe is logged as skipped or failed: for any windows, replicas,
\* changes, failures and deaths (claimJobWindow, buildReports, run's catch).
THEOREM ReportedOnceAlways == JobsSpec => []ReportedOnce
  <1>1. JobsInv => ReportedOnce
    <2> SUFFICES ASSUME JobsInv PROVE ReportedOnce
      OBVIOUS
    <2>1. ToldOncePerWindow
      BY DEF JobsInv, ToldOfClaims, ToldOncePerWindow, BagToSet
    <2>2. CountedInOneWindow
      <3>1. \A e \in Events : CountedOf(e) /\ reports[e] \in Nat
        BY DEF JobsInv, JobsTyped
      <3>2. \A e \in Events, w \in closed : Covers(w, e) /\ written[e] < w[2] => InTime(e, w)
        BY DEF Covers, InTime, Stamped
      <3>3. \A e \in Events : reports[e] >= 1 => reports[e] = 1
        BY <3>1 DEF CountedOf
      <3>4. QED
        <4>1. ASSUME NEW e \in Events, NEW w \in closed, Covers(w, e), written[e] < w[2]
              PROVE  SeenOrMissed(e, w)
          <5>1. Heard(e, w)
            BY <3>1, <3>2, <4>1 DEF CountedOf
          <5>2. QED
            BY <3>3, <5>1 DEF Heard, SeenOrMissed
        <4>2. \A e \in Events : reports[e] <= 1
          BY <3>1 DEF CountedOf
        <4>3. QED
          BY <4>1, <4>2 DEF CountedInOneWindow
    <2>3. QED
      BY <2>1, <2>2 DEF ReportedOnce
  <1>2. QED
    BY <1>1, JobsInvAlways, PTL

\* The claims, the runs under way, the messages and the counts keep their types.
THEOREM JobsTypeCorrect == JobsSpec => []JobsTypeOK
  <1>1. JobsInv => JobsTypeOK
    BY DEF JobsInv, JobsTyped, JobsTypeOK, FiringDoc
  <1>2. QED
    BY <1>1, JobsInvAlways, PTL

-----------------------------------------------------------------------------
(***************************************************************************)
(* Kits and their campaigns.                                               *)
(***************************************************************************)
\* Documents and requests have their types.
Statuses == {"ACTIVE", "STOPPED"}
KitDoc == [exists : BOOLEAN, items : SUBSET KitProducts, price : Prices \cup {NoPrice},
           active : BOOLEAN, deleted : BOOLEAN]
CampaignDoc == [exists : BOOLEAN, kit : Kits \cup {NoKit}, price : Prices \cup {NoPrice},
                products : SUBSET KitProducts, status : Statuses]
Fields == [exists : BOOLEAN, kit : Kits \cup {NoKit, Keep}, price : Prices \cup {NoPrice, Keep},
           products : (SUBSET KitProducts) \cup {Keep}, status : Statuses \cup {Keep}]
ClerkPc == {"idle", "active", "prices", "save", "sync", "remove", "asked", "load", "write"}
ClerkDoc == [pc : ClerkPc, kit : Kits \cup {NoKit}, camp : Campaigns \cup {NoKit},
             items : SUBSET KitProducts, live : SUBSET KitProducts,
             price : Prices \cup {NoPrice, Keep}, active : {TRUE, FALSE, Keep}, was : KitDoc,
             had : CampaignDoc, status : Statuses \cup {Keep}, left : SUBSET Campaigns,
             set : Fields]

\* A request has what its next step needs: a kit, a campaign, a price.
Placed(q) ==
    /\ q.pc \in {"active", "prices", "save", "sync", "remove", "load"} => q.kit \in Kits
    /\ q.pc \in {"active", "prices", "save"} => q.price # Keep
    /\ q.pc \in {"asked", "load", "write"} => q.camp \in Campaigns

KitTyped ==
    /\ live \subseteq KitProducts /\ torn \subseteq Kits
    /\ kit \in [Kits -> KitDoc] /\ campaign \in [Campaigns -> CampaignDoc]
    /\ clerk \in [Clerks -> ClerkDoc] /\ \A w \in Clerks : Placed(clerk[w])

\* What campaign document d owes kit document k, with the products L there are.
Clears(d, k, L) == AtLeast(IF d.price = NoPrice THEN k.price ELSE d.price, minPrice(k.items \cap L))
Follows(d, k, L) == d.products \subseteq k.items /\ d.products \cap L = k.items \cap L
Stands(d, k) == d.exists /\ k.exists /\ (k.deleted => d.status = "STOPPED")

\* What holds of every campaign, whatever clerk's record q is under way.
Syncs(q, k) == q.pc = "sync" /\ q.kit = k
LinkFits(d, q) ==
    d.kit # NoKit =>
        /\ Stands(d, kit[d.kit])
        /\ d.kit \notin torn => Clears(d, kit[d.kit], live)
        /\ d.kit \notin torn /\ ~Syncs(q, d.kit) => Follows(d, kit[d.kit], live)

\* The campaign as the request will have written it.
Written(d, set) == [f \in DOMAIN d |-> Given(set[f], d[f])]
Owes(d) ==
    d.kit # NoKit =>
        /\ Stands(d, kit[d.kit])
        /\ d.kit \notin torn => Clears(d, kit[d.kit], live)
        /\ Follows(d, kit[d.kit], live)

\* What the clerk with record q knows at each step.
KnowsEdit(q) ==
    kit[q.kit].exists /\ q.live = q.items \cap live /\ AtLeast(q.price, minPrice(q.live))
KnowsSave(q) ==
    KnowsEdit(q) /\ \A c \in Campaigns : campaign[c].kit = q.kit => AtLeast(campaign[c].price, minPrice(q.live))
KnowsSync(q) ==
    /\ kit[q.kit].exists /\ q.live = kit[q.kit].items \cap live
    /\ \A c \in Campaigns : campaign[c].kit = q.kit =>
          Clears(campaign[c], kit[q.kit], live) /\ (c \in q.left \/ campaign[c].products = q.live)
KnowsRemove(q) ==
    \A c \in Campaigns : campaign[c].kit = q.kit => campaign[c].status = "STOPPED"
KnowsLoad(q) == q.had = campaign[q.camp]
KnowsWrite(q) == Owes(Written(campaign[q.camp], q.set))
Knows(q) ==
    /\ q.pc \in {"active", "prices"} => KnowsEdit(q)
    /\ q.pc = "save" => KnowsSave(q)
    /\ q.pc = "sync" => KnowsSync(q)
    /\ q.pc = "remove" => KnowsRemove(q)
    /\ q.pc = "load" => KnowsLoad(q)
    /\ q.pc = "write" => KnowsWrite(q)

\* A clerk who is the only one at work.
AloneAt(w) == \A v \in Clerks \ {w} : clerk[v].pc = "idle"
Ready(q) == Knows(q) /\ \A c \in Campaigns : LinkFits(campaign[c], q)
ShelfInv ==
    \E q \in ClerkDoc :
        /\ \A w \in Clerks : clerk[w].pc # "idle" => clerk[w] = q /\ AloneAt(w)
        /\ q.pc # "idle" => \E w \in Clerks : clerk[w] = q
        /\ Ready(q)

KitInv == KitTyped /\ (oneClerk => ShelfInv)

-----------------------------------------------------------------------------
\* Types.
LEMMA IdleTyped ==
    /\ Idle \in ClerkDoc /\ Idle.pc = "idle" /\ Placed(Idle) /\ NewKit \in KitDoc /\ NewCampaign \in CampaignDoc
  <1>1. NewKit \in KitDoc
    BY DEF NewKit, KitDoc
  <1>2. NewCampaign \in CampaignDoc
    BY DEF NewCampaign, CampaignDoc, Statuses
  <1>3. NewCampaign \in Fields
    BY DEF NewCampaign, Fields, Statuses
  <1>4. Idle \in ClerkDoc
    BY <1>1, <1>2, <1>3 DEF Idle, ClerkDoc, ClerkPc
  <1>5. Idle.pc = "idle" /\ Placed(Idle)
    BY DEF Idle, Placed
  <1>6. QED
    BY <1>1, <1>2, <1>4, <1>5

LEMMA PriceFacts ==
    ASSUME NEW P \in SUBSET KitProducts
    PROVE  minPrice(P) \in Nat /\ \A Q \in SUBSET P : minPrice(Q) <= minPrice(P)
  <1>1. IsFiniteSet(P) /\ \A p \in P : Cost[p] \in Nat
    BY KitAssumption, FS_Subset
  <1>2. \A Q \in SUBSET P : minPrice(Q) <= minPrice(P)
    BY <1>1, SumGrows DEF minPrice
  <1>3. minPrice(P) \in Nat
    BY <1>1, SumType DEF minPrice
  <1>4. QED
    BY <1>2, <1>3

\* What a request writes to a campaign.
LEMMA WrittenTyped ==
    ASSUME NEW d \in CampaignDoc, NEW s \in Fields
    PROVE  /\ Written(d, s) \in CampaignDoc
           /\ Written(d, s).kit = Given(s.kit, d.kit) /\ Written(d, s).price = Given(s.price, d.price)
           /\ Written(d, s).products = Given(s.products, d.products)
           /\ Written(d, s).status = Given(s.status, d.status)
           /\ Written(d, s).exists = Given(s.exists, d.exists)
  <1>1. DOMAIN d = {"exists", "kit", "price", "products", "status"}
    BY DEF CampaignDoc
  <1>2. /\ Written(d, s).kit = Given(s.kit, d.kit) /\ Written(d, s).price = Given(s.price, d.price)
        /\ Written(d, s).products = Given(s.products, d.products)
        /\ Written(d, s).status = Given(s.status, d.status)
        /\ Written(d, s).exists = Given(s.exists, d.exists)
    BY <1>1 DEF Written
  <1>3. Given(s.kit, d.kit) \in Kits \cup {NoKit}
    BY DEF Given, Fields, CampaignDoc
  <1>4. Given(s.price, d.price) \in Prices \cup {NoPrice}
    BY DEF Given, Fields, CampaignDoc
  <1>5. Given(s.products, d.products) \in SUBSET KitProducts
    BY DEF Given, Fields, CampaignDoc
  <1>6. Given(s.status, d.status) \in Statuses
    BY DEF Given, Fields, CampaignDoc
  <1>7. Given(s.exists, d.exists) \in BOOLEAN
    <2>1. s.exists \in BOOLEAN /\ d.exists \in BOOLEAN
      BY Zenon DEF Fields, CampaignDoc
    <2>2. QED
      BY <2>1, Zenon DEF Given
  <1>8. Written(d, s) = [exists |-> Given(s.exists, d.exists), kit |-> Given(s.kit, d.kit),
                         price |-> Given(s.price, d.price), products |-> Given(s.products, d.products),
                         status |-> Given(s.status, d.status)]
    BY <1>1 DEF Written
  <1>9. Written(d, s) \in CampaignDoc
    BY <1>3, <1>4, <1>5, <1>6, <1>7, <1>8 DEF CampaignDoc
  <1>10. QED
    BY <1>2, <1>9

LEMMA KitInitInv == KitInit => KitInv
  <1> SUFFICES ASSUME KitInit PROVE KitInv
    OBVIOUS
  <1>1. KitTyped
    BY IdleTyped DEF KitInit, KitTyped
  <1>2. \A c \in Campaigns : campaign[c].kit = NoKit
    BY DEF KitInit, NewCampaign
  <1>3. ShelfInv
    <2>1. \A w \in Clerks : clerk[w].pc = "idle"
      BY IdleTyped DEF KitInit
    <2>2. Knows(Idle)
      BY IdleTyped DEF Knows
    <2>3. \A c \in Campaigns : LinkFits(campaign[c], Idle)
      BY <1>2 DEF LinkFits
    <2>4. QED
      BY <2>1, <2>2, <2>3, IdleTyped DEF ShelfInv, Ready
  <1>4. QED
    BY <1>1, <1>3 DEF KitInv

-----------------------------------------------------------------------------
\* Who is at work, and what he knows.
LEMMA AtWork ==
    ASSUME KitInv, oneClerk, NEW w \in Clerks, clerk[w].pc # "idle"
    PROVE  AloneAt(w) /\ Ready(clerk[w])
  BY DEF KitInv, ShelfInv

LEMMA Unsynced ==
    ASSUME NEW p, NEW q, p.pc # "sync", q.pc # "sync", NEW d, LinkFits(d, p)
    PROVE  LinkFits(d, q)
  BY DEF LinkFits, Syncs

LEMMA AtRest ==
    ASSUME KitInv, oneClerk, AllIdle
    PROVE  \A c \in Campaigns : LinkFits(campaign[c], Idle)
  <1>1. PICK q \in ClerkDoc : Ready(q) /\ (q.pc # "idle" => \E w \in Clerks : clerk[w] = q)
    BY DEF KitInv, ShelfInv
  <1>2. q.pc = "idle"
    BY <1>1 DEF AllIdle
  <1>3. QED
    BY <1>1, <1>2, IdleTyped, Unsynced DEF Ready

LEMMA StartsAlone ==
    ASSUME NEW w \in Clerks, oneClerk, MayStart(w)
    PROVE  AllIdle /\ AloneAt(w) /\ clerk[w].pc = "idle"
  BY DEF MayStart, AllIdle, AloneAt

\* The state after a clerk's step, from what he then knows.
LEMMA ClerkMoves ==
    ASSUME KitTyped, NEW w \in Clerks, NEW q \in ClerkDoc, Placed(q), clerk' = [clerk EXCEPT ![w] = q]
    PROVE  /\ clerk' \in [Clerks -> ClerkDoc] /\ clerk'[w] = q
           /\ \A v \in Clerks \ {w} : clerk'[v] = clerk[v]
           /\ \A v \in Clerks : Placed(clerk'[v])
  <1>1. clerk' \in [Clerks -> ClerkDoc] /\ clerk'[w] = q /\ \A v \in Clerks \ {w} : clerk'[v] = clerk[v]
    BY DEF KitTyped
  <1>2. \A v \in Clerks : Placed(clerk'[v])
    BY <1>1 DEF KitTyped
  <1>3. QED
    BY <1>1, <1>2

LEMMA ShelfAgain ==
    ASSUME KitTyped, NEW w \in Clerks, NEW q \in ClerkDoc, Placed(q), clerk' = [clerk EXCEPT ![w] = q],
           AloneAt(w), Ready(q)'
    PROVE  ShelfInv'
  <1>1. clerk'[w] = q /\ \A v \in Clerks \ {w} : clerk'[v].pc = "idle"
    BY ClerkMoves DEF AloneAt
  <1>2. \A v \in Clerks : clerk'[v].pc # "idle" => clerk'[v] = q /\ AloneAt(v)'
    BY <1>1 DEF AloneAt
  <1>3. QED
    BY <1>1, <1>2 DEF ShelfInv

\* A step that reads or decides.
LEMMA Proceeds ==
    ASSUME KitInv, NEW w \in Clerks, NEW q \in ClerkDoc, Placed(q), clerk' = [clerk EXCEPT ![w] = q],
           UNCHANGED <<live, kit, campaign, torn, oneClerk>>,
           oneClerk => AloneAt(w) /\ Ready(q)
    PROVE  KitInv'
  <1>1. KitTyped'
    BY ClerkMoves DEF KitInv, KitTyped
  <1>2. ASSUME oneClerk PROVE ShelfInv'
    <2>1. Ready(q)'
      BY <1>2 DEF Ready, Knows, KnowsEdit, KnowsSave, KnowsSync, KnowsRemove, KnowsLoad, KnowsWrite,
                  LinkFits, Owes, Stands, Clears, Follows
    <2>2. QED
      BY <1>2, <2>1, ShelfAgain DEF KitInv
  <1>3. QED
    BY <1>1, <1>2 DEF KitInv

LEMMA IdleReady ==
    ASSUME NEW p, p.pc # "sync", Ready(p)
    PROVE  Ready(Idle)
  BY IdleTyped, Unsynced DEF Ready, Knows

LEMMA EndsKeeps ==
    ASSUME KitInv, NEW w \in Clerks, clerk[w].pc \notin {"idle", "sync"}, Ends(w),
           UNCHANGED <<live, kit, campaign, torn, oneClerk>>
    PROVE  KitInv'
  <1>1. oneClerk => AloneAt(w) /\ Ready(Idle)
    <2>1. PICK p : p = clerk[w]
      OBVIOUS
    <2>2. QED
      BY <2>1, AtWork, IdleReady
  <1>2. PICK q \in ClerkDoc : q = Idle
    BY IdleTyped
  <1>3. clerk' = [clerk EXCEPT ![w] = q] /\ Placed(q)
    BY <1>2, IdleTyped DEF Ends
  <1>4. QED
    BY <1>1, <1>2, <1>3, Proceeds

\* A kit is edited: what was read holds until it is saved.
LEMMA BeginKitEditKeeps == ASSUME KitInv, NEW w \in Clerks, BeginKitEdit(w) PROVE KitInv'
  <1>t. KitTyped
    BY DEF KitInv
  <1> DEFINE Edits(k, i, p, a) ==
               [Idle EXCEPT !.pc = "active", !.kit = k, !.items = i, !.live = i \cap live, !.price = p,
                            !.active = a, !.was = kit[k]]
  <1>q. PICK k \in Kits, items \in (SUBSET live) \cup {Keep}, price \in Prices \cup {NoPrice, Keep},
             active \in {TRUE, FALSE, Keep} :
         LET its == Given(items, kit[k].items)
             asked == Given(price, kit[k].price)
         IN  /\ kit[k].exists /\ ~kit[k].deleted /\ items # {}
             /\ AtLeast(asked, minPrice(its \cap live))
             /\ clerk' = [clerk EXCEPT ![w] = [Idle EXCEPT !.pc = "active", !.kit = k, !.items = its,
                   !.live = its \cap live, !.price = asked, !.active = active, !.was = kit[k]]]
    BY Zenon DEF BeginKitEdit
  <1>p. /\ kit[k].exists /\ AtLeast(Given(price, kit[k].price), minPrice(Given(items, kit[k].items) \cap live))
        /\ clerk' = [clerk EXCEPT ![w] =
                       Edits(k, Given(items, kit[k].items), Given(price, kit[k].price), active)]
    BY <1>q, Zenon
  <1> HIDE DEF Edits
  <1>s. PICK its : its = Given(items, kit[k].items)
    OBVIOUS
  <1>a. PICK asked : asked = Given(price, kit[k].price)
    OBVIOUS
  <1>1. /\ kit[k].exists /\ AtLeast(asked, minPrice(its \cap live))
        /\ clerk' = [clerk EXCEPT ![w] = Edits(k, its, asked, active)]
    BY <1>p, <1>s, <1>a
  <1>2. MayStart(w) /\ UNCHANGED <<live, kit, campaign, torn, oneClerk>>
    BY DEF BeginKitEdit
  <1>3. /\ kit[k] \in KitDoc /\ its \in SUBSET KitProducts /\ asked \in Prices \cup {NoPrice}
    <2>1. kit[k] \in KitDoc /\ live \subseteq KitProducts
      BY <1>t DEF KitTyped
    <2>2. its \in SUBSET KitProducts
      BY <1>s, <2>1 DEF Given, KitDoc
    <2>3. asked \in Prices \cup {NoPrice}
      BY <1>a, <2>1 DEF Given, KitDoc
    <2>4. QED
      BY <2>1, <2>2, <2>3
  <1>4. PICK q : q = Edits(k, its, asked, active)
    OBVIOUS
  <1>5. /\ q \in ClerkDoc /\ q.pc = "active" /\ q.kit = k /\ q.items = its /\ q.live = its \cap live
        /\ q.price = asked
    <2>1. Idle \in ClerkDoc
      BY IdleTyped
    <2>2. its \cap live \in SUBSET KitProducts
      BY <1>3
    <2>3. QED
      BY <1>3, <1>4, <2>1, <2>2 DEF Edits, ClerkDoc, ClerkPc
  <1>6. Placed(q)
    BY <1>3, <1>5, KitAssumption DEF Placed
  <1>7. oneClerk => AloneAt(w) /\ Ready(q)
    <2> SUFFICES ASSUME oneClerk PROVE AloneAt(w) /\ Ready(q)
      OBVIOUS
    <2>1. AllIdle /\ AloneAt(w)
      BY <1>2, StartsAlone
    <2>2. \A c \in Campaigns : LinkFits(campaign[c], q)
      BY <2>1, <1>5, AtRest, Unsynced, IdleTyped
    <2>3. KnowsEdit(q)
      BY <1>1, <1>5 DEF KnowsEdit
    <2>4. QED
      BY <2>1, <2>2, <2>3, <1>5 DEF Ready, Knows
  <1>8. QED
    BY <1>1, <1>2, <1>4, <1>5, <1>6, <1>7, Proceeds

LEMMA CheckActiveKeeps == ASSUME KitInv, NEW w \in Clerks, CheckActive(w) PROVE KitInv'
  <1>t. KitTyped
    BY DEF KitInv
  <1>1. clerk[w].pc = "active" /\ UNCHANGED <<live, kit, campaign, torn, oneClerk>>
    BY DEF CheckActive
  <1>2. CASE Ends(w)
    BY <1>1, <1>2, EndsKeeps
  <1>3. CASE clerk' = [clerk EXCEPT ![w].pc = "prices", ![w].was = NewKit]
    <2>1. PICK p \in ClerkDoc : p = clerk[w] /\ Placed(p)
      BY <1>t DEF KitTyped
    <2>2. PICK q : q = [p EXCEPT !.pc = "prices", !.was = NewKit]
      OBVIOUS
    <2>3. /\ q \in ClerkDoc /\ q.pc = "prices" /\ q.kit = p.kit /\ q.items = p.items /\ q.live = p.live
          /\ q.price = p.price
      BY <2>2, IdleTyped DEF ClerkDoc, ClerkPc
    <2>4. clerk' = [clerk EXCEPT ![w] = q]
      BY <1>t, <1>3, <2>1, <2>2 DEF KitTyped, ClerkDoc
    <2>5. Placed(q)
      BY <1>1, <2>1, <2>3 DEF Placed
    <2>6. ASSUME oneClerk PROVE AloneAt(w) /\ Ready(q)
      <3>1. AloneAt(w) /\ Ready(p)
        BY <1>1, <2>1, <2>6, AtWork
      <3>2. \A c \in Campaigns : LinkFits(campaign[c], q)
        BY <1>1, <2>1, <2>3, <3>1, Unsynced DEF Ready
      <3>3. KnowsEdit(q)
        BY <1>1, <2>1, <2>3, <3>1 DEF Ready, Knows, KnowsEdit
      <3>4. QED
        BY <2>3, <3>1, <3>2, <3>3 DEF Ready, Knows
    <2>7. QED
      BY <1>1, <2>3, <2>4, <2>5, <2>6, Proceeds
  <1>4. QED
    BY <1>2, <1>3 DEF CheckActive

\* The prices that are looked at are those of all linked campaigns.
LEMMA CheckPricesKeeps == ASSUME KitInv, NEW w \in Clerks, CheckPrices(w) PROVE KitInv'
  <1>t. KitTyped
    BY DEF KitInv
  <1>1. clerk[w].pc = "prices" /\ UNCHANGED <<live, kit, campaign, torn, oneClerk>>
    BY DEF CheckPrices
  <1>2. CASE Ends(w)
    BY <1>1, <1>2, EndsKeeps
  <1>3. CASE /\ \A c \in Linked(clerk[w].kit) : AtLeast(campaign[c].price, minPrice(clerk[w].live))
             /\ clerk' = [clerk EXCEPT ![w].pc = "save"]
    <2>1. PICK p \in ClerkDoc : p = clerk[w] /\ Placed(p)
      BY <1>t DEF KitTyped
    <2>2. PICK q : q = [p EXCEPT !.pc = "save"]
      OBVIOUS
    <2>3. /\ q \in ClerkDoc /\ q.pc = "save" /\ q.kit = p.kit /\ q.items = p.items /\ q.live = p.live
          /\ q.price = p.price
      BY <2>2 DEF ClerkDoc, ClerkPc
    <2>4. clerk' = [clerk EXCEPT ![w] = q]
      BY <1>t, <1>3, <2>1, <2>2 DEF KitTyped, ClerkDoc
    <2>5. Placed(q) /\ p.kit \in Kits
      BY <1>1, <2>1, <2>3 DEF Placed
    <2>6. ASSUME oneClerk PROVE AloneAt(w) /\ Ready(q)
      <3>1. AloneAt(w) /\ Ready(p)
        BY <1>1, <2>1, <2>6, AtWork
      <3>2. \A c \in Campaigns : LinkFits(campaign[c], q)
        BY <1>1, <2>1, <2>3, <3>1, Unsynced DEF Ready
      <3>3. KnowsEdit(q)
        BY <1>1, <2>1, <2>3, <3>1 DEF Ready, Knows, KnowsEdit
      <3>4. \A c \in Campaigns : campaign[c].kit = q.kit => c \in Linked(q.kit)
        BY <2>3, <2>5, <3>2, KitAssumption DEF LinkFits, Stands, Linked
      <3>5. KnowsSave(q)
        BY <1>3, <2>1, <2>3, <3>3, <3>4 DEF KnowsSave
      <3>6. QED
        BY <2>3, <3>1, <3>2, <3>5 DEF Ready, Knows
    <2>7. QED
      BY <1>1, <2>3, <2>4, <2>5, <2>6, Proceeds
  <1>4. QED
    BY <1>2, <1>3 DEF CheckPrices

\* The state with nobody at work, from the links alone.
LEMMA RestsAgain ==
    ASSUME KitTyped, NEW w \in Clerks, Ends(w), AloneAt(w), \A c \in Campaigns : LinkFits(campaign[c], Idle)'
    PROVE  ShelfInv'
  <1>1. PICK q \in ClerkDoc : q = Idle
    BY IdleTyped
  <1>2. clerk' = [clerk EXCEPT ![w] = q] /\ Placed(q) /\ q.pc = "idle"
    BY <1>1, IdleTyped DEF Ends
  <1>3. \A c \in Campaigns : LinkFits(campaign[c], q)'
    BY <1>1
  <1>4. Ready(q)'
    BY <1>2, <1>3 DEF Ready, Knows
  <1>5. QED
    BY <1>2, <1>4, ShelfAgain

LEMMA StillAtRest ==
    ASSUME AllIdle, UNCHANGED clerk, \A c \in Campaigns : LinkFits(campaign[c], Idle)'
    PROVE  ShelfInv'
  <1>1. PICK q \in ClerkDoc : q = Idle
    BY IdleTyped
  <1>2. q.pc = "idle" /\ \A c \in Campaigns : LinkFits(campaign[c], q)'
    BY <1>1, IdleTyped
  <1>3. Ready(q)'
    BY <1>2 DEF Ready, Knows
  <1>4. QED
    BY <1>2, <1>3 DEF ShelfInv, AllIdle

LEMMA EndsTyped ==
    ASSUME KitTyped, NEW w \in Clerks, Ends(w)
    PROVE  clerk' \in [Clerks -> ClerkDoc] /\ \A v \in Clerks : Placed(clerk'[v])
  BY IdleTyped, ClerkMoves DEF Ends

LEMMA CreateKitKeeps == ASSUME KitInv, NEW w \in Clerks, CreateKit(w) PROVE KitInv'
  <1>t. KitTyped
    BY DEF KitInv
  <1>1. PICK k \in Kits, items \in SUBSET live, price \in Prices \cup {NoPrice},
              active \in BOOLEAN :
           /\ ~kit[k].exists
           /\ kit' = [kit EXCEPT ![k] = [NewKit EXCEPT !.exists = TRUE, !.items = items, !.price = price,
                                                        !.active = active]]
    BY Zenon DEF CreateKit
  <1>2. MayStart(w) /\ UNCHANGED <<live, campaign, clerk, torn, oneClerk>>
    BY DEF CreateKit
  <1>3. kit' \in [Kits -> KitDoc] /\ \A l \in Kits \ {k} : kit'[l] = kit[l]
    <2>1. [NewKit EXCEPT !.exists = TRUE, !.items = items, !.price = price, !.active = active] \in KitDoc
      BY <1>t DEF NewKit, KitDoc, KitTyped
    <2>2. QED
      BY <1>1, <1>t, <2>1 DEF KitTyped
  <1>4. KitTyped'
    BY <1>2, <1>3, <1>t DEF KitTyped
  <1>5. ASSUME oneClerk PROVE ShelfInv'
    <2>1. AllIdle
      BY <1>2, <1>5, StartsAlone
    <2>2. \A c \in Campaigns : LinkFits(campaign[c], Idle)
      BY <1>5, <2>1, AtRest
    <2>3. ASSUME NEW c \in Campaigns PROVE LinkFits(campaign[c], Idle)'
      <3>1. campaign[c].kit \in Kits \cup {NoKit}
        BY <1>t DEF KitTyped, CampaignDoc
      <3>2. CASE campaign[c].kit = NoKit
        BY <1>2, <3>2 DEF LinkFits
      <3>3. CASE campaign[c].kit \in Kits /\ campaign[c].kit # NoKit
        <4>1. campaign[c].kit # k
          BY <1>1, <2>2, <3>3 DEF LinkFits, Stands
        <4>2. kit'[campaign[c].kit] = kit[campaign[c].kit]
          BY <1>3, <3>3, <4>1
        <4>3. QED
          BY <1>2, <2>2, <4>2 DEF LinkFits, Syncs
      <3>4. QED
        BY <3>1, <3>2, <3>3
    <2>4. QED
      BY <1>2, <2>1, <2>3, StillAtRest
  <1>6. QED
    BY <1>2, <1>4, <1>5 DEF KitInv

\* The kit is saved: its campaigns clear the new floor, and are to be synced.
LEMMA SaveKitKeeps == ASSUME KitInv, NEW w \in Clerks, SaveKit(w) PROVE KitInv'
  <1>t. KitTyped
    BY DEF KitInv
  <1>1. clerk[w].pc = "save" /\ UNCHANGED <<live, campaign, torn, oneClerk>>
    BY DEF SaveKit
  <1>2. CASE Ends(w) /\ UNCHANGED kit
    BY <1>1, <1>2, EndsKeeps
  <1>3. CASE /\ kit' = [kit EXCEPT ![clerk[w].kit].items = clerk[w].items, ![clerk[w].kit].price = clerk[w].price,
                                   ![clerk[w].kit].active = Given(clerk[w].active, @)]
             /\ clerk' = [clerk EXCEPT ![w] = [Idle EXCEPT !.pc = "sync", !.kit = clerk[w].kit,
                                              !.live = clerk[w].live, !.left = Campaigns]]
    <2>1. PICK p \in ClerkDoc : p = clerk[w] /\ Placed(p)
      BY <1>t DEF KitTyped
    <2>2. p.kit \in Kits /\ p.price \in Prices \cup {NoPrice} /\ p.items \in SUBSET KitProducts
      BY <1>1, <2>1 DEF Placed, ClerkDoc
    <2>3. PICK k \in Kits : k = p.kit
      BY <2>2
    <2>4. PICK q : q = [Idle EXCEPT !.pc = "sync", !.kit = k, !.live = p.live, !.left = Campaigns]
      OBVIOUS
    <2>5. /\ q \in ClerkDoc /\ q.pc = "sync" /\ q.kit = k /\ q.live = p.live /\ q.left = Campaigns
      <3>1. Idle \in ClerkDoc /\ p.live \in SUBSET KitProducts
        BY IdleTyped DEF ClerkDoc
      <3>2. QED
        BY <2>4, <3>1 DEF ClerkDoc, ClerkPc
    <2>6. Placed(q) /\ clerk' = [clerk EXCEPT ![w] = q]
      BY <1>3, <2>1, <2>3, <2>4, <2>5 DEF Placed
    <2>7. PICK d : d = [kit[k] EXCEPT !.items = p.items, !.price = p.price,
                                   !.active = Given(p.active, kit[k].active)]
      OBVIOUS
    <2>8. kit[k] \in KitDoc /\ kit' = [kit EXCEPT ![k] = d]
      <3>1. kit[k] \in KitDoc
        BY <1>t DEF KitTyped
      <3>2. kit' = [kit EXCEPT ![k].items = p.items, ![k].price = p.price,
                               ![k].active = Given(p.active, kit[k].active)]
        BY <1>3, <2>1, <2>3
      <3>3. QED
        BY <1>t, <2>7, <3>1, <3>2 DEF KitTyped, KitDoc
    <2>9. Given(p.active, kit[k].active) \in BOOLEAN
      <3>1. p.active \in {TRUE, FALSE, Keep} /\ kit[k].active \in BOOLEAN
        BY <2>8, Zenon DEF ClerkDoc, KitDoc
      <3>2. QED
        BY <3>1, Zenon DEF Given
    <2>10. d \in KitDoc /\ d.items = p.items /\ d.price = p.price /\ d.exists = kit[k].exists /\ d.deleted = kit[k].deleted
      <3>1. d = [exists |-> kit[k].exists, items |-> p.items, price |-> p.price,
                 active |-> Given(p.active, kit[k].active), deleted |-> kit[k].deleted]
        BY <2>7, <2>8 DEF KitDoc
      <3>2. kit[k].exists \in BOOLEAN /\ kit[k].deleted \in BOOLEAN
        BY <2>8 DEF KitDoc
      <3>3. QED
        BY <2>2, <2>9, <3>1, <3>2 DEF KitDoc
    <2>11. kit' \in [Kits -> KitDoc] /\ kit'[k] = d /\ \A l \in Kits \ {k} : kit'[l] = kit[l]
      BY <1>t, <2>8, <2>10 DEF KitTyped
    <2>12. KitTyped'
      BY <1>1, <1>t, <2>5, <2>6, <2>11, ClerkMoves DEF KitTyped
    <2>13. ASSUME oneClerk PROVE ShelfInv'
      <3>1. AloneAt(w) /\ Ready(p)
        BY <1>1, <2>1, <2>13, AtWork
      <3>2. KnowsSave(p)
        BY <1>1, <2>1, <3>1 DEF Ready, Knows
      <3>3. d.items \cap live = q.live /\ d.exists
        BY <2>3, <2>5, <2>10, <3>2 DEF KnowsSave, KnowsEdit
      <3>4. ASSUME NEW c \in Campaigns, campaign[c].kit = k PROVE Clears(campaign[c], d, live)
        <4>1. AtLeast(p.price, minPrice(q.live)) /\ AtLeast(campaign[c].price, minPrice(q.live))
          BY <2>3, <2>5, <3>2, <3>4 DEF KnowsSave, KnowsEdit
        <4>2. QED
          BY <2>10, <3>3, <4>1 DEF Clears
      <3>5. KnowsSync(q)'
        BY <1>1, <2>5, <2>11, <3>3, <3>4 DEF KnowsSync
      <3>6. ASSUME NEW c \in Campaigns PROVE LinkFits(campaign[c], q)'
        <4>1. LinkFits(campaign[c], p) /\ campaign[c].kit \in Kits \cup {NoKit}
          BY <3>1, <1>t DEF Ready, KitTyped, CampaignDoc
        <4>2. CASE campaign[c].kit = k
          <5>1. k = NoKit \/ Stands(campaign[c], d)
            BY <2>10, <4>1, <4>2 DEF LinkFits, Stands
          <5>2. QED
            BY <1>1, <2>5, <2>11, <3>4, <4>2, <5>1 DEF LinkFits, Syncs
        <4>3. CASE campaign[c].kit # k
          <5>1. campaign[c].kit = NoKit \/ kit'[campaign[c].kit] = kit[campaign[c].kit]
            BY <2>11, <4>1, <4>3
          <5>2. ~Syncs(p, campaign[c].kit)
            BY <1>1, <2>1 DEF Syncs
          <5>3. QED
            BY <1>1, <4>1, <5>1, <5>2 DEF LinkFits
        <4>4. QED
          BY <4>2, <4>3
      <3>7. Ready(q)'
        BY <2>5, <3>5, <3>6 DEF Ready, Knows
      <3>8. QED
        BY <1>t, <2>5, <2>6, <3>1, <3>7, ShelfAgain
    <2>14. QED
      BY <1>1, <2>12, <2>13 DEF KitInv
  <1>4. QED
    BY <1>2, <1>3 DEF SaveKit

\* One campaign after the other gets the kit's products.
LEMMA SyncCampaignKeeps ==
    ASSUME KitInv, NEW w \in Clerks, NEW c \in Campaigns, SyncCampaign(w, c) PROVE KitInv'
  <1>t. KitTyped
    BY DEF KitInv
  <1>1. /\ clerk[w].pc = "sync" /\ UNCHANGED <<live, kit, torn, oneClerk>>
        /\ clerk' = [clerk EXCEPT ![w].left = @ \ {c}]
        /\ campaign' = IF c \in Linked(clerk[w].kit) THEN [campaign EXCEPT ![c].products = clerk[w].live]
                                                   ELSE campaign
    BY Zenon DEF SyncCampaign
  <1>2. PICK p \in ClerkDoc : p = clerk[w] /\ Placed(p) /\ p.pc = "sync"
    BY <1>1, <1>t DEF KitTyped
  <1>3. PICK q : q = [p EXCEPT !.left = p.left \ {c}]
    OBVIOUS
  <1>4. /\ q \in ClerkDoc /\ q.pc = "sync" /\ q.kit = p.kit /\ q.live = p.live /\ q.left = p.left \ {c}
    BY <1>2, <1>3 DEF ClerkDoc
  <1>5. clerk' = [clerk EXCEPT ![w] = q]
    BY <1>1, <1>2, <1>3, <1>t DEF KitTyped, ClerkDoc
  <1>6. Placed(q) /\ p.kit \in Kits
    BY <1>2, <1>4 DEF Placed
  <1>7. \A x \in Campaigns :
           /\ campaign'[x] \in CampaignDoc /\ campaign'[x].exists = campaign[x].exists
           /\ campaign'[x].kit = campaign[x].kit /\ campaign'[x].price = campaign[x].price
           /\ campaign'[x].status = campaign[x].status
           /\ (x # c \/ c \notin Linked(p.kit)) => campaign'[x] = campaign[x]
           /\ x = c /\ c \in Linked(p.kit) => campaign'[x].products = p.live
    <2>1. p.live \in SUBSET KitProducts /\ campaign \in [Campaigns -> CampaignDoc]
      BY <1>t DEF ClerkDoc, KitTyped
    <2>2. CASE c \in Linked(p.kit)
      <3>1. campaign' = [campaign EXCEPT ![c].products = p.live]
        BY <1>1, <1>2, <2>2
      <3>2. QED
        BY <2>1, <2>2, <3>1 DEF CampaignDoc
    <2>3. CASE c \notin Linked(p.kit)
      BY <1>1, <1>2, <2>1, <2>3
    <2>4. QED
      BY <2>2, <2>3
  <1>8. campaign' \in [Campaigns -> CampaignDoc]
    <2>1. campaign \in [Campaigns -> CampaignDoc]
      BY <1>t DEF KitTyped
    <2>2. DOMAIN campaign' = Campaigns /\ campaign' = [x \in Campaigns |-> campaign'[x]]
      BY <1>1, <2>1
    <2>3. QED
      BY <1>7, <2>2
  <1>9. KitTyped'
    BY <1>1, <1>4, <1>5, <1>6, <1>8, <1>t, ClerkMoves DEF KitTyped
  <1>10. ASSUME oneClerk PROVE ShelfInv'
    <2>1. AloneAt(w) /\ Ready(p)
      BY <1>1, <1>2, <1>10, AtWork
    <2>2. KnowsSync(p) /\ \A x \in Campaigns : LinkFits(campaign[x], p)
      BY <1>2, <2>1 DEF Ready, Knows
    <2>3. c \in Linked(p.kit) \/ campaign[c].kit # p.kit
      BY <1>6, <2>2, KitAssumption DEF LinkFits, Stands, Linked
    <2>4. KnowsSync(q)'
      <3>1. kit'[q.kit].exists /\ q.live = kit'[q.kit].items \cap live'
        BY <1>1, <1>4, <2>2 DEF KnowsSync
      <3>2. ASSUME NEW x \in Campaigns, campaign'[x].kit = q.kit
            PROVE  Clears(campaign'[x], kit'[q.kit], live') /\ (x \in q.left \/ campaign'[x].products = q.live)
        <4>1. campaign[x].kit = p.kit
          BY <1>4, <1>7, <3>2
        <4>2. Clears(campaign[x], kit[p.kit], live) /\ (x \in p.left \/ campaign[x].products = p.live)
          BY <2>2, <4>1 DEF KnowsSync
        <4>3. Clears(campaign'[x], kit'[q.kit], live')
          BY <1>1, <1>4, <1>7, <4>2 DEF Clears
        <4>4. CASE x = c
          BY <1>4, <1>7, <2>3, <4>1, <4>3, <4>4
        <4>5. CASE x # c
          BY <1>4, <1>7, <4>2, <4>3, <4>5
        <4>6. QED
          BY <4>4, <4>5
      <3>3. QED
        BY <3>1, <3>2 DEF KnowsSync
    <2>5. ASSUME NEW x \in Campaigns PROVE LinkFits(campaign[x], q)'
      <3>1. LinkFits(campaign[x], p)
        BY <2>2
      <3>2. CASE x # c \/ c \notin Linked(p.kit)
        <4>1. campaign'[x] = campaign[x]
          BY <1>7, <3>2
        <4>2. LinkFits(campaign[x], q)'
          BY <1>1, <1>2, <1>4, <3>1, <4>1 DEF LinkFits, Syncs
        <4>3. QED
          BY <4>2
      <3>3. CASE x = c /\ c \in Linked(p.kit)
        <4>1. campaign'[x].kit = q.kit /\ Syncs(q, q.kit)
          BY <1>4, <1>7, <3>3 DEF Linked, Syncs
        <4>2. Stands(campaign[x], kit[p.kit]) /\ (p.kit \notin torn => Clears(campaign[x], kit[p.kit], live))
          BY <1>6, <3>1, <3>3, KitAssumption DEF LinkFits, Linked
        <4>3. Stands(campaign'[x], kit'[q.kit])
          BY <1>1, <1>4, <1>7, <4>2 DEF Stands
        <4>4. q.kit \notin torn' => Clears(campaign'[x], kit'[q.kit], live')
          BY <1>1, <1>4, <1>7, <4>2 DEF Clears
        <4>5. QED
          BY <4>1, <4>3, <4>4 DEF LinkFits, Syncs
      <3>4. QED
        BY <3>2, <3>3
    <2>6. Ready(q)'
      BY <1>4, <2>4, <2>5 DEF Ready, Knows
    <2>7. QED
      BY <1>t, <1>4, <1>5, <1>6, <2>1, <2>6, ShelfAgain
  <1>11. QED
    BY <1>1, <1>9, <1>10 DEF KitInv

\* When the last campaign has been synced the kit is no longer torn.
LEMMA FinishSyncKeeps == ASSUME KitInv, NEW w \in Clerks, FinishSync(w) PROVE KitInv'
  <1>t. KitTyped
    BY DEF KitInv
  <1>1. /\ clerk[w].pc = "sync" /\ clerk[w].left = {} /\ Ends(w) /\ torn' = torn \ {clerk[w].kit}
        /\ UNCHANGED <<live, kit, campaign, oneClerk>>
    BY DEF FinishSync
  <1>2. PICK p \in ClerkDoc : p = clerk[w]
    BY <1>t DEF KitTyped
  <1>3. KitTyped'
    BY <1>1, <1>t, EndsTyped DEF KitTyped
  <1>4. ASSUME oneClerk PROVE ShelfInv'
    <2>1. AloneAt(w) /\ Ready(p)
      BY <1>1, <1>2, <1>4, AtWork
    <2>2. KnowsSync(p) /\ \A x \in Campaigns : LinkFits(campaign[x], p)
      BY <1>1, <1>2, <2>1 DEF Ready, Knows
    <2>3. ASSUME NEW x \in Campaigns PROVE LinkFits(campaign[x], Idle)'
      <3>1. LinkFits(campaign[x], p)
        BY <2>2
      <3>2. CASE campaign[x].kit = p.kit
        <4>1. Clears(campaign[x], kit[p.kit], live) /\ campaign[x].products = p.live /\ p.live = kit[p.kit].items \cap live
          BY <1>1, <1>2, <2>2, <3>2 DEF KnowsSync
        <4>2. Follows(campaign[x], kit[p.kit], live)
          BY <4>1 DEF Follows
        <4>3. QED
          BY <1>1, <3>1, <3>2, <4>1, <4>2 DEF LinkFits
      <3>3. CASE campaign[x].kit # p.kit
        BY <1>1, <1>2, <3>1, <3>3 DEF LinkFits, Syncs
      <3>4. QED
        BY <3>2, <3>3
    <2>4. QED
      BY <1>1, <1>t, <2>1, <2>3, RestsAgain
  <1>5. QED
    BY <1>1, <1>3, <1>4 DEF KitInv

\* A kit to be removed has no running campaign.
LEMMA BeginRemoveKeeps ==
    ASSUME KitInv, NEW w \in Clerks, NEW k \in Kits, BeginRemove(w, k) PROVE KitInv'
  <1>1. /\ MayStart(w) /\ Running(k) = {} /\ UNCHANGED <<live, kit, campaign, torn, oneClerk>>
        /\ clerk' = [clerk EXCEPT ![w] = [Idle EXCEPT !.pc = "remove", !.kit = k]]
    BY DEF BeginRemove
  <1>2. PICK q : q = [Idle EXCEPT !.pc = "remove", !.kit = k]
    OBVIOUS
  <1>3. q \in ClerkDoc /\ q.pc = "remove" /\ q.kit = k
    BY <1>2, IdleTyped DEF ClerkDoc, ClerkPc
  <1>4. Placed(q)
    BY <1>3 DEF Placed
  <1>5. ASSUME oneClerk PROVE AloneAt(w) /\ Ready(q)
    <2>1. AllIdle /\ AloneAt(w)
      BY <1>1, <1>5, StartsAlone
    <2>2. \A c \in Campaigns : LinkFits(campaign[c], q)
      BY <1>3, <1>5, <2>1, AtRest, Unsynced, IdleTyped
    <2>3. KnowsRemove(q)
      BY <1>1, <1>3, <2>2, KitAssumption DEF KnowsRemove, LinkFits, Stands, Running, Linked
    <2>4. QED
      BY <1>3, <2>1, <2>2, <2>3 DEF Ready, Knows
  <1>6. QED
    BY <1>1, <1>2, <1>3, <1>4, <1>5, Proceeds

LEMMA RemoveKitKeeps == ASSUME KitInv, NEW w \in Clerks, RemoveKit(w) PROVE KitInv'
  <1>t. KitTyped
    BY DEF KitInv
  <1>1. /\ clerk[w].pc = "remove" /\ Ends(w) /\ UNCHANGED <<live, campaign, torn, oneClerk>>
        /\ kit' = [kit EXCEPT ![clerk[w].kit] = [@ EXCEPT !.deleted = TRUE, !.active = FALSE]]
    BY DEF RemoveKit
  <1>2. PICK p \in ClerkDoc : p = clerk[w] /\ p.kit \in Kits
    BY <1>1, <1>t DEF KitTyped, Placed
  <1>3. kit \in [Kits -> KitDoc] /\ kit' = [kit EXCEPT ![p.kit] = [@ EXCEPT !.deleted = TRUE, !.active = FALSE]]
    BY <1>1, <1>2, <1>t DEF KitTyped
  <1>4. /\ kit' \in [Kits -> KitDoc] /\ \A l \in Kits \ {p.kit} : kit'[l] = kit[l]
        /\ kit'[p.kit].exists = kit[p.kit].exists /\ kit'[p.kit].items = kit[p.kit].items
        /\ kit'[p.kit].price = kit[p.kit].price
    <2>1. PICK k, d : k = p.kit /\ d = [kit[k] EXCEPT !.deleted = TRUE, !.active = FALSE]
      OBVIOUS
    <2>2. kit' = [kit EXCEPT ![k] = d] /\ k \in Kits /\ kit[k] \in KitDoc
      BY <1>2, <1>3, <2>1
    <2>3. /\ d \in KitDoc /\ d.exists = kit[k].exists /\ d.items = kit[k].items
          /\ d.price = kit[k].price
      BY <2>1, <2>2 DEF KitDoc
    <2>4. kit' \in [Kits -> KitDoc] /\ kit'[k] = d /\ \A l \in Kits \ {k} : kit'[l] = kit[l]
      BY <1>3, <2>2, <2>3
    <2>5. QED
      BY <2>1, <2>3, <2>4
  <1>5. KitTyped'
    BY <1>1, <1>4, <1>t, EndsTyped DEF KitTyped
  <1>6. ASSUME oneClerk PROVE ShelfInv'
    <2>1. AloneAt(w) /\ Ready(p)
      BY <1>1, <1>2, <1>6, AtWork
    <2>2. KnowsRemove(p) /\ \A x \in Campaigns : LinkFits(campaign[x], p)
      BY <1>1, <1>2, <2>1 DEF Ready, Knows
    <2>3. ASSUME NEW x \in Campaigns PROVE LinkFits(campaign[x], Idle)'
      <3>1. LinkFits(campaign[x], p) /\ campaign[x].kit \in Kits \cup {NoKit} /\ ~Syncs(p, campaign[x].kit)
        BY <1>1, <1>2, <1>t, <2>2 DEF KitTyped, CampaignDoc, Syncs
      <3>2. CASE campaign[x].kit = p.kit
        <4>1. campaign[x].status = "STOPPED"
          BY <2>2, <3>2 DEF KnowsRemove
        <4>2. QED
          BY <1>1, <1>4, <3>1, <3>2, <4>1 DEF LinkFits, Stands, Clears, Follows
      <3>3. CASE campaign[x].kit # p.kit
        <4>1. campaign[x].kit = NoKit \/ kit'[campaign[x].kit] = kit[campaign[x].kit]
          BY <1>4, <3>1, <3>3
        <4>2. QED
          BY <1>1, <3>1, <4>1 DEF LinkFits
      <3>4. QED
        BY <3>2, <3>3
    <2>4. QED
      BY <1>1, <1>t, <2>1, <2>3, RestsAgain
  <1>7. QED
    BY <1>1, <1>5, <1>6 DEF KitInv

\* A request to update a campaign has been let in.
LEMMA AskUpdateKeeps == ASSUME KitInv, NEW w \in Clerks, AskUpdate(w) PROVE KitInv'
  <1>1. MayStart(w) /\ UNCHANGED <<live, kit, campaign, torn, oneClerk>>
    BY DEF AskUpdate
  <1>2. PICK c \in Campaigns, status \in {"ACTIVE", "STOPPED", Keep} :
          clerk' = [clerk EXCEPT ![w] = [Idle EXCEPT !.pc = "asked", !.camp = c, !.status = status]]
    BY DEF AskUpdate
  <1>3. PICK q : q = [Idle EXCEPT !.pc = "asked", !.camp = c, !.status = status]
    OBVIOUS
  <1>4. q \in ClerkDoc /\ q.pc = "asked" /\ q.camp = c
    BY <1>3, IdleTyped DEF ClerkDoc, ClerkPc, Statuses
  <1>5. Placed(q)
    BY <1>4 DEF Placed
  <1>6. ASSUME oneClerk PROVE AloneAt(w) /\ Ready(q)
    <2>1. AllIdle /\ AloneAt(w)
      BY <1>1, <1>6, StartsAlone
    <2>2. \A x \in Campaigns : LinkFits(campaign[x], q)
      BY <1>4, <1>6, <2>1, AtRest, Unsynced, IdleTyped
    <2>3. QED
      BY <1>4, <2>1, <2>2 DEF Ready, Knows
  <1>7. QED
    BY <1>1, <1>2, <1>3, <1>4, <1>5, <1>6, Proceeds

\* Who begins to save a campaign, or goes on after asking, is alone.
LEMMA SavesAlone ==
    ASSUME KitInv, NEW w \in Clerks, oneClerk, MayStart(w) \/ clerk[w].pc = "asked"
    PROVE  AloneAt(w) /\ \A c \in Campaigns : LinkFits(campaign[c], Idle)
  <1>1. CASE MayStart(w)
    BY <1>1, StartsAlone, AtRest
  <1>2. CASE clerk[w].pc = "asked"
    <2>1. PICK p : p = clerk[w]
      OBVIOUS
    <2>2. QED
      BY <1>2, <2>1, AtWork, IdleReady DEF Ready
  <1>3. QED
    BY <1>1, <1>2

\* A request for a campaign reads it.
LEMMA BeginSaveKeeps == ASSUME KitInv, NEW w \in Clerks, BeginSave(w) PROVE KitInv'
  <1>t. KitTyped
    BY DEF KitInv
  <1> DEFINE Seeks(c, to, price, status) ==
               [Idle EXCEPT !.camp = c, !.kit = to, !.price = price, !.had = campaign[c],
                            !.status = status]
             Form(c, set) == [Idle EXCEPT !.pc = "write", !.camp = c, !.set = set]
  <1>q. PICK c \in Campaigns, to \in Kits \cup {NoKit, Keep}, price \in Prices \cup {NoPrice, Keep},
             products \in (SUBSET live) \cup {Keep}, status \in {"ACTIVE", "STOPPED", Keep} :
         LET had == campaign[c]
             target == Given(to, had.kit)
             unlinked == target = NoKit /\ had.kit # NoKit
             q == [Idle EXCEPT !.camp = c, !.kit = target, !.price = price, !.had = had,
                               !.status = status]
         IN  /\ IF had.exists THEN clerk[w].pc = "asked" /\ clerk[w].camp = c /\ clerk[w].status = status
                ELSE MayStart(w)
             /\ products # {} /\ (had.exists \/ target # NoKit \/ products # Keep)
             /\ target # NoKit => products = Keep
             /\ target = NoKit => /\ price \in {NoPrice, Keep}
                                  /\ (products = Keep /\ unlinked) => had.products \subseteq live
             /\ clerk' = [clerk EXCEPT ![w] =
                   IF target # NoKit THEN [q EXCEPT !.pc = "load"]
                   ELSE [Idle EXCEPT !.pc = "write", !.camp = c,
                         !.set = [exists |-> TRUE, products |-> products, status |-> status,
                                  kit |-> IF unlinked THEN NoKit ELSE Keep,
                                  price |-> IF unlinked THEN NoPrice ELSE Keep]]]
    BY Zenon DEF BeginSave
  <1>1. /\ MayStart(w) \/ clerk[w].pc = "asked"
        /\ UNCHANGED <<live, kit, campaign, torn, oneClerk>>
    <2>1. MayStart(w) \/ clerk[w].pc = "asked"
      BY <1>q, Zenon
    <2>2. QED
      BY <2>1 DEF BeginSave
  <1>2. PICK target : target = Given(to, campaign[c].kit)
    OBVIOUS
  <1>4. /\ campaign[c] \in CampaignDoc /\ target \in Kits \cup {NoKit} /\ live \subseteq KitProducts
        /\ NoKit # Keep
    <2>1. campaign[c] \in CampaignDoc /\ live \subseteq KitProducts
      BY <1>t DEF KitTyped
    <2>2. target \in Kits \cup {NoKit}
      BY <1>2, <2>1 DEF Given, CampaignDoc
    <2>3. QED
      BY <2>1, <2>2, KitAssumption
  <1>5. oneClerk => AloneAt(w) /\ \A x \in Campaigns : LinkFits(campaign[x], Idle)
    BY <1>1, SavesAlone
  <1>6. CASE target # NoKit
    <2>1. PICK q : q = [Seeks(c, target, price, status) EXCEPT !.pc = "load"]
      OBVIOUS
    <2>2. clerk' = [clerk EXCEPT ![w] = q]
      BY <1>q, <1>2, <1>6, <2>1, Zenon
    <2>3. /\ q \in ClerkDoc /\ q.pc = "load" /\ q.kit = target /\ q.camp = c /\ q.had = campaign[c]
          /\ q.status = status
      <3>1. PICK s : s = Seeks(c, target, price, status)
        OBVIOUS
      <3>2. Idle \in ClerkDoc /\ price \in Prices \cup {NoPrice, Keep} /\ status \in Statuses \cup {Keep}
        BY IdleTyped DEF Statuses
      <3>3. /\ s \in ClerkDoc /\ s.kit = target /\ s.camp = c /\ s.had = campaign[c] /\ s.status = status
        <4>1. PICK i, h : i = Idle /\ h = campaign[c]
          OBVIOUS
        <4>2. s = [i EXCEPT !.camp = c, !.kit = target, !.price = price, !.had = h, !.status = status]
          BY <3>1, <4>1
        <4>3. i \in ClerkDoc /\ h \in CampaignDoc /\ target \in Kits \cup {NoKit} /\ c \in Campaigns
          BY <1>4, <3>2, <4>1
        <4>4. s.kit = target /\ s.camp = c /\ s.had = h /\ s.status = status
          BY <4>2, <4>3 DEF ClerkDoc
        <4>5. s \in ClerkDoc
          BY <3>2, <4>2, <4>3 DEF ClerkDoc
        <4>6. QED
          BY <4>1, <4>4, <4>5
      <3>4. q = [s EXCEPT !.pc = "load"] /\ "load" \in ClerkPc
        BY <2>1, <3>1 DEF ClerkPc
      <3> HIDE DEF Seeks
      <3>5. q.pc = "load" /\ q.kit = s.kit /\ q.camp = s.camp /\ q.had = s.had /\ q.status = s.status
        BY <3>3, <3>4 DEF ClerkDoc
      <3>6. q \in ClerkDoc
        BY <3>3, <3>4 DEF ClerkDoc
      <3>7. QED
        BY <3>3, <3>5, <3>6
    <2>5. Placed(q)
      BY <1>4, <1>6, <2>3 DEF Placed
    <2>6. ASSUME oneClerk PROVE AloneAt(w) /\ Ready(q)
      <3>1. \A x \in Campaigns : LinkFits(campaign[x], q)
        BY <1>5, <2>3, <2>6, Unsynced, IdleTyped
      <3>3. KnowsLoad(q)
        BY <2>3 DEF KnowsLoad
      <3>4. QED
        BY <1>5, <2>3, <2>6, <3>1, <3>3 DEF Ready, Knows
    <2>7. QED
      BY <1>1, <2>2, <2>3, <2>5, <2>6, Proceeds
  <1>7. CASE target = NoKit
    <2>1. PICK unlinked \in BOOLEAN : unlinked = (target = NoKit /\ campaign[c].kit # NoKit)
      OBVIOUS
    <2>2. PICK set : set = [exists |-> TRUE, products |-> products, status |-> status,
                            kit |-> IF unlinked THEN NoKit ELSE Keep,
                            price |-> IF unlinked THEN NoPrice ELSE Keep]
      OBVIOUS
    <2>3. PICK q : q = Form(c, set)
      OBVIOUS
    <2>4. clerk' = [clerk EXCEPT ![w] = q]
      <3>2. clerk' = [clerk EXCEPT ![w] =
                       Form(c, [exists |-> TRUE, products |-> products, status |-> status,
                                kit |-> IF target = NoKit /\ campaign[c].kit # NoKit THEN NoKit ELSE Keep,
                                price |-> IF target = NoKit /\ campaign[c].kit # NoKit THEN NoPrice ELSE Keep])]
        BY <1>q, <1>2, <1>7, Zenon
      <3>3. set = [exists |-> TRUE, products |-> products, status |-> status,
                   kit |-> IF target = NoKit /\ campaign[c].kit # NoKit THEN NoKit ELSE Keep,
                   price |-> IF target = NoKit /\ campaign[c].kit # NoKit THEN NoPrice ELSE Keep]
        BY <2>1, <2>2, Zenon
      <3>4. QED
        BY <2>3, <3>2, <3>3, Zenon
    <2>5. set \in Fields /\ set.status = status
      BY <1>4, <2>1, <2>2 DEF Fields, Statuses
    <2>6. /\ q \in ClerkDoc /\ q.pc = "write" /\ q.camp = c /\ q.set = set
      BY <2>3, <2>5, IdleTyped DEF ClerkDoc, ClerkPc
    <2>8. Placed(q)
      BY <2>6 DEF Placed
    <2>9. ASSUME oneClerk PROVE AloneAt(w) /\ Ready(q)
      <3>1. \A x \in Campaigns : LinkFits(campaign[x], q)
        BY <1>5, <2>6, <2>9, Unsynced, IdleTyped
      <3>2. Written(campaign[c], set).kit = NoKit
        <4>1. Written(campaign[c], set).kit = Given(set.kit, campaign[c].kit)
          BY <1>4, <2>5, WrittenTyped
        <4>2. Given(set.kit, campaign[c].kit) = NoKit
          BY <1>4, <1>7, <2>1, <2>2 DEF Given
        <4>3. QED
          BY <4>1, <4>2
      <3>4. KnowsWrite(q)
        BY <2>6, <3>2 DEF KnowsWrite, Owes
      <3>5. QED
        BY <1>5, <2>6, <2>9, <3>1, <3>4 DEF Ready, Knows
    <2>10. QED
      BY <1>1, <2>4, <2>6, <2>8, <2>9, Proceeds
  <1>8. QED
    BY <1>6, <1>7

\* What is found when the kit is looked at is what the campaign will owe it.
LEMMA LoadKitKeeps == ASSUME KitInv, NEW w \in Clerks, LoadKit(w) PROVE KitInv'
  <1>t. KitTyped
    BY DEF KitInv
  <1>1. clerk[w].pc = "load" /\ UNCHANGED <<live, kit, campaign, torn, oneClerk>>
    BY DEF LoadKit
  <1>2. CASE Ends(w)
    BY <1>1, <1>2, EndsKeeps
  <1>3. CASE ~Ends(w)
    <2>1. PICK p \in ClerkDoc : p = clerk[w] /\ p.pc = "load" /\ Placed(p)
      BY <1>1, <1>t DEF KitTyped
    <2>2. PICK relinked \in BOOLEAN : relinked = (p.kit # p.had.kit)
      OBVIOUS
    <2>3. PICK price : price = IF p.price # Keep THEN p.price ELSE IF relinked THEN NoPrice ELSE p.had.price
      OBVIOUS
    <2>4. PICK set : set = [exists |-> TRUE, kit |-> p.kit, price |-> price,
                            products |-> kit[p.kit].items \cap live, status |-> p.status]
      OBVIOUS
    <2>5. /\ kit[p.kit].exists
          /\ ~(IF relinked THEN kit[p.kit].deleted \/ ~kit[p.kit].active
               ELSE kit[p.kit].deleted /\ Given(p.status, p.had.status) # "STOPPED")
          /\ (relinked \/ price # p.had.price) =>
                AtLeast(IF price = NoPrice THEN kit[p.kit].price ELSE price, minPrice(kit[p.kit].items \cap live))
          /\ Writes(w, set)
      BY <1>3, <2>1, <2>2, <2>3, <2>4, Zenon DEF LoadKit
    <2>6. PICK q : q = [Idle EXCEPT !.pc = "write", !.camp = p.camp, !.set = set]
      OBVIOUS
    <2>7. clerk' = [clerk EXCEPT ![w] = q]
      BY <2>1, <2>5, <2>6, Zenon DEF Writes
    <2>8. p.kit \in Kits /\ p.camp \in Campaigns /\ kit[p.kit] \in KitDoc /\ live \subseteq KitProducts
      BY <1>t, <2>1 DEF Placed, KitTyped
    <2>9. price \in Prices \cup {NoPrice} /\ price # Keep
      BY <2>1, <2>3, KitAssumption DEF ClerkDoc, CampaignDoc
    <2>10. set \in Fields /\ set.status = p.status /\ set.kit = p.kit /\ set.price = price
           /\ set.products = kit[p.kit].items \cap live /\ set.exists
      BY <2>1, <2>4, <2>8, <2>9 DEF Fields, ClerkDoc, KitDoc
    <2>11. q \in ClerkDoc /\ q.pc = "write" /\ q.camp = p.camp /\ q.set = set
      BY <2>6, <2>8, <2>10, IdleTyped DEF ClerkDoc, ClerkPc
    <2>13. Placed(q)
      BY <2>8, <2>11 DEF Placed
    <2>14. ASSUME oneClerk PROVE AloneAt(w) /\ Ready(q)
      <3>1. AloneAt(w) /\ Ready(p)
        BY <1>1, <2>1, <2>14, AtWork
      <3>2. KnowsLoad(p) /\ \A x \in Campaigns : LinkFits(campaign[x], p)
        BY <2>1, <3>1 DEF Ready, Knows
      <3>3. \A x \in Campaigns : LinkFits(campaign[x], q)
        BY <2>1, <2>11, <3>2, Unsynced
      <3>4. PICK d \in CampaignDoc : d = Written(p.had, set)
        BY <2>1, <2>10, WrittenTyped DEF ClerkDoc
      <3>5. d.kit = p.kit /\ d.price = price /\ d.products = kit[p.kit].items \cap live
            /\ d.status = Given(p.status, p.had.status)
        <4>1. p.kit # Keep /\ set.products # Keep
          <5>1. set.products \in SUBSET KitProducts
            BY <2>8, <2>10
          <5>2. QED
            BY <2>8, <5>1, KitAssumption
        <4>2. p.had \in CampaignDoc
          BY <2>1 DEF ClerkDoc
        <4>3. QED
          BY <2>9, <2>10, <3>4, <4>1, <4>2, WrittenTyped DEF Given
      <3>6. d.exists
        <4>1. d.exists = Given(TRUE, p.had.exists)
          <5>1. p.had \in CampaignDoc /\ set.exists = TRUE
            BY <2>1, <2>4 DEF ClerkDoc
          <5>2. QED
            BY <2>10, <3>4, <5>1, WrittenTyped
        <4>2. Given(TRUE, p.had.exists) = TRUE
          BY KitAssumption DEF Given
        <4>3. QED
          BY <4>1, <4>2
      <3>7. Stands(d, kit[p.kit])
        BY <2>5, <3>5, <3>6 DEF Stands
      <3>8. Follows(d, kit[p.kit], live)
        BY <3>5 DEF Follows
      <3>9. ASSUME p.kit \notin torn PROVE Clears(d, kit[p.kit], live)
        <4>1. CASE relinked \/ price # p.had.price
          BY <2>5, <3>5, <4>1 DEF Clears
        <4>2. CASE ~relinked /\ price = p.had.price
          <5>1. p.kit = p.had.kit /\ LinkFits(p.had, p) /\ p.kit # NoKit
            BY <2>2, <2>8, <3>2, <4>2, KitAssumption DEF KnowsLoad
          <5>2. Clears(p.had, kit[p.kit], live)
            BY <3>9, <5>1 DEF LinkFits
          <5>3. QED
            BY <3>5, <4>2, <5>2 DEF Clears
        <4>3. QED
          BY <4>1, <4>2
      <3>10. Owes(d)
        BY <3>5, <3>7, <3>8, <3>9 DEF Owes
      <3>11. Owes(Written(campaign[q.camp], q.set))
        BY <2>11, <3>2, <3>4, <3>10 DEF KnowsLoad
      <3>13. QED
        BY <2>11, <3>1, <3>3, <3>11 DEF Ready, Knows, KnowsWrite
    <2>15. QED
      BY <1>1, <2>7, <2>11, <2>13, <2>14, Proceeds
  <1>4. QED
    BY <1>2, <1>3

LEMMA WriteCampaignKeeps == ASSUME KitInv, NEW w \in Clerks, WriteCampaign(w) PROVE KitInv'
  <1>t. KitTyped
    BY DEF KitInv
  <1>1. /\ clerk[w].pc = "write" /\ Ends(w) /\ UNCHANGED <<live, kit, torn, oneClerk>>
        /\ campaign' = [campaign EXCEPT ![clerk[w].camp] = Written(@, clerk[w].set)]
    BY Zenon DEF WriteCampaign, Written
  <1>2. PICK p \in ClerkDoc : p = clerk[w] /\ p.camp \in Campaigns
    BY <1>1, <1>t DEF KitTyped, Placed
  <1>3. PICK d \in CampaignDoc : d = Written(campaign[p.camp], p.set)
    <2>1. campaign[p.camp] \in CampaignDoc /\ p.set \in Fields
      BY <1>2, <1>t DEF KitTyped, ClerkDoc
    <2>2. QED
      BY <2>1, WrittenTyped
  <1>4. campaign' = [campaign EXCEPT ![p.camp] = d]
    BY <1>1, <1>2, <1>3
  <1>5. /\ campaign' \in [Campaigns -> CampaignDoc] /\ campaign'[p.camp] = d
        /\ \A x \in Campaigns \ {p.camp} : campaign'[x] = campaign[x]
    BY <1>2, <1>4, <1>t DEF KitTyped
  <1>6. KitTyped'
    BY <1>1, <1>5, <1>t, EndsTyped DEF KitTyped
  <1>7. ASSUME oneClerk PROVE ShelfInv'
    <2>1. AloneAt(w) /\ Ready(p)
      BY <1>1, <1>2, <1>7, AtWork
    <2>2. Owes(d) /\ \A x \in Campaigns : LinkFits(campaign[x], p)
      BY <1>1, <1>2, <1>3, <2>1 DEF Ready, Knows, KnowsWrite
    <2>3. ASSUME NEW x \in Campaigns PROVE LinkFits(campaign[x], Idle)'
      <3>1. CASE x = p.camp
        BY <1>1, <1>5, <2>2, <3>1 DEF Owes, LinkFits, Stands, Clears, Follows
      <3>2. CASE x # p.camp
        <4>1. campaign'[x] = campaign[x] /\ LinkFits(campaign[x], p) /\ p.pc = "write"
          BY <1>1, <1>2, <1>5, <2>2, <3>2
        <4>2. QED
          BY <1>1, <4>1 DEF LinkFits, Syncs
      <3>3. QED
        BY <3>1, <3>2
    <2>4. QED
      BY <1>1, <1>t, <2>1, <2>3, RestsAgain
  <1>8. QED
    BY <1>1, <1>6, <1>7 DEF KitInv

\* A product goes: a kit's floor can only sink.
LEMMA DeleteProductKeeps == ASSUME KitInv, NEW p \in KitProducts, DeleteProduct(p) PROVE KitInv'
  <1>t. KitTyped
    BY DEF KitInv
  <1>1. /\ live' = live \ {p} /\ UNCHANGED <<kit, campaign, clerk, torn, oneClerk>> /\ (oneClerk => AllIdle)
    BY DEF DeleteProduct, AllIdle
  <1>2. KitTyped'
    BY <1>1, <1>t DEF KitTyped
  <1>3. ASSUME oneClerk PROVE ShelfInv'
    <2>1. \A c \in Campaigns : LinkFits(campaign[c], Idle)
      BY <1>1, <1>3, AtRest
    <2>2. ASSUME NEW c \in Campaigns PROVE LinkFits(campaign[c], Idle)'
      <3>1. campaign[c] \in CampaignDoc /\ (campaign[c].kit # NoKit => kit[campaign[c].kit] \in KitDoc)
        BY <1>t DEF KitTyped, CampaignDoc
      <3>2. CASE campaign[c].kit # NoKit
        <4>1. PICK d \in CampaignDoc, k \in KitDoc : d = campaign[c] /\ k = kit[d.kit]
          BY <3>1, <3>2
        <4>2. Clears(d, k, live) => Clears(d, k, live \ {p})
          <5>1. k.items \cap live \in SUBSET KitProducts /\ k.items \cap (live \ {p}) \in SUBSET (k.items \cap live)
            BY <4>1 DEF KitDoc
          <5>2. minPrice(k.items \cap (live \ {p})) <= minPrice(k.items \cap live)
            BY <5>1, PriceFacts
          <5>3. minPrice(k.items \cap live) \in Nat /\ minPrice(k.items \cap (live \ {p})) \in Nat
            BY <5>1, PriceFacts
          <5>4. (IF d.price = NoPrice THEN k.price ELSE d.price) \in Prices \cup {NoPrice}
            BY <4>1 DEF KitDoc, CampaignDoc
          <5>5. ASSUME NEW a \in Prices \cup {NoPrice}, NEW m \in Nat, NEW n \in Nat, n <= m, AtLeast(a, m)
                PROVE  AtLeast(a, n)
            BY <5>5, KitAssumption DEF AtLeast
          <5>6. QED
            BY <5>2, <5>3, <5>4, <5>5 DEF Clears
        <4>3. Follows(d, k, live) => Follows(d, k, live \ {p})
          BY DEF Follows
        <4>4. QED
          BY <1>1, <2>1, <4>1, <4>2, <4>3 DEF LinkFits, Syncs
      <3>3. QED
        BY <1>1, <3>2 DEF LinkFits
    <2>3. QED
      BY <1>1, <1>3, <2>2, StillAtRest
  <1>4. QED
    BY <1>1, <1>2, <1>3 DEF KitInv

\* A product comes back: the kits that hold it are to be saved again.
LEMMA RestoreProductKeeps == ASSUME KitInv, NEW p \in KitProducts, RestoreProduct(p) PROVE KitInv'
  <1>t. KitTyped
    BY DEF KitInv
  <1>1. /\ live' = live \cup {p} /\ UNCHANGED <<kit, campaign, clerk, oneClerk>> /\ (oneClerk => AllIdle)
        /\ torn' = torn \cup {k \in Kits : p \in kit[k].items}
    BY DEF RestoreProduct, AllIdle
  <1>2. KitTyped'
    BY <1>1, <1>t DEF KitTyped
  <1>3. ASSUME oneClerk PROVE ShelfInv'
    <2>1. \A c \in Campaigns : LinkFits(campaign[c], Idle)
      BY <1>1, <1>3, AtRest
    <2>2. ASSUME NEW c \in Campaigns PROVE LinkFits(campaign[c], Idle)'
      <3>1. campaign[c].kit \in Kits \cup {NoKit}
        BY <1>t DEF KitTyped, CampaignDoc
      <3>2. CASE campaign[c].kit # NoKit /\ campaign[c].kit \notin torn'
        <4>1. PICK d, k : d = campaign[c] /\ k = kit[d.kit]
          OBVIOUS
        <4>2. p \notin k.items /\ d.kit \notin torn
          BY <1>1, <3>1, <3>2, <4>1
        <4>3. k.items \cap live' = k.items \cap live
          BY <1>1, <4>2
        <4>4. Follows(d, k, live) => Follows(d, k, live')
          BY <1>1, <4>2, <4>3 DEF Follows
        <4>5. Clears(d, k, live) => Clears(d, k, live')
          BY <4>3 DEF Clears
        <4>6. Stands(d, k) /\ Clears(d, k, live) /\ Follows(d, k, live)
          BY <2>1, <3>2, <4>1, <4>2, IdleTyped DEF LinkFits, Syncs
        <4>7. Stands(d, k) /\ Clears(d, k, live') /\ Follows(d, k, live')
          BY <4>4, <4>5, <4>6
        <4>8. QED
          BY <1>1, <4>1, <4>7 DEF LinkFits
      <3>3. CASE campaign[c].kit = NoKit \/ campaign[c].kit \in torn'
        BY <1>1, <2>1, <3>3 DEF LinkFits
      <3>4. QED
        BY <3>2, <3>3
    <2>3. QED
      BY <1>1, <1>3, <2>2, StillAtRest
  <1>4. QED
    BY <1>1, <1>2, <1>3 DEF KitInv

\* A sync that dies leaves its kit torn.
LEMMA ClerkDiesKeeps == ASSUME KitInv, NEW w \in Clerks, ClerkDies(w) PROVE KitInv'
  <1>t. KitTyped
    BY DEF KitInv
  <1>1. /\ clerk[w].pc # "idle" /\ Ends(w) /\ UNCHANGED <<live, kit, campaign, oneClerk>>
        /\ torn' = IF clerk[w].pc = "sync" THEN torn \cup {clerk[w].kit} ELSE torn
    BY DEF ClerkDies
  <1>2. CASE clerk[w].pc # "sync"
    BY <1>1, <1>2, EndsKeeps
  <1>3. CASE clerk[w].pc = "sync"
    <2>1. PICK p \in ClerkDoc : p = clerk[w] /\ p.kit \in Kits
      BY <1>3, <1>t DEF KitTyped, Placed
    <2>2. torn' = torn \cup {p.kit}
      BY <1>1, <1>3, <2>1
    <2>3. KitTyped'
      BY <1>1, <1>t, <2>1, <2>2, EndsTyped DEF KitTyped
    <2>4. ASSUME oneClerk PROVE ShelfInv'
      <3>1. AloneAt(w) /\ Ready(p)
        BY <1>1, <2>1, <2>4, AtWork
      <3>2. ASSUME NEW x \in Campaigns PROVE LinkFits(campaign[x], Idle)'
        BY <1>1, <2>2, <3>1 DEF Ready, LinkFits, Syncs
      <3>3. QED
        BY <1>1, <1>t, <3>1, <3>2, RestsAgain
    <2>5. QED
      BY <1>1, <2>3, <2>4 DEF KitInv
  <1>4. QED
    BY <1>2, <1>3

LEMMA KitStepInv == ASSUME KitInv, [KitNext]_kitVars PROVE KitInv'
  <1>1. ASSUME NEW w \in Clerks, CreateKit(w) \/ BeginKitEdit(w) \/ CheckActive(w) \/ CheckPrices(w) \/ SaveKit(w)
        PROVE  KitInv'
    BY <1>1, CreateKitKeeps, BeginKitEditKeeps, CheckActiveKeeps, CheckPricesKeeps, SaveKitKeeps
  <1>2. ASSUME NEW w \in Clerks, FinishSync(w) \/ RemoveKit(w) \/ ClerkDies(w)
        PROVE  KitInv'
    BY <1>2, FinishSyncKeeps, RemoveKitKeeps, ClerkDiesKeeps
  <1>3. ASSUME NEW w \in Clerks, AskUpdate(w) \/ BeginSave(w) \/ LoadKit(w) \/ WriteCampaign(w)
        PROVE  KitInv'
    BY <1>3, AskUpdateKeeps, BeginSaveKeeps, LoadKitKeeps, WriteCampaignKeeps
  <1>4. ASSUME NEW w \in Clerks, \E c \in Campaigns : SyncCampaign(w, c)
        PROVE  KitInv'
    BY <1>4, SyncCampaignKeeps
  <1>5. ASSUME NEW w \in Clerks, \E k \in Kits : BeginRemove(w, k)
        PROVE  KitInv'
    BY <1>5, BeginRemoveKeeps
  <1>6. ASSUME NEW p \in KitProducts, DeleteProduct(p) \/ RestoreProduct(p)
        PROVE  KitInv'
    BY <1>6, DeleteProductKeeps, RestoreProductKeeps
  <1>7. CASE UNCHANGED kitVars
    <2>1. KitTyped'
      BY <1>7 DEF kitVars, KitInv, KitTyped
    <2>2. ASSUME oneClerk PROVE ShelfInv'
      <3>1. PICK q \in ClerkDoc :
              /\ \A w \in Clerks : clerk[w].pc # "idle" => clerk[w] = q /\ AloneAt(w)
              /\ q.pc # "idle" => \E w \in Clerks : clerk[w] = q
              /\ Ready(q)
        BY <2>2 DEF KitInv, ShelfInv
      <3>2. Ready(q)'
        BY <1>7, <3>1 DEF kitVars, Ready, Knows, KnowsEdit, KnowsSave, KnowsSync, KnowsRemove, KnowsLoad,
                          KnowsWrite, LinkFits, Owes, Stands, Clears, Follows
      <3>3. QED
        BY <1>7, <3>1, <3>2 DEF kitVars, ShelfInv, AloneAt
    <2>3. QED
      BY <1>7, <2>1, <2>2 DEF KitInv, kitVars
  <1>8. CASE KitNext
    BY <1>1, <1>2, <1>3, <1>4, <1>5, <1>6, <1>8, Zenon DEF KitNext
  <1>9. QED
    BY <1>7, <1>8

\* Between requests the links say what the promise says.
LEMMA InOrder == KitInv => KitsInOrder
  <1> SUFFICES ASSUME KitInv PROVE KitsInOrder
    OBVIOUS
  <1>0. Keep \notin Kits /\ NoKit \notin Kits
    BY KitAssumption
  <1>1. CampaignsFollowKit
    <2> SUFFICES ASSUME oneClerk, AllIdle, NEW k \in Kits \ torn, NEW c \in Linked(k)
                 PROVE  campaign[c].products \cap live = kit[k].items \cap live
      BY DEF CampaignsFollowKit
    <2>1. LinkFits(campaign[c], Idle) /\ campaign[c].kit = k
      BY AtRest DEF Linked
    <2>2. QED
      BY <1>0, <2>1, IdleTyped DEF LinkFits, Syncs, Follows
  <1>2. NoneRunsOnDeletedKit
    <2> SUFFICES ASSUME oneClerk, AllIdle, NEW k \in Kits, kit[k].deleted, NEW c \in Running(k)
                 PROVE  FALSE
      BY DEF NoneRunsOnDeletedKit
    <2>1. c \in Campaigns /\ campaign[c].kit = k /\ campaign[c].status # "STOPPED"
      BY DEF Running, Linked
    <2>2. LinkFits(campaign[c], Idle)
      BY <2>1, AtRest
    <2>3. QED
      BY <1>0, <2>1, <2>2 DEF LinkFits, Stands
  <1>3. PriceClearsFloor
    <2> SUFFICES ASSUME oneClerk, NEW k \in Kits \ torn, NEW c \in Linked(k)
                 PROVE  Clears(campaign[c], kit[k], live)
      BY DEF PriceClearsFloor, Clears
    <2>1. PICK q : Ready(q)
      BY DEF KitInv, ShelfInv
    <2>2. LinkFits(campaign[c], q) /\ campaign[c].kit = k
      BY <2>1 DEF Ready, Linked
    <2>3. QED
      BY <1>0, <2>2 DEF LinkFits
  <1>4. QED
    BY <1>1, <1>2, <1>3 DEF KitsInOrder

LEMMA KitInvariant == KitSpec => []KitInv
  <1>1. KitInit => KitInv
    BY KitInitInv
  <1>2. KitInv /\ [KitNext]_kitVars => KitInv'
    BY KitStepInv
  <1>3. QED
    BY <1>1, <1>2, PTL DEF KitSpec

\* Documents and requests keep to their types.
THEOREM KitsTypeCorrect == KitSpec => []KitTypeOK
  <1>1. KitInv => KitTypeOK
    BY DEF KitInv, KitTyped, KitTypeOK, KitDoc, CampaignDoc, ClerkDoc, ClerkPc, Statuses
  <1>2. QED
    BY <1>1, KitInvariant, PTL

\* Between requests that come one at a time, for any kits, campaigns, costs
\* and prices, whatever dies half way: a kit's campaigns carry its products,
\* none runs on a deleted kit, and none is sold below the production cost.
THEOREM KitsAlwaysInOrder == KitSpec => []KitsInOrder
  BY InOrder, KitInvariant, PTL

-----------------------------------------------------------------------------
(***************************************************************************)
(* The three together.                                                     *)
(***************************************************************************)
BackOfficeInv == KitInv /\ JobsInv /\ AccountsInv

\* Nobody has an account while the behaviour is about something else.
LEMMA NobodyThere ==
    ASSUME NoAccounts, 1 \in AtOnce
    PROVE  AccountsInv
<1>1. /\ login = [u \in Logins |-> NoLogin] /\ tribe = [u \in Logins |-> NoTribe]
      /\ visit = [v \in Visits |-> NoVisit] /\ sessions = {} /\ halved = {} /\ visitsDied = 0
      /\ saved = [u \in Logins |-> {}] /\ atOnce \in AtOnce
  BY DEF NoAccounts
<1>2. NoVisit \in VisitDoc /\ NoVisit.pc = "idle" /\ NoVisit.login = Unset
      /\ NoVisit.read.password = Unset
  BY DEF NoVisit, Nothing, VisitDoc, VisitPc
<1>3. login \in [Logins -> LoginDoc] /\ tribe \in [Logins -> TribeDoc]
  BY <1>1, AccountsAssumption DEF NoLogin, NoTribe, LoginDoc, TribeDoc
<1>4. \A u \in Logins : /\ ~login[u].exists /\ ~tribe[u].exists
                        /\ tribe[u].settings = {} /\ login[u].password = Unset
  BY <1>1 DEF NoLogin, NoTribe
<1>5. AccountsTypeOK
  BY <1>1, <1>2, <1>3, AccountsAssumption DEF AccountsTypeOK
<1>6. Roles
  BY <1>1, <1>2, <1>4 DEF Roles, RoleOf, Inserted, Serving, Users, Owners
<1>7. AddressesHeld
  BY <1>1, <1>2, <1>4 DEF AddressesHeld, AddressOf, OneLoginPerAddress, Users
<1>8. SessionsHeld /\ PasswordsFresh
  BY <1>1, <1>2, <1>4, AccountsAssumption DEF SessionsHeld, ReadOf, PasswordsFresh
<1>9. TurnHeld
  BY <1>1, <1>2, <1>4 DEF TurnHeld, TurnOf, Editing, UnderWay, Owners
<1>10. Accounted
  BY <1>4 DEF Accounted, Users, Owners
<1> QED
  BY <1>5, <1>6, <1>7, <1>8, <1>9, <1>10 DEF AccountsInv

\* Kits, reports and accounts keep their types, where the instance has
\* behaviours in which visits come one at a time.
THEOREM BackOfficeTypeCorrect ==
    ASSUME 1 \in AtOnce
    PROVE  Spec => []BackOfficeTypeOK
<1>1. Init => BackOfficeInv
  BY KitInitInv, JobsInitInv, InitHolds, NobodyThere DEF Init, BackOfficeInv
<1>2. BackOfficeInv /\ [Next]_partVars => BackOfficeInv'
  <2> SUFFICES ASSUME BackOfficeInv, [Next]_partVars
               PROVE  BackOfficeInv'
    OBVIOUS
  <2>1. [KitNext]_kitVars /\ [JobsNext]_jobVars /\ [AccountsNext]_accountVars
    <3>1. CASE UNCHANGED partVars
      BY <3>1 DEF partVars
    <3>2. CASE Next
      BY <3>2 DEF Next
    <3> QED
      BY <3>1, <3>2
  <2>2. KitInv'
    BY <2>1, KitStepInv DEF BackOfficeInv
  <2>3. JobsInv'
    BY <2>1, JobsStepInv DEF BackOfficeInv
  <2>4. AccountsInv'
    BY <2>1, NextHolds DEF BackOfficeInv
  <2> QED
    BY <2>2, <2>3, <2>4 DEF BackOfficeInv
<1>3. BackOfficeInv => BackOfficeTypeOK
  BY DEF BackOfficeInv, BackOfficeTypeOK, KitInv, KitTyped, KitTypeOK, KitDoc, CampaignDoc, ClerkDoc,
         ClerkPc, Statuses, JobsInv, JobsTyped, JobsTypeOK, FiringDoc, AccountsInv
<1>4. QED
  BY <1>1, <1>2, <1>3, PTL DEF Spec
=============================================================================
