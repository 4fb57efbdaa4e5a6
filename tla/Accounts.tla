------------------------------- MODULE Accounts -------------------------------
(***************************************************************************)
(* Logins and the tribes they own.  Onboarding inserts a login, then its   *)
(* tribe, and takes the login back when the tribe cannot be saved; a tribe *)
(* is edited in two documents; settings are read, merged and written; a    *)
(* password change retires the sessions signed before it.  A visit is one  *)
(* request, each of its database calls one step.                           *)
(***************************************************************************)
EXTENDS Integers, FiniteSets

CONSTANTS
    Logins,          \* ids of users; a tribe goes by the id of its owner
    Addresses,       \* email addresses, in lower case
    Usernames,       \* storefront names
    OwnerNames,
    ConfigParts,     \* parts of the storefront's configuration
    Permissions,     \* features an admin switches on and off
    Visits,          \* numbered in the order they begin
    Veteran,         \* a login from before emails were stored in lower case
    Unset,           \* a field the request leaves out, or nobody wrote yet
    EditForms,       \* which fields an edit may carry together
    AccountDeaths,   \* bound on the visits that die half way
    AtOnce           \* how many visits may be under way together, one value for
                     \* each kind of behaviour

Settings == ConfigParts \cup Permissions

ASSUME AccountsAssumption ==
    /\ Visits \subseteq Nat /\ IsFiniteSet(Visits) /\ Veteran \in Logins /\ AccountDeaths \in Nat
    /\ AtOnce \subseteq Nat \ {0}
    /\ Unset \notin Logins \cup Addresses \cup Usernames \cup OwnerNames \cup Settings \cup Visits
    /\ ConfigParts \cap Permissions = {}

VARIABLES
    login,     \* login[u]: [exists, address, cased, name, password, tokenVersion]
    tribe,     \* tribe[u]: [exists, username, name, settings: those it has departed
               \* from the default in]
    visit,     \* visit[v]: where request v stands, what it was given and read
    sessions,  \* the tokens signed: [login, tv, password: what its holder proved or
               \* set, overtaken: whether it was changed again before the signing]
    saved,     \* saved[u]: the settings of u as they were last saved, one by one,
               \* as long as visits come one at a time
    halved,    \* logins renamed by an update that did not reach the tribe
    atOnce,    \* how many visits may be under way together
    visitsDied

accountVars == <<login, tribe, visit, sessions, saved, halved, atOnce, visitsDied>>

NoLogin == [exists |-> FALSE, address |-> Unset, cased |-> FALSE, name |-> Unset,
            password |-> Unset, tokenVersion |-> 0]
NoTribe == [exists |-> FALSE, username |-> Unset, name |-> Unset, settings |-> {}]
\* read: what the handler keeps of the documents it read at first.
Nothing == [password |-> Unset, tokenVersion |-> 0, settings |-> {}]
NoVisit == [pc |-> "idle", op |-> "none", login |-> Unset, address |-> Unset, username |-> Unset,
            name |-> Unset, setting |-> Unset, value |-> FALSE, read |-> Nothing]

VisitPc == {"idle", "username", "user", "tribe", "undo", "sign", "set", "reread",
            "email", "patch", "write", "merge", "done"}
LoginDoc == [exists: BOOLEAN, address: Addresses \cup {Unset}, cased: BOOLEAN,
             name: OwnerNames \cup {Unset}, password: Visits \cup {Unset}, tokenVersion: Nat]
TribeDoc == [exists: BOOLEAN, username: Usernames \cup {Unset}, name: OwnerNames \cup {Unset},
             settings: SUBSET Settings]
VisitDoc == [pc: VisitPc, op: {"none", "onboard", "login", "change", "reset", "edit", "grant"},
             login: Logins \cup {Unset}, address: Addresses \cup {Unset},
             username: Usernames \cup {Unset}, name: OwnerNames \cup {Unset},
             setting: Settings \cup {Unset}, value: BOOLEAN,
             read: [password: Visits \cup {Unset}, tokenVersion: Nat, settings: SUBSET Settings]]
Session == [login: Logins, tv: Nat, password: Visits \cup {Unset}, overtaken: BOOLEAN]

AccountsTypeOK ==
    /\ login \in [Logins -> LoginDoc]
    /\ tribe \in [Logins -> TribeDoc]
    /\ visit \in [Visits -> VisitDoc]
    /\ sessions \subseteq Session
    /\ saved \in [Logins -> SUBSET Settings]
    /\ halved \subseteq Logins
    /\ atOnce \in AtOnce
    /\ visitsDied \in 0 .. AccountDeaths

\* One tribe is there; its login may be older than the rule on emails.
AccountsInit ==
    /\ \E a \in Addresses, s \in Usernames, n \in OwnerNames, old \in BOOLEAN :
         /\ login = [[u \in Logins |-> NoLogin] EXCEPT ![Veteran] =
               [NoLogin EXCEPT !.exists = TRUE, !.address = a, !.cased = old, !.name = n]]
         /\ tribe = [[u \in Logins |-> NoTribe] EXCEPT ![Veteran] =
               [NoTribe EXCEPT !.exists = TRUE, !.username = s]]
    /\ visit = [v \in Visits |-> NoVisit]
    /\ sessions = {} /\ halved = {} /\ visitsDied = 0
    /\ saved = [u \in Logins |-> {}]
    /\ atOnce \in AtOnce

Read(u) == [password |-> login[u].password, tokenVersion |-> login[u].tokenVersion,
            settings |-> tribe[u].settings]
Users == {u \in Logins : login[u].exists}
Owners == {u \in Logins : tribe[u].exists}
UnderWay == {v \in Visits : visit[v].pc \notin {"idle", "done"}}
InTurn == atOnce = 1
VisitAt(v, pc) == visit[v].pc = pc
MayBegin(v) ==
    /\ VisitAt(v, "idle") /\ \A w \in Visits : w < v => ~VisitAt(w, "idle")
    /\ Cardinality(UnderWay) < atOnce
Enters(v, q) == visit' = [visit EXCEPT ![v] = q]
GoesTo(v, pc) == visit' = [visit EXCEPT ![v].pc = pc]
VisitEnds(v) == visit' = [visit EXCEPT ![v] = [NoVisit EXCEPT !.pc = "done"]]

\* Faulty variant: the email as it is stored.
findExact(a) == {u \in Users : login[u].address = a /\ ~login[u].cased}

\* Whatever its case; new emails are stored in lower case.
findOneByEmail(a) == {u \in Users : login[u].address = a}
EmailIndexHas(a, but) == \E u \in Users \ {but} : login[u].address = a /\ ~login[u].cased
UsernameTaken(s, but) == \E u \in Owners \ {but} : tribe[u].username = s

-----------------------------------------------------------------------------
\* tribes.service, create.
BeginOnboarding(v) ==
    /\ MayBegin(v)
    /\ \E a \in Addresses, s \in Usernames, n \in OwnerNames :
         /\ findOneByEmail(a) = {}
         /\ Enters(v, [NoVisit EXCEPT !.pc = "username", !.op = "onboard", !.address = a,
                                      !.username = s, !.name = n])
    /\ UNCHANGED <<login, tribe, sessions, saved, halved, atOnce, visitsDied>>

CheckUsername(v) ==
    /\ VisitAt(v, "username")
    /\ IF UsernameTaken(visit[v].username, Unset) THEN VisitEnds(v) ELSE GoesTo(v, "user")
    /\ UNCHANGED <<login, tribe, sessions, saved, halved, atOnce, visitsDied>>

\* A new ObjectId: no document and no request refers to it.
NewId(u) ==
    /\ ~login[u].exists /\ ~tribe[u].exists
    /\ \A v \in Visits : visit[v].login # u

InsertUser(v) ==
    LET q == visit[v]
    IN  /\ VisitAt(v, "user")
        /\ \/ /\ EmailIndexHas(q.address, Unset)
              /\ VisitEnds(v) /\ UNCHANGED login
           \/ /\ ~EmailIndexHas(q.address, Unset)
              /\ \E u \in Logins :
                   /\ NewId(u)
                   /\ login' = [login EXCEPT ![u] = [NoLogin EXCEPT !.exists = TRUE,
                         !.address = q.address, !.name = q.name, !.password = v]]
                   /\ visit' = [visit EXCEPT ![v] = [q EXCEPT !.pc = "tribe", !.login = u]]
        /\ UNCHANGED <<tribe, sessions, saved, halved, atOnce, visitsDied>>

\* The unique index decides a race for the username; the save may fail otherwise.
SaveTribe(v) ==
    LET q == visit[v]
    IN  /\ VisitAt(v, "tribe")
        /\ \/ /\ ~UsernameTaken(q.username, Unset)
              /\ tribe' = [tribe EXCEPT ![q.login] =
                    [NoTribe EXCEPT !.exists = TRUE, !.username = q.username]]
              /\ VisitEnds(v)
           \/ GoesTo(v, "undo") /\ UNCHANGED tribe
        /\ UNCHANGED <<login, sessions, saved, halved, atOnce, visitsDied>>

\* Faulty variant: the login of a tribe that could not be saved stays.
KeepUser(v) ==
    /\ VisitAt(v, "undo") /\ VisitEnds(v)
    /\ UNCHANGED <<login, tribe, sessions, saved, halved, atOnce, visitsDied>>

DeleteUser(v) ==
    /\ VisitAt(v, "undo")
    /\ login' = [login EXCEPT ![visit[v].login] = NoLogin]
    /\ VisitEnds(v)
    /\ UNCHANGED <<tribe, sessions, saved, halved, atOnce, visitsDied>>

-----------------------------------------------------------------------------
\* auth.service.  The user is read; whoever sent the right password gets a
\* token with the version that was read.
SignIn(v) ==
    /\ MayBegin(v)
    /\ \E u \in Users \cap Owners :
         Enters(v, [NoVisit EXCEPT !.pc = "sign", !.op = "login", !.login = u, !.read = Read(u)])
    /\ UNCHANGED <<login, tribe, sessions, saved, halved, atOnce, visitsDied>>

Token(u, doc, password) ==
    [login |-> u, tv |-> doc.tokenVersion, password |-> password,
     overtaken |-> doc.password # password]

Sign(v) ==
    LET q == visit[v]
    IN  /\ VisitAt(v, "sign")
        /\ sessions' = sessions \cup {Token(q.login, q.read, q.read.password)}
        /\ VisitEnds(v)
        /\ UNCHANGED <<login, tribe, saved, halved, atOnce, visitsDied>>

\* changePassword and an admin's resetPassword.
BeginPassword(v, op) ==
    /\ MayBegin(v)
    /\ \E u \in Users \cap Owners :
         Enters(v, [NoVisit EXCEPT !.pc = "set", !.op = op, !.login = u, !.read = Read(u)])
    /\ UNCHANGED <<login, tribe, sessions, saved, halved, atOnce, visitsDied>>

\* Faulty variant: the sessions live on.
SetPasswordOnly(v) ==
    LET q == visit[v]
    IN  /\ VisitAt(v, "set")
        /\ login' = [login EXCEPT ![q.login].password = v]
        /\ IF q.op = "change" THEN GoesTo(v, "reread") ELSE VisitEnds(v)
        /\ UNCHANGED <<tribe, sessions, saved, halved, atOnce, visitsDied>>

updatePassword(v) ==
    LET q == visit[v]
    IN  /\ VisitAt(v, "set")
        /\ login' = [login EXCEPT ![q.login].password = v, ![q.login].tokenVersion = @ + 1]
        /\ IF q.op = "change" THEN GoesTo(v, "reread") ELSE VisitEnds(v)
        /\ UNCHANGED <<tribe, sessions, saved, halved, atOnce, visitsDied>>

\* Faulty variant: the token is stamped with the version read at first.
SignForFirst(v) ==
    LET q == visit[v]
    IN  /\ VisitAt(v, "reread")
        /\ sessions' = sessions \cup {[Token(q.login, q.read, v) EXCEPT !.overtaken = FALSE]}
        /\ VisitEnds(v)
        /\ UNCHANGED <<login, tribe, saved, halved, atOnce, visitsDied>>

SignAgain(v) ==
    LET q == visit[v]
    IN  /\ VisitAt(v, "reread")
        /\ sessions' = sessions \cup {Token(q.login, login[q.login], v)}
        /\ VisitEnds(v)
        /\ UNCHANGED <<login, tribe, saved, halved, atOnce, visitsDied>>

\* The guard of every request.
validate(s) == login[s.login].exists /\ s.tv = login[s.login].tokenVersion

-----------------------------------------------------------------------------
\* tribes.service, update: the login's fields first, then the tribe's.
Field(f, form, values) == IF f \in form THEN values ELSE {Unset}

BeginEdit(v) ==
    /\ MayBegin(v)
    /\ \E u \in Owners, form \in EditForms :
       \E n \in Field("name", form, OwnerNames), a \in Field("address", form, Addresses),
          s \in Field("username", form, Usernames), c \in Field("config", form, ConfigParts),
          x \in IF "config" \in form THEN BOOLEAN ELSE {FALSE} :
         Enters(v, [NoVisit EXCEPT !.op = "edit", !.login = u, !.name = n, !.address = a,
                !.username = s, !.setting = c, !.value = x, !.read = Read(u),
                !.pc = IF a # Unset THEN "email" ELSE IF n # Unset THEN "patch" ELSE "write"])
    /\ UNCHANGED <<login, tribe, sessions, saved, halved, atOnce, visitsDied>>

CheckEmail(v) ==
    /\ VisitAt(v, "email")
    /\ IF findOneByEmail(visit[v].address) \subseteq {visit[v].login}
       THEN GoesTo(v, "patch") ELSE VisitEnds(v)
    /\ UNCHANGED <<login, tribe, sessions, saved, halved, atOnce, visitsDied>>

\* Whichever of the name and the address are given.
Patched(doc, q) ==
    [doc EXCEPT !.name = IF q.name = Unset THEN doc.name ELSE q.name,
                !.cased = IF q.address = Unset THEN doc.cased ELSE FALSE,
                !.address = IF q.address = Unset THEN doc.address ELSE q.address]

Patch(v) ==
    LET q == visit[v]
        u == q.login
        clash == q.address # Unset /\ EmailIndexHas(q.address, u)
    IN  /\ VisitAt(v, "patch")
        /\ login' = IF clash \/ u \notin Users THEN login
                    ELSE [login EXCEPT ![u] = Patched(login[u], q)]
        /\ halved' = IF clash \/ q.name = Unset THEN halved ELSE halved \cup {u}
        /\ IF clash THEN VisitEnds(v) ELSE GoesTo(v, "write")
        /\ UNCHANGED <<tribe, sessions, saved, atOnce, visitsDied>>

Having(parts, setting, value) == IF value THEN parts \cup {setting} ELSE parts \ {setting}

\* Faulty variant: the parts a request does not name are dropped.
Replaced(q, parts) == Having(tribe[q.login].settings \ parts, q.setting, q.value)

\* The parts read at first, with the one that is set; other fields are left alone.
Merged(q, parts) ==
    Having((q.read.settings \cap parts) \cup (tribe[q.login].settings \ parts), q.setting, q.value)
Remembers(q) ==
    saved' = IF q.setting = Unset \/ ~InTurn THEN saved
             ELSE [saved EXCEPT ![q.login] = Having(@, q.setting, q.value)]

Rewritten(doc, q) ==
    [doc EXCEPT !.username = IF q.username = Unset THEN doc.username ELSE q.username,
                !.name = IF q.name = Unset THEN doc.name ELSE q.name,
                !.settings = IF q.setting = Unset THEN doc.settings ELSE Merged(q, ConfigParts)]

\* A username that is taken fails the write, after the login was patched.
WriteTribe(v) ==
    LET q == visit[v]
        u == q.login
    IN  /\ VisitAt(v, "write")
        /\ \/ /\ q.username # Unset /\ UsernameTaken(q.username, u)
              /\ UNCHANGED <<tribe, saved, halved>>
           \/ /\ q.username # Unset => ~UsernameTaken(q.username, u)
              /\ tribe' = [tribe EXCEPT ![u] = Rewritten(tribe[u], q)]
              /\ halved' = IF q.name = Unset THEN halved ELSE halved \ {u}
              /\ Remembers(q)
        /\ VisitEnds(v)
        /\ UNCHANGED <<login, sessions, atOnce, visitsDied>>

\* updatePermissions: read, merged, written.
BeginGrant(v) ==
    /\ MayBegin(v)
    /\ \E u \in Owners, p \in Permissions, x \in BOOLEAN :
         Enters(v, [NoVisit EXCEPT !.pc = "merge", !.op = "grant", !.login = u, !.setting = p,
                                   !.value = x, !.read = Read(u)])
    /\ UNCHANGED <<login, tribe, sessions, saved, halved, atOnce, visitsDied>>

WriteGrant(v) ==
    LET q == visit[v]
    IN  /\ VisitAt(v, "merge")
        /\ tribe' = [tribe EXCEPT ![q.login].settings = Merged(q, Permissions)]
        /\ Remembers(q)
        /\ VisitEnds(v)
        /\ UNCHANGED <<login, sessions, halved, atOnce, visitsDied>>

VisitDies(v) ==
    /\ v \in UnderWay /\ visitsDied < AccountDeaths
    /\ visitsDied' = visitsDied + 1
    /\ VisitEnds(v)
    /\ UNCHANGED <<login, tribe, sessions, saved, halved, atOnce>>

AccountsNext ==
    \E v \in Visits :
        \/ BeginOnboarding(v) \/ CheckUsername(v) \/ InsertUser(v) \/ SaveTribe(v) \/ DeleteUser(v)
        \/ SignIn(v) \/ Sign(v) \/ updatePassword(v) \/ SignAgain(v)
        \/ \E op \in {"change", "reset"} : BeginPassword(v, op)
        \/ BeginEdit(v) \/ CheckEmail(v) \/ Patch(v) \/ WriteTribe(v)
        \/ BeginGrant(v) \/ WriteGrant(v) \/ VisitDies(v)

AccountsSpec == AccountsInit /\ [][AccountsNext]_accountVars

-----------------------------------------------------------------------------
AccountsRest == UnderWay = {}

\* No two logins share an address whatever its case, although the index tells
\* cases apart and the look-up comes earlier (findOneByEmail, create, update).
OneLoginPerAddress ==
    \A u, w \in Users : u # w => login[u].address # login[w].address

\* "a login without a tribe is an account that can sign in to nothing":
\* onboarding leaves none unless it died, and no tribe is ever without its login.
LoginsHaveTribes ==
    /\ Owners \subseteq Users
    /\ AccountsRest /\ visitsDied = 0 => Users = Owners

\* "every session issued before the change stops working", and the one handed
\* out by the change works: a session passes exactly while the password its
\* holder proved or set is the one in force (updatePassword, signFor, validate).
SessionsFollowPassword ==
    \A s \in sessions : ~s.overtaken => (validate(s) <=> login[s.login].password = s.password)

\* The same for a change that another change overtakes before its token is signed.
SessionsFollowPasswordAlways ==
    \A s \in sessions : validate(s) <=> login[s.login].password = s.password

\* "Tribe.name kept in sync too": once a tribe has a name it is its login's, if
\* visits come one at a time and the update reached the tribe (update).
NamesMirrored ==
    InTurn /\ AccountsRest => \A u \in Owners \ halved : tribe[u].name \in {Unset, login[u].name}

\* "Merge, don't replace": saving one part of the settings leaves the others as
\* they were last saved, if visits come one at a time (update, updatePermissions).
SettingsKept == InTurn => \A u \in Owners : tribe[u].settings = saved[u]

\* The accounts agree: one login per address, a tribe for each, sessions that
\* end with their password, and names and settings as they were saved.
AccountsAgree ==
    /\ OneLoginPerAddress /\ LoginsHaveTribes /\ SessionsFollowPassword
    /\ NamesMirrored /\ SettingsKept
=============================================================================
