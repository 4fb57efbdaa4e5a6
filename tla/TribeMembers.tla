----------------------------- MODULE TribeMembers -----------------------------
(***************************************************************************)
(* Tribe members: one document per (tribe, phone), derived from the orders *)
(* linked to it.  Every write to an order that can change a member is      *)
(* followed by recordOrder, which finds or creates the member, links the   *)
(* order and recomputes the member; each of its database calls is one step *)
(* here and the steps of different requests interleave.  The backfill      *)
(* script, which repairs what a dead request left, is one more process.    *)
(***************************************************************************)
EXTENDS Integers, FiniteSets, FiniteSetsExt

CONSTANTS
    Created,      \* ids of orders, 1 .. n in the order of their creation
    Phones,       \* phone numbers, each standing for one (tribe, phone) pair
    Members,      \* ids a member document may be given
    Writers,      \* requests that write orders
    Script,       \* the process of the backfill script
    MaxText,      \* addresses are 1 .. MaxText, 0 is "no full address yet"
    SYNC_ATTEMPTS,
    MemberOps,    \* the order writes of this instance
    Quiet,        \* the script runs while no request does
    Mortal,       \* requests may die half-way, one between two repairs
    Patient,      \* bound: after such a request, none starts before the repair
    Nobody        \* "no member", "no order", "no phone"

ASSUME MembersAssumption ==
    /\ Created \subseteq Nat \ {0} /\ IsFiniteSet(Created)
    /\ Nobody \notin Created \cup Phones \cup Members
    /\ MaxText \in Nat /\ SYNC_ATTEMPTS \in Nat \ {0}
    /\ MemberOps \subseteq {"create", "edit", "attach", "delete", "restore",
                            "backfill"}
    /\ Script \notin Writers
    /\ Quiet \in BOOLEAN /\ Mortal \in BOOLEAN /\ Patient \in BOOLEAN

Texts == 0 .. MaxText

\* The fields of an order a member is made of, and its link to the member.
Purchase == [phone: Phones \cup {Nobody}, text: Texts, deleted: BOOLEAN,
             link: Members \cup {Nobody}]
NoPurchase == [phone |-> Nobody, text |-> 0, deleted |-> FALSE, link |-> Nobody]

(***************************************************************************)
(* MemberFields.  `latest' stands for the contact details: the last value  *)
(* an order gives.  `addresses' maps an address to the order that used it  *)
(* last; dates are the ids of the orders, which are in their order.        *)
(***************************************************************************)
NoFields == [latest |-> 0, addresses |-> {}, count |-> 0,
             first |-> 0, last |-> 0, joined |-> 0]

hasFullAddress(p) == p.text # 0

\* What a member of these orders should look like; docs[o] is order o.
buildMemberFields(docs) ==
    LET all    == DOMAIN docs
        live   == {o \in all : ~docs[o].deleted}
        placed == {o \in all : hasFullAddress(docs[o])}
        newest(t) == Max({o \in placed : docs[o].text = t})
        orZero(S, pick(_)) == IF S = {} THEN 0 ELSE pick(S)
    IN  [latest    |-> IF placed = {} THEN 0 ELSE docs[Max(placed)].text,
         addresses |-> {<<docs[o].text, newest(docs[o].text)>> : o \in placed},
         count     |-> Cardinality(live),
         first     |-> orZero(live, Min),
         last      |-> orZero(live, Max),
         joined    |-> orZero(all, Min)]

\* A member document.  Its version (__v) only tells whether somebody wrote the
\* member since a request read it, so that is kept, with the request.
NoMember == [phone |-> Nobody, fields |-> NoFields]

Fields == [latest: Texts, addresses: SUBSET (Texts \X Created), count: Nat,
           first: Nat, last: Nat, joined: Nat]

SyncPc == {"idle", "save", "read", "find", "upsert", "link",
           "member", "picture", "write", "remove"}

(***************************************************************************)
(* A request: the orders it still has to save with the address and the     *)
(* phone it was given, the order it records with the phone and the member  *)
(* it saw in it, the member it works on, as it read it and whether that is *)
(* still its version, the fields it computed, its tries.                   *)
(***************************************************************************)
Writer == [pc: SyncPc, left: SUBSET Created, text: Texts,
           given: Phones \cup {Nobody},
           phone: Phones \cup {Nobody}, order: Created \cup {Nobody},
           member: Members \cup {Nobody}, previous: Members \cup {Nobody},
           fresh: BOOLEAN, stored: Fields, fields: Fields, tries: Nat, pass: 0 .. 1]

Resting == [pc |-> "idle", left |-> {}, text |-> 0, given |-> Nobody,
            phone |-> Nobody, order |-> Nobody, member |-> Nobody, previous |-> Nobody, fresh |-> FALSE,
            stored |-> NoFields, fields |-> NoFields, tries |-> 0, pass |-> 0]

VARIABLES
    purchase,  \* purchase[o]: the order stored under id o
    member,    \* member[m]: the member stored under id m
    writer,    \* writer[w]: where request w (or the script) stands
    script,    \* what the backfill has read and has still to do
    drift      \* whether, since the last repair, a request left before all it changed
               \* was right: it died, gave up or was misled, or the order it was
               \* recording was changed under its hands

membersVars == <<purchase, member, writer, script, drift>>

Everyone == Writers \cup {Script}

\* The orders as the script read them, the (tribe, phone) groups it has still
\* to link, the members it has to look at again in the end, and whether it
\* took an order from another member.
Backfill == [phase: {"off", "existing", "groups", "sweep"},
             seen: [Created -> Purchase], left: SUBSET Phones,
             sweep: SUBSET Members, moved: BOOLEAN]
NoBackfill == [phase |-> "off", seen |-> [o \in Created |-> NoPurchase],
               left |-> {}, sweep |-> {}, moved |-> FALSE]

MembersTypeOK ==
    /\ purchase \in [Created -> Purchase]
    /\ member \in [Members -> [phone: Phones \cup {Nobody}, fields: Fields]]
    /\ writer \in [Everyone -> Writer]
    /\ script \in Backfill
    /\ drift \in BOOLEAN

MembersInit ==
    /\ purchase = [o \in Created |-> NoPurchase]
    /\ member = [m \in Members |-> NoMember]
    /\ writer = [w \in Everyone |-> Resting]
    /\ script = NoBackfill
    /\ drift = FALSE

Placed(o)  == purchase[o].phone # Nobody
Exists(m)  == member[m].phone # Nobody
Linked(m)  == {o \in Created : purchase[o].link = m}
PictureOf(m) == buildMemberFields([o \in Linked(m) |-> purchase[o]])

\* A new ObjectId: no document and no request refers to it.
Unused(m) ==
    /\ ~Exists(m) /\ Linked(m) = {}
    /\ m \notin script.sweep
    /\ \A w \in Everyone : writer[w].member # m /\ writer[w].previous # m

WriterAt(w, pc) == writer[w].pc = pc

\* Nothing stops a write to an order that another request is recording; the
\* link that one is about to write is then made from the order as it was.
Recording(o) == \E w \in Writers : writer[w].order = o

StartsWrite(w, op) ==
    /\ op \in MemberOps /\ w \in Writers
    /\ WriterAt(w, "idle")
    /\ Quiet => script.phase = "off"
    /\ Patient => ~drift

Go(w, q) == writer' = [writer EXCEPT ![w] = q]

Record(o) == [Resting EXCEPT !.pc = "read", !.order = o]

-----------------------------------------------------------------------------
(***************************************************************************)
(* The order writes: each is followed by recordOrder.                      *)
(***************************************************************************)

\* POST /orders and a re-send save a new order; ids are in time order.
PlaceOrder(w, o, p, t) ==
    /\ StartsWrite(w, "create")
    /\ ~Placed(o) /\ \A x \in Created : x < o => Placed(x)
    /\ purchase' = [purchase EXCEPT ![o] = [NoPurchase EXCEPT !.phone = p, !.text = t]]
    /\ Go(w, Record(o))
    /\ UNCHANGED <<member, script, drift>>

\* updateAddress reads one order ...
ReadForAddress(w, o, p, t) ==
    /\ StartsWrite(w, "edit")
    /\ Placed(o)
    /\ Go(w, [Resting EXCEPT !.pc = "save", !.left = {o}, !.text = t, !.given = p])
    /\ UNCHANGED <<purchase, member, script, drift>>

\* ... attachAddressByPhone every order of a phone that still lacks an address.
FindPending(w, p, t) ==
    LET pending == {o \in Created : /\ purchase[o].phone = p /\ ~purchase[o].deleted
                                    /\ ~hasFullAddress(purchase[o])}
    IN  /\ StartsWrite(w, "attach")
        /\ pending # {}
        /\ Go(w, [Resting EXCEPT !.pc = "save", !.left = pending, !.text = t,
                                 !.given = p])
        /\ UNCHANGED <<purchase, member, script, drift>>

\* The save of one order; the loop of attach saves and records them in turn.
SaveAddress(w) ==
    /\ WriterAt(w, "save")
    /\ \E o \in writer[w].left :
          /\ \A x \in writer[w].left : o <= x
          /\ purchase' = [purchase EXCEPT ![o].phone = writer[w].given,
                                          ![o].text = writer[w].text]
          /\ drift' = (drift \/ Recording(o))
          /\ Go(w, [writer[w] EXCEPT !.pc = "read", !.order = o, !.left = @ \ {o}])
    /\ UNCHANGED <<member, script>>

\* deleteOrder and restoreOrder flip the flag on condition of its old value.
FlipDeleted(w, o, flag) ==
    /\ StartsWrite(w, IF flag THEN "delete" ELSE "restore")
    /\ Placed(o) /\ purchase[o].deleted # flag
    /\ purchase' = [purchase EXCEPT ![o].deleted = flag]
    /\ drift' = (drift \/ Recording(o))
    /\ Go(w, Record(o))
    /\ UNCHANGED <<member, script>>

-----------------------------------------------------------------------------
(***************************************************************************)
(* recordOrder, upsertMember and syncMember, call by call.                 *)
(***************************************************************************)

\* The order is recorded: on with the next one of the request, if any.
Recorded(q) ==
    IF q.left = {} THEN Resting
    ELSE [Resting EXCEPT !.pc = "save", !.left = q.left, !.text = q.text,
                         !.given = q.given]

\* A member is synced: the member the order was linked to before comes next.
Synced(q) ==
    IF q.previous \notin {Nobody, q.member}
    THEN [Recorded(q) EXCEPT !.pc = "member", !.member = q.previous]
    ELSE Recorded(q)

\* recordOrder reads the order afresh.
ReadPurchase(w) ==
    /\ WriterAt(w, "read")
    /\ LET p == purchase[writer[w].order]
       IN  Go(w, [writer[w] EXCEPT !.pc = "find", !.phone = p.phone,
                                   !.previous = p.link])
    /\ UNCHANGED <<purchase, member, script, drift>>

\* The orders a request or the script has to link to the member m it found:
\* the order it records, or those of the script's group that were not linked
\* to m when the script read them.
InGroup(p) == {o \in Created : script.seen[o].phone = p}
ToLink(w, m) ==
    IF w = Script THEN {o \in InGroup(writer[w].phone) : script.seen[o].link # m}
    ELSE {writer[w].order} \ {o \in Created : writer[w].previous = m}

Found(w, m) ==
    [writer[w] EXCEPT !.pc = IF ToLink(w, m) = {} THEN "member" ELSE "link",
                      !.member = m]

Owner(p) == {m \in Members : member[m].phone = p}

FindMember(w) ==
    /\ WriterAt(w, "find")
    /\ \/ /\ Owner(writer[w].phone) = {}
          /\ Go(w, [writer[w] EXCEPT !.pc = "upsert"])
       \/ \E m \in Owner(writer[w].phone) : Go(w, Found(w, m))
    /\ UNCHANGED <<purchase, member, script, drift>>

\* Faulty variant: an insert that no unique index stops.
InsertMember(w) ==
    /\ WriterAt(w, "upsert")
    /\ \E m \in Members :
          /\ Unused(m)
          /\ member' = [member EXCEPT ![m] = [NoMember EXCEPT !.phone = writer[w].phone]]
          /\ Go(w, Found(w, m))
    /\ UNCHANGED <<purchase, script, drift>>

\* The upsert on the unique index; a loser of two of them re-reads the winner.
UpsertMember(w) ==
    /\ WriterAt(w, "upsert")
    /\ \/ /\ Owner(writer[w].phone) = {}
          /\ \E m \in Members :
                /\ Unused(m)
                /\ member' = [member EXCEPT ![m] = [NoMember EXCEPT !.phone = writer[w].phone]]
                /\ Go(w, Found(w, m))
       \/ \E m \in Owner(writer[w].phone) :
             Go(w, Found(w, m)) /\ UNCHANGED member
    /\ UNCHANGED <<purchase, script, drift>>

\* The script remembers the members it took orders from.
LinkOrder(w) ==
    LET q == writer[w]
        S == ToLink(w, q.member)
    IN  /\ WriterAt(w, "link")
        /\ purchase' = [o \in Created |-> IF o \in S THEN [purchase[o] EXCEPT !.link = q.member]
                                         ELSE purchase[o]]
        /\ script' = IF w # Script THEN script
                     ELSE LET from == {script.seen[o].link : o \in S} \ {Nobody}
                          IN  [script EXCEPT !.sweep = @ \cup from,
                                             !.moved = @ \/ from # {}]
        /\ Go(w, [q EXCEPT !.pc = "member"])
        /\ UNCHANGED <<member, drift>>

\* syncMember reads the member.  One that is gone sends recordOrder round once
\* more, where it no longer knows the member the order left; a previous member
\* that is gone needs nothing.
ReadMember(w) ==
    LET q == writer[w]
    IN  /\ WriterAt(w, "member")
        /\ \/ /\ Exists(q.member)
              /\ Go(w, [q EXCEPT !.pc = "picture", !.fresh = TRUE,
                                 !.stored = member[q.member].fields])
              /\ UNCHANGED drift
           \/ /\ ~Exists(q.member) /\ q.order = Nobody
              /\ Go(w, Recorded(q))
              /\ UNCHANGED drift
           \/ /\ ~Exists(q.member) /\ q.order # Nobody /\ q.pass = 0
              /\ Go(w, [q EXCEPT !.pc = "read", !.pass = 1, !.tries = 0,
                                 !.member = Nobody])
              /\ drift' = (drift \/ q.previous \notin {Nobody, q.member})
           \/ /\ ~Exists(q.member) /\ q.order # Nobody /\ q.pass = 1
              /\ Go(w, Recorded(q))
              /\ drift' = TRUE
        /\ UNCHANGED <<purchase, member, script>>

SameVersion(q) == Exists(q.member) /\ q.fresh

\* The orders are again what the member showed when w read it, but meanwhile
\* they were not, and a request that saw them so has written, or is about to
\* write, what they gave then.  The comparison does not tell.
Misled(w) ==
    LET m == writer[w].member
    IN  \/ ~SameVersion(writer[w])
        \/ \E x \in Everyone \ {w} :
              /\ writer[x].member = m /\ SameVersion(writer[x])
              /\ \/ WriterAt(x, "write") /\ writer[x].fields # PictureOf(m)
                 \/ WriterAt(x, "remove")

\* It reads the orders linked to the member and compares.
ReadPicture(w) ==
    LET q == writer[w]
        f == PictureOf(q.member)
    IN  /\ WriterAt(w, "picture")
        /\ \/ /\ Linked(q.member) = {}
              /\ Go(w, [q EXCEPT !.pc = "remove", !.stored = NoFields])
              /\ UNCHANGED drift
           \/ /\ Linked(q.member) # {} /\ f = q.stored
              /\ Go(w, Synced(q))
              /\ drift' = (drift \/ Misled(w))
           \/ /\ Linked(q.member) # {} /\ f # q.stored
              /\ Go(w, [q EXCEPT !.pc = "write", !.stored = NoFields, !.fields = f])
              /\ UNCHANGED drift
        /\ UNCHANGED <<purchase, member, script>>

\* The version moved: start over, or give up after SYNC_ATTEMPTS (the error of
\* a request is logged, that of the script ends it).
Again(w) ==
    LET q == writer[w]
    IN  \/ /\ q.tries + 1 < SYNC_ATTEMPTS
           /\ Go(w, [q EXCEPT !.pc = "member", !.fields = NoFields, !.fresh = FALSE,
                              !.tries = @ + 1])
           /\ UNCHANGED <<script, drift>>
        \/ /\ q.tries + 1 >= SYNC_ATTEMPTS
           /\ Go(w, Recorded(q))
           /\ script' = IF w = Script THEN NoBackfill ELSE script
           /\ drift' = TRUE

\* Request w is done with its member; the version others read is an old one.
Written(w) ==
    writer' = [x \in Everyone |->
                  IF x = w THEN Synced(writer[w])
                  ELSE IF writer[x].member = writer[w].member
                  THEN [writer[x] EXCEPT !.fresh = FALSE] ELSE writer[x]]

\* Faulty variant: the write is not conditional on the version.
WriteMemberBlindly(w) ==
    /\ WriterAt(w, "write")
    /\ member' = [member EXCEPT ![writer[w].member].fields = writer[w].fields]
    /\ Written(w)
    /\ UNCHANGED <<purchase, script, drift>>

WriteMember(w) ==
    /\ WriterAt(w, "write")
    /\ \/ /\ SameVersion(writer[w])
          /\ member' = [member EXCEPT ![writer[w].member].fields = writer[w].fields]
          /\ Written(w)
          /\ UNCHANGED <<script, drift>>
       \/ ~SameVersion(writer[w]) /\ Again(w) /\ UNCHANGED member
    /\ UNCHANGED purchase

\* A member without orders goes, on the same condition.
RemoveMember(w) ==
    /\ WriterAt(w, "remove")
    /\ \/ /\ SameVersion(writer[w])
          /\ member' = [member EXCEPT ![writer[w].member] = NoMember]
          /\ Written(w)
          /\ UNCHANGED <<script, drift>>
       \/ ~SameVersion(writer[w]) /\ Again(w) /\ UNCHANGED member
    /\ UNCHANGED purchase

-----------------------------------------------------------------------------
(***************************************************************************)
(* The backfill script: it reads all orders, then all members, then links  *)
(* and syncs group by group, and last syncs the members it took orders     *)
(* from and those no group maps to.                                        *)
(***************************************************************************)
ScriptAt(phase) == script.phase = phase /\ WriterAt(Script, "idle")

StartBackfill ==
    /\ "backfill" \in MemberOps /\ ScriptAt("off")
    /\ Quiet => \A w \in Writers : WriterAt(w, "idle")
    /\ \E o \in Created : Placed(o)
    /\ script' = [phase |-> "existing", seen |-> purchase, sweep |-> {}, moved |-> FALSE,
                  left |-> {purchase[o].phone : o \in {x \in Created : Placed(x)}}]
    /\ UNCHANGED <<purchase, member, writer, drift>>

ReadExisting ==
    /\ ScriptAt("existing")
    /\ script' = [script EXCEPT !.phase = "groups",
                                !.sweep = {m \in Members : Exists(m)}]
    /\ UNCHANGED <<purchase, member, writer, drift>>

BackfillGroup(p) ==
    /\ ScriptAt("groups") /\ p \in script.left
    /\ script' = [script EXCEPT !.left = @ \ {p}]
    /\ Go(Script, [Resting EXCEPT !.pc = "find", !.phone = p])
    /\ UNCHANGED <<purchase, member, drift>>

\* The members that are some group's own are left out of the sweep.
ReadCurrent ==
    /\ ScriptAt("groups") /\ script.left = {}
    /\ script' = [script EXCEPT !.phase = "sweep",
                    !.sweep = {m \in @ : ~ \E o \in Created :
                                  script.seen[o].phone \in Phones \cap {member[m].phone}}]
    /\ UNCHANGED <<purchase, member, writer, drift>>

SweepMember(m) ==
    /\ ScriptAt("sweep") /\ m \in script.sweep
    /\ script' = [script EXCEPT !.sweep = @ \ {m}]
    /\ Go(Script, [Resting EXCEPT !.pc = "member", !.member = m])
    /\ UNCHANGED <<purchase, member, drift>>

\* A run that had the database to itself and took no order from another member
\* has repaired everything; one that did may leave that member for the next run.
BackfillDone ==
    /\ ScriptAt("sweep") /\ script.sweep = {}
    /\ script' = NoBackfill
    /\ drift' = (drift /\ ~(Quiet /\ ~script.moved))
    /\ UNCHANGED <<purchase, member, writer>>

\* A request dies before its order is recorded, or the script half-way.
WriterDies(w) ==
    /\ Mortal /\ ~drift
    /\ ~WriterAt(w, "idle") \/ (w = Script /\ script.phase # "off")
    /\ drift' = TRUE
    /\ Go(w, Resting)
    /\ script' = IF w = Script THEN NoBackfill ELSE script
    /\ UNCHANGED <<purchase, member>>

-----------------------------------------------------------------------------
MembersNext ==
    \/ \E w \in Writers :
          \/ \E o \in Created, p \in Phones, t \in Texts : PlaceOrder(w, o, p, t)
          \/ \E o \in Created, p \in Phones, t \in Texts \ {0} : ReadForAddress(w, o, p, t)
          \/ \E p \in Phones, t \in Texts \ {0} : FindPending(w, p, t)
          \/ \E o \in Created, flag \in BOOLEAN : FlipDeleted(w, o, flag)
          \/ SaveAddress(w)
          \/ ReadPurchase(w)
    \/ \E w \in Everyone :
          \/ FindMember(w)   \/ UpsertMember(w) \/ LinkOrder(w)
          \/ ReadMember(w)   \/ ReadPicture(w)
          \/ WriteMember(w)  \/ RemoveMember(w) \/ WriterDies(w)
    \/ StartBackfill \/ ReadExisting \/ ReadCurrent \/ BackfillDone
    \/ \E p \in Phones : BackfillGroup(p)
    \/ \E m \in Members : SweepMember(m)

MembersSpec == MembersInit /\ [][MembersNext]_membersVars

-----------------------------------------------------------------------------
AtRest == (\A w \in Everyone : WriterAt(w, "idle")) /\ script.phase = "off"

EverythingMatches ==
    /\ \A o \in Created : Placed(o) =>
          /\ purchase[o].link \in Members
          /\ member[purchase[o].link].phone = purchase[o].phone
    /\ \A m \in Members : Exists(m) =>
          /\ Linked(m) # {}
          /\ member[m].fields = PictureOf(m)

\* Between requests, however their calls interleaved, every order is linked to
\* the one member with its phone, no member is left without orders, and a member
\* shows exactly what buildMemberFields makes of its orders; unless one died,
\* gave up or was misled, or an order was changed while another request was
\* recording it.  A backfill that moved no order restores this after any of
\* these (recordOrder, syncMember, the script).
MembersMatch == AtRest /\ ~drift => EverythingMatches

\* A completed run of the script leaves nothing for a second one to change
\* (backfill-tribe-members.ts, "Idempotent").
BackfillIdempotent == Quiet /\ ScriptAt("sweep") /\ script.sweep = {} => EverythingMatches

\* However upserts race, one (tribe, phone) never has two members
\* (upsertMember on the unique index).
OneMemberPerPhone ==
    \A m, n \in Members : Exists(m) /\ m # n => member[m].phone # member[n].phone

\* The members of a tribe: one for each phone, and each what its orders make it.
MembersInOrder == OneMemberPerPhone /\ MembersMatch
=============================================================================
