------------------------------ MODULE Packing -------------------------------
(***************************************************************************)
(* The pool of postal barcodes (barcodes.service.ts) and the handlers of   *)
(* orders.service.ts that draw on it: pack, cancel, delete, restore and    *)
(* revert-status.  A barcode is a tracking number; two parcels must never  *)
(* carry the same one.  As in module Orders, every awaited database call   *)
(* is an action.                                                           *)
(*                                                                         *)
(* Stock, commission and approval are left to module Orders.  DISPATCHED   *)
(* stands for DELIVERED too: from there on a parcel keeps its number.      *)
(***************************************************************************)
EXTENDS Naturals

CONSTANTS
    Orders,      \* the orders on the board
    Codes,       \* the barcodes the post office printed
    Kinds,       \* delivery types: Speed Post, Business Parcel
    Requests,    \* HTTP requests in flight
    Ops,         \* the operations of this instance
    Exclusive,   \* TRUE: no two requests work on the same order at a time
    MaxCrashes,  \* bound on the requests that die half-way
    Typed,       \* a tracking number typed by hand
    None         \* "not set"

ASSUME PackingAssumption ==
    /\ None \notin Orders \cup Codes \cup Kinds \cup Requests
    /\ Typed \notin Codes \cup {None}
    /\ "hand" \notin Requests \cup {None}
    /\ Exclusive \in BOOLEAN
    /\ MaxCrashes \in Nat

Status == {"NEW", "PACKED", "DISPATCHED", "CANCELLED"}

\* The moves of PATCH status that do not claim a barcode: <<from, to>>.
Moves ==
    {<<"NEW", "PACKED">>, <<"NEW", "DISPATCHED">>, <<"NEW", "CANCELLED">>,
     <<"PACKED", "PACKED">>, <<"PACKED", "DISPATCHED">>,
     <<"PACKED", "CANCELLED">>, <<"DISPATCHED", "DISPATCHED">>}

\* The fields of an order document that matter here: deliveryType,
\* trackingNumber and barcodePending.
Doc == [status: Status, deleted: BOOLEAN, kind: Kinds \cup {None},
        shown: Codes \cup {Typed, None}, pending: BOOLEAN]

\* A barcode document.  `kind' is None until it is uploaded; `mark' is
\* manuallyUsedAt: set by hand, or by the request that reserved it.
Barcode == [kind: Kinds \cup {None}, holder: Orders \cup {None},
            mark: Requests \cup {"hand", None}]

Op == {"pack", "move", "delete", "restore", "revert", "kind", "unmark"}

Pc == {"idle", "had", "find", "claim", "reread", "reserve", "swap", "convert",
       "handback", "write", "giveback", "move", "release", "clear", "save",
       "unmark"}

\* A request: the order it works on, the status it read and the one it moves
\* to, the delivery type it packs for and whether it writes it, the typed
\* number, whether the order had a barcode, the barcode it goes for and the
\* one it swaps.
Request == [op: Op, pc: Pc, order: Orders \cup {None}, was: Status, to: Status,
            kind: Kinds \cup {None}, sets: BOOLEAN, typed: {Typed, None},
            had: BOOLEAN, code: Codes \cup {None}, old: Codes \cup {None}]

Idle == [op |-> "pack", pc |-> "idle", order |-> None, was |-> "NEW",
         to |-> "NEW", kind |-> None, sets |-> FALSE, typed |-> None,
         had |-> FALSE, code |-> None, old |-> None]

VARIABLES
    order,    \* order[o]: the order document
    pool,     \* pool[c]: the barcode document
    req,      \* req[r]: where request r stands
    crashes   \* requests that died half-way

vars == <<order, pool, req, crashes>>

TypeOK ==
    /\ order \in [Orders -> Doc]
    /\ pool \in [Codes -> Barcode]
    /\ req \in [Requests -> Request]
    /\ crashes \in Nat

\* New orders with or without a delivery type, and nothing uploaded yet.
Init ==
    /\ order \in [Orders -> [status: {"NEW"}, deleted: {FALSE},
                             kind: Kinds \cup {None}, shown: {None}, pending: {FALSE}]]
    /\ pool = [c \in Codes |-> [kind |-> None, holder |-> None, mark |-> None]]
    /\ req = [r \in Requests |-> Idle]
    /\ crashes = 0

Live(o) == ~order[o].deleted
Held(o) == {c \in Codes : pool[c].holder = o}

\* Faulty variant: a write-off is overlooked.
Unheld(k) == {c \in Codes : pool[c].kind = k /\ pool[c].holder = None}

\* { type, ...AVAILABLE }: uploaded, held by no order and not written off.
Available(k) ==
    {c \in Codes : pool[c].kind = k /\ pool[c].holder = None /\ pool[c].mark = None}

Starts(r, op, o) ==
    /\ op \in Ops
    /\ req[r].pc = "idle"
    /\ Exclusive /\ o # None => \A p \in Requests : req[p].order # o

At(r, pc) == req[r].pc = pc

Goto(r, pc)    == req' = [req EXCEPT ![r].pc = pc]
Finish(r)      == req' = [req EXCEPT ![r] = Idle]
WriteWith(r, c) == req' = [req EXCEPT ![r].pc = "write", ![r].code = c]

-----------------------------------------------------------------------------
(***************************************************************************)
(* PATCH status to PACKED without a typed number: validate, look whether   *)
(* the order has a barcode, assignToOrder, then the conditional write.     *)
(***************************************************************************)
ReadForPack(r, o, k) ==
    /\ Starts(r, "pack", o)
    /\ Live(o)
    /\ <<order[o].status, "PACKED">> \in Moves
    /\ k # None \/ order[o].kind # None
    /\ req' = [req EXCEPT ![r] = [Idle EXCEPT !.pc = "had", !.order = o,
                 !.was = order[o].status, !.to = "PACKED",
                 !.kind = IF k # None THEN k ELSE order[o].kind,
                 !.sets = k \notin {None, order[o].kind}]]
    /\ UNCHANGED <<order, pool, crashes>>

\* hadBarcode = !!(await findByOrder(id))
SeeBarcode(r) ==
    /\ At(r, "had")
    /\ req' = [req EXCEPT ![r].pc = "find", ![r].had = Held(req[r].order) # {}]
    /\ UNCHANGED <<order, pool, crashes>>

\* Faulty variant: a barcode of the wrong delivery type is kept.
FindHeldAnyKind(r) ==
    /\ At(r, "find")
    /\ \/ Held(req[r].order) = {} /\ Goto(r, "claim")
       \/ \E c \in Held(req[r].order) : WriteWith(r, c)
    /\ UNCHANGED <<order, pool, crashes>>

\* assignToOrder reads what the order holds: the same type is kept, another
\* type is swapped, nothing is claimed.
FindHeld(r) ==
    /\ At(r, "find")
    /\ \/ Held(req[r].order) = {} /\ Goto(r, "claim")
       \/ \E c \in Held(req[r].order) :
             IF pool[c].kind = req[r].kind THEN WriteWith(r, c)
             ELSE req' = [req EXCEPT ![r].pc = "reserve", ![r].old = c]
    /\ UNCHANGED <<order, pool, crashes>>

\* Faulty variant: the unique index on assignedOrderId is missing.
ClaimWithoutIndex(r) ==
    /\ At(r, "claim")
    /\ \/ /\ Available(req[r].kind) = {}
          /\ WriteWith(r, None)
          /\ UNCHANGED pool
       \/ \E c \in Available(req[r].kind) :
             /\ pool' = [pool EXCEPT ![c].holder = req[r].order]
             /\ WriteWith(r, c)
    /\ UNCHANGED <<order, crashes>>

\* Faulty variant: the claim does not look whether the barcode is taken.
ClaimTaken(r) ==
    /\ At(r, "claim")
    /\ \E c \in Codes :
          /\ pool[c].kind = req[r].kind
          /\ pool' = [pool EXCEPT ![c].holder = req[r].order]
          /\ WriteWith(r, c)
    /\ UNCHANGED <<order, crashes>>

\* The claim: one write on an available barcode.  The unique index refuses it
\* if another request has given the order a barcode in the meantime.
Claim(r) ==
    /\ At(r, "claim")
    /\ \/ /\ Available(req[r].kind) = {}
          /\ WriteWith(r, None)
          /\ UNCHANGED pool
       \/ \E c \in Available(req[r].kind) :
             IF Held(req[r].order) = {}
             THEN /\ pool' = [pool EXCEPT ![c].holder = req[r].order]
                  /\ WriteWith(r, c)
             ELSE /\ Goto(r, "reread")
                  /\ UNCHANGED pool
    /\ UNCHANGED <<order, crashes>>

\* The loser of that race goes with whatever the order holds now.
Reread(r) ==
    /\ At(r, "reread")
    /\ \/ Held(req[r].order) = {} /\ WriteWith(r, None)
       \/ \E c \in Held(req[r].order) : WriteWith(r, c)
    /\ UNCHANGED <<order, pool, crashes>>

\* switchType: reserve a barcode of the new type by writing it off, ...
Reserve(r) ==
    /\ At(r, "reserve")
    /\ \/ /\ Available(req[r].kind) = {}
          /\ WriteWith(r, None)
          /\ UNCHANGED pool
       \/ \E c \in Available(req[r].kind) :
             /\ pool' = [pool EXCEPT ![c].mark = r]
             /\ req' = [req EXCEPT ![r].pc = "swap", ![r].code = c]
    /\ UNCHANGED <<order, crashes>>

\* ... give the old one back, if the order still holds it, ...
ReleaseOld(r) ==
    /\ At(r, "swap")
    /\ pool' = IF pool[req[r].old].holder = req[r].order
               THEN [pool EXCEPT ![req[r].old].holder = None] ELSE pool
    /\ Goto(r, "convert")
    /\ UNCHANGED <<order, crashes>>

\* ... and turn the reservation, if it still stands, into the assignment.
Convert(r) ==
    LET c == req[r].code
    IN  /\ At(r, "convert")
        /\ \/ /\ pool[c].mark = r /\ Held(req[r].order) = {}
              /\ pool' = [pool EXCEPT ![c].mark = None, ![c].holder = req[r].order]
              /\ WriteWith(r, c)
           \/ \* the unique index: a concurrent pack got there first
              /\ pool[c].mark = r /\ Held(req[r].order) # {}
              /\ Goto(r, "handback")
              /\ UNCHANGED pool
           \/ \* the reservation was undone: null, read as "pending"
              /\ pool[c].mark # r
              /\ WriteWith(r, None)
              /\ UNCHANGED pool
        /\ UNCHANGED <<order, crashes>>

\* releaseOne: unconditional.
HandBack(r) ==
    /\ At(r, "handback")
    /\ pool' = [pool EXCEPT ![req[r].code].holder = None, ![req[r].code].mark = None]
    /\ Goto(r, "reread")
    /\ UNCHANGED <<order, crashes>>

\* Faulty variant: the barcode itself lands in the pending flag.
LabelledByCode(d, c) == [d EXCEPT !.shown = c, !.pending = c]

\* The document with the barcode that was assigned, or flagged as pending.
Labelled(d, c) == [d EXCEPT !.shown = IF c # None THEN c ELSE @, !.pending = c = None]

\* The conditional write of a pack.  If the order changed meanwhile, a barcode
\* claimed for it is to be given back.
WritePacked(r) ==
    LET o == req[r].order
        q == req[r]
    IN  /\ At(r, "write") /\ q.op = "pack"
        /\ IF Live(o) /\ order[o].status = q.was
           THEN /\ order' = [order EXCEPT ![o] =
                       [Labelled(order[o], q.code) EXCEPT !.status = "PACKED",
                          !.kind = IF q.sets THEN q.kind ELSE @]]
                /\ Finish(r)
           ELSE /\ IF q.code # None /\ ~q.had THEN Goto(r, "giveback") ELSE Finish(r)
                /\ UNCHANGED order
        /\ UNCHANGED <<pool, crashes>>

GiveBack(r) ==
    /\ At(r, "giveback")
    /\ pool' = [pool EXCEPT ![req[r].code].holder = None, ![req[r].code].mark = None]
    /\ Finish(r)
    /\ UNCHANGED <<order, crashes>>

-----------------------------------------------------------------------------
(***************************************************************************)
(* The other moves of PATCH status: dispatch, deliver, cancel, and any of  *)
(* them with a tracking number typed in (not on a cancel).                 *)
(***************************************************************************)
ReadForMove(r, o, s, t) ==
    /\ Starts(r, "move", o)
    /\ Live(o)
    /\ <<order[o].status, s>> \in Moves
    /\ s = "PACKED" => t = Typed
    /\ s = "CANCELLED" => t = None
    /\ req' = [req EXCEPT ![r] = [Idle EXCEPT !.op = "move", !.pc = "move", !.order = o,
                 !.was = order[o].status, !.to = s, !.typed = t]]
    /\ UNCHANGED <<order, pool, crashes>>

\* Cancelling a packed order clears its number with the same write and then
\* releases its barcode.
WriteMove(r) ==
    LET o == req[r].order
        q == req[r]
        frees == q.to = "CANCELLED" /\ q.was = "PACKED"
    IN  /\ At(r, "move")
        /\ IF Live(o) /\ order[o].status = q.was
           THEN /\ order' = [order EXCEPT ![o].status = q.to,
                       ![o].shown = IF frees THEN None
                                    ELSE IF q.typed # None THEN q.typed ELSE @,
                       ![o].pending = @ /\ ~frees]
                /\ IF frees THEN Goto(r, "release") ELSE Finish(r)
           ELSE /\ Finish(r)
                /\ UNCHANGED order
        /\ UNCHANGED <<pool, crashes>>

\* releaseFromOrder, by a cancel and by a delete.
Release(r) ==
    /\ At(r, "release")
    /\ pool' = [c \in Codes |-> IF pool[c].holder = req[r].order
                                THEN [pool[c] EXCEPT !.holder = None] ELSE pool[c]]
    /\ IF req[r].op = "delete" THEN Goto(r, "clear") ELSE Finish(r)
    /\ UNCHANGED <<order, crashes>>

-----------------------------------------------------------------------------
\* Faulty variant: the barcode of a parcel that has shipped is freed too.
DeleteFreesAlways(r, o) ==
    /\ Starts(r, "delete", o)
    /\ Live(o)
    /\ order' = [order EXCEPT ![o].deleted = TRUE]
    /\ req' = [req EXCEPT ![r] = [Idle EXCEPT !.op = "delete", !.pc = "release", !.order = o]]
    /\ UNCHANGED <<pool, crashes>>

\* DELETE: the flag; a packed order then releases its barcode ...
Delete(r, o) ==
    /\ Starts(r, "delete", o)
    /\ Live(o)
    /\ order' = [order EXCEPT ![o].deleted = TRUE]
    /\ IF order[o].status = "PACKED"
       THEN req' = [req EXCEPT ![r] = [Idle EXCEPT !.op = "delete", !.pc = "release",
                                                   !.order = o]]
       ELSE UNCHANGED req
    /\ UNCHANGED <<pool, crashes>>

\* ... and then clears its number.
ClearShown(r) ==
    /\ At(r, "clear")
    /\ order' = [order EXCEPT ![req[r].order].shown = None,
                              ![req[r].order].pending = FALSE]
    /\ Finish(r)
    /\ UNCHANGED <<pool, crashes>>

\* Restore: the flag; a packed order without a number is given a barcode of
\* its delivery type, or flagged if it has no type or there is none.
Restore(r, o) ==
    /\ Starts(r, "restore", o)
    /\ order[o].deleted
    /\ order' = [order EXCEPT ![o].deleted = FALSE]
    /\ IF order[o].status = "PACKED" /\ order[o].shown = None
       THEN req' = [req EXCEPT ![r] =
                      [Idle EXCEPT !.op = "restore", !.order = o, !.kind = order[o].kind,
                         !.pc = IF order[o].kind = None THEN "write" ELSE "find"]]
       ELSE UNCHANGED req
    /\ UNCHANGED <<pool, crashes>>

\* Faulty variant: an order left without a barcode is not flagged.
WriteRestoredQuietly(r) ==
    /\ At(r, "write") /\ req[r].op = "restore"
    /\ order' = IF req[r].code = None THEN order
                ELSE [order EXCEPT ![req[r].order] = Labelled(@, req[r].code)]
    /\ Finish(r)
    /\ UNCHANGED <<pool, crashes>>

\* The number it was given is written unconditionally.
WriteRestored(r) ==
    /\ At(r, "write") /\ req[r].op = "restore"
    /\ order' = [order EXCEPT ![req[r].order] = Labelled(@, req[r].code)]
    /\ Finish(r)
    /\ UNCHANGED <<pool, crashes>>

\* Revert-status reads a packed order and saves it as New, keeping number and
\* barcode, whatever it has become; a delivery-type change does the same to a
\* New order's type.
ReadForRevert(r, o) ==
    /\ Starts(r, "revert", o)
    /\ Live(o)
    /\ order[o].status = "PACKED"
    /\ req' = [req EXCEPT ![r] = [Idle EXCEPT !.op = "revert", !.pc = "save", !.order = o]]
    /\ UNCHANGED <<order, pool, crashes>>

ReadForKind(r, o, k) ==
    /\ Starts(r, "kind", o)
    /\ order[o].status = "NEW"
    /\ order[o].kind # k
    /\ req' = [req EXCEPT ![r] = [Idle EXCEPT !.op = "kind", !.pc = "save", !.order = o,
                                              !.kind = k]]
    /\ UNCHANGED <<order, pool, crashes>>

SaveRevert(r) ==
    /\ At(r, "save") /\ req[r].op = "revert"
    /\ order' = [order EXCEPT ![req[r].order].status = "NEW"]
    /\ Finish(r)
    /\ UNCHANGED <<pool, crashes>>

SaveKind(r) ==
    /\ At(r, "save") /\ req[r].op = "kind"
    /\ order' = [order EXCEPT ![req[r].order].kind = req[r].kind]
    /\ Finish(r)
    /\ UNCHANGED <<pool, crashes>>

-----------------------------------------------------------------------------
\* The admin uploads a code of a type; a code already there is skipped.
bulkCreate(c, k) ==
    /\ "upload" \in Ops
    /\ pool[c].kind = None
    /\ pool' = [pool EXCEPT ![c] = [kind |-> k, holder |-> None, mark |-> None]]
    /\ UNCHANGED <<order, req, crashes>>

\* Faulty variant: the write-off relies on the read before it alone.
markUsedBlindly(c) ==
    /\ "mark" \in Ops
    /\ pool[c].kind # None /\ pool[c].mark = None
    /\ pool' = [pool EXCEPT ![c].mark = "hand"]
    /\ UNCHANGED <<order, req, crashes>>

\* markUsed: the reads before it only choose the error; the write is
\* conditional on the barcode being available.
markUsed(c) ==
    /\ "mark" \in Ops
    /\ \E k \in Kinds : c \in Available(k)
    /\ pool' = [pool EXCEPT ![c].mark = "hand"]
    /\ UNCHANGED <<order, req, crashes>>

\* unmarkUsed reads the barcode and then clears the write-off, whose ever.
ReadForUnmark(r, c) ==
    /\ Starts(r, "unmark", None)
    /\ pool[c].kind # None /\ pool[c].holder = None /\ pool[c].mark # None
    /\ req' = [req EXCEPT ![r] = [Idle EXCEPT !.op = "unmark", !.pc = "unmark", !.code = c]]
    /\ UNCHANGED <<order, pool, crashes>>

Unmark(r) ==
    /\ At(r, "unmark")
    /\ pool' = [pool EXCEPT ![req[r].code].mark = None]
    /\ Finish(r)
    /\ UNCHANGED <<order, crashes>>

\* The process dies, or a database error nobody handles ends the request.
Crash(r) ==
    /\ crashes < MaxCrashes
    /\ req[r].pc # "idle"
    /\ crashes' = crashes + 1
    /\ Finish(r)
    /\ UNCHANGED <<order, pool>>

-----------------------------------------------------------------------------
\* The next database call of a request under way.
Continue(r) ==
    \/ SeeBarcode(r) \/ FindHeld(r) \/ Claim(r) \/ Reread(r)
    \/ Reserve(r) \/ ReleaseOld(r) \/ Convert(r) \/ HandBack(r)
    \/ WritePacked(r) \/ GiveBack(r) \/ WriteMove(r) \/ Release(r)
    \/ ClearShown(r) \/ WriteRestored(r) \/ SaveRevert(r) \/ SaveKind(r)
    \/ Unmark(r)

Arrive(r) ==
    \/ \E o \in Orders :
          \/ \E k \in Kinds \cup {None} : ReadForPack(r, o, k)
          \/ \E s \in Status, t \in {Typed, None} : ReadForMove(r, o, s, t)
          \/ \E k \in Kinds : ReadForKind(r, o, k)
          \/ Delete(r, o) \/ Restore(r, o) \/ ReadForRevert(r, o)
    \/ \E c \in Codes : ReadForUnmark(r, c)

Next ==
    \/ \E r \in Requests : Arrive(r) \/ Continue(r) \/ Crash(r)
    \/ \E c \in Codes : markUsed(c) \/ \E k \in Kinds : bulkCreate(c, k)

Spec == Init /\ [][Next]_vars

-----------------------------------------------------------------------------
(***************************************************************************)
(* Properties.                                                             *)
(***************************************************************************)

\* No request works on o.
Settled(o) == \A r \in Requests : req[r].order # o

\* o is a parcel about to leave, or one that left.
Parcel(o) == Live(o) /\ order[o].status \in {"PACKED", "DISPATCHED"}

\* A parcel labelled from the pool holds the barcode it shows, so the pool
\* cannot hand it out again.
ShownIsHeld ==
    \A o \in Orders : Settled(o) /\ Parcel(o) /\ order[o].shown \in Codes =>
        pool[order[o].shown].holder = o

\* What "atomic (never shared across orders)" in updateStatus promises: two
\* parcels never carry the same barcode.
NeverShared ==
    \A o, p \in Orders :
        /\ o # p /\ Settled(o) /\ Settled(p) /\ Parcel(o) /\ Parcel(p)
        /\ order[o].shown \in Codes
        => order[o].shown # order[p].shown

\* A packed order that needs no new barcode shows one of its delivery type,
\* and one without any number is flagged, so that one can be assigned later.
LabelFits ==
    \A o \in Orders : Settled(o) /\ Live(o) /\ order[o].status = "PACKED" =>
        /\ order[o].shown = None => order[o].pending
        /\ order[o].shown \in Codes /\ ~order[o].pending =>
               pool[order[o].shown].kind = order[o].kind

\* "At most one barcode per order."
OneBarcodeEach == \A c, d \in Codes :
    pool[c].holder # None /\ pool[c].holder = pool[d].holder => c = d

\* A barcode written off by hand, or reserved for a swap, is held by no order:
\* the service calls the opposite a duplicate tracking number in the post.
WrittenOffUnused == \A c \in Codes : pool[c].mark # None => pool[c].holder = None

\* Once dispatched, a parcel's barcode "must never be reused": no step, of any
\* request, takes it away.
ParcelKeepsBarcode ==
    [][\A o \in Orders, c \in Codes :
          /\ order[o].status = "DISPATCHED" /\ order[o].shown = c
          /\ pool[c].holder = o
          => pool[c].holder' = o]_vars

\* What updateStatus says of a cancel before dispatch: it frees what the order
\* was holding.
CancelledHoldsNothing ==
    \A o \in Orders : Settled(o) /\ order[o].status = "CANCELLED" => Held(o) = {}
=============================================================================
