------------------------------- MODULE Orders -------------------------------
(***************************************************************************)
(* The life of an order in orders.service.ts, with the two side effects    *)
(* every handler has to keep in step with it: the warehouse stock and the  *)
(* tribe's commission ledger.  The database has no multi-document          *)
(* transactions, so a handler is a chain of single-document round trips;   *)
(* each is one action here and the steps of different requests interleave. *)
(*                                                                         *)
(* The barcode pool that packing and releasing move is module Packing, the *)
(* payouts drawn on the ledger are module Payouts.                         *)
(***************************************************************************)
EXTENDS Integers, FiniteSets

CONSTANTS
    Orders,      \* ids an order document may be given
    Requests,    \* HTTP requests, webhook deliveries and cron jobs in flight
    Lines,       \* the product lines of an order, each its own stock write
    Ops,         \* the operations of this instance
    Faults,      \* <<operation, step>> pairs whose database write may fail
    MaxCrashes,  \* bound on requests that die and compensations that fail
    None         \* "no order"

ASSUME OrdersAssumption ==
    /\ None \notin Orders
    /\ IsFiniteSet(Requests)
    /\ MaxCrashes \in Nat
    /\ Faults \subseteq {"create", "reorder"} \X {"take", "save", "credit"}

Status    == {"NEW", "PACKED", "DISPATCHED", "DELIVERED", "RETURNED", "CANCELLED"}
Approval  == {"NULL", "PENDING", "APPROVED", "REJECTED"}
OrderType == {"STORE_SALE", "WELCOME_KIT"}

\* Statuses whose stock is still out of the warehouse on the order's behalf.
ON_SHELF == {"NEW", "PACKED"}
Shipped  == {"DISPATCHED", "DELIVERED"}

\* The moves PATCH /orders/:id/status may make.
ALLOWED_TRANSITIONS ==
    ({"NEW"} \X {"PACKED", "DISPATCHED", "CANCELLED"})
        \cup ({"PACKED"} \X {"PACKED", "DISPATCHED", "CANCELLED"})
        \cup ({"DISPATCHED"} \X {"DISPATCHED", "DELIVERED"})

\* The admin's "Mark Delivered" tool may skip dispatch (opts.skipDispatch).
SkipDispatch == ON_SHELF \X {"DELIVERED"}

(***************************************************************************)
(* An order document.  `earns' says totalCommission > 0; the amount itself *)
(* is one unit of ledger money.  `from' and `to' are reorderedFrom and     *)
(* reorderedTo.  Status "NONE" is a document that does not exist.          *)
(***************************************************************************)
Doc == [status: Status \cup {"NONE"}, type: OrderType, approval: Approval,
        deleted: BOOLEAN, earns: BOOLEAN,
        from: Orders \cup {None}, to: Orders \cup {None}]

NoDoc == [status |-> "NONE", type |-> "STORE_SALE", approval |-> "NULL",
          deleted |-> FALSE, earns |-> FALSE, from |-> None, to |-> None]

Op == {"create", "status", "cancel", "approve", "reject", "delete", "restore",
       "returned", "reorder", "revert"}

\* The round trip a request performs next.
Pc == {"idle", "take", "save", "credit", "drop", "restock", "unlink", "cas",
       "sum", "reverse", "rewind"}

(***************************************************************************)
(* A request: its operation, its next step, the order it works on, the     *)
(* document it read or is about to write, the status it moves to, the      *)
(* lines whose stock it still has to move and the ledger sum it read.      *)
(***************************************************************************)
Request == [op: Op, pc: Pc, order: Orders \cup {None}, doc: Doc,
            status: Status, left: SUBSET Lines, sum: Int]

Idle == [op |-> "create", pc |-> "idle", order |-> None, doc |-> NoDoc,
         status |-> "NEW", left |-> {}, sum |-> 0]

VARIABLES
    order,    \* order[o]: the document stored under id o
    taken,    \* taken[o][l]: units of line l taken off the shelf for o, net
    net,      \* net[o]: sum of the COMMISSION rows of o
    req,      \* req[r]: where request r stands
    crashes   \* requests that died half-way, compensations that failed

vars == <<order, taken, net, req, crashes>>

TypeOK ==
    /\ order \in [Orders -> Doc]
    /\ taken \in [Orders -> [Lines -> Int]]
    /\ net \in [Orders -> Int]
    /\ req \in [Requests -> Request]
    /\ crashes \in Nat

Init ==
    /\ order = [o \in Orders |-> NoDoc]
    /\ taken = [o \in Orders |-> [l \in Lines |-> 0]]
    /\ net = [o \in Orders |-> 0]
    /\ req = [r \in Requests |-> Idle]
    /\ crashes = 0

Stored(o) == order[o].status # "NONE"
Live(o)   == Stored(o) /\ ~order[o].deleted

\* A new ObjectId: nothing refers to it or was ever booked on it.
Fresh(o) ==
    /\ ~Stored(o)
    /\ \A r \in Requests : req[r].order # o
    /\ \A p \in Orders : order[p].to # o
    /\ net[o] = 0
    /\ \A l \in Lines : taken[o][l] = 0

Starts(r, op) == op \in Ops /\ req[r].pc = "idle"
At(r, pc)     == req[r].pc = pc

Job(op, pc, o) == [Idle EXCEPT !.op = op, !.pc = pc, !.order = o]

-----------------------------------------------------------------------------
(***************************************************************************)
(* The steps several handlers share.                                       *)
(***************************************************************************)

\* Faulty variant: only an approved order is credited again, and the null
\* approval of a store sale is not one.
EligibleIfApproved(d) == d.earns /\ d.approval = "APPROVED"

\* restoreOrder's eligibleForCommission, read off the document it got back.
Eligible(d) ==
    /\ d.earns
    /\ \/ d.type = "STORE_SALE"
       \/ d.type = "WELCOME_KIT" /\ d.approval = "APPROVED"

\* Where a request goes once its last unit is off the shelf.
AfterTake(q) ==
    IF q.op # "restore" THEN [q EXCEPT !.pc = "save"]
    ELSE IF Eligible(q.doc) THEN [q EXCEPT !.pc = "credit"]
    ELSE Idle

\* Where a request goes once its last unit is back on the shelf.
AfterRestock(q) ==
    IF q.op \in {"delete", "cancel"} THEN [q EXCEPT !.pc = "sum"]
    ELSE IF q.op = "reorder" THEN [q EXCEPT !.pc = "unlink"]
    ELSE Idle

\* moveItemsStock: one $inc per line, in a loop that awaits each of them.
TakeLine(r, l) ==
    /\ At(r, "take")
    /\ l \in req[r].left
    /\ taken' = [taken EXCEPT ![req[r].order][l] = @ + 1]
    /\ LET q == [req[r] EXCEPT !.left = @ \ {l}]
       IN  req' = [req EXCEPT ![r] = IF q.left = {} THEN AfterTake(q) ELSE q]
    /\ UNCHANGED <<order, net, crashes>>

RestockLine(r, l) ==
    /\ At(r, "restock")
    /\ l \in req[r].left
    /\ taken' = [taken EXCEPT ![req[r].order][l] = @ - 1]
    /\ LET q == [req[r] EXCEPT !.left = @ \ {l}]
       IN  req' = [req EXCEPT ![r] = IF q.left = {} THEN AfterRestock(q) ELSE q]
    /\ UNCHANGED <<order, net, crashes>>

\* transactions.create of a COMMISSION row, by create, approve and restore.
Credit(r) ==
    /\ At(r, "credit")
    /\ net' = [net EXCEPT ![req[r].order] = @ + 1]
    /\ req' = [req EXCEPT ![r] = Idle]
    /\ UNCHANGED <<order, taken, crashes>>

\* reverseByOrder sums the order's rows first ...
SumRows(r) ==
    /\ At(r, "sum")
    /\ LET q == [req[r] EXCEPT !.sum = net[req[r].order], !.pc = "reverse"]
       IN  req' = [req EXCEPT ![r] =
                      IF q.sum > 0 THEN q
                      ELSE IF q.op = "revert" THEN [q EXCEPT !.pc = "rewind"]
                      ELSE Idle]
    /\ UNCHANGED <<order, taken, net, crashes>>

\* ... and then appends a row that takes that sum back.
AppendReversal(r) ==
    /\ At(r, "reverse")
    /\ net' = [net EXCEPT ![req[r].order] = @ - req[r].sum]
    /\ req' = [req EXCEPT ![r] = IF req[r].op = "revert"
                                 THEN [req[r] EXCEPT !.pc = "rewind"]
                                 ELSE Idle]
    /\ UNCHANGED <<order, taken, crashes>>

-----------------------------------------------------------------------------
(***************************************************************************)
(* POST /orders.  Everything that can refuse the order is checked before   *)
(* the first write, so the model starts at that write.  Only store sales   *)
(* carry commission; a welcome kit waits for approval.  A campaign's count *)
(* of its claims, which create adds to last, is left out.                  *)
(***************************************************************************)
Create(r, o, t, e) ==
    /\ Starts(r, "create")
    /\ Fresh(o)
    /\ e => t = "STORE_SALE"
    /\ req' = [req EXCEPT ![r] =
                 [Job("create", "take", o) EXCEPT
                    !.doc = [NoDoc EXCEPT !.status = "NEW", !.type = t, !.earns = e,
                               !.approval = IF t = "WELCOME_KIT" THEN "PENDING" ELSE "NULL"],
                    !.left = Lines]]
    /\ UNCHANGED <<order, taken, net, crashes>>

\* order.save() of a new document, by create and by reorderReturned.
Save(r) ==
    /\ At(r, "save")
    /\ order' = [order EXCEPT ![req[r].order] = req[r].doc]
    /\ req' = [req EXCEPT ![r] = IF req[r].op = "create" /\ req[r].doc.earns
                                 THEN [req[r] EXCEPT !.pc = "credit"]
                                 ELSE Idle]
    /\ UNCHANGED <<taken, net, crashes>>

\* The request goes on to put the given lines back.
PutBack(q, lines) ==
    IF lines = {} THEN AfterRestock([q EXCEPT !.left = {}])
    ELSE [q EXCEPT !.pc = "restock", !.left = lines]

\* Faulty variant: a failed re-send never puts its stock back.
TakenForgotten(q) == IF q.op = "create" THEN Lines \ q.left ELSE {}

(***************************************************************************)
(* A write of create or reorderReturned fails.  create puts back exactly   *)
(* the lines it took, and drops the order first if it was already saved.   *)
(* reorderReturned knows only whether the whole loop finished.             *)
(***************************************************************************)
KnownTaken(q) ==
    IF q.pc = "save" THEN Lines ELSE IF q.op = "create" THEN Lines \ q.left ELSE {}

WriteFails(r) ==
    /\ <<req[r].op, req[r].pc>> \in Faults
    /\ req' = [req EXCEPT ![r] = IF req[r].pc = "credit"
                                 THEN [req[r] EXCEPT !.pc = "drop"]
                                 ELSE PutBack(req[r], KnownTaken(req[r]))]
    /\ UNCHANGED <<order, taken, net, crashes>>

\* create's compensation: deleteOne, then the stock.  A failing deleteOne is
\* swallowed and the stock goes back all the same; it counts as a crash.
DropOrder(r) ==
    /\ At(r, "drop")
    /\ \/ /\ order' = [order EXCEPT ![req[r].order] = NoDoc]
          /\ UNCHANGED crashes
       \/ /\ crashes < MaxCrashes
          /\ crashes' = crashes + 1
          /\ UNCHANGED order
    /\ req' = [req EXCEPT ![r] = PutBack(req[r], Lines)]
    /\ UNCHANGED <<taken, net>>

-----------------------------------------------------------------------------
\* Faulty variant: the approval of a claim is not looked at.
ReadForStatusUnapproved(r, o, s, skip) ==
    /\ Starts(r, "status")
    /\ Live(o)
    /\ <<order[o].status, s>> \in
           ALLOWED_TRANSITIONS \cup (IF skip THEN SkipDispatch ELSE {})
    /\ req' = [req EXCEPT ![r] = [Job("status", "cas", o) EXCEPT
                                    !.doc = order[o], !.status = s]]
    /\ UNCHANGED <<order, taken, net, crashes>>

(***************************************************************************)
(* PATCH /orders/:id/status reads the order and validates the move, then   *)
(* writes it on condition that the status is still the one it read.  The   *)
(* write that cancels frees the stock and reverses the commission.         *)
(***************************************************************************)
ReadForStatus(r, o, s, skip) ==
    /\ Starts(r, "status")
    /\ Live(o)
    /\ <<order[o].status, s>> \in
           ALLOWED_TRANSITIONS \cup (IF skip THEN SkipDispatch ELSE {})
    /\ order[o].approval = "PENDING" => s = "CANCELLED"
    /\ req' = [req EXCEPT ![r] = [Job("status", "cas", o) EXCEPT
                                    !.doc = order[o], !.status = s]]
    /\ UNCHANGED <<order, taken, net, crashes>>

\* Faulty variant: the write is not conditional on the status that was read.
WriteStatusBlindly(r) ==
    LET o == req[r].order
        s == req[r].status
    IN  /\ At(r, "cas")
        /\ Live(o)
        /\ order' = [order EXCEPT ![o].status = s]
        /\ req' = [req EXCEPT ![r] =
              IF s = "CANCELLED"
              THEN [Job("cancel", "restock", o) EXCEPT !.left = Lines]
              ELSE Idle]
        /\ UNCHANGED <<taken, net, crashes>>

WriteStatus(r) ==
    LET o == req[r].order
        s == req[r].status
    IN  /\ At(r, "cas")
        /\ \/ /\ Live(o) /\ order[o].status = req[r].doc.status
              /\ order' = [order EXCEPT ![o].status = s]
              /\ req' = [req EXCEPT ![r] =
                    IF s = "CANCELLED"
                    THEN [Job("cancel", "restock", o) EXCEPT !.left = Lines]
                    ELSE Idle]
           \/ \* 409: the order changed since it was read
              /\ ~(Live(o) /\ order[o].status = req[r].doc.status)
              /\ req' = [req EXCEPT ![r] = Idle]
              /\ UNCHANGED order
        /\ UNCHANGED <<taken, net, crashes>>

-----------------------------------------------------------------------------
PENDING_KIT(o) ==
    /\ order[o].type = "WELCOME_KIT"
    /\ order[o].approval = "PENDING"
    /\ Live(o)

\* POST approve: one conditional write, then the commission if there is any.
Approve(r, o) ==
    /\ Starts(r, "approve")
    /\ PENDING_KIT(o)
    /\ order' = [order EXCEPT ![o].approval = "APPROVED"]
    /\ req' = [req EXCEPT ![r] = IF order[o].earns THEN Job("approve", "credit", o)
                                 ELSE Idle]
    /\ UNCHANGED <<taken, net, crashes>>

\* Faulty variant: the approval's "REJECTED" lands in the status field.
RejectInStatus(r, o) ==
    /\ Starts(r, "reject")
    /\ PENDING_KIT(o)
    /\ order[o].status \in ON_SHELF
    /\ order' = [order EXCEPT ![o].status = "REJECTED"]
    /\ req' = [req EXCEPT ![r] = [Job("reject", "restock", o) EXCEPT !.left = Lines]]
    /\ UNCHANGED <<taken, net, crashes>>

\* Faulty variant: the stock of a rejected claim is forgotten.
RejectKeepsStock(r, o) ==
    /\ Starts(r, "reject")
    /\ PENDING_KIT(o)
    /\ order[o].status \in ON_SHELF
    /\ order' = [order EXCEPT ![o].approval = "REJECTED", ![o].status = "CANCELLED"]
    /\ UNCHANGED <<taken, net, req, crashes>>

\* POST reject: one conditional write that also cancels, then the stock.
Reject(r, o) ==
    /\ Starts(r, "reject")
    /\ PENDING_KIT(o)
    /\ order[o].status \in ON_SHELF
    /\ order' = [order EXCEPT ![o].approval = "REJECTED", ![o].status = "CANCELLED"]
    /\ req' = [req EXCEPT ![r] = [Job("reject", "restock", o) EXCEPT !.left = Lines]]
    /\ UNCHANGED <<taken, net, crashes>>

\* Faulty variant: the stock goes back whatever the stage of the order.
DeleteRestocksAlways(r, o) ==
    /\ Starts(r, "delete")
    /\ Live(o)
    /\ order' = [order EXCEPT ![o].deleted = TRUE]
    /\ req' = [req EXCEPT ![r] = [Job("delete", "restock", o) EXCEPT !.left = Lines]]
    /\ UNCHANGED <<taken, net, crashes>>

\* DELETE /orders/:id: a soft delete, then the stock if the order still held
\* any, then the reversal of its commission.
Delete(r, o) ==
    /\ Starts(r, "delete")
    /\ Live(o)
    /\ order' = [order EXCEPT ![o].deleted = TRUE]
    /\ req' = [req EXCEPT ![r] =
                 IF order[o].status \in ON_SHELF
                 THEN [Job("delete", "restock", o) EXCEPT !.left = Lines]
                 ELSE Job("delete", "sum", o)]
    /\ UNCHANGED <<taken, net, crashes>>

\* Restore: undoes the delete flag, then takes the stock again if the order
\* still needs any, then credits the commission again.
Restore(r, o) ==
    /\ Starts(r, "restore")
    /\ Stored(o) /\ order[o].deleted
    /\ order' = [order EXCEPT ![o].deleted = FALSE]
    /\ LET q == [Job("restore", "take", o) EXCEPT !.doc = order[o]]
       IN  req' = [req EXCEPT ![r] = IF order[o].status \in ON_SHELF
                                     THEN [q EXCEPT !.left = Lines]
                                     ELSE AfterTake(q)]
    /\ UNCHANGED <<taken, net, crashes>>

-----------------------------------------------------------------------------
\* Faulty variant: any live order can be logged as returned.
MarkReturnedAnyStage(r, o) ==
    /\ Starts(r, "returned")
    /\ Live(o)
    /\ order' = [order EXCEPT ![o].status = "RETURNED"]
    /\ req' = [req EXCEPT ![r] = [Job("returned", "restock", o) EXCEPT !.left = Lines]]
    /\ UNCHANGED <<taken, net, crashes>>

\* POST /orders/returned: one conditional write per parcel, then the stock.
MarkReturned(r, o) ==
    /\ Starts(r, "returned")
    /\ Live(o)
    /\ order[o].status \in Shipped
    /\ order' = [order EXCEPT ![o].status = "RETURNED"]
    /\ req' = [req EXCEPT ![r] = [Job("returned", "restock", o) EXCEPT !.left = Lines]]
    /\ UNCHANGED <<taken, net, crashes>>

\* Faulty variant: a return that was already sent again is not refused.
ReorderAgain(r, o, n) ==
    /\ Starts(r, "reorder")
    /\ Live(o)
    /\ order[o].status = "RETURNED"
    /\ Fresh(n)
    /\ order' = [order EXCEPT ![o].to = n]
    /\ req' = [req EXCEPT ![r] =
                 [Job("reorder", "take", n) EXCEPT
                    !.doc = [NoDoc EXCEPT !.status = "NEW", !.type = order[o].type,
                               !.approval = order[o].approval, !.from = o],
                    !.left = Lines]]
    /\ UNCHANGED <<taken, net, crashes>>

\* POST reorder: claims the returned order for replacement n with one
\* conditional write, then takes the stock, then saves n (no commission).
Reorder(r, o, n) ==
    /\ Starts(r, "reorder")
    /\ Live(o)
    /\ order[o].status = "RETURNED"
    /\ order[o].to = None
    /\ Fresh(n)
    /\ order' = [order EXCEPT ![o].to = n]
    /\ req' = [req EXCEPT ![r] =
                 [Job("reorder", "take", n) EXCEPT
                    !.doc = [NoDoc EXCEPT !.status = "NEW", !.type = order[o].type,
                               !.approval = order[o].approval, !.from = o],
                    !.left = Lines]]
    /\ UNCHANGED <<taken, net, crashes>>

\* A failed reorder gives its claim up, if it is still its own.
Unlink(r) ==
    /\ At(r, "unlink")
    /\ LET o == req[r].doc.from
       IN  order' = IF order[o].to = req[r].order
                    THEN [order EXCEPT ![o].to = None] ELSE order
    /\ req' = [req EXCEPT ![r] = Idle]
    /\ UNCHANGED <<taken, net, crashes>>

-----------------------------------------------------------------------------
\* POST revert-status reads the order; an approved New order has its
\* commission reversed before it is written, a packed one does not.
ReadForRevert(r, o) ==
    /\ Starts(r, "revert")
    /\ Live(o)
    /\ LET q == [Job("revert", "rewind", o) EXCEPT !.doc = order[o]]
       IN  \/ /\ order[o].status = "NEW" /\ order[o].approval = "APPROVED"
              /\ req' = [req EXCEPT ![r] = [q EXCEPT !.pc = "sum"]]
           \/ /\ order[o].status = "PACKED"
              /\ req' = [req EXCEPT ![r] = q]
    /\ UNCHANGED <<order, taken, net, crashes>>

\* document.save() writes the changed field whatever the order has become.
Rewind(r) ==
    LET o == req[r].order
    IN  /\ At(r, "rewind")
        /\ order' = IF ~Stored(o) THEN order
                    ELSE IF req[r].doc.status = "NEW"
                    THEN [order EXCEPT ![o].approval = "PENDING"]
                    ELSE [order EXCEPT ![o].status = "NEW"]
        /\ req' = [req EXCEPT ![r] = Idle]
        /\ UNCHANGED <<taken, net, crashes>>

\* The process dies, or a database error nobody handles ends the request.
Crash(r) ==
    /\ crashes < MaxCrashes
    /\ req[r].pc # "idle"
    /\ crashes' = crashes + 1
    /\ req' = [req EXCEPT ![r] = Idle]
    /\ UNCHANGED <<order, taken, net>>

-----------------------------------------------------------------------------
\* The next round trip of a request under way.
Continue(r) ==
    \/ \E l \in Lines : TakeLine(r, l) \/ RestockLine(r, l)
    \/ Credit(r) \/ SumRows(r) \/ AppendReversal(r)
    \/ Save(r) \/ DropOrder(r) \/ WriteStatus(r) \/ Unlink(r) \/ Rewind(r)

\* A request arrives.
Arrive(r) == \E o \in Orders :
    \/ \E t \in OrderType, e \in BOOLEAN : Create(r, o, t, e)
    \/ \E s \in Status, skip \in BOOLEAN : ReadForStatus(r, o, s, skip)
    \/ Approve(r, o) \/ Reject(r, o) \/ Delete(r, o) \/ Restore(r, o)
    \/ MarkReturned(r, o) \/ ReadForRevert(r, o)
    \/ \E n \in Orders : Reorder(r, o, n)

Next == \E r \in Requests : Arrive(r) \/ Continue(r) \/ WriteFails(r) \/ Crash(r)

Spec == Init /\ [][Next]_vars

\* Node runs every pending continuation of a request that has not died.
FairSpec == Spec /\ \A r \in Requests : WF_vars(Continue(r))

-----------------------------------------------------------------------------
(***************************************************************************)
(* Properties.                                                             *)
(***************************************************************************)

\* No request is under way.
Quiet == \A r \in Requests : req[r].pc = "idle"

\* The units an order stands for: out from creation until it dies before
\* dispatch or comes back; a shipped parcel stays out, deleted or not.
Out(o) ==
    IF \/ order[o].status \in Shipped
       \/ order[o].status \in ON_SHELF /\ ~order[o].deleted
    THEN 1 ELSE 0

\* Every line's units are off the shelf exactly while its order stands for
\* them, once no request is under way; a request that died half-way shifts a
\* line by at most one movement.  Concerns every moveItemsStock call: each
\* status flip must be followed by one movement, and by one only.
StockBalanced ==
    Quiet => \A o \in Orders, l \in Lines :
                taken[o][l] - Out(o) \in -crashes .. crashes

\* Once nothing is under way, and if no request died, a deleted or missing
\* order carries no net commission, a live uncancelled one exactly what it
\* earns, and none more than one commission or less than none.
LedgerSettled ==
    Quiet /\ crashes = 0 => \A o \in Orders :
        /\ net[o] \in 0 .. 1
        /\ ~Live(o) => net[o] = 0
        /\ Live(o) /\ order[o].status # "CANCELLED" =>
               net[o] = IF order[o].earns THEN 1 ELSE 0

\* What the comment in updateStatus says: a cancelled order earns nothing.
CancelledEarnsNothing ==
    Quiet => \A o \in Orders : order[o].status = "CANCELLED" => net[o] = 0

\* What reverseByOrder's comment says: an order already netted to zero gets
\* nothing more, so reversals never take more than was credited.
NeverReversedTwice == \A o \in Orders : net[o] >= 0

\* A claim is fulfilled only once approved ("Approve this claim before it
\* can be fulfilled"): no claim waiting for approval, or rejected, is packed,
\* on its way or delivered.
FulfilledIsApproved ==
    \A o \in Orders : order[o].status \in {"PACKED"} \cup Shipped =>
                         order[o].approval \in {"NULL", "APPROVED"}

\* A return is sent again once: no two orders replace the same one, and a
\* replacement and the order it replaces point at each other.
OneReplacement ==
    \A n \in Orders : order[n].from # None => order[order[n].from].to = n

\* The stages of the board: forward through updateStatus, a return from a
\* shipped parcel, one step back from Ready to Ship.  A shipped or closed
\* order is never rewound, whatever a stale request still holds.
StatusEdge(s, t) ==
    \/ s = t
    \/ <<s, t>> \in ALLOWED_TRANSITIONS \cup SkipDispatch
    \/ s \in Shipped /\ t = "RETURNED"
    \/ s = "PACKED" /\ t = "NEW"

FollowsBoard ==
    [][\A o \in Orders : Stored(o) /\ Stored(o)' =>
          StatusEdge(order[o].status, order[o].status')]_vars

\* The stock of a cancelled or returned order does come back.
ShelfRestored ==
    \A o \in Orders : order[o].status \in {"CANCELLED", "RETURNED"} ~>
                         \A l \in Lines : taken[o][l] = 0

-----------------------------------------------------------------------------
(***************************************************************************)
(* The invariants behind the properties: the same facts with the requests  *)
(* under way taken into account.                                           *)
(***************************************************************************)
\* Every write to a stored order is conditional on the state it assumes, and
\* the only failures that are compensated come before the order can be seen.
Guarded ==
    /\ "revert" \notin Ops
    /\ Faults \subseteq {<<"create", "take">>, <<"create", "save">>, <<"reorder", "save">>}

(***************************************************************************)
(* StockBalanced with the requests under way taken into account: what      *)
(* makes it inductive for a Guarded instance.                              *)
(***************************************************************************)
\* q still has to put line l of o back, or took it for an unsaved order.
Holds(q, o, l) ==
    /\ q.order = o
    /\ \/ q.pc = "restock" /\ l \in q.left
       \/ q.pc = "take" /\ q.op # "restore" /\ l \notin q.left
       \/ q.pc = "save"

\* q restores o and has not taken line l again yet.
Owes(q, o, l) ==
    q.order = o /\ q.pc = "take" /\ q.op = "restore" /\ l \in q.left

Holding(o, l) == {r \in Requests : Holds(req[r], o, l)}
Owing(o, l)   == {r \in Requests : Owes(req[r], o, l)}

LineBalance(o, l) ==
    taken[o][l] - Out(o) - Cardinality(Holding(o, l)) + Cardinality(Owing(o, l))

\* q is about to write a document under a fresh id.
Claims(q) == q.pc = "save" \/ (q.pc = "take" /\ q.op # "restore")

\* A request that is to write a fresh document is alone with its id.
ClaimsAlone ==
    \A r \in Requests : Claims(req[r]) =>
        /\ req[r].order \in Orders
        /\ ~Stored(req[r].order)
        /\ req[r].doc.status = "NEW" /\ ~req[r].doc.deleted
        /\ \A p \in Requests \ {r} : req[p].order # req[r].order

\* A request under way works on an order, a re-send on a replacement of one.
PlacedAt(q) ==
    q.pc # "idle" =>
        /\ q.order \in Orders
        /\ q.op = "reorder" => q.doc.from \in Orders
        /\ q.pc = "unlink" => q.op = "reorder"

Placed == \A r \in Requests : PlacedAt(req[r])

\* Without "revert", and with failures only where nothing is stored yet, no
\* request is ever about to rewind or to drop an order.
OnTrackAt(q) ==
    /\ q.op # "revert"
    /\ q.pc \notin {"drop", "rewind"}
    /\ q.pc = "take" => q.op \in {"create", "reorder", "restore"}
    /\ q.pc = "save" => q.op \in {"create", "reorder"}
    /\ q.pc = "credit" => q.op # "reorder"
    /\ q.pc = "cas" => <<q.doc.status, q.status>> \in ALLOWED_TRANSITIONS \cup SkipDispatch

OnTrack == \A r \in Requests : OnTrackAt(req[r])

StockInv ==
    /\ TypeOK
    /\ Placed
    /\ ClaimsAlone
    /\ OnTrack
    /\ \A o \in Orders, l \in Lines : LineBalance(o, l) \in -crashes .. crashes

(***************************************************************************)
(* FulfilledIsApproved with the requests under way taken into account:     *)
(* what makes it inductive for a Guarded instance.                         *)
(***************************************************************************)
Cleared(d) == d.status # "NONE" /\ d.approval \in {"NULL", "APPROVED"}

\* A returned order, whose approval its replacement inherits, was cleared too,
\* and a rejected claim is closed.
StageCleared(d) ==
    /\ d.status \in {"PACKED", "RETURNED"} \cup Shipped => Cleared(d)
    /\ d.approval = "REJECTED" => d.status = "CANCELLED"

\* A move that is about to be written still finds a cleared order.
MoveCleared(q) ==
    q.pc = "cas" /\ q.status # "CANCELLED" =>
        q.order \in Orders /\ Cleared(order[q.order])

ApprovalInv ==
    /\ \A o \in Orders : StageCleared(order[o])
    /\ \A r \in Requests :
          /\ MoveCleared(req[r])
          /\ Claims(req[r]) => req[r].doc.approval # "REJECTED"

(***************************************************************************)
(* OneReplacement with the re-sends under way taken into account: what     *)
(* makes it inductive for a Guarded instance.                              *)
(***************************************************************************)
\* A document that is not stored links to nothing.
UnstoredUnlinked == \A o \in Orders : ~Stored(o) => order[o].from = None /\ order[o].to = None

\* A re-send under way holds the claim on the order it replaces, and is alone
\* with an id nothing is stored under.
ResendClaims ==
    \A r \in Requests : req[r].op = "reorder" /\ req[r].pc # "idle" =>
        /\ order[req[r].doc.from].to = req[r].order
        /\ ~Stored(req[r].order)
        /\ \A p \in Requests \ {r} : req[p].order # req[r].order

\* A document about to be saved is not replaced, and replaces an order only
\* if it is a re-send.
NewLinks(q) == Claims(q) => q.doc.to = None /\ (q.op # "reorder" => q.doc.from = None)

LinkInv ==
    /\ OneReplacement
    /\ UnstoredUnlinked
    /\ ResendClaims
    /\ \A r \in Requests : NewLinks(req[r])

(***************************************************************************)
(* LedgerSettled with the request under way taken into account: what makes *)
(* it inductive where requests come one at a time.                         *)
(***************************************************************************)
Serial == \A r, s \in Requests : r = s

\* Only a store sale earns, and it needs no approval.
Priced(d) == d.earns => d.type = "STORE_SALE" /\ d.approval = "NULL"

\* The document d is that of a live order.
Standing(d) == d.status # "NONE" /\ ~d.deleted

\* LedgerSettled of an order with document d and rows that add up to n.
Settled(d, n) ==
    /\ n \in 0 .. 1
    /\ ~Standing(d) => n = 0
    /\ Standing(d) /\ d.status # "CANCELLED" => n = IF d.earns THEN 1 ELSE 0

\* Nothing is stored and nothing booked.
Blank(d, n) == d.status = "NONE" /\ n = 0

\* The commission of a deleted order is still to be taken back.
Unreversed(d, n) == d.status # "NONE" /\ d.deleted /\ n \in 0 .. 1

\* Document and rows of an order while q works on it.
Books(q, d, n) ==
    /\ Claims(q) \/ q.pc = "unlink" => Blank(d, n)
    /\ q.pc = "take" /\ q.op = "restore" =>
          Standing(d) /\ n = 0 /\ q.doc.earns = d.earns /\ q.doc.type = d.type
    /\ q.pc = "credit" => q.op # "reorder" /\ Standing(d) /\ n = 0 /\ d.earns
    /\ q.pc = "drop" => q.op = "create" /\ Standing(d) /\ n = 0
    /\ q.pc \in {"restock", "sum", "reverse"} =>
          \/ q.op = "delete" /\ Unreversed(d, n)
          \/ q.op = "cancel" /\ Settled(d, n) /\ d.status = "CANCELLED"
          \/ q.op = "revert" /\ Settled(d, n) /\ ~d.earns /\ d.status = "NEW"
          \/ q.op = "reorder" /\ Blank(d, n)
          \/ q.op \in {"create", "reject", "returned"} /\ Settled(d, n) /\ q.pc = "restock"
    /\ q.pc = "reverse" => q.sum = n
    /\ q.pc = "cas" => Settled(d, n) /\ q.doc.status # "CANCELLED"
    /\ q.pc = "rewind" =>
          /\ Settled(d, n) /\ d.status # "CANCELLED"
          /\ q.doc.status = "NEW" => ~d.earns

\* What is known of a request without looking at the ledger.
Prepared(q) ==
    /\ q.pc = "idle" => q.order = None
    /\ Claims(q) => /\ Priced(q.doc) /\ q.doc.status = "NEW" /\ ~q.doc.deleted
                    /\ q.doc.earns => q.op = "create"

LedgerInv ==
    crashes = 0 =>
        /\ \A r \in Requests : Prepared(req[r])
        /\ \A o \in Orders :
              /\ Priced(order[o])
              /\ \A r \in Requests : req[r].order = o => Books(req[r], order[o], net[o])
              /\ (\A r \in Requests : req[r].order # o) => Settled(order[o], net[o])
=============================================================================
