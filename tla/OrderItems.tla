------------------------------ MODULE OrderItems ------------------------------
(***************************************************************************)
(* The product lines of one order while an admin changes them.  addItem    *)
(* pushes a free line, then takes its stock and pulls the line again when  *)
(* that fails; removeItem pulls a line, raises figures that fell below     *)
(* zero, returns the stock of the line and then takes its commission back  *)
(* from the wallet, never more than the order has net.  A line sold below  *)
(* its cost has a negative commission, of which nothing is booked back.    *)
(* The moves of the board go on meanwhile.  Moves of stock commute, so the *)
(* loop over the lines of an order is one step.                            *)
(***************************************************************************)
EXTENDS Integers, FiniteSets, Functions

CONSTANTS
    Bought,       \* lines the order may be placed with
    Extras,       \* lines an admin may add
    Editors,      \* requests
    Shares,       \* Shares[l]: the commission of a bought line, its price less its cost
    SaleTypes,    \* {"sale", "kit"}: credited when placed, or when approved
    MaxSlips,     \* bound on stock writes that fail
    NoLine        \* "no line"

ASSUME ItemsAssumption ==
    /\ IsFiniteSet(Bought) /\ IsFiniteSet(Extras) /\ Bought \cap Extras = {}
    /\ NoLine \notin Bought \cup Extras
    /\ Shares \in [Bought -> Int] /\ MaxSlips \in Nat
    /\ SaleTypes \subseteq {"sale", "kit"}

AllLines == Bought \cup Extras

\* A free extra earns nothing.
commissionOf(l) == IF l \in Bought THEN Shares[l] ELSE 0
commissionOfAll(S) == SumFunctionOnSet([l \in AllLines |-> commissionOf(l)], S)

Smaller(a, b) == IF a < b THEN a ELSE b
OrZero(n) == IF n > 0 THEN n ELSE 0

VARIABLES
    basket,   \* the lines on the order
    placed,   \* the lines it was placed with
    board,    \* its status, whether it is deleted, and its approval
    total,    \* its totalCommission
    units,    \* units[l]: stock line l has taken, net of what came back
    net,      \* commission recorded in the wallet for the order
    editor,   \* editor[r]: where request r stands
    slips     \* stock writes that failed

itemsVars == <<basket, placed, board, total, units, net, editor, slips>>

Editor == [pc: {"idle", "push", "take", "undo", "pull", "tidy", "return", "net",
                "append", "credit", "sum"},
           line: AllLines \cup {NoLine}, amount: Int]
Free == [pc |-> "idle", line |-> NoLine, amount |-> 0]

ItemsTypeOK ==
    /\ basket \subseteq AllLines /\ placed \subseteq Bought
    /\ board \in [status: {"ON_SHELF", "GONE", "CANCELLED"}, deleted: BOOLEAN,
                  approval: {"NONE", "PENDING", "APPROVED", "REJECTED"}]
    /\ total \in Int /\ net \in Int /\ slips \in Nat
    /\ units \in [AllLines -> Int]
    /\ editor \in [Editors -> Editor]

\* A placed order: its stock is taken, a store sale's commission recorded.
ItemsInit ==
    /\ basket \in (SUBSET Bought) \ {{}} /\ placed = basket
    /\ total = commissionOfAll(basket)
    /\ \E type \in SaleTypes :
          /\ board = [status |-> "ON_SHELF", deleted |-> FALSE,
                      approval |-> IF type = "kit" THEN "PENDING" ELSE "NONE"]
          /\ net = IF type = "kit" THEN 0 ELSE OrZero(total)
    /\ units = [l \in AllLines |-> IF l \in basket THEN 1 ELSE 0]
    /\ editor = [r \in Editors |-> Free]
    /\ slips = 0

\* assertItemsEditable on the order as read, ITEMS_EDITABLE on the write.
Editable ==
    board.status = "ON_SHELF" /\ ~board.deleted /\ board.approval # "REJECTED"

EditorAt(r, pc) == editor[r].pc = pc
Then(r, q) == editor' = [editor EXCEPT ![r] = q]
Busy(pc, l, n) == [pc |-> pc, line |-> l, amount |-> n]

Move(S, n) == units' = [l \in AllLines |-> IF l \in S THEN units[l] + n ELSE units[l]]

-----------------------------------------------------------------------------
(***************************************************************************)
(* addItem                                                                 *)
(***************************************************************************)
ReadForAdd(r, l) ==
    /\ EditorAt(r, "idle") /\ Editable
    /\ l \notin basket /\ units[l] = 0 /\ \A x \in Editors : editor[x].line # l
    /\ Then(r, Busy("push", l, 0))
    /\ UNCHANGED <<basket, placed, board, total, units, net, slips>>

PushLine(r) ==
    LET l == editor[r].line
    IN  /\ EditorAt(r, "push")
        /\ \/ /\ Editable
              /\ basket' = basket \cup {l}
              /\ Then(r, [editor[r] EXCEPT !.pc = "take"])
           \/ ~Editable /\ Then(r, Free) /\ UNCHANGED basket
        /\ UNCHANGED <<placed, board, total, units, net, slips>>

TakeAdded(r) ==
    /\ EditorAt(r, "take")
    /\ \/ /\ Move({editor[r].line}, 1) /\ Then(r, Free)
          /\ UNCHANGED slips
       \/ /\ slips < MaxSlips /\ slips' = slips + 1
          /\ Then(r, [editor[r] EXCEPT !.pc = "undo"])
          /\ UNCHANGED units
    /\ UNCHANGED <<basket, placed, board, total, net>>

\* Faulty variant: the line stays although its stock was never taken.
UndoNothing(r) ==
    /\ EditorAt(r, "undo")
    /\ Then(r, Free)
    /\ UNCHANGED <<basket, placed, board, total, units, net, slips>>

UndoAdd(r) ==
    /\ EditorAt(r, "undo")
    /\ basket' = basket \ {editor[r].line}
    /\ Then(r, Free)
    /\ UNCHANGED <<placed, board, total, units, net, slips>>

-----------------------------------------------------------------------------
(***************************************************************************)
(* removeItem                                                              *)
(***************************************************************************)
ReadForRemove(r, l) ==
    /\ EditorAt(r, "idle") /\ Editable
    /\ l \in basket /\ Cardinality(basket) > 1
    /\ Then(r, Busy("pull", l, commissionOf(l)))
    /\ UNCHANGED <<basket, placed, board, total, units, net, slips>>

\* Faulty variant: only the read checked that the line is not the last.
PullLastLine(r) ==
    LET l == editor[r].line
    IN  /\ EditorAt(r, "pull")
        /\ \/ /\ Editable /\ l \in basket
              /\ basket' = basket \ {l}
              /\ total' = total - editor[r].amount
              /\ Then(r, [editor[r] EXCEPT !.pc = "tidy"])
           \/ /\ ~(Editable /\ l \in basket)
              /\ Then(r, Free)
              /\ UNCHANGED <<basket, total>>
        /\ UNCHANGED <<placed, board, units, net, slips>>

\* Faulty variant: the write does not ask whether the line is still there.
PullLineTwice(r) ==
    LET l == editor[r].line
    IN  /\ EditorAt(r, "pull")
        /\ \/ /\ Editable /\ Cardinality(basket) > 1
              /\ basket' = basket \ {l}
              /\ total' = total - editor[r].amount
              /\ Then(r, [editor[r] EXCEPT !.pc = "tidy"])
           \/ /\ ~(Editable /\ Cardinality(basket) > 1)
              /\ Then(r, Free)
              /\ UNCHANGED <<basket, total>>
        /\ UNCHANGED <<placed, board, units, net, slips>>

\* The write asks again for the line, a second line and an editable order.
PullLine(r) ==
    LET l == editor[r].line
        hit == Editable /\ l \in basket /\ Cardinality(basket) > 1
    IN  /\ EditorAt(r, "pull")
        /\ \/ /\ hit
              /\ basket' = basket \ {l}
              /\ total' = total - editor[r].amount
              /\ Then(r, [editor[r] EXCEPT !.pc = "tidy"])
           \/ ~hit /\ Then(r, Free) /\ UNCHANGED <<basket, total>>
        /\ UNCHANGED <<placed, board, units, net, slips>>

\* The second write: "Keep totals tidy (... never below zero)".
TidyTotal(r) ==
    /\ EditorAt(r, "tidy")
    /\ total' = OrZero(total)
    /\ Then(r, [editor[r] EXCEPT !.pc = "return"])
    /\ UNCHANGED <<basket, placed, board, units, net, slips>>

\* Stock that cannot be put back is only logged.  Only a commission above zero
\* has anything to take back.
ReturnRemoved(r) ==
    /\ EditorAt(r, "return")
    /\ \/ Move({editor[r].line}, -1) /\ UNCHANGED slips
       \/ slips < MaxSlips /\ slips' = slips + 1 /\ UNCHANGED units
    /\ Then(r, IF editor[r].amount <= 0 THEN Free ELSE [editor[r] EXCEPT !.pc = "net"])
    /\ UNCHANGED <<basket, placed, board, total, net>>

\* netCommissionForOrder, and the share to take back.
NetRecorded == OrZero(net)
ReadNet(r) ==
    LET reverse == Smaller(editor[r].amount, NetRecorded)
    IN  /\ EditorAt(r, "net")
        /\ Then(r, IF reverse = 0 THEN Free ELSE Busy("append", editor[r].line, reverse))
        /\ UNCHANGED <<basket, placed, board, total, units, net, slips>>

AppendShare(r) ==
    /\ EditorAt(r, "append")
    /\ net' = net - editor[r].amount
    /\ Then(r, Free)
    /\ UNCHANGED <<basket, placed, board, total, units, slips>>

-----------------------------------------------------------------------------
(***************************************************************************)
(* The board: what moves stock or commission of the same order.            *)
(***************************************************************************)
Cancel(r) ==
    /\ EditorAt(r, "idle")
    /\ board.status = "ON_SHELF" /\ ~board.deleted
    /\ board' = [board EXCEPT !.status = "CANCELLED"]
    /\ Move(basket, -1)
    /\ Then(r, Busy("sum", NoLine, 0))
    /\ UNCHANGED <<basket, placed, total, net, slips>>

RejectClaim(r) ==
    /\ EditorAt(r, "idle")
    /\ board.approval = "PENDING" /\ board.status = "ON_SHELF" /\ ~board.deleted
    /\ board' = [board EXCEPT !.status = "CANCELLED", !.approval = "REJECTED"]
    /\ Move(basket, -1)
    /\ UNCHANGED <<basket, placed, total, net, editor, slips>>

ApproveClaim(r) ==
    /\ EditorAt(r, "idle")
    /\ board.approval = "PENDING" /\ ~board.deleted
    /\ board' = [board EXCEPT !.approval = "APPROVED"]
    /\ Then(r, IF total > 0 THEN Busy("credit", NoLine, total) ELSE Free)
    /\ UNCHANGED <<basket, placed, total, units, net, slips>>

CreditClaim(r) ==
    /\ EditorAt(r, "credit")
    /\ net' = net + editor[r].amount
    /\ Then(r, Free)
    /\ UNCHANGED <<basket, placed, board, total, units, slips>>

Ship(r) ==
    /\ EditorAt(r, "idle")
    /\ board.status = "ON_SHELF" /\ ~board.deleted /\ board.approval # "PENDING"
    /\ board' = [board EXCEPT !.status = "GONE"]
    /\ UNCHANGED <<basket, placed, total, units, net, editor, slips>>

DeleteOrder(r) ==
    /\ EditorAt(r, "idle") /\ ~board.deleted
    /\ board' = [board EXCEPT !.deleted = TRUE]
    /\ Move(IF board.status = "ON_SHELF" THEN basket ELSE {}, -1)
    /\ Then(r, Busy("sum", NoLine, 0))
    /\ UNCHANGED <<basket, placed, total, net, slips>>

RestoreOrder(r) ==
    /\ EditorAt(r, "idle") /\ board.deleted
    /\ board' = [board EXCEPT !.deleted = FALSE]
    /\ Move(IF board.status = "ON_SHELF" THEN basket ELSE {}, 1)
    /\ Then(r, IF total > 0 /\ board.approval \in {"NONE", "APPROVED"}
               THEN Busy("credit", NoLine, total) ELSE Free)
    /\ UNCHANGED <<basket, placed, total, net, slips>>

\* reverseByOrder sums the rows, then appends.
SumOrder(r) ==
    /\ EditorAt(r, "sum")
    /\ Then(r, IF net > 0 THEN Busy("append", NoLine, net) ELSE Free)
    /\ UNCHANGED <<basket, placed, board, total, units, net, slips>>

-----------------------------------------------------------------------------
EditStep(r) ==
    \/ \E l \in Extras : ReadForAdd(r, l)
    \/ \E l \in AllLines : ReadForRemove(r, l)
    \/ PushLine(r) \/ TakeAdded(r) \/ UndoAdd(r)
    \/ PullLine(r) \/ TidyTotal(r) \/ ReturnRemoved(r) \/ ReadNet(r) \/ AppendShare(r)
    \/ Ship(r)

BoardStep(r) ==
    \/ Cancel(r) \/ RejectClaim(r) \/ ApproveClaim(r) \/ CreditClaim(r)
    \/ DeleteOrder(r) \/ RestoreOrder(r) \/ SumOrder(r)

\* Removals and additions race each other and the dispatch; the moves that sum
\* or credit the whole order have the order to themselves.
OneAtATime(r) == \A x \in Editors \ {r} : EditorAt(x, "idle")
MovesOrder(r) == ~EditorAt(r, "idle") /\ editor[r].line = NoLine
ItemsNext ==
    \E r \in Editors : \/ EditStep(r) /\ \A x \in Editors \ {r} : ~MovesOrder(x)
                       \/ BoardStep(r) /\ OneAtATime(r)

ItemsSpec == ItemsInit /\ [][ItemsNext]_itemsVars

\* Everything races everything.
ItemsNextRacing == \E r \in Editors : EditStep(r) \/ BoardStep(r)

-----------------------------------------------------------------------------
EditorsRest == \A r \in Editors : EditorAt(r, "idle")

\* Whether no line of the order was sold below its cost.
NoLoss == \A l \in placed : commissionOf(l) >= 0

\* The order's commission is that of its lines, whatever was added, pulled and
\* undone in between (removeItem's guarded $pull and $inc are one write); with a
\* line sold at a loss it may be more, when the second write raised it to zero.
TotalFitsLines ==
    /\ total >= commissionOfAll(basket)
    /\ NoLoss => total = commissionOfAll(basket)

\* The units that are out are those of the lines of an order that holds its
\* stock; those of a line that left the order are back unless a failed write
\* was only logged (addItem, removeItem against the moves of the board).
HoldsStock == board.status = "GONE" \/ (board.status = "ON_SHELF" /\ ~board.deleted)
LinesHoldStock ==
    EditorsRest => \A l \in AllLines :
        IF l \in basket THEN units[l] = IF HoldsStock THEN 1 ELSE 0
        ELSE units[l] = 0 \/ slips > 0

\* An order keeps at least one product, however many admins remove lines at
\* once, unless a line just added had to be pulled again (removeItem).
KeepsAProduct == slips = 0 => basket # {}

\* At rest the wallet holds for a live order no more than the commission of the
\* lines it still has, and exactly that if it was earned and no line was sold at
\* a loss: a loss that is removed is never booked back (removeItem's reversal).
WalletFitsLines ==
    EditorsRest /\ ~board.deleted /\ board.status # "CANCELLED" =>
        IF board.approval = "PENDING" THEN net = 0
        ELSE net <= OrZero(total) /\ (NoLoss => net = total)

\* What adding, removing and undoing lines may not break, all together: the
\* figures, the stock and the commission follow the lines that are there.
BasketAddsUp == TotalFitsLines /\ LinesHoldStock /\ KeepsAProduct /\ WalletFitsLines
=============================================================================
