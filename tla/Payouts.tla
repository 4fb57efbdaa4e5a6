------------------------------ MODULE Payouts -------------------------------
(***************************************************************************)
(* POST /transactions/payout (createPayout in transactions.service.ts):    *)
(* payouts of one tribe drawn on its ledger.  A tribe has no row to lock:  *)
(* its balance is the sum of its rows, and the guard is check, insert,     *)
(* re-check.                                                               *)
(*                                                                         *)
(* The commission side is module Orders' `net'; here it is two figures,    *)
(* what orders credited and what reversals took back.                      *)
(***************************************************************************)
EXTENDS Integers, FiniteSets, Functions

CONSTANTS
    Requests,     \* payout requests; each records one row at most
    Utrs,         \* bank transfer references
    MaxEarned,    \* bound on the commission of the tribe, and on what is reversed
    MaxCrashes,   \* bound on the requests that die half-way
    None          \* no UTR given

ASSUME PayoutsAssumption ==
    /\ IsFiniteSet(Requests)
    /\ None \notin Utrs
    /\ MaxEarned \in Nat
    /\ MaxCrashes \in Nat

Amount == 1 .. MaxEarned

Pc == {"new", "balance", "insert", "recheck", "remove", "paid", "refused", "dead"}

Request == [pc: Pc, amount: Amount \cup {0}, utr: Utrs \cup {None}]

VARIABLES
    req,      \* req[r]: the data and the next step of request r
    rows,     \* the requests whose PAYOUT row is in the ledger
    earned,   \* sum of the tribe's COMMISSION rows of an order
    reversed, \* sum of those that take commission back, as a positive number
    crashes   \* requests that died half-way

vars == <<req, rows, earned, reversed, crashes>>

TypeOK ==
    /\ req \in [Requests -> Request]
    /\ rows \subseteq Requests
    /\ earned \in 0 .. MaxEarned
    /\ reversed \in 0 .. MaxEarned
    /\ crashes \in 0 .. MaxCrashes

Init ==
    /\ req = [r \in Requests |-> [pc |-> "new", amount |-> 0, utr |-> None]]
    /\ rows = {}
    /\ earned \in 0 .. MaxEarned
    /\ reversed = 0
    /\ crashes = 0

Total(S) == SumFunctionOnSet([r \in Requests |-> req[r].amount], S)

\* Faulty variant: the payouts are left out of the sum.
BalanceOfCommission == earned - reversed

\* getBalance: commission adds, payouts subtract.
Balance == earned - reversed - Total(rows)

\* A row with this UTR exists.
Recorded(u) == u # None /\ \E r \in rows : req[r].utr = u

At(r, pc)   == req[r].pc = pc
Goto(r, pc) == req' = [req EXCEPT ![r].pc = pc]

-----------------------------------------------------------------------------
\* The request is refused if its UTR is already recorded.
Submit(r, a, u) ==
    /\ At(r, "new")
    /\ req' = [req EXCEPT ![r] = [pc |-> IF Recorded(u) THEN "refused" ELSE "balance",
                                  amount |-> a, utr |-> u]]
    /\ UNCHANGED <<rows, earned, reversed, crashes>>

\* Check.
CheckBalance(r) ==
    /\ At(r, "balance")
    /\ Goto(r, IF req[r].amount > Balance THEN "refused" ELSE "insert")
    /\ UNCHANGED <<rows, earned, reversed, crashes>>

\* Faulty variant: the UTR index is not unique.
InsertAnyUtr(r) ==
    /\ At(r, "insert")
    /\ rows' = rows \cup {r}
    /\ Goto(r, "recheck")
    /\ UNCHANGED <<earned, reversed, crashes>>

\* Insert; the unique index refuses a UTR recorded in the meantime.
Insert(r) ==
    /\ At(r, "insert")
    /\ IF Recorded(req[r].utr)
       THEN Goto(r, "refused") /\ UNCHANGED rows
       ELSE Goto(r, "recheck") /\ rows' = rows \cup {r}
    /\ UNCHANGED <<earned, reversed, crashes>>

\* Faulty variant: the inserted payout stands without a second look.
RecheckNothing(r) ==
    /\ At(r, "recheck")
    /\ Goto(r, "paid")
    /\ UNCHANGED <<rows, earned, reversed, crashes>>

\* Re-check: a payout that sees an overdraft takes itself back.
Recheck(r) ==
    /\ At(r, "recheck")
    /\ Goto(r, IF Balance < 0 THEN "remove" ELSE "paid")
    /\ UNCHANGED <<rows, earned, reversed, crashes>>

\* Faulty variant: the refused payout stays in the ledger.
RemoveNothing(r) ==
    /\ At(r, "remove")
    /\ Goto(r, "refused")
    /\ UNCHANGED <<rows, earned, reversed, crashes>>

\* It deletes its row and reports a conflict.
Remove(r) ==
    /\ At(r, "remove")
    /\ rows' = rows \ {r}
    /\ Goto(r, "refused")
    /\ UNCHANGED <<earned, reversed, crashes>>

-----------------------------------------------------------------------------
\* Faulty variant: the commission of an order is booked twice.
EarnTwice ==
    /\ earned < MaxEarned
    /\ earned' = earned + 2
    /\ UNCHANGED <<req, rows, reversed, crashes>>

\* An order is created, approved or restored: transactions.create.
Earn ==
    /\ earned < MaxEarned
    /\ earned' = earned + 1
    /\ UNCHANGED <<req, rows, reversed, crashes>>

\* An order is cancelled or deleted: reverseByOrder.  Two reversals of one
\* order may take back more than was earned (NeverReversedTwice in Orders).
TakeBack ==
    /\ reversed < MaxEarned
    /\ reversed' = reversed + 1
    /\ UNCHANGED <<req, rows, earned, crashes>>

Crash(r) ==
    /\ crashes < MaxCrashes
    /\ req[r].pc \in {"balance", "insert", "recheck", "remove"}
    /\ crashes' = crashes + 1
    /\ Goto(r, "dead")
    /\ UNCHANGED <<rows, earned, reversed>>

Next ==
    \/ \E r \in Requests :
          \/ \E a \in Amount, u \in Utrs \cup {None} : Submit(r, a, u)
          \/ CheckBalance(r) \/ Insert(r) \/ Recheck(r) \/ Remove(r) \/ Crash(r)
    \/ Earn \/ TakeBack

Spec == Init /\ [][Next]_vars

-----------------------------------------------------------------------------
(***************************************************************************)
(* Properties.                                                             *)
(***************************************************************************)

\* No payout is half-way.
Quiet == \A r \in Requests : req[r].pc \in {"new", "paid", "refused", "dead"}

\* createPayout's comment: "never a negative balance that sticks".  Once no
\* payout is half-way, racing payouts have not overdrawn the ledger: it is
\* short of no more than was taken back from it, and of the payouts that died
\* before they could take themselves back.
NeverOverdrawn ==
    Quiet => Balance >= -reversed - Total({r \in rows : At(r, "dead")})

\* "The UTR is unique": a bank transfer is recorded once, however often and
\* however concurrently it is submitted.
OneTransferPerUtr ==
    \A r, s \in rows : req[r].utr = req[s].utr /\ req[r].utr # None => r = s

\* Once no payout is half-way, the ledger holds the rows of the payouts that
\* were acknowledged, and no other but those of payouts that died: a refused
\* one leaves no trace.
RowsArePaid ==
    Quiet => {r \in rows : ~At(r, "dead")} = {r \in Requests : At(r, "paid")}

\* To the tribe a payout happens when its re-check passes; counted from there,
\* check - insert - re-check is a single guarded payment, whatever the other
\* payouts, the reversals and the crashes do around it.
Acknowledged == {r \in Requests : req[r].pc = "paid"}

AsWallet == INSTANCE Wallet WITH earned <- earned - reversed, paid <- Total(Acknowledged)

ImplementsWallet == AsWallet!Spec
=============================================================================
