------------------------------- MODULE Wallet -------------------------------
(***************************************************************************)
(* What the commission ledger promises a tribe: commission is earned and   *)
(* sometimes taken back, and money is paid out in one step, never more of  *)
(* it than there is.  Module Payouts implements it.                        *)
(***************************************************************************)
EXTENDS Integers

VARIABLES
    earned,   \* commission earned, net of what was taken back
    paid      \* sum of the payouts recorded

Init == earned \in Nat /\ paid = 0

Earn == earned' > earned /\ paid' = paid

TakeBack == earned' < earned /\ paid' = paid

\* A payout needs a balance that covers it.
Pay == paid' > paid /\ paid' <= earned /\ earned' = earned

Next == Earn \/ TakeBack \/ Pay

Spec == Init /\ [][Next]_<<earned, paid>>
=============================================================================
