---------------------------- MODULE PayoutsProofs ----------------------------
(***************************************************************************)
(* Proofs about Payouts: for any requests, transfers, amounts and crashes. *)
(***************************************************************************)
EXTENDS Payouts, SumProofs

\* A row is in the ledger exactly while its request is past the insert.
RowsFollowRequests ==
    \A r \in Requests :
        /\ r \in rows => req[r].pc \in {"recheck", "remove", "paid", "dead"}
        /\ req[r].pc \in {"recheck", "remove", "paid"} => r \in rows

\* A row is worth something.
Named == \A r \in Requests : req[r].pc # "new" => req[r].amount # 0

PayoutsInv == TypeOK /\ RowsFollowRequests /\ OneTransferPerUtr /\ Named

\* The ledger starts without payouts.
LEMMA InitInv == Init => PayoutsInv
BY PayoutsAssumption
   DEF Init, PayoutsInv, TypeOK, RowsFollowRequests, OneTransferPerUtr, Named, Request, Pc

\* A step that changes one request and leaves the ledger as it is keeps the
\* invariant if the request stays on its side of the insert.
LEMMA RequestMoves ==
    ASSUME PayoutsInv, NEW r \in Requests, NEW q \in Request,
           req' = [req EXCEPT ![r] = q], UNCHANGED <<rows, earned, reversed>>,
           crashes' \in 0 .. MaxCrashes, q.amount # 0,
           r \in rows => q.utr = req[r].utr /\ q.pc \in {"recheck", "remove", "paid", "dead"},
           r \notin rows => q.pc \notin {"recheck", "remove", "paid"}
    PROVE  PayoutsInv'
<1>1. TypeOK'
  BY DEF PayoutsInv, TypeOK
<1>2. RowsFollowRequests'
  BY DEF PayoutsInv, TypeOK, RowsFollowRequests
<1>3. OneTransferPerUtr'
  <2>1. \A s \in rows : s \in Requests /\ req'[s].utr = req[s].utr
    BY DEF PayoutsInv, TypeOK
  <2> QED
    BY <2>1 DEF PayoutsInv, OneTransferPerUtr
<1>4. Named'
  BY DEF PayoutsInv, TypeOK, Named
<1> QED
  BY <1>1, <1>2, <1>3, <1>4 DEF PayoutsInv

\* createPayout: every step keeps the invariant.
LEMMA NextInv == PayoutsInv /\ [Next]_vars => PayoutsInv'
<1> SUFFICES ASSUME PayoutsInv, [Next]_vars
             PROVE  PayoutsInv'
  OBVIOUS
<1>t. TypeOK /\ RowsFollowRequests /\ OneTransferPerUtr /\ Named
  BY DEF PayoutsInv
<1>a. ASSUME NEW r \in Requests, NEW pc \in Pc
      PROVE  /\ [req[r] EXCEPT !.pc = pc] \in Request
             /\ [req EXCEPT ![r].pc = pc] = [req EXCEPT ![r] = [req[r] EXCEPT !.pc = pc]]
             /\ [req[r] EXCEPT !.pc = pc].pc = pc
             /\ [req[r] EXCEPT !.pc = pc].utr = req[r].utr
             /\ [req[r] EXCEPT !.pc = pc].amount = req[r].amount
  BY <1>t DEF TypeOK, Request
<1>1. ASSUME NEW r \in Requests, NEW a \in Amount, NEW u \in Utrs \cup {None}, Submit(r, a, u)
      PROVE  PayoutsInv'
  <2> DEFINE q == [pc |-> IF Recorded(u) THEN "refused" ELSE "balance", amount |-> a, utr |-> u]
  <2>1. q \in Request /\ q.pc \in {"refused", "balance"} /\ q.amount # 0
    BY PayoutsAssumption DEF Request, Pc, Amount
  <2>2. r \notin rows
    BY <1>1, <1>t DEF Submit, At, RowsFollowRequests
  <2>3. req' = [req EXCEPT ![r] = q] /\ UNCHANGED <<rows, earned, reversed, crashes>>
    BY <1>1 DEF Submit
  <2> HIDE DEF q
  <2> QED
    BY <2>1, <2>2, <2>3, <1>t, RequestMoves DEF TypeOK
<1>2. ASSUME NEW r \in Requests, CheckBalance(r)
      PROVE  PayoutsInv'
  <2>1. PICK pc \in {"refused", "insert"} : Goto(r, pc)
    BY <1>2 DEF CheckBalance
  <2>2. r \notin rows /\ req[r].amount # 0
    BY <1>2, <1>t DEF CheckBalance, At, RowsFollowRequests, Named
  <2>3. UNCHANGED <<rows, earned, reversed, crashes>>
    BY <1>2 DEF CheckBalance
  <2> QED
    BY ZenonT(60), <2>1, <2>2, <2>3, <1>t, <1>a, RequestMoves DEF Goto, Pc, TypeOK
<1>3. ASSUME NEW r \in Requests, Insert(r)
      PROVE  PayoutsInv'
  <2>1. CASE Recorded(req[r].utr)
    <3>1. Goto(r, "refused") /\ UNCHANGED <<rows, earned, reversed, crashes>>
      BY <1>3, <2>1 DEF Insert
    <3>2. r \notin rows /\ req[r].amount # 0
      BY <1>3, <1>t DEF Insert, At, RowsFollowRequests, Named
    <3> QED
      BY <3>1, <3>2, <1>t, <1>a, RequestMoves DEF Goto, Pc, TypeOK
  <2>2. CASE ~Recorded(req[r].utr)
    <3>1. Goto(r, "recheck") /\ rows' = rows \cup {r} /\ UNCHANGED <<earned, reversed, crashes>>
      BY <1>3, <2>2 DEF Insert
    <3>2. req' = [req EXCEPT ![r] = [req[r] EXCEPT !.pc = "recheck"]]
      BY <3>1, <1>a DEF Goto, Pc
    <3>3. TypeOK'
      BY <3>1, <3>2, <1>t, <1>a DEF TypeOK, Pc
    <3>4. RowsFollowRequests'
      BY <3>1, <3>2, <1>t DEF TypeOK, RowsFollowRequests
    <3>5. \A s \in Requests : req'[s].utr = req[s].utr
      BY <3>2, <1>t, <1>a DEF TypeOK, Pc
    <3>6. \A s \in rows : s \in Requests /\ (req[s].utr = req[r].utr => req[r].utr = None)
      BY <2>2, <1>t DEF Recorded, TypeOK
    <3>7. OneTransferPerUtr'
      BY <3>1, <3>5, <3>6, <1>t DEF OneTransferPerUtr
    <3>8. Named'
      BY <1>3, <3>2, <1>t, <1>a DEF TypeOK, Named, Pc, Insert, At
    <3> QED
      BY <3>3, <3>4, <3>7, <3>8 DEF PayoutsInv
  <2> QED
    BY <2>1, <2>2
<1>4. ASSUME NEW r \in Requests, Recheck(r)
      PROVE  PayoutsInv'
  <2>1. PICK pc \in {"remove", "paid"} : Goto(r, pc)
    BY <1>4 DEF Recheck
  <2>2. r \in rows /\ req[r].amount # 0
    BY <1>4, <1>t DEF Recheck, At, RowsFollowRequests, Named
  <2>3. UNCHANGED <<rows, earned, reversed, crashes>>
    BY <1>4 DEF Recheck
  <2> QED
    BY ZenonT(60), <2>1, <2>2, <2>3, <1>t, <1>a, RequestMoves DEF Goto, Pc, TypeOK
<1>5. ASSUME NEW r \in Requests, Remove(r)
      PROVE  PayoutsInv'
  <2>1. Goto(r, "refused") /\ rows' = rows \ {r} /\ UNCHANGED <<earned, reversed, crashes>>
    BY <1>5 DEF Remove
  <2>2. req' = [req EXCEPT ![r] = [req[r] EXCEPT !.pc = "refused"]]
    BY <2>1, <1>a DEF Goto, Pc
  <2>3. TypeOK'
    BY <2>1, <2>2, <1>t, <1>a DEF TypeOK, Pc
  <2>4. RowsFollowRequests'
    BY <2>1, <2>2, <1>t DEF TypeOK, RowsFollowRequests
  <2>5. \A s \in rows : s \in Requests /\ req'[s].utr = req[s].utr
    BY <2>2, <1>t, <1>a DEF TypeOK, Pc
  <2>6. OneTransferPerUtr'
    BY <2>1, <2>5, <1>t DEF OneTransferPerUtr
  <2>7. Named'
    BY <1>5, <2>2, <1>t, <1>a DEF TypeOK, Named, Pc, Remove, At
  <2> QED
    BY <2>3, <2>4, <2>6, <2>7 DEF PayoutsInv
<1>6. ASSUME NEW r \in Requests, Crash(r)
      PROVE  PayoutsInv'
  <2>1. Goto(r, "dead") /\ UNCHANGED <<rows, earned, reversed>>
    BY <1>6 DEF Crash
  <2>2. crashes' \in 0 .. MaxCrashes
    BY <1>6, <1>t, PayoutsAssumption DEF Crash, TypeOK
  <2>3. req[r].amount # 0
    BY <1>6, <1>t DEF Crash, Named
  <2> QED
    BY <2>1, <2>2, <2>3, <1>a, RequestMoves DEF Goto, Pc
<1>7. CASE Earn
  BY <1>7, <1>t, PayoutsAssumption
     DEF Earn, PayoutsInv, TypeOK, RowsFollowRequests, OneTransferPerUtr, Named
<1>8. CASE TakeBack
  BY <1>8, <1>t, PayoutsAssumption
     DEF TakeBack, PayoutsInv, TypeOK, RowsFollowRequests, OneTransferPerUtr, Named
<1>9. CASE UNCHANGED vars
  BY <1>9 DEF vars, PayoutsInv, TypeOK, RowsFollowRequests, OneTransferPerUtr, Named
<1> QED
  BY <1>1, <1>2, <1>3, <1>4, <1>5, <1>6, <1>7, <1>8, <1>9 DEF Next

-----------------------------------------------------------------------------
\* However often and however concurrently a bank transfer is submitted, the
\* ledger records it once (the look-up and the unique index in createPayout).
THEOREM TransferOnce == Spec => [](TypeOK /\ OneTransferPerUtr)
<1>1. PayoutsInv => TypeOK /\ OneTransferPerUtr
  BY DEF PayoutsInv
<1> QED
  BY <1>1, InitInv, NextInv, PTL DEF Spec

\* Payout requests and ledger figures keep their types.
THEOREM PayoutsTypeCorrect == Spec => []TypeOK
BY TransferOnce, PTL

\* A refused payout leaves no row and an acknowledged one always has its row
\* (insert, re-check and removal in createPayout).
THEOREM RefusedLeavesNoRow == Spec => []RowsArePaid
<1>1. PayoutsInv => RowsArePaid
  <2> SUFFICES ASSUME PayoutsInv, Quiet
               PROVE  {r \in rows : ~At(r, "dead")} = {r \in Requests : At(r, "paid")}
    BY DEF RowsArePaid
  <2>1. ASSUME NEW r \in rows, ~At(r, "dead")
        PROVE  r \in Requests /\ At(r, "paid")
    BY <2>1 DEF PayoutsInv, TypeOK, RowsFollowRequests, Quiet, At
  <2>2. ASSUME NEW r \in Requests, At(r, "paid")
        PROVE  r \in rows /\ ~At(r, "dead")
    BY <2>2 DEF PayoutsInv, RowsFollowRequests, At
  <2> QED
    BY <2>1, <2>2
<1> QED
  BY <1>1, InitInv, NextInv, PTL DEF Spec

-----------------------------------------------------------------------------
(***************************************************************************)
(* The ledger as money: what was acknowledged is covered by what was       *)
(* earned.  A balance is a sum over the rows (module SumProofs).           *)
(***************************************************************************)
Amounts == [r \in Requests |-> req[r].amount]

Covered == Total(Acknowledged) <= earned

LEMMA AmountsType ==
    ASSUME TypeOK
    PROVE  /\ \A r \in Requests : Amounts[r] = req[r].amount /\ req[r].amount \in Nat
           /\ \A S \in SUBSET Requests : Total(S) = SumFunctionOnSet(Amounts, S) /\ Total(S) \in Nat
<1>1. \A r \in Requests : Amounts[r] = req[r].amount /\ req[r].amount \in Nat
  BY PayoutsAssumption DEF Amounts, TypeOK, Request, Amount
<1>2. \A S : Total(S) = SumFunctionOnSet(Amounts, S)
  BY DEF Total, Amounts
<1>3. ASSUME NEW S \in SUBSET Requests
      PROVE  SumFunctionOnSet(Amounts, S) \in Nat
  <2>1. IsFiniteSet(S) /\ \A x \in S : Amounts[x] \in Nat
    BY <1>1, PayoutsAssumption, FS_Subset
  <2> QED
    BY <2>1, SumType
<1> QED
  BY <1>1, <1>2, <1>3

\* A payout that changes no acknowledged amount changes no total of them.
LEMMA TotalStays ==
    ASSUME TypeOK, TypeOK', NEW S \in SUBSET Requests, \A r \in S : req'[r].amount = req[r].amount
    PROVE  SumFunctionOnSet(Amounts', S) = Total(S)
<1>1. IsFiniteSet(S)
  BY PayoutsAssumption, FS_Subset
<1>2. \A r \in S : Amounts'[r] = Amounts[r]
  BY DEF Amounts
<1>3. SumFunctionOnSet(Amounts', S) = SumFunctionOnSet(Amounts, S)
  BY <1>1, <1>2, SumSame
<1> QED
  BY <1>3, AmountsType

\* What a step does to the two figures of a wallet.
LEMMA MoneyMoves ==
    ASSUME PayoutsInv, PayoutsInv', Covered, [Next]_vars
    PROVE  /\ Covered'
           /\ [AsWallet!Next]_<<earned - reversed, Total(Acknowledged)>>
<1>t. TypeOK /\ TypeOK'
  BY DEF PayoutsInv
<1>n. /\ earned \in Nat /\ reversed \in Nat /\ earned' \in Nat /\ reversed' \in Nat
  BY <1>t, PayoutsAssumption DEF TypeOK
<1>a. PICK A \in SUBSET Requests : A = Acknowledged
  BY DEF Acknowledged
<1>b. Total(A) \in Nat /\ Total(A) <= earned
  BY <1>t, <1>a, AmountsType DEF Covered
<1>1. ASSUME Acknowledged' = A, \A r \in A : req'[r].amount = req[r].amount
      PROVE  Total(Acknowledged)' = Total(A)
  <2>1. Total(Acknowledged)' = SumFunctionOnSet(Amounts', A)
    BY <1>1 DEF Total, Amounts
  <2> QED
    BY <2>1, <1>t, <1>1, TotalStays
<1>2. ASSUME Acknowledged' = A, \A r \in A : req'[r].amount = req[r].amount,
             UNCHANGED <<earned, reversed>>
      PROVE  Covered' /\ UNCHANGED <<earned - reversed, Total(Acknowledged)>>
  BY <1>1, <1>2, <1>a, <1>b DEF Covered
<1>3. ASSUME NEW r \in Requests, NEW q \in Request, req' = [req EXCEPT ![r] = q],
             req[r].pc # "paid", q.pc # "paid", UNCHANGED <<earned, reversed>>
      PROVE  Covered' /\ UNCHANGED <<earned - reversed, Total(Acknowledged)>>
  <2>1. r \notin A /\ \A x \in Requests \ {r} : req'[x] = req[x]
    BY <1>3, <1>a, <1>t DEF Acknowledged, TypeOK
  <2>2. req'[r] = q
    BY <1>3, <1>t DEF TypeOK
  <2>3. Acknowledged' = A
    BY <1>3, <1>a, <2>1, <2>2 DEF Acknowledged
  <2> QED
    BY <1>2, <1>3, <2>1, <2>3
<1>4. ASSUME NEW r \in Requests, NEW pc \in Pc \ {"paid"}, req[r].pc # "paid", Goto(r, pc),
             UNCHANGED <<earned, reversed>>
      PROVE  Covered' /\ UNCHANGED <<earned - reversed, Total(Acknowledged)>>
  <2> DEFINE q == [req[r] EXCEPT !.pc = pc]
  <2>1. q \in Request /\ q.pc # "paid" /\ req' = [req EXCEPT ![r] = q]
    BY <1>4, <1>t DEF TypeOK, Request, Goto
  <2> HIDE DEF q
  <2> QED
    BY <1>3, <1>4, <2>1
<1>5. ASSUME NEW r \in Requests, NEW a \in Amount, NEW u \in Utrs \cup {None}, Submit(r, a, u)
      PROVE  Covered' /\ UNCHANGED <<earned - reversed, Total(Acknowledged)>>
  <2> DEFINE q == [pc |-> IF Recorded(u) THEN "refused" ELSE "balance", amount |-> a, utr |-> u]
  <2>1. q \in Request /\ q.pc # "paid" /\ req' = [req EXCEPT ![r] = q]
    BY <1>5 DEF Submit, Request, Pc
  <2> HIDE DEF q
  <2> QED
    BY <1>3, <1>5, <2>1 DEF Submit, At
<1>6. ASSUME NEW r \in Requests, CheckBalance(r) \/ Insert(r) \/ Remove(r) \/ Crash(r)
      PROVE  Covered' /\ UNCHANGED <<earned - reversed, Total(Acknowledged)>>
  <2>1. PICK pc \in {"refused", "insert", "recheck", "dead"} : Goto(r, pc)
    BY <1>6 DEF CheckBalance, Insert, Remove, Crash
  <2>2. req[r].pc # "paid" /\ UNCHANGED <<earned, reversed>>
    BY <1>6 DEF CheckBalance, Insert, Remove, Crash, At
  <2> QED
    BY <1>4, <2>1, <2>2 DEF Pc
<1>7. ASSUME NEW r \in Requests, Recheck(r)
      PROVE  Covered' /\ [AsWallet!Next]_<<earned - reversed, Total(Acknowledged)>>
  <2>1. req[r].pc = "recheck" /\ UNCHANGED <<earned, reversed>> /\ r \in rows
    BY <1>7 DEF Recheck, At, PayoutsInv, RowsFollowRequests
  <2>2. CASE Balance < 0
    <3>1. Goto(r, "remove")
      BY <1>7, <2>2 DEF Recheck
    <3> QED
      BY <3>1, <2>1, <1>4 DEF Pc
  <2>3. CASE ~(Balance < 0)
    <3>1. req' = [req EXCEPT ![r].pc = "paid"]
      BY <1>7, <2>3 DEF Recheck, Goto
    <3>2. /\ \A x \in Requests : req'[x].amount = req[x].amount
          /\ \A x \in Requests : req'[x].pc = IF x = r THEN "paid" ELSE req[x].pc
      BY <3>1, <1>t DEF TypeOK, Request
    <3>3. Acknowledged' = A \cup {r} /\ r \notin A
      BY <3>2, <2>1, <1>a DEF Acknowledged
    <3>4. A \cup {r} \subseteq rows /\ rows \subseteq Requests
      BY <2>1, <1>a, <1>t DEF Acknowledged, PayoutsInv, RowsFollowRequests, TypeOK
    <3> DEFINE T == Total(A \cup {r})
    <3>5. Total(Acknowledged)' = T
      <4>1. Total(Acknowledged)' = SumFunctionOnSet(Amounts', A \cup {r})
        BY <3>3 DEF Total, Amounts
      <4> QED
        BY <4>1, <3>2, <3>4, <1>t, TotalStays
    <3>6. T = Total(A) + req[r].amount
      <4>1. IsFiniteSet(A) /\ \A y \in A \cup {r} : Amounts[y] \in Int
        BY <1>t, PayoutsAssumption, FS_Subset, AmountsType
      <4> QED
        BY <4>1, <3>3, <1>t, SumAdds, AmountsType
    <3>7. T <= Total(rows)
      <4>1. IsFiniteSet(rows) /\ \A y \in rows : Amounts[y] \in Nat
        BY <3>4, <1>t, PayoutsAssumption, FS_Subset, AmountsType
      <4> QED
        BY <4>1, <3>4, <1>t, SumGrows, AmountsType
    <3>8. req[r].amount \in Nat \ {0} /\ Total(rows) \in Nat /\ T \in Nat
      <4>1. req[r].amount # 0
        BY <2>1 DEF PayoutsInv, Named
      <4> QED
        BY <4>1, <3>4, <1>t, AmountsType
    <3>9. earned - reversed - Total(rows) >= 0
      BY <2>3, <3>8, <1>n DEF Balance
    <3> HIDE DEF T
    <3>10. T > Total(A) /\ T <= earned - reversed
      BY <3>6, <3>7, <3>8, <3>9, <1>b, <1>n
    <3>11. Covered'
      BY <3>5, <3>8, <3>10, <2>1, <1>n DEF Covered
    <3>12. AsWallet!Pay
      BY <3>5, <3>10, <2>1, <1>a DEF AsWallet!Pay
    <3> QED
      BY <3>11, <3>12 DEF AsWallet!Next
  <2> QED
    BY <2>2, <2>3
<1>8. ASSUME Earn \/ TakeBack
      PROVE  Covered' /\ AsWallet!Next
  <2>1. req' = req
    BY <1>8 DEF Earn, TakeBack
  <2>2. Total(Acknowledged)' = Total(A)
    <3>1. Acknowledged' = A
      BY <2>1, <1>a DEF Acknowledged
    <3> QED
      BY <3>1, <2>1, <1>1
  <2>3. CASE Earn
    <3>1. earned' = earned + 1 /\ reversed' = reversed
      BY <2>3 DEF Earn
    <3>2. AsWallet!Earn
      BY <3>1, <2>2, <1>a, <1>n DEF AsWallet!Earn
    <3> QED
      BY <3>1, <3>2, <2>2, <1>b, <1>n DEF Covered, AsWallet!Next
  <2>4. CASE TakeBack
    <3>1. earned' = earned /\ reversed' = reversed + 1
      BY <2>4 DEF TakeBack
    <3>2. AsWallet!TakeBack
      BY <3>1, <2>2, <1>a, <1>n DEF AsWallet!TakeBack
    <3> QED
      BY <3>1, <3>2, <2>2, <1>b, <1>n DEF Covered, AsWallet!Next
  <2> QED
    BY <1>8, <2>3, <2>4
<1>9. CASE UNCHANGED vars
  BY <1>2, <1>9, <1>a DEF vars, Acknowledged
<1> QED
  BY <1>5, <1>6, <1>7, <1>8, <1>9 DEF Next

LEMMA MoneyStarts == Init => Covered /\ AsWallet!Init
<1> SUFFICES ASSUME Init
             PROVE  Covered /\ AsWallet!Init
  OBVIOUS
<1>1. Acknowledged = {}
  BY DEF Init, Acknowledged
<1>2. Total({}) = 0
  BY FS_EmptySet, SumStep DEF Total
<1>3. earned \in Nat /\ earned - reversed \in Nat
  BY PayoutsAssumption DEF Init
<1> QED
  BY <1>1, <1>2, <1>3 DEF Covered, AsWallet!Init

\* However payouts race, die and take themselves back: once none is half-way, the
\* ledger is short of no more than what reversals took and what dead payouts left
\* (check, insert, re-check in createPayout).
THEOREM NeverAnOverdraftThatSticks == Spec => []NeverOverdrawn
<1>1. PayoutsInv /\ Covered => NeverOverdrawn
  <2> SUFFICES ASSUME PayoutsInv, Covered, Quiet
               PROVE  Balance >= -reversed - Total({r \in rows : At(r, "dead")})
    BY DEF NeverOverdrawn
  <2>t. TypeOK
    BY DEF PayoutsInv
  <2> DEFINE D == {r \in rows : At(r, "dead")}
  <2>1. rows = Acknowledged \cup D /\ Acknowledged \cap D = {} /\ rows \subseteq Requests
    BY DEF PayoutsInv, TypeOK, RowsFollowRequests, Quiet, Acknowledged, At
  <2>2. Total(rows) = Total(Acknowledged) + Total(D)
    <3>1. /\ IsFiniteSet(Acknowledged) /\ IsFiniteSet(D)
          /\ \A x \in Acknowledged \cup D : Amounts[x] \in Int
      BY <2>1, <2>t, PayoutsAssumption, FS_Subset, AmountsType
    <3>2. Acknowledged \in SUBSET Requests /\ D \in SUBSET Requests
      BY <2>1
    <3> HIDE DEF D
    <3> QED
      BY SMTT(30), <2>1, <2>t, <3>1, <3>2, SumSplits, AmountsType
  <2>3. Total(Acknowledged) \in Nat /\ Total(D) \in Nat /\ Total(Acknowledged) <= earned
    BY <2>1, <2>t, AmountsType DEF Covered
  <2>4. earned \in Nat /\ reversed \in Nat
    BY <2>t DEF TypeOK
  <2> HIDE DEF D
  <2>5. Balance >= -reversed - Total(D)
    BY <2>2, <2>3, <2>4 DEF Balance
  <2> QED
    BY <2>5 DEF D
<1>2. PayoutsInv /\ Covered /\ [Next]_vars => PayoutsInv' /\ Covered'
  BY NextInv, MoneyMoves
<1> QED
  BY <1>1, <1>2, InitInv, MoneyStarts, PTL DEF Spec

\* Check - insert - re-check, counted from the moment the re-check passes, is one
\* guarded payment out of a wallet (createPayout against the promise of its comment).
THEOREM PayoutsImplementWallet == Spec => ImplementsWallet
<1>1. PayoutsInv /\ Covered /\ [Next]_vars => PayoutsInv' /\ Covered'
  BY NextInv, MoneyMoves
<1>2. PayoutsInv /\ Covered /\ PayoutsInv' /\ [Next]_vars =>
        [AsWallet!Next]_<<earned - reversed, Total(Acknowledged)>>
  BY MoneyMoves
<1> QED
  BY <1>1, <1>2, InitInv, MoneyStarts, PTL DEF Spec, ImplementsWallet, AsWallet!Spec
=============================================================================
