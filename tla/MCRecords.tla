------------------------------ MODULE MCRecords ------------------------------
(***************************************************************************)
(* Instances for TLC of records that several requests read, and then write *)
(* back: a tribe's members, the lines of an order, the sizes of a product  *)
(* and the invoices of a tribe.  A behaviour is about one of them, its     *)
(* part.                                                                   *)
(***************************************************************************)
EXTENDS TribeMembers, OrderItems, SizeStock, Invoices, TLC

VARIABLE part

partVars == <<membersVars, itemsVars, stockVars, invoiceVars, part>>

\* One line is sold below its cost.
MCShares == [l \in Bought |-> IF l = 3 THEN -2 ELSE l]

\* The actors of the four parts share their values.
Symmetry == Permutations(Members) \cup Permutations(Writers) \cup Permutations(Phones)

Init ==
    /\ part \in {"members", "items", "stock", "invoices"}
    /\ MembersInit /\ ItemsInit /\ StockInit /\ InvoicesInit
    /\ part # "items" => basket = Bought /\ board.approval = "NONE"
    /\ part # "stock" => alone = (CHOOSE b \in Serial : TRUE)
    /\ part # "invoices" => serial = (CHOOSE b \in OneByOne : TRUE)

Next ==
    /\ UNCHANGED part
    /\ \/ part = "members" /\ MembersNext /\ UNCHANGED <<itemsVars, stockVars, invoiceVars>>
       \/ part = "items" /\ ItemsNext /\ UNCHANGED <<membersVars, stockVars, invoiceVars>>
       \/ part = "stock" /\ StockNext /\ UNCHANGED <<membersVars, itemsVars, invoiceVars>>
       \/ part = "invoices" /\ InvoicesNext /\ UNCHANGED <<membersVars, itemsVars, stockVars>>

Spec == Init /\ [][Next]_partVars

-----------------------------------------------------------------------------
\* The variables of the four parts keep their types.
RecordsTypeOK == MembersTypeOK /\ ItemsTypeOK /\ StockTypeOK /\ InvoicesTypeOK
=============================================================================
