------------------------------ MODULE MCOrders ------------------------------
(***************************************************************************)
(* Instances of Orders for TLC.                                            *)
(***************************************************************************)
EXTENDS Orders, TLC

AllOps == {"create", "status", "approve", "reject", "delete", "restore",
           "returned", "reorder", "revert"}

\* Every operation that writes an order conditionally.
GuardedOps == AllOps \ {"revert"}

\* The writes of POST /orders and of a re-send that may fail and are undone.
CreateFaults == {<<"create", "take">>, <<"create", "save">>,
                 <<"create", "credit">>, <<"reorder", "save">>}

NoFaults == {}

\* The life of a parcel that comes back and is sent again.
ResendOps == {"create", "status", "delete", "returned", "reorder"}

\* Those whose compensation touches no document another request can see.
UnseenFaults == {<<"create", "take">>, <<"create", "save">>, <<"reorder", "save">>}

\* Ids carry no order, so safety runs may permute them.
Symmetry == Permutations(Orders) \cup Permutations(Requests)
                \cup Permutations(Lines)
=============================================================================
