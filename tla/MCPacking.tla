----------------------------- MODULE MCPacking ------------------------------
(***************************************************************************)
(* Instances of Packing for TLC.                                           *)
(***************************************************************************)
EXTENDS Packing, TLC

AllOps == {"pack", "move", "delete", "restore", "revert", "kind", "unmark",
           "upload", "mark"}

\* Everything but taking back a write-off, which can be a reservation.
NoUnmark == AllOps \ {"unmark"}

\* What touches the pool, by any number of requests on the same order.
PoolOps == AllOps \ {"kind", "revert"}

\* The operations of the run that shows how an order keeps a barcode for ever.
RevertCancel == {"pack", "move", "revert", "upload"}

\* No id carries an order, so safety runs may permute them.
Symmetry == Permutations(Orders) \cup Permutations(Codes)
                \cup Permutations(Kinds) \cup Permutations(Requests)
=============================================================================
