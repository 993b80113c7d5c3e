--------------------------- MODULE MC_FileServing ---------------------------
(***************************************************************************)
(* Model-checking instance of FileServing: addTorrentFiles' creates are   *)
(* committed in file order (see the hazard on Promise.all in README).     *)
(***************************************************************************)
EXTENDS FileServing

MCCommitOrders == {[k \in 1..N |-> k - 1]}

=============================================================================
