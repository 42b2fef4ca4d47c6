--------------------------- MODULE MCPageRowStore ----------------------------
(***************************************************************************)
(* Pages of two rows and a pool of two pages, with rows for three pages:   *)
(* pages fill up, are evicted, shrink and disappear.                       *)
(***************************************************************************)
EXTENDS PageRowStore

=============================================================================
