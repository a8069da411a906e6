--------------------------- MODULE MCKrakenAccount ---------------------------
(***************************************************************************)
(* KrakenAccount for TLC.  The cfg file gives the threads and ids as model *)
(* values.                                                                 *)
(***************************************************************************)
EXTENDS KrakenAccount, TLC

RefreshersSymmetric == Permutations(Refreshers)
=============================================================================
