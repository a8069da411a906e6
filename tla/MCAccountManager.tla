-------------------------- MODULE MCAccountManager --------------------------
(***************************************************************************)
(* AccountManager for TLC.  The cfg files give the threads and ids as      *)
(* model values.                                                           *)
(***************************************************************************)
EXTENDS AccountManagerRefinement, TLC

ThreadsAndOrders == Permutations(Senders) \cup Permutations(Refreshers)
=============================================================================
