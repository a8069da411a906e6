----------------------- MODULE AccountManagerRefinement -----------------------
(***************************************************************************)
(* AccountManager implements AccountContract, for the one account it       *)
(* models: to the strategy, the mutex, the retried requests, the frames    *)
(* that overtake replies and the refreshes are the steps of the contract.  *)
(***************************************************************************)
EXTENDS AccountManager

Account == "account"
OfAccount(x) == [a \in {Account} |-> x]

Accepted == {i \in OwnIds : exch[i] # "none"}
Live == {i \in OwnIds : IsOpen(i)}
Registered == {i \in OwnIds : IsOur(i)}

\* The order whose reply is on the stack of a sender.
Unanswered == {i \in OwnIds : sent = i /\ \E t \in Senders : sender[t] = "reply"}

Sending == mutex \in Senders

Contract == INSTANCE AccountContract WITH
    Accounts   <- {Account},
    Orders     <- OwnIds,
    accepted   <- OfAccount(Accepted),
    live       <- OfAccount(Live),
    pending    <- OfAccount(Unanswered),
    registered <- OfAccount(Registered),
    lost       <- OfAccount(orphans),
    busy       <- OfAccount(Sending),
    isSynced   <- OfAccount(synced)

\* Every behaviour of the account manager is one of the contract: nothing it does
\* makes the account synced with an order of ours open and neither registered nor
\* lost, or erases an order that is still open.
ImplementsContract == Contract!ContractSpec
=============================================================================
