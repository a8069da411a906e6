--------------------------- MODULE AccountContract ---------------------------
(***************************************************************************)
(* What an AccountManager promises to the strategy that trades with it: an *)
(* abstract specification of AccountManagerImpl, for any set of accounts.  *)
(*                                                                         *)
(* Of all that the account manager keeps, the strategy sees the answers of *)
(* IsAccountSynced() and HasOpenOrders(pair).  Of all that the exchange    *)
(* does, it matters to them which orders are open.  Module AccountManager  *)
(* has the mutex, the replies, the frames of the user data stream and the  *)
(* refreshes between the two, and AccountManagerRefinement shows that it   *)
(* implements this module.                                                 *)
(***************************************************************************)
CONSTANTS
    Accounts,   \* the account managers of the process
    Orders      \* ids an exchange gives to the orders of this process

VARIABLES
    accepted,   \* accepted[a]: orders the exchange has ever accepted
    live,       \* live[a]: those of them that are open at the exchange
    pending,    \* pending[a]: accepted by the request in progress, not answered
    registered, \* registered[a]: the orders of m_our_orders
    lost,       \* lost[a]: orders whose reply this process never got
    busy,       \* busy[a]: a request is in progress and holds m_order_mutex
    isSynced    \* isSynced[a]: IsAccountSynced()

contractVars == <<accepted, live, pending, registered, lost, busy, isSynced>>

\* LimitOrder or MarketOrder begins.
Request(a) ==
    /\ ~busy[a]
    /\ busy' = [busy EXCEPT ![a] = TRUE]
    /\ isSynced' = [isSynced EXCEPT ![a] = FALSE]
    /\ UNCHANGED <<accepted, live, pending, registered, lost>>

\* The exchange accepts the order.
Accept(a, i) ==
    /\ busy[a]
    /\ i \in Orders \ accepted[a]
    /\ accepted' = [accepted EXCEPT ![a] = @ \cup {i}]
    /\ live' = [live EXCEPT ![a] = @ \cup {i}]
    /\ pending' = [pending EXCEPT ![a] = @ \cup {i}]
    /\ UNCHANGED <<registered, lost, busy, isSynced>>

\* The reply is read and its order stored.
Register(a, i) ==
    /\ i \in pending[a]
    /\ pending' = [pending EXCEPT ![a] = @ \ {i}]
    /\ registered' = [registered EXCEPT ![a] = @ \cup {i}]
    /\ UNCHANGED <<accepted, live, lost, busy, isSynced>>

\* The reply does not arrive; the request may be sent once more.
Lose(a) ==
    /\ pending' = [pending EXCEPT ![a] = {}]
    /\ lost' = [lost EXCEPT ![a] = @ \cup pending[a]]
    /\ UNCHANGED <<accepted, live, registered, busy, isSynced>>

\* The request returns, with an order or with an error.
Return(a) ==
    /\ busy[a]
    /\ pending[a] = {}
    /\ busy' = [busy EXCEPT ![a] = FALSE]
    /\ isSynced' = [isSynced EXCEPT ![a] = TRUE]
    /\ UNCHANGED <<accepted, live, pending, registered, lost>>

\* The request throws: the account stays unsynced until the next refresh.
Throw(a) ==
    /\ busy[a]
    /\ pending' = [pending EXCEPT ![a] = {}]
    /\ lost' = [lost EXCEPT ![a] = @ \cup pending[a]]
    /\ busy' = [busy EXCEPT ![a] = FALSE]
    /\ UNCHANGED <<accepted, live, registered, isSynced>>

\* RefreshAccountBalance ends.
Refresh(a) ==
    /\ ~busy[a]
    /\ isSynced' = [isSynced EXCEPT ![a] = TRUE]
    /\ UNCHANGED <<accepted, live, pending, registered, lost, busy>>

\* The exchange closes an order.
Close(a, i) ==
    /\ i \in live[a]
    /\ live' = [live EXCEPT ![a] = @ \ {i}]
    /\ UNCHANGED <<accepted, pending, registered, lost, busy, isSynced>>

\* A frame of the user data stream has closed the order: it is erased.
Forget(a, i) ==
    /\ ~busy[a]
    /\ i \in registered[a] \ live[a]
    /\ registered' = [registered EXCEPT ![a] = @ \ {i}]
    /\ UNCHANGED <<accepted, live, pending, lost, busy, isSynced>>

\* The process ends and starts again, knowing nothing.
Restart(a) ==
    /\ pending' = [pending EXCEPT ![a] = {}]
    /\ registered' = [registered EXCEPT ![a] = {}]
    /\ lost' = [lost EXCEPT ![a] = accepted[a]]
    /\ busy' = [busy EXCEPT ![a] = FALSE]
    /\ isSynced' = [isSynced EXCEPT ![a] = FALSE]
    /\ UNCHANGED <<accepted, live>>

ContractInit ==
    /\ accepted = [a \in Accounts |-> {}]
    /\ live = [a \in Accounts |-> {}]
    /\ pending = [a \in Accounts |-> {}]
    /\ registered = [a \in Accounts |-> {}]
    /\ lost = [a \in Accounts |-> {}]
    /\ busy = [a \in Accounts |-> FALSE]
    /\ isSynced = [a \in Accounts |-> FALSE]

ContractNext ==
    \E a \in Accounts :
        \/ Request(a) \/ Lose(a) \/ Return(a) \/ Throw(a) \/ Refresh(a) \/ Restart(a)
        \/ \E i \in Orders : Accept(a, i) \/ Register(a, i) \/ Close(a, i) \/ Forget(a, i)

ContractSpec == ContractInit /\ [][ContractNext]_contractVars

ContractTypeOK ==
    /\ accepted \in [Accounts -> SUBSET Orders]
    /\ live \in [Accounts -> SUBSET Orders]
    /\ pending \in [Accounts -> SUBSET Orders]
    /\ registered \in [Accounts -> SUBSET Orders]
    /\ lost \in [Accounts -> SUBSET Orders]
    /\ busy \in [Accounts -> BOOLEAN]
    /\ isSynced \in [Accounts -> BOOLEAN]

\* The promise: every open order of a synced account is registered, so that
\* HasOpenOrders(pair) tells of it, unless its reply was lost.
OpenOrdersKnown ==
    \A a \in Accounts : isSynced[a] => live[a] \subseteq registered[a] \cup lost[a]
=============================================================================
