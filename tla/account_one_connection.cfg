\* One connection per process, safety and liveness: an own order and an external
\* one, two senders, one failure.  No symmetry: liveness is checked.
SPECIFICATION FairSpec
CONSTANTS
    OwnIds = {a1}
    ExtIds = {x1}
    Known = {a1, x1}
    Exact = {a1, x1}
    Senders = {s1, s2}
    Refreshers = {r1}
    Stream = stream
    NoThread = NoThread
    NoOrder = NoOrder
    MaxFailures = 1
    MaxEvents = 4
INVARIANTS TypeOK HasOpenOrdersSound NeverOwnAndExternal LockAccounting LocksReleasedWhenDrained
PROPERTIES ClosedOrdersForgotten LockedAmountFreed SyncRecovers
