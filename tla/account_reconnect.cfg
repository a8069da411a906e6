\* The process reconnects: an own order whose price its events change, an
\* external order of a pair the symbol table does not know, two senders; one
\* failure, so that a lost reply is retried.
SPECIFICATION Spec
CONSTANTS
    OwnIds = {a1}
    ExtIds = {x1}
    Known = {a1}
    Exact = {}
    Senders = {s1, s2}
    Refreshers = {r1, r2}
    Stream = stream
    NoThread = NoThread
    NoOrder = NoOrder
    MaxFailures = 1
    MaxEvents = 4
SYMMETRY ThreadsAndOrders
INVARIANTS TotalsAgreeWhenDrained
PROPERTIES RefreshRestoresLocks ImplementsContract
