\* A reconnection while an own order is open; no other failure.
SPECIFICATION FairSpec
CONSTANTS
    OwnIds = {a1}
    ExtIds = {}
    Known = {a1}
    Exact = {a1}
    Senders = {s1}
    Refreshers = {r1, r2}
    Stream = stream
    NoThread = NoThread
    NoOrder = NoOrder
    MaxFailures = 0
    MaxEvents = 4
PROPERTIES LockedAmountFreed
