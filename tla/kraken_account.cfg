\* Two connections: an own order, an external one and one of an unknown pair.
SPECIFICATION Spec
CONSTANTS
    OwnIds = {a1}
    ExtIds = {x1, u1}
    Known = {a1, x1}
    Senders = {s1}
    Refreshers = {r1, r2}
    Stream = stream
    NoThread = NoThread
    NoOrder = NoOrder
    MaxFailures = 1
    MaxFrames = 2
SYMMETRY RefreshersSymmetric
INVARIANTS TypeOK RegistersAgreeWhenDrained
PROPERTIES ImplementsContract
