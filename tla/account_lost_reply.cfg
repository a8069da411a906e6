\* One reply is lost, twice in the HTTP client, or is no JSON.
SPECIFICATION Spec
CONSTANTS
    OwnIds = {a1}
    ExtIds = {}
    Known = {a1}
    Exact = {a1}
    Senders = {s1}
    Refreshers = {r1}
    Stream = stream
    NoThread = NoThread
    NoOrder = NoOrder
    MaxFailures = 1
    MaxEvents = 4
INVARIANTS SyncedMeansReplyReceived
