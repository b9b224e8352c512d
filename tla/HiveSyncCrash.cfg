SPECIFICATION SyncSpec
CONSTANTS
    e1 = e1
    a = a
    b = b
    Gone = Gone
    NoKey = NoKey
    NoEntity = NoEntity
    BadPayload = BadPayload
    Device = {1, 2}
    Session = {1, 2}
    DeviceOf <- OneSessionEach
    Key = {1, 2}
    OpIds = {1, 2}
    Entity = {e1}
    Payload = {a, Gone}
    Requests = {}
    PullLimits = {1}
    OutboxBatch = 2
    PullLimit = 1
    MaxLog = 6
    MaxHandlers = 2
    MaxClock = 1
    MaxVersion = 3
    MayLose = FALSE
    MayCrash = TRUE
INVARIANT NothingSkipped
