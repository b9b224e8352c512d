SPECIFICATION SyncSpec
CONSTANTS
    e1 = e1
    a = a
    b = b
    Gone = Gone
    NoKey = NoKey
    NoEntity = NoEntity
    BadPayload = BadPayload
    Device = {1, 2}
    Session = {1, 2}
    DeviceOf <- OneSessionEach
    Key = {1, 2, 3}
    OpIds = {1, 2, 3}
    Entity = {e1}
    Payload = {a, Gone}
    Requests = {}
    PullLimits = {1}
    OutboxBatch = 2
    PullLimit = 1
    MaxLog = 6
    MaxHandlers = 2
    MaxClock = 2
    MaxVersion = 3
    MayLose = FALSE
    MayCrash = FALSE
INVARIANTS LostEditsKnown NewerEditWins
