SPECIFICATION Spec
CONSTANTS
    k1 = k1
    k2 = k2
    e1 = e1
    e2 = e2
    v = v
    NoKey = NoKey
    NoEntity = NoEntity
    BadPayload = BadPayload
    Device = {1, 2}
    Key = {k1, k2}
    Entity = {e1, e2}
    Payload = {v}
    Requests <- ConflictRequests
    PullLimits = {1, 2}
    MaxLog = 6
    MaxHandlers = 2
INVARIANTS
    TypeOK
    OnceInLog
    EntityFollowsLog
    AcceptedIsLogged
    HeadIsNewest
    LostEditsReported
    NoOperationSkipped
PROPERTY ImplementsSyncLog
CHECK_DEADLOCK FALSE
