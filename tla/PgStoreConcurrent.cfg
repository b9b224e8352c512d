SPECIFICATION FairSpec
CONSTANTS
    k0 = k0
    k1 = k1
    k2 = k2
    e1 = e1
    e2 = e2
    v = v
    t1 = t1
    t2 = t2
    NoKey = NoKey
    NoEntity = NoEntity
    BadPayload = BadPayload
    Device = {1, 2}
    Key = {k0, k1, k2}
    Entity = {e1, e2}
    Payload = {v}
    Tx = {t1, t2}
    Seed <- BothSeeded
    Requests <- CrossingRequests
    PullLimit = 1
    MaxPushes = 3
INVARIANTS OnceInLog AcceptedIsLogged SameBaseConflicts
PROPERTY PushesEnd
CHECK_DEADLOCK FALSE
