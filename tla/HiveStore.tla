------------------------------ MODULE HiveStore ------------------------------
(***************************************************************************)
(* The Hive Sync server with its in-memory store:                          *)
(*   legacy/go/internal/features/syncapi/server.go          (handlers)     *)
(*   legacy/go/internal/features/syncapi/memory_store.go    (MemoryStore)  *)
(*                                                                         *)
(* Handlers run concurrently; each call of the store holds its mutex.      *)
(* Requests wait for the mutex in any order, and a push is modelled        *)
(* operation by operation while it holds the mutex.                        *)
(*                                                                         *)
(* Under "slips" stand variants of the next definition with a slip a       *)
(* programmer could make.  Nothing uses them; PROJECT.json says which      *)
(* property would catch each one.                                          *)
(***************************************************************************)
EXTENDS SyncOperations

CONSTANTS
    Requests,     \* the operation lists that devices send
    PullLimits,   \* the values of ?limit= that devices send
    MaxLog,       \* bound: operations the log may hold
    MaxHandlers   \* bound: push handlers waiting for the mutex

ASSUME RequestsAssumption == Requests \subseteq Seq(Operation)
ASSUME PullLimitsAssumption == PullLimits \subseteq Nat \ {0}

VARIABLES
    devices,           \* registered devices
    operations,        \* the log
    latestCursor,      \* cursor of the last logged operation
    idempotencyIndex,  \* device, key -> cursor; 0 where the map has no entry
    entities,          \* current snapshot; version 0 where there is none
    handlers,          \* push requests decoded, waiting for the mutex
    mu,                \* whether a push holds the mutex
    job,               \* the push that holds it
    acked,             \* <<device, key>> of every operation reported accepted
    told,              \* every conflict reported in a response
    cursor,            \* per device: the cursor it pulls from
    got                \* per device: cursors of the operations it was sent

pushVars == <<devices, operations, latestCursor, idempotencyIndex, entities,
              handlers, mu, job, acked, told>>
vars == <<pushVars, cursor, got>>

Handler == [device : Device, conn : Nat, ops : Seq(Operation)]

Job == [device : Nat, conn : Nat, ops : Seq(Operation),
        accepted : SUBSET Operation, rejected : SUBSET Nat,
        conflicts : SUBSET ConflictEvent]

IdleJob == [device |-> 0, conn |-> 0, ops |-> <<>>, accepted |-> {},
            rejected |-> {}, conflicts |-> {}]

(***************************************************************************)
(* MemoryStore.Pull: the first limit applied operations after cursor c.    *)
(* A page is the set of their cursors; the code lists them in order.       *)
(***************************************************************************)
AppliedAfter(c) == {i \in DOMAIN operations :
                      operations[i].cursor > c /\ operations[i].applied}

Page(c, limit) ==
    {i \in AppliedAfter(c) :
        Cardinality({j \in AppliedAfter(c) : j < i}) < limit}

HasMore(c, limit) == Page(c, limit) # AppliedAfter(c)

\* slips
LatestAsNextCursor(c, limit) == latestCursor

NextCursor(c, limit) ==
    IF Page(c, limit) = {} THEN c
    ELSE CHOOSE i \in Page(c, limit) : \A j \in Page(c, limit) : j <= i
-----------------------------------------------------------------------------
Init ==
    /\ devices = {}
    /\ operations = <<>>
    /\ latestCursor = 0
    /\ idempotencyIndex = [d \in Device |-> [k \in Key |-> 0]]
    /\ entities = [e \in Entity |-> NoSnapshot]
    /\ handlers = {}
    /\ mu = FALSE
    /\ job = IdleJob
    /\ acked = {}
    /\ told = {}
    /\ cursor = [d \in Device |-> 0]
    /\ got = [d \in Device |-> {}]

(***************************************************************************)
(* POST /v1/devices/register.                                              *)
(***************************************************************************)
HandleDeviceRegister(d) ==
    /\ ~mu
    /\ devices' = devices \cup {d}
    /\ UNCHANGED <<operations, latestCursor, idempotencyIndex, entities,
                   handlers, mu, job, acked, told, cursor, got>>

(***************************************************************************)
(* POST /v1/sync/push, up to the call of store.Push: the device is         *)
(* registered (one hold of the mutex), then the handler waits for the      *)
(* mutex again.  conn names the connection the answer goes to, 0 if its    *)
(* client has gone.                                                        *)
(***************************************************************************)
HandlePush(d, conn, ops) ==
    /\ ~mu
    /\ Cardinality(handlers) < MaxHandlers
    /\ devices' = devices \cup {d}
    /\ handlers' = handlers \cup
                     {[device |-> d, conn |-> conn, ops |-> ops]}
    /\ UNCHANGED <<operations, latestCursor, idempotencyIndex, entities,
                   mu, job, acked, told, cursor, got>>

(***************************************************************************)
(* store.Push takes the mutex; any waiting handler may be the one.         *)
(***************************************************************************)
LockPush(h) ==
    /\ ~mu
    /\ Len(operations) + Len(h.ops) <= MaxLog
    /\ mu' = TRUE
    /\ handlers' = handlers \ {h}
    /\ job' = [IdleJob EXCEPT !.device = h.device, !.conn = h.conn,
                              !.ops = h.ops]
    /\ UNCHANGED <<devices, operations, latestCursor, idempotencyIndex,
                   entities, acked, told, cursor, got>>

(***************************************************************************)
(* The loop of MemoryStore.Push, one action per way an operation can go.   *)
(* handlePush sorts out the rejected operations before the loop; they      *)
(* touch nothing, so it makes no difference that they are met inside it.   *)
(***************************************************************************)
\* slips
AcceptInvalid ==
    /\ mu /\ job.ops # <<>>
    /\ ~Valid(Head(job.ops))
    /\ job' = [job EXCEPT !.ops = Tail(@),
                          !.accepted = @ \cup {Head(job.ops)}]
    /\ UNCHANGED <<devices, operations, latestCursor, idempotencyIndex,
                   entities, handlers, mu, acked, told, cursor, got>>

RejectOperation ==
    /\ mu /\ job.ops # <<>>
    /\ ~Valid(Head(job.ops))
    /\ job' = [job EXCEPT !.ops = Tail(@),
                          !.rejected = @ \cup {Head(job.ops).op_id}]
    /\ UNCHANGED <<devices, operations, latestCursor, idempotencyIndex,
                   entities, handlers, mu, acked, told, cursor, got>>

AcceptDuplicate ==
    /\ mu /\ job.ops # <<>>
    /\ Valid(Head(job.ops))
    /\ idempotencyIndex[job.device][Head(job.ops).idempotency_key] # 0
    /\ job' = [job EXCEPT !.ops = Tail(@),
                          !.accepted = @ \cup {Head(job.ops)}]
    /\ UNCHANGED <<devices, operations, latestCursor, idempotencyIndex,
                   entities, handlers, mu, acked, told, cursor, got>>

\* slips
StoreUnindexed(d, op, current, seq) ==
    /\ latestCursor' = seq
    /\ idempotencyIndex' =
          IF Applied(op, d, current)
          THEN [idempotencyIndex EXCEPT ![d][op.idempotency_key] = seq]
          ELSE idempotencyIndex
    /\ operations' =
          Append(operations, [cursor |-> seq, device |-> d,
                              applied |-> Applied(op, d, current), op |-> op])
    /\ entities' =
          IF Applied(op, d, current)
          THEN [entities EXCEPT ![op.entity] = NextSnapshot(op, d, current, seq)]
          ELSE entities
    /\ job' = [job EXCEPT !.ops = Tail(@), !.accepted = @ \cup {op}]

StoreDroppingLosers(d, op, current, seq) ==
    /\ latestCursor' = seq
    /\ idempotencyIndex' = idempotencyIndex
    /\ operations' =
          IF Applied(op, d, current)
          THEN Append(operations, [cursor |-> seq, device |-> d,
                                   applied |-> TRUE, op |-> op])
          ELSE operations
    /\ entities' =
          IF Applied(op, d, current)
          THEN [entities EXCEPT ![op.entity] = NextSnapshot(op, d, current, seq)]
          ELSE entities
    /\ job' = [job EXCEPT !.ops = Tail(@), !.accepted = @ \cup {op}]

StoreOperation(d, op, current, seq) ==
    /\ latestCursor' = seq
    /\ idempotencyIndex' =
          [idempotencyIndex EXCEPT ![d][op.idempotency_key] = seq]
    /\ operations' =
          Append(operations, [cursor |-> seq, device |-> d,
                              applied |-> Applied(op, d, current), op |-> op])
    /\ entities' =
          IF Applied(op, d, current)
          THEN [entities EXCEPT ![op.entity] = NextSnapshot(op, d, current, seq)]
          ELSE entities
    /\ job' = [job EXCEPT
                 !.ops = Tail(@),
                 !.accepted = @ \cup {op},
                 !.conflicts = IF IsConflict(op, current)
                               THEN @ \cup {Event(op, d, current)} ELSE @]

AcceptOperation ==
    /\ mu /\ job.ops # <<>>
    /\ Valid(Head(job.ops))
    /\ idempotencyIndex[job.device][Head(job.ops).idempotency_key] = 0
    /\ StoreOperation(job.device, Head(job.ops),
                      entities[Head(job.ops).entity], latestCursor + 1)
    /\ UNCHANGED <<devices, handlers, mu, acked, told, cursor, got>>

(***************************************************************************)
(* The loop is done: the mutex is released and the response written.       *)
(***************************************************************************)
ReplyPush ==
    /\ mu /\ job.ops = <<>>
    /\ mu' = FALSE
    /\ job' = IdleJob
    /\ acked' = acked \cup
          {<<job.device, op.idempotency_key>> : op \in job.accepted}
    /\ told' = told \cup job.conflicts
    /\ UNCHANGED <<devices, operations, latestCursor, idempotencyIndex,
                   entities, handlers, cursor, got>>

(***************************************************************************)
(* GET /v1/sync/pull by a device that keeps next_cursor, as the client     *)
(* does (client.go, RunSyncOnce).                                          *)
(***************************************************************************)
HandlePull(d, limit) ==
    /\ ~mu
    /\ Page(cursor[d], limit) # {}
    /\ got' = [got EXCEPT ![d] = @ \cup Page(cursor[d], limit)]
    /\ cursor' = [cursor EXCEPT ![d] = NextCursor(cursor[d], limit)]
    /\ UNCHANGED pushVars

Next ==
    \/ \E d \in Device :
          \/ HandleDeviceRegister(d)
          \/ \E ops \in Requests : HandlePush(d, 0, ops)
          \/ \E limit \in PullLimits : HandlePull(d, limit)
    \/ \E h \in handlers : LockPush(h)
    \/ RejectOperation
    \/ AcceptDuplicate
    \/ AcceptOperation
    \/ ReplyPush

Spec == Init /\ [][Next]_vars
-----------------------------------------------------------------------------
TypeOK ==
    /\ devices \subseteq Device
    /\ operations \in Seq(StoredOperation)
    /\ latestCursor = Len(operations)
    /\ idempotencyIndex \in [Device -> [Key -> Nat]]
    /\ entities \in [Entity -> Snapshot]
    /\ handlers \subseteq Handler
    /\ mu \in BOOLEAN
    /\ job \in Job
    /\ mu => job.device \in devices
    /\ acked \subseteq Device \X Key
    /\ told \subseteq ConflictEvent
    /\ cursor \in [Device -> Nat]
    /\ got \in [Device -> SUBSET Nat]

(***************************************************************************)
(* A push that is sent again, after a lost answer or by a second handler,  *)
(* is never logged twice: a device's idempotency key stands once in the    *)
(* log (memory_store.go:52-56).                                            *)
(***************************************************************************)
OnceInLog ==
    \A i, j \in DOMAIN operations :
        /\ operations[i].device = operations[j].device
        /\ operations[i].op.idempotency_key = operations[j].op.idempotency_key
        => i = j

(***************************************************************************)
(* The snapshot of an entity is what its log says: the version counts the  *)
(* applied operations, which is what base_version is compared with, and    *)
(* the winner to beat is the last applied one (memory_store.go:74-86).     *)
(***************************************************************************)
AppliedTo(e) == {i \in DOMAIN operations :
                   operations[i].applied /\ operations[i].op.entity = e}

Describes(snapshot, stored) ==
    /\ snapshot.last_op_id = stored.op.op_id
    /\ snapshot.last_device = stored.device
    /\ snapshot.last_client_updated = stored.op.client_updated

EntityFollowsLog ==
    \A e \in Entity :
        /\ entities[e].version = Cardinality(AppliedTo(e))
        /\ AppliedTo(e) # {} =>
              /\ entities[e].last_seq \in AppliedTo(e)
              /\ \A i \in AppliedTo(e) : i <= entities[e].last_seq
              /\ Describes(entities[e], operations[entities[e].last_seq])

(***************************************************************************)
(* What a device was told is accepted is in the log, also when it was      *)
(* accepted as the duplicate of an earlier push.                           *)
(***************************************************************************)
AcceptedIsLogged ==
    \A p \in acked : \E i \in DOMAIN operations :
        /\ operations[i].device = p[1]
        /\ operations[i].op.idempotency_key = p[2]

(***************************************************************************)
(* Edits of one entity made by devices that had not seen each other's all  *)
(* end the same way, in whatever order they arrive: the newest is current  *)
(* (conflict_resolution.go:28-53 with memory_store.go:61-67).              *)
(***************************************************************************)
Beats(x, y) ==
    \/ x.op.client_updated > y.op.client_updated
    \/ /\ x.op.client_updated = y.op.client_updated
       /\ \/ x.op.op_id > y.op.op_id
          \/ x.op.op_id = y.op.op_id /\ x.device > y.device

LoggedFor(e) == {i \in DOMAIN operations : operations[i].op.entity = e}

HeadIsNewest ==
    \A e \in Entity :
        (\A i \in LoggedFor(e) : operations[i].op.base_version = 0) =>
            \A i \in LoggedFor(e) :
                ~Beats(operations[i], operations[entities[e].last_seq])

(***************************************************************************)
(* No edit is lost silently: an operation that was logged but not applied  *)
(* is the loser of a conflict that is in a response, or will be in the     *)
(* response being prepared (memory_store.go:88-108).                       *)
(***************************************************************************)
LostEditsReported ==
    \A i \in DOMAIN operations :
        ~operations[i].applied =>
            \E event \in told \cup job.conflicts :
                /\ event.entity = operations[i].op.entity
                /\ event.loser = operations[i].op.op_id
                /\ event.loser_device = operations[i].device

(***************************************************************************)
(* A device that pulls from its cursor, with any limits, has been sent     *)
(* exactly the applied operations its cursor has passed                    *)
(* (memory_store.go:120-148).                                              *)
(***************************************************************************)
NoOperationSkipped ==
    \A d \in Device :
        got[d] = {i \in DOMAIN operations :
                    i <= cursor[d] /\ operations[i].applied}

(***************************************************************************)
(* The store keeps the promise of SyncLog (store.go, the Store interface). *)
(***************************************************************************)
SL == INSTANCE SyncLog WITH
          log <- [i \in DOMAIN operations |->
                    [device |-> operations[i].device,
                     key |-> operations[i].op.idempotency_key,
                     applied |-> operations[i].applied]],
          seen <- got

ImplementsSyncLog == SL!Spec
=============================================================================
