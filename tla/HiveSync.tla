------------------------------- MODULE HiveSync -------------------------------
(***************************************************************************)
(* Devices syncing their notes through the Hive Sync server:               *)
(*   legacy/go/internal/features/syncclient/client.go  (RunSyncOnce)       *)
(*   legacy/go/internal/infra/db/sync_outbox.go        (the outbox)        *)
(*   legacy/go/internal/infra/db/sync_entity_versions.go                   *)
(* composed with the server of HiveStore.                                  *)
(*                                                                         *)
(* A device has one SQLite database; a session is one running sync of that *)
(* database (an mw sync process).  A step of a session is one database     *)
(* statement or transaction, or one HTTP exchange, so edits, other         *)
(* sessions, other devices, a lost answer or a crash come in between.      *)
(*                                                                         *)
(* A request that is late is one whose handler has not got the mutex yet:  *)
(* when its client goes away the handler keeps running, with nobody to     *)
(* answer.                                                                 *)
(***************************************************************************)
EXTENDS HiveStore, SequencesExt

CONSTANTS
    Session,      \* sync processes, positive numbers
    DeviceOf,     \* the device whose database each session works on
    OpIds,        \* random operation ids, positive numbers
    Gone,         \* the payload of a delete, and a note that does not exist
    OutboxBatch,  \* Config.OutboxBatchSize
    PullLimit,    \* Config.PullLimit
    MaxClock,     \* bound: the last second of the clock
    MaxVersion,   \* bound: the largest version a device counts to
    MayLose,      \* whether pushes, or their answers, can be lost
    MayCrash      \* whether a session can stop anywhere

ASSUME SessionAssumption ==
    /\ Session \subseteq Nat \ {0}
    /\ DeviceOf \in [Session -> Device]
ASSUME OpIdsAssumption == OpIds \subseteq Nat \ {0} /\ OpIds \subseteq Key
ASSUME GoneAssumption == Gone \in Payload
ASSUME LimitsAssumption ==
    /\ OutboxBatch \in Nat \ {0}
    /\ PullLimit \in Nat \ {0}
    /\ MaxClock \in Nat \ {0}
    /\ MaxVersion \in Nat
ASSUME FaultsAssumption == MayLose \in BOOLEAN /\ MayCrash \in BOOLEAN

VARIABLES
    clock,      \* the time in whole seconds, as RFC 3339 text keeps it
    outbox,     \* device -> rows of sync_outbox, oldest first
    versions,   \* device -> entity -> sync_entity_versions
    notes,      \* device -> entity -> what the database holds
    conflicts,  \* device -> rows of sync_conflicts
    pc,         \* session -> where RunSyncOnce is
    run         \* session -> its local variables

clientVars == <<outbox, versions, notes, conflicts, pc, run>>
syncVars == <<vars, clock, clientVars>>

Row == [op_id : OpIds, entity : Entity, payload : Payload,
        base_version : Nat, acked : BOOLEAN, created_at : Nat,
        updated_at : Nat]

Run == [cursor : Nat, batch : Seq(Row), conflicts : SUBSET ConflictEvent,
        page : SUBSET Nat, next : Nat, more : BOOLEAN]

IdleRun == [cursor |-> 0, batch |-> <<>>, conflicts |-> {}, page |-> {},
            next |-> 0, more |-> FALSE]

Rows(d) == ToSet(outbox[d])

UsedIds == UNION {{row.op_id : row \in Rows(d)} : d \in Device}

(***************************************************************************)
(* ListPendingOutbox: the oldest pending rows.                             *)
(***************************************************************************)
PendingPlaces(d) == {i \in DOMAIN outbox[d] : ~outbox[d][i].acked}

Pending(d) ==
    [k \in 1..Cardinality(PendingPlaces(d)) |->
        outbox[d][CHOOSE i \in PendingPlaces(d) :
            Cardinality({j \in PendingPlaces(d) : j < i}) = k - 1]]

\* slips
BatchOneShort(d) ==
    SubSeq(Pending(d), 1, IF Len(Pending(d)) <= OutboxBatch
                          THEN Len(Pending(d)) - 1 ELSE OutboxBatch)

PendingBatch(d) ==
    SubSeq(Pending(d), 1, IF Len(Pending(d)) < OutboxBatch
                          THEN Len(Pending(d)) ELSE OutboxBatch)

(***************************************************************************)
(* buildPushOperations: a row's idempotency key is its operation id, and   *)
(* client_updated_at is the row's updated_at.                              *)
(***************************************************************************)
PushOperation(row) ==
    [op_id |-> row.op_id, idempotency_key |-> row.op_id,
     entity |-> row.entity, base_version |-> row.base_version,
     client_updated |-> row.updated_at, payload |-> row.payload]

BuildPushOperations(batch) ==
    [i \in DOMAIN batch |-> PushOperation(batch[i])]

(***************************************************************************)
(* Marks the rows with these operation ids, whatever they are now.         *)
(***************************************************************************)
MarkRows(d, ids, isAcked) ==
    outbox' = [outbox EXCEPT ![d] =
        [i \in DOMAIN @ |->
            IF @[i].op_id \in ids
            THEN [@[i] EXCEPT !.acked = isAcked, !.updated_at = clock]
            ELSE @[i]]]

-----------------------------------------------------------------------------
SyncInit ==
    /\ Init
    /\ clock = 1
    /\ outbox = [d \in Device |-> <<>>]
    /\ versions = [d \in Device |-> [e \in Entity |-> 0]]
    /\ notes = [d \in Device |-> [e \in Entity |-> Gone]]
    /\ conflicts = [d \in Device |-> {}]
    /\ pc = [s \in Session |-> "idle"]
    /\ run = [s \in Session |-> IdleRun]

Tick ==
    /\ clock < MaxClock
    /\ clock' = clock + 1
    /\ UNCHANGED <<vars, clientVars>>

(***************************************************************************)
(* A note is written or deleted on a device: one transaction changes the   *)
(* note and enqueues the operation with the version last pulled, unless    *)
(* the outbox has a row of the same content and version already, be it     *)
(* pending or acknowledged.                                                *)
(***************************************************************************)
Enqueue(d, e, v, id) ==
    IF \E row \in Rows(d) : /\ row.entity = e
                            /\ row.payload = v
                            /\ row.base_version = versions[d][e]
    THEN outbox' = outbox
    ELSE outbox' = [outbox EXCEPT ![d] = Append(@,
            [op_id |-> id, entity |-> e, payload |-> v,
             base_version |-> versions[d][e], acked |-> FALSE,
             created_at |-> clock, updated_at |-> clock])]

Edit(d, e, v, id) ==
    /\ id \notin UsedIds
    /\ notes' = [notes EXCEPT ![d][e] = v]
    /\ Enqueue(d, e, v, id)
    /\ UNCHANGED <<vars, clock, versions, conflicts, pc, run>>

(***************************************************************************)
(* RunSyncOnce begins: it reads the cursor and the pending rows.           *)
(***************************************************************************)
StartSync(s) ==
    LET d == DeviceOf[s] IN
    /\ pc[s] = "idle"
    /\ run' = [run EXCEPT ![s] = [IdleRun EXCEPT !.cursor = cursor[d],
                                                 !.batch = PendingBatch(d)]]
    /\ pc' = [pc EXCEPT ![s] = IF PendingBatch(d) = <<>>
                               THEN "pull" ELSE "send"]
    /\ UNCHANGED <<vars, clock, outbox, versions, notes, conflicts>>

(***************************************************************************)
(* The push request reaches the server.                                    *)
(***************************************************************************)
SendPush(s) ==
    /\ pc[s] = "send"
    /\ HandlePush(DeviceOf[s], s, BuildPushOperations(run[s].batch))
    /\ pc' = [pc EXCEPT ![s] = "push"]
    /\ UNCHANGED <<clock, outbox, versions, notes, conflicts, run>>

(***************************************************************************)
(* The server answers, to whoever still waits on the connection.           *)
(***************************************************************************)
AnswerPush(s) ==
    /\ job.conn = s
    /\ ReplyPush
    /\ pc' = [pc EXCEPT ![s] = "record"]
    /\ run' = [run EXCEPT ![s].conflicts = job.conflicts]
    /\ UNCHANGED <<clock, outbox, versions, notes, conflicts>>

AnswerNobody ==
    /\ job.conn = 0
    /\ ReplyPush
    /\ UNCHANGED <<clock, clientVars>>

(***************************************************************************)
(* The server's end of a connection whose client has gone.                 *)
(***************************************************************************)
Disconnect(s) ==
    /\ handlers' = {IF h.conn = s THEN [h EXCEPT !.conn = 0] ELSE h :
                      h \in handlers}
    /\ job' = IF job.conn = s THEN [job EXCEPT !.conn = 0] ELSE job
    /\ UNCHANGED <<devices, operations, latestCursor, idempotencyIndex,
                   entities, mu, acked, told, cursor, got>>

(***************************************************************************)
(* The push fails: the request was lost, or its answer was, or the client  *)
(* timed out while the server still works on it.  Every row of the batch   *)
(* is marked failed, which leaves it pending with a new updated_at.        *)
(***************************************************************************)
\* slips
PushFailureAcks(s) ==
    /\ MayLose
    /\ pc[s] \in {"send", "push"}
    /\ MarkRows(DeviceOf[s], {row.op_id : row \in ToSet(run[s].batch)}, TRUE)
    /\ Disconnect(s)
    /\ pc' = [pc EXCEPT ![s] = "idle"]
    /\ run' = [run EXCEPT ![s] = IdleRun]
    /\ UNCHANGED <<clock, versions, notes, conflicts>>

PushFails(s) ==
    /\ MayLose
    /\ pc[s] \in {"send", "push"}
    /\ MarkRows(DeviceOf[s], {row.op_id : row \in ToSet(run[s].batch)}, FALSE)
    /\ Disconnect(s)
    /\ pc' = [pc EXCEPT ![s] = "idle"]
    /\ run' = [run EXCEPT ![s] = IdleRun]
    /\ UNCHANGED <<clock, versions, notes, conflicts>>

(***************************************************************************)
(* The answer is recorded: MarkOutboxAcked row by row, then one row of     *)
(* sync_conflicts for each conflict in the answer.  The server rejects no  *)
(* operation that EnqueueOutboxOperation can have written.                 *)
(***************************************************************************)
\* slips
RecordedOnceAcked(batch, events) ==
    IF batch = <<>> THEN "pull" ELSE "record"

Recorded(batch, events) ==
    IF batch = <<>> /\ events = {} THEN "pull" ELSE "record"

RecordAck(s) ==
    /\ pc[s] = "record" /\ run[s].batch # <<>>
    /\ MarkRows(DeviceOf[s], {Head(run[s].batch).op_id}, TRUE)
    /\ run' = [run EXCEPT ![s].batch = Tail(@)]
    /\ pc' = [pc EXCEPT ![s] = Recorded(Tail(run[s].batch), run[s].conflicts)]
    /\ UNCHANGED <<vars, clock, versions, notes, conflicts>>

RecordConflict(s) ==
    /\ pc[s] = "record" /\ run[s].batch = <<>>
    /\ \E event \in run[s].conflicts :
          /\ conflicts' = [conflicts EXCEPT ![DeviceOf[s]] = @ \cup {event}]
          /\ run' = [run EXCEPT ![s].conflicts = @ \ {event}]
          /\ pc' = [pc EXCEPT ![s] = Recorded(<<>>, run[s].conflicts \ {event})]
    /\ UNCHANGED <<vars, clock, outbox, versions, notes>>

(***************************************************************************)
(* A pull reads one page from the session's cursor; an empty one ends the  *)
(* sync.                                                                   *)
(***************************************************************************)
\* slips
PullSavingCursor(s) ==
    LET c == run[s].cursor IN
    /\ pc[s] = "pull" /\ ~mu
    /\ IF Page(c, PullLimit) = {}
       THEN /\ pc' = [pc EXCEPT ![s] = "idle"]
            /\ run' = [run EXCEPT ![s] = IdleRun]
       ELSE /\ pc' = [pc EXCEPT ![s] = "apply"]
            /\ run' = [run EXCEPT ![s].page = Page(c, PullLimit),
                                  ![s].next = NextCursor(c, PullLimit),
                                  ![s].more = HasMore(c, PullLimit)]
    /\ cursor' = [cursor EXCEPT ![DeviceOf[s]] = NextCursor(c, PullLimit)]
    /\ UNCHANGED <<pushVars, got, clock, outbox, versions, notes, conflicts>>

Pull(s) ==
    LET c == run[s].cursor IN
    /\ pc[s] = "pull" /\ ~mu
    /\ IF Page(c, PullLimit) = {}
       THEN /\ pc' = [pc EXCEPT ![s] = "idle"]
            /\ run' = [run EXCEPT ![s] = IdleRun]
       ELSE /\ pc' = [pc EXCEPT ![s] = "apply"]
            /\ run' = [run EXCEPT ![s].page = Page(c, PullLimit),
                                  ![s].next = NextCursor(c, PullLimit),
                                  ![s].more = HasMore(c, PullLimit)]
    /\ UNCHANGED <<vars, clock, outbox, versions, notes, conflicts>>

(***************************************************************************)
(* applyOperation on the next operation of the page: one transaction       *)
(* writes the note and increments the version.                             *)
(***************************************************************************)
ApplyOperation(s) ==
    /\ pc[s] = "apply"
    /\ \E i \in run[s].page :
          LET d == DeviceOf[s]
              op == operations[i].op
          IN
          /\ \A j \in run[s].page : i <= j
          /\ versions[d][op.entity] < MaxVersion
          /\ notes' = [notes EXCEPT ![d][op.entity] = op.payload]
          /\ versions' = [versions EXCEPT ![d][op.entity] = @ + 1]
          /\ got' = [got EXCEPT ![d] = @ \cup {i}]
          /\ run' = [run EXCEPT ![s].page = @ \ {i}]
    /\ UNCHANGED <<pushVars, cursor, clock, outbox, conflicts, pc>>

SaveCursor(s) ==
    /\ pc[s] = "apply" /\ run[s].page = {}
    /\ cursor' = [cursor EXCEPT ![DeviceOf[s]] = run[s].next]
    /\ IF run[s].more
       THEN /\ pc' = [pc EXCEPT ![s] = "pull"]
            /\ run' = [run EXCEPT ![s].cursor = run[s].next]
       ELSE /\ pc' = [pc EXCEPT ![s] = "idle"]
            /\ run' = [run EXCEPT ![s] = IdleRun]
    /\ UNCHANGED <<pushVars, got, clock, outbox, versions, notes, conflicts>>

(***************************************************************************)
(* The process stops, or RunSyncOnce returns the error of a later step     *)
(* (a failed pull, a locked database, an artifact that cannot be written): *)
(* what is in the database stays, the rest is gone.                        *)
(***************************************************************************)
Crash(s) ==
    /\ MayCrash
    /\ pc[s] # "idle"
    /\ Disconnect(s)
    /\ pc' = [pc EXCEPT ![s] = "idle"]
    /\ run' = [run EXCEPT ![s] = IdleRun]
    /\ UNCHANGED <<clock, outbox, versions, notes, conflicts>>

ServerStep ==
    \/ /\ \/ \E h \in handlers : LockPush(h)
          \/ AcceptDuplicate
          \/ AcceptOperation
       /\ UNCHANGED <<clock, clientVars>>
    \/ AnswerNobody

SessionStep(s) ==
    \/ StartSync(s)
    \/ SendPush(s)
    \/ RecordAck(s)
    \/ RecordConflict(s)
    \/ Pull(s)
    \/ ApplyOperation(s)
    \/ SaveCursor(s)

SyncNext ==
    \/ Tick
    \/ \E d \in Device, e \in Entity, v \in Payload, id \in OpIds :
          Edit(d, e, v, id)
    \/ \E s \in Session : 
          SessionStep(s) \/ AnswerPush(s) \/ PushFails(s) \/ Crash(s)
    \/ ServerStep

SyncSpec == SyncInit /\ [][SyncNext]_syncVars

(***************************************************************************)
(* A sync that is due is run, and each of its steps is taken (the loop of  *)
(* RunSyncWorker; the process does not stop for good); the server works on *)
(* its requests; and the network, which may fail for any length of time,   *)
(* does not fail for ever.                                                 *)
(***************************************************************************)
FairSyncSpec ==
    /\ SyncSpec
    /\ WF_syncVars(ServerStep)
    /\ \A s \in Session :
          WF_syncVars(SessionStep(s)) /\ WF_syncVars(AnswerPush(s))
    /\ <>[][\A s \in Session : ~PushFails(s)]_syncVars
-----------------------------------------------------------------------------
SyncTypeOK ==
    /\ TypeOK
    /\ clock \in 1..MaxClock
    /\ outbox \in [Device -> Seq(Row)]
    /\ versions \in [Device -> [Entity -> Nat]]
    /\ notes \in [Device -> [Entity -> Payload]]
    /\ conflicts \in [Device -> SUBSET ConflictEvent]
    /\ pc \in [Session ->
                 {"idle", "send", "push", "record", "pull", "apply"}]
    /\ run \in [Session -> Run]

(***************************************************************************)
(* A row is acknowledged on the device only if the server has logged it.   *)
(***************************************************************************)
AckedIsLogged ==
    \A d \in Device : \A row \in Rows(d) :
        row.acked => idempotencyIndex[d][row.op_id] # 0

(***************************************************************************)
(* A device's cursor never passes an applied operation that the device has *)
(* not written to its database, whatever was lost or crashed.              *)
(***************************************************************************)
NothingSkipped ==
    \A d \in Device : \A i \in DOMAIN operations :
        operations[i].applied /\ i <= cursor[d] => i \in got[d]

(***************************************************************************)
(* When every edit is pushed and every device has pulled everything, every *)
(* device holds what the server holds.                                     *)
(***************************************************************************)
Settled ==
    /\ handlers = {} /\ ~mu
    /\ \A s \in Session : pc[s] = "idle"
    /\ \A d \in Device : Pending(d) = <<>> /\ AppliedAfter(cursor[d]) = {}

CurrentPayload(e) ==
    IF entities[e].version = 0 THEN Gone
    ELSE operations[entities[e].last_seq].op.payload

Converged ==
    Settled => \A d \in Device, e \in Entity : notes[d][e] = CurrentPayload(e)

(***************************************************************************)
(* A device whose edit lost learns of it: when a row is acknowledged and   *)
(* its answer dealt with, a losing row is in sync_conflicts.               *)
(***************************************************************************)
Recording(d) == \E s \in Session : DeviceOf[s] = d /\ pc[s] = "record"

LostEditsKnown ==
    \A d \in Device : \A row \in Rows(d) :
        /\ row.acked /\ ~Recording(d)
        /\ ~operations[idempotencyIndex[d][row.op_id]].applied
        => \E event \in conflicts[d] : event.loser = row.op_id

(***************************************************************************)
(* A conflict is never won by an edit that was made before the one it      *)
(* beats (client_updated_at, conflict_resolution.go:32-38).                *)
(***************************************************************************)
CreatedAt(id) ==
    (CHOOSE row \in UNION {Rows(d) : d \in Device} : row.op_id = id).created_at

NewerEditWins ==
    \A event \in told : CreatedAt(event.winner) >= CreatedAt(event.loser)

(***************************************************************************)
(* A changed note is queued: as long as nothing was pulled since the last  *)
(* row was enqueued, that row holds what the note holds                    *)
(* (sync_outbox_test.go:57-69, "enqueue changed payload").                 *)
(***************************************************************************)
RowsOf(d, e) == SelectSeq(outbox[d], LAMBDA row : row.entity = e)

ChangeIsQueued ==
    \A d \in Device, e \in Entity :
        /\ RowsOf(d, e) # <<>>
        /\ Last(RowsOf(d, e)).base_version = versions[d][e]
        => notes[d][e] = Last(RowsOf(d, e)).payload

(***************************************************************************)
(* Every edit is pushed in the end, and every applied operation reaches    *)
(* every device.                                                           *)
(***************************************************************************)
EditsArePushed ==
    \A d \in Device, id \in OpIds :
        (\E row \in Rows(d) : row.op_id = id) ~>
            (\E row \in Rows(d) : row.op_id = id /\ row.acked)

OperationsArrive ==
    \A d \in Device, i \in 1..Cardinality(OpIds) :
        (i \in DOMAIN operations /\ operations[i].applied) ~> (i \in got[d])
=============================================================================
