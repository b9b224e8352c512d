------------------------------- MODULE PgStore -------------------------------
(***************************************************************************)
(* The Hive Sync server with its Postgres store:                           *)
(*   legacy/go/internal/features/syncapi/postgres_store.go                 *)
(*   legacy/go/internal/features/syncapi/server.go         (handlePush)    *)
(*                                                                         *)
(* A push is one transaction at Postgres' default isolation, READ          *)
(* COMMITTED, and one step here is one SQL statement of it:                *)
(*   - a statement sees what is committed when it runs, and what its own   *)
(*     transaction has written;                                            *)
(*   - SELECT ... FOR UPDATE and INSERT ... ON CONFLICT DO UPDATE wait     *)
(*     while another transaction has the row locked or has written it; a   *)
(*     SELECT finds no row, and locks nothing, if the row is not committed;*)
(*   - an INSERT whose unique key another open transaction has inserted    *)
(*     waits for that one to end, and fails if it commits;                 *)
(*   - seq is drawn from a sequence when the row is inserted, committed or *)
(*     not, and never given back;                                          *)
(*   - transactions that wait for each other are a deadlock, of which      *)
(*     Postgres aborts one; an error of any statement aborts too.          *)
(* Postgres is not under src/: this is the part of its behaviour that the  *)
(* statements in postgres_store.go meet.                                   *)
(*                                                                         *)
(* The row of sync_conflicts is private to the transaction until it        *)
(* commits and nothing waits for it, so it is written in the step that     *)
(* inserts the operation.                                                  *)
(***************************************************************************)
EXTENDS SyncOperations

CONSTANTS
    Tx,           \* connections, each running one push at a time
    Seed,         \* rows of sync_operations that are there at the start
    Requests,     \* the operation lists that devices send, all valid
    PullLimit,    \* page size of a pull
    MaxPushes     \* bound: pushes that are begun

(***************************************************************************)
(* The unique keys of sync_operations.                                     *)
(***************************************************************************)
SameKey(row, d, op) ==
    row.device = d /\ row.op.idempotency_key = op.idempotency_key

Collides(row, d, op) == SameKey(row, d, op) \/ row.op.op_id = op.op_id

ASSUME SeedAssumption ==
    /\ Seed \subseteq StoredOperation
    /\ IsFiniteSet(Seed)
    /\ \A row, other \in Seed :
          Collides(row, other.device, other.op) => row = other
    /\ \A row \in Seed : Valid(row.op) /\ row.applied
    /\ \A row, other \in Seed : row.op.entity = other.op.entity => row = other
    /\ {row.cursor : row \in Seed} = 1..Cardinality(Seed)
ASSUME RequestsAssumption ==
    /\ Requests \subseteq Seq(Operation)
    /\ \A ops \in Requests : \A i \in DOMAIN ops : Valid(ops[i])
ASSUME PullLimitAssumption == PullLimit \in Nat \ {0}

VARIABLES
    rows,        \* committed rows of sync_operations
    entities,    \* committed rows of sync_entities; version 0 where none
    told,        \* committed rows of sync_conflicts
    nextSeq,     \* the sequence behind seq
    tx,          \* the transaction on each connection
    pushes,      \* pushes begun so far
    acked,       \* <<device, key>> of every operation answered as accepted
    cursor,      \* device -> the cursor it pulls from
    got          \* device -> the seqs it was sent

pullVars == <<cursor, got>>
vars == <<rows, entities, told, nextSeq, tx, pushes, acked, pullVars>>

Idle == [pc |-> "idle", device |-> 0, ops |-> <<>>, current |-> NoSnapshot,
         inserted |-> {}, locks |-> {},
         written |-> [e \in Entity |-> NoSnapshot],
         accepted |-> {}, conflicts |-> {}]

Transaction ==
    [pc : {"idle", "check", "load", "insert", "upsert", "commit"},
     device : Nat, ops : Seq(Operation), current : Snapshot,
     inserted : SUBSET StoredOperation, locks : SUBSET Entity,
     written : [Entity -> Snapshot], accepted : SUBSET Key,
     conflicts : SUBSET ConflictEvent]

Op(t) == Head(tx[t].ops)

Others(t) == Tx \ {t}

(***************************************************************************)
(* The state of the transaction once the operation at its head is done.    *)
(***************************************************************************)
Done(trans) ==
    [trans EXCEPT !.ops = Tail(@),
                  !.accepted = @ \cup {Head(trans.ops).idempotency_key},
                  !.pc = IF Len(trans.ops) = 1 THEN "commit" ELSE "check"]

(***************************************************************************)
(* The rows a statement of t sees.                                         *)
(***************************************************************************)
Visible(t) == rows \cup tx[t].inserted

(***************************************************************************)
(* The transactions that t has to wait for before its next statement.      *)
(***************************************************************************)
Blockers(t) ==
    CASE tx[t].pc = "load" ->
            IF entities[Op(t).entity].version = 0 THEN {}
            ELSE {u \in Others(t) : Op(t).entity \in tx[u].locks}
      [] tx[t].pc = "insert" ->
            {u \in Others(t) : \E row \in tx[u].inserted :
                                   Collides(row, tx[t].device, Op(t))}
      [] tx[t].pc = "upsert" ->
            {u \in Others(t) : Op(t).entity \in tx[u].locks}
      [] OTHER -> {}
-----------------------------------------------------------------------------
(***************************************************************************)
(* At the start the first operations of some entities are in the database. *)
(***************************************************************************)
Init ==
    /\ rows = Seed
    /\ entities = [e \in Entity |->
          IF \E row \in Seed : row.op.entity = e
          THEN LET row == CHOOSE row \in Seed : row.op.entity = e IN
               NextSnapshot(row.op, row.device, NoSnapshot, row.cursor)
          ELSE NoSnapshot]
    /\ told = {}
    /\ nextSeq = Cardinality(Seed) + 1
    /\ tx = [t \in Tx |-> Idle]
    /\ pushes = 0
    /\ acked = {}
    /\ cursor = [d \in Device |-> 0]
    /\ got = [d \in Device |-> {}]

(***************************************************************************)
(* A push request: the handler begins a transaction.  The same list may be *)
(* sent again, after it was answered or while it is being worked on.       *)
(***************************************************************************)
BeginPush(t, d, ops) ==
    /\ tx[t].pc = "idle"
    /\ pushes < MaxPushes
    /\ pushes' = pushes + 1
    /\ tx' = [tx EXCEPT ![t] = [Idle EXCEPT
          !.pc = IF ops = <<>> THEN "commit" ELSE "check",
          !.device = d,
          !.ops = ops]]
    /\ UNCHANGED <<rows, entities, told, nextSeq, acked, pullVars>>

(***************************************************************************)
(* SELECT seq ... WHERE device_id AND idempotency_key: an operation that   *)
(* was logged before is accepted as it is.                                 *)
(***************************************************************************)
CheckIdempotency(t) ==
    /\ tx[t].pc = "check"
    /\ IF \E row \in Visible(t) : SameKey(row, tx[t].device, Op(t))
       THEN tx' = [tx EXCEPT ![t] = Done(@)]
       ELSE tx' = [tx EXCEPT ![t].pc = "load"]
    /\ UNCHANGED <<rows, entities, told, nextSeq, pushes, acked, pullVars>>

(***************************************************************************)
(* SELECT version, ... FOR UPDATE.  A row that is not there is not locked. *)
(***************************************************************************)
\* slips
LoadWithoutLock(t) ==
    LET e == Op(t).entity IN
    /\ tx[t].pc = "load"
    /\ tx' = [tx EXCEPT ![t].pc = "insert",
                        ![t].current = IF tx[t].written[e].version # 0
                                       THEN tx[t].written[e] ELSE entities[e]]
    /\ UNCHANGED <<rows, entities, told, nextSeq, pushes, acked, pullVars>>

LoadEntityStateForUpdate(t) ==
    LET e == Op(t).entity
        found == IF tx[t].written[e].version # 0
                 THEN tx[t].written[e] ELSE entities[e]
    IN
    /\ tx[t].pc = "load"
    /\ Blockers(t) = {}
    /\ tx' = [tx EXCEPT ![t].pc = "insert",
                        ![t].current = found,
                        ![t].locks = IF found.version = 0 THEN @ ELSE @ \cup {e}]
    /\ UNCHANGED <<rows, entities, told, nextSeq, pushes, acked, pullVars>>

(***************************************************************************)
(* The default of seq: the next number of the sequence, whatever t sees.   *)
(***************************************************************************)
NewSeq(t) == nextSeq

(***************************************************************************)
(* INSERT INTO sync_operations ... RETURNING seq, and for a conflict the   *)
(* INSERT INTO sync_conflicts.                                             *)
(***************************************************************************)
\* slips
InsertUnchecked(t) ==
    LET d == tx[t].device
        op == Op(t)
        applied == Applied(op, d, tx[t].current)
        inserted == [tx[t] EXCEPT
            !.inserted = @ \cup {[cursor |-> NewSeq(t), device |-> d,
                                  applied |-> applied, op |-> op]},
            !.conflicts = IF IsConflict(op, tx[t].current)
                          THEN @ \cup {Event(op, d, tx[t].current)} ELSE @]
    IN
    /\ tx[t].pc = "insert"
    /\ nextSeq' = nextSeq + 1
    /\ tx' = [tx EXCEPT ![t] = IF applied THEN [inserted EXCEPT !.pc = "upsert"]
                               ELSE Done(inserted)]
    /\ UNCHANGED <<rows, entities, told, pushes, acked, pullVars>>

InsertOperation(t) ==
    LET d == tx[t].device
        op == Op(t)
        applied == Applied(op, d, tx[t].current)
        inserted == [tx[t] EXCEPT
            !.inserted = @ \cup {[cursor |-> NewSeq(t), device |-> d,
                                  applied |-> applied, op |-> op]},
            !.conflicts = IF IsConflict(op, tx[t].current)
                          THEN @ \cup {Event(op, d, tx[t].current)} ELSE @]
    IN
    /\ tx[t].pc = "insert"
    /\ Blockers(t) = {}
    /\ ~\E row \in Visible(t) : Collides(row, d, op)
    /\ nextSeq' = nextSeq + 1
    /\ tx' = [tx EXCEPT ![t] = IF applied THEN [inserted EXCEPT !.pc = "upsert"]
                               ELSE Done(inserted)]
    /\ UNCHANGED <<rows, entities, told, pushes, acked, pullVars>>

(***************************************************************************)
(* INSERT INTO sync_entities ... ON CONFLICT DO UPDATE: whatever version   *)
(* the row has by then, it becomes the one computed from the row loaded.   *)
(***************************************************************************)
UpsertEntityState(t) ==
    LET e == Op(t).entity
        seq == CHOOSE c \in {row.cursor : row \in tx[t].inserted} :
                 \A row \in tx[t].inserted : row.cursor <= c
        snapshot == NextSnapshot(Op(t), tx[t].device, tx[t].current, seq)
    IN
    /\ tx[t].pc = "upsert"
    /\ Blockers(t) = {}
    /\ tx' = [tx EXCEPT ![t] =
          Done([tx[t] EXCEPT !.written[e] = snapshot,
                             !.locks = tx[t].locks \cup {e}])]
    /\ UNCHANGED <<rows, entities, told, nextSeq, pushes, acked, pullVars>>

(***************************************************************************)
(* COMMIT, and the response, which need not get back to the client.        *)
(***************************************************************************)
Commit(t) ==
    /\ tx[t].pc = "commit"
    /\ rows' = rows \cup tx[t].inserted
    /\ entities' = [e \in Entity |-> IF tx[t].written[e].version # 0
                                     THEN tx[t].written[e] ELSE entities[e]]
    /\ told' = told \cup tx[t].conflicts
    /\ \/ acked' = acked \cup {<<tx[t].device, k>> : k \in tx[t].accepted}
       \/ acked' = acked
    /\ tx' = [tx EXCEPT ![t] = Idle]
    /\ UNCHANGED <<nextSeq, pushes, pullVars>>

(***************************************************************************)
(* A statement fails and the deferred Rollback undoes the transaction: the *)
(* operation's key, or its id, was committed in the meantime ...           *)
(***************************************************************************)
\* slips
RollbackAnswered(t) ==
    /\ acked' = acked \cup {<<tx[t].device, k>> : k \in tx[t].accepted}
    /\ tx' = [tx EXCEPT ![t] = Idle]
    /\ UNCHANGED <<rows, entities, told, pushes, pullVars>>

RollbackForgotten(t) ==
    /\ tx' = [tx EXCEPT ![t] = [Idle EXCEPT !.locks = tx[t].locks]]
    /\ UNCHANGED <<rows, entities, told, pushes, acked, pullVars>>

Rollback(t) ==
    /\ tx' = [tx EXCEPT ![t] = Idle]
    /\ UNCHANGED <<rows, entities, told, pushes, acked, pullVars>>

UniqueViolation(t) ==
    /\ tx[t].pc = "insert"
    /\ Blockers(t) = {}
    /\ \E row \in Visible(t) : Collides(row, tx[t].device, Op(t))
    /\ nextSeq' = nextSeq + 1
    /\ Rollback(t)

(***************************************************************************)
(* ... or Postgres chose it as the victim of a deadlock ...                *)
(***************************************************************************)
Deadlocked(t) ==
    \E S \in SUBSET Tx : t \in S /\ \A u \in S : Blockers(u) \cap S # {}

DeadlockAbort(t) ==
    /\ Deadlocked(t)
    /\ Rollback(t)
    /\ UNCHANGED nextSeq

(***************************************************************************)
(* ... or the connection or the server went down, or the request context   *)
(* was cancelled.                                                          *)
(***************************************************************************)
Fail(t) ==
    /\ tx[t].pc # "idle"
    /\ Rollback(t)
    /\ UNCHANGED nextSeq

(***************************************************************************)
(* PostgresStore.Pull by a device that keeps next_cursor: one SELECT.      *)
(***************************************************************************)
AppliedAfter(c) == {row \in rows : row.cursor > c /\ row.applied}

Page(c) ==
    {row \in AppliedAfter(c) :
        Cardinality({r \in AppliedAfter(c) : r.cursor < row.cursor}) < PullLimit}

NextCursor(c) ==
    CHOOSE n \in {row.cursor : row \in Page(c)} :
        \A row \in Page(c) : row.cursor <= n

Pull(d) ==
    /\ Page(cursor[d]) # {}
    /\ got' = [got EXCEPT ![d] = @ \cup {row.cursor : row \in Page(cursor[d])}]
    /\ cursor' = [cursor EXCEPT ![d] = NextCursor(cursor[d])]
    /\ UNCHANGED <<rows, entities, told, nextSeq, tx, pushes, acked>>

Statement(t) ==
    \/ CheckIdempotency(t)
    \/ LoadEntityStateForUpdate(t)
    \/ InsertOperation(t)
    \/ UniqueViolation(t)
    \/ UpsertEntityState(t)
    \/ Commit(t)
    \/ DeadlockAbort(t)

Next ==
    \/ \E t \in Tx :
          \/ \E d \in Device, ops \in Requests : BeginPush(t, d, ops)
          \/ Statement(t)
          \/ Fail(t)
    \/ \E d \in Device : Pull(d)

Spec == Init /\ [][Next]_vars

(***************************************************************************)
(* database/sql runs each statement as soon as Postgres lets it, and       *)
(* Postgres looks for deadlocks.                                           *)
(***************************************************************************)
FairSpec == Spec /\ \A t \in Tx : WF_vars(Statement(t))
-----------------------------------------------------------------------------
PgTypeOK ==
    /\ rows \subseteq StoredOperation
    /\ entities \in [Entity -> Snapshot]
    /\ told \subseteq ConflictEvent
    /\ nextSeq \in Nat \ {0}
    /\ tx \in [Tx -> Transaction]
    /\ acked \subseteq Device \X Key
    /\ cursor \in [Device -> Nat]
    /\ got \in [Device -> SUBSET Nat]
    /\ \A row \in rows, other \in rows : row.cursor = other.cursor => row = other

(***************************************************************************)
(* A push that is sent again while the first is still being worked on, or  *)
(* after it was answered, is logged once: a key stands once in the         *)
(* committed log (postgres_store.go:41,115-126).                           *)
(***************************************************************************)
OnceInLog ==
    \A row, other \in rows : SameKey(row, other.device, other.op) => row = other

(***************************************************************************)
(* What was answered as accepted is committed (postgres_store.go:228-236). *)
(***************************************************************************)
AcceptedIsLogged ==
    \A p \in acked : \E row \in rows :
        row.device = p[1] /\ row.op.idempotency_key = p[2]

(***************************************************************************)
(* Two operations made on the same version of an entity are a conflict,    *)
(* and a conflict is written down (server_test.go:289, "conflicts          *)
(* len=%d want=1").                                                        *)
(***************************************************************************)
SameBaseConflicts ==
    \A row, other \in rows :
        /\ row # other
        /\ row.op.entity = other.op.entity
        /\ row.op.base_version = other.op.base_version
        => \E event \in told :
              /\ event.entity = row.op.entity
              /\ {event.winner, event.loser} \cap
                    {row.op.op_id, other.op.op_id} # {}

(***************************************************************************)
(* A device that pulls has been sent every applied operation its cursor    *)
(* has passed (client_test.go:563, "expected %s on %s after soak           *)
(* convergence").                                                          *)
(***************************************************************************)
NoOperationSkipped ==
    \A d \in Device : \A row \in rows :
        row.applied /\ row.cursor <= cursor[d] => row.cursor \in got[d]

(***************************************************************************)
(* No push waits for ever for another one's locks.                         *)
(***************************************************************************)
PushesEnd ==
    \A t \in Tx : (tx[t].pc # "idle") ~> (tx[t].pc = "idle")
=============================================================================
