--------------------------- MODULE SyncOperations ---------------------------
(***************************************************************************)
(* Operations, and the rule by which both stores of the Hive Sync server   *)
(* settle a conflict between two of them:                                  *)
(*   legacy/go/internal/features/syncapi/server.go       (handlePush)      *)
(*   legacy/go/internal/features/syncapi/conflict_resolution.go            *)
(*                                                                         *)
(* Strings the code compares with < and > (operation ids, device ids) are  *)
(* numbers in that order.  A client_updated_at is its instant; 0 stands    *)
(* for every text that is not RFC 3339.  The pair entity_type, entity_id   *)
(* is one entity, the pair op_type, payload one payload.                   *)
(*                                                                         *)
(* Under "slips" stand variants of the next definition with a slip a       *)
(* programmer could make.  Nothing uses them; PROJECT.json says which      *)
(* property would catch each one.                                          *)
(***************************************************************************)
EXTENDS Integers, Sequences, FiniteSets

CONSTANTS
    Device,       \* device ids
    Key,          \* idempotency keys
    Entity,       \* the notes and todos being synced
    Payload,      \* what an upsert writes; a delete is one of them
    NoKey,        \* an empty idempotency_key
    NoEntity,     \* an empty entity_id or an unknown entity_type
    BadPayload    \* an op_type that is neither upsert nor delete

ASSUME DeviceAssumption == Device \subseteq Nat \ {0}
ASSUME AbsentAssumption == NoKey \notin Key /\ NoEntity \notin Entity

Operation == [op_id : Nat, idempotency_key : Key \cup {NoKey},
              entity : Entity \cup {NoEntity}, base_version : Int,
              client_updated : Nat, payload : Payload \cup {BadPayload}]

Snapshot == [version : Nat, last_seq : Nat, last_op_id : Nat,
             last_device : Nat, last_client_updated : Nat]

NoSnapshot == [version |-> 0, last_seq |-> 0, last_op_id |-> 0,
               last_device |-> 0, last_client_updated |-> 0]

StoredOperation == [cursor : Nat, device : Device, applied : BOOLEAN,
                    op : Operation]

ConflictEvent == [entity : Entity, winner : Nat, loser : Nat,
                  winner_device : Nat, loser_device : Nat]

(***************************************************************************)
(* The checks of handlePush on one operation.                              *)
(***************************************************************************)
Valid(op) ==
    /\ op.op_id # 0
    /\ op.idempotency_key # NoKey
    /\ op.entity # NoEntity
    /\ op.payload # BadPayload
    /\ op.base_version >= 0

(***************************************************************************)
(* incomingWinsByLWW: a later instant wins, any instant beats an           *)
(* unreadable one, then the larger operation id, then the larger device.   *)
(***************************************************************************)
\* slips
LastArrivalWins(op, d, current) ==
    op.client_updated >= current.last_client_updated

LargestIdWins(op, d, current) == op.op_id >= current.last_op_id

IncomingWinsByLWW(op, d, current) ==
    \/ op.client_updated > current.last_client_updated
    \/ /\ op.client_updated = current.last_client_updated
       /\ \/ op.op_id > current.last_op_id
          \/ op.op_id = current.last_op_id /\ d >= current.last_device

IsConflict(op, current) ==
    current.version # 0 /\ op.base_version # current.version

Applied(op, d, current) ==
    IsConflict(op, current) => IncomingWinsByLWW(op, d, current)

\* slips
VersionFromBase(op, d, current, seq) ==
    [version |-> op.base_version + 1, last_seq |-> seq,
     last_op_id |-> op.op_id, last_device |-> d,
     last_client_updated |-> op.client_updated]

NextSnapshot(op, d, current, seq) ==
    [version |-> current.version + 1, last_seq |-> seq,
     last_op_id |-> op.op_id, last_device |-> d,
     last_client_updated |-> op.client_updated]

\* slips
EventForTheIncoming(op, d, current) ==
    [entity |-> op.entity, winner |-> op.op_id,
     loser |-> current.last_op_id, winner_device |-> d,
     loser_device |-> current.last_device]

Event(op, d, current) ==
    IF IncomingWinsByLWW(op, d, current)
    THEN [entity |-> op.entity, winner |-> op.op_id,
          loser |-> current.last_op_id, winner_device |-> d,
          loser_device |-> current.last_device]
    ELSE [entity |-> op.entity, winner |-> current.last_op_id,
          loser |-> op.op_id, winner_device |-> current.last_device,
          loser_device |-> d]
=============================================================================
