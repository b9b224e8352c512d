------------------------------- MODULE SyncLog -------------------------------
(***************************************************************************)
(* What Hive Sync's store promises to its clients, with nothing about how  *)
(* it keeps the promise: one log that only grows, in which every operation *)
(* a device was told is accepted stands once, and cursors that walk the    *)
(* log without skipping an applied operation.                              *)
(*                                                                         *)
(* It abstracts the Store interface (syncapi/store.go) and the pull loop   *)
(* of the client (syncclient/client.go).  HiveStore, the in-memory store,  *)
(* implements it; PgStore, the Postgres store, breaks its last promise.    *)
(***************************************************************************)
EXTENDS Integers, Sequences

CONSTANTS
    Device,   \* devices that push and pull
    Key       \* idempotency keys

VARIABLES
    log,      \* the operations, in the order pullers receive them
    acked,    \* <<device, key>> pairs whose acceptance a device was told of
    cursor,   \* for each device, how far into the log it has pulled
    seen      \* for each device, the positions it was handed

vars == <<log, acked, cursor, seen>>

Entry == [device : Device, key : Key, applied : BOOLEAN]

Logged(d, k) == \E i \in DOMAIN log : log[i].device = d /\ log[i].key = k

TypeOK ==
    /\ log \in Seq(Entry)
    /\ acked \subseteq Device \X Key
    /\ cursor \in [Device -> Nat]
    /\ seen \in [Device -> SUBSET Nat]

Init ==
    /\ log = <<>>
    /\ acked = {}
    /\ cursor = [d \in Device |-> 0]
    /\ seen = [d \in Device |-> {}]

(***************************************************************************)
(* An operation enters the log, at its end and only if its device has not  *)
(* logged that key before.                                                 *)
(***************************************************************************)
AppendEntry(d, k, applied) ==
    /\ ~Logged(d, k)
    /\ log' = Append(log, [device |-> d, key |-> k, applied |-> applied])
    /\ UNCHANGED <<acked, cursor, seen>>

(***************************************************************************)
(* A device is told that some of its operations are accepted.              *)
(***************************************************************************)
Acknowledge(d, ks) ==
    /\ \A k \in ks : Logged(d, k)
    /\ acked' = acked \cup {<<d, k>> : k \in ks}
    /\ UNCHANGED <<log, cursor, seen>>

(***************************************************************************)
(* A device is handed every applied operation from its cursor up to c.     *)
(***************************************************************************)
Read(d, c) ==
    /\ cursor[d] < c
    /\ seen' = [seen EXCEPT ![d] =
                   @ \cup {i \in DOMAIN log :
                             cursor[d] < i /\ i <= c /\ log[i].applied}]
    /\ cursor' = [cursor EXCEPT ![d] = c]
    /\ UNCHANGED <<log, acked>>

Next ==
    \E d \in Device :
        \/ \E k \in Key, applied \in BOOLEAN : AppendEntry(d, k, applied)
        \/ \E ks \in SUBSET Key : Acknowledge(d, ks)
        \/ \E c \in DOMAIN log : Read(d, c)

Spec == Init /\ [][Next]_vars
=============================================================================
