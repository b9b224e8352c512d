------------------------------ MODULE MCPgStore ------------------------------
(***************************************************************************)
(* Small instances of PgStore.                                             *)
(***************************************************************************)
EXTENDS PgStore

CONSTANTS k0, k1, k2, e1, e2, v, t1, t2

SeedOp(id, e) ==
    [op_id |-> id, idempotency_key |-> k0, entity |-> e, base_version |-> 0,
     client_updated |-> 1, payload |-> v]

Op1(id, k, e, base, time) ==
    [op_id |-> id, idempotency_key |-> k, entity |-> e, base_version |-> base,
     client_updated |-> time, payload |-> v]

NoSeed == {}

(***************************************************************************)
(* Both entities have been written once, by device 1 or 2.                 *)
(***************************************************************************)
BothSeeded ==
    {[cursor |-> 1, device |-> 1, applied |-> TRUE, op |-> SeedOp(8, e1)],
     [cursor |-> 2, device |-> 2, applied |-> TRUE, op |-> SeedOp(9, e2)]}

(***************************************************************************)
(* Lists that lock the two entities in opposite orders, a repeated key and *)
(* edits of one version that conflict.                                     *)
(***************************************************************************)
CrossingRequests ==
    {<<Op1(1, k1, e1, 1, 2), Op1(2, k2, e2, 1, 2)>>,
     <<Op1(3, k2, e2, 1, 1), Op1(4, k1, e1, 1, 1)>>,
     <<Op1(3, k2, e2, 1, 1)>>}

(***************************************************************************)
(* First edits of one entity.                                              *)
(***************************************************************************)
FirstRequests ==
    {<<Op1(1, k1, e1, 0, 2)>>, <<Op1(2, k2, e1, 0, 1)>>,
     <<Op1(3, k1, e1, 0, 2), Op1(4, k2, e2, 0, 2)>>}
=============================================================================
