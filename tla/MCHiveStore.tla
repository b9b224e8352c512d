----------------------------- MODULE MCHiveStore -----------------------------
(***************************************************************************)
(* Small instances of HiveStore.                                           *)
(***************************************************************************)
EXTENDS HiveStore

CONSTANTS k1, k2, e1, e2, v

Op(id, k, e, base, time) ==
    [op_id |-> id, idempotency_key |-> k, entity |-> e, base_version |-> base,
     client_updated |-> time, payload |-> v]

(***************************************************************************)
(* First edits (base 0) of e1 that tie in time, one with an unreadable     *)
(* time together with an edit of e2 ahead of its version, an edit of       *)
(* version 1 and again in the same list, an invalid base version.          *)
(***************************************************************************)
ConflictRequests ==
    {<<Op(1, k1, e1, 0, 1), Op(2, k2, e1, 0, 1)>>,
     <<Op(2, k1, e1, 0, 0), Op(3, k2, e2, 1, 1)>>,
     <<Op(1, k2, e1, 1, 2), Op(1, k2, e1, 1, 2)>>,
     <<Op(3, k1, e1, -1, 1), Op(1, k2, e1, 0, 2)>>}
=============================================================================
