--------------------------- MODULE HiveStoreProofs ---------------------------
(***************************************************************************)
(* Theorems about HiveStore, for any devices, keys, entities, requests,    *)
(* page sizes and bounds.                                                  *)
(*                                                                         *)
(* Everything rests on one inductive invariant, Inv: the types, and that   *)
(* idempotencyIndex and the log say the same.  The safety properties then  *)
(* follow from it, or are inductive relative to it.                        *)
(***************************************************************************)
EXTENDS HiveStore, FiniteSetTheorems, SequenceTheorems, TLAPS

-----------------------------------------------------------------------------
\* A set of numbers that is not empty has a smallest element.
LEMMA SmallestNumber ==
    ASSUME NEW S \in SUBSET Nat, S # {}
    PROVE  \E m \in S : \A i \in S : m <= i
<1>1. PICK m \in S : \A i \in S : <<i, m>> \notin OpToRel(<, Nat)
  BY NatLessThanWellFounded, WFMin, Zenon
<1>2. \A i \in S : ~(i < m)
  BY <1>1, Zenon DEF OpToRel
<1> QED BY <1>2

\* A bounded set of numbers that is not empty has a largest element.
LEMMA LargestNumber ==
    ASSUME NEW S \in SUBSET Nat, S # {}, NEW n \in Nat, \A i \in S : i <= n
    PROVE  \E m \in S : \A i \in S : i <= m
<1> DEFINE T == {n - i : i \in S}
<1>1. T \in SUBSET Nat /\ T # {}
  <2>1. \A i \in S : i \in Nat /\ n - i \in Nat
    OBVIOUS
  <2> QED BY <2>1
<1>2. PICK d \in T : \A e \in T : d <= e
  <2> HIDE DEF T
  <2> QED BY <1>1, SmallestNumber
<1>3. PICK m \in S : d = n - m
  OBVIOUS
<1>4. \A i \in S : n - i \in T /\ i \in Nat
  OBVIOUS
<1>5. \A i \in S : n - m <= n - i
  BY <1>2, <1>3, <1>4
<1> QED BY <1>4, <1>5

-----------------------------------------------------------------------------
(***************************************************************************)
(* The cursors of the operations a page is cut from.                       *)
(***************************************************************************)
LEMMA AppliedAfterFinite ==
    ASSUME operations \in Seq(StoredOperation), NEW c
    PROVE  /\ AppliedAfter(c) \subseteq 1..Len(operations)
           /\ IsFiniteSet(AppliedAfter(c))
<1>1. AppliedAfter(c) \subseteq 1..Len(operations)
  BY DEF AppliedAfter
<1>2. IsFiniteSet(1..Len(operations))
  BY FS_Interval
<1>3. QED
  BY <1>1, <1>2, FS_Subset
-----------------------------------------------------------------------------
(***************************************************************************)
(* The inductive invariant.                                                *)
(***************************************************************************)
Agreement ==
    /\ \A d \in Device, k \in Key :
          LET i == idempotencyIndex[d][k] IN
          i # 0 => /\ i \in DOMAIN operations
                   /\ operations[i].device = d
                   /\ operations[i].op.idempotency_key = k
    /\ \A i \in DOMAIN operations :
          LET stored == operations[i] IN
          /\ stored.cursor = i
          /\ Valid(stored.op)
          /\ idempotencyIndex[stored.device][stored.op.idempotency_key] = i

Promises ==
    /\ \A h \in handlers : h.device \in devices
    /\ ~mu => job = IdleJob
    /\ \A op \in job.accepted :
          /\ op.idempotency_key \in Key
          /\ idempotencyIndex[job.device][op.idempotency_key] # 0
    /\ \A p \in acked : idempotencyIndex[p[1]][p[2]] # 0

CursorsInLog == \A d \in Device : cursor[d] \in 0..latestCursor

Inv == TypeOK /\ Agreement /\ Promises /\ CursorsInLog

(***************************************************************************)
(* The head of the operations a push still has to go through.              *)
(***************************************************************************)
LEMMA NextOperation ==
    ASSUME TypeOK, mu, job.ops # <<>>
    PROVE  /\ job.device \in Device
           /\ Head(job.ops) \in Operation
           /\ Tail(job.ops) \in Seq(Operation)
           /\ Valid(Head(job.ops)) =>
                 /\ Head(job.ops).idempotency_key \in Key
                 /\ Head(job.ops).entity \in Entity
<1>1. job.ops \in Seq(Operation)
  BY DEF TypeOK, Job
<1>2. Head(job.ops) \in Operation /\ Tail(job.ops) \in Seq(Operation)
  BY <1>1, HeadTailProperties
<1>3. job.device \in Device
  BY DEF TypeOK
<1>4. QED
  BY <1>2, <1>3 DEF Operation, Valid

(***************************************************************************)
(* What AcceptOperation does to the log.                                   *)
(***************************************************************************)
Stored == [cursor |-> Len(operations) + 1, device |-> job.device,
           applied |-> Applied(Head(job.ops), job.device,
                               entities[Head(job.ops).entity]),
           op |-> Head(job.ops)]

(***************************************************************************)
(* AcceptOperation puts Stored at the end of the log and leaves the rest.  *)
(***************************************************************************)
LEMMA LogGrows ==
    ASSUME TypeOK, AcceptOperation
    PROVE  /\ Stored \in StoredOperation
           /\ operations' \in Seq(StoredOperation)
           /\ Len(operations') = Len(operations) + 1
           /\ DOMAIN operations = 1..Len(operations)
           /\ DOMAIN operations' = 1..(Len(operations) + 1)
           /\ \A i \in 1..Len(operations) : operations'[i] = operations[i]
           /\ operations'[Len(operations) + 1] = Stored
           /\ Len(operations) \in Nat
           /\ latestCursor' = Len(operations) + 1
<1>1. mu /\ job.ops # <<>>
  BY DEF AcceptOperation
<1>2. /\ job.device \in Device
      /\ Head(job.ops) \in Operation
  BY <1>1, NextOperation
<1>3. operations \in Seq(StoredOperation) /\ latestCursor = Len(operations)
  BY DEF TypeOK
<1>4. Stored \in StoredOperation
  BY <1>2, <1>3 DEF StoredOperation, Stored, Applied
<1>5. /\ operations' = Append(operations, Stored)
      /\ latestCursor' = Len(operations) + 1
  BY <1>3 DEF AcceptOperation, StoreOperation, Stored
<1>6. QED
  BY <1>3, <1>4, <1>5, AppendProperties, LenProperties

-----------------------------------------------------------------------------
(***************************************************************************)
(* Inv holds initially, and every action keeps it.                         *)
(***************************************************************************)
LEMMA InvInit == Init => Inv
<1> SUFFICES ASSUME Init PROVE Inv
  OBVIOUS
<1>1. TypeOK
  <2>1. operations \in Seq(StoredOperation) /\ latestCursor = Len(operations)
    BY EmptySeq DEF Init
  <2>2. job \in Job
    BY EmptySeq DEF Init, IdleJob, Job
  <2>3. NoSnapshot \in Snapshot
    BY DEF NoSnapshot, Snapshot
  <2> QED BY <2>1, <2>2, <2>3 DEF Init, TypeOK
<1>2. Agreement
  BY DEF Init, Agreement
<1>3. Promises
  BY DEF Init, Promises, IdleJob
<1>4. CursorsInLog
  BY DEF Init, CursorsInLog
<1> QED BY <1>1, <1>2, <1>3, <1>4 DEF Inv

(***************************************************************************)
(* Registering a device keeps Inv.                                         *)
(***************************************************************************)
LEMMA InvRegister ==
    ASSUME Inv, NEW d \in Device, HandleDeviceRegister(d)
    PROVE  Inv'
<1> USE DEF HandleDeviceRegister
<1>1. TypeOK'
  BY DEF Inv, TypeOK
<1>2. Agreement'
  BY DEF Inv, Agreement
<1>3. Promises'
  BY DEF Inv, Promises
<1>4. CursorsInLog'
  BY DEF Inv, CursorsInLog
<1> QED BY <1>1, <1>2, <1>3, <1>4 DEF Inv

(***************************************************************************)
(* A push that arrives keeps Inv: its device is registered by then.        *)
(***************************************************************************)
LEMMA InvPush ==
    ASSUME Inv, NEW d \in Device, NEW conn \in Nat,
           NEW ops \in Seq(Operation), HandlePush(d, conn, ops)
    PROVE  Inv'
<1> USE DEF HandlePush
<1>1. TypeOK'
  <2>1. [device |-> d, conn |-> conn, ops |-> ops] \in Handler
    BY DEF Handler
  <2> QED BY <2>1 DEF Inv, TypeOK
<1>2. Agreement'
  BY DEF Inv, Agreement
<1>3. Promises'
  BY DEF Inv, Promises
<1>4. CursorsInLog'
  BY DEF Inv, CursorsInLog
<1> QED BY <1>1, <1>2, <1>3, <1>4 DEF Inv

(***************************************************************************)
(* A handler that takes the mutex keeps Inv.                               *)
(***************************************************************************)
LEMMA InvLock ==
    ASSUME Inv, NEW h \in handlers, LockPush(h)
    PROVE  Inv'
<1> USE DEF LockPush
<1>1. h \in Handler /\ h.device \in devices /\ devices \subseteq Device
  BY DEF Inv, TypeOK, Promises
<1>2. /\ job' \in Job
      /\ job'.device = h.device
      /\ job'.accepted = {}
  BY <1>1, DeviceAssumption DEF Job, IdleJob, Handler
<1>3. TypeOK'
  BY <1>1, <1>2 DEF Inv, TypeOK
<1>4. Agreement'
  BY DEF Inv, Agreement
<1>5. Promises'
  BY <1>2 DEF Inv, Promises
<1>6. CursorsInLog'
  BY DEF Inv, CursorsInLog
<1> QED BY <1>3, <1>4, <1>5, <1>6 DEF Inv

(***************************************************************************)
(* Rejecting an operation keeps Inv.                                       *)
(***************************************************************************)
LEMMA InvReject ==
    ASSUME Inv, RejectOperation
    PROVE  Inv'
<1> USE DEF RejectOperation
<1>1. /\ Head(job.ops) \in Operation
      /\ Tail(job.ops) \in Seq(Operation)
  BY NextOperation DEF Inv
<1>2. /\ job' \in Job
      /\ job'.device = job.device
      /\ job'.accepted = job.accepted
  BY <1>1 DEF Inv, TypeOK, Job, Operation
<1>3. TypeOK'
  BY <1>2 DEF Inv, TypeOK
<1>4. Agreement'
  BY DEF Inv, Agreement
<1>5. Promises'
  BY <1>2 DEF Inv, Promises
<1>6. CursorsInLog'
  BY DEF Inv, CursorsInLog
<1> QED BY <1>3, <1>4, <1>5, <1>6 DEF Inv

(***************************************************************************)
(* Accepting a duplicate keeps Inv: its key is in the index already.       *)
(***************************************************************************)
LEMMA InvDuplicate ==
    ASSUME Inv, AcceptDuplicate
    PROVE  Inv'
<1> USE DEF AcceptDuplicate
<1>1. /\ Head(job.ops) \in Operation
      /\ Head(job.ops).idempotency_key \in Key
      /\ Tail(job.ops) \in Seq(Operation)
  BY NextOperation DEF Inv
<1>2. /\ job' \in Job
      /\ job'.device = job.device
      /\ job'.accepted = job.accepted \cup {Head(job.ops)}
  BY <1>1 DEF Inv, TypeOK, Job
<1>3. TypeOK'
  BY <1>2 DEF Inv, TypeOK
<1>4. Agreement'
  BY DEF Inv, Agreement
<1>5. Promises'
  BY <1>1, <1>2 DEF Inv, Promises
<1>6. CursorsInLog'
  BY DEF Inv, CursorsInLog
<1> QED BY <1>3, <1>4, <1>5, <1>6 DEF Inv

(***************************************************************************)
(* Answering keeps Inv: every accepted operation has its key in the index. *)
(***************************************************************************)
LEMMA InvReply ==
    ASSUME Inv, ReplyPush
    PROVE  Inv'
<1> USE DEF ReplyPush
<1>1. job.device \in Device /\ job \in Job
  BY DEF Inv, TypeOK
<1>2. IdleJob \in Job
  BY EmptySeq DEF IdleJob, Job
<1>3. acked' \subseteq Device \X Key
  BY <1>1 DEF Inv, TypeOK, Promises
<1>4. TypeOK'
  BY <1>1, <1>2, <1>3 DEF Inv, TypeOK, Job
<1>5. Agreement'
  BY DEF Inv, Agreement
<1>6. Promises'
  BY DEF Inv, Promises, IdleJob
<1>7. CursorsInLog'
  BY DEF Inv, CursorsInLog
<1> QED BY <1>4, <1>5, <1>6, <1>7 DEF Inv

(***************************************************************************)
(* What AcceptOperation does to the index, the entities and the job.       *)
(***************************************************************************)
LEMMA AcceptEffect ==
    ASSUME TypeOK, AcceptOperation
    PROVE  LET op == Head(job.ops)
               d == job.device
               current == entities[op.entity]
               n == Len(operations) + 1
           IN
           /\ op \in Operation /\ Valid(op) /\ d \in Device
           /\ op.idempotency_key \in Key /\ op.entity \in Entity
           /\ idempotencyIndex[d][op.idempotency_key] = 0
           /\ idempotencyIndex' =
                 [idempotencyIndex EXCEPT ![d][op.idempotency_key] = n]
           /\ entities' =
                 IF Applied(op, d, current)
                 THEN [entities EXCEPT ![op.entity] =
                          NextSnapshot(op, d, current, n)]
                 ELSE entities
           /\ job' \in Job
           /\ job'.device = d
           /\ job'.conn = job.conn
           /\ job'.ops = Tail(job.ops)
           /\ job'.accepted = job.accepted \cup {op}
           /\ job'.conflicts = IF IsConflict(op, current)
                               THEN job.conflicts \cup {Event(op, d, current)}
                               ELSE job.conflicts
<1> DEFINE op == Head(job.ops)
           d == job.device
           current == entities[op.entity]
<1>1. mu /\ job.ops # <<>> /\ Valid(op)
  BY DEF AcceptOperation
<1>2. /\ d \in Device
      /\ op \in Operation
      /\ Tail(job.ops) \in Seq(Operation)
      /\ op.idempotency_key \in Key
      /\ op.entity \in Entity
  BY <1>1, NextOperation
<1>3. current \in Snapshot
  BY <1>2 DEF TypeOK
<1>4. Event(op, d, current) \in ConflictEvent
  BY <1>2, <1>3, DeviceAssumption
     DEF Event, ConflictEvent, Operation, Snapshot
<1> DEFINE events == IF IsConflict(op, current)
                     THEN job.conflicts \cup {Event(op, d, current)}
                     ELSE job.conflicts
<1>5. job' = [job EXCEPT !.ops = Tail(@), !.accepted = @ \cup {op},
                         !.conflicts = events]
  BY DEF AcceptOperation, StoreOperation
<1>6. events \subseteq ConflictEvent /\ job \in Job
  BY <1>4 DEF TypeOK, Job
<1> HIDE DEF events
<1>7. /\ job' \in Job
      /\ job'.device = d
      /\ job'.conn = job.conn
      /\ job'.ops = Tail(job.ops)
      /\ job'.accepted = job.accepted \cup {op}
      /\ job'.conflicts = events
  BY <1>2, <1>5, <1>6 DEF Job
<1>8. latestCursor = Len(operations)
  BY DEF TypeOK
<1>9. QED
  BY <1>1, <1>2, <1>7, <1>8 DEF AcceptOperation, StoreOperation, events

(***************************************************************************)
(* Storing an operation keeps Inv: log and index grow by the same entry.   *)
(***************************************************************************)
LEMMA InvAccept ==
    ASSUME Inv, AcceptOperation
    PROVE  Inv'
<1> DEFINE op == Head(job.ops)
           d == job.device
           k == op.idempotency_key
           current == entities[op.entity]
           n == Len(operations) + 1
<1> TypeOK
  BY DEF Inv
<1>1. /\ operations' \in Seq(StoredOperation)
      /\ Len(operations') = n
      /\ DOMAIN operations = 1..Len(operations)
      /\ DOMAIN operations' = 1..n
      /\ \A i \in 1..Len(operations) : operations'[i] = operations[i]
      /\ operations'[n] = Stored
      /\ Len(operations) \in Nat
      /\ latestCursor' = n
  BY LogGrows
<1>2. /\ op \in Operation /\ Valid(op) /\ d \in Device
      /\ k \in Key /\ op.entity \in Entity
      /\ idempotencyIndex[d][k] = 0
      /\ idempotencyIndex' = [idempotencyIndex EXCEPT ![d][k] = n]
      /\ entities' = IF Applied(op, d, current)
                     THEN [entities EXCEPT ![op.entity] =
                              NextSnapshot(op, d, current, n)]
                     ELSE entities
      /\ job' \in Job
      /\ job'.device = d
      /\ job'.accepted = job.accepted \cup {op}
  BY AcceptEffect
<1>3. UNCHANGED <<devices, handlers, mu, acked, told, cursor, got>> /\ mu
  BY DEF AcceptOperation
<1>4. TypeOK'
  <2>1. entities' \in [Entity -> Snapshot]
    <3>1. current \in Snapshot /\ current.version \in Nat
      BY <1>2 DEF TypeOK, Snapshot
    <3>2. d \in Nat /\ n \in Nat /\ op.op_id \in Nat
          /\ op.client_updated \in Nat
      BY <1>1, <1>2, DeviceAssumption DEF Operation
    <3>3. NextSnapshot(op, d, current, n) \in Snapshot
      BY <3>1, <3>2 DEF NextSnapshot, Snapshot
    <3> QED BY <3>3, <1>2 DEF TypeOK
  <2>2. idempotencyIndex' \in [Device -> [Key -> Nat]]
    BY <1>1, <1>2 DEF TypeOK
  <2> QED BY <1>1, <1>2, <1>3, <2>1, <2>2 DEF TypeOK
<1>5. Agreement'
  <2>1. ASSUME NEW dd \in Device, NEW kk \in Key,
               idempotencyIndex'[dd][kk] # 0
        PROVE  LET i == idempotencyIndex'[dd][kk] IN
               /\ i \in DOMAIN operations'
               /\ operations'[i].device = dd
               /\ operations'[i].op.idempotency_key = kk
    <3>1. CASE dd = d /\ kk = k
      BY <3>1, <1>1, <1>2 DEF TypeOK, Stored
    <3>2. CASE dd # d \/ kk # k
      <4>1. idempotencyIndex'[dd][kk] = idempotencyIndex[dd][kk]
        BY <3>2, <1>2 DEF TypeOK
      <4> QED BY <4>1, <2>1, <1>1 DEF Inv, Agreement
    <3> QED BY <3>1, <3>2
  <2>2. ASSUME NEW i \in DOMAIN operations'
        PROVE  LET stored == operations'[i] IN
               /\ stored.cursor = i
               /\ Valid(stored.op)
               /\ idempotencyIndex'[stored.device]
                                   [stored.op.idempotency_key] = i
    <3>1. CASE i = n
      BY <3>1, <1>1, <1>2 DEF TypeOK, Stored
    <3>2. CASE i \in 1..Len(operations)
      <4> DEFINE stored == operations[i]
      <4>1. /\ stored.cursor = i
            /\ Valid(stored.op)
            /\ idempotencyIndex[stored.device][stored.op.idempotency_key] = i
        BY <3>2, <1>1 DEF Inv, Agreement
      <4>2. stored \in StoredOperation
        BY <3>2, <1>1, ElementOfSeq DEF TypeOK
      <4>3. stored.device \in Device /\ stored.op.idempotency_key \in Key
        BY <4>1, <4>2 DEF StoredOperation, Operation, Valid
      <4>4. idempotencyIndex'[stored.device][stored.op.idempotency_key] = i
        BY <4>1, <4>3, <3>2, <1>2 DEF TypeOK
      <4> QED BY <4>1, <4>4, <3>2, <1>1
    <3> QED BY <3>1, <3>2, <1>1
  <2> QED BY <2>1, <2>2 DEF Agreement
<1>6. Promises'
  <2>1. \A dd \in Device, kk \in Key :
           idempotencyIndex[dd][kk] # 0 => idempotencyIndex'[dd][kk] # 0
    BY <1>1, <1>2 DEF TypeOK
  <2>2. idempotencyIndex'[d][k] # 0
    BY <1>1, <1>2 DEF TypeOK
  <2>3. ASSUME NEW o \in job'.accepted
        PROVE  /\ o.idempotency_key \in Key
               /\ idempotencyIndex'[job'.device][o.idempotency_key] # 0
    BY <2>1, <2>2, <1>2 DEF Inv, Promises
  <2>4. ASSUME NEW p \in acked'
        PROVE  idempotencyIndex'[p[1]][p[2]] # 0
    BY <2>1, <1>3 DEF Inv, TypeOK, Promises
  <2> QED BY <2>3, <2>4, <1>3 DEF Inv, Promises
<1>7. CursorsInLog'
  BY <1>1, <1>3 DEF Inv, TypeOK, CursorsInLog
<1> QED BY <1>4, <1>5, <1>6, <1>7 DEF Inv

(***************************************************************************)
(* A page that is not empty ends with one of the log's cursors.            *)
(***************************************************************************)
LEMMA PageEnd ==
    ASSUME TypeOK, NEW c \in Nat, NEW limit, Page(c, limit) # {}
    PROVE  /\ NextCursor(c, limit) \in Page(c, limit)
           /\ \A i \in Page(c, limit) : i <= NextCursor(c, limit)
           /\ Page(c, limit) \subseteq 1..latestCursor
<1>1. Page(c, limit) \subseteq AppliedAfter(c)
  BY DEF Page
<1>2. /\ AppliedAfter(c) \subseteq 1..Len(operations)
      /\ IsFiniteSet(AppliedAfter(c))
  BY AppliedAfterFinite DEF TypeOK
<1>3. IsFiniteSet(Page(c, limit)) /\ Page(c, limit) \in SUBSET Nat
  BY <1>1, <1>2, FS_Subset
<1>4. \E m \in Page(c, limit) : \A i \in Page(c, limit) : i <= m
  <2>1. Len(operations) \in Nat /\ \A i \in Page(c, limit) : i <= Len(operations)
    BY <1>1, <1>2 DEF TypeOK
  <2> QED BY <1>3, <2>1, LargestNumber
<1>5. QED
  BY <1>1, <1>2, <1>4 DEF NextCursor, TypeOK

(***************************************************************************)
(* A pull keeps Inv: its next cursor is a position of the log.             *)
(***************************************************************************)
LEMMA InvPull ==
    ASSUME Inv, NEW d \in Device, NEW limit \in PullLimits,
           HandlePull(d, limit)
    PROVE  Inv'
<1> USE DEF HandlePull, pushVars
<1> DEFINE c == cursor[d]
<1>1. TypeOK /\ c \in Nat /\ Page(c, limit) # {}
  BY DEF Inv, TypeOK
<1>2. /\ NextCursor(c, limit) \in 1..latestCursor
      /\ Page(c, limit) \subseteq Nat
  BY <1>1, PageEnd
<1>3. TypeOK'
  BY <1>2 DEF Inv, TypeOK
<1>4. Agreement'
  BY DEF Inv, Agreement
<1>5. Promises'
  BY DEF Inv, Promises
<1>6. CursorsInLog'
  BY <1>2 DEF Inv, TypeOK, CursorsInLog
<1> QED BY <1>3, <1>4, <1>5, <1>6 DEF Inv

(***************************************************************************)
(* A step that leaves the store alone keeps Inv.                           *)
(***************************************************************************)
LEMMA InvStutter ==
    ASSUME Inv, UNCHANGED vars
    PROVE  Inv'
BY DEF vars, pushVars, Inv, TypeOK, Agreement, Promises, CursorsInLog

(***************************************************************************)
(* Every step, and every stutter, keeps Inv.                               *)
(***************************************************************************)
LEMMA InvNext == Inv /\ [Next]_vars => Inv'
<1> SUFFICES ASSUME Inv, [Next]_vars PROVE Inv'
  OBVIOUS
<1>1. CASE UNCHANGED vars
  BY <1>1, InvStutter
<1>2. ASSUME NEW d \in Device, NEW ops \in Requests, HandlePush(d, 0, ops)
      PROVE  Inv'
  <2>1. ops \in Seq(Operation) /\ 0 \in Nat
    BY RequestsAssumption
  <2> QED BY <1>2, <2>1, InvPush
<1>3. CASE Next
  BY <1>2, <1>3, InvRegister, InvLock, InvReject, InvDuplicate,
     InvAccept, InvReply, InvPull DEF Next
<1> QED BY <1>1, <1>3

(***************************************************************************)
(* Every reachable state is well typed, and the index, the log and what    *)
(* devices were told agree.                                                *)
(***************************************************************************)
THEOREM Invariance == Spec => []Inv
<1> QED BY InvInit, InvNext, PTL DEF Spec

(***************************************************************************)
(* Every reachable state is well typed, and latestCursor is the length of  *)
(* the log (memory_store.go:8-23).                                         *)
(***************************************************************************)
THEOREM TypeCorrect == Spec => []TypeOK
<1>1. Inv => TypeOK
  BY DEF Inv
<1> QED BY <1>1, Invariance, PTL

(***************************************************************************)
(* An idempotency key is logged once (OnceInLog).  Each operation's key    *)
(* leads, through the index, back to its own cursor.                       *)
(***************************************************************************)
THEOREM LoggedOnce == Spec => []OnceInLog
<1>1. ASSUME Inv
      PROVE  OnceInLog
  BY <1>1 DEF Inv, Agreement, OnceInLog
<1> QED BY <1>1, Invariance, PTL

(***************************************************************************)
(* What was reported as accepted is logged (AcceptedIsLogged).             *)
(***************************************************************************)
THEOREM AcceptedLogged == Spec => []AcceptedIsLogged
<1>1. ASSUME Inv
      PROVE  AcceptedIsLogged
  <2> SUFFICES ASSUME NEW p \in acked
               PROVE  \E i \in DOMAIN operations :
                        /\ operations[i].device = p[1]
                        /\ operations[i].op.idempotency_key = p[2]
    BY DEF AcceptedIsLogged
  <2>1. p[1] \in Device /\ p[2] \in Key
    BY <1>1 DEF Inv, TypeOK
  <2>2. idempotencyIndex[p[1]][p[2]] # 0
    BY <1>1 DEF Inv, Promises
  <2> QED BY <2>1, <2>2, <1>1 DEF Inv, Agreement
<1> QED BY <1>1, Invariance, PTL

-----------------------------------------------------------------------------
(***************************************************************************)
(* The entities and the log.                                               *)
(***************************************************************************)

(***************************************************************************)
(* Only AcceptOperation changes the log and the entities.                  *)
(***************************************************************************)
LEMMA OnlyAcceptChangesLog ==
    ASSUME [Next]_vars, ~AcceptOperation
    PROVE  UNCHANGED <<operations, latestCursor, idempotencyIndex, entities>>
BY DEF Next, vars, pushVars, HandleDeviceRegister, HandlePush, LockPush,
       RejectOperation, AcceptDuplicate, ReplyPush, HandlePull

(***************************************************************************)
(* The operations applied to an entity, after an operation is stored.      *)
(***************************************************************************)
LEMMA AppliedToGrows ==
    ASSUME Inv, AcceptOperation, NEW e \in Entity
    PROVE  /\ AppliedTo(e) \subseteq 1..Len(operations)
           /\ IsFiniteSet(AppliedTo(e))
           /\ AppliedTo(e)' = IF Stored.applied /\ Stored.op.entity = e
                              THEN AppliedTo(e) \cup {Len(operations) + 1}
                              ELSE AppliedTo(e)
<1>1. /\ DOMAIN operations = 1..Len(operations)
      /\ DOMAIN operations' = 1..(Len(operations) + 1)
      /\ \A i \in 1..Len(operations) : operations'[i] = operations[i]
      /\ operations'[Len(operations) + 1] = Stored
      /\ Len(operations) \in Nat
  BY LogGrows DEF Inv
<1>2. AppliedTo(e) \subseteq 1..Len(operations)
  BY <1>1 DEF AppliedTo
<1>3. IsFiniteSet(1..Len(operations))
  BY <1>1, FS_Interval
<1>4. IsFiniteSet(AppliedTo(e))
  BY <1>2, <1>3, FS_Subset
<1>5. \A i : i \in AppliedTo(e)' <=>
               \/ i \in AppliedTo(e)
               \/ /\ i = Len(operations) + 1
                  /\ Stored.applied /\ Stored.op.entity = e
  BY <1>1 DEF AppliedTo
<1> QED BY <1>2, <1>4, <1>5

(***************************************************************************)
(* Every step keeps EntityFollowsLog: the snapshot and the log change      *)
(* together.                                                               *)
(***************************************************************************)
LEMMA EntityStep ==
    ASSUME Inv, EntityFollowsLog, [Next]_vars
    PROVE  EntityFollowsLog'
<1>1. CASE ~AcceptOperation
  BY <1>1, OnlyAcceptChangesLog DEF EntityFollowsLog, AppliedTo
<1>2. CASE AcceptOperation
  <2> DEFINE op == Head(job.ops)
             d == job.device
             current == entities[op.entity]
             n == Len(operations) + 1
             applied == Applied(op, d, current)
  <2> SUFFICES ASSUME NEW e \in Entity
               PROVE  /\ entities'[e].version = Cardinality(AppliedTo(e))'
                      /\ AppliedTo(e)' # {} =>
                            /\ entities'[e].last_seq \in AppliedTo(e)'
                            /\ \A i \in AppliedTo(e)' :
                                  i <= entities'[e].last_seq
                            /\ Describes(entities'[e],
                                         operations'[entities'[e].last_seq])
    BY DEF EntityFollowsLog, Describes
  <2>1. /\ \A i \in 1..Len(operations) : operations'[i] = operations[i]
        /\ operations'[n] = Stored
        /\ Len(operations) \in Nat
    BY <1>2, LogGrows DEF Inv
  <2>2. /\ AppliedTo(e) \subseteq 1..Len(operations)
        /\ IsFiniteSet(AppliedTo(e))
        /\ AppliedTo(e)' = IF Stored.applied /\ Stored.op.entity = e
                           THEN AppliedTo(e) \cup {n}
                           ELSE AppliedTo(e)
    BY <1>2, AppliedToGrows
  <2>3. /\ op.entity \in Entity
        /\ entities' = IF applied
                       THEN [entities EXCEPT ![op.entity] =
                                NextSnapshot(op, d, current, n)]
                       ELSE entities
    BY <1>2, AcceptEffect DEF Inv
  <2>4. entities \in [Entity -> Snapshot]
    BY DEF Inv, TypeOK
  <2>5. CASE applied /\ op.entity = e
    <3>1. AppliedTo(e)' = AppliedTo(e) \cup {n} /\ n \notin AppliedTo(e)
      BY <2>5, <2>1, <2>2 DEF Stored
    <3>2. Cardinality(AppliedTo(e))' = Cardinality(AppliedTo(e)) + 1
      BY <3>1, <2>2, FS_AddElement
    <3>3. entities'[e] = NextSnapshot(op, d, current, n)
      BY <2>5, <2>3, <2>4
    <3>4. entities'[e].version = Cardinality(AppliedTo(e))'
      BY <3>2, <3>3, <2>5 DEF EntityFollowsLog, NextSnapshot
    <3>5. Describes(entities'[e], operations'[n]) /\ entities'[e].last_seq = n
      BY <3>3, <2>1 DEF Describes, NextSnapshot, Stored
    <3> QED BY <3>1, <3>4, <3>5, <2>1, <2>2
  <2>6. CASE ~(applied /\ op.entity = e)
    <3>1. AppliedTo(e)' = AppliedTo(e)
      BY <2>6, <2>2 DEF Stored
    <3>2. entities'[e] = entities[e]
      BY <2>6, <2>3, <2>4
    <3>3. Cardinality(AppliedTo(e))' = Cardinality(AppliedTo(e))
      BY <3>1
    <3>4. \A i \in AppliedTo(e) : operations'[i] = operations[i]
      BY <2>1, <2>2
    <3> QED BY <3>1, <3>2, <3>3, <3>4 DEF EntityFollowsLog
  <2> QED BY <2>5, <2>6
<1> QED BY <1>1, <1>2

(***************************************************************************)
(* Versions count applied operations, and the winner to beat is the last   *)
(* applied one (EntityFollowsLog).                                         *)
(***************************************************************************)
THEOREM EntitiesFollowLog == Spec => []EntityFollowsLog
<1>1. Init => EntityFollowsLog
  <2> SUFFICES ASSUME Init, NEW e \in Entity
               PROVE  AppliedTo(e) = {} /\ entities[e].version = 0
    BY FS_EmptySet DEF EntityFollowsLog
  <2> QED BY DEF Init, AppliedTo, NoSnapshot
<1>2. Inv /\ EntityFollowsLog /\ [Next]_vars => EntityFollowsLog'
  BY EntityStep
<1> QED BY <1>1, <1>2, Invariance, PTL DEF Spec

-----------------------------------------------------------------------------
(***************************************************************************)
(* Conflicts.                                                              *)
(***************************************************************************)

(***************************************************************************)
(* An entity that has an operation in the log has a snapshot.              *)
(***************************************************************************)
LoggedIsPresent ==
    \A i \in DOMAIN operations : entities[operations[i].op.entity].version # 0

ConflictInv == Inv /\ EntityFollowsLog /\ LoggedIsPresent

(***************************************************************************)
(* The head of an entity is one of its applied operations.                 *)
(***************************************************************************)
LEMMA HeadIsApplied ==
    ASSUME Inv, EntityFollowsLog, NEW e \in Entity, entities[e].version # 0
    PROVE  /\ entities[e].last_seq \in AppliedTo(e)
           /\ entities[e].last_seq \in 1..Len(operations)
           /\ Describes(entities[e], operations[entities[e].last_seq])
<1>1. AppliedTo(e) # {}
  BY FS_EmptySet DEF EntityFollowsLog
<1>2. /\ entities[e].last_seq \in AppliedTo(e)
      /\ Describes(entities[e], operations[entities[e].last_seq])
  BY <1>1 DEF EntityFollowsLog
<1>3. DOMAIN operations = 1..Len(operations)
  BY LenProperties DEF Inv, TypeOK
<1>4. AppliedTo(e) \subseteq 1..Len(operations)
  BY <1>3 DEF AppliedTo
<1> QED BY <1>2, <1>4

(***************************************************************************)
(* Every step keeps LoggedIsPresent.                                       *)
(***************************************************************************)
LEMMA PresentStep ==
    ASSUME Inv, LoggedIsPresent, [Next]_vars
    PROVE  LoggedIsPresent'
<1>1. CASE ~AcceptOperation
  BY <1>1, OnlyAcceptChangesLog DEF LoggedIsPresent
<1>2. CASE AcceptOperation
  <2> DEFINE op == Head(job.ops)
             d == job.device
             current == entities[op.entity]
             n == Len(operations) + 1
  <2>1. /\ DOMAIN operations = 1..Len(operations)
        /\ DOMAIN operations' = 1..n
        /\ \A i \in 1..Len(operations) : operations'[i] = operations[i]
        /\ operations'[n] = Stored
    BY <1>2, LogGrows DEF Inv
  <2>2. /\ op.entity \in Entity
        /\ entities' = IF Applied(op, d, current)
                       THEN [entities EXCEPT ![op.entity] =
                                NextSnapshot(op, d, current, n)]
                       ELSE entities
    BY <1>2, AcceptEffect DEF Inv
  <2>3. entities \in [Entity -> Snapshot]
    BY DEF Inv, TypeOK
  <2>4. \A e \in Entity : entities[e].version \in Nat
    BY <2>3 DEF Snapshot
  <2>5. NextSnapshot(op, d, current, n).version = current.version + 1
    BY DEF NextSnapshot
  <2>6. \A e \in Entity :
           entities[e].version # 0 => entities'[e].version # 0
    BY <2>2, <2>3, <2>4, <2>5
  <2>7. entities'[op.entity].version # 0
    <3>1. CASE Applied(op, d, current)
      BY <3>1, <2>2, <2>3, <2>4, <2>5
    <3>2. CASE ~Applied(op, d, current)
      BY <3>2, <2>2 DEF Applied, IsConflict
    <3> QED BY <3>1, <3>2
  <2>8. \A i \in 1..Len(operations) : operations[i].op.entity \in Entity
    <3> SUFFICES ASSUME NEW i \in 1..Len(operations)
                 PROVE  operations[i].op.entity \in Entity
      OBVIOUS
    <3>1. operations[i] \in StoredOperation
      BY ElementOfSeq DEF Inv, TypeOK
    <3>2. Valid(operations[i].op)
      BY <2>1 DEF Inv, Agreement
    <3> QED BY <3>1, <3>2 DEF StoredOperation, Operation, Valid
  <2> QED BY <2>1, <2>6, <2>7, <2>8 DEF LoggedIsPresent, Stored
<1> QED BY <1>1, <1>2

(***************************************************************************)
(* ConflictInv holds always.                                               *)
(***************************************************************************)
LEMMA ConflictInvariance == Spec => []ConflictInv
<1>1. Init => LoggedIsPresent
  BY DEF Init, LoggedIsPresent
<1>2. Inv /\ LoggedIsPresent /\ [Next]_vars => LoggedIsPresent'
  BY PresentStep
<1>3. Inv /\ EntityFollowsLog /\ LoggedIsPresent => ConflictInv
  BY DEF ConflictInv
<1> QED BY <1>1, <1>2, <1>3, Invariance, EntitiesFollowLog, PTL DEF Spec

(***************************************************************************)
(* A stored operation that loses is beaten by the head; one that wins is   *)
(* not beaten by it.                                                       *)
(***************************************************************************)
LEMMA WinnerIsNotBeaten ==
    ASSUME NEW op \in Operation, NEW d \in Device,
           NEW stored \in StoredOperation, NEW current \in Snapshot,
           Describes(current, stored),
           NEW new \in StoredOperation, new.op = op, new.device = d
    PROVE  IF IncomingWinsByLWW(op, d, current)
           THEN ~Beats(stored, new) ELSE ~Beats(new, stored)
BY DeviceAssumption
   DEF IncomingWinsByLWW, Beats, Describes, StoredOperation, Operation, Snapshot

(***************************************************************************)
(* Not to be beaten is reflexive and transitive: stored operations are     *)
(* totally preordered by Beats.                                            *)
(***************************************************************************)
LEMMA BeatsIsTotal ==
    ASSUME NEW x \in StoredOperation, NEW y \in StoredOperation,
           NEW z \in StoredOperation
    PROVE  /\ ~Beats(x, x)
           /\ ~Beats(x, y) /\ ~Beats(y, z) => ~Beats(x, z)
<1>1. \A s \in StoredOperation :
         s.op.client_updated \in Nat /\ s.op.op_id \in Nat /\ s.device \in Nat
  BY DeviceAssumption DEF StoredOperation, Operation
<1> QED BY <1>1 DEF Beats

(***************************************************************************)
(* Every step keeps HeadIsNewest.                                          *)
(***************************************************************************)
LEMMA HeadStep ==
    ASSUME ConflictInv, HeadIsNewest, [Next]_vars
    PROVE  HeadIsNewest'
<1> USE DEF ConflictInv
<1>1. CASE ~AcceptOperation
  BY <1>1, OnlyAcceptChangesLog DEF HeadIsNewest, LoggedFor, Beats
<1>2. CASE AcceptOperation
  <2> DEFINE op == Head(job.ops)
             d == job.device
             current == entities[op.entity]
             n == Len(operations) + 1
             applied == Applied(op, d, current)
  <2>1. /\ Stored \in StoredOperation
        /\ DOMAIN operations = 1..Len(operations)
        /\ DOMAIN operations' = 1..n
        /\ \A i \in 1..Len(operations) : operations'[i] = operations[i]
        /\ operations'[n] = Stored
        /\ Len(operations) \in Nat
    BY <1>2, LogGrows DEF Inv
  <2>2. /\ op \in Operation /\ d \in Device /\ op.entity \in Entity
        /\ entities' = IF applied
                       THEN [entities EXCEPT ![op.entity] =
                                NextSnapshot(op, d, current, n)]
                       ELSE entities
    BY <1>2, AcceptEffect DEF Inv
  <2>3. entities \in [Entity -> Snapshot] /\ operations \in Seq(StoredOperation)
    BY DEF Inv, TypeOK
  <2>4. \A i \in 1..Len(operations) : operations[i] \in StoredOperation
    BY <2>3, ElementOfSeq
  <2> SUFFICES ASSUME NEW e \in Entity,
                      \A i \in LoggedFor(e)' :
                         operations'[i].op.base_version = 0,
                      NEW i \in LoggedFor(e)'
               PROVE  ~Beats(operations'[i],
                             operations'[entities'[e].last_seq])
    BY DEF HeadIsNewest, Beats
  <2>5. LoggedFor(e) \subseteq LoggedFor(e)'
    BY <2>1 DEF LoggedFor
  <2>6. \A j \in LoggedFor(e) : j \in 1..Len(operations)
    BY <2>1 DEF LoggedFor
  <2>7. \A j \in LoggedFor(e) :
           ~Beats(operations[j], operations[entities[e].last_seq])
    BY <2>1, <2>5, <2>6 DEF HeadIsNewest
  <2>8. \A j \in LoggedFor(e) : entities[e].version # 0
    BY DEF LoggedIsPresent, LoggedFor
  <2>9. CASE op.entity # e
    <3>1. i \in LoggedFor(e)
      BY <2>9, <2>1 DEF LoggedFor, Stored
    <3>2. entities'[e] = entities[e]
      BY <2>9, <2>2, <2>3
    <3>3. entities[e].last_seq \in 1..Len(operations)
      BY <3>1, <2>8, HeadIsApplied
    <3> QED BY <3>1, <3>2, <3>3, <2>1, <2>6, <2>7
  <2>10. CASE op.entity = e
    <3>1. op.base_version = 0
      <4>1. n \in LoggedFor(e)'
        BY <2>1, <2>10 DEF LoggedFor, Stored
      <4> QED BY <4>1, <2>1 DEF Stored
    <3>2. i = n \/ i \in LoggedFor(e)
      BY <2>1 DEF LoggedFor
    <3>3. CASE current.version = 0
      <4>1. applied /\ LoggedFor(e) = {}
        BY <3>3, <2>8, <2>10 DEF Applied, IsConflict
      <4>2. entities'[e].last_seq = n
        BY <4>1, <2>2, <2>3, <2>10 DEF NextSnapshot
      <4> QED BY <4>1, <4>2, <3>2, <2>1, BeatsIsTotal
    <3>4. CASE current.version # 0
      <4> DEFINE head == operations[current.last_seq]
      <4>1. /\ current.last_seq \in 1..Len(operations)
            /\ Describes(current, head)
        BY <3>4, <2>2, HeadIsApplied
      <4>2. head \in StoredOperation /\ current \in Snapshot
        BY <4>1, <2>2, <2>3, <2>4
      <4>3. IsConflict(op, current)
        BY <3>1, <3>4 DEF IsConflict
      <4>4. IF IncomingWinsByLWW(op, d, current)
            THEN ~Beats(head, Stored) ELSE ~Beats(Stored, head)
        BY <4>1, <4>2, <2>1, <2>2, WinnerIsNotBeaten DEF Stored
      <4>5. \A j \in LoggedFor(e) : ~Beats(operations[j], head)
        BY <2>7, <2>10
      <4>6. CASE applied
        <5>1. entities'[e].last_seq = n
          BY <4>6, <2>2, <2>3, <2>10 DEF NextSnapshot
        <5>2. ~Beats(head, Stored)
          BY <4>3, <4>4, <4>6 DEF Applied
        <5>3. CASE i = n
          BY <5>1, <5>3, <2>1, BeatsIsTotal
        <5>4. CASE i \in LoggedFor(e)
          <6>1. ~Beats(operations[i], head) /\ operations[i] \in StoredOperation
            BY <5>4, <4>5, <2>4, <2>6
          <6>2. ~Beats(operations[i], Stored)
            BY <6>1, <5>2, <4>2, <2>1, BeatsIsTotal
          <6> QED BY <6>2, <5>1, <5>4, <2>1, <2>6
        <5> QED BY <3>2, <5>3, <5>4
      <4>7. CASE ~applied
        <5>1. entities'[e] = current
          BY <4>7, <2>2, <2>10
        <5>2. ~Beats(Stored, head)
          BY <4>4, <4>7 DEF Applied
        <5> QED BY <5>1, <5>2, <4>1, <4>5, <3>2, <2>1, <2>6
      <4> QED BY <4>6, <4>7
    <3> QED BY <3>3, <3>4
  <2> QED BY <2>9, <2>10
<1> QED BY <1>1, <1>2

(***************************************************************************)
(* Concurrent edits of an entity end the same way in whatever order they   *)
(* arrive: the newest is the head (HeadIsNewest).                          *)
(***************************************************************************)
THEOREM NewestIsHead == Spec => []HeadIsNewest
<1>1. Init => HeadIsNewest
  BY DEF Init, HeadIsNewest, LoggedFor
<1>2. ConflictInv /\ HeadIsNewest /\ [Next]_vars => HeadIsNewest'
  BY HeadStep
<1> QED BY <1>1, <1>2, ConflictInvariance, PTL DEF Spec

(***************************************************************************)
(* No conflict that was found is forgotten before it is in a response.     *)
(***************************************************************************)
LEMMA ConflictsKept ==
    ASSUME Inv, [Next]_vars
    PROVE  told \cup job.conflicts \subseteq told' \cup job'.conflicts
<1>1. CASE AcceptOperation
  <2>1. told' = told
    BY <1>1 DEF AcceptOperation
  <2>2. job.conflicts \subseteq job'.conflicts
    BY <1>1, AcceptEffect DEF Inv
  <2> QED BY <2>1, <2>2
<1>2. CASE ReplyPush
  BY <1>2 DEF ReplyPush
<1>3. ASSUME NEW h \in handlers, LockPush(h)
      PROVE  told \cup job.conflicts \subseteq told' \cup job'.conflicts
  BY <1>3 DEF LockPush, Inv, Promises, IdleJob
<1>4. CASE RejectOperation
  <2>1. job \in Job /\ job'.conflicts = job.conflicts
    BY <1>4 DEF RejectOperation, Inv, TypeOK, Job
  <2> QED BY <2>1, <1>4 DEF RejectOperation
<1>5. CASE AcceptDuplicate
  <2>1. job \in Job /\ job'.conflicts = job.conflicts
    BY <1>5 DEF AcceptDuplicate, Inv, TypeOK, Job
  <2> QED BY <2>1, <1>5 DEF AcceptDuplicate
<1>6. CASE UNCHANGED <<told, job>>
  BY <1>6
<1> QED BY <1>1, <1>2, <1>3, <1>4, <1>5, <1>6
       DEF Next, vars, pushVars, HandleDeviceRegister, HandlePush, HandlePull

(***************************************************************************)
(* No edit is lost silently (LostEditsReported).                           *)
(***************************************************************************)
THEOREM LostAreReported == Spec => []LostEditsReported
<1>1. Init => LostEditsReported
  BY DEF Init, LostEditsReported
<1>2. ASSUME Inv, LostEditsReported, [Next]_vars
      PROVE  LostEditsReported'
  <2>1. told \cup job.conflicts \subseteq told' \cup job'.conflicts
    BY <1>2, ConflictsKept
  <2>2. CASE ~AcceptOperation
    BY <1>2, <2>1, <2>2, OnlyAcceptChangesLog DEF LostEditsReported
  <2>3. CASE AcceptOperation
    <3> DEFINE op == Head(job.ops)
               d == job.device
               current == entities[op.entity]
               n == Len(operations) + 1
    <3>1. /\ DOMAIN operations = 1..Len(operations)
          /\ DOMAIN operations' = 1..n
          /\ \A i \in 1..Len(operations) : operations'[i] = operations[i]
          /\ operations'[n] = Stored
          /\ Len(operations) \in Nat
      BY <1>2, <2>3, LogGrows DEF Inv
    <3>2. ~Stored.applied =>
             /\ IsConflict(op, current)
             /\ ~IncomingWinsByLWW(op, d, current)
      BY DEF Stored, Applied
    <3>3. ~Stored.applied => Event(op, d, current) \in job'.conflicts
      BY <1>2, <2>3, <3>2, AcceptEffect DEF Inv
    <3>4. ~Stored.applied =>
             /\ Event(op, d, current).entity = Stored.op.entity
             /\ Event(op, d, current).loser = Stored.op.op_id
             /\ Event(op, d, current).loser_device = Stored.device
      BY <3>2 DEF Event, Stored
    <3> QED BY <1>2, <2>1, <3>1, <3>3, <3>4 DEF LostEditsReported
  <2> QED BY <2>2, <2>3
<1> QED BY <1>1, <1>2, Invariance, PTL DEF Spec

-----------------------------------------------------------------------------
(***************************************************************************)
(* Pulls.                                                                  *)
(***************************************************************************)

(***************************************************************************)
(* A page has every applied operation up to its own last one: it is cut    *)
(* off at its end and has no holes.                                        *)
(***************************************************************************)
LEMMA PageHasNoHoles ==
    ASSUME TypeOK, NEW c \in Nat, NEW limit \in Nat, Page(c, limit) # {}
    PROVE  Page(c, limit) =
              {i \in AppliedAfter(c) : i <= NextCursor(c, limit)}
<1> DEFINE Before(i) == {j \in AppliedAfter(c) : j < i}
           m == NextCursor(c, limit)
<1>1. /\ m \in Page(c, limit)
      /\ \A i \in Page(c, limit) : i <= m
  BY PageEnd
<1>2. /\ AppliedAfter(c) \subseteq 1..Len(operations)
      /\ IsFiniteSet(AppliedAfter(c))
  BY AppliedAfterFinite DEF TypeOK
<1>3. AppliedAfter(c) \subseteq Nat
  BY <1>2
<1>4. m \in Nat /\ m \in AppliedAfter(c) /\ Cardinality(Before(m)) < limit
  BY <1>1, <1>3 DEF Page
<1>5. ASSUME NEW i \in AppliedAfter(c), i <= m
      PROVE  i \in Page(c, limit)
  <2>1. Before(i) \subseteq Before(m)
    BY <1>3, <1>4, <1>5
  <2>2. IsFiniteSet(Before(m))
    <3>1. Before(m) \subseteq AppliedAfter(c)
      OBVIOUS
    <3> QED BY <3>1, <1>2, FS_Subset
  <2>3. /\ Cardinality(Before(i)) <= Cardinality(Before(m))
        /\ IsFiniteSet(Before(i))
    BY <2>1, <2>2, FS_Subset
  <2>4. Cardinality(Before(i)) \in Nat /\ Cardinality(Before(m)) \in Nat
    BY <2>2, <2>3, FS_CardinalityType
  <2>5. Cardinality(Before(i)) < limit
    BY <2>3, <2>4, <1>4
  <2> QED BY <2>5 DEF Page
<1>6. Page(c, limit) \subseteq AppliedAfter(c)
  BY DEF Page
<1> QED BY <1>1, <1>5, <1>6

(***************************************************************************)
(* The same, said of the log.                                              *)
(***************************************************************************)
LEMMA PageOfLog ==
    ASSUME Inv, NEW c \in Nat, NEW limit \in Nat, Page(c, limit) # {}
    PROVE  /\ Page(c, limit) =
                {i \in DOMAIN operations :
                   /\ c < i /\ i <= NextCursor(c, limit)
                   /\ operations[i].applied}
           /\ NextCursor(c, limit) \in DOMAIN operations
           /\ NextCursor(c, limit) > c
<1>1. Page(c, limit) = {i \in AppliedAfter(c) : i <= NextCursor(c, limit)}
  BY PageHasNoHoles DEF Inv
<1>2. AppliedAfter(c) = {i \in DOMAIN operations :
                           c < i /\ operations[i].applied}
  <2>1. /\ DOMAIN operations = 1..Len(operations)
        /\ \A i \in DOMAIN operations : operations[i].cursor = i
    BY LenProperties DEF Inv, TypeOK, Agreement
  <2>2. \A i \in DOMAIN operations : operations[i].cursor > c <=> c < i
    BY <2>1
  <2> QED BY <2>2 DEF AppliedAfter
<1>3. NextCursor(c, limit) \in Page(c, limit)
  BY PageEnd DEF Inv
<1>4. DOMAIN operations = 1..Len(operations)
  BY LenProperties DEF Inv, TypeOK
<1> QED BY <1>1, <1>2, <1>3, <1>4

(***************************************************************************)
(* A device has been sent exactly what its cursor has passed               *)
(* (NoOperationSkipped).                                                   *)
(***************************************************************************)
THEOREM NothingIsSkipped == Spec => []NoOperationSkipped
<1>1. Init => NoOperationSkipped
  BY DEF Init, NoOperationSkipped
<1>2. ASSUME Inv, NoOperationSkipped, [Next]_vars
      PROVE  NoOperationSkipped'
  <2>1. ASSUME NEW d \in Device, NEW limit \in PullLimits,
               HandlePull(d, limit)
        PROVE  NoOperationSkipped'
    <3> DEFINE c == cursor[d]
               m == NextCursor(c, limit)
    <3>1. c \in Nat /\ limit \in Nat /\ Page(c, limit) # {}
      BY <1>2, <2>1, PullLimitsAssumption DEF Inv, TypeOK, HandlePull
    <3>2. /\ Page(c, limit) = {i \in DOMAIN operations :
                                 c < i /\ i <= m /\ operations[i].applied}
          /\ m \in DOMAIN operations
          /\ m > c
      BY <1>2, <3>1, PageOfLog
    <3>3. DOMAIN operations \subseteq Nat
      BY <1>2, LenProperties DEF Inv, TypeOK
    <3>4. operations' = operations
      BY <2>1 DEF HandlePull, pushVars
    <3> SUFFICES ASSUME NEW x \in Device
                 PROVE  got'[x] = {i \in DOMAIN operations :
                                     i <= cursor'[x] /\ operations[i].applied}
      BY <3>4 DEF NoOperationSkipped
    <3>5. got[x] = {i \in DOMAIN operations :
                      i <= cursor[x] /\ operations[i].applied}
      BY <1>2 DEF NoOperationSkipped
    <3>6. CASE x = d
      <4>1. got'[d] = got[d] \cup Page(c, limit) /\ cursor'[d] = m
        BY <1>2, <2>1 DEF HandlePull, Inv, TypeOK
      <4>2. {i \in DOMAIN operations : i <= m /\ operations[i].applied} =
               {i \in DOMAIN operations : i <= c /\ operations[i].applied}
               \cup Page(c, limit)
        BY <3>1, <3>2, <3>3
      <4> QED BY <4>1, <4>2, <3>5, <3>6
    <3>7. CASE x # d
      BY <3>5, <3>7, <1>2, <2>1 DEF HandlePull, Inv, TypeOK
    <3> QED BY <3>6, <3>7
  <2>2. CASE AcceptOperation
    <3>1. /\ DOMAIN operations = 1..Len(operations)
          /\ DOMAIN operations' = 1..(Len(operations) + 1)
          /\ \A i \in 1..Len(operations) : operations'[i] = operations[i]
          /\ Len(operations) \in Nat
      BY <1>2, <2>2, LogGrows DEF Inv
    <3>2. UNCHANGED <<cursor, got>>
      BY <2>2 DEF AcceptOperation
    <3>3. \A d \in Device : cursor[d] \in 0..Len(operations)
      BY <1>2 DEF Inv, TypeOK, CursorsInLog
    <3> SUFFICES ASSUME NEW d \in Device
                 PROVE  got[d] = {i \in DOMAIN operations' :
                                    i <= cursor[d] /\ operations'[i].applied}
      BY <3>2 DEF NoOperationSkipped
    <3>4. got[d] = {i \in DOMAIN operations :
                      i <= cursor[d] /\ operations[i].applied}
      BY <1>2 DEF NoOperationSkipped
    <3> QED BY <3>1, <3>3, <3>4
  <2>3. CASE UNCHANGED <<operations, cursor, got>>
    BY <1>2, <2>3 DEF NoOperationSkipped
  <2> QED BY <1>2, <2>1, <2>2, <2>3
         DEF Next, vars, pushVars, HandleDeviceRegister, HandlePush, LockPush,
             RejectOperation, AcceptDuplicate, ReplyPush
<1> QED BY <1>1, <1>2, Invariance, PTL DEF Spec

-----------------------------------------------------------------------------
(***************************************************************************)
(* The store implements SyncLog.                                           *)
(***************************************************************************)
LogEntry(stored) == [device |-> stored.device,
                     key |-> stored.op.idempotency_key,
                     applied |-> stored.applied]

AbstractLog == [i \in DOMAIN operations |-> LogEntry(operations[i])]

(***************************************************************************)
(* The log that the refinement mapping shows.                              *)
(***************************************************************************)
LEMMA AbstractLogIsLog ==
    ASSUME Inv
    PROVE  /\ AbstractLog \in Seq(SL!Entry)
           /\ Len(AbstractLog) = Len(operations)
           /\ DOMAIN AbstractLog = DOMAIN operations
<1>1. DOMAIN operations = 1..Len(operations) /\ Len(operations) \in Nat
  BY LenProperties DEF Inv, TypeOK
<1>2. \A i \in DOMAIN operations : LogEntry(operations[i]) \in SL!Entry
  <2> SUFFICES ASSUME NEW i \in DOMAIN operations
               PROVE  LogEntry(operations[i]) \in SL!Entry
    OBVIOUS
  <2>1. operations[i] \in StoredOperation
    BY <1>1, ElementOfSeq DEF Inv, TypeOK
  <2>2. Valid(operations[i].op)
    BY DEF Inv, Agreement
  <2> QED BY <2>1, <2>2
         DEF LogEntry, SL!Entry, StoredOperation, Operation, Valid
<1>3. AbstractLog \in [1..Len(operations) -> SL!Entry]
  BY <1>1, <1>2 DEF AbstractLog
<1> QED BY <1>1, <1>3, SeqDef, LenProperties DEF AbstractLog

(***************************************************************************)
(* AcceptOperation is an AppendEntry.                                      *)
(***************************************************************************)
LEMMA AcceptAppends ==
    ASSUME Inv, AcceptOperation
    PROVE  \E applied \in BOOLEAN :
              SL!AppendEntry(job.device, Head(job.ops).idempotency_key, applied)
<1> DEFINE d == job.device
           k == Head(job.ops).idempotency_key
           n == Len(operations) + 1
           entry == LogEntry(Stored)
<1>1. /\ operations' \in Seq(StoredOperation)
      /\ DOMAIN operations = 1..Len(operations)
      /\ DOMAIN operations' = 1..n
      /\ \A i \in 1..Len(operations) : operations'[i] = operations[i]
      /\ operations'[n] = Stored
      /\ Stored \in StoredOperation
      /\ Len(operations) \in Nat
  BY LogGrows DEF Inv
<1>2. d \in Device /\ k \in Key /\ idempotencyIndex[d][k] = 0
  BY AcceptEffect DEF Inv
<1>3. ~SL!Logged(d, k)
  <2> SUFFICES ASSUME NEW i \in DOMAIN operations,
                      operations[i].device = d,
                      operations[i].op.idempotency_key = k
               PROVE  FALSE
    BY DEF SL!Logged
  <2>1. idempotencyIndex[d][k] = i
    BY DEF Inv, Agreement
  <2> QED BY <1>1, <1>2, <2>1
<1>4. AbstractLog' = Append(AbstractLog, entry)
  <2>1. /\ AbstractLog \in Seq(SL!Entry)
        /\ Len(AbstractLog) = Len(operations)
    BY AbstractLogIsLog
  <2>2. entry \in SL!Entry
    BY <1>1, <1>2 DEF LogEntry, SL!Entry, Stored, StoredOperation
  <2>3. /\ DOMAIN Append(AbstractLog, entry) = 1..n
        /\ \A i \in 1..Len(operations) :
              Append(AbstractLog, entry)[i] = AbstractLog[i]
        /\ Append(AbstractLog, entry)[n] = entry
    BY <2>1, <2>2, AppendProperties, LenProperties
  <2>4. Append(AbstractLog, entry) =
           [i \in 1..n |-> Append(AbstractLog, entry)[i]]
    BY <2>1, <2>2, <2>3, AppendProperties, LenProperties
  <2>5. AbstractLog' = [i \in 1..n |-> LogEntry(operations'[i])]
    BY <1>1 DEF AbstractLog, LogEntry
  <2>6. \A i \in 1..n :
           LogEntry(operations'[i]) = Append(AbstractLog, entry)[i]
    <3> SUFFICES ASSUME NEW i \in 1..n
                 PROVE  LogEntry(operations'[i]) =
                           Append(AbstractLog, entry)[i]
      OBVIOUS
    <3>1. CASE i = n
      BY <3>1, <2>3, <1>1
    <3>2. CASE i \in 1..Len(operations)
      <4>1. AbstractLog[i] = LogEntry(operations[i])
        BY <3>2, <1>1 DEF AbstractLog
      <4>2. operations'[i] = operations[i]
        BY <3>2, <1>1
      <4>3. Append(AbstractLog, entry)[i] = AbstractLog[i]
        BY <3>2, <2>3
      <4> QED BY <4>1, <4>2, <4>3 DEF LogEntry
    <3>3. i = n \/ i \in 1..Len(operations)
      BY <1>1
    <3> QED BY <3>1, <3>2, <3>3, Zenon
  <2> QED BY <2>4, <2>5, <2>6
<1>5. entry = [device |-> d, key |-> k, applied |-> Stored.applied]
  BY DEF LogEntry, Stored
<1>6. UNCHANGED <<acked, cursor, got>>
  BY DEF AcceptOperation
<1>7. PICK applied \in BOOLEAN : applied = Stored.applied
  BY DEF Stored, Applied
<1>8. SL!AppendEntry(d, k, applied)
  BY <1>3, <1>4, <1>5, <1>6, <1>7 DEF SL!AppendEntry, AbstractLog, LogEntry
<1> QED BY <1>8

(***************************************************************************)
(* ReplyPush is an Acknowledge of the accepted keys.                       *)
(***************************************************************************)
LEMMA ReplyAcknowledges ==
    ASSUME Inv, ReplyPush
    PROVE  \E ks \in SUBSET Key : SL!Acknowledge(job.device, ks)
<1> DEFINE ks == {op.idempotency_key : op \in job.accepted}
<1>1. ks \in SUBSET Key
  BY DEF Inv, Promises
<1>2. ASSUME NEW k \in ks
      PROVE  SL!Logged(job.device, k)
  <2>1. job.device \in Device /\ k \in Key
    BY <1>1 DEF ReplyPush, Inv, TypeOK
  <2>2. idempotencyIndex[job.device][k] # 0
    BY DEF Inv, Promises
  <2>3. \E i \in DOMAIN operations :
           /\ operations[i].device = job.device
           /\ operations[i].op.idempotency_key = k
    BY <2>1, <2>2 DEF Inv, Agreement
  <2> QED BY <2>3 DEF SL!Logged
<1>3. acked' = acked \cup {<<job.device, k>> : k \in ks}
  BY DEF ReplyPush
<1>4. UNCHANGED <<operations, cursor, got>>
  BY DEF ReplyPush
<1>5. SL!Acknowledge(job.device, ks)
  BY <1>2, <1>3, <1>4 DEF SL!Acknowledge
<1> QED BY <1>1, <1>5

(***************************************************************************)
(* HandlePull is a Read up to its next cursor.                             *)
(***************************************************************************)
LEMMA PullReads ==
    ASSUME Inv, NEW d \in Device, NEW limit \in PullLimits,
           HandlePull(d, limit)
    PROVE  \E c \in DOMAIN operations : SL!Read(d, c)
<1> DEFINE m == NextCursor(cursor[d], limit)
<1>1. /\ cursor[d] \in Nat /\ limit \in Nat
      /\ Page(cursor[d], limit) # {}
  BY PullLimitsAssumption DEF HandlePull, Inv, TypeOK
<1>2. /\ Page(cursor[d], limit) =
            {i \in DOMAIN operations :
               cursor[d] < i /\ i <= m /\ operations[i].applied}
      /\ m \in DOMAIN operations
      /\ m > cursor[d]
  BY <1>1, PageOfLog
<1>3. {i \in DOMAIN AbstractLog :
         cursor[d] < i /\ i <= m /\ AbstractLog[i].applied} =
         Page(cursor[d], limit)
  BY <1>2 DEF AbstractLog, LogEntry
<1>4. SL!Read(d, m)
  <2>1. cursor[d] < m
    BY <1>1, <1>2, LenProperties DEF Inv, TypeOK
  <2>2. /\ got' = [got EXCEPT ![d] = @ \cup Page(cursor[d], limit)]
        /\ cursor' = [cursor EXCEPT ![d] = m]
        /\ operations' = operations /\ acked' = acked
    BY DEF HandlePull, pushVars
  <2> QED BY <1>3, <2>1, <2>2 DEF SL!Read, AbstractLog, LogEntry
<1> QED BY <1>2, <1>4

(***************************************************************************)
(* Every behaviour of the store is one that SyncLog allows                 *)
(* (ImplementsSyncLog): accepting an operation appends it, answering a     *)
(* push acknowledges, a pull reads, and everything else stutters.          *)
(***************************************************************************)
THEOREM StoreImplementsSyncLog == Spec => ImplementsSyncLog
<1>1. Init => SL!Init
  BY DEF Init, SL!Init
<1>2. ASSUME Inv, [Next]_vars
      PROVE  [SL!Next]_(SL!vars)
  <2>1. CASE AcceptOperation
    <3>1. /\ job.device \in Device
          /\ Head(job.ops).idempotency_key \in Key
      BY <1>2, <2>1, AcceptEffect DEF Inv
    <3>2. \E applied \in BOOLEAN :
             SL!AppendEntry(job.device, Head(job.ops).idempotency_key, applied)
      BY <1>2, <2>1, AcceptAppends
    <3>3. SL!Next
      BY <3>1, <3>2 DEF SL!Next
    <3> QED BY <3>3
  <2>2. CASE ReplyPush
    <3>1. job.device \in Device
      BY <1>2, <2>2 DEF ReplyPush, Inv, TypeOK
    <3> QED BY <1>2, <2>2, <3>1, ReplyAcknowledges DEF SL!Next
  <2>3. ASSUME NEW d \in Device, NEW limit \in PullLimits,
               HandlePull(d, limit)
        PROVE  SL!Next
    <3>1. PICK c \in DOMAIN operations : SL!Read(d, c)
      BY <1>2, <2>3, PullReads
    <3> QED BY <3>1 DEF SL!Next
  <2>4. CASE UNCHANGED <<operations, acked, cursor, got>>
    BY <2>4 DEF SL!vars
  <2> QED BY <1>2, <2>1, <2>2, <2>3, <2>4
         DEF Next, vars, pushVars, HandleDeviceRegister, HandlePush, LockPush,
             RejectOperation, AcceptDuplicate
<1> QED BY <1>1, <1>2, Invariance, PTL
       DEF Spec, ImplementsSyncLog, SL!Spec
=============================================================================
