---------------------------- MODULE HiveSyncProofs ----------------------------
(***************************************************************************)
(* Theorems about HiveSync, for any devices, sessions, notes, batch and    *)
(* page sizes and bounds.                                                  *)
(*                                                                         *)
(* The server is that of HiveStore, so its invariant Inv is the first part *)
(* of every invariant here; the others say what the sessions know of it.   *)
(***************************************************************************)
EXTENDS HiveSync, HiveStoreProofs

-----------------------------------------------------------------------------
(***************************************************************************)
(* The elements of a finite set of numbers have ranks: one has exactly k   *)
(* smaller ones, for each k below the set's cardinality.                   *)
(***************************************************************************)
LEMMA RankExists ==
    ASSUME NEW S \in SUBSET Nat, IsFiniteSet(S),
           NEW k \in 0..(Cardinality(S) - 1)
    PROVE  \E i \in S : Cardinality({j \in S : j < i}) = k
<1> DEFINE Below(i) == {j \in S : j < i}
           n == Cardinality(S)
           rank == [i \in S |-> Cardinality(Below(i))]
<1>1. n \in Nat
  BY FS_CardinalityType
<1>2. ASSUME NEW i \in S
      PROVE  /\ IsFiniteSet(Below(i))
             /\ Cardinality(Below(i)) \in 0..(n - 1)
  <2>1. Below(i) \in SUBSET S /\ Below(i) # S
    OBVIOUS
  <2>2. /\ IsFiniteSet(Below(i))
        /\ Cardinality(Below(i)) <= n
        /\ n = Cardinality(Below(i)) => S = Below(i)
    BY <2>1, FS_Subset
  <2>3. Cardinality(Below(i)) \in Nat
    BY <2>2, FS_CardinalityType
  <2> QED BY <2>1, <2>2, <2>3, <1>1
<1>3. rank \in [S -> 0..(n - 1)]
  BY <1>2
<1>4. ASSUME NEW i \in S, NEW j \in S, i < j
      PROVE  Cardinality(Below(i)) # Cardinality(Below(j))
  <2>1. Below(i) \in SUBSET Below(j) /\ i \in Below(j) /\ i \notin Below(i)
    <3>1. i < j /\ i \in Nat /\ j \in Nat
      BY <1>4
    <3>2. \A x \in Below(i) : x \in Below(j)
      BY <3>1
    <3>3. i \in Below(j) /\ i \notin Below(i)
      BY <3>1
    <3> HIDE DEF Below
    <3> QED BY <3>2, <3>3
  <2>2. IsFiniteSet(Below(j))
    BY <1>2
  <2>3. Cardinality(Below(j)) = Cardinality(Below(i)) => Below(j) = Below(i)
    BY <2>1, <2>2, FS_Subset
  <2> QED BY <2>1, <2>3
<1>5. rank \in Injection(S, 0..(n - 1))
  <2>1. ASSUME NEW i \in S, NEW j \in S, rank[i] = rank[j]
        PROVE  i = j
    <3>1. ~(i < j) /\ ~(j < i)
      BY <2>1, <1>4
    <3> QED BY <3>1
  <2> QED BY <2>1, <1>3 DEF Injection, IsInjective
<1>6. IsFiniteSet(0..(n - 1)) /\ Cardinality(0..(n - 1)) = n
  BY <1>1, FS_Interval
<1>7. rank \in Surjection(S, 0..(n - 1))
  BY <1>5, <1>6, FS_Injection
<1>8. PICK i \in S : rank[i] = k
  BY <1>7 DEF Surjection
<1> QED BY <1>8

-----------------------------------------------------------------------------
(***************************************************************************)
(* Types, and cursors: what a session has read of the log is in the log,   *)
(* and what is before a cursor is in the database or in the page being     *)
(* applied.                                                                *)
(***************************************************************************)
Passed(d, c, page) ==
    \A i \in DOMAIN operations :
        operations[i].applied /\ i <= c => i \in got[d] \cup page

ReadFromLog ==
    \A s \in Session :
        /\ run[s].cursor \in 0..latestCursor
        /\ run[s].next \in 0..latestCursor
        /\ \A i \in run[s].page : i \in DOMAIN operations /\ operations[i].applied
        /\ Passed(DeviceOf[s], run[s].cursor, {})
        /\ pc[s] = "apply" => Passed(DeviceOf[s], run[s].next, run[s].page)

NothingPassed == \A d \in Device : Passed(d, cursor[d], {})

CursorInv == Inv /\ SyncTypeOK /\ ReadFromLog /\ NothingPassed
-----------------------------------------------------------------------------
(***************************************************************************)
(* Conversations: a connection has one end at the client, which waits, and *)
(* one at the server, which works on what the client sent.                 *)
(***************************************************************************)
Waiting(s, d) == s \in Session /\ pc[s] = "push" /\ d = DeviceOf[s]

Requested ==
    \A h \in handlers : h.conn # 0 =>
        /\ Waiting(h.conn, h.device)
        /\ h.ops = BuildPushOperations(run[h.conn].batch)
        /\ h.conn # job.conn
        /\ \A g \in handlers : g.conn = h.conn => g = h

WorkedOn ==
    job.conn # 0 =>
        /\ Waiting(job.conn, job.device)
        /\ \A row \in ToSet(run[job.conn].batch) :
              PushOperation(row) \in job.accepted \cup ToSet(job.ops)

Answered ==
    /\ \A s \in Session : pc[s] = "record" =>
          \A row \in ToSet(run[s].batch) :
              <<DeviceOf[s], row.op_id>> \in acked
    /\ \A d \in Device : \A row \in Rows(d) :
          row.acked => <<d, row.op_id>> \in acked

TalkInv == Requested /\ WorkedOn /\ Answered
-----------------------------------------------------------------------------
(***************************************************************************)
(* Operations and the rows they are made from.                             *)
(***************************************************************************)
Carried == (UNION {ToSet(h.ops) : h \in handlers}) \cup ToSet(job.ops)

Underway(d) ==
    {op \in Carried : \/ \E h \in handlers : h.device = d /\ op \in ToSet(h.ops)
                      \/ job.device = d /\ op \in ToSet(job.ops)}

Logged(d) == {operations[i].op :
                 i \in {j \in DOMAIN operations : operations[j].device = d}}

FromRow(d, op) ==
    \E row \in Rows(d) :
        /\ row.op_id = op.op_id
        /\ row.op_id = op.idempotency_key
        /\ row.entity = op.entity
        /\ row.base_version = op.base_version

InOutbox(d, row) ==
    \E r \in Rows(d) :
        /\ r.op_id = row.op_id
        /\ r.entity = row.entity
        /\ r.base_version = row.base_version
        /\ r.created_at = row.created_at

OriginInv ==
    /\ \A d, f \in Device : \A row \in Rows(d), other \in Rows(f) :
          row.op_id = other.op_id => d = f /\ row = other
    /\ \A s \in Session : \A row \in ToSet(run[s].batch) :
          InOutbox(DeviceOf[s], row)
    /\ \A d \in Device : \A op \in Underway(d) \cup Logged(d) : FromRow(d, op)
-----------------------------------------------------------------------------
(***************************************************************************)
(* Lost edits, where no push is lost and no session stops.                 *)
(***************************************************************************)
OnTheWay(d) == conflicts[d] \cup
    UNION {run[s].conflicts :
             s \in {u \in Session : DeviceOf[u] = d /\ pc[u] = "record"}}

Reported(stored) ==
    IF <<stored.device, stored.op.idempotency_key>> \in acked
    THEN \E event \in OnTheWay(stored.device) : event.loser = stored.op.op_id
    ELSE /\ job.device = stored.device
         /\ stored.op \in job.accepted
         /\ \E event \in job.conflicts : event.loser = stored.op.op_id

LostInv ==
    /\ \A h \in handlers : h.conn # 0
    /\ mu => job.conn # 0
    /\ \A i \in DOMAIN operations :
          ~operations[i].applied => Reported(operations[i])
-----------------------------------------------------------------------------
(***************************************************************************)
(* Dates, where no push is lost.                                           *)
(***************************************************************************)
Made(id, time) ==
    \E d \in Device : \E row \in Rows(d) :
        row.op_id = id /\ row.created_at = time

NotNewer(event) ==
    \E d, f \in Device : \E won \in Rows(d), lost \in Rows(f) :
        /\ won.op_id = event.winner
        /\ lost.op_id = event.loser
        /\ won.created_at >= lost.created_at

DateInv ==
    /\ \A d \in Device : \A row \in Rows(d) :
          ~row.acked => row.updated_at = row.created_at
    /\ \A s \in Session : \A row \in ToSet(run[s].batch) :
          Made(row.op_id, row.updated_at)
    /\ \A d \in Device : \A op \in Underway(d) :
          Made(op.op_id, op.client_updated)
    /\ \A e \in Entity : entities[e].version # 0 =>
          Made(entities[e].last_op_id, entities[e].last_client_updated)
    /\ \A event \in told \cup job.conflicts : NotNewer(event)
-----------------------------------------------------------------------------
(***************************************************************************)
(* Convergence, where every device has one session that does not stop.     *)
(***************************************************************************)
HasApplied(d, e) == got[d] \cap AppliedTo(e)

Counted ==
    \A d \in Device :
        /\ \A i \in got[d] : i \in DOMAIN operations /\ operations[i].applied
        /\ \A e \in Entity : versions[d][e] = Cardinality(HasApplied(d, e))

Ordered(s) ==
    LET d == DeviceOf[s] IN
    /\ pc[s] # "apply" => \A i \in got[d] : i <= cursor[d]
    /\ pc[s] \notin {"idle", "apply"} => run[s].cursor = cursor[d]
    /\ pc[s] = "apply" =>
          /\ \A i \in got[d] : i <= run[s].next
          /\ \A i \in run[s].page : i <= run[s].next
          /\ \A i \in got[d], j \in run[s].page : i < j

InOrder == \A s \in Session : Ordered(s)

Bases ==
    /\ \A d \in Device : \A row \in Rows(d) :
          row.base_version <= entities[row.entity].version
    /\ \A i \in DOMAIN operations :
          operations[i].op.base_version
             < entities[operations[i].op.entity].version

Shown(d, e) ==
    IF HasApplied(d, e) = {} THEN notes[d][e] = Gone
    ELSE \E i \in HasApplied(d, e) :
            /\ \A j \in HasApplied(d, e) : j <= i
            /\ notes[d][e] = operations[i].op.payload

EditedSince(d, e) ==
    \E row \in Rows(d) :
        row.entity = e /\ row.base_version = versions[d][e]

ConvergeInv ==
    /\ EntityFollowsLog
    /\ Counted
    /\ InOrder
    /\ Bases
    /\ \A d \in Device, e \in Entity : EditedSince(d, e) \/ Shown(d, e)
-----------------------------------------------------------------------------
(***************************************************************************)
(* The outbox.                                                             *)
(***************************************************************************)

(***************************************************************************)
(* ListPendingOutbox returns rows of the device that are pending, and      *)
(* returns none only if no row is.                                         *)
(***************************************************************************)
LEMMA PendingIsRows ==
    ASSUME outbox \in [Device -> Seq(Row)], NEW d \in Device
    PROVE  /\ Pending(d) \in Seq(Row)
           /\ \A i \in 1..Len(Pending(d)) :
                 Pending(d)[i] \in Rows(d) /\ ~Pending(d)[i].acked
           /\ Pending(d) = <<>> => \A row \in Rows(d) : row.acked
<1> DEFINE places == PendingPlaces(d)
           n == Cardinality(places)
           place(k) == CHOOSE i \in places :
                          Cardinality({j \in places : j < i}) = k - 1
<1>1. outbox[d] \in Seq(Row)
  OBVIOUS
<1>2. Len(outbox[d]) \in Nat /\ DOMAIN outbox[d] = 1..Len(outbox[d])
  BY <1>1, LenProperties
<1>3. places \in SUBSET (1..Len(outbox[d]))
  BY <1>2 DEF PendingPlaces
<1>4. IsFiniteSet(1..Len(outbox[d]))
  BY <1>2, FS_Interval
<1>5. IsFiniteSet(places) /\ places \in SUBSET Nat
  BY <1>3, <1>4, FS_Subset
<1>6. n \in Nat
  BY <1>5, FS_CardinalityType
<1> HIDE DEF places
<1>7. ASSUME NEW k \in 1..n
      PROVE  place(k) \in places
  <2>1. k - 1 \in 0..(n - 1)
    BY <1>6
  <2>2. \E i \in places : Cardinality({j \in places : j < i}) = k - 1
    BY <1>5, <2>1, RankExists
  <2> QED BY <2>2
<1>8. Pending(d) = [k \in 1..n |-> outbox[d][place(k)]]
  BY DEF Pending, places
<1> HIDE DEF place
<1>9. ASSUME NEW k \in 1..n
      PROVE  /\ outbox[d][place(k)] \in Row
             /\ outbox[d][place(k)] \in Rows(d)
             /\ ~outbox[d][place(k)].acked
  <2>1. place(k) \in places /\ place(k) \in 1..Len(outbox[d])
    BY <1>3, <1>7
  <2>2. outbox[d][place(k)] \in Row
    BY <1>1, <2>1, ElementOfSeq
  <2> QED BY <1>2, <2>1, <2>2 DEF places, PendingPlaces, Rows, ToSet
<1> HIDE DEF n
<1>10. Pending(d) \in Seq(Row) /\ Len(Pending(d)) = n
  BY <1>6, <1>8, <1>9
<1>11. ASSUME Pending(d) = <<>>
       PROVE  \A row \in Rows(d) : row.acked
  <2>1. n = 0
    BY <1>10, <1>11
  <2>2. places = {}
    BY <1>5, <2>1, FS_EmptySet DEF n
  <2> QED BY <2>2 DEF places, PendingPlaces, Rows, ToSet
<1> QED BY <1>8, <1>9, <1>10, <1>11

(***************************************************************************)
(* The batch of a session is made of pending rows of its device.           *)
(***************************************************************************)
LEMMA BatchIsPending ==
    ASSUME outbox \in [Device -> Seq(Row)], NEW d \in Device
    PROVE  /\ PendingBatch(d) \in Seq(Row)
           /\ \A row \in ToSet(PendingBatch(d)) : row \in Rows(d) /\ ~row.acked
<1> DEFINE p == Pending(d)
           n == IF Len(p) < OutboxBatch THEN Len(p) ELSE OutboxBatch
<1>1. /\ p \in Seq(Row)
      /\ \A i \in 1..Len(p) : p[i] \in Rows(d) /\ ~p[i].acked
  BY PendingIsRows
<1>2. Len(p) \in Nat /\ OutboxBatch \in Nat
  BY <1>1, LimitsAssumption, LenProperties
<1>3. n \in Nat /\ n <= Len(p)
  BY <1>2
<1>4. PendingBatch(d) = SubSeq(p, 1, n)
  BY DEF PendingBatch
<1> HIDE DEF p, n
<1>5. \A i \in 1..n : p[i] \in Row
  BY <1>1, <1>2, <1>3, ElementOfSeq
<1>6. /\ SubSeq(p, 1, n) \in Seq(Row)
      /\ Len(SubSeq(p, 1, n)) = n
      /\ \A i \in 1..n : SubSeq(p, 1, n)[i] = p[i]
  BY <1>3, <1>5, SubSeqProperties
<1>7. DOMAIN SubSeq(p, 1, n) = 1..n
  BY <1>6, LenProperties
<1>8. ASSUME NEW row \in ToSet(SubSeq(p, 1, n))
      PROVE  row \in Rows(d) /\ ~row.acked
  <2>1. PICK i \in 1..n : row = SubSeq(p, 1, n)[i]
    BY <1>7 DEF ToSet
  <2> QED BY <1>1, <1>2, <1>3, <1>6, <2>1
<1> QED BY <1>4, <1>6, <1>8

(***************************************************************************)
(* The operations of a push are those of the rows of its batch.            *)
(***************************************************************************)
LEMMA PushIsOperations ==
    ASSUME NEW batch \in Seq(Row)
    PROVE  /\ BuildPushOperations(batch) \in Seq(Operation)
           /\ ToSet(BuildPushOperations(batch)) =
                 {PushOperation(row) : row \in ToSet(batch)}
<1>1. ASSUME NEW row \in Row
      PROVE  PushOperation(row) \in Operation
  <2>1. /\ row.op_id \in OpIds /\ row.entity \in Entity
        /\ row.payload \in Payload /\ row.base_version \in Nat
        /\ row.updated_at \in Nat
    BY DEF Row
  <2>2. row.op_id \in Nat /\ row.op_id \in Key
    BY <2>1, OpIdsAssumption
  <2>3. row.base_version \in Int
    BY <2>1
  <2> QED BY <2>1, <2>2, <2>3 DEF PushOperation, Operation
<1>2. Len(batch) \in Nat /\ DOMAIN batch = 1..Len(batch)
  BY LenProperties
<1>3. \A i \in 1..Len(batch) : PushOperation(batch[i]) \in Operation
  BY <1>1, ElementOfSeq
<1>4. BuildPushOperations(batch) =
         [i \in 1..Len(batch) |-> PushOperation(batch[i])]
  BY <1>2 DEF BuildPushOperations
<1>5. BuildPushOperations(batch) \in Seq(Operation)
  BY <1>2, <1>3, <1>4
<1>6. ToSet(BuildPushOperations(batch)) =
         {PushOperation(row) : row \in ToSet(batch)}
  BY <1>2, <1>4 DEF ToSet
<1> QED BY <1>5, <1>6

(***************************************************************************)
(* The head and the tail of a sequence are made of its elements.           *)
(***************************************************************************)
LEMMA HeadAndRest ==
    ASSUME NEW S, NEW s \in Seq(S), s # <<>>
    PROVE  /\ Head(s) \in S
           /\ Tail(s) \in Seq(S)
           /\ ToSet(s) = {Head(s)} \cup ToSet(Tail(s))
<1>1. /\ Head(s) \in S
      /\ Head(s) = s[1]
      /\ Tail(s) \in Seq(S)
      /\ Len(s) \in Nat \ {0}
      /\ Len(Tail(s)) = Len(s) - 1
      /\ DOMAIN s = 1..Len(s)
      /\ DOMAIN Tail(s) = 1..(Len(s) - 1)
      /\ \A i \in 1..(Len(s) - 1) : Tail(s)[i] = s[i + 1]
  OBVIOUS
<1>2. ASSUME NEW x \in ToSet(s)
      PROVE  x \in {Head(s)} \cup ToSet(Tail(s))
  <2>1. PICK i \in 1..Len(s) : x = s[i]
    BY <1>1 DEF ToSet
  <2>2. CASE i = 1
    BY <1>1, <2>1, <2>2
  <2>3. CASE i # 1
    <3>1. i - 1 \in 1..(Len(s) - 1) /\ (i - 1) + 1 = i
      BY <1>1, <2>1, <2>3
    <3>2. Tail(s)[i - 1] = x
      BY <1>1, <2>1, <3>1
    <3> QED BY <1>1, <3>1, <3>2 DEF ToSet
  <2> QED BY <2>2, <2>3
<1>3. ASSUME NEW x \in {Head(s)} \cup ToSet(Tail(s))
      PROVE  x \in ToSet(s)
  <2>1. CASE x = Head(s)
    BY <1>1, <2>1 DEF ToSet
  <2>2. CASE x \in ToSet(Tail(s))
    <3>1. PICK i \in 1..(Len(s) - 1) : x = Tail(s)[i]
      BY <1>1, <2>2 DEF ToSet
    <3>2. i + 1 \in 1..Len(s) /\ x = s[i + 1]
      BY <1>1, <3>1
    <3> QED BY <1>1, <3>2 DEF ToSet
  <2> QED BY <1>3, <2>1, <2>2
<1> QED BY <1>1, <1>2, <1>3

(***************************************************************************)
(* MarkRows changes the status and the date of the rows it names, and      *)
(* nothing else of the outbox.                                             *)
(***************************************************************************)
Marked(row, ids, isAcked) ==
    IF row.op_id \in ids
    THEN [row EXCEPT !.acked = isAcked, !.updated_at = clock]
    ELSE row

\* Marking rows changes statuses and dates only, and no row comes or goes.
LEMMA MarkEffect ==
    ASSUME outbox \in [Device -> Seq(Row)], clock \in Nat,
           NEW d \in Device, NEW ids, NEW isAcked \in BOOLEAN,
           MarkRows(d, ids, isAcked)
    PROVE  /\ outbox' \in [Device -> Seq(Row)]
           /\ Rows(d)' = {Marked(row, ids, isAcked) : row \in Rows(d)}
           /\ \A f \in Device : f # d => Rows(f)' = Rows(f)
<1> DEFINE new == [i \in DOMAIN outbox[d] |->
                     Marked(outbox[d][i], ids, isAcked)]
<1>1. outbox' = [outbox EXCEPT ![d] = new]
  BY DEF MarkRows, Marked
<1>2. outbox[d] \in Seq(Row)
  OBVIOUS
<1>3. Len(outbox[d]) \in Nat /\ DOMAIN outbox[d] = 1..Len(outbox[d])
  BY <1>2, LenProperties
<1>4. ASSUME NEW row \in Row
      PROVE  Marked(row, ids, isAcked) \in Row
  BY DEF Marked, Row
<1>5. \A i \in 1..Len(outbox[d]) : Marked(outbox[d][i], ids, isAcked) \in Row
  BY <1>2, <1>4, ElementOfSeq
<1>6. new \in Seq(Row)
  <2> HIDE DEF Marked
  <2> QED BY <1>3, <1>5
<1>7. ToSet(new) = {Marked(row, ids, isAcked) : row \in Rows(d)}
  <2> HIDE DEF Marked
  <2> QED BY DEF ToSet, Rows
<1> HIDE DEF new
<1>8. outbox' \in [Device -> Seq(Row)] /\ outbox'[d] = new
  BY <1>1, <1>6
<1>9. \A f \in Device : f # d => outbox'[f] = outbox[f]
  BY <1>1
<1> QED BY <1>7, <1>8, <1>9 DEF Rows

-----------------------------------------------------------------------------
(***************************************************************************)
(* CursorInv holds initially, and every action keeps it.                   *)
(***************************************************************************)

(***************************************************************************)
(* What is logged is a valid operation on an entity that exists.           *)
(***************************************************************************)
LEMMA LoggedIsValid ==
    ASSUME Inv, NEW i \in DOMAIN operations
    PROVE  /\ i \in 1..Len(operations)
           /\ operations[i].cursor = i
           /\ operations[i].device \in Device
           /\ operations[i].op \in Operation
           /\ operations[i].op.idempotency_key \in Key
           /\ operations[i].op.entity \in Entity
           /\ operations[i].op.payload \in Payload
           /\ operations[i].op.base_version \in Nat
<1>1. operations \in Seq(StoredOperation)
  BY DEF Inv, TypeOK
<1>2. DOMAIN operations = 1..Len(operations)
  BY <1>1, LenProperties
<1>3. operations[i] \in StoredOperation
  BY <1>1, <1>2, ElementOfSeq
<1>4. operations[i].op \in Operation /\ operations[i].device \in Device
  BY <1>3 DEF StoredOperation
<1>5. Valid(operations[i].op) /\ operations[i].cursor = i
  BY DEF Inv, Agreement
<1>6. /\ operations[i].op.idempotency_key \in Key
      /\ operations[i].op.entity \in Entity
      /\ operations[i].op.payload \in Payload
  BY <1>4, <1>5 DEF Operation, Valid
<1>7. operations[i].op.base_version \in Nat
  BY <1>4, <1>5 DEF Operation, Valid
<1> QED BY <1>2, <1>4, <1>5, <1>6, <1>7

(***************************************************************************)
(* The fields of a session's local variables.                              *)
(***************************************************************************)
LEMMA RunFields ==
    ASSUME SyncTypeOK, NEW s \in Session
    PROVE  /\ s \in Nat \ {0}
           /\ DeviceOf[s] \in Device
           /\ run[s] \in Run
           /\ run[s].cursor \in Nat
           /\ run[s].batch \in Seq(Row)
           /\ run[s].conflicts \in SUBSET ConflictEvent
           /\ run[s].page \in SUBSET Nat
           /\ run[s].next \in Nat
           /\ run[s].more \in BOOLEAN
<1>1. run[s] \in Run
  BY DEF SyncTypeOK
<1> QED BY <1>1, SessionAssumption DEF Run

\* A session that does not run is well typed.
LEMMA IdleRunIsRun == IdleRun \in Run
<1>1. <<>> \in Seq(Row)
  OBVIOUS
<1> QED BY <1>1 DEF IdleRun, Run

(***************************************************************************)
(* CursorInv holds initially.                                              *)
(***************************************************************************)
LEMMA CursorInit == SyncInit => CursorInv
<1> SUFFICES ASSUME SyncInit PROVE CursorInv
  OBVIOUS
<1>1. Inv
  BY InvInit DEF SyncInit
<1>2. SyncTypeOK
  <2>1. <<>> \in Seq(Row)
    OBVIOUS
  <2>2. clock \in 1..MaxClock
    BY LimitsAssumption DEF SyncInit
  <2>3. outbox \in [Device -> Seq(Row)]
    BY <2>1 DEF SyncInit
  <2>4. run \in [Session -> Run]
    BY IdleRunIsRun DEF SyncInit
  <2> QED BY <1>1, <2>2, <2>3, <2>4, GoneAssumption
          DEF SyncInit, SyncTypeOK, Inv
<1>3. operations = <<>> /\ latestCursor = 0
  BY DEF SyncInit, Init
<1>4. DOMAIN operations = {}
  BY <1>3
<1>5. NothingPassed
  BY <1>4 DEF NothingPassed, Passed
<1>6. ReadFromLog
  BY <1>3, <1>4 DEF ReadFromLog, Passed, SyncInit, IdleRun
<1> QED BY <1>1, <1>2, <1>5, <1>6 DEF CursorInv

(***************************************************************************)
(* A session that goes on reading where it was, and one that stops.        *)
(***************************************************************************)
Reads(s) ==
    /\ run'[s].cursor = run[s].cursor
    /\ run'[s].next = run[s].next
    /\ run'[s].page = run[s].page
    /\ pc'[s] = "apply" => pc[s] = "apply"

Stops(s) == run'[s] = IdleRun /\ pc'[s] # "apply"

(***************************************************************************)
(* A step that reads nothing, writes nothing to a device and appends       *)
(* nothing to the log.                                                     *)
(***************************************************************************)
LEMMA NothingRead ==
    ASSUME CursorInv, UNCHANGED <<operations, latestCursor, cursor, got>>,
           \A s \in Session : Reads(s) \/ Stops(s)
    PROVE  ReadFromLog' /\ NothingPassed'
<1>1. NothingPassed'
  BY DEF CursorInv, NothingPassed, Passed
<1>2. ReadFromLog'
  <2> SUFFICES ASSUME NEW s \in Session
               PROVE  /\ run'[s].cursor \in 0..latestCursor
                      /\ run'[s].next \in 0..latestCursor
                      /\ \A i \in run'[s].page :
                            i \in DOMAIN operations /\ operations[i].applied
                      /\ Passed(DeviceOf[s], run'[s].cursor, {})
                      /\ pc'[s] = "apply" =>
                            Passed(DeviceOf[s], run'[s].next, run'[s].page)
    BY DEF ReadFromLog, Passed
  <2>1. CASE Reads(s)
    BY <2>1 DEF Reads, CursorInv, ReadFromLog
  <2>2. CASE Stops(s)
    <3>1. /\ run'[s].cursor = 0 /\ run'[s].next = 0 /\ run'[s].page = {}
          /\ pc'[s] # "apply"
      BY <2>2 DEF Stops, IdleRun
    <3>2. operations \in Seq(StoredOperation) /\ latestCursor = Len(operations)
      BY DEF CursorInv, Inv, TypeOK
    <3>3. latestCursor \in Nat /\ \A i \in DOMAIN operations : i \in Nat \ {0}
      BY <3>2, LenProperties
    <3>4. Passed(DeviceOf[s], 0, {})
      BY <3>3 DEF Passed
    <3> QED BY <3>1, <3>3, <3>4
  <2> QED BY <2>1, <2>2
<1> QED BY <1>1, <1>2

(***************************************************************************)
(* An operation stored at the end of the log is past every cursor.         *)
(***************************************************************************)
LEMMA StoredIsPast ==
    ASSUME CursorInv, AcceptOperation, UNCHANGED <<pc, run>>
    PROVE  ReadFromLog' /\ NothingPassed'
<1>1. /\ DOMAIN operations = 1..Len(operations)
      /\ DOMAIN operations' = 1..(Len(operations) + 1)
      /\ \A i \in 1..Len(operations) : operations'[i] = operations[i]
      /\ Len(operations) \in Nat
      /\ latestCursor' = Len(operations) + 1
      /\ latestCursor = Len(operations)
  BY LogGrows DEF CursorInv, Inv, TypeOK
<1>2. UNCHANGED <<cursor, got>>
  BY DEF AcceptOperation
<1>3. ASSUME NEW d, NEW c \in 0..latestCursor, NEW page, Passed(d, c, page)
      PROVE  \A i \in DOMAIN operations' :
                operations'[i].applied /\ i <= c => i \in got[d] \cup page
  BY <1>1, <1>3 DEF Passed
<1>4. NothingPassed'
  <2>1. \A d \in Device : cursor[d] \in 0..latestCursor
    BY DEF CursorInv, Inv, CursorsInLog
  <2> QED BY <1>2, <1>3, <2>1 DEF CursorInv, NothingPassed, Passed
<1>5. ReadFromLog'
  <2> SUFFICES ASSUME NEW s \in Session
               PROVE  /\ run[s].cursor \in 0..latestCursor'
                      /\ run[s].next \in 0..latestCursor'
                      /\ \A i \in run[s].page :
                            i \in DOMAIN operations' /\ operations'[i].applied
                      /\ Passed(DeviceOf[s], run[s].cursor, {})'
                      /\ pc[s] = "apply" =>
                            Passed(DeviceOf[s], run[s].next, run[s].page)'
    BY DEF ReadFromLog, Passed
  <2>1. /\ run[s].cursor \in 0..latestCursor
        /\ run[s].next \in 0..latestCursor
        /\ \A i \in run[s].page : i \in DOMAIN operations /\ operations[i].applied
        /\ Passed(DeviceOf[s], run[s].cursor, {})
        /\ pc[s] = "apply" => Passed(DeviceOf[s], run[s].next, run[s].page)
    BY DEF CursorInv, ReadFromLog
  <2>2. Passed(DeviceOf[s], run[s].cursor, {})'
    BY <1>2, <1>3, <2>1 DEF Passed
  <2>3. pc[s] = "apply" => Passed(DeviceOf[s], run[s].next, run[s].page)'
    BY <1>2, <1>3, <2>1 DEF Passed
  <2> QED BY <1>1, <2>1, <2>2, <2>3
<1> QED BY <1>4, <1>5

(***************************************************************************)
(* The time passes.                                                        *)
(***************************************************************************)
LEMMA CursorTick ==
    ASSUME CursorInv, Tick
    PROVE  CursorInv'
<1> USE DEF Tick, clientVars
<1>1. Inv'
  BY InvStutter DEF CursorInv
<1>2. SyncTypeOK'
  <2>1. clock' \in 1..MaxClock
    BY LimitsAssumption DEF CursorInv, SyncTypeOK
  <2> QED BY <1>1, <2>1 DEF CursorInv, SyncTypeOK, Inv
<1>3. ReadFromLog' /\ NothingPassed'
  BY DEF CursorInv, ReadFromLog, NothingPassed, Passed, vars, pushVars
<1> QED BY <1>1, <1>2, <1>3 DEF CursorInv

(***************************************************************************)
(* What Edit does to the outbox.                                           *)
(***************************************************************************)
NewRow(d, e, v, id) ==
    [op_id |-> id, entity |-> e, payload |-> v,
     base_version |-> versions[d][e], acked |-> FALSE,
     created_at |-> clock, updated_at |-> clock]

\* An edit adds its row to the outbox of its device, unless it has one with
\* the same content and base already.
LEMMA EditEffect ==
    ASSUME SyncTypeOK, NEW d \in Device, NEW e \in Entity, NEW v \in Payload,
           NEW id \in OpIds, Edit(d, e, v, id)
    PROVE  /\ NewRow(d, e, v, id) \in Row
           /\ outbox' \in [Device -> Seq(Row)]
           /\ \A f \in Device : f # d => Rows(f)' = Rows(f)
           /\ \/ /\ outbox' = outbox
                 /\ Rows(d)' = Rows(d)
                 /\ \E row \in Rows(d) : /\ row.entity = e
                                         /\ row.payload = v
                                         /\ row.base_version = versions[d][e]
              \/ Rows(d)' = Rows(d) \cup {NewRow(d, e, v, id)}
<1> DEFINE new == NewRow(d, e, v, id)
<1>1. clock \in Nat /\ versions[d][e] \in Nat
  BY LimitsAssumption DEF SyncTypeOK
<1>2. new \in Row
  BY <1>1 DEF NewRow, Row
<1>3. outbox[d] \in Seq(Row) /\ outbox \in [Device -> Seq(Row)]
  BY DEF SyncTypeOK
<1>4. CASE outbox' = outbox
  <2>1. \/ \E row \in Rows(d) : /\ row.entity = e
                                /\ row.payload = v
                                /\ row.base_version = versions[d][e]
        \/ outbox' = [outbox EXCEPT ![d] = Append(outbox[d], new)]
    BY DEF Edit, Enqueue, NewRow
  <2>2. Append(outbox[d], new) # outbox[d]
    <3>1. Len(Append(outbox[d], new)) = Len(outbox[d]) + 1
          /\ Len(outbox[d]) \in Nat
      BY <1>2, <1>3, AppendProperties, LenProperties
    <3> QED BY <3>1
  <2>3. outbox' # [outbox EXCEPT ![d] = Append(outbox[d], new)]
    BY <1>3, <1>4, <2>2
  <2> QED BY <1>2, <1>3, <1>4, <2>1, <2>3 DEF Rows
<1>5. CASE outbox' # outbox
  <2>1. outbox' = [outbox EXCEPT ![d] = Append(outbox[d], new)]
    BY <1>5 DEF Edit, Enqueue, NewRow
  <2>2. /\ Append(outbox[d], new) \in Seq(Row)
        /\ Len(Append(outbox[d], new)) = Len(outbox[d]) + 1
        /\ \A i \in 1..Len(outbox[d]) :
              Append(outbox[d], new)[i] = outbox[d][i]
        /\ Append(outbox[d], new)[Len(outbox[d]) + 1] = new
    BY <1>2, <1>3, AppendProperties
  <2>3. /\ Len(outbox[d]) \in Nat
        /\ DOMAIN outbox[d] = 1..Len(outbox[d])
        /\ DOMAIN Append(outbox[d], new) = 1..(Len(outbox[d]) + 1)
    BY <1>3, <2>2, LenProperties
  <2>4. ToSet(Append(outbox[d], new)) = ToSet(outbox[d]) \cup {new}
    <3> HIDE DEF new
    <3>1. \A x : x \in ToSet(Append(outbox[d], new)) <=>
                    x \in ToSet(outbox[d]) \cup {new}
      BY <2>2, <2>3 DEF ToSet
    <3> QED BY <3>1
  <2> HIDE DEF new
  <2>5. outbox' \in [Device -> Seq(Row)] /\ outbox'[d] = Append(outbox[d], new)
    BY <1>3, <2>1, <2>2
  <2>6. \A f \in Device : f # d => outbox'[f] = outbox[f]
    BY <1>3, <2>1
  <2>7. Rows(d)' = Rows(d) \cup {new}
    BY <2>4, <2>5 DEF Rows
  <2> QED BY <1>2, <2>5, <2>6, <2>7 DEF Rows, new
<1> QED BY <1>4, <1>5

(***************************************************************************)
(* A note is edited.                                                       *)
(***************************************************************************)
LEMMA CursorEdit ==
    ASSUME CursorInv, NEW d \in Device, NEW e \in Entity, NEW v \in Payload,
           NEW id \in OpIds, Edit(d, e, v, id)
    PROVE  CursorInv'
<1>1. Inv'
  BY InvStutter DEF CursorInv, Edit
<1>2. SyncTypeOK'
  <2>1. outbox' \in [Device -> Seq(Row)]
    BY EditEffect DEF CursorInv
  <2>2. notes' \in [Device -> [Entity -> Payload]]
    BY DEF CursorInv, SyncTypeOK, Edit
  <2> QED BY <1>1, <2>1, <2>2 DEF CursorInv, SyncTypeOK, Inv, Edit
<1>3. ReadFromLog' /\ NothingPassed'
  BY DEF Edit, CursorInv, ReadFromLog, NothingPassed, Passed, vars, pushVars
<1> QED BY <1>1, <1>2, <1>3 DEF CursorInv

(***************************************************************************)
(* A session begins to read at its device's cursor.                        *)
(***************************************************************************)
LEMMA CursorStart ==
    ASSUME CursorInv, NEW s \in Session, StartSync(s)
    PROVE  CursorInv'
<1> DEFINE d == DeviceOf[s]
           new == [IdleRun EXCEPT !.cursor = cursor[d],
                                  !.batch = PendingBatch(d)]
<1>1. Inv'
  BY InvStutter DEF CursorInv, StartSync
<1>2. d \in Device
  BY RunFields DEF CursorInv
<1>3. cursor[d] \in 0..latestCursor /\ latestCursor \in Nat
  BY <1>2, LenProperties DEF CursorInv, Inv, TypeOK, CursorsInLog
<1>4. PendingBatch(d) \in Seq(Row)
  BY <1>2, BatchIsPending DEF CursorInv, SyncTypeOK
<1>5. /\ new \in Run
      /\ new.cursor = cursor[d]
      /\ new.next = 0
      /\ new.page = {}
  <2>1. IdleRun.next = 0 /\ IdleRun.page = {}
    BY DEF IdleRun
  <2>2. cursor[d] \in Nat
    BY <1>3
  <2> QED BY <2>1, <2>2, <1>4, IdleRunIsRun DEF Run
<1>6. /\ run' = [run EXCEPT ![s] = new]
      /\ pc' = [pc EXCEPT ![s] = IF PendingBatch(d) = <<>>
                                 THEN "pull" ELSE "send"]
      /\ UNCHANGED <<vars, clock, outbox, versions, notes, conflicts>>
  BY DEF StartSync
<1> HIDE DEF new
<1>7. SyncTypeOK'
  BY <1>1, <1>5, <1>6 DEF CursorInv, SyncTypeOK, Inv
<1>8. run'[s] = new /\ pc'[s] # "apply"
  BY <1>6 DEF CursorInv, SyncTypeOK
<1>9. NothingPassed'
  BY <1>6 DEF CursorInv, NothingPassed, Passed, vars, pushVars
<1>10. ReadFromLog'
  <2> SUFFICES ASSUME NEW u \in Session
               PROVE  /\ run'[u].cursor \in 0..latestCursor
                      /\ run'[u].next \in 0..latestCursor
                      /\ \A i \in run'[u].page :
                            i \in DOMAIN operations /\ operations[i].applied
                      /\ Passed(DeviceOf[u], run'[u].cursor, {})
                      /\ pc'[u] = "apply" =>
                            Passed(DeviceOf[u], run'[u].next, run'[u].page)
    BY <1>6 DEF ReadFromLog, Passed, vars, pushVars
  <2>1. CASE u = s
    <3>1. Passed(d, cursor[d], {})
      BY <1>2 DEF CursorInv, NothingPassed
    <3> QED BY <1>3, <1>5, <1>8, <2>1, <3>1
  <2>2. CASE u # s
    <3>1. run'[u] = run[u] /\ pc'[u] = pc[u]
      BY <1>6, <2>2 DEF CursorInv, SyncTypeOK
    <3> QED BY <3>1 DEF CursorInv, ReadFromLog
  <2> QED BY <2>1, <2>2
<1> QED BY <1>1, <1>7, <1>9, <1>10 DEF CursorInv

(***************************************************************************)
(* A session sends its batch.                                              *)
(***************************************************************************)
LEMMA CursorSend ==
    ASSUME CursorInv, NEW s \in Session, SendPush(s)
    PROVE  CursorInv'
<1>1. /\ s \in Nat
      /\ DeviceOf[s] \in Device
      /\ BuildPushOperations(run[s].batch) \in Seq(Operation)
  BY RunFields, PushIsOperations DEF CursorInv
<1>2. Inv'
  BY <1>1, InvPush DEF CursorInv, SendPush
<1>3. SyncTypeOK'
  BY <1>2 DEF CursorInv, SyncTypeOK, Inv, SendPush
<1>4. UNCHANGED <<operations, latestCursor, cursor, got>>
  BY DEF SendPush, HandlePush
<1>5. \A u \in Session : Reads(u)
  BY DEF SendPush, Reads, CursorInv, SyncTypeOK
<1> QED BY <1>2, <1>3, <1>4, <1>5, NothingRead DEF CursorInv

(***************************************************************************)
(* The client's end of a connection goes.                                  *)
(***************************************************************************)
LEMMA InvDisconnect ==
    ASSUME Inv, NEW s \in Nat \ {0}, Disconnect(s)
    PROVE  Inv'
<1> USE DEF Disconnect
<1>1. /\ job' \in Job
      /\ job'.device = job.device
      /\ job'.accepted = job.accepted
  <2>1. job \in Job
    BY DEF Inv, TypeOK
  <2>2. CASE job.conn = s
    BY <2>1, <2>2 DEF Job
  <2>3. CASE job.conn # s
    BY <2>1, <2>3
  <2> QED BY <2>2, <2>3
<1>2. \A h \in handlers' :
         h \in Handler /\ \E g \in handlers : g.device = h.device
  <2> SUFFICES ASSUME NEW g \in handlers
               PROVE  LET h == IF g.conn = s THEN [g EXCEPT !.conn = 0] ELSE g
                      IN  h \in Handler /\ h.device = g.device
    OBVIOUS
  <2>1. g \in Handler
    BY DEF Inv, TypeOK
  <2> QED BY <2>1 DEF Handler
<1>3. TypeOK'
  BY <1>1, <1>2 DEF Inv, TypeOK
<1>4. Agreement'
  BY DEF Inv, Agreement
<1>5. Promises'
  <2>1. ~mu => job' = IdleJob
    <3>1. IdleJob.conn # s
      BY DEF IdleJob
    <3> QED BY <3>1 DEF Inv, Promises
  <2>2. \A h \in handlers' : h.device \in devices
    BY <1>2 DEF Inv, Promises
  <2>3. mu' = mu /\ devices' = devices /\ acked' = acked
        /\ idempotencyIndex' = idempotencyIndex
    OBVIOUS
  <2> QED BY <1>1, <2>1, <2>2, <2>3 DEF Inv, Promises
<1>6. CursorsInLog'
  BY DEF Inv, CursorsInLog
<1> QED BY <1>3, <1>4, <1>5, <1>6 DEF Inv

(***************************************************************************)
(* A session that fails, or stops.                                         *)
(***************************************************************************)
LEMMA CursorFails ==
    ASSUME CursorInv, NEW s \in Session, PushFails(s)
    PROVE  CursorInv'
<1>1. s \in Nat \ {0} /\ DeviceOf[s] \in Device
  BY RunFields DEF CursorInv
<1>2. Inv'
  BY <1>1, InvDisconnect DEF CursorInv, PushFails
<1>3. SyncTypeOK'
  <2>1. clock \in Nat
    BY LimitsAssumption DEF CursorInv, SyncTypeOK
  <2>2. outbox' \in [Device -> Seq(Row)]
    BY <1>1, <2>1, MarkEffect DEF CursorInv, SyncTypeOK, PushFails
  <2>3. run' \in [Session -> Run]
    BY IdleRunIsRun DEF CursorInv, SyncTypeOK, PushFails
  <2>4. UNCHANGED <<clock, versions, notes, conflicts>>
        /\ pc' = [pc EXCEPT ![s] = "idle"]
    BY DEF PushFails
  <2> QED BY <1>2, <2>2, <2>3, <2>4 DEF CursorInv, SyncTypeOK, Inv
<1>4. UNCHANGED <<operations, latestCursor, cursor, got>>
  BY DEF PushFails, Disconnect
<1>5. \A u \in Session : Reads(u) \/ Stops(u)
  BY DEF PushFails, Reads, Stops, CursorInv, SyncTypeOK
<1>6. ReadFromLog' /\ NothingPassed'
  BY <1>4, <1>5, NothingRead
<1> QED BY <1>2, <1>3, <1>6 DEF CursorInv

\* A crash keeps the cursor invariant: it stops a session and changes no
\* cursor.
LEMMA CursorCrash ==
    ASSUME CursorInv, NEW s \in Session, Crash(s)
    PROVE  CursorInv'
<1>1. s \in Nat \ {0} /\ DeviceOf[s] \in Device
  BY RunFields DEF CursorInv
<1>2. Inv'
  BY <1>1, InvDisconnect DEF CursorInv, Crash
<1>3. SyncTypeOK'
  <2>1. run' \in [Session -> Run]
    BY IdleRunIsRun DEF CursorInv, SyncTypeOK, Crash
  <2> QED BY <1>2, <2>1 DEF CursorInv, SyncTypeOK, Inv, Crash
<1>4. UNCHANGED <<operations, latestCursor, cursor, got>>
  BY DEF Crash, Disconnect
<1>5. \A u \in Session : Reads(u) \/ Stops(u)
  BY DEF Crash, Reads, Stops, CursorInv, SyncTypeOK
<1>6. ReadFromLog' /\ NothingPassed'
  BY <1>4, <1>5, NothingRead
<1> QED BY <1>2, <1>3, <1>6 DEF CursorInv

(***************************************************************************)
(* A session gets an answer, and records it.                               *)
(***************************************************************************)
LEMMA CursorAnswer ==
    ASSUME CursorInv, NEW s \in Session, AnswerPush(s)
    PROVE  CursorInv'
<1> DEFINE new == [run[s] EXCEPT !.conflicts = job.conflicts]
<1>1. Inv'
  BY InvReply DEF CursorInv, AnswerPush
<1>2. job.conflicts \in SUBSET ConflictEvent
  BY DEF CursorInv, SyncTypeOK, TypeOK, Job
<1>3. run[s] \in Run
  BY RunFields DEF CursorInv
<1>4. /\ new \in Run
      /\ new.cursor = run[s].cursor
      /\ new.next = run[s].next
      /\ new.page = run[s].page
  BY <1>2, <1>3 DEF Run
<1>5. /\ run' = [run EXCEPT ![s] = new]
      /\ pc' = [pc EXCEPT ![s] = "record"]
      /\ UNCHANGED <<clock, outbox, versions, notes, conflicts>>
  BY DEF AnswerPush
<1> HIDE DEF new
<1>6. SyncTypeOK'
  BY <1>1, <1>4, <1>5 DEF CursorInv, SyncTypeOK, Inv
<1>7. UNCHANGED <<operations, latestCursor, cursor, got>>
  BY DEF AnswerPush, ReplyPush
<1>8. \A u \in Session : Reads(u)
  BY <1>4, <1>5 DEF Reads, CursorInv, SyncTypeOK
<1> QED BY <1>1, <1>6, <1>7, <1>8, NothingRead DEF CursorInv

\* Recording an acknowledgement leaves the cursors alone.
LEMMA CursorAck ==
    ASSUME CursorInv, NEW s \in Session, RecordAck(s)
    PROVE  CursorInv'
<1> DEFINE batch == run[s].batch
           new == [run[s] EXCEPT !.batch = Tail(batch)]
           next == Recorded(Tail(batch), run[s].conflicts)
<1>1. Inv'
  BY InvStutter DEF CursorInv, RecordAck
<1>2. DeviceOf[s] \in Device /\ run[s] \in Run /\ batch \in Seq(Row)
  BY RunFields DEF CursorInv
<1>3. batch # <<>>
  BY DEF RecordAck
<1>4. Tail(batch) \in Seq(Row)
  BY <1>2, <1>3, HeadAndRest
<1>5. /\ new \in Run
      /\ new.cursor = run[s].cursor
      /\ new.next = run[s].next
      /\ new.page = run[s].page
  BY <1>2, <1>4 DEF Run
<1>6. next \in {"pull", "record"}
  BY DEF Recorded
<1>7. /\ run' = [run EXCEPT ![s] = new]
      /\ pc' = [pc EXCEPT ![s] = next]
      /\ MarkRows(DeviceOf[s], {Head(batch).op_id}, TRUE)
      /\ UNCHANGED <<vars, clock, versions, notes, conflicts>>
  BY DEF RecordAck
<1> HIDE DEF new, next
<1>8. SyncTypeOK'
  <2>1. clock \in Nat
    BY LimitsAssumption DEF CursorInv, SyncTypeOK
  <2>2. outbox' \in [Device -> Seq(Row)]
    BY <1>2, <1>7, <2>1, MarkEffect DEF CursorInv, SyncTypeOK
  <2> QED BY <1>1, <1>5, <1>6, <1>7, <2>2 DEF CursorInv, SyncTypeOK, Inv
<1>9. UNCHANGED <<operations, latestCursor, cursor, got>>
  BY <1>7 DEF vars, pushVars
<1>10. \A u \in Session : Reads(u)
  BY <1>5, <1>6, <1>7 DEF Reads, CursorInv, SyncTypeOK
<1> QED BY <1>1, <1>8, <1>9, <1>10, NothingRead DEF CursorInv

\* Recording a conflict leaves the cursors alone.
LEMMA CursorConflict ==
    ASSUME CursorInv, NEW s \in Session, RecordConflict(s)
    PROVE  CursorInv'
<1>1. Inv'
  BY InvStutter DEF CursorInv, RecordConflict
<1>2. /\ DeviceOf[s] \in Device /\ run[s] \in Run
      /\ run[s].conflicts \in SUBSET ConflictEvent
  BY RunFields DEF CursorInv
<1>3. PICK event \in run[s].conflicts :
         /\ conflicts' = [conflicts EXCEPT ![DeviceOf[s]] =
                             conflicts[DeviceOf[s]] \cup {event}]
         /\ run' = [run EXCEPT ![s] =
                       [run[s] EXCEPT !.conflicts = run[s].conflicts \ {event}]]
         /\ pc' = [pc EXCEPT ![s] =
                      Recorded(<<>>, run[s].conflicts \ {event})]
  BY DEF RecordConflict
<1> DEFINE new == [run[s] EXCEPT !.conflicts = run[s].conflicts \ {event}]
           next == Recorded(<<>>, run[s].conflicts \ {event})
<1>4. /\ new \in Run
      /\ new.cursor = run[s].cursor
      /\ new.next = run[s].next
      /\ new.page = run[s].page
  BY <1>2 DEF Run
<1>5. next \in {"pull", "record"}
  BY DEF Recorded
<1>6. /\ run' = [run EXCEPT ![s] = new]
      /\ pc' = [pc EXCEPT ![s] = next]
      /\ UNCHANGED <<vars, clock, outbox, versions, notes>>
  BY <1>3 DEF RecordConflict
<1> HIDE DEF new, next
<1>7. conflicts' \in [Device -> SUBSET ConflictEvent]
  BY <1>2, <1>3 DEF CursorInv, SyncTypeOK
<1>8. SyncTypeOK'
  BY <1>1, <1>4, <1>5, <1>6, <1>7 DEF CursorInv, SyncTypeOK, Inv
<1>9. UNCHANGED <<operations, latestCursor, cursor, got>>
  BY <1>6 DEF vars, pushVars
<1>10. \A u \in Session : Reads(u)
  BY <1>4, <1>5, <1>6 DEF Reads, CursorInv, SyncTypeOK
<1> QED BY <1>1, <1>8, <1>9, <1>10, NothingRead DEF CursorInv

(***************************************************************************)
(* A page leaves out no applied operation up to its last one.              *)
(***************************************************************************)
LEMMA PageIsPassed ==
    ASSUME Inv, NEW d, NEW c \in Nat, Passed(d, c, {}),
           Page(c, PullLimit) # {}
    PROVE  /\ NextCursor(c, PullLimit) \in 1..latestCursor
           /\ \A i \in Page(c, PullLimit) :
                 /\ i \in DOMAIN operations /\ operations[i].applied
                 /\ c < i /\ i <= NextCursor(c, PullLimit)
           /\ Passed(d, NextCursor(c, PullLimit), Page(c, PullLimit))
<1> DEFINE m == NextCursor(c, PullLimit)
<1>1. PullLimit \in Nat
  BY LimitsAssumption
<1>2. /\ Page(c, PullLimit) =
            {i \in DOMAIN operations : c < i /\ i <= m /\ operations[i].applied}
      /\ m \in DOMAIN operations
  BY <1>1, PageOfLog
<1>3. DOMAIN operations = 1..latestCursor /\ latestCursor \in Nat
  BY LenProperties DEF Inv, TypeOK
<1>4. Passed(d, m, Page(c, PullLimit))
  <2> SUFFICES ASSUME NEW i \in DOMAIN operations,
                      operations[i].applied, i <= m
               PROVE  i \in got[d] \cup Page(c, PullLimit)
    BY DEF Passed
  <2>1. CASE i <= c
    BY <2>1 DEF Passed
  <2>2. CASE c < i
    BY <2>2, <1>2
  <2> QED BY <2>1, <2>2, <1>3
<1> QED BY <1>2, <1>3, <1>4

(***************************************************************************)
(* A page is read.                                                         *)
(***************************************************************************)
LEMMA CursorPull ==
    ASSUME CursorInv, NEW s \in Session, Pull(s)
    PROVE  CursorInv'
<1> DEFINE c == run[s].cursor
<1>1. Inv'
  BY InvStutter DEF CursorInv, Pull
<1>2. UNCHANGED <<operations, latestCursor, cursor, got>>
  BY DEF Pull, vars, pushVars
<1>3. CASE Page(c, PullLimit) = {}
  <2>1. run' = [run EXCEPT ![s] = IdleRun] /\ pc' = [pc EXCEPT ![s] = "idle"]
    BY <1>3 DEF Pull
  <2>2. SyncTypeOK'
    BY <1>1, <2>1, IdleRunIsRun DEF CursorInv, SyncTypeOK, Inv, Pull
  <2>3. \A u \in Session : Reads(u) \/ Stops(u)
    BY <2>1 DEF Reads, Stops, CursorInv, SyncTypeOK
  <2> QED BY <1>1, <1>2, <2>2, <2>3, NothingRead DEF CursorInv
<1>4. CASE Page(c, PullLimit) # {}
  <2> DEFINE page == Page(c, PullLimit)
             m == NextCursor(c, PullLimit)
             more == HasMore(c, PullLimit)
             new == [run[s] EXCEPT !.page = page, !.next = m, !.more = more]
  <2>1. /\ run' = [run EXCEPT ![s] = new]
        /\ pc' = [pc EXCEPT ![s] = "apply"]
        /\ UNCHANGED <<vars, clock, outbox, versions, notes, conflicts>>
    BY <1>4 DEF Pull
  <2>2. run[s] \in Run /\ c \in Nat
    BY RunFields DEF CursorInv
  <2>3. c \in 0..latestCursor /\ Passed(DeviceOf[s], c, {})
    BY DEF CursorInv, ReadFromLog
  <2>4. /\ m \in 1..latestCursor
        /\ \A i \in page : i \in DOMAIN operations /\ operations[i].applied
        /\ Passed(DeviceOf[s], m, page)
    BY <1>4, <2>2, <2>3, PageIsPassed DEF CursorInv
  <2>5. DOMAIN operations = 1..latestCursor /\ latestCursor \in Nat
    BY LenProperties DEF CursorInv, Inv, TypeOK
  <2>6. page \in SUBSET Nat /\ m \in Nat /\ more \in BOOLEAN
    BY <2>4, <2>5 DEF HasMore
  <2> HIDE DEF page, m, more
  <2>7. /\ new \in Run
        /\ new.cursor = c
        /\ new.next = m
        /\ new.page = page
    BY <2>2, <2>6 DEF Run
  <2> HIDE DEF new
  <2>8. SyncTypeOK'
    BY <1>1, <2>1, <2>7 DEF CursorInv, SyncTypeOK, Inv
  <2>9. NothingPassed'
    BY <1>2 DEF CursorInv, NothingPassed, Passed
  <2>10. ReadFromLog'
    <3> SUFFICES ASSUME NEW u \in Session
                 PROVE  /\ run'[u].cursor \in 0..latestCursor
                        /\ run'[u].next \in 0..latestCursor
                        /\ \A i \in run'[u].page :
                              i \in DOMAIN operations /\ operations[i].applied
                        /\ Passed(DeviceOf[u], run'[u].cursor, {})
                        /\ pc'[u] = "apply" =>
                              Passed(DeviceOf[u], run'[u].next, run'[u].page)
      BY <1>2 DEF ReadFromLog, Passed
    <3>1. CASE u = s
      <4>1. run'[u] = new /\ m \in 0..latestCursor
        BY <2>1, <2>4, <3>1 DEF CursorInv, SyncTypeOK
      <4> QED BY <2>3, <2>4, <2>7, <3>1, <4>1
    <3>2. CASE u # s
      <4>1. run'[u] = run[u] /\ pc'[u] = pc[u]
        BY <2>1, <3>2 DEF CursorInv, SyncTypeOK
      <4> QED BY <4>1 DEF CursorInv, ReadFromLog
    <3> QED BY <3>1, <3>2
  <2> QED BY <1>1, <2>8, <2>9, <2>10 DEF CursorInv
<1> QED BY <1>3, <1>4

(***************************************************************************)
(* What ApplyOperation does.                                               *)
(***************************************************************************)
LEMMA ApplyEffect ==
    ASSUME CursorInv, NEW s \in Session, ApplyOperation(s)
    PROVE  LET d == DeviceOf[s] IN
           /\ d \in Device
           /\ pc[s] = "apply"
           /\ \E i \in run[s].page :
                 LET op == operations[i].op IN
                 /\ i \in DOMAIN operations /\ operations[i].applied
                 /\ i \in Nat
                 /\ \A j \in run[s].page : i <= j
                 /\ op.entity \in Entity /\ op.payload \in Payload
                 /\ notes' = [notes EXCEPT ![d][op.entity] = op.payload]
                 /\ versions' = [versions EXCEPT ![d][op.entity] = @ + 1]
                 /\ got' = [got EXCEPT ![d] = got[d] \cup {i}]
                 /\ run' \in [Session -> Run]
                 /\ run'[s].cursor = run[s].cursor
                 /\ run'[s].batch = run[s].batch
                 /\ run'[s].conflicts = run[s].conflicts
                 /\ run'[s].page = run[s].page \ {i}
                 /\ run'[s].next = run[s].next
                 /\ run'[s].more = run[s].more
                 /\ \A u \in Session : u # s => run'[u] = run[u]
           /\ UNCHANGED <<pushVars, cursor, clock, outbox, conflicts, pc>>
<1> DEFINE d == DeviceOf[s]
<1>1. PICK i \in run[s].page :
         /\ \A j \in run[s].page : i <= j
         /\ notes' = [notes EXCEPT ![d][operations[i].op.entity] =
                                      operations[i].op.payload]
         /\ versions' = [versions EXCEPT ![d][operations[i].op.entity] = @ + 1]
         /\ got' = [got EXCEPT ![d] = got[d] \cup {i}]
         /\ run' = [run EXCEPT ![s] =
                       [run[s] EXCEPT !.page = run[s].page \ {i}]]
  BY DEF ApplyOperation
<1>2. d \in Device /\ run[s] \in Run /\ run[s].page \in SUBSET Nat
  BY RunFields DEF CursorInv
<1>3. i \in DOMAIN operations /\ operations[i].applied
  BY DEF CursorInv, ReadFromLog
<1>4. operations[i].op.entity \in Entity /\ operations[i].op.payload \in Payload
  BY <1>3, LoggedIsValid DEF CursorInv
<1> DEFINE new == [run[s] EXCEPT !.page = run[s].page \ {i}]
<1>5. /\ new \in Run
      /\ new.cursor = run[s].cursor
      /\ new.batch = run[s].batch
      /\ new.conflicts = run[s].conflicts
      /\ new.page = run[s].page \ {i}
      /\ new.next = run[s].next
      /\ new.more = run[s].more
  BY <1>2 DEF Run
<1> HIDE DEF new
<1>6. run' = [run EXCEPT ![s] = new] /\ run \in [Session -> Run]
  BY <1>1 DEF new, CursorInv, SyncTypeOK
<1>7. /\ run' \in [Session -> Run]
      /\ run'[s] = new
      /\ \A u \in Session : u # s => run'[u] = run[u]
  BY <1>5, <1>6
<1>8. /\ pc[s] = "apply"
      /\ UNCHANGED <<pushVars, cursor, clock, outbox, conflicts, pc>>
  BY DEF ApplyOperation
<1> QED BY <1>1, <1>2, <1>3, <1>4, <1>5, <1>7, <1>8

(***************************************************************************)
(* An operation of the page is written to the device's database.           *)
(***************************************************************************)
LEMMA CursorApply ==
    ASSUME CursorInv, NEW s \in Session, ApplyOperation(s)
    PROVE  CursorInv'
<1> DEFINE d == DeviceOf[s]
<1>1. PICK i \in run[s].page :
         LET op == operations[i].op IN
         /\ i \in DOMAIN operations /\ operations[i].applied
         /\ i \in Nat
         /\ op.entity \in Entity /\ op.payload \in Payload
         /\ notes' = [notes EXCEPT ![d][op.entity] = op.payload]
         /\ versions' = [versions EXCEPT ![d][op.entity] = @ + 1]
         /\ got' = [got EXCEPT ![d] = got[d] \cup {i}]
         /\ run' \in [Session -> Run]
         /\ run'[s].cursor = run[s].cursor
         /\ run'[s].page = run[s].page \ {i}
         /\ run'[s].next = run[s].next
         /\ \A u \in Session : u # s => run'[u] = run[u]
  BY ApplyEffect
<1>2. d \in Device /\ pc[s] = "apply"
      /\ UNCHANGED <<pushVars, cursor, clock, outbox, conflicts, pc>>
  BY ApplyEffect
<1>3. /\ got \in [Device -> SUBSET Nat]
      /\ notes \in [Device -> [Entity -> Payload]]
      /\ versions \in [Device -> [Entity -> Nat]]
  BY DEF CursorInv, SyncTypeOK, TypeOK
<1>4. got' \in [Device -> SUBSET Nat]
  BY <1>1, <1>3
<1>5. Inv'
  <2>1. TypeOK'
    BY <1>2, <1>4 DEF pushVars, CursorInv, Inv, TypeOK
  <2>2. Agreement' /\ Promises' /\ CursorsInLog'
    BY <1>2 DEF pushVars, CursorInv, Inv, Agreement, Promises, CursorsInLog
  <2> QED BY <2>1, <2>2 DEF Inv
<1>6. SyncTypeOK'
  <2>1. notes' \in [Device -> [Entity -> Payload]]
    BY <1>1, <1>3
  <2>2. versions' \in [Device -> [Entity -> Nat]]
    <3> DEFINE e == operations[i].op.entity
               n == versions[d][e] + 1
    <3>1. versions' = [versions EXCEPT ![d][e] = n] /\ e \in Entity
      BY <1>1
    <3>2. n \in Nat
      BY <1>2, <1>3, <3>1
    <3> HIDE DEF n, e
    <3> QED BY <1>2, <1>3, <3>1, <3>2
  <2> QED BY <1>1, <1>2, <1>5, <2>1, <2>2 DEF CursorInv, SyncTypeOK, Inv
<1>7. /\ \A f \in Device : \A k \in got[f] : k \in got'[f]
      /\ i \in got'[d]
  BY <1>1, <1>2, <1>3
<1>8. ASSUME NEW f \in Device, NEW c, NEW page, Passed(f, c, page)
      PROVE  \A k \in DOMAIN operations :
                operations[k].applied /\ k <= c => k \in got'[f] \cup page
  BY <1>7, <1>8 DEF Passed
<1>9. operations' = operations /\ latestCursor' = latestCursor
      /\ cursor' = cursor /\ pc' = pc
  BY <1>2 DEF pushVars
<1>10. NothingPassed'
  BY <1>8, <1>9 DEF CursorInv, NothingPassed, Passed
<1>11. ReadFromLog'
  <2> SUFFICES ASSUME NEW u \in Session
               PROVE  /\ run'[u].cursor \in 0..latestCursor
                      /\ run'[u].next \in 0..latestCursor
                      /\ \A k \in run'[u].page :
                            k \in DOMAIN operations /\ operations[k].applied
                      /\ Passed(DeviceOf[u], run[u].cursor, {})'
                      /\ pc[u] = "apply" =>
                            Passed(DeviceOf[u], run[u].next, run[u].page)'
    BY <1>9 DEF ReadFromLog, Passed
  <2>1. /\ run[u].cursor \in 0..latestCursor
        /\ run[u].next \in 0..latestCursor
        /\ \A k \in run[u].page : k \in DOMAIN operations /\ operations[k].applied
        /\ Passed(DeviceOf[u], run[u].cursor, {})
        /\ pc[u] = "apply" => Passed(DeviceOf[u], run[u].next, run[u].page)
    BY DEF CursorInv, ReadFromLog
  <2>2. DeviceOf[u] \in Device
    BY SessionAssumption
  <2>3. /\ run'[u].cursor = run[u].cursor
        /\ run'[u].next = run[u].next
        /\ \/ run'[u].page = run[u].page
           \/ run'[u].page = run[u].page \ {i} /\ i \in got'[DeviceOf[u]]
    BY <1>1, <1>7
  <2>4. Passed(DeviceOf[u], run[u].cursor, {})'
    BY <1>8, <1>9, <2>1, <2>2, <2>3 DEF Passed
  <2>5. ASSUME pc[u] = "apply"
        PROVE  Passed(DeviceOf[u], run[u].next, run[u].page)'
    <3>1. \A k \in DOMAIN operations :
             operations[k].applied /\ k <= run[u].next
               => k \in got'[DeviceOf[u]] \cup run[u].page
      BY <1>8, <2>1, <2>2, <2>5
    <3> QED BY <1>9, <2>3, <3>1 DEF Passed
  <2> QED BY <2>1, <2>3, <2>4, <2>5
<1> QED BY <1>5, <1>6, <1>10, <1>11 DEF CursorInv

(***************************************************************************)
(* The cursor is saved, at the end of the page.                            *)
(***************************************************************************)
LEMMA CursorSave ==
    ASSUME CursorInv, NEW s \in Session, SaveCursor(s)
    PROVE  CursorInv'
<1> DEFINE d == DeviceOf[s]
           next == run[s].next
<1>1. /\ pc[s] = "apply" /\ run[s].page = {}
      /\ cursor' = [cursor EXCEPT ![d] = next]
      /\ UNCHANGED <<pushVars, got, clock, outbox, versions, notes, conflicts>>
  BY DEF SaveCursor
<1>2. d \in Device /\ run[s] \in Run /\ next \in Nat
  BY RunFields DEF CursorInv
<1>3. next \in 0..latestCursor /\ Passed(d, next, {})
  BY <1>1 DEF CursorInv, ReadFromLog
<1>4. operations' = operations /\ latestCursor' = latestCursor
  BY <1>1 DEF pushVars
<1>5. Inv'
  <2>1. cursor' \in [Device -> Nat] /\ \A f \in Device : cursor'[f] \in 0..latestCursor
    BY <1>1, <1>2, <1>3 DEF CursorInv, Inv, TypeOK, CursorsInLog
  <2>2. TypeOK'
    BY <1>1, <2>1 DEF pushVars, CursorInv, Inv, TypeOK
  <2>3. Agreement' /\ Promises'
    BY <1>1 DEF pushVars, CursorInv, Inv, Agreement, Promises
  <2>4. CursorsInLog'
    BY <1>4, <2>1 DEF CursorsInLog
  <2> QED BY <2>2, <2>3, <2>4 DEF Inv
<1> DEFINE new == IF run[s].more THEN [run[s] EXCEPT !.cursor = next] ELSE IdleRun
           place == IF run[s].more THEN "pull" ELSE "idle"
<1>6. run' = [run EXCEPT ![s] = new] /\ pc' = [pc EXCEPT ![s] = place]
  BY DEF SaveCursor
<1>7. new \in Run
  BY <1>2, IdleRunIsRun DEF Run
<1>8. /\ new.cursor \in {0, next}
      /\ new.next \in {0, next}
      /\ new.page = {}
  BY <1>1, <1>2 DEF Run, IdleRun
<1>9. place \in {"idle", "pull"}
  OBVIOUS
<1> HIDE DEF new, place
<1>10. SyncTypeOK'
  BY <1>1, <1>5, <1>6, <1>7, <1>9 DEF CursorInv, SyncTypeOK, Inv
<1>11. NothingPassed'
  <2>1. \A f \in Device : Passed(f, cursor'[f], {})
    BY <1>1, <1>2, <1>3 DEF CursorInv, NothingPassed, Inv, TypeOK
  <2> QED BY <1>1, <1>4, <2>1 DEF NothingPassed, Passed
<1>12. ReadFromLog'
  <2> SUFFICES ASSUME NEW u \in Session
               PROVE  /\ run'[u].cursor \in 0..latestCursor
                      /\ run'[u].next \in 0..latestCursor
                      /\ \A i \in run'[u].page :
                            i \in DOMAIN operations /\ operations[i].applied
                      /\ Passed(DeviceOf[u], run'[u].cursor, {})
                      /\ pc'[u] = "apply" =>
                            Passed(DeviceOf[u], run'[u].next, run'[u].page)
    BY <1>1, <1>4 DEF ReadFromLog, Passed
  <2>1. CASE u = s
    <3>1. run'[u] = new /\ pc'[u] # "apply"
      BY <1>6, <1>9, <2>1 DEF CursorInv, SyncTypeOK
    <3>2. latestCursor \in Nat /\ \A i \in DOMAIN operations : i \in Nat \ {0}
      BY LenProperties DEF CursorInv, Inv, TypeOK
    <3>3. Passed(d, 0, {}) /\ 0 \in 0..latestCursor
      BY <3>2 DEF Passed
    <3> QED BY <1>3, <1>8, <2>1, <3>1, <3>3
  <2>2. CASE u # s
    <3>1. run'[u] = run[u] /\ pc'[u] = pc[u]
      BY <1>6, <2>2 DEF CursorInv, SyncTypeOK
    <3> QED BY <3>1 DEF CursorInv, ReadFromLog
  <2> QED BY <2>1, <2>2
<1> QED BY <1>5, <1>10, <1>11, <1>12 DEF CursorInv

(***************************************************************************)
(* The server works on a push, or ends one whose client has gone.          *)
(***************************************************************************)
LEMMA CursorServer ==
    ASSUME CursorInv, ServerStep
    PROVE  CursorInv'
<1>1. UNCHANGED <<clock, clientVars>>
  BY DEF ServerStep, AnswerNobody
<1>2. Inv'
  BY InvLock, InvDuplicate, InvAccept, InvReply
     DEF CursorInv, ServerStep, AnswerNobody
<1>3. SyncTypeOK'
  BY <1>1, <1>2 DEF clientVars, CursorInv, SyncTypeOK, Inv
<1>4. CASE AcceptOperation
  BY <1>1, <1>2, <1>3, <1>4, StoredIsPast DEF clientVars, CursorInv
<1>5. CASE UNCHANGED <<operations, latestCursor, cursor, got>>
  <2>1. \A u \in Session : Reads(u)
    BY <1>1 DEF clientVars, Reads
  <2> QED BY <1>2, <1>3, <1>5, <2>1, NothingRead DEF CursorInv
<1> QED BY <1>4, <1>5
       DEF ServerStep, LockPush, AcceptDuplicate, AnswerNobody, ReplyPush

(***************************************************************************)
(* Every step, and every stutter, keeps CursorInv.                         *)
(***************************************************************************)
LEMMA CursorNext == CursorInv /\ [SyncNext]_syncVars => CursorInv'
<1> SUFFICES ASSUME CursorInv, [SyncNext]_syncVars PROVE CursorInv'
  OBVIOUS
<1>1. CASE UNCHANGED syncVars
  <2>1. UNCHANGED <<vars, clock, clientVars>>
    BY <1>1 DEF syncVars
  <2>2. Inv'
    BY <2>1, InvStutter DEF CursorInv
  <2>3. SyncTypeOK'
    BY <2>1, <2>2 DEF clientVars, CursorInv, SyncTypeOK, Inv
  <2>4. ReadFromLog' /\ NothingPassed'
    BY <2>1 DEF vars, pushVars, clientVars, CursorInv, ReadFromLog,
                NothingPassed, Passed
  <2> QED BY <2>2, <2>3, <2>4 DEF CursorInv
<1>2. CASE SyncNext
  BY <1>2, CursorTick, CursorEdit, CursorStart, CursorSend, CursorAck,
     CursorConflict, CursorPull, CursorApply, CursorSave, CursorAnswer,
     CursorFails, CursorCrash, CursorServer DEF SyncNext, SessionStep
<1> QED BY <1>1, <1>2

(***************************************************************************)
(* CursorInv holds always.                                                 *)
(***************************************************************************)
THEOREM CursorInvariance == SyncSpec => []CursorInv
<1> QED BY CursorInit, CursorNext, PTL DEF SyncSpec

(***************************************************************************)
(* Server and devices are always well typed (SyncTypeOK).                  *)
(***************************************************************************)
THEOREM SyncTypeCorrect == SyncSpec => []SyncTypeOK
<1>1. CursorInv => SyncTypeOK
  BY DEF CursorInv
<1> QED BY <1>1, CursorInvariance, PTL

(***************************************************************************)
(* Whatever is lost, whoever crashes and however many sessions a device    *)
(* runs at once, its cursor never passes an applied operation that it has  *)
(* not written to its database (NothingSkipped): the cursor is saved after *)
(* the page before it was applied (client.go, RunSyncOnce).                *)
(***************************************************************************)
THEOREM SyncSkipsNothing == SyncSpec => []NothingSkipped
<1>1. CursorInv => NothingSkipped
  BY DEF CursorInv, NothingPassed, Passed, NothingSkipped
<1> QED BY <1>1, CursorInvariance, PTL

-----------------------------------------------------------------------------
(***************************************************************************)
(* TalkInv: no answer reaches a session that does not wait for it.         *)
(***************************************************************************)

(***************************************************************************)
(* A step that concerns no connection.                                     *)
(***************************************************************************)
LEMMA NothingSaid ==
    ASSUME TalkInv, UNCHANGED <<handlers, job>>,
           \A u \in Session : pc[u] = "push" =>
               pc'[u] = "push" /\ run'[u].batch = run[u].batch
    PROVE  Requested' /\ WorkedOn'
<1>1. Requested'
  BY DEF TalkInv, Requested, Waiting
<1>2. WorkedOn'
  BY DEF TalkInv, WorkedOn, Waiting
<1> QED BY <1>1, <1>2

(***************************************************************************)
(* Rows that stay acknowledged or become pending, and sessions that go on  *)
(* recording the same rows, or fewer.                                      *)
(***************************************************************************)
LEMMA AnswersKept ==
    ASSUME TalkInv, \A p \in acked : p \in acked',
           \A s \in Session : pc'[s] = "record" =>
               /\ pc[s] = "record"
               /\ ToSet(run'[s].batch) \subseteq ToSet(run[s].batch),
           \A d \in Device : \A row \in Rows(d)' :
               row.acked => \E r \in Rows(d) : r.acked /\ r.op_id = row.op_id
    PROVE  Answered'
<1>1. ASSUME NEW s \in Session, pc'[s] = "record",
             NEW row \in ToSet(run'[s].batch)
      PROVE  <<DeviceOf[s], row.op_id>> \in acked'
  BY <1>1 DEF TalkInv, Answered
<1>2. ASSUME NEW d \in Device, NEW row \in Rows(d)', row.acked
      PROVE  <<d, row.op_id>> \in acked'
  BY <1>2 DEF TalkInv, Answered
<1> QED BY <1>1, <1>2 DEF Answered

(***************************************************************************)
(* A note is edited: its row is pending.                                   *)
(***************************************************************************)
LEMMA TalkEdit ==
    ASSUME CursorInv, TalkInv, NEW d \in Device, NEW e \in Entity,
           NEW v \in Payload, NEW id \in OpIds, Edit(d, e, v, id)
    PROVE  TalkInv'
<1>1. UNCHANGED <<handlers, job, acked, pc, run>>
  BY DEF Edit, vars, pushVars
<1>2. Requested' /\ WorkedOn'
  BY <1>1, NothingSaid
<1>3. ASSUME NEW f \in Device, NEW row \in Rows(f)', row.acked
      PROVE  row \in Rows(f)
  <2>1. /\ f # d => Rows(f)' = Rows(f)
        /\ \/ Rows(d)' = Rows(d)
           \/ Rows(d)' = Rows(d) \cup {NewRow(d, e, v, id)}
    BY EditEffect DEF CursorInv
  <2>2. ~NewRow(d, e, v, id).acked
    BY DEF NewRow
  <2> QED BY <1>3, <2>1, <2>2
<1>4. Answered'
  BY <1>1, <1>3, AnswersKept
<1> QED BY <1>2, <1>4 DEF TalkInv

(***************************************************************************)
(* A batch is sent, over a connection that is not in use.                  *)
(***************************************************************************)
LEMMA TalkSend ==
    ASSUME CursorInv, TalkInv, NEW s \in Session, SendPush(s)
    PROVE  TalkInv'
<1> DEFINE new == [device |-> DeviceOf[s], conn |-> s,
                   ops |-> BuildPushOperations(run[s].batch)]
<1>1. /\ pc[s] = "send"
      /\ handlers' = handlers \cup {new}
      /\ pc' = [pc EXCEPT ![s] = "push"]
      /\ UNCHANGED <<job, acked, outbox, run>>
  BY DEF SendPush, HandlePush
<1>2. /\ pc'[s] = "push"
      /\ \A u \in Session : u # s => pc'[u] = pc[u]
  BY <1>1 DEF CursorInv, SyncTypeOK
<1>3. \A h \in handlers : h.conn # s
  BY <1>1, RunFields DEF TalkInv, Requested, Waiting, CursorInv
<1>4. job.conn # s
  BY <1>1, RunFields DEF CursorInv, TalkInv, WorkedOn, Waiting
<1>5. Requested'
  <2>1. ASSUME NEW h \in handlers, h.conn # 0
        PROVE  /\ Waiting(h.conn, h.device)'
               /\ h.ops = BuildPushOperations(run[h.conn].batch)
               /\ h.conn # job.conn
               /\ \A g \in handlers' : g.conn = h.conn => g = h
    BY <1>1, <1>2, <1>3, <2>1 DEF TalkInv, Requested, Waiting
  <2>2. /\ Waiting(s, DeviceOf[s])'
        /\ new.ops = BuildPushOperations(run[s].batch)
        /\ new.conn = s /\ new.device = DeviceOf[s]
    BY <1>2 DEF Waiting
  <2>3. \A g \in handlers' : g.conn = s => g = new
    BY <1>1, <1>3
  <2> HIDE DEF new
  <2> SUFFICES ASSUME NEW h \in handlers', h.conn # 0
               PROVE  /\ Waiting(h.conn, h.device)'
                      /\ h.ops = BuildPushOperations(run'[h.conn].batch)
                      /\ h.conn # job'.conn
                      /\ \A g \in handlers' : g.conn = h.conn => g = h
    BY DEF Requested
  <2>4. run' = run /\ job' = job
    BY <1>1
  <2>5. CASE h \in handlers
    BY <2>1, <2>4, <2>5 DEF Waiting
  <2>6. CASE h = new
    BY <1>4, <2>2, <2>3, <2>4, <2>6
  <2> QED BY <1>1, <2>5, <2>6
<1>6. WorkedOn'
  <2>1. job.conn # 0 => Waiting(job.conn, job.device)'
    BY <1>1, <1>2, <1>4 DEF TalkInv, WorkedOn, Waiting
  <2> QED BY <1>1, <2>1 DEF TalkInv, WorkedOn
<1>7. Answered'
  BY <1>1, <1>2 DEF TalkInv, Answered, Rows
<1> QED BY <1>5, <1>6, <1>7 DEF TalkInv

(***************************************************************************)
(* The server begins to work on a push.                                    *)
(***************************************************************************)
LEMMA LockEffect ==
    ASSUME Inv, NEW h \in handlers, LockPush(h)
    PROVE  /\ h \in Handler
           /\ mu' = TRUE /\ job = IdleJob
           /\ handlers' = handlers \ {h}
           /\ job'.device = h.device
           /\ job'.conn = h.conn
           /\ job'.ops = h.ops
           /\ job'.accepted = {}
           /\ job'.conflicts = {}
           /\ UNCHANGED <<devices, operations, latestCursor, idempotencyIndex,
                          entities, acked, told, cursor, got>>
<1>1. h \in Handler
  BY DEF Inv, TypeOK
<1>2. /\ job'.device = h.device
      /\ job'.conn = h.conn
      /\ job'.ops = h.ops
      /\ job'.accepted = {}
      /\ job'.conflicts = {}
  BY DEF LockPush, IdleJob
<1>3. job = IdleJob
  BY DEF LockPush, Inv, Promises
<1> QED BY <1>1, <1>2, <1>3 DEF LockPush

\* The handler takes over a push just as it was sent.
LEMMA TalkLock ==
    ASSUME CursorInv, TalkInv, NEW h \in handlers, LockPush(h),
           UNCHANGED <<clock, clientVars>>
    PROVE  TalkInv'
<1>1. /\ h \in Handler
      /\ job = IdleJob
      /\ handlers' = handlers \ {h}
      /\ job'.device = h.device
      /\ job'.conn = h.conn
      /\ job'.ops = h.ops
      /\ job'.accepted = {}
      /\ acked' = acked
  BY LockEffect DEF CursorInv
<1>2. UNCHANGED <<outbox, pc, run>>
  BY DEF clientVars
<1>3. Requested'
  <2> SUFFICES ASSUME NEW g \in handlers, g # h, g.conn # 0
               PROVE  /\ Waiting(g.conn, g.device)'
                      /\ g.ops = BuildPushOperations(run[g.conn].batch)
                      /\ g.conn # h.conn
                      /\ \A k \in handlers' : k.conn = g.conn => k = g
    BY <1>1, <1>2 DEF Requested
  <2> QED BY <1>1, <1>2 DEF TalkInv, Requested, Waiting
<1>4. WorkedOn'
  <2> SUFFICES ASSUME h.conn # 0
               PROVE  /\ Waiting(h.conn, h.device)'
                      /\ \A row \in ToSet(run[h.conn].batch) :
                            PushOperation(row) \in ToSet(h.ops)
    BY <1>1, <1>2 DEF WorkedOn
  <2>1. /\ Waiting(h.conn, h.device)
        /\ h.ops = BuildPushOperations(run[h.conn].batch)
    BY DEF TalkInv, Requested
  <2>2. run[h.conn].batch \in Seq(Row)
    BY <2>1, RunFields DEF Waiting, CursorInv
  <2>3. ToSet(h.ops) = {PushOperation(row) : row \in ToSet(run[h.conn].batch)}
    BY <2>1, <2>2, PushIsOperations
  <2> QED BY <1>2, <2>1, <2>3 DEF Waiting
<1>5. Answered'
  BY <1>1, <1>2 DEF TalkInv, Answered, Rows
<1> QED BY <1>3, <1>4, <1>5 DEF TalkInv

(***************************************************************************)
(* The server accepts an operation, new or not.                            *)
(***************************************************************************)
LEMMA WorkEffect ==
    ASSUME Inv, AcceptDuplicate \/ AcceptOperation
    PROVE  /\ mu' = mu /\ mu
           /\ Head(job.ops) \in Operation
           /\ ToSet(job.ops) = {Head(job.ops)} \cup ToSet(job.ops)'
           /\ job'.device = job.device
           /\ job.device \in Device
           /\ job'.conn = job.conn
           /\ job'.accepted = job.accepted \cup {Head(job.ops)}
           /\ UNCHANGED <<devices, handlers, acked, told, cursor, got>>
<1>1. mu /\ job.ops # <<>> /\ mu' = mu
      /\ UNCHANGED <<devices, handlers, acked, told, cursor, got>>
  BY DEF AcceptDuplicate, AcceptOperation
<1>2. job \in Job /\ job.ops \in Seq(Operation) /\ job.device \in Device
  BY <1>1 DEF Inv, TypeOK, Job
<1>3. /\ Head(job.ops) \in Operation
      /\ ToSet(job.ops) = {Head(job.ops)} \cup ToSet(Tail(job.ops))
  BY <1>1, <1>2, HeadAndRest
<1>4. /\ job'.device = job.device
      /\ job'.conn = job.conn
      /\ job'.ops = Tail(job.ops)
      /\ job'.accepted = job.accepted \cup {Head(job.ops)}
  <2>1. CASE AcceptDuplicate
    BY <1>2, <2>1 DEF AcceptDuplicate, Job
  <2>2. CASE AcceptOperation
    BY <2>2, AcceptEffect DEF Inv
  <2> QED BY <2>1, <2>2
<1> QED BY <1>1, <1>2, <1>3, <1>4

\* What the handler has done of a push, together with what is left, is still
\* what was sent.
LEMMA TalkWork ==
    ASSUME CursorInv, TalkInv, AcceptDuplicate \/ AcceptOperation,
           UNCHANGED <<clock, clientVars>>
    PROVE  TalkInv'
<1>1. /\ ToSet(job.ops) = {Head(job.ops)} \cup ToSet(job.ops)'
      /\ job'.device = job.device
      /\ job'.conn = job.conn
      /\ job'.accepted = job.accepted \cup {Head(job.ops)}
      /\ UNCHANGED <<handlers, acked>>
  BY WorkEffect DEF CursorInv
<1>2. UNCHANGED <<outbox, pc, run>>
  BY DEF clientVars
<1>3. Requested'
  BY <1>1, <1>2 DEF TalkInv, Requested, Waiting
<1>4. WorkedOn'
  BY <1>1, <1>2 DEF TalkInv, WorkedOn, Waiting
<1>5. Answered'
  BY <1>1, <1>2 DEF TalkInv, Answered, Rows
<1> QED BY <1>3, <1>4, <1>5 DEF TalkInv

(***************************************************************************)
(* The server answers: every row of the batch is acknowledged by then.     *)
(***************************************************************************)
LEMMA TalkAnswer ==
    ASSUME CursorInv, TalkInv, NEW s \in Session, AnswerPush(s)
    PROVE  TalkInv'
<1> DEFINE new == [run[s] EXCEPT !.conflicts = job.conflicts]
<1>1. /\ job.conn = s /\ job.ops = <<>>
      /\ job' = IdleJob
      /\ acked' = acked \cup
            {<<job.device, op.idempotency_key>> : op \in job.accepted}
      /\ UNCHANGED <<handlers, outbox>>
      /\ pc' = [pc EXCEPT ![s] = "record"]
      /\ run' = [run EXCEPT ![s] = new]
  BY DEF AnswerPush, ReplyPush
<1>2. s # 0 /\ run[s] \in Run
  BY RunFields DEF CursorInv
<1>3. new.batch = run[s].batch
  BY <1>2 DEF Run
<1> HIDE DEF new
<1>4. /\ pc'[s] = "record"
      /\ run'[s].batch = run[s].batch
      /\ \A u \in Session : u # s => pc'[u] = pc[u] /\ run'[u] = run[u]
  BY <1>1, <1>3 DEF CursorInv, SyncTypeOK
<1>5. job'.conn = 0
  BY <1>1 DEF IdleJob
<1>6. Requested'
  <2> SUFFICES ASSUME NEW h \in handlers, h.conn # 0
               PROVE  /\ Waiting(h.conn, h.device)'
                      /\ h.ops = BuildPushOperations(run'[h.conn].batch)
                      /\ \A g \in handlers : g.conn = h.conn => g = h
    BY <1>1, <1>5 DEF Requested
  <2>1. h.conn # s
    BY <1>1 DEF TalkInv, Requested
  <2> QED BY <1>4, <2>1 DEF TalkInv, Requested, Waiting
<1>7. WorkedOn'
  BY <1>5 DEF WorkedOn
<1>8. Answered'
  <2>1. \A row \in ToSet(run[s].batch) : <<DeviceOf[s], row.op_id>> \in acked'
    <3> SUFFICES ASSUME NEW row \in ToSet(run[s].batch)
                 PROVE  <<DeviceOf[s], row.op_id>> \in acked'
      OBVIOUS
    <3>1. job.device = DeviceOf[s]
          /\ PushOperation(row) \in job.accepted \cup ToSet(job.ops)
      BY <1>1, <1>2 DEF TalkInv, WorkedOn, Waiting
    <3>2. ToSet(job.ops) = {}
      BY <1>1 DEF ToSet
    <3>3. PushOperation(row).idempotency_key = row.op_id
      BY DEF PushOperation
    <3> QED BY <1>1, <3>1, <3>2, <3>3
  <2>2. ASSUME NEW u \in Session, pc'[u] = "record",
               NEW row \in ToSet(run'[u].batch)
        PROVE  <<DeviceOf[u], row.op_id>> \in acked'
    BY <1>1, <1>4, <2>1, <2>2 DEF TalkInv, Answered
  <2>3. \A d \in Device : Rows(d)' = Rows(d)
    BY <1>1 DEF Rows
  <2> QED BY <1>1, <2>2, <2>3 DEF TalkInv, Answered
<1> QED BY <1>6, <1>7, <1>8 DEF TalkInv

(***************************************************************************)
(* The server ends a push whose client has gone.                           *)
(***************************************************************************)
LEMMA TalkNobody ==
    ASSUME CursorInv, TalkInv, AnswerNobody
    PROVE  TalkInv'
<1>1. /\ job' = IdleJob
      /\ \A p \in acked : p \in acked'
      /\ UNCHANGED <<handlers, outbox, pc, run>>
  BY DEF AnswerNobody, ReplyPush, clientVars
<1>2. job'.conn = 0
  BY <1>1 DEF IdleJob
<1>3. Requested' /\ WorkedOn'
  BY <1>1, <1>2 DEF TalkInv, Requested, WorkedOn, Waiting
<1>4. Answered'
  BY <1>1, AnswersKept DEF Rows
<1> QED BY <1>3, <1>4 DEF TalkInv

(***************************************************************************)
(* A client goes: nobody waits on its connection any more.                 *)
(***************************************************************************)
LEMMA TalkGone ==
    ASSUME CursorInv, TalkInv, NEW s \in Session, Disconnect(s),
           run' = [run EXCEPT ![s] = IdleRun],
           pc' = [pc EXCEPT ![s] = "idle"],
           \A d \in Device : \A row \in Rows(d)' :
               row.acked => \E r \in Rows(d) : r.acked /\ r.op_id = row.op_id
    PROVE  TalkInv'
<1>1. /\ handlers' = {IF h.conn = s THEN [h EXCEPT !.conn = 0] ELSE h :
                        h \in handlers}
      /\ job' = IF job.conn = s THEN [job EXCEPT !.conn = 0] ELSE job
      /\ acked' = acked
  BY DEF Disconnect
<1>2. /\ pc'[s] = "idle"
      /\ \A u \in Session : u # s => pc'[u] = pc[u] /\ run'[u] = run[u]
  BY DEF CursorInv, SyncTypeOK
<1>3. ASSUME NEW h \in handlers', h.conn # 0
      PROVE  h \in handlers /\ h.conn # s
  <2>1. PICK g \in handlers :
           h = IF g.conn = s THEN [g EXCEPT !.conn = 0] ELSE g
    BY <1>1
  <2>2. g \in Handler
    BY DEF CursorInv, Inv, TypeOK
  <2>3. CASE g.conn = s
    <3>1. h.conn = 0
      BY <2>1, <2>2, <2>3 DEF Handler
    <3> QED BY <1>3, <3>1
  <2>4. CASE g.conn # s
    BY <2>1, <2>4
  <2> QED BY <2>3, <2>4
<1>4. job'.conn # 0 => job' = job /\ job.conn # s
  <2>1. job \in Job
    BY DEF CursorInv, Inv, TypeOK
  <2> QED BY <1>1, <2>1 DEF Job
<1>5. ASSUME NEW u, NEW d, Waiting(u, d), u # s
      PROVE  Waiting(u, d)' /\ run'[u] = run[u]
  BY <1>2, <1>5 DEF Waiting
<1>6. Requested'
  <2> SUFFICES ASSUME NEW h \in handlers', h.conn # 0
               PROVE  /\ Waiting(h.conn, h.device)'
                      /\ h.ops = BuildPushOperations(run'[h.conn].batch)
                      /\ h.conn # job'.conn
                      /\ \A g \in handlers' : g.conn = h.conn => g = h
    BY DEF Requested
  <2>1. h \in handlers /\ h.conn # s
    BY <1>3
  <2>2. /\ Waiting(h.conn, h.device)
        /\ h.ops = BuildPushOperations(run[h.conn].batch)
        /\ h.conn # job.conn
        /\ \A g \in handlers : g.conn = h.conn => g = h
    BY <2>1 DEF TalkInv, Requested
  <2> QED BY <1>3, <1>4, <1>5, <2>1, <2>2
<1>7. WorkedOn'
  <2> SUFFICES ASSUME job'.conn # 0
               PROVE  /\ Waiting(job.conn, job.device)'
                      /\ \A row \in ToSet(run'[job.conn].batch) :
                            PushOperation(row) \in
                               job.accepted \cup ToSet(job.ops)
    BY <1>4 DEF WorkedOn, Waiting
  <2> QED BY <1>4, <1>5 DEF TalkInv, WorkedOn
<1>8. Answered'
  BY <1>1, <1>2, AnswersKept
<1> QED BY <1>6, <1>7, <1>8 DEF TalkInv

(***************************************************************************)
(* A push fails: its rows are pending again.                               *)
(***************************************************************************)
LEMMA TalkFails ==
    ASSUME CursorInv, TalkInv, NEW s \in Session, PushFails(s) \/ Crash(s)
    PROVE  TalkInv'
<1>1. DeviceOf[s] \in Device /\ clock \in Nat
  BY RunFields, LimitsAssumption DEF CursorInv, SyncTypeOK
<1>2. /\ Disconnect(s)
      /\ run' = [run EXCEPT ![s] = IdleRun]
      /\ pc' = [pc EXCEPT ![s] = "idle"]
  BY DEF PushFails, Crash
<1>3. ASSUME NEW d \in Device, NEW row \in Rows(d)', row.acked
      PROVE  \E r \in Rows(d) : r.acked /\ r.op_id = row.op_id
  <2>1. CASE Rows(d)' = Rows(d)
    BY <1>3, <2>1
  <2>2. CASE Rows(d)' # Rows(d)
    <3> DEFINE ids == {r.op_id : r \in ToSet(run[s].batch)}
    <3>1. MarkRows(DeviceOf[s], ids, FALSE) \/ outbox' = outbox
      BY DEF PushFails, Crash
    <3>2. outbox' # outbox
      BY <2>2 DEF Rows
    <3>3. outbox \in [Device -> Seq(Row)]
      BY DEF CursorInv, SyncTypeOK
    <3> HIDE DEF ids
    <3>4. /\ Rows(DeviceOf[s])' =
               {Marked(r, ids, FALSE) : r \in Rows(DeviceOf[s])}
          /\ d # DeviceOf[s] => Rows(d)' = Rows(d)
      BY <1>1, <3>1, <3>2, <3>3, MarkEffect
    <3>5. d = DeviceOf[s]
      BY <2>2, <3>4
    <3>6. PICK r \in Rows(d) : row = Marked(r, ids, FALSE)
      BY <3>4, <3>5
    <3>7. r \in Row
      BY <3>3, LenProperties, ElementOfSeq DEF Rows, ToSet
    <3>8. row = r
      BY <1>3, <3>6, <3>7 DEF Marked, Row
    <3> QED BY <1>3, <3>8
  <2> QED BY <2>1, <2>2
<1> QED BY <1>2, <1>3, TalkGone

(***************************************************************************)
(* A session records that its next row is acknowledged.                    *)
(***************************************************************************)
LEMMA RowsAreRows ==
    ASSUME SyncTypeOK, NEW d \in Device
    PROVE  \A row \in Rows(d) : row \in Row
BY LenProperties, ElementOfSeq DEF SyncTypeOK, Rows, ToSet

\* What recording an acknowledgement leaves: the head of the batch is marked
\* acknowledged, and nothing of the other devices.
LEMMA AckEffect ==
    ASSUME CursorInv, NEW s \in Session, RecordAck(s)
    PROVE  LET d == DeviceOf[s]
               head == Head(run[s].batch)
           IN
           /\ d \in Device
           /\ pc[s] = "record"
           /\ head \in ToSet(run[s].batch) /\ head \in Row
           /\ Rows(d)' = {Marked(row, {head.op_id}, TRUE) : row \in Rows(d)}
           /\ \A f \in Device : f # d => Rows(f)' = Rows(f)
           /\ ToSet(run[s].batch)' \subseteq ToSet(run[s].batch)
           /\ run'[s].cursor = run[s].cursor
           /\ run'[s].conflicts = run[s].conflicts
           /\ pc'[s] \in {"pull", "record"}
           /\ pc'[s] = "pull" => run[s].conflicts = {}
           /\ \A u \in Session : u # s => run'[u] = run[u] /\ pc'[u] = pc[u]
           /\ UNCHANGED <<vars, clock, versions, notes, conflicts>>
<1> DEFINE d == DeviceOf[s]
           batch == run[s].batch
           new == [run[s] EXCEPT !.batch = Tail(batch)]
           next == Recorded(Tail(batch), run[s].conflicts)
<1>1. d \in Device /\ run[s] \in Run /\ batch \in Seq(Row)
  BY RunFields DEF CursorInv
<1>2. /\ pc[s] = "record" /\ batch # <<>>
      /\ MarkRows(d, {Head(batch).op_id}, TRUE)
      /\ run' = [run EXCEPT ![s] = new]
      /\ pc' = [pc EXCEPT ![s] = next]
      /\ UNCHANGED <<vars, clock, versions, notes, conflicts>>
  BY DEF RecordAck
<1>3. /\ Head(batch) \in Row
      /\ Tail(batch) \in Seq(Row)
      /\ ToSet(batch) = {Head(batch)} \cup ToSet(Tail(batch))
  BY <1>1, <1>2, HeadAndRest
<1>4. /\ new.batch = Tail(batch)
      /\ new.cursor = run[s].cursor
      /\ new.conflicts = run[s].conflicts
  BY <1>1 DEF Run
<1>5. next \in {"pull", "record"} /\ (next = "pull" => run[s].conflicts = {})
  BY DEF Recorded
<1> HIDE DEF new, next
<1>6. /\ run'[s] = new /\ pc'[s] = next
      /\ \A u \in Session : u # s => run'[u] = run[u] /\ pc'[u] = pc[u]
  BY <1>2 DEF CursorInv, SyncTypeOK
<1>7. clock \in Nat /\ outbox \in [Device -> Seq(Row)]
  BY LimitsAssumption DEF CursorInv, SyncTypeOK
<1>8. /\ Rows(d)' = {Marked(row, {Head(batch).op_id}, TRUE) : row \in Rows(d)}
      /\ \A f \in Device : f # d => Rows(f)' = Rows(f)
  BY <1>1, <1>2, <1>7, MarkEffect
<1>9. ToSet(run[s].batch)' \subseteq ToSet(batch)
  BY <1>3, <1>4, <1>6
<1> QED BY <1>1, <1>2, <1>3, <1>4, <1>5, <1>6, <1>8, <1>9

\* A row is marked acknowledged only for an operation in the log.
LEMMA TalkAck ==
    ASSUME CursorInv, TalkInv, NEW s \in Session, RecordAck(s)
    PROVE  TalkInv'
<1> DEFINE d == DeviceOf[s]
           head == Head(run[s].batch)
<1>1. /\ d \in Device
      /\ pc[s] = "record"
      /\ head \in ToSet(run[s].batch)
      /\ Rows(d)' = {Marked(row, {head.op_id}, TRUE) : row \in Rows(d)}
      /\ \A f \in Device : f # d => Rows(f)' = Rows(f)
      /\ ToSet(run[s].batch)' \subseteq ToSet(run[s].batch)
      /\ \A u \in Session : u # s => run'[u] = run[u] /\ pc'[u] = pc[u]
      /\ UNCHANGED vars
  BY AckEffect
<1>2. UNCHANGED <<handlers, job, acked>>
  BY <1>1 DEF vars, pushVars
<1>3. Requested' /\ WorkedOn'
  BY <1>1, <1>2, NothingSaid
<1>4. <<d, head.op_id>> \in acked
  BY <1>1 DEF TalkInv, Answered
<1>5. ASSUME NEW u \in Session, pc'[u] = "record",
             NEW row \in ToSet(run'[u].batch)
      PROVE  <<DeviceOf[u], row.op_id>> \in acked
  <2>1. pc[u] = "record" /\ row \in ToSet(run[u].batch)
    BY <1>1, <1>5
  <2> QED BY <2>1 DEF TalkInv, Answered
<1>6. ASSUME NEW f \in Device, NEW row \in Rows(f)', row.acked
      PROVE  <<f, row.op_id>> \in acked
  <2>1. CASE f # d
    BY <1>1, <1>6, <2>1 DEF TalkInv, Answered
  <2>2. CASE f = d
    <3> HIDE DEF head, d
    <3>1. PICK r \in Rows(d) : row = Marked(r, {head.op_id}, TRUE)
      BY <1>1, <2>2
    <3>2. r \in Row
      BY <1>1, RowsAreRows DEF CursorInv
    <3>3. CASE r.op_id = head.op_id
      <4>1. row.op_id = head.op_id
        BY <3>1, <3>2, <3>3 DEF Marked, Row
      <4> QED BY <1>4, <2>2, <4>1
    <3>4. CASE r.op_id # head.op_id
      <4>1. row = r
        BY <3>1, <3>4 DEF Marked
      <4> QED BY <1>1, <1>6, <2>2, <4>1 DEF TalkInv, Answered
    <3> QED BY <3>3, <3>4
  <2> QED BY <2>1, <2>2
<1> QED BY <1>2, <1>3, <1>5, <1>6 DEF TalkInv, Answered

(***************************************************************************)
(* Every other step of a session leaves conversations alone.               *)
(***************************************************************************)
LEMMA TalkQuiet ==
    ASSUME CursorInv, TalkInv, NEW s \in Session,
           \/ StartSync(s) \/ RecordConflict(s) \/ Pull(s)
           \/ ApplyOperation(s) \/ SaveCursor(s)
    PROVE  TalkInv'
<1>1. UNCHANGED <<handlers, job, acked, outbox>>
  BY DEF StartSync, RecordConflict, Pull, ApplyOperation, SaveCursor,
         vars, pushVars
<1>2. pc[s] # "push"
  BY DEF StartSync, RecordConflict, Pull, ApplyOperation, SaveCursor
<1>3. \A u \in Session : u # s => pc'[u] = pc[u] /\ run'[u] = run[u]
  BY DEF StartSync, RecordConflict, Pull, ApplyOperation, SaveCursor,
         CursorInv, SyncTypeOK
<1>4. Requested' /\ WorkedOn'
  BY <1>1, <1>2, <1>3, NothingSaid
<1>5. pc'[s] = "record" =>
         pc[s] = "record" /\ ToSet(run'[s].batch) \subseteq ToSet(run[s].batch)
  <2>1. CASE RecordConflict(s)
    <3>1. pc[s] = "record" /\ run[s] \in Run
      BY <2>1, RunFields DEF RecordConflict, CursorInv
    <3>2. run'[s].batch = run[s].batch
      BY <2>1, <3>1 DEF RecordConflict, CursorInv, SyncTypeOK, Run
    <3> QED BY <3>1, <3>2
  <2>2. CASE ~RecordConflict(s)
    BY <2>2 DEF StartSync, Pull, ApplyOperation, SaveCursor,
                CursorInv, SyncTypeOK
  <2> QED BY <2>1, <2>2
<1>6. Answered'
  BY <1>1, <1>3, <1>5, AnswersKept DEF Rows
<1> QED BY <1>4, <1>6 DEF TalkInv

(***************************************************************************)
(* TalkInv holds always.                                                   *)
(***************************************************************************)
LEMMA TalkInit == SyncInit => TalkInv
<1> SUFFICES ASSUME SyncInit PROVE TalkInv
  OBVIOUS
<1>1. /\ handlers = {} /\ job.conn = 0
      /\ \A d \in Device : outbox[d] = <<>>
      /\ \A s \in Session : pc[s] = "idle"
  BY DEF SyncInit, Init, IdleJob
<1>2. \A d \in Device : Rows(d) = {}
  BY <1>1 DEF Rows, ToSet
<1> QED BY <1>1, <1>2 DEF TalkInv, Requested, WorkedOn, Answered

\* TalkInv is inductive: one case per action.
LEMMA TalkNext ==
    CursorInv /\ TalkInv /\ [SyncNext]_syncVars => TalkInv'
<1> SUFFICES ASSUME CursorInv, TalkInv, [SyncNext]_syncVars PROVE TalkInv'
  OBVIOUS
<1>1. CASE UNCHANGED syncVars \/ Tick
  <2>1. UNCHANGED <<handlers, job, acked, outbox, pc, run>>
    BY <1>1 DEF syncVars, Tick, vars, pushVars, clientVars
  <2>2. Requested' /\ WorkedOn'
    BY <2>1, NothingSaid
  <2>3. Answered'
    BY <2>1, AnswersKept DEF Rows
  <2> QED BY <2>2, <2>3 DEF TalkInv
<1>2. CASE ServerStep
  BY <1>2, TalkLock, TalkWork, TalkNobody DEF ServerStep
<1>3. ASSUME NEW s \in Session, SessionStep(s)
      PROVE  TalkInv'
  BY <1>3, TalkSend, TalkAck, TalkQuiet DEF SessionStep
<1> QED BY <1>1, <1>2, <1>3, TalkEdit, TalkAnswer, TalkFails DEF SyncNext

\* What a session and the server know of one push agrees in every reachable
\* state.
LEMMA TalkInvariance == SyncSpec => []TalkInv
<1> QED BY TalkInit, TalkNext, CursorInvariance, PTL DEF SyncSpec

(***************************************************************************)
(* A row is acknowledged on a device only if the server has logged its     *)
(* operation (AckedIsLogged), also when answers are lost, pushes are sent  *)
(* again and several sessions of a device send the same rows: an answer    *)
(* reaches the session that waits for it or nobody, and every operation it *)
(* reports is in the log.                                                  *)
(***************************************************************************)
THEOREM SyncAckedLogged == SyncSpec => []AckedIsLogged
<1>1. ASSUME CursorInv, TalkInv
      PROVE  AckedIsLogged
  <2> SUFFICES ASSUME NEW d \in Device, NEW row \in Rows(d), row.acked
               PROVE  idempotencyIndex[d][row.op_id] # 0
    BY DEF AckedIsLogged
  <2>1. <<d, row.op_id>> \in acked
    BY <1>1 DEF TalkInv, Answered
  <2> QED BY <1>1, <2>1 DEF CursorInv, Inv, Promises
<1> QED BY <1>1, CursorInvariance, TalkInvariance, PTL

-----------------------------------------------------------------------------
(***************************************************************************)
(* OriginInv: an operation is one of a row.                                *)
(***************************************************************************)

(***************************************************************************)
(* What the sets Underway and Logged hold.                                 *)
(***************************************************************************)
LEMMA UnderwayMeans ==
    ASSUME NEW d, NEW op
    PROVE  op \in Underway(d) <=>
              \/ \E h \in handlers : h.device = d /\ op \in ToSet(h.ops)
              \/ job.device = d /\ op \in ToSet(job.ops)
<1>1. (\E h \in handlers : op \in ToSet(h.ops)) => op \in Carried
  BY DEF Carried
<1>2. op \in ToSet(job.ops) => op \in Carried
  BY DEF Carried
<1> QED BY <1>1, <1>2 DEF Underway

\* An operation is among a device's logged ones iff it is of an entry of that
\* device.
LEMMA LoggedMeans ==
    ASSUME NEW d, NEW op
    PROVE  op \in Logged(d) <=>
              \E i \in DOMAIN operations :
                 operations[i].device = d /\ operations[i].op = op
BY DEF Logged

(***************************************************************************)
(* No row is ever removed, and none changes its id, its entity, its base   *)
(* version or the time it was made.                                        *)
(***************************************************************************)
SameRow(r, row) ==
    /\ r.op_id = row.op_id
    /\ r.entity = row.entity
    /\ r.base_version = row.base_version
    /\ r.created_at = row.created_at

\* Marking a row does not change what it says was edited.
LEMMA MarkedIsSame ==
    ASSUME NEW row \in Row, NEW ids, NEW isAcked \in BOOLEAN
    PROVE  SameRow(Marked(row, ids, isAcked), row)
BY DEF Marked, SameRow, Row

\* The outbox grows by one row at an edit, and is only marked otherwise.
LEMMA OutboxSteps ==
    ASSUME CursorInv, [SyncNext]_syncVars
    PROVE  \/ outbox' = outbox
           \/ \E d \in Device, e \in Entity, v \in Payload, id \in OpIds :
                 Edit(d, e, v, id)
           \/ \E d \in Device, isAcked \in BOOLEAN : \E ids :
                 /\ \A f \in Device : f # d => Rows(f)' = Rows(f)
                 /\ Rows(d)' = {Marked(row, ids, isAcked) : row \in Rows(d)}
<1>1. clock \in Nat /\ outbox \in [Device -> Seq(Row)]
  BY LimitsAssumption DEF CursorInv, SyncTypeOK
<1>2. ASSUME NEW s \in Session, PushFails(s)
      PROVE  \E d \in Device, isAcked \in BOOLEAN : \E ids :
                 /\ \A f \in Device : f # d => Rows(f)' = Rows(f)
                 /\ Rows(d)' = {Marked(row, ids, isAcked) : row \in Rows(d)}
  <2> DEFINE d == DeviceOf[s]
             ids == {row.op_id : row \in ToSet(run[s].batch)}
  <2>1. MarkRows(d, ids, FALSE) /\ d \in Device
    BY <1>2, RunFields DEF PushFails, CursorInv
  <2> HIDE DEF ids, d
  <2>2. /\ Rows(d)' = {Marked(row, ids, FALSE) : row \in Rows(d)}
        /\ \A f \in Device : f # d => Rows(f)' = Rows(f)
    BY <1>1, <2>1, MarkEffect
  <2> QED BY <2>1, <2>2
<1>3. ASSUME NEW s \in Session, RecordAck(s)
      PROVE  \E d \in Device, isAcked \in BOOLEAN : \E ids :
                 /\ \A f \in Device : f # d => Rows(f)' = Rows(f)
                 /\ Rows(d)' = {Marked(row, ids, isAcked) : row \in Rows(d)}
  <2> DEFINE d == DeviceOf[s]
             ids == {Head(run[s].batch).op_id}
  <2>1. /\ d \in Device
        /\ Rows(d)' = {Marked(row, ids, TRUE) : row \in Rows(d)}
        /\ \A f \in Device : f # d => Rows(f)' = Rows(f)
    BY <1>3, AckEffect
  <2> HIDE DEF ids, d
  <2> QED BY <2>1
<1>4. CASE UNCHANGED outbox
  BY <1>4
<1>5. ASSUME NEW s \in Session,
             \/ StartSync(s) \/ SendPush(s) \/ RecordConflict(s) \/ Pull(s)
             \/ ApplyOperation(s) \/ SaveCursor(s) \/ AnswerPush(s) \/ Crash(s)
      PROVE  outbox' = outbox
  BY <1>5 DEF StartSync, SendPush, RecordConflict, Pull, ApplyOperation,
              SaveCursor, AnswerPush, Crash
<1>6. UNCHANGED syncVars \/ Tick \/ ServerStep => outbox' = outbox
  BY DEF syncVars, Tick, ServerStep, AnswerNobody, clientVars
<1> QED BY <1>2, <1>3, <1>5, <1>6 DEF SyncNext, SessionStep

\* No row of the outbox is ever lost.
LEMMA RowsKept ==
    ASSUME CursorInv, [SyncNext]_syncVars, NEW f \in Device,
           NEW row \in Rows(f)
    PROVE  \E r \in Rows(f)' : SameRow(r, row)
<1>1. row \in Row /\ SameRow(row, row)
  BY RowsAreRows DEF CursorInv, SameRow
<1>2. CASE outbox' = outbox
  BY <1>1, <1>2 DEF Rows
<1>3. ASSUME NEW d \in Device, NEW e \in Entity, NEW v \in Payload,
             NEW id \in OpIds, Edit(d, e, v, id)
      PROVE  row \in Rows(f)'
  BY <1>3, EditEffect DEF CursorInv
<1>4. ASSUME NEW d \in Device, NEW isAcked \in BOOLEAN, NEW ids,
             \A g \in Device : g # d => Rows(g)' = Rows(g),
             Rows(d)' = {Marked(r, ids, isAcked) : r \in Rows(d)}
      PROVE  \E r \in Rows(f)' : SameRow(r, row)
  <2>1. CASE f # d
    BY <1>1, <1>4, <2>1
  <2>2. CASE f = d
    <3>1. Marked(row, ids, isAcked) \in Rows(f)'
      BY <1>4, <2>2
    <3>2. SameRow(Marked(row, ids, isAcked), row)
      BY <1>1, MarkedIsSame
    <3> QED BY <3>1, <3>2
  <2> QED BY <2>1, <2>2
<1> QED BY <1>1, <1>2, <1>3, <1>4, OutboxSteps

(***************************************************************************)
(* An operation id stands in one row.                                      *)
(***************************************************************************)
OneRowEach ==
    \A d, f \in Device : \A row \in Rows(d), other \in Rows(f) :
        row.op_id = other.op_id => d = f /\ row = other

\* An id is given to one row only.
LEMMA OneRowStep ==
    ASSUME CursorInv, OneRowEach, [SyncNext]_syncVars
    PROVE  OneRowEach'
<1>1. CASE outbox' = outbox
  BY <1>1 DEF OneRowEach, Rows
<1>2. ASSUME NEW d \in Device, NEW e \in Entity, NEW v \in Payload,
             NEW id \in OpIds, Edit(d, e, v, id)
      PROVE  OneRowEach'
  <2> DEFINE new == NewRow(d, e, v, id)
  <2>1. /\ \A f \in Device : f # d => Rows(f)' = Rows(f)
        /\ Rows(d)' = Rows(d) \/ Rows(d)' = Rows(d) \cup {new}
    BY <1>2, EditEffect DEF CursorInv
  <2>2. \A f \in Device : \A row \in Rows(f) : row.op_id # id
    BY <1>2 DEF Edit, UsedIds
  <2>3. new.op_id = id
    BY DEF NewRow
  <2> HIDE DEF new
  <2>4. \A f \in Device : \A row \in Rows(f)' :
           row \in Rows(f) \/ (f = d /\ row = new)
    BY <2>1
  <2> QED BY <2>2, <2>3, <2>4 DEF OneRowEach
<1>3. ASSUME NEW d \in Device, NEW isAcked \in BOOLEAN, NEW ids,
             \A g \in Device : g # d => Rows(g)' = Rows(g),
             Rows(d)' = {Marked(r, ids, isAcked) : r \in Rows(d)}
      PROVE  OneRowEach'
  <2>1. ASSUME NEW f \in Device, NEW row \in Rows(f)'
        PROVE  \E r \in Rows(f) :
                  /\ r.op_id = row.op_id
                  /\ row = IF f = d THEN Marked(r, ids, isAcked) ELSE r
    <3>1. CASE f # d
      BY <1>3, <2>1, <3>1
    <3>2. CASE f = d
      <4>1. PICK r \in Rows(d) : row = Marked(r, ids, isAcked)
        BY <1>3, <2>1, <3>2
      <4>2. r \in Row
        BY RowsAreRows DEF CursorInv
      <4>3. row.op_id = r.op_id
        BY <4>1, <4>2, MarkedIsSame DEF SameRow
      <4> QED BY <3>2, <4>1, <4>3
    <3> QED BY <3>1, <3>2
  <2> SUFFICES ASSUME NEW f \in Device, NEW g \in Device,
                      NEW row \in Rows(f)', NEW other \in Rows(g)',
                      row.op_id = other.op_id
               PROVE  f = g /\ row = other
    BY DEF OneRowEach
  <2>2. PICK r \in Rows(f) :
           /\ r.op_id = row.op_id
           /\ row = IF f = d THEN Marked(r, ids, isAcked) ELSE r
    BY <2>1
  <2>3. PICK o \in Rows(g) :
           /\ o.op_id = other.op_id
           /\ other = IF g = d THEN Marked(o, ids, isAcked) ELSE o
    BY <2>1
  <2>4. f = g /\ r = o
    BY <2>2, <2>3 DEF OneRowEach
  <2> QED BY <2>2, <2>3, <2>4
<1> QED BY <1>1, <1>2, <1>3, OutboxSteps

(***************************************************************************)
(* Where the rows of a batch come from.                                    *)
(***************************************************************************)
LEMMA BatchFrom ==
    ASSUME CursorInv, [SyncNext]_syncVars, NEW u \in Session,
           NEW row \in ToSet(run'[u].batch)
    PROVE  \/ row \in ToSet(run[u].batch)
           \/ row \in Rows(DeviceOf[u]) /\ ~row.acked
<1>1. ASSUME NEW s \in Session, run' = [run EXCEPT ![s] = IdleRun]
      PROVE  row \in ToSet(run[u].batch)
  <2>1. IdleRun.batch = <<>>
    BY DEF IdleRun
  <2>2. u # s
    <3>1. ToSet(<<>>) = {}
      BY DEF ToSet
    <3> QED BY <1>1, <2>1, <3>1 DEF CursorInv, SyncTypeOK
  <2> QED BY <1>1, <2>2 DEF CursorInv, SyncTypeOK
<1>2. ASSUME NEW s \in Session, StartSync(s)
      PROVE  \/ row \in ToSet(run[u].batch)
             \/ row \in Rows(DeviceOf[u]) /\ ~row.acked
  <2>1. CASE u # s
    <3>1. run'[u] = run[u]
      BY <1>2, <2>1 DEF StartSync, CursorInv, SyncTypeOK
    <3> QED BY <3>1
  <2>2. CASE u = s
    <3> DEFINE d == DeviceOf[s]
    <3>1. d \in Device
      BY RunFields DEF CursorInv
    <3>2. run'[u].batch = PendingBatch(d)
      BY <1>2, <2>2 DEF StartSync, CursorInv, SyncTypeOK, IdleRun
    <3>3. \A r \in ToSet(PendingBatch(d)) : r \in Rows(d) /\ ~r.acked
      BY <3>1, BatchIsPending DEF CursorInv, SyncTypeOK
    <3> QED BY <2>2, <3>2, <3>3
  <2> QED BY <2>1, <2>2
<1>3. ASSUME NEW s \in Session, RecordAck(s)
      PROVE  row \in ToSet(run[u].batch)
  BY <1>3, AckEffect
<1>4. ASSUME NEW s \in Session,
             RecordConflict(s) \/ AnswerPush(s) \/ Pull(s) \/ SaveCursor(s),
             run' # [run EXCEPT ![s] = IdleRun]
      PROVE  row \in ToSet(run[u].batch)
  <2>1. run[s] \in Run /\ run \in [Session -> Run]
    BY DEF CursorInv, SyncTypeOK
  <2>2. CASE u # s
    <3>1. run'[u] = run[u]
      BY <1>4, <2>1, <2>2
         DEF RecordConflict, AnswerPush, Pull, SaveCursor
    <3> QED BY <3>1
  <2>3. CASE u = s
    <3>1. CASE RecordConflict(s)
      BY <2>1, <2>3, <3>1 DEF RecordConflict, Run
    <3>2. CASE AnswerPush(s)
      BY <2>1, <2>3, <3>2 DEF AnswerPush, Run
    <3>3. CASE Pull(s)
      BY <1>4, <2>1, <2>3, <3>3 DEF Pull, Run
    <3>4. CASE SaveCursor(s)
      BY <1>4, <2>1, <2>3, <3>4 DEF SaveCursor, Run
    <3> QED BY <1>4, <3>1, <3>2, <3>3, <3>4
  <2> QED BY <2>2, <2>3
<1>5. ASSUME NEW s \in Session, ApplyOperation(s)
      PROVE  row \in ToSet(run[u].batch)
  <2>1. run'[u].batch = run[u].batch
    BY <1>5, ApplyEffect
  <2> QED BY <2>1
<1>6. ASSUME NEW s \in Session, PushFails(s) \/ Crash(s)
      PROVE  row \in ToSet(run[u].batch)
  BY <1>1, <1>6 DEF PushFails, Crash
<1>7. ASSUME UNCHANGED run
      PROVE  row \in ToSet(run[u].batch)
  BY <1>7
<1>8. ASSUME NEW s \in Session, SendPush(s)
      PROVE  UNCHANGED run
  BY <1>8 DEF SendPush
<1>9. ASSUME NEW d \in Device, NEW e \in Entity, NEW v \in Payload,
             NEW id \in OpIds, Edit(d, e, v, id)
      PROVE  UNCHANGED run
  BY <1>9 DEF Edit
<1>10. UNCHANGED syncVars \/ Tick \/ ServerStep => UNCHANGED run
  BY DEF syncVars, Tick, ServerStep, AnswerNobody, clientVars
<1> QED BY <1>1, <1>2, <1>3, <1>4, <1>5, <1>6, <1>7, <1>8, <1>9, <1>10
       DEF SyncNext, SessionStep

(***************************************************************************)
(* Where the operations under way, and those logged, come from.            *)
(***************************************************************************)
LEMMA UnderwayFrom ==
    ASSUME CursorInv, [SyncNext]_syncVars, NEW d \in Device,
           NEW op \in Underway(d)'
    PROVE  \/ op \in Underway(d)
           \/ \E s \in Session : /\ DeviceOf[s] = d
                                 /\ \E row \in ToSet(run[s].batch) :
                                       op = PushOperation(row)
<1>1. \/ \E h \in handlers' : h.device = d /\ op \in ToSet(h.ops)
      \/ job'.device = d /\ op \in ToSet(job'.ops)
  BY DEF Underway
<1>2. CASE UNCHANGED <<handlers, job>>
  <2>1. \/ \E h \in handlers : h.device = d /\ op \in ToSet(h.ops)
        \/ job.device = d /\ op \in ToSet(job.ops)
    BY <1>1, <1>2
  <2> QED BY <2>1, UnderwayMeans
<1>3. ASSUME NEW s \in Session, SendPush(s)
      PROVE  \/ op \in Underway(d)
             \/ /\ DeviceOf[s] = d
                /\ \E row \in ToSet(run[s].batch) : op = PushOperation(row)
  <2> DEFINE ops == BuildPushOperations(run[s].batch)
             new == [device |-> DeviceOf[s], conn |-> s, ops |-> ops]
  <2>1. handlers' = handlers \cup {new} /\ job' = job
    BY <1>3 DEF SendPush, HandlePush
  <2>2. run[s].batch \in Seq(Row)
    BY RunFields DEF CursorInv
  <2>3. ToSet(ops) = {PushOperation(row) : row \in ToSet(run[s].batch)}
    BY <2>2, PushIsOperations
  <2>4. new.device = DeviceOf[s] /\ new.ops = ops
    OBVIOUS
  <2> HIDE DEF new, ops
  <2>5. \/ \E h \in handlers : h.device = d /\ op \in ToSet(h.ops)
        \/ DeviceOf[s] = d /\ op \in ToSet(ops)
        \/ job.device = d /\ op \in ToSet(job.ops)
    BY <1>1, <2>1, <2>4
  <2> QED BY <2>3, <2>5, UnderwayMeans
<1>4. ASSUME NEW h \in handlers, LockPush(h)
      PROVE  op \in Underway(d)
  <2>1. /\ handlers' = handlers \ {h}
        /\ job'.device = h.device /\ job'.ops = h.ops
    BY <1>4, LockEffect DEF CursorInv
  <2>2. \E g \in handlers : g.device = d /\ op \in ToSet(g.ops)
    BY <1>1, <2>1
  <2> QED BY <2>2, UnderwayMeans
<1>5. ASSUME AcceptDuplicate \/ AcceptOperation
      PROVE  op \in Underway(d)
  <2>1. /\ ToSet(job.ops)' \subseteq ToSet(job.ops)
        /\ job'.device = job.device
        /\ handlers' = handlers
    BY <1>5, WorkEffect DEF CursorInv
  <2>2. \/ \E h \in handlers : h.device = d /\ op \in ToSet(h.ops)
        \/ job.device = d /\ op \in ToSet(job.ops)
    BY <1>1, <2>1
  <2> QED BY <2>2, UnderwayMeans
<1>6. ASSUME ReplyPush
      PROVE  op \in Underway(d)
  <2>1. job' = IdleJob /\ handlers' = handlers
    BY <1>6 DEF ReplyPush
  <2>2. ToSet(job'.ops) = {}
    BY <2>1 DEF IdleJob, ToSet
  <2>3. \E h \in handlers : h.device = d /\ op \in ToSet(h.ops)
    BY <1>1, <2>1, <2>2
  <2> QED BY <2>3, UnderwayMeans
<1>7. ASSUME NEW s \in Session, Disconnect(s)
      PROVE  op \in Underway(d)
  <2>1. ASSUME NEW h \in handlers'
        PROVE  \E g \in handlers : g.device = h.device /\ g.ops = h.ops
    <3>1. PICK g \in handlers :
             h = IF g.conn = s THEN [g EXCEPT !.conn = 0] ELSE g
      BY <1>7 DEF Disconnect
    <3>2. g \in Handler
      BY DEF CursorInv, Inv, TypeOK
    <3> QED BY <3>1, <3>2 DEF Handler
  <2>2. job'.device = job.device /\ job'.ops = job.ops
    <3>1. job \in Job
      BY DEF CursorInv, Inv, TypeOK
    <3> QED BY <1>7, <3>1 DEF Disconnect, Job
  <2>3. \/ \E h \in handlers : h.device = d /\ op \in ToSet(h.ops)
        \/ job.device = d /\ op \in ToSet(job.ops)
    BY <1>1, <2>1, <2>2
  <2> QED BY <2>3, UnderwayMeans
<1>8. ASSUME NEW s \in Session,
             \/ StartSync(s) \/ RecordAck(s) \/ RecordConflict(s) \/ Pull(s)
             \/ ApplyOperation(s) \/ SaveCursor(s)
      PROVE  UNCHANGED <<handlers, job>>
  BY <1>8 DEF StartSync, RecordAck, RecordConflict, Pull, ApplyOperation,
              SaveCursor, vars, pushVars
<1>9. UNCHANGED syncVars \/ Tick => UNCHANGED <<handlers, job>>
  BY DEF syncVars, Tick, vars, pushVars
<1>10. ASSUME NEW f \in Device, NEW e \in Entity, NEW v \in Payload,
              NEW id \in OpIds, Edit(f, e, v, id)
       PROVE  UNCHANGED <<handlers, job>>
  BY <1>10 DEF Edit, vars, pushVars
<1> QED BY <1>2, <1>3, <1>4, <1>5, <1>6, <1>7, <1>8, <1>9, <1>10
       DEF SyncNext, SessionStep, ServerStep, AnswerPush, AnswerNobody,
           PushFails, Crash

(***************************************************************************)
(* Only AcceptOperation changes the log.                                   *)
(***************************************************************************)
LEMMA LogSteps ==
    ASSUME [SyncNext]_syncVars, ~AcceptOperation
    PROVE  UNCHANGED <<operations, latestCursor, idempotencyIndex, entities>>
<1>1. ASSUME NEW s \in Session,
             SessionStep(s) \/ AnswerPush(s) \/ PushFails(s) \/ Crash(s)
      PROVE  UNCHANGED <<operations, latestCursor, idempotencyIndex, entities>>
  BY <1>1 DEF SessionStep, StartSync, SendPush, HandlePush, RecordAck,
              RecordConflict, Pull, ApplyOperation, SaveCursor, AnswerPush,
              ReplyPush, PushFails, Crash, Disconnect, vars, pushVars
<1>2. UNCHANGED syncVars \/ Tick \/ ServerStep =>
         UNCHANGED <<operations, latestCursor, idempotencyIndex, entities>>
  BY DEF syncVars, Tick, ServerStep, LockPush, AcceptDuplicate, AnswerNobody,
         ReplyPush, vars, pushVars
<1>3. ASSUME NEW f \in Device, NEW e \in Entity, NEW v \in Payload,
             NEW id \in OpIds, Edit(f, e, v, id)
      PROVE  UNCHANGED <<operations, latestCursor, idempotencyIndex, entities>>
  BY <1>3 DEF Edit, vars, pushVars
<1> QED BY <1>1, <1>2, <1>3 DEF SyncNext

\* What is new in the log was under way in a push.
LEMMA LoggedFrom ==
    ASSUME CursorInv, [SyncNext]_syncVars, NEW d \in Device,
           NEW op \in Logged(d)'
    PROVE  op \in Logged(d) \/ op \in Underway(d)
<1>1. PICK i \in DOMAIN operations' :
         operations'[i].device = d /\ operations'[i].op = op
  BY DEF Logged
<1>2. CASE AcceptOperation
  <2>1. /\ DOMAIN operations = 1..Len(operations)
        /\ DOMAIN operations' = 1..(Len(operations) + 1)
        /\ \A k \in 1..Len(operations) : operations'[k] = operations[k]
        /\ operations'[Len(operations) + 1] = Stored
        /\ Len(operations) \in Nat
    BY <1>2, LogGrows DEF CursorInv, Inv
  <2>2. CASE i \in 1..Len(operations)
    BY <1>1, <2>1, <2>2, LoggedMeans
  <2>3. CASE i = Len(operations) + 1
    <3>1. job.device = d /\ Head(job.ops) = op
      BY <1>1, <2>1, <2>3 DEF Stored
    <3>2. Head(job.ops) \in ToSet(job.ops)
      BY <1>2, WorkEffect DEF CursorInv
    <3> QED BY <3>1, <3>2, UnderwayMeans
  <2> QED BY <2>1, <2>2, <2>3
<1>3. CASE ~AcceptOperation
  <2>1. operations' = operations
    BY <1>3, LogSteps
  <2> QED BY <1>1, <2>1, LoggedMeans
<1> QED BY <1>2, <1>3

(***************************************************************************)
(* OriginInv holds always.                                                 *)
(***************************************************************************)
LEMMA OriginInit == SyncInit => OriginInv
<1> SUFFICES ASSUME SyncInit PROVE OriginInv
  OBVIOUS
<1>1. /\ handlers = {} /\ job.ops = <<>> /\ operations = <<>>
      /\ \A d \in Device : outbox[d] = <<>>
      /\ \A s \in Session : run[s].batch = <<>>
  BY DEF SyncInit, Init, IdleJob, IdleRun
<1>2. ToSet(<<>>) = {}
  BY DEF ToSet
<1>3. \A d \in Device : Rows(d) = {}
  BY <1>1, <1>2 DEF Rows
<1>4. \A d \in Device : Underway(d) = {}
  BY <1>1, <1>2 DEF Underway
<1>5. \A d \in Device : Logged(d) = {}
  BY <1>1 DEF Logged
<1> QED BY <1>1, <1>2, <1>3, <1>4, <1>5 DEF OriginInv

\* OriginInv is inductive: what is logged or under way was edited on its
\* device.
LEMMA OriginNext ==
    CursorInv /\ OriginInv /\ [SyncNext]_syncVars => OriginInv'
<1> SUFFICES ASSUME CursorInv, OriginInv, [SyncNext]_syncVars
             PROVE  OriginInv'
  OBVIOUS
<1>1. OneRowEach'
  BY OneRowStep DEF OriginInv, OneRowEach
<1>2. ASSUME NEW s \in Session, NEW row \in ToSet(run'[s].batch)
      PROVE  InOutbox(DeviceOf[s], row)'
  <2>1. DeviceOf[s] \in Device
    BY SessionAssumption
  <2>2. PICK r \in Rows(DeviceOf[s]) : SameRow(r, row)
    <3>1. CASE row \in ToSet(run[s].batch)
      BY <3>1 DEF OriginInv, InOutbox, SameRow
    <3>2. CASE row \in Rows(DeviceOf[s])
      BY <3>2 DEF SameRow
    <3> QED BY <3>1, <3>2, BatchFrom
  <2>3. PICK q \in Rows(DeviceOf[s])' : SameRow(q, r)
    BY <2>1, RowsKept
  <2> QED BY <2>2, <2>3 DEF InOutbox, SameRow
<1>3. ASSUME NEW d \in Device, NEW op \in Underway(d)' \cup Logged(d)'
      PROVE  FromRow(d, op)'
  <2>1. PICK r \in Rows(d) :
           /\ r.op_id = op.op_id
           /\ r.op_id = op.idempotency_key
           /\ r.entity = op.entity
           /\ r.base_version = op.base_version
    <3>1. CASE op \in Underway(d) \cup Logged(d)
      BY <3>1 DEF OriginInv, FromRow
    <3>2. ASSUME NEW s \in Session, DeviceOf[s] = d,
                 NEW row \in ToSet(run[s].batch), op = PushOperation(row)
          PROVE  \E r \in Rows(d) : /\ r.op_id = op.op_id
                                    /\ r.op_id = op.idempotency_key
                                    /\ r.entity = op.entity
                                    /\ r.base_version = op.base_version
      <4>1. PICK r \in Rows(d) : SameRow(r, row)
        BY <3>2 DEF OriginInv, InOutbox, SameRow
      <4>2. /\ op.op_id = row.op_id
            /\ op.idempotency_key = row.op_id
            /\ op.entity = row.entity
            /\ op.base_version = row.base_version
        BY <3>2 DEF PushOperation
      <4> QED BY <4>1, <4>2 DEF SameRow
    <3> QED BY <1>3, <3>1, <3>2, UnderwayFrom, LoggedFrom
  <2>2. PICK q \in Rows(d)' : SameRow(q, r)
    BY RowsKept
  <2> QED BY <2>1, <2>2 DEF FromRow, SameRow
<1> QED BY <1>1, <1>2, <1>3 DEF OriginInv, OneRowEach

\* Every operation in the log and on its way is the edit of a row of its
\* device.
LEMMA OriginInvariance == SyncSpec => []OriginInv
<1> QED BY OriginInit, OriginNext, CursorInvariance, PTL DEF SyncSpec

-----------------------------------------------------------------------------
(***************************************************************************)
(* LostInv: a lost edit is on its way to the device that made it.          *)
(***************************************************************************)
LEMMA OnTheWayMeans ==
    ASSUME NEW d, NEW event
    PROVE  event \in OnTheWay(d) <=>
              \/ event \in conflicts[d]
              \/ \E s \in Session : /\ DeviceOf[s] = d /\ pc[s] = "record"
                                    /\ event \in run[s].conflicts
BY DEF OnTheWay

(***************************************************************************)
(* A session that stands still, or is not recording, keeps what is on its  *)
(* way to the device.                                                      *)
(***************************************************************************)
LEMMA OnTheWayKept ==
    ASSUME NEW d, NEW event \in OnTheWay(d),
           event \in conflicts[d] => event \in conflicts'[d],
           \A s \in Session :
              pc[s] = "record" /\ event \in run[s].conflicts =>
                 \/ pc'[s] = "record" /\ event \in run'[s].conflicts
                 \/ event \in conflicts'[DeviceOf[s]]
    PROVE  event \in OnTheWay(d)'
<1>1. CASE event \in conflicts[d]
  BY <1>1 DEF OnTheWay
<1>2. ASSUME NEW s \in Session, DeviceOf[s] = d, pc[s] = "record",
             event \in run[s].conflicts
      PROVE  event \in OnTheWay(d)'
  BY <1>2 DEF OnTheWay
<1> QED BY <1>1, <1>2, OnTheWayMeans

\* What recording a conflict leaves: the event is known to the device.
LEMMA ConflictEffect ==
    ASSUME CursorInv, NEW s \in Session, RecordConflict(s)
    PROVE  LET d == DeviceOf[s] IN
           /\ d \in Device
           /\ pc[s] = "record"
           /\ \E event \in run[s].conflicts :
                 /\ conflicts' = [conflicts EXCEPT ![d] =
                                     conflicts[d] \cup {event}]
                 /\ run'[s].conflicts = run[s].conflicts \ {event}
           /\ run'[s].cursor = run[s].cursor
           /\ pc'[s] \in {"pull", "record"}
           /\ pc'[s] = "pull" => run'[s].conflicts = {}
           /\ \A u \in Session : u # s => run'[u] = run[u] /\ pc'[u] = pc[u]
           /\ UNCHANGED <<vars, clock, outbox, versions, notes>>
<1> DEFINE d == DeviceOf[s]
<1>1. PICK event \in run[s].conflicts :
         /\ conflicts' = [conflicts EXCEPT ![d] = conflicts[d] \cup {event}]
         /\ run' = [run EXCEPT ![s] =
                       [run[s] EXCEPT !.conflicts = run[s].conflicts \ {event}]]
         /\ pc' = [pc EXCEPT ![s] =
                      Recorded(<<>>, run[s].conflicts \ {event})]
  BY DEF RecordConflict
<1>2. d \in Device /\ run[s] \in Run
  BY RunFields DEF CursorInv
<1> DEFINE new == [run[s] EXCEPT !.conflicts = run[s].conflicts \ {event}]
           next == Recorded(<<>>, run[s].conflicts \ {event})
<1>3. new.conflicts = run[s].conflicts \ {event} /\ new.cursor = run[s].cursor
  BY <1>2 DEF Run
<1>4. next \in {"pull", "record"} /\ (next = "pull" => new.conflicts = {})
  BY <1>3 DEF Recorded
<1> HIDE DEF new, next
<1>5. /\ run'[s] = new /\ pc'[s] = next
      /\ \A u \in Session : u # s => run'[u] = run[u] /\ pc'[u] = pc[u]
  BY <1>1 DEF new, next, CursorInv, SyncTypeOK
<1>6. pc[s] = "record" /\ UNCHANGED <<vars, clock, outbox, versions, notes>>
  BY DEF RecordConflict
<1> QED BY <1>1, <1>2, <1>3, <1>4, <1>5, <1>6

\* The answer releases the server, and takes the conflicts to the session.
LEMMA AnswerEffect ==
    ASSUME CursorInv, NEW s \in Session, AnswerPush(s)
    PROVE  /\ job.conn = s /\ mu /\ mu' = FALSE
           /\ job' = IdleJob
           /\ job.device \in Device
           /\ acked' = acked \cup
                 {<<job.device, op.idempotency_key>> : op \in job.accepted}
           /\ told' = told \cup job.conflicts
           /\ run'[s].conflicts = job.conflicts
           /\ run'[s].cursor = run[s].cursor
           /\ pc'[s] = "record"
           /\ \A u \in Session : u # s => run'[u] = run[u] /\ pc'[u] = pc[u]
           /\ UNCHANGED <<devices, operations, latestCursor, idempotencyIndex,
                          entities, handlers, cursor, got, clock, outbox,
                          versions, notes, conflicts>>
<1> DEFINE new == [run[s] EXCEPT !.conflicts = job.conflicts]
<1>1. run[s] \in Run
  BY RunFields DEF CursorInv
<1>2. new.conflicts = job.conflicts /\ new.cursor = run[s].cursor
  BY <1>1 DEF Run
<1>3. run' = [run EXCEPT ![s] = new] /\ pc' = [pc EXCEPT ![s] = "record"]
  BY DEF AnswerPush
<1> HIDE DEF new
<1>4. /\ run'[s] = new /\ pc'[s] = "record"
      /\ \A u \in Session : u # s => run'[u] = run[u] /\ pc'[u] = pc[u]
  BY <1>3 DEF CursorInv, SyncTypeOK
<1>5. job.device \in Device
  BY DEF AnswerPush, ReplyPush, CursorInv, Inv, TypeOK
<1> QED BY <1>2, <1>4, <1>5 DEF AnswerPush, ReplyPush

\* A session loses none of the events on their way to its device.
LEMMA LostSessions ==
    ASSUME CursorInv, NEW s \in Session, SessionStep(s),
           NEW d \in Device, NEW event \in OnTheWay(d)
    PROVE  event \in OnTheWay(d)'
<1>1. CASE RecordAck(s)
  <2>1. /\ conflicts' = conflicts
        /\ run'[s].conflicts = run[s].conflicts
        /\ pc'[s] \in {"pull", "record"}
        /\ pc'[s] = "pull" => run[s].conflicts = {}
        /\ \A u \in Session : u # s => run'[u] = run[u] /\ pc'[u] = pc[u]
    BY <1>1, AckEffect
  <2> QED BY <2>1, OnTheWayKept
<1>2. CASE RecordConflict(s)
  <2>1. PICK known \in run[s].conflicts :
           /\ conflicts' = [conflicts EXCEPT ![DeviceOf[s]] =
                               conflicts[DeviceOf[s]] \cup {known}]
           /\ run'[s].conflicts = run[s].conflicts \ {known}
    BY <1>2, ConflictEffect
  <2>2. /\ DeviceOf[s] \in Device
        /\ pc'[s] \in {"pull", "record"}
        /\ pc'[s] = "pull" => run'[s].conflicts = {}
        /\ \A u \in Session : u # s => run'[u] = run[u] /\ pc'[u] = pc[u]
    BY <1>2, ConflictEffect
  <2>3. /\ event \in conflicts[d] => event \in conflicts'[d]
        /\ known \in conflicts'[DeviceOf[s]]
    BY <2>1, <2>2 DEF CursorInv, SyncTypeOK
  <2> QED BY <2>1, <2>2, <2>3, OnTheWayKept
<1>3. CASE \/ StartSync(s) \/ SendPush(s) \/ Pull(s)
           \/ ApplyOperation(s) \/ SaveCursor(s)
  <2>1. conflicts' = conflicts /\ pc[s] # "record"
    BY <1>3 DEF StartSync, SendPush, Pull, ApplyOperation, SaveCursor
  <2>2. \A u \in Session : u # s => run'[u] = run[u] /\ pc'[u] = pc[u]
    BY <1>3 DEF StartSync, SendPush, Pull, ApplyOperation, SaveCursor,
                CursorInv, SyncTypeOK
  <2> QED BY <2>1, <2>2, OnTheWayKept
<1> QED BY <1>1, <1>2, <1>3 DEF SessionStep

(***************************************************************************)
(* A step that leaves server and log alone.                                *)
(***************************************************************************)
LEMMA ReportedKept ==
    ASSUME Inv, LostInv, UNCHANGED <<operations, acked>>,
           \A i \in DOMAIN operations :
              <<operations[i].device, operations[i].op.idempotency_key>>
                 \notin acked =>
              /\ job'.device = job.device
              /\ job.accepted \subseteq job'.accepted
              /\ job.conflicts \subseteq job'.conflicts,
           \A d \in Device : \A event \in OnTheWay(d) : event \in OnTheWay(d)'
    PROVE  \A i \in DOMAIN operations' :
              ~operations'[i].applied => Reported(operations[i])'
<1> SUFFICES ASSUME NEW i \in DOMAIN operations, ~operations[i].applied
             PROVE  Reported(operations[i])'
  OBVIOUS
<1> DEFINE stored == operations[i]
<1>1. Reported(stored)
  BY DEF LostInv
<1>2. stored.device \in Device
  BY LoggedIsValid
<1>3. CASE <<stored.device, stored.op.idempotency_key>> \in acked
  <2>1. PICK event \in OnTheWay(stored.device) : event.loser = stored.op.op_id
    BY <1>1, <1>3 DEF Reported
  <2>2. event \in OnTheWay(stored.device)'
    BY <1>2, <2>1
  <2> QED BY <1>3, <2>1, <2>2 DEF Reported
<1>4. CASE <<stored.device, stored.op.idempotency_key>> \notin acked
  BY <1>1, <1>4 DEF Reported
<1> QED BY <1>3, <1>4

(***************************************************************************)
(* An edit that loses is told to the session that waits.                   *)
(***************************************************************************)
LEMMA LostAccept ==
    ASSUME CursorInv, LostInv, AcceptOperation, UNCHANGED clientVars
    PROVE  \A i \in DOMAIN operations' :
              ~operations'[i].applied => Reported(operations[i])'
<1> DEFINE op == Head(job.ops)
           d == job.device
           k == op.idempotency_key
           current == entities[op.entity]
           n == Len(operations) + 1
<1>1. /\ DOMAIN operations = 1..Len(operations)
      /\ DOMAIN operations' = 1..n
      /\ \A i \in 1..Len(operations) : operations'[i] = operations[i]
      /\ operations'[n] = Stored
      /\ Len(operations) \in Nat
  BY LogGrows DEF CursorInv, Inv
<1>2. /\ d \in Device /\ k \in Key
      /\ idempotencyIndex[d][k] = 0
      /\ job'.device = d
      /\ job'.accepted = job.accepted \cup {op}
      /\ job'.conflicts = IF IsConflict(op, current)
                          THEN job.conflicts \cup {Event(op, d, current)}
                          ELSE job.conflicts
  BY AcceptEffect DEF CursorInv, Inv
<1>3. UNCHANGED <<acked, conflicts, pc, run>>
  BY DEF AcceptOperation, clientVars
<1>4. \A f \in Device : \A event \in OnTheWay(f) : event \in OnTheWay(f)'
  BY <1>3 DEF OnTheWay
<1>5. ASSUME NEW i \in 1..Len(operations), ~operations[i].applied
      PROVE  Reported(operations[i])'
  <2> DEFINE stored == operations[i]
  <2>1. Reported(stored) /\ stored.device \in Device
    BY <1>1, <1>5, LoggedIsValid DEF LostInv, CursorInv
  <2>2. operations'[i] = stored
    BY <1>1
  <2>3. CASE <<stored.device, stored.op.idempotency_key>> \in acked
    <3>1. PICK f \in Device : f = stored.device
      BY <2>1
    <3>2. PICK event \in OnTheWay(f) : event.loser = stored.op.op_id
      BY <2>1, <2>3, <3>1 DEF Reported
    <3>3. event \in OnTheWay(f)'
      BY <1>4, <3>2
    <3> QED BY <1>3, <2>2, <2>3, <3>1, <3>2, <3>3 DEF Reported
  <2>4. CASE <<stored.device, stored.op.idempotency_key>> \notin acked
    <3>1. /\ d = stored.device
          /\ stored.op \in job.accepted
          /\ \E event \in job.conflicts : event.loser = stored.op.op_id
      BY <2>1, <2>4 DEF Reported
    <3>2. job.conflicts \subseteq job'.conflicts
      BY <1>2
    <3>3. /\ job'.device = stored.device
          /\ stored.op \in job'.accepted
          /\ \E event \in job'.conflicts : event.loser = stored.op.op_id
      BY <1>2, <3>1, <3>2
    <3> QED BY <1>3, <2>2, <2>4, <3>3 DEF Reported
  <2> QED BY <2>3, <2>4
<1>6. ASSUME ~Stored.applied, NEW m \in Nat, m = n
      PROVE  Reported(operations[m])'
  <2>1. Stored.device = d /\ Stored.op = op
        /\ Stored.applied = Applied(op, d, current)
    BY DEF Stored
  <2>2. <<d, k>> \notin acked
    BY <1>2 DEF CursorInv, Inv, Promises
  <2>3. IsConflict(op, current) /\ ~IncomingWinsByLWW(op, d, current)
    BY <1>6, <2>1 DEF Applied
  <2>4. Event(op, d, current) \in job'.conflicts
        /\ Event(op, d, current).loser = op.op_id
    BY <1>2, <2>3 DEF Event
  <2>5. operations'[m].device = d /\ operations'[m].op = op
    BY <1>1, <1>6, <2>1
  <2>6. /\ job'.device = d /\ op \in job'.accepted
        /\ \E event \in job'.conflicts : event.loser = op.op_id
    BY <1>2, <2>4
  <2> QED BY <1>3, <2>2, <2>5, <2>6 DEF Reported
<1>7. ASSUME NEW i \in DOMAIN operations', ~operations'[i].applied
      PROVE  Reported(operations[i])'
  <2>1. CASE i \in 1..Len(operations)
    BY <1>1, <1>5, <1>7, <2>1
  <2>2. CASE i = n
    <3>1. i \in Nat /\ ~Stored.applied
      BY <1>1, <1>7, <2>2
    <3> QED BY <1>6, <2>2, <3>1
  <2> QED BY <1>1, <2>1, <2>2
<1> QED BY <1>7

\* An operation that lost and was answered is known to its device or on the
\* way there.
LEMMA LostAnswer ==
    ASSUME CursorInv, TalkInv, LostInv, NEW s \in Session, AnswerPush(s)
    PROVE  \A i \in DOMAIN operations' :
              ~operations'[i].applied => Reported(operations[i])'
<1>1. /\ job.conn = s
      /\ job.device \in Device
      /\ acked' = acked \cup
            {<<job.device, op.idempotency_key>> : op \in job.accepted}
      /\ run'[s].conflicts = job.conflicts
      /\ pc'[s] = "record"
      /\ \A u \in Session : u # s => run'[u] = run[u] /\ pc'[u] = pc[u]
      /\ operations' = operations /\ conflicts' = conflicts
  BY AnswerEffect
<1>2. pc[s] = "push" /\ DeviceOf[s] = job.device
  BY <1>1, RunFields DEF TalkInv, WorkedOn, Waiting, CursorInv
<1>3. ASSUME NEW d \in Device, NEW event \in OnTheWay(d)
      PROVE  event \in OnTheWay(d)'
  BY <1>1, <1>2, OnTheWayKept
<1>4. \A f \in Device, event \in job.conflicts :
         f = job.device => event \in OnTheWay(f)'
  BY <1>1, <1>2 DEF OnTheWay
<1> SUFFICES ASSUME NEW i \in DOMAIN operations, ~operations[i].applied
             PROVE  Reported(operations[i])'
  BY <1>1
<1> DEFINE stored == operations[i]
           known == <<stored.device, stored.op.idempotency_key>>
<1>5. Reported(stored) /\ stored.device \in Device
  BY LoggedIsValid DEF LostInv, CursorInv
<1>6. PICK f \in Device : f = stored.device
  BY <1>5
<1>7. /\ known \in acked'
      /\ \E event \in OnTheWay(f)' : event.loser = stored.op.op_id
  <2>1. CASE known \in acked
    <3>1. PICK event \in OnTheWay(f) : event.loser = stored.op.op_id
      BY <1>5, <1>6, <2>1 DEF Reported
    <3>2. event \in OnTheWay(f)' /\ known \in acked'
      BY <1>1, <1>3, <2>1, <3>1
    <3> QED BY <3>1, <3>2
  <2>2. CASE known \notin acked
    <3>1. /\ job.device = stored.device
          /\ stored.op \in job.accepted
          /\ \E event \in job.conflicts : event.loser = stored.op.op_id
      BY <1>5, <2>2 DEF Reported
    <3>2. known \in acked'
      BY <1>1, <3>1
    <3> QED BY <1>4, <1>6, <3>1, <3>2
  <2> QED BY <2>1, <2>2
<1>8. operations'[i] = stored
  BY <1>1
<1> QED BY <1>6, <1>7, <1>8 DEF Reported

(***************************************************************************)
(* LostInv holds always, if no push is lost and no session stops.          *)
(***************************************************************************)
LEMMA LostInit == SyncInit => LostInv
BY DEF SyncInit, Init, LostInv

\* LostInv is inductive where no answer is lost and no session crashes.
LEMMA LostNext ==
    ASSUME ~MayLose, ~MayCrash, CursorInv, TalkInv, LostInv,
           [SyncNext]_syncVars
    PROVE  LostInv'
<1> USE DEF LostInv
<1>1. ASSUME NEW s \in Session
      PROVE  ~PushFails(s) /\ ~Crash(s)
  BY DEF PushFails, Crash
<1>2. CASE UNCHANGED syncVars \/ Tick
  <2>1. UNCHANGED <<handlers, mu, job, operations, acked, conflicts, pc, run>>
    BY <1>2 DEF syncVars, Tick, vars, pushVars, clientVars
  <2> QED BY <2>1 DEF Reported, OnTheWay
<1>3. ASSUME NEW d \in Device, NEW e \in Entity, NEW v \in Payload,
             NEW id \in OpIds, Edit(d, e, v, id)
      PROVE  LostInv'
  <2>1. UNCHANGED <<handlers, mu, job, operations, acked, conflicts, pc, run>>
    BY <1>3 DEF Edit, vars, pushVars
  <2> QED BY <2>1 DEF Reported, OnTheWay
<1>4. ASSUME NEW s \in Session, SessionStep(s)
      PROVE  LostInv'
  <2>1. UNCHANGED <<mu, job, operations, acked>>
    BY <1>4 DEF SessionStep, StartSync, SendPush, HandlePush, RecordAck,
                RecordConflict, Pull, ApplyOperation, SaveCursor,
                vars, pushVars
  <2>2. \A h \in handlers' : h \in handlers \/ h.conn = s
    <3>1. CASE SendPush(s)
      BY <3>1 DEF SendPush, HandlePush
    <3>2. CASE ~SendPush(s)
      BY <1>4, <3>2 DEF SessionStep, StartSync, RecordAck, RecordConflict,
                        Pull, ApplyOperation, SaveCursor, vars, pushVars
    <3> QED BY <3>1, <3>2
  <2>3. \A h \in handlers' : h.conn # 0
    BY <2>2, SessionAssumption
  <2>4. \A d \in Device : \A event \in OnTheWay(d) : event \in OnTheWay(d)'
    BY <1>4, LostSessions
  <2>5. \A i \in DOMAIN operations' :
           ~operations'[i].applied => Reported(operations[i])'
    BY <2>1, <2>4, ReportedKept DEF CursorInv
  <2> QED BY <2>1, <2>3, <2>5
<1>5. ASSUME NEW s \in Session, AnswerPush(s)
      PROVE  LostInv'
  <2>1. mu' = FALSE /\ handlers' = handlers
    BY <1>5, AnswerEffect
  <2>2. \A i \in DOMAIN operations' :
           ~operations'[i].applied => Reported(operations[i])'
    BY <1>5, LostAnswer
  <2> QED BY <2>1, <2>2
<1>6. ASSUME UNCHANGED <<clock, clientVars>>
      PROVE  \A d \in Device : \A event \in OnTheWay(d) : event \in OnTheWay(d)'
  BY <1>6 DEF clientVars, OnTheWay
<1>7. ASSUME NEW h \in handlers, LockPush(h), UNCHANGED <<clock, clientVars>>
      PROVE  LostInv'
  <2>1. /\ handlers' = handlers \ {h}
        /\ job = IdleJob /\ job'.conn = h.conn
        /\ UNCHANGED <<operations, acked>>
    BY <1>7, LockEffect DEF CursorInv
  <2>2. ASSUME NEW i \in DOMAIN operations, ~operations[i].applied
        PROVE  <<operations[i].device, operations[i].op.idempotency_key>>
                  \in acked
    <3>1. operations[i].device \in Device
      BY LoggedIsValid DEF CursorInv
    <3>2. job.device = 0
      BY <2>1 DEF IdleJob
    <3>3. job.device # operations[i].device
      BY <3>1, <3>2, DeviceAssumption
    <3> QED BY <2>2, <3>3 DEF Reported
  <2>3. ASSUME NEW i \in DOMAIN operations', ~operations'[i].applied
        PROVE  Reported(operations[i])'
    <3>1. i \in DOMAIN operations /\ operations'[i] = operations[i]
      BY <2>1
    <3>2. <<operations[i].device, operations[i].op.idempotency_key>> \in acked
      BY <2>2, <2>3, <3>1
    <3>3. PICK f \in Device : f = operations[i].device
      BY <3>1, LoggedIsValid DEF CursorInv
    <3>4. PICK event \in OnTheWay(f) : event.loser = operations[i].op.op_id
      BY <2>3, <3>1, <3>2, <3>3 DEF Reported
    <3>5. event \in OnTheWay(f)'
      BY <1>6, <1>7, <3>4
    <3> QED BY <2>1, <3>1, <3>2, <3>3, <3>4, <3>5 DEF Reported
  <2> QED BY <2>1, <2>3
<1>8. ASSUME AcceptDuplicate, UNCHANGED <<clock, clientVars>>
      PROVE  LostInv'
  <2>1. /\ mu' = mu /\ job'.conn = job.conn /\ job'.device = job.device
        /\ job'.accepted = job.accepted \cup {Head(job.ops)}
        /\ UNCHANGED <<handlers, acked>>
    BY <1>8, WorkEffect DEF CursorInv
  <2>2. job'.conflicts = job.conflicts /\ operations' = operations
    BY <1>8 DEF AcceptDuplicate, CursorInv, Inv, TypeOK, Job
  <2>3. \A i \in DOMAIN operations' :
           ~operations'[i].applied => Reported(operations[i])'
    BY <1>6, <1>8, <2>1, <2>2, ReportedKept DEF CursorInv
  <2> QED BY <2>1, <2>3
<1>9. ASSUME AcceptOperation, UNCHANGED <<clock, clientVars>>
      PROVE  LostInv'
  <2>1. mu' = mu /\ job'.conn = job.conn /\ handlers' = handlers
    BY <1>9, WorkEffect DEF CursorInv
  <2>2. \A i \in DOMAIN operations' :
           ~operations'[i].applied => Reported(operations[i])'
    BY <1>9, LostAccept
  <2> QED BY <2>1, <2>2
<1>10. ~AnswerNobody
  BY DEF AnswerNobody, ReplyPush
<1> QED BY <1>1, <1>2, <1>3, <1>4, <1>5, <1>7, <1>8, <1>9, <1>10
       DEF SyncNext, ServerStep

(***************************************************************************)
(* If no push is lost and no session stops, a device learns of every edit  *)
(* of its own that lost (LostEditsKnown): the conflict is in the answer to *)
(* the push that logged the edit, and its session stores all it was told   *)
(* before it goes on.                                                      *)
(***************************************************************************)
THEOREM SyncLostEditsKnown ==
    ASSUME ~MayLose, ~MayCrash
    PROVE  SyncSpec => []LostEditsKnown
<1>1. CursorInv /\ TalkInv /\ LostInv /\ [SyncNext]_syncVars => LostInv'
  BY LostNext
<1>2. ASSUME CursorInv, TalkInv, OriginInv, LostInv
      PROVE  LostEditsKnown
  <2> SUFFICES ASSUME NEW d \in Device, NEW row \in Rows(d),
                      row.acked, ~Recording(d),
                      ~operations[idempotencyIndex[d][row.op_id]].applied
               PROVE  \E event \in conflicts[d] : event.loser = row.op_id
    BY DEF LostEditsKnown
  <2> DEFINE i == idempotencyIndex[d][row.op_id]
  <2>1. <<d, row.op_id>> \in acked
    BY <1>2 DEF TalkInv, Answered
  <2>2. i # 0 /\ row.op_id \in Key
    BY <1>2, <2>1 DEF CursorInv, Inv, TypeOK, Promises
  <2>3. /\ i \in DOMAIN operations
        /\ operations[i].device = d
        /\ operations[i].op.idempotency_key = row.op_id
    BY <1>2, <2>2 DEF CursorInv, Inv, Agreement
  <2>4. operations[i].op \in Logged(d)
    BY <2>3, LoggedMeans
  <2>5. operations[i].op.op_id = row.op_id
    BY <1>2, <2>3, <2>4 DEF OriginInv, FromRow
  <2>6. PICK event \in OnTheWay(d) : event.loser = row.op_id
    BY <1>2, <2>1, <2>3, <2>5 DEF LostInv, Reported
  <2>7. event \in conflicts[d]
    BY <2>6, OnTheWayMeans DEF Recording
  <2> QED BY <2>6, <2>7
<1> QED BY <1>1, <1>2, LostInit, CursorInvariance, TalkInvariance,
           OriginInvariance, PTL DEF SyncSpec

-----------------------------------------------------------------------------
(***************************************************************************)
(* DateInv: an operation carries the time at which its row was made.       *)
(***************************************************************************)

(***************************************************************************)
(* A row that was made stays made, and a comparison of two stays true.     *)
(***************************************************************************)
LEMMA MadeStays ==
    ASSUME CursorInv, [SyncNext]_syncVars, NEW id, NEW time, Made(id, time)
    PROVE  Made(id, time)'
<1>1. PICK d \in Device : \E row \in Rows(d) :
         row.op_id = id /\ row.created_at = time
  BY DEF Made
<1>2. PICK row \in Rows(d) : row.op_id = id /\ row.created_at = time
  BY <1>1
<1>3. PICK r \in Rows(d)' : SameRow(r, row)
  BY RowsKept
<1> QED BY <1>2, <1>3 DEF Made, SameRow

\* A loser that was not newer remains so, because no row changes its date of
\* creation.
LEMMA NotNewerStays ==
    ASSUME CursorInv, [SyncNext]_syncVars, NEW event, NotNewer(event)
    PROVE  NotNewer(event)'
<1>1. PICK d \in Device, f \in Device :
         \E won \in Rows(d), lost \in Rows(f) :
            /\ won.op_id = event.winner
            /\ lost.op_id = event.loser
            /\ won.created_at >= lost.created_at
  BY DEF NotNewer
<1>2. PICK won \in Rows(d), lost \in Rows(f) :
         /\ won.op_id = event.winner
         /\ lost.op_id = event.loser
         /\ won.created_at >= lost.created_at
  BY <1>1
<1>3. PICK w \in Rows(d)' : SameRow(w, won)
  BY RowsKept
<1>4. PICK l \in Rows(f)' : SameRow(l, lost)
  BY RowsKept
<1> QED BY <1>2, <1>3, <1>4 DEF NotNewer, SameRow

(***************************************************************************)
(* Where no push fails, a pending row has not been touched since it was    *)
(* made.                                                                   *)
(***************************************************************************)
LEMMA PendingUntouched ==
    ASSUME ~MayLose, CursorInv, [SyncNext]_syncVars,
           \A d \in Device : \A row \in Rows(d) :
              ~row.acked => row.updated_at = row.created_at,
           NEW f \in Device, NEW r \in Rows(f)', ~r.acked
    PROVE  r.updated_at = r.created_at
<1>1. CASE UNCHANGED outbox
  BY <1>1 DEF Rows
<1>2. ASSUME NEW d \in Device, NEW e \in Entity, NEW v \in Payload,
             NEW id \in OpIds, Edit(d, e, v, id)
      PROVE  r.updated_at = r.created_at
  <2> DEFINE new == NewRow(d, e, v, id)
  <2>1. /\ \A g \in Device : g # d => Rows(g)' = Rows(g)
        /\ Rows(d)' = Rows(d) \/ Rows(d)' = Rows(d) \cup {new}
    BY <1>2, EditEffect DEF CursorInv
  <2>2. new.updated_at = new.created_at
    BY DEF NewRow
  <2> HIDE DEF new
  <2> QED BY <2>1, <2>2
<1>3. ASSUME NEW s \in Session, RecordAck(s)
      PROVE  r.updated_at = r.created_at
  <2> DEFINE ids == {Head(run[s].batch).op_id}
  <2>1. /\ DeviceOf[s] \in Device
        /\ Rows(DeviceOf[s])' =
              {Marked(row, ids, TRUE) : row \in Rows(DeviceOf[s])}
        /\ \A g \in Device : g # DeviceOf[s] => Rows(g)' = Rows(g)
    BY <1>3, AckEffect
  <2> HIDE DEF ids
  <2>2. CASE f = DeviceOf[s]
    <3>1. PICK row \in Rows(f) : r = Marked(row, ids, TRUE)
      BY <2>1, <2>2
    <3>2. row \in Row
      BY RowsAreRows DEF CursorInv
    <3>3. CASE row.op_id \in ids
      BY <3>1, <3>2, <3>3 DEF Marked, Row
    <3>4. CASE row.op_id \notin ids
      BY <3>1, <3>4 DEF Marked
    <3> QED BY <3>3, <3>4
  <2>3. CASE f # DeviceOf[s]
    BY <2>1, <2>3
  <2> QED BY <2>2, <2>3
<1>4. ASSUME NEW s \in Session, PushFails(s)
      PROVE  FALSE
  BY <1>4 DEF PushFails
<1>5. ASSUME NEW s \in Session,
             \/ StartSync(s) \/ SendPush(s) \/ RecordConflict(s) \/ Pull(s)
             \/ ApplyOperation(s) \/ SaveCursor(s) \/ AnswerPush(s) \/ Crash(s)
      PROVE  UNCHANGED outbox
  BY <1>5 DEF StartSync, SendPush, RecordConflict, Pull, ApplyOperation,
              SaveCursor, AnswerPush, Crash
<1>6. UNCHANGED syncVars \/ Tick \/ ServerStep => UNCHANGED outbox
  BY DEF syncVars, Tick, ServerStep, AnswerNobody, clientVars
<1> QED BY <1>1, <1>2, <1>3, <1>4, <1>5, <1>6 DEF SyncNext, SessionStep

(***************************************************************************)
(* The dates of the snapshots, and of the conflicts, after an operation    *)
(* was settled.                                                            *)
(***************************************************************************)
HeadsMade ==
    \A e \in Entity : entities[e].version # 0 =>
        Made(entities[e].last_op_id, entities[e].last_client_updated)

\* An operation that is accepted carries the date of the edit that made it.
LEMMA OperationMade ==
    ASSUME CursorInv, OriginInv, DateInv, AcceptOperation
    PROVE  Made(Head(job.ops).op_id, Head(job.ops).client_updated)
<1>1. Head(job.ops) \in ToSet(job.ops) /\ job.device \in Device
  BY WorkEffect DEF CursorInv
<1>2. Head(job.ops) \in Underway(job.device)
  BY <1>1, UnderwayMeans
<1> QED BY <1>1, <1>2 DEF DateInv

\* The head of an entity was made by an edit.
LEMMA HeadsStep ==
    ASSUME CursorInv, OriginInv, DateInv, [SyncNext]_syncVars
    PROVE  HeadsMade'
<1> SUFFICES ASSUME NEW e \in Entity, entities'[e].version # 0
             PROVE  Made(entities[e].last_op_id,
                         entities[e].last_client_updated)'
  BY DEF HeadsMade
<1>1. CASE entities' = entities
  <2> DEFINE id == entities[e].last_op_id
             time == entities[e].last_client_updated
  <2>1. PICK i, t : i = id /\ t = time
    OBVIOUS
  <2>2. Made(i, t)
    BY <1>1, <2>1 DEF DateInv
  <2>3. Made(i, t)'
    BY <2>2, MadeStays
  <2> QED BY <1>1, <2>1, <2>3
<1>2. CASE AcceptOperation
  <2> DEFINE op == Head(job.ops)
             current == entities[op.entity]
             n == Len(operations) + 1
             new == NextSnapshot(op, job.device, current, n)
  <2>1. /\ entities' = entities \/ entities' = [entities EXCEPT ![op.entity] = new]
        /\ op.entity \in Entity
    BY <1>2, AcceptEffect DEF CursorInv, Inv
  <2>2. new.last_op_id = op.op_id
        /\ new.last_client_updated = op.client_updated
    BY DEF NextSnapshot
  <2> HIDE DEF new
  <2>3. CASE entities'[e] = new
    <3>1. PICK i, t : i = op.op_id /\ t = op.client_updated
      OBVIOUS
    <3>2. Made(i, t)
      BY <1>2, <3>1, OperationMade
    <3>3. Made(i, t)'
      BY <3>2, MadeStays
    <3> QED BY <2>2, <2>3, <3>1, <3>3
  <2>4. CASE entities'[e] = entities[e]
    <3>1. PICK i, t : i = entities[e].last_op_id
                      /\ t = entities[e].last_client_updated
      OBVIOUS
    <3>2. Made(i, t)
      BY <2>4, <3>1 DEF DateInv
    <3>3. Made(i, t)'
      BY <3>2, MadeStays
    <3> QED BY <2>4, <3>1, <3>3
  <2>5. entities \in [Entity -> Snapshot]
    BY DEF CursorInv, Inv, TypeOK
  <2> QED BY <1>1, <2>1, <2>3, <2>4, <2>5
<1> QED BY <1>1, <1>2, LogSteps

\* The loser of a conflict is not newer than its winner at the moment it is
\* decided.
LEMMA EventMade ==
    ASSUME CursorInv, OriginInv, DateInv, AcceptOperation,
           IsConflict(Head(job.ops), entities[Head(job.ops).entity])
    PROVE  NotNewer(Event(Head(job.ops), job.device,
                          entities[Head(job.ops).entity]))
<1> DEFINE op == Head(job.ops)
           current == entities[op.entity]
<1>1. op \in Operation /\ op.entity \in Entity
  BY AcceptEffect DEF CursorInv, Inv
<1>2. current \in Snapshot /\ current.version # 0
  BY <1>1 DEF CursorInv, Inv, TypeOK, IsConflict
<1>3. op.client_updated \in Nat /\ current.last_client_updated \in Nat
  BY <1>1, <1>2 DEF Operation, Snapshot
<1>4. PICK d \in Device : \E row \in Rows(d) :
         row.op_id = op.op_id /\ row.created_at = op.client_updated
  BY OperationMade DEF Made
<1>5. PICK f \in Device : \E row \in Rows(f) :
         /\ row.op_id = current.last_op_id
         /\ row.created_at = current.last_client_updated
  BY <1>1, <1>2 DEF DateInv, Made
<1>6. CASE IncomingWinsByLWW(op, job.device, current)
  <2>1. op.client_updated >= current.last_client_updated
    BY <1>3, <1>6 DEF IncomingWinsByLWW
  <2>2. /\ Event(op, job.device, current).winner = op.op_id
        /\ Event(op, job.device, current).loser = current.last_op_id
    BY <1>6 DEF Event
  <2> QED BY <1>4, <1>5, <2>1, <2>2 DEF NotNewer
<1>7. CASE ~IncomingWinsByLWW(op, job.device, current)
  <2>1. current.last_client_updated >= op.client_updated
    BY <1>3, <1>7 DEF IncomingWinsByLWW
  <2>2. /\ Event(op, job.device, current).winner = current.last_op_id
        /\ Event(op, job.device, current).loser = op.op_id
    BY <1>7 DEF Event
  <2> QED BY <1>4, <1>5, <2>1, <2>2 DEF NotNewer
<1> QED BY <1>6, <1>7

(***************************************************************************)
(* A conflict in an answer comes from an earlier one or from the operation *)
(* just settled.                                                           *)
(***************************************************************************)
LEMMA EventsFrom ==
    ASSUME CursorInv, [SyncNext]_syncVars,
           NEW event \in told' \cup job'.conflicts
    PROVE  \/ event \in told \cup job.conflicts
           \/ /\ AcceptOperation
              /\ IsConflict(Head(job.ops), entities[Head(job.ops).entity])
              /\ event = Event(Head(job.ops), job.device,
                               entities[Head(job.ops).entity])
<1> DEFINE Earlier == event \in told \cup job.conflicts
<1>1. ASSUME UNCHANGED <<told, job>>
      PROVE  Earlier
  BY <1>1
<1>2. ASSUME ReplyPush
      PROVE  Earlier
  BY <1>2 DEF ReplyPush, IdleJob
<1>3. ASSUME NEW s \in Session, Disconnect(s)
      PROVE  Earlier
  <2>1. told' = told /\ job'.conflicts = job.conflicts
    <3>1. job \in Job
      BY DEF CursorInv, Inv, TypeOK
    <3> QED BY <1>3, <3>1 DEF Disconnect, Job
  <2> QED BY <2>1
<1>4. ASSUME NEW h \in handlers, LockPush(h)
      PROVE  Earlier
  <2>1. told' = told /\ job'.conflicts = {}
    BY <1>4, LockEffect DEF CursorInv
  <2> QED BY <2>1
<1>5. ASSUME AcceptDuplicate
      PROVE  Earlier
  <2>1. told' = told /\ job'.conflicts = job.conflicts
    BY <1>5 DEF AcceptDuplicate, CursorInv, Inv, TypeOK, Job
  <2> QED BY <2>1
<1>6. ASSUME AcceptOperation, ~Earlier
      PROVE  /\ IsConflict(Head(job.ops), entities[Head(job.ops).entity])
             /\ event = Event(Head(job.ops), job.device,
                              entities[Head(job.ops).entity])
  <2> DEFINE conflict == IsConflict(Head(job.ops), entities[Head(job.ops).entity])
             new == Event(Head(job.ops), job.device,
                          entities[Head(job.ops).entity])
  <2>1. /\ told' = told
        /\ job'.conflicts = IF conflict THEN job.conflicts \cup {new}
                                        ELSE job.conflicts
    BY <1>6, AcceptEffect, WorkEffect DEF CursorInv, Inv
  <2> HIDE DEF conflict, new
  <2>2. conflict /\ event = new
    BY <1>6, <2>1
  <2> QED BY <2>2 DEF conflict, new
<1>7. ASSUME NEW s \in Session, SessionStep(s)
      PROVE  UNCHANGED <<told, job>>
  BY <1>7 DEF SessionStep, StartSync, SendPush, HandlePush, RecordAck,
              RecordConflict, Pull, ApplyOperation, SaveCursor, vars, pushVars
<1>8. ASSUME NEW d \in Device, NEW e \in Entity, NEW v \in Payload,
             NEW id \in OpIds, Edit(d, e, v, id)
      PROVE  UNCHANGED <<told, job>>
  BY <1>8 DEF Edit, vars, pushVars
<1>9. UNCHANGED syncVars \/ Tick => UNCHANGED <<told, job>>
  BY DEF syncVars, Tick, vars, pushVars
<1>10. ASSUME NEW s \in Session, PushFails(s) \/ Crash(s) \/ AnswerPush(s)
       PROVE  Disconnect(s) \/ ReplyPush
  BY <1>10 DEF PushFails, Crash, AnswerPush
<1>11. AnswerNobody => ReplyPush
  BY DEF AnswerNobody
<1> QED BY <1>1, <1>2, <1>3, <1>4, <1>5, <1>6, <1>7, <1>8, <1>9, <1>10, <1>11
       DEF SyncNext, ServerStep

(***************************************************************************)
(* DateInv holds always, if no push is lost.                               *)
(***************************************************************************)
LEMMA DateInit == SyncInit => DateInv
<1> SUFFICES ASSUME SyncInit PROVE DateInv
  OBVIOUS
<1>1. /\ handlers = {} /\ job.ops = <<>> /\ told = {} /\ job.conflicts = {}
      /\ \A d \in Device : outbox[d] = <<>>
      /\ \A s \in Session : run[s].batch = <<>>
      /\ \A e \in Entity : entities[e].version = 0
  BY DEF SyncInit, Init, IdleJob, IdleRun, NoSnapshot
<1>2. ToSet(<<>>) = {}
  BY DEF ToSet
<1>3. \A d \in Device : Rows(d) = {}
  BY <1>1, <1>2 DEF Rows
<1>4. \A d \in Device : Underway(d) = {}
  BY <1>1, <1>2 DEF Underway
<1> QED BY <1>1, <1>2, <1>3, <1>4 DEF DateInv

\* DateInv is inductive where no push fails: only a failed push gives a row a
\* new date.
LEMMA DateNext ==
    ASSUME ~MayLose, CursorInv, OriginInv, DateInv, [SyncNext]_syncVars
    PROVE  DateInv'
<1>1. \A d \in Device : \A row \in Rows(d)' :
         ~row.acked => row.updated_at = row.created_at
  BY PendingUntouched DEF DateInv
<1>2. ASSUME NEW s \in Session, NEW row \in ToSet(run'[s].batch)
      PROVE  Made(row.op_id, row.updated_at)'
  <2>1. PICK i, t : i = row.op_id /\ t = row.updated_at
    OBVIOUS
  <2>2. Made(i, t)
    <3>1. CASE row \in ToSet(run[s].batch)
      BY <2>1, <3>1 DEF DateInv
    <3>2. CASE row \in Rows(DeviceOf[s]) /\ ~row.acked
      <4>1. row.updated_at = row.created_at /\ DeviceOf[s] \in Device
        BY <3>2, SessionAssumption DEF DateInv
      <4> QED BY <2>1, <3>2, <4>1 DEF Made
    <3> QED BY <3>1, <3>2, BatchFrom
  <2>3. Made(i, t)'
    BY <2>2, MadeStays
  <2> QED BY <2>1, <2>3
<1>3. ASSUME NEW d \in Device, NEW op \in Underway(d)'
      PROVE  Made(op.op_id, op.client_updated)'
  <2>1. PICK i, t : i = op.op_id /\ t = op.client_updated
    OBVIOUS
  <2>2. Made(i, t)
    <3>1. CASE op \in Underway(d)
      BY <2>1, <3>1 DEF DateInv
    <3>2. ASSUME NEW s \in Session, NEW row \in ToSet(run[s].batch),
                 op = PushOperation(row)
          PROVE  Made(i, t)
      <4>1. op.op_id = row.op_id /\ op.client_updated = row.updated_at
        BY <3>2 DEF PushOperation
      <4> QED BY <2>1, <4>1 DEF DateInv
    <3> QED BY <3>1, <3>2, UnderwayFrom
  <2>3. Made(i, t)'
    BY <2>2, MadeStays
  <2> QED BY <2>1, <2>3
<1>4. ASSUME NEW event \in told' \cup job'.conflicts
      PROVE  NotNewer(event)'
  <2>1. NotNewer(event)
    BY EventsFrom, EventMade DEF DateInv
  <2> QED BY <2>1, NotNewerStays
<1>5. HeadsMade'
  BY HeadsStep
<1> QED BY <1>1, <1>2, <1>3, <1>4, <1>5 DEF DateInv, HeadsMade

(***************************************************************************)
(* If no push is lost, no conflict is won by the older edit                *)
(* (NewerEditWins), sessions that stop anywhere notwithstanding: the date  *)
(* an operation carries is that of the edit, also when the operation is    *)
(* sent again.  A failed push is what breaks it: it dates the row anew.    *)
(***************************************************************************)
THEOREM SyncNewerEditWins ==
    ASSUME ~MayLose
    PROVE  SyncSpec => []NewerEditWins
<1>1. CursorInv /\ OriginInv /\ DateInv /\ [SyncNext]_syncVars => DateInv'
  BY DateNext
<1>2. ASSUME CursorInv, OriginInv, DateInv
      PROVE  NewerEditWins
  <2> DEFINE all == UNION {Rows(d) : d \in Device}
  <2>1. ASSUME NEW d \in Device, NEW row \in Rows(d)
        PROVE  CreatedAt(row.op_id) = row.created_at
    <3> DEFINE named == CHOOSE r \in all : r.op_id = row.op_id
    <3>1. row \in all
      OBVIOUS
    <3>2. named \in all /\ named.op_id = row.op_id
      BY <3>1
    <3>3. PICK f \in Device : named \in Rows(f)
      BY <3>2
    <3>4. named = row
      BY <1>2, <3>2, <3>3 DEF OriginInv
    <3> QED BY <3>4 DEF CreatedAt
  <2> SUFFICES ASSUME NEW event \in told
               PROVE  CreatedAt(event.winner) >= CreatedAt(event.loser)
    BY DEF NewerEditWins
  <2>2. PICK d \in Device, f \in Device :
           \E won \in Rows(d), lost \in Rows(f) :
              /\ won.op_id = event.winner
              /\ lost.op_id = event.loser
              /\ won.created_at >= lost.created_at
    BY <1>2 DEF DateInv, NotNewer
  <2>3. PICK won \in Rows(d), lost \in Rows(f) :
           /\ won.op_id = event.winner
           /\ lost.op_id = event.loser
           /\ won.created_at >= lost.created_at
    BY <2>2
  <2>4. CreatedAt(won.op_id) = won.created_at
    BY <2>1
  <2>5. CreatedAt(lost.op_id) = lost.created_at
    BY <2>1
  <2> QED BY <2>3, <2>4, <2>5
<1> QED BY <1>1, <1>2, DateInit, CursorInvariance, OriginInvariance, PTL
       DEF SyncSpec

-----------------------------------------------------------------------------
(***************************************************************************)
(* ConvergeInv: a device shows the last operation it has applied, or an    *)
(* edit of its own that it has still to push.                              *)
(***************************************************************************)
OneSessionEach ==
    \A s, u \in Session : DeviceOf[s] = DeviceOf[u] => s = u

(***************************************************************************)
(* What an entity's applied operations are.                                *)
(***************************************************************************)
LEMMA AppliedToFinite ==
    ASSUME Inv, NEW d, NEW e
    PROVE  /\ IsFiniteSet(AppliedTo(e))
           /\ IsFiniteSet(HasApplied(d, e))
           /\ HasApplied(d, e) \subseteq AppliedTo(e)
           /\ AppliedTo(e) \subseteq Nat \ {0}
<1>1. AppliedTo(e) \subseteq 1..Len(operations) /\ Len(operations) \in Nat
  BY LenProperties DEF Inv, TypeOK, AppliedTo
<1>2. IsFiniteSet(1..Len(operations))
  BY <1>1, FS_Interval
<1>3. IsFiniteSet(AppliedTo(e))
  BY <1>1, <1>2, FS_Subset
<1>4. HasApplied(d, e) \subseteq AppliedTo(e)
  BY DEF HasApplied
<1> QED BY <1>1, <1>3, <1>4, FS_Subset

(***************************************************************************)
(* A step of the server changes nothing on a device.                       *)
(***************************************************************************)
LEMMA ServerTouchesNoDevice ==
    ServerStep => UNCHANGED <<clock, clientVars, cursor, got>>
<1>1. ASSUME NEW h \in handlers, LockPush(h)
      PROVE  UNCHANGED <<cursor, got>>
  BY <1>1 DEF LockPush
<1>2. AcceptDuplicate \/ AcceptOperation \/ ReplyPush
         => UNCHANGED <<cursor, got>>
  BY DEF AcceptDuplicate, AcceptOperation, ReplyPush
<1> QED BY <1>1, <1>2 DEF ServerStep, AnswerNobody

(***************************************************************************)
(* Only ApplyOperation changes what a device has applied.                  *)
(***************************************************************************)
LEMMA AppliedSteps ==
    ASSUME [SyncNext]_syncVars, \A s \in Session : ~ApplyOperation(s)
    PROVE  UNCHANGED <<versions, got>>
<1>1. ASSUME NEW s \in Session,
             \/ StartSync(s) \/ SendPush(s) \/ RecordAck(s)
             \/ RecordConflict(s) \/ Pull(s) \/ SaveCursor(s)
      PROVE  UNCHANGED <<versions, got>>
  BY <1>1 DEF StartSync, SendPush, HandlePush, RecordAck, RecordConflict,
              Pull, SaveCursor, vars, pushVars
<1>2. ASSUME NEW s \in Session,
             AnswerPush(s) \/ PushFails(s) \/ Crash(s)
      PROVE  UNCHANGED <<versions, got>>
  BY <1>2 DEF AnswerPush, ReplyPush, PushFails, Crash, Disconnect
<1>3. ASSUME NEW d \in Device, NEW e \in Entity, NEW v \in Payload,
             NEW id \in OpIds, Edit(d, e, v, id)
      PROVE  UNCHANGED <<versions, got>>
  BY <1>3 DEF Edit, vars
<1>4. UNCHANGED syncVars \/ Tick => UNCHANGED <<versions, got>>
  BY DEF syncVars, Tick, vars, clientVars
<1>5. ServerStep => UNCHANGED <<versions, got>>
  BY ServerTouchesNoDevice DEF clientVars
<1> QED BY <1>1, <1>2, <1>3, <1>4, <1>5 DEF SyncNext, SessionStep

(***************************************************************************)
(* A session is where it was as long as it takes no step itself.           *)
(***************************************************************************)
LEMMA OrderedKept ==
    ASSUME NEW u \in Session, Ordered(u), pc'[u] = pc[u], run'[u] = run[u],
           cursor'[DeviceOf[u]] = cursor[DeviceOf[u]],
           got'[DeviceOf[u]] = got[DeviceOf[u]]
    PROVE  Ordered(u)'
BY DEF Ordered

\* A session of another device changes nothing about the page that a session
\* applies.
LEMMA OrderedOthers ==
    ASSUME OneSessionEach, CursorInv, InOrder, NEW s \in Session,
           SessionStep(s) \/ AnswerPush(s) \/ PushFails(s),
           NEW u \in Session, u # s
    PROVE  Ordered(u)'
<1>1. DeviceOf[u] # DeviceOf[s] /\ DeviceOf[u] \in Device
  BY SessionAssumption DEF OneSessionEach
<1>2. /\ run \in [Session -> Run] /\ DOMAIN pc = Session
      /\ cursor \in [Device -> Nat] /\ got \in [Device -> SUBSET Nat]
  BY DEF CursorInv, Inv, SyncTypeOK, TypeOK
<1>3. Ordered(u)
  BY DEF InOrder
<1>4. CASE StartSync(s) \/ SendPush(s)
  BY <1>2, <1>3, <1>4, OrderedKept DEF StartSync, SendPush, HandlePush, vars, pushVars
<1>5. CASE RecordAck(s)
  BY <1>3, <1>5, AckEffect, OrderedKept DEF vars
<1>6. CASE RecordConflict(s)
  BY <1>3, <1>6, ConflictEffect, OrderedKept DEF vars
<1>7. CASE Pull(s)
  <2>1. run'[u] = run[u] /\ pc'[u] = pc[u] /\ UNCHANGED <<cursor, got>>
    BY <1>2, <1>7 DEF Pull, vars
  <2> QED BY <1>3, <2>1, OrderedKept
<1>8. CASE ApplyOperation(s)
  <2>1. /\ run'[u] = run[u] /\ pc' = pc /\ cursor' = cursor
        /\ \E new : got' = [got EXCEPT ![DeviceOf[s]] = new]
    BY <1>8, ApplyEffect
  <2>2. got'[DeviceOf[u]] = got[DeviceOf[u]]
    BY <1>1, <1>2, <2>1
  <2> QED BY <1>3, <2>1, <2>2, OrderedKept
<1>9. CASE SaveCursor(s)
  <2>1. /\ run'[u] = run[u] /\ pc'[u] = pc[u] /\ got' = got
        /\ cursor'[DeviceOf[u]] = cursor[DeviceOf[u]]
    BY <1>1, <1>2, <1>9 DEF SaveCursor
  <2> QED BY <1>3, <2>1, OrderedKept
<1>10. CASE AnswerPush(s)
  BY <1>3, <1>10, AnswerEffect, OrderedKept
<1>11. CASE PushFails(s)
  BY <1>2, <1>3, <1>11, OrderedKept DEF PushFails, Disconnect
<1> QED BY <1>4, <1>5, <1>6, <1>7, <1>8, <1>9, <1>10, <1>11 DEF SessionStep

(***************************************************************************)
(* The session that takes a step.                                          *)
(***************************************************************************)
LEMMA OrderedPull ==
    ASSUME CursorInv, InOrder, NEW s \in Session, Pull(s)
    PROVE  Ordered(s)'
<1> DEFINE c == run[s].cursor
           d == DeviceOf[s]
<1>1. d \in Device /\ run[s] \in Run /\ c \in Nat
  BY RunFields DEF CursorInv
<1>2. UNCHANGED <<operations, latestCursor, cursor, got>> /\ pc[s] = "pull"
  BY DEF Pull, vars, pushVars
<1>3. (\A i \in got[d] : i <= cursor[d]) /\ c = cursor[d]
  BY <1>2 DEF InOrder, Ordered
<1>4. CASE Page(c, PullLimit) = {}
  <2>1. pc'[s] = "idle"
    BY <1>4 DEF Pull, CursorInv, SyncTypeOK
  <2> QED BY <1>2, <1>3, <2>1 DEF Ordered
<1>5. CASE Page(c, PullLimit) # {}
  <2> DEFINE page == Page(c, PullLimit)
             m == NextCursor(c, PullLimit)
             more == HasMore(c, PullLimit)
             new == [run[s] EXCEPT !.page = page, !.next = m, !.more = more]
  <2>1. run' = [run EXCEPT ![s] = new] /\ pc' = [pc EXCEPT ![s] = "apply"]
    BY <1>5 DEF Pull
  <2>2. Passed(d, c, {})
    BY DEF CursorInv, ReadFromLog
  <2>3. /\ m \in 1..latestCursor
        /\ \A i \in page : i \in DOMAIN operations /\ c < i /\ i <= m
    BY <1>1, <1>5, <2>2, PageIsPassed DEF CursorInv
  <2>4. DOMAIN operations = 1..latestCursor /\ latestCursor \in Nat
    BY LenProperties DEF CursorInv, Inv, TypeOK
  <2> HIDE DEF page, m, more
  <2>5. new.next = m /\ new.page = page
    BY <1>1 DEF Run
  <2> HIDE DEF new
  <2>6. run'[s] = new /\ pc'[s] = "apply"
    BY <2>1 DEF CursorInv, SyncTypeOK
  <2>7. got[d] \subseteq Nat
    BY <1>1 DEF CursorInv, Inv, TypeOK
  <2>8. \A i \in got[d] : i <= m
    <3>1. PICK j \in page : TRUE
      BY <1>5 DEF page
    <3> QED BY <1>1, <1>3, <2>3, <2>4, <2>7, <3>1
  <2>9. \A i \in got[d], j \in page : i < j
    BY <1>1, <1>3, <2>3, <2>4, <2>7
  <2> QED BY <1>2, <2>3, <2>5, <2>6, <2>8, <2>9 DEF Ordered
<1> QED BY <1>4, <1>5

\* A session that applies its page in order goes on in order.
LEMMA OrderedOwn ==
    ASSUME CursorInv, TalkInv, InOrder, NEW s \in Session,
           SessionStep(s) \/ AnswerPush(s) \/ PushFails(s)
    PROVE  Ordered(s)'
<1> DEFINE d == DeviceOf[s]
<1>1. d \in Device
  BY SessionAssumption
<1>2. /\ run \in [Session -> Run] /\ DOMAIN pc = Session
      /\ cursor \in [Device -> Nat] /\ got \in [Device -> SUBSET Nat]
  BY DEF CursorInv, Inv, SyncTypeOK, TypeOK
<1>3. Ordered(s)
  BY DEF InOrder
<1>4. CASE StartSync(s)
  <2>1. UNCHANGED <<cursor, got>> /\ pc[s] = "idle" /\ pc'[s] # "apply"
    BY <1>2, <1>4 DEF StartSync, vars
  <2>2. run'[s].cursor = cursor[d]
    BY <1>2, <1>4 DEF StartSync, IdleRun
  <2> QED BY <1>3, <2>1, <2>2 DEF Ordered
<1>5. CASE SendPush(s)
  <2>1. /\ UNCHANGED <<cursor, got, run>> /\ pc[s] = "send"
        /\ pc'[s] = "push"
    BY <1>2, <1>5 DEF SendPush, HandlePush
  <2> QED BY <1>3, <2>1 DEF Ordered
<1>6. CASE RecordAck(s)
  <2>1. /\ UNCHANGED <<cursor, got>> /\ run'[s].cursor = run[s].cursor
        /\ pc[s] = "record" /\ pc'[s] \in {"pull", "record"}
    BY <1>6, AckEffect DEF vars
  <2> QED BY <1>3, <2>1 DEF Ordered
<1>7. CASE RecordConflict(s)
  <2>1. /\ UNCHANGED <<cursor, got>> /\ run'[s].cursor = run[s].cursor
        /\ pc[s] = "record" /\ pc'[s] \in {"pull", "record"}
    BY <1>7, ConflictEffect DEF vars
  <2> QED BY <1>3, <2>1 DEF Ordered
<1>8. CASE Pull(s)
  BY <1>8, OrderedPull
<1>9. CASE ApplyOperation(s)
  <2>1. PICK i \in run[s].page :
           /\ i \in Nat
           /\ \A j \in run[s].page : i <= j
           /\ got' = [got EXCEPT ![d] = got[d] \cup {i}]
           /\ run'[s].page = run[s].page \ {i}
           /\ run'[s].next = run[s].next
    BY <1>9, ApplyEffect
  <2>2. pc[s] = "apply" /\ UNCHANGED <<cursor, pc>>
    BY <1>9, ApplyEffect
  <2>3. got'[d] = got[d] \cup {i}
    BY <1>1, <1>2, <2>1
  <2>4. /\ \A j \in got[d] : j <= run[s].next
        /\ \A j \in run[s].page : j <= run[s].next
        /\ \A j \in got[d], k \in run[s].page : j < k
    BY <1>3, <2>2 DEF Ordered
  <2>5. run[s].page \subseteq Nat
    BY RunFields DEF CursorInv
  <2>6. \A k \in run'[s].page : i < k
    BY <2>1, <2>5
  <2> QED BY <2>1, <2>2, <2>3, <2>4, <2>6 DEF Ordered
<1>10. CASE SaveCursor(s)
  <2>1. /\ pc[s] = "apply" /\ got' = got
        /\ cursor'[d] = run[s].next
        /\ pc'[s] \in {"pull", "idle"}
        /\ pc'[s] = "pull" => run'[s].cursor = run[s].next
    <3>1. run[s] \in Run
      BY <1>2
    <3> QED BY <1>1, <1>2, <1>10, <3>1 DEF SaveCursor, Run
  <2> QED BY <1>3, <2>1 DEF Ordered
<1>11. CASE AnswerPush(s)
  <2>1. /\ UNCHANGED <<cursor, got>> /\ run'[s].cursor = run[s].cursor
        /\ job.conn = s /\ pc'[s] = "record"
    BY <1>11, AnswerEffect
  <2>2. pc[s] = "push"
    BY <2>1, RunFields DEF TalkInv, WorkedOn, Waiting, CursorInv
  <2> QED BY <1>3, <2>1, <2>2 DEF Ordered
<1>12. CASE PushFails(s)
  <2>1. /\ UNCHANGED <<cursor, got>> /\ pc[s] # "apply"
        /\ pc'[s] = "idle"
    BY <1>2, <1>12 DEF PushFails, Disconnect
  <2> QED BY <1>3, <2>1 DEF Ordered
<1> QED BY <1>4, <1>5, <1>6, <1>7, <1>8, <1>9, <1>10, <1>11, <1>12
       DEF SessionStep

\* InOrder is inductive where sessions do not crash and each device runs one
\* at a time.
LEMMA OrderedStep ==
    ASSUME ~MayCrash, OneSessionEach, CursorInv, TalkInv, InOrder,
           [SyncNext]_syncVars
    PROVE  InOrder'
<1>1. ASSUME NEW s \in Session,
             SessionStep(s) \/ AnswerPush(s) \/ PushFails(s)
      PROVE  InOrder'
  BY <1>1, OrderedOthers, OrderedOwn DEF InOrder
<1>2. ASSUME NEW s \in Session, Crash(s)
      PROVE  FALSE
  BY <1>2 DEF Crash
<1>3. CASE UNCHANGED <<pc, run, cursor, got>>
  BY <1>3 DEF InOrder, Ordered
<1>4. ASSUME NEW d \in Device, NEW e \in Entity, NEW v \in Payload,
             NEW id \in OpIds, Edit(d, e, v, id)
      PROVE  UNCHANGED <<pc, run, cursor, got>>
  BY <1>4 DEF Edit, vars
<1>5. UNCHANGED syncVars \/ Tick => UNCHANGED <<pc, run, cursor, got>>
  BY DEF syncVars, Tick, vars, clientVars
<1>6. ServerStep => UNCHANGED <<pc, run, cursor, got>>
  BY ServerTouchesNoDevice DEF clientVars
<1> QED BY <1>1, <1>2, <1>3, <1>4, <1>5, <1>6 DEF SyncNext

(***************************************************************************)
(* The operation a session applies is a new one to its device.             *)
(***************************************************************************)
LEMMA ApplyIsNew ==
    ASSUME CursorInv, Counted, InOrder, NEW s \in Session, ApplyOperation(s)
    PROVE  LET d == DeviceOf[s] IN
           /\ d \in Device
           /\ \E i \in Nat :
                 LET op == operations[i].op IN
                 /\ i \in AppliedTo(op.entity) /\ i \notin got[d]
                 /\ \A j \in got[d] : j < i
                 /\ op.entity \in Entity
                 /\ notes' = [notes EXCEPT ![d][op.entity] = op.payload]
                 /\ versions' = [versions EXCEPT ![d][op.entity] = @ + 1]
                 /\ got' = [got EXCEPT ![d] = got[d] \cup {i}]
           /\ UNCHANGED <<operations, entities, outbox>>
<1> DEFINE d == DeviceOf[s]
<1>1. d \in Device /\ pc[s] = "apply" /\ UNCHANGED <<operations, entities, outbox>>
  BY ApplyEffect DEF pushVars
<1>2. PICK i \in run[s].page :
         LET op == operations[i].op IN
         /\ i \in DOMAIN operations /\ operations[i].applied /\ i \in Nat
         /\ op.entity \in Entity
         /\ notes' = [notes EXCEPT ![d][op.entity] = op.payload]
         /\ versions' = [versions EXCEPT ![d][op.entity] = @ + 1]
         /\ got' = [got EXCEPT ![d] = got[d] \cup {i}]
  BY ApplyEffect
<1>3. \A j \in got[d] : j < i
  BY <1>1, <1>2 DEF InOrder, Ordered
<1>4. i \notin got[d]
  BY <1>2, <1>3
<1>5. i \in AppliedTo(operations[i].op.entity)
  BY <1>2 DEF AppliedTo
<1> QED BY <1>1, <1>2, <1>3, <1>4, <1>5

(***************************************************************************)
(* The server alone stores operations.                                     *)
(***************************************************************************)
LEMMA AcceptIsServer ==
    ASSUME CursorInv, [SyncNext]_syncVars, AcceptOperation
    PROVE  ServerStep
<1>1. operations' # operations
  BY LogGrows, LenProperties DEF CursorInv, Inv
<1>2. ASSUME NEW s \in Session,
             \/ StartSync(s) \/ SendPush(s) \/ RecordAck(s)
             \/ RecordConflict(s) \/ Pull(s) \/ ApplyOperation(s)
             \/ SaveCursor(s)
      PROVE  operations' = operations
  BY <1>2 DEF StartSync, SendPush, HandlePush, RecordAck, RecordConflict,
              Pull, ApplyOperation, SaveCursor, vars, pushVars
<1>3. ASSUME NEW s \in Session,
             AnswerPush(s) \/ PushFails(s) \/ Crash(s)
      PROVE  operations' = operations
  BY <1>3 DEF AnswerPush, ReplyPush, PushFails, Crash, Disconnect
<1>4. ASSUME NEW d \in Device, NEW e \in Entity, NEW v \in Payload,
             NEW id \in OpIds, Edit(d, e, v, id)
      PROVE  operations' = operations
  BY <1>4 DEF Edit, vars, pushVars
<1>5. UNCHANGED syncVars \/ Tick => operations' = operations
  BY DEF syncVars, Tick, vars, pushVars
<1> QED BY <1>1, <1>2, <1>3, <1>4, <1>5 DEF SyncNext, SessionStep

(***************************************************************************)
(* An operation that the server stores is one no device has applied.       *)
(***************************************************************************)
LEMMA AcceptIsNew ==
    ASSUME CursorInv, Counted, AcceptOperation, [SyncNext]_syncVars,
           NEW d \in Device, NEW e \in Entity
    PROVE  /\ HasApplied(d, e)' = HasApplied(d, e)
           /\ \A i \in got[d] : /\ i \in DOMAIN operations'
                                /\ operations'[i] = operations[i]
           /\ UNCHANGED <<got, outbox, versions, notes>>
<1>1. /\ DOMAIN operations = 1..Len(operations)
      /\ DOMAIN operations' = 1..(Len(operations) + 1)
      /\ \A i \in 1..Len(operations) : operations'[i] = operations[i]
      /\ Len(operations) \in Nat
  BY LogGrows DEF CursorInv, Inv
<1>2. got' = got
  BY DEF AcceptOperation
<1>3. \A i \in got[d] : i \in DOMAIN operations
  BY DEF Counted
<1>4. /\ AppliedTo(e)' = AppliedTo(e)
         \/ AppliedTo(e)' = AppliedTo(e) \cup {Len(operations) + 1}
  BY AppliedToGrows DEF CursorInv
<1>5. Len(operations) + 1 \notin got[d]
  BY <1>1, <1>3
<1>6. HasApplied(d, e)' = HasApplied(d, e)
  BY <1>2, <1>4, <1>5 DEF HasApplied
<1>7. UNCHANGED <<outbox, versions, notes>>
  BY AcceptIsServer, ServerTouchesNoDevice DEF clientVars
<1> QED BY <1>1, <1>2, <1>3, <1>6, <1>7

(***************************************************************************)
(* A device's version of an entity counts the operations it has applied.   *)
(***************************************************************************)
LEMMA CountedStep ==
    ASSUME CursorInv, InOrder, Counted, [SyncNext]_syncVars
    PROVE  Counted'
<1>1. ASSUME NEW s \in Session, ApplyOperation(s)
      PROVE  Counted'
  <2> DEFINE d == DeviceOf[s]
  <2>1. d \in Device /\ UNCHANGED operations
    BY <1>1, ApplyIsNew
  <2>2. PICK i \in Nat :
           LET op == operations[i].op IN
           /\ i \in AppliedTo(op.entity) /\ i \notin got[d]
           /\ op.entity \in Entity
           /\ versions' = [versions EXCEPT ![d][op.entity] = @ + 1]
           /\ got' = [got EXCEPT ![d] = got[d] \cup {i}]
    BY <1>1, ApplyIsNew
  <2> DEFINE changed == operations[i].op.entity
  <2>3. /\ versions \in [Device -> [Entity -> Nat]]
        /\ got \in [Device -> SUBSET Nat]
    BY DEF CursorInv, Inv, SyncTypeOK, TypeOK
  <2>4. \A f \in Device : got'[f] = IF f = d THEN got[d] \cup {i} ELSE got[f]
    BY <2>1, <2>2, <2>3
  <2>5. \A e : AppliedTo(e)' = AppliedTo(e)
    BY <2>1 DEF AppliedTo
  <2>6. ASSUME NEW f \in Device, NEW e \in Entity
        PROVE  versions'[f][e] = Cardinality(HasApplied(f, e)')
    <3>1. versions[f][e] = Cardinality(HasApplied(f, e))
      BY DEF Counted
    <3>2. CASE f = d /\ e = changed
      <4>1. HasApplied(f, e)' = HasApplied(f, e) \cup {i}
        BY <2>2, <2>4, <2>5, <3>2 DEF HasApplied
      <4>2. i \notin HasApplied(f, e) /\ IsFiniteSet(HasApplied(f, e))
        BY <2>2, <3>2, AppliedToFinite DEF HasApplied, CursorInv
      <4>3. Cardinality(HasApplied(f, e)') = Cardinality(HasApplied(f, e)) + 1
        BY <4>1, <4>2, FS_AddElement
      <4>4. versions'[f][e] = versions[f][e] + 1
        BY <2>2, <2>3, <3>2
      <4> QED BY <3>1, <4>3, <4>4
    <3>3. CASE ~(f = d /\ e = changed)
      <4>1. i \in AppliedTo(e) => e = changed
        BY DEF AppliedTo
      <4>2. HasApplied(f, e)' = HasApplied(f, e)
        BY <2>4, <2>5, <3>3, <4>1 DEF HasApplied
      <4>3. versions'[f][e] = versions[f][e]
        BY <2>2, <2>3, <3>3
      <4> QED BY <3>1, <4>2, <4>3
    <3> QED BY <3>2, <3>3
  <2>7. i \in DOMAIN operations /\ operations[i].applied
    BY <2>2 DEF AppliedTo
  <2>8. \A f \in Device : \A j \in got'[f] :
           j \in DOMAIN operations' /\ operations'[j].applied
    BY <2>1, <2>4, <2>7 DEF Counted
  <2> QED BY <2>6, <2>8 DEF Counted
<1>2. CASE AcceptOperation
  <2> SUFFICES ASSUME NEW d \in Device
               PROVE  /\ \A i \in got'[d] : /\ i \in DOMAIN operations'
                                            /\ operations'[i].applied
                      /\ \A e \in Entity :
                            versions'[d][e] = Cardinality(HasApplied(d, e)')
    BY DEF Counted
  <2>1. ASSUME NEW i \in got'[d]
        PROVE  i \in DOMAIN operations' /\ operations'[i].applied
    <3>1. got' = got
      BY <1>2 DEF AcceptOperation
    <3>2. operations[i].applied
      BY <2>1, <3>1 DEF Counted
    <3>3. PICK e \in Entity : TRUE
      BY <1>2, AcceptEffect DEF CursorInv, Inv
    <3> QED BY <1>2, <2>1, <3>1, <3>2, <3>3, AcceptIsNew
  <2>2. ASSUME NEW e \in Entity
        PROVE  versions'[d][e] = Cardinality(HasApplied(d, e)')
    <3>1. HasApplied(d, e)' = HasApplied(d, e) /\ versions' = versions
      BY <1>2, AcceptIsNew
    <3> QED BY <3>1 DEF Counted
  <2> QED BY <2>1, <2>2
<1>3. CASE UNCHANGED <<versions, got, operations>>
  BY <1>3 DEF Counted, HasApplied, AppliedTo
<1> QED BY <1>1, <1>2, <1>3, AppliedSteps, LogSteps

(***************************************************************************)
(* No row, and no logged operation, is based on a version the server has   *)
(* not reached.                                                            *)
(***************************************************************************)
LEMMA VersionsGrow ==
    ASSUME CursorInv, [SyncNext]_syncVars, NEW e \in Entity
    PROVE  /\ entities[e].version \in Nat
           /\ entities'[e].version \in Nat
           /\ entities[e].version <= entities'[e].version
<1>1. entities \in [Entity -> Snapshot]
  BY DEF CursorInv, Inv, TypeOK
<1>2. entities[e].version \in Nat
  BY <1>1 DEF Snapshot
<1>3. CASE entities' = entities
  BY <1>2, <1>3
<1>4. CASE AcceptOperation
  <2> DEFINE op == Head(job.ops)
             new == NextSnapshot(op, job.device, entities[op.entity],
                                 Len(operations) + 1)
  <2>1. \/ entities' = entities
        \/ entities' = [entities EXCEPT ![op.entity] = new]
    BY <1>4, AcceptEffect DEF CursorInv, Inv
  <2>2. new.version = entities[op.entity].version + 1
    BY DEF NextSnapshot
  <2> HIDE DEF new
  <2> QED BY <1>1, <1>2, <2>1, <2>2
<1> QED BY <1>3, <1>4, LogSteps

\* A row of the outbox was there before, or is the edit just made.
LEMMA RowFrom ==
    ASSUME CursorInv, [SyncNext]_syncVars, NEW f \in Device,
           NEW row \in Rows(f)'
    PROVE  \/ \E r \in Rows(f) : SameRow(r, row)
           \/ \E e \in Entity, v \in Payload, id \in OpIds :
                 Edit(f, e, v, id) /\ row = NewRow(f, e, v, id)
<1>1. CASE outbox' = outbox
  BY <1>1 DEF Rows, SameRow
<1>2. ASSUME NEW d \in Device, NEW e \in Entity, NEW v \in Payload,
             NEW id \in OpIds, Edit(d, e, v, id)
      PROVE  \/ row \in Rows(f)
             \/ f = d /\ row = NewRow(d, e, v, id)
  BY <1>2, EditEffect DEF CursorInv
<1>3. ASSUME NEW d \in Device, NEW isAcked \in BOOLEAN, NEW ids,
             \A g \in Device : g # d => Rows(g)' = Rows(g),
             Rows(d)' = {Marked(r, ids, isAcked) : r \in Rows(d)}
      PROVE  \E r \in Rows(f) : SameRow(r, row)
  <2>1. CASE f # d
    BY <1>3, <2>1 DEF SameRow
  <2>2. CASE f = d
    <3>1. PICK r \in Rows(f) : row = Marked(r, ids, isAcked)
      BY <1>3, <2>2
    <3>2. SameRow(row, r)
      BY <3>1, RowsAreRows, MarkedIsSame DEF CursorInv
    <3> QED BY <3>2 DEF SameRow
  <2> QED BY <2>1, <2>2
<1>4. \A r : SameRow(r, r)
  BY DEF SameRow
<1> QED BY <1>1, <1>2, <1>3, <1>4, OutboxSteps

\* A device counts no more versions of an entity than the server has applied.
LEMMA VersionBounded ==
    ASSUME Inv, EntityFollowsLog, Counted, NEW d \in Device, NEW e \in Entity
    PROVE  /\ versions[d][e] \in Nat
           /\ versions[d][e] <= entities[e].version
           /\ versions[d][e] = Cardinality(HasApplied(d, e))
           /\ entities[e].version = Cardinality(AppliedTo(e))
<1>1. /\ IsFiniteSet(AppliedTo(e)) /\ IsFiniteSet(HasApplied(d, e))
      /\ HasApplied(d, e) \subseteq AppliedTo(e)
  BY AppliedToFinite
<1>2. Cardinality(HasApplied(d, e)) <= Cardinality(AppliedTo(e))
  BY <1>1, FS_Subset
<1>3. Cardinality(HasApplied(d, e)) \in Nat
  BY <1>1, FS_CardinalityType
<1> QED BY <1>2, <1>3 DEF Counted, EntityFollowsLog

\* No edit is based on a version that the server has not reached.
LEMMA BasesStep ==
    ASSUME CursorInv, OriginInv, EntityFollowsLog, Counted, Bases,
           [SyncNext]_syncVars
    PROVE  Bases'
<1>1. ASSUME NEW f \in Device, NEW row \in Rows(f)'
      PROVE  row.base_version <= entities'[row.entity].version
  <2>1. CASE \E r \in Rows(f) : SameRow(r, row)
    <3>1. PICK r \in Rows(f) : SameRow(r, row)
      BY <2>1
    <3>2. r.entity \in Entity /\ r.base_version \in Nat
      BY RowsAreRows DEF CursorInv, Row
    <3>3. r.base_version <= entities[r.entity].version
      BY DEF Bases
    <3> QED BY <3>1, <3>2, <3>3, VersionsGrow DEF SameRow
  <2>2. ASSUME NEW e \in Entity, NEW v \in Payload, NEW id \in OpIds,
               row = NewRow(f, e, v, id)
        PROVE  row.base_version <= entities'[row.entity].version
    <3>1. row.base_version = versions[f][e] /\ row.entity = e
      BY <2>2 DEF NewRow
    <3>2. versions[f][e] \in Nat /\ versions[f][e] <= entities[e].version
      BY VersionBounded DEF CursorInv
    <3> QED BY <3>1, <3>2, VersionsGrow
  <2> QED BY <2>1, <2>2, RowFrom
<1>2. ASSUME NEW i \in DOMAIN operations,
             operations'[i].op = operations[i].op
      PROVE  operations'[i].op.base_version
                < entities'[operations'[i].op.entity].version
  <2>1. /\ operations[i].op.entity \in Entity
        /\ operations[i].op.base_version \in Nat
    BY LoggedIsValid DEF CursorInv
  <2>2. operations[i].op.base_version
           < entities[operations[i].op.entity].version
    BY DEF Bases
  <2> QED BY <1>2, <2>1, <2>2, VersionsGrow
<1>3. ASSUME AcceptOperation
      PROVE  \A i \in DOMAIN operations' :
                operations'[i].op.base_version
                   < entities'[operations'[i].op.entity].version
  <2> DEFINE op == Head(job.ops)
             d == job.device
             current == entities[op.entity]
             n == Len(operations) + 1
             new == NextSnapshot(op, d, current, n)
  <2>1. /\ DOMAIN operations = 1..Len(operations)
        /\ DOMAIN operations' = 1..n
        /\ \A i \in 1..Len(operations) : operations'[i] = operations[i]
        /\ operations'[n] = Stored
        /\ Len(operations) \in Nat
    BY <1>3, LogGrows DEF CursorInv, Inv
  <2>2. /\ op \in Operation /\ Valid(op) /\ d \in Device
        /\ op.entity \in Entity
        /\ entities' = IF Applied(op, d, current)
                       THEN [entities EXCEPT ![op.entity] = new]
                       ELSE entities
    BY <1>3, AcceptEffect DEF CursorInv, Inv
  <2>3. op \in Underway(d)
    <3>1. op \in ToSet(job.ops)
      BY <1>3, WorkEffect DEF CursorInv
    <3> QED BY <3>1, UnderwayMeans
  <2>4. PICK row \in Rows(d) : row.entity = op.entity
                            /\ row.base_version = op.base_version
    BY <2>2, <2>3 DEF OriginInv, FromRow
  <2>5. op.base_version <= current.version
    BY <2>2, <2>4 DEF Bases
  <2>6. op.base_version \in Nat /\ current.version \in Nat
    BY <2>2, <2>4, RowsAreRows, VersionsGrow DEF CursorInv, Row
  <2>7. op.base_version < entities'[op.entity].version
    <3>1. CASE Applied(op, d, current)
      <4>1. new.version = current.version + 1
        BY DEF NextSnapshot
      <4>2. entities'[op.entity] = new
        BY <2>2, <3>1 DEF CursorInv, Inv, TypeOK
      <4> QED BY <2>5, <2>6, <4>1, <4>2
    <3>2. CASE ~Applied(op, d, current)
      <4>1. op.base_version # current.version
        BY <3>2 DEF Applied, IsConflict
      <4> QED BY <2>2, <2>5, <2>6, <3>2, <4>1
    <3> QED BY <3>1, <3>2
  <2>8. operations'[n].op = op
    BY <2>1 DEF Stored
  <2>9. ASSUME NEW i \in DOMAIN operations'
        PROVE  operations'[i].op.base_version
                  < entities'[operations'[i].op.entity].version
    <3>1. CASE i = n
      BY <2>7, <2>8, <3>1
    <3>2. CASE i \in 1..Len(operations)
      BY <1>2, <2>1, <3>2
    <3> QED BY <2>1, <3>1, <3>2
  <2> QED BY <2>9
<1>4. CASE operations' = operations
  BY <1>1, <1>2, <1>4 DEF Bases
<1>5. CASE AcceptOperation
  BY <1>1, <1>3, <1>5 DEF Bases
<1> QED BY <1>4, <1>5, LogSteps

(***************************************************************************)
(* A device shows its last operation, or an edit since then.               *)
(***************************************************************************)
LEMMA ShownKept ==
    ASSUME NEW d, NEW e, Shown(d, e),
           notes'[d][e] = notes[d][e],
           HasApplied(d, e)' = HasApplied(d, e),
           \A i \in HasApplied(d, e) : operations'[i] = operations[i]
    PROVE  Shown(d, e)'
BY DEF Shown

\* An edit made since the last applied operation remains so while the version
\* does.
LEMMA EditKept ==
    ASSUME CursorInv, [SyncNext]_syncVars, NEW d \in Device, NEW e,
           EditedSince(d, e), versions'[d][e] = versions[d][e]
    PROVE  EditedSince(d, e)'
<1>1. PICK row \in Rows(d) : row.entity = e
                          /\ row.base_version = versions[d][e]
  BY DEF EditedSince
<1>2. PICK r \in Rows(d)' : SameRow(r, row)
  BY RowsKept
<1> QED BY <1>1, <1>2 DEF EditedSince, SameRow

\* An edit is made since the last applied operation.
LEMMA ShownEdit ==
    ASSUME CursorInv, NEW d \in Device, NEW e \in Entity, NEW v \in Payload,
           NEW id \in OpIds, Edit(d, e, v, id)
    PROVE  EditedSince(d, e)'
<1> DEFINE new == NewRow(d, e, v, id)
<1>1. versions' = versions
  BY DEF Edit
<1>2. new.entity = e /\ new.base_version = versions[d][e]
  BY DEF NewRow
<1> HIDE DEF new
<1>3. \E row \in Rows(d)' : row.entity = e
                         /\ row.base_version = versions[d][e]
  <2>1. \/ /\ Rows(d)' = Rows(d)
           /\ \E row \in Rows(d) : /\ row.entity = e
                                   /\ row.base_version = versions[d][e]
        \/ new \in Rows(d)'
    BY EditEffect DEF CursorInv, new
  <2> QED BY <1>2, <2>1
<1> QED BY <1>1, <1>3 DEF EditedSince

\* When an operation is applied, the note shows the last one.
LEMMA ShownApply ==
    ASSUME CursorInv, Counted, InOrder, NEW s \in Session, ApplyOperation(s),
           [SyncNext]_syncVars, NEW f \in Device, NEW e \in Entity,
           EditedSince(f, e) \/ Shown(f, e)
    PROVE  EditedSince(f, e)' \/ Shown(f, e)'
<1> DEFINE d == DeviceOf[s]
<1>1. d \in Device /\ UNCHANGED operations
  BY ApplyIsNew
<1>2. PICK i \in Nat :
         LET op == operations[i].op IN
         /\ i \in AppliedTo(op.entity)
         /\ \A j \in got[d] : j < i
         /\ op.entity \in Entity
         /\ notes' = [notes EXCEPT ![d][op.entity] = op.payload]
         /\ versions' = [versions EXCEPT ![d][op.entity] = @ + 1]
         /\ got' = [got EXCEPT ![d] = got[d] \cup {i}]
  BY ApplyIsNew
<1> DEFINE changed == operations[i].op.entity
<1>3. /\ versions \in [Device -> [Entity -> Nat]]
      /\ notes \in [Device -> [Entity -> Payload]]
      /\ got \in [Device -> SUBSET Nat]
  BY DEF CursorInv, Inv, SyncTypeOK, TypeOK
<1>4. got'[f] = IF f = d THEN got[d] \cup {i} ELSE got[f]
  BY <1>1, <1>2, <1>3
<1>5. AppliedTo(e)' = AppliedTo(e)
  BY <1>1 DEF AppliedTo
<1>6. CASE f = d /\ e = changed
  <2>1. HasApplied(f, e)' = HasApplied(f, e) \cup {i}
    BY <1>2, <1>4, <1>5, <1>6 DEF HasApplied
  <2>2. \A j \in HasApplied(f, e)' : j <= i
    BY <1>2, <1>3, <1>6, <2>1 DEF HasApplied
  <2>3. notes'[f][e] = operations'[i].op.payload
    BY <1>1, <1>2, <1>3, <1>6
  <2> QED BY <2>1, <2>2, <2>3 DEF Shown
<1>7. CASE ~(f = d /\ e = changed)
  <2>1. i \in AppliedTo(e) => e = changed
    BY DEF AppliedTo
  <2>2. HasApplied(f, e)' = HasApplied(f, e)
    BY <1>4, <1>5, <1>7, <2>1 DEF HasApplied
  <2>3. notes'[f][e] = notes[f][e] /\ versions'[f][e] = versions[f][e]
    BY <1>2, <1>3, <1>7
  <2> QED BY <1>1, <2>2, <2>3, ShownKept, EditKept
<1> QED BY <1>6, <1>7

\* Only an edit and an applied operation change the notes.
LEMMA NotesSteps ==
    ASSUME [SyncNext]_syncVars, \A s \in Session : ~ApplyOperation(s),
           \A d \in Device, e \in Entity, v \in Payload, id \in OpIds :
              ~Edit(d, e, v, id)
    PROVE  UNCHANGED notes
<1>1. ASSUME NEW s \in Session,
             \/ StartSync(s) \/ SendPush(s) \/ RecordAck(s)
             \/ RecordConflict(s) \/ Pull(s) \/ SaveCursor(s)
             \/ AnswerPush(s) \/ PushFails(s) \/ Crash(s)
      PROVE  UNCHANGED notes
  BY <1>1 DEF StartSync, SendPush, RecordAck, RecordConflict, Pull,
              SaveCursor, AnswerPush, PushFails, Crash
<1>2. UNCHANGED syncVars \/ Tick \/ ServerStep => UNCHANGED notes
  BY ServerTouchesNoDevice DEF syncVars, Tick, clientVars
<1> QED BY <1>1, <1>2 DEF SyncNext, SessionStep

\* In every step a note shows the last applied operation, or an edit was made
\* since.
LEMMA ShownStep ==
    ASSUME CursorInv, Counted, InOrder, [SyncNext]_syncVars,
           NEW f \in Device, NEW e \in Entity,
           EditedSince(f, e) \/ Shown(f, e)
    PROVE  EditedSince(f, e)' \/ Shown(f, e)'
<1>1. ASSUME NEW s \in Session, ApplyOperation(s)
      PROVE  EditedSince(f, e)' \/ Shown(f, e)'
  BY <1>1, ShownApply
<1>2. ASSUME \A s \in Session : ~ApplyOperation(s), notes'[f][e] = notes[f][e]
      PROVE  EditedSince(f, e)' \/ Shown(f, e)'
  <2>1. UNCHANGED <<versions, got>>
    BY <1>2, AppliedSteps
  <2>2. /\ HasApplied(f, e)' = HasApplied(f, e)
        /\ \A i \in HasApplied(f, e) : operations'[i] = operations[i]
    <3>1. CASE AcceptOperation
      BY <3>1, AcceptIsNew DEF HasApplied
    <3>2. CASE operations' = operations
      BY <2>1, <3>2 DEF HasApplied, AppliedTo
    <3> QED BY <3>1, <3>2, LogSteps
  <2> QED BY <1>2, <2>1, <2>2, ShownKept, EditKept
<1>3. ASSUME NEW d \in Device, NEW c \in Entity, NEW v \in Payload,
             NEW id \in OpIds, Edit(d, c, v, id)
      PROVE  EditedSince(f, e)' \/ notes'[f][e] = notes[f][e]
  <2>1. CASE f = d /\ e = c
    BY <1>3, <2>1, ShownEdit
  <2>2. CASE ~(f = d /\ e = c)
    BY <1>3, <2>2 DEF Edit, CursorInv, SyncTypeOK
  <2> QED BY <2>1, <2>2
<1> QED BY <1>1, <1>2, <1>3, NotesSteps

(***************************************************************************)
(* ConvergeInv holds always, if each device has one session and no session *)
(* stops.                                                                  *)
(***************************************************************************)
LEMMA ConvergeInit == SyncInit => ConvergeInv
<1> SUFFICES ASSUME SyncInit PROVE ConvergeInv
  OBVIOUS
<1>1. /\ operations = <<>>
      /\ \A d \in Device : outbox[d] = <<>> /\ got[d] = {} /\ cursor[d] = 0
      /\ \A d \in Device, e \in Entity :
            versions[d][e] = 0 /\ notes[d][e] = Gone
      /\ \A e \in Entity : entities[e].version = 0
      /\ \A s \in Session : pc[s] = "idle"
  BY DEF SyncInit, Init, NoSnapshot
<1>2. \A e : AppliedTo(e) = {}
  BY <1>1 DEF AppliedTo
<1>3. \A d \in Device : \A e : HasApplied(d, e) = {}
  BY <1>1 DEF HasApplied
<1>4. EntityFollowsLog
  BY <1>1, <1>2, FS_EmptySet DEF EntityFollowsLog
<1>5. Counted
  BY <1>1, <1>3, FS_EmptySet DEF Counted
<1>6. InOrder
  BY <1>1, SessionAssumption DEF InOrder, Ordered
<1>7. Bases
  <2>1. \A d \in Device : Rows(d) = {}
    BY <1>1 DEF Rows, ToSet
  <2> QED BY <1>1, <2>1 DEF Bases
<1>8. \A d \in Device, e \in Entity : Shown(d, e)
  BY <1>1, <1>3 DEF Shown
<1> QED BY <1>4, <1>5, <1>6, <1>7, <1>8 DEF ConvergeInv

\* ConvergeInv is inductive where sessions do not crash and each device runs
\* one at a time.
LEMMA ConvergeNext ==
    ASSUME ~MayCrash, OneSessionEach, CursorInv, TalkInv, OriginInv,
           ConvergeInv, [SyncNext]_syncVars
    PROVE  ConvergeInv'
<1> USE DEF ConvergeInv
<1>1. EntityFollowsLog'
  <2>1. CASE AcceptOperation
    <3>1. [Next]_vars
      BY <2>1 DEF Next
    <3> QED BY <3>1, EntityStep DEF CursorInv
  <2>2. CASE ~AcceptOperation
    BY <2>2, LogSteps DEF EntityFollowsLog, AppliedTo
  <2> QED BY <2>1, <2>2
<1>2. Counted'
  BY CountedStep
<1>3. InOrder'
  BY OrderedStep
<1>4. Bases'
  BY BasesStep
<1>5. \A d \in Device, e \in Entity : EditedSince(d, e)' \/ Shown(d, e)'
  BY ShownStep
<1> QED BY <1>1, <1>2, <1>3, <1>4, <1>5

(***************************************************************************)
(* When all is settled, a device has applied every applied operation, and  *)
(* has made no edit since.                                                 *)
(***************************************************************************)
LEMMA SettledHasAll ==
    ASSUME CursorInv, Settled, NEW d \in Device, NEW e \in Entity
    PROVE  HasApplied(d, e) = AppliedTo(e)
<1> SUFFICES ASSUME NEW i \in AppliedTo(e)
             PROVE  i \in got[d]
  BY DEF HasApplied
<1>1. i \in DOMAIN operations /\ operations[i].applied
  BY DEF AppliedTo
<1>2. i \in Nat /\ operations[i].cursor = i
  BY <1>1, LoggedIsValid DEF CursorInv
<1>3. cursor[d] \in Nat
  BY DEF CursorInv, Inv, TypeOK
<1>4. i \notin AppliedAfter(cursor[d])
  BY DEF Settled
<1>5. i <= cursor[d]
  BY <1>1, <1>2, <1>3, <1>4 DEF AppliedAfter
<1> QED BY <1>1, <1>5 DEF CursorInv, NothingPassed, Passed

\* In a settled state no edit was made since the last applied operation.
LEMMA SettledIsPushed ==
    ASSUME CursorInv, TalkInv, OriginInv, ConvergeInv, Settled,
           NEW d \in Device, NEW e \in Entity
    PROVE  ~EditedSince(d, e)
<1> SUFFICES ASSUME NEW row \in Rows(d), row.entity = e,
                    row.base_version = versions[d][e]
             PROVE  FALSE
  BY DEF EditedSince
<1>1. row.acked
  BY PendingIsRows DEF Settled, CursorInv, SyncTypeOK
<1>2. <<d, row.op_id>> \in acked
  BY <1>1 DEF TalkInv, Answered
<1> DEFINE i == idempotencyIndex[d][row.op_id]
<1>3. i # 0 /\ row.op_id \in Key
  BY <1>2 DEF CursorInv, Inv, TypeOK, Promises
<1>4. /\ i \in DOMAIN operations
      /\ operations[i].device = d
      /\ operations[i].op.idempotency_key = row.op_id
  BY <1>3 DEF CursorInv, Inv, Agreement
<1>5. operations[i].op \in Logged(d)
  BY <1>4, LoggedMeans
<1>6. PICK r \in Rows(d) :
         /\ r.op_id = row.op_id
         /\ r.entity = operations[i].op.entity
         /\ r.base_version = operations[i].op.base_version
  BY <1>4, <1>5 DEF OriginInv, FromRow
<1>7. r = row
  BY <1>6 DEF OriginInv
<1>8. row.base_version < entities[e].version
  BY <1>4, <1>6, <1>7 DEF ConvergeInv, Bases
<1>9. versions[d][e] = entities[e].version /\ entities[e].version \in Nat
  <2>1. HasApplied(d, e) = AppliedTo(e)
    BY SettledHasAll
  <2> QED BY <2>1, VersionBounded DEF ConvergeInv, CursorInv
<1> QED BY <1>8, <1>9

(***************************************************************************)
(* If each device has one session, and no session stops between applying   *)
(* an operation and saving its cursor, then once every edit is pushed and  *)
(* every device has pulled everything, every device holds the server's     *)
(* last applied payload of every note (Converged): whichever edits were    *)
(* made at the same time, and whatever was lost on the way.                *)
(***************************************************************************)
THEOREM SyncConverged ==
    ASSUME ~MayCrash, OneSessionEach
    PROVE  SyncSpec => []Converged
<1>1. CursorInv /\ TalkInv /\ OriginInv /\ ConvergeInv /\ [SyncNext]_syncVars
         => ConvergeInv'
  BY ConvergeNext
<1>2. ASSUME CursorInv, TalkInv, OriginInv, ConvergeInv
      PROVE  Converged
  <2> SUFFICES ASSUME Settled, NEW d \in Device, NEW e \in Entity
               PROVE  notes[d][e] = CurrentPayload(e)
    BY DEF Converged
  <2>1. Shown(d, e) /\ HasApplied(d, e) = AppliedTo(e)
    BY <1>2, SettledIsPushed, SettledHasAll DEF ConvergeInv
  <2>2. /\ entities[e].version = Cardinality(AppliedTo(e))
        /\ IsFiniteSet(AppliedTo(e))
        /\ AppliedTo(e) \subseteq Nat \ {0}
    BY <1>2, AppliedToFinite DEF ConvergeInv, EntityFollowsLog, CursorInv
  <2>3. CASE AppliedTo(e) = {}
    <3>1. entities[e].version = 0
      BY <2>2, <2>3, FS_EmptySet
    <3> QED BY <2>1, <2>3, <3>1 DEF Shown, CurrentPayload
  <2>4. CASE AppliedTo(e) # {}
    <3>1. entities[e].version # 0
      BY <2>2, <2>4, FS_EmptySet
    <3>2. PICK i \in AppliedTo(e) :
             /\ \A j \in AppliedTo(e) : j <= i
             /\ notes[d][e] = operations[i].op.payload
      BY <2>1, <2>4 DEF Shown
    <3>3. /\ entities[e].last_seq \in AppliedTo(e)
          /\ \A j \in AppliedTo(e) : j <= entities[e].last_seq
      BY <1>2, <2>4 DEF ConvergeInv, EntityFollowsLog
    <3>4. i = entities[e].last_seq
      BY <2>2, <3>2, <3>3
    <3> QED BY <3>1, <3>2, <3>4 DEF CurrentPayload
  <2> QED BY <2>3, <2>4
<1> QED BY <1>1, <1>2, ConvergeInit, CursorInvariance, TalkInvariance,
           OriginInvariance, PTL DEF SyncSpec
=============================================================================
