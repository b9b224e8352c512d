---------------------------- MODULE PgStoreProofs ----------------------------
(***************************************************************************)
(* Theorems about PgStore, for any devices, keys, entities, connections,   *)
(* requests, page sizes and bounds.                                        *)
(*                                                                         *)
(* PgInv, the inductive invariant, says what an open transaction may rely  *)
(* on: its program counter agrees with the operations it has left, no two  *)
(* rows, committed or not, share a key, and what it accepted is among the  *)
(* rows it sees.  SameBaseInv adds what the row locks of sync_entities     *)
(* give: whoever is between the SELECT ... FOR UPDATE and the upsert of an *)
(* entity holds its latest version.  SerialInv is about pulls, where only  *)
(* one transaction is open at a time.                                      *)
(***************************************************************************)
EXTENDS PgStore, FiniteSetTheorems, SequenceTheorems, TLAPS

-----------------------------------------------------------------------------
\* A set of numbers that is not empty has a smallest element.
LEMMA SmallestNumber ==
    ASSUME NEW S \in SUBSET Nat, S # {}
    PROVE  \E m \in S : \A i \in S : m <= i
<1>1. PICK m \in S : \A i \in S : <<i, m>> \notin OpToRel(<, Nat)
  BY NatLessThanWellFounded, WFMin, Zenon
<1>2. \A i \in S : ~(i < m)
  BY <1>1, Zenon DEF OpToRel
<1> QED BY <1>2

\* A bounded set of numbers that is not empty has a largest element.
LEMMA LargestNumber ==
    ASSUME NEW S \in SUBSET Nat, S # {}, NEW n \in Nat, \A i \in S : i <= n
    PROVE  \E m \in S : \A i \in S : i <= m
<1> DEFINE T == {n - i : i \in S}
<1>1. T \in SUBSET Nat /\ T # {}
  <2>1. \A i \in S : i \in Nat /\ n - i \in Nat
    OBVIOUS
  <2> QED BY <2>1
<1>2. PICK d \in T : \A e \in T : d <= e
  <2> HIDE DEF T
  <2> QED BY <1>1, SmallestNumber
<1>3. PICK m \in S : d = n - m
  OBVIOUS
<1>4. \A i \in S : n - i \in T /\ i \in Nat
  OBVIOUS
<1>5. \A i \in S : n - m <= n - i
  BY <1>2, <1>3, <1>4
<1> QED BY <1>4, <1>5

-----------------------------------------------------------------------------
(***************************************************************************)
(* The inductive invariant.                                                *)
(***************************************************************************)
Known == rows \cup UNION {tx[t].inserted : t \in Tx}

Stage(trans) ==
    /\ trans.pc = "idle" => trans = Idle
    /\ trans.pc # "idle" => trans.device \in Device
    /\ trans.pc \in {"check", "load", "insert", "upsert"} => trans.ops # <<>>
    /\ \A i \in DOMAIN trans.ops : Valid(trans.ops[i])
    /\ trans.pc = "upsert" =>
          \E row \in trans.inserted :
              /\ row.op = Head(trans.ops)
              /\ row.device = trans.device
              /\ \A other \in trans.inserted : other.cursor <= row.cursor

Stages == \A t \in Tx : Stage(tx[t])

KnownRows ==
    \A row \in Known :
        /\ Valid(row.op)
        /\ row.cursor < nextSeq
        /\ \A other \in Known :
              row.cursor = other.cursor \/ Collides(row, other.device, other.op)
                 => row = other

AcceptedIn(trans, committed) ==
    \A k \in trans.accepted : \E row \in committed \cup trans.inserted :
        row.device = trans.device /\ row.op.idempotency_key = k

AcceptedIsSeen == \A t \in Tx : AcceptedIn(tx[t], rows)

PgInv == PgTypeOK /\ Stages /\ KnownRows /\ AcceptedIsSeen

\* A connection without a transaction is well typed.
LEMMA IdleIsTransaction == Idle \in Transaction
<1>1. <<>> \in Seq(Operation)
  OBVIOUS
<1>2. NoSnapshot \in Snapshot
  BY DEF NoSnapshot, Snapshot
<1>3. QED
  BY <1>1, <1>2 DEF Idle, Transaction

(***************************************************************************)
(* What a transaction is once the operation at its head is done.           *)
(***************************************************************************)
LEMMA DoneIsTransaction ==
    ASSUME NEW trans \in Transaction, trans.ops # <<>>,
           \A i \in DOMAIN trans.ops : Valid(trans.ops[i])
    PROVE  /\ Done(trans) \in Transaction
           /\ Head(trans.ops) \in Operation
           /\ Valid(Head(trans.ops))
           /\ Head(trans.ops).idempotency_key \in Key
           /\ Head(trans.ops).entity \in Entity
           /\ Done(trans).device = trans.device
           /\ Done(trans).ops = Tail(trans.ops)
           /\ Done(trans).current = trans.current
           /\ Done(trans).inserted = trans.inserted
           /\ Done(trans).locks = trans.locks
           /\ Done(trans).written = trans.written
           /\ Done(trans).accepted =
                 trans.accepted \cup {Head(trans.ops).idempotency_key}
           /\ Done(trans).conflicts = trans.conflicts
           /\ Done(trans).pc \in {"check", "commit"}
           /\ Done(trans).pc = "check" => Tail(trans.ops) # <<>>
           /\ \A i \in DOMAIN Tail(trans.ops) : Valid(Tail(trans.ops)[i])
<1> DEFINE ops == trans.ops
<1>1. trans.ops \in Seq(Operation)
  BY DEF Transaction
<1>2. /\ Head(ops) \in Operation
      /\ Head(ops) = ops[1]
      /\ Tail(ops) \in Seq(Operation)
      /\ Len(ops) \in Nat \ {0}
      /\ Len(Tail(ops)) = Len(ops) - 1
      /\ \A i \in DOMAIN Tail(ops) :
            i + 1 \in DOMAIN ops /\ Tail(ops)[i] = ops[i + 1]
  BY <1>1
<1>3. Valid(Head(ops)) /\ \A i \in DOMAIN Tail(ops) : Valid(Tail(ops)[i])
  BY <1>1, <1>2
<1>4. Head(ops).idempotency_key \in Key /\ Head(ops).entity \in Entity
  BY <1>2, <1>3 DEF Operation, Valid
<1> DEFINE pc == IF Len(ops) = 1 THEN "commit" ELSE "check"
           accepted == trans.accepted \cup {Head(ops).idempotency_key}
<1>5. /\ Done(trans) = [trans EXCEPT !.ops = Tail(ops),
                                     !.accepted = accepted, !.pc = pc]
      /\ pc \in {"check", "commit"}
      /\ accepted \in SUBSET Key
  BY <1>4 DEF Done, Transaction
<1>6. Len(ops) # 1 => Tail(ops) # <<>>
  <2>1. Len(ops) # 1 => Len(Tail(ops)) # 0
    BY <1>2
  <2>2. Len(<<>>) = 0
    OBVIOUS
  <2> QED BY <2>1, <2>2
<1> HIDE DEF ops, pc, accepted
<1>7. /\ Done(trans) \in Transaction
      /\ Done(trans).pc = pc
      /\ Done(trans).device = trans.device
      /\ Done(trans).ops = Tail(ops)
      /\ Done(trans).current = trans.current
      /\ Done(trans).inserted = trans.inserted
      /\ Done(trans).locks = trans.locks
      /\ Done(trans).written = trans.written
      /\ Done(trans).accepted = accepted
      /\ Done(trans).conflicts = trans.conflicts
  BY <1>2, <1>5 DEF Transaction
<1>8. QED
  BY <1>2, <1>3, <1>4, <1>5, <1>6, <1>7 DEF ops, pc, accepted

(***************************************************************************)
(* The operation a transaction works on.                                   *)
(***************************************************************************)
LEMMA OpIsValid ==
    ASSUME PgInv, NEW t \in Tx, tx[t].ops # <<>>
    PROVE  /\ tx[t] \in Transaction
           /\ Op(t) \in Operation
           /\ Valid(Op(t))
           /\ Op(t).idempotency_key \in Key
           /\ Op(t).entity \in Entity
           /\ \A i \in DOMAIN tx[t].ops : Valid(tx[t].ops[i])
<1>1. tx[t] \in Transaction /\ \A i \in DOMAIN tx[t].ops : Valid(tx[t].ops[i])
  BY DEF PgInv, PgTypeOK, Stages, Stage
<1>2. QED
  BY <1>1, DoneIsTransaction DEF Op
-----------------------------------------------------------------------------
(***************************************************************************)
(* PgInv holds at the start and is kept by every step.                     *)
(***************************************************************************)
LEMMA PgInvInit == Init => PgInv
<1> SUFFICES ASSUME Init PROVE PgInv
  OBVIOUS
<1>1. \A e \in Entity : entities[e] \in Snapshot
  <2> SUFFICES ASSUME NEW e \in Entity PROVE entities[e] \in Snapshot
    OBVIOUS
  <2>1. CASE \E row \in Seed : row.op.entity = e
    <3> DEFINE row == CHOOSE row \in Seed : row.op.entity = e
    <3>1. row \in StoredOperation
      BY <2>1, SeedAssumption
    <3>2. entities[e] = NextSnapshot(row.op, row.device, NoSnapshot, row.cursor)
      BY <2>1 DEF Init
    <3>3. row.cursor \in Nat /\ row.device \in Nat /\ row.op \in Operation
      BY <3>1, DeviceAssumption DEF StoredOperation
    <3>4. row.op.op_id \in Nat /\ row.op.client_updated \in Nat
      BY <3>3 DEF Operation
    <3> HIDE DEF row
    <3>5. QED
      BY <3>2, <3>3, <3>4 DEF NextSnapshot, NoSnapshot, Snapshot
  <2>2. CASE ~\E row \in Seed : row.op.entity = e
    BY <2>2 DEF Init, NoSnapshot, Snapshot
  <2>3. QED
    BY <2>1, <2>2
<1>2. entities \in [Entity -> Snapshot]
  BY <1>1 DEF Init
<1>3. Cardinality(Seed) \in Nat
  BY SeedAssumption, FS_CardinalityType
<1>4. \A row \in Seed : row.cursor \in 1..Cardinality(Seed)
  BY SeedAssumption
<1>5. \A row, other \in Seed : row.cursor = other.cursor => row = other
  <2> DEFINE C == {row.cursor : row \in Seed}
             f == [row \in Seed |-> row.cursor]
  <2>1. f \in Surjection(Seed, C)
    BY DEF Surjection
  <2>2. IsFiniteSet(Seed) /\ C = 1..Cardinality(Seed)
    BY SeedAssumption
  <2>3. Cardinality(C) = Cardinality(Seed)
    <3>1. Cardinality(1..Cardinality(Seed)) = Cardinality(Seed)
      BY <1>3, FS_Interval
    <3> HIDE DEF C
    <3>2. QED
      BY <2>2, <3>1
  <2> HIDE DEF C, f
  <2>4. f \in Injection(Seed, C)
    BY <2>1, <2>2, <2>3, FS_SurjSameCardinalityImpliesInj
  <2>5. QED
    BY <2>4 DEF Injection, IsInjective, f
<1>6. Known = Seed
  BY DEF Init, Known, Idle
<1>7. \A t \in Tx : tx[t] = Idle /\ tx[t] \in Transaction
  BY IdleIsTransaction DEF Init
<1>8. PgTypeOK
  BY <1>2, <1>3, <1>5, <1>7, SeedAssumption DEF Init, PgTypeOK
<1>9. Stages
  <2>1. Idle.pc = "idle" /\ Idle.ops = <<>> /\ DOMAIN <<>> = {}
    BY DEF Idle
  <2>2. QED
    BY <1>7, <2>1 DEF Stages, Stage
<1>10. KnownRows
  <2>1. nextSeq = Cardinality(Seed) + 1
    BY DEF Init
  <2>2. \A row \in Seed : row.cursor < nextSeq
    BY <2>1, <1>3, <1>4
  <2>3. QED
    BY <2>2, <1>5, <1>6, SeedAssumption DEF KnownRows
<1>11. AcceptedIsSeen
  BY <1>7 DEF AcceptedIsSeen, AcceptedIn, Idle
<1>12. QED
  BY <1>8, <1>9, <1>10, <1>11 DEF PgInv

(***************************************************************************)
(* A step that replaces one transaction and adds no row keeps PgInv, if    *)
(* the new state of the transaction fits its stage.                        *)
(***************************************************************************)
LEMMA OneTransaction ==
    ASSUME PgTypeOK, NEW t \in Tx, NEW X \in Transaction,
           tx' = [tx EXCEPT ![t] = X]
    PROVE  /\ tx' \in [Tx -> Transaction]
           /\ tx'[t] = X
           /\ \A u \in Tx \ {t} : tx'[u] = tx[u]
  BY DEF PgTypeOK

\* The frame of the proof: a step of one transaction that commits only what
\* it inserted, and forgets nothing committed, keeps the invariant.
LEMMA NoNewRow ==
    ASSUME PgInv, NEW t \in Tx, NEW X \in Transaction,
           tx' = [tx EXCEPT ![t] = X],
           Stage(X), AcceptedIn(X, rows'),
           rows \subseteq rows',
           rows' \cup X.inserted \subseteq rows \cup tx[t].inserted,
           nextSeq' \in Nat, nextSeq' >= nextSeq,
           entities' \in [Entity -> Snapshot],
           told' \subseteq ConflictEvent,
           acked' \subseteq Device \X Key,
           UNCHANGED pullVars
    PROVE  PgInv'
<1>1. /\ tx' \in [Tx -> Transaction]
      /\ tx'[t] = X
      /\ \A u \in Tx \ {t} : tx'[u] = tx[u]
  BY OneTransaction DEF PgInv
<1>2. Known' \subseteq Known
  <2> SUFFICES ASSUME NEW row \in Known' PROVE row \in Known
    OBVIOUS
  <2>1. row \in rows' \/ \E u \in Tx : row \in tx'[u].inserted
    BY DEF Known
  <2>2. CASE row \in rows' \/ row \in tx'[t].inserted
    BY <2>2, <1>1 DEF Known
  <2>3. CASE \E u \in Tx \ {t} : row \in tx'[u].inserted
    BY <2>3, <1>1 DEF Known
  <2>4. QED
    BY <2>1, <2>2, <2>3
<1>3. /\ Known \subseteq StoredOperation
      /\ nextSeq \in Nat
      /\ KnownRows
  BY DEF PgInv, PgTypeOK, Known, Transaction
<1>4. KnownRows'
  <2>1. \A row \in Known' : row.cursor \in Nat /\ row.cursor < nextSeq
    BY <1>2, <1>3 DEF KnownRows, StoredOperation
  <2>2. \A row \in Known' : row.cursor < nextSeq'
    BY <2>1, <1>3
  <2>3. QED
    BY <2>2, <1>2, <1>3 DEF KnownRows
<1>5. Stages'
  BY <1>1 DEF PgInv, Stages
<1>6. AcceptedIsSeen'
  <2> SUFFICES ASSUME NEW u \in Tx PROVE AcceptedIn(tx'[u], rows')
    BY DEF AcceptedIsSeen
  <2>1. CASE u = t
    BY <2>1, <1>1
  <2>2. CASE u # t
    BY <2>2, <1>1 DEF PgInv, AcceptedIsSeen, AcceptedIn
  <2>3. QED
    BY <2>1, <2>2
<1>7. nextSeq' \in Nat \ {0}
  BY DEF PgInv, PgTypeOK
<1>8. rows' \subseteq StoredOperation
  BY <1>2, <1>3 DEF Known
<1>9. PgTypeOK'
  <2>1. cursor' \in [Device -> Nat] /\ got' \in [Device -> SUBSET Nat]
    BY DEF PgInv, PgTypeOK, pullVars
  <2>2. \A row \in rows', other \in rows' :
           row.cursor = other.cursor => row = other
    BY <1>4 DEF KnownRows, Known
  <2>3. QED
    BY <1>1, <1>7, <1>8, <2>1, <2>2 DEF PgTypeOK
<1>10. QED
  BY <1>4, <1>5, <1>6, <1>9 DEF PgInv

\* A step that commits nothing and moves one transaction keeps the invariant.
LEMMA OnlyTransaction ==
    ASSUME PgInv, NEW t \in Tx, NEW X \in Transaction,
           tx' = [tx EXCEPT ![t] = X],
           UNCHANGED <<rows, entities, told, nextSeq, acked, pullVars>>,
           Stage(X), AcceptedIn(X, rows), X.inserted \subseteq tx[t].inserted
    PROVE  PgInv'
<1>1. /\ rows' = rows /\ entities' = entities /\ told' = told
      /\ nextSeq' = nextSeq /\ acked' = acked
      /\ UNCHANGED pullVars
  OBVIOUS
<1>2. /\ nextSeq' \in Nat /\ nextSeq' >= nextSeq
      /\ entities' \in [Entity -> Snapshot]
      /\ told' \subseteq ConflictEvent
      /\ acked' \subseteq Device \X Key
  BY <1>1 DEF PgInv, PgTypeOK
<1>3. /\ AcceptedIn(X, rows')
      /\ rows \subseteq rows'
      /\ rows' \cup X.inserted \subseteq rows \cup tx[t].inserted
  BY <1>1
<1>4. QED
  BY <1>1, <1>2, <1>3, NoNewRow

(***************************************************************************)
(* An abort gives everything up: the transaction's rows and its accepted   *)
(* keys go together.                                                       *)
(***************************************************************************)
LEMMA PgInvRollback ==
    ASSUME PgInv, NEW t \in Tx, Rollback(t),
           nextSeq' \in {nextSeq, nextSeq + 1}
    PROVE  PgInv'
<1>1. Idle.inserted = {} /\ Idle.accepted = {} /\ Idle.ops = <<>>
  BY DEF Idle
<1>2. Stage(Idle) /\ AcceptedIn(Idle, rows')
  BY <1>1 DEF Stage, AcceptedIn, Idle
<1>3. nextSeq' \in Nat /\ nextSeq' >= nextSeq
  BY DEF PgInv, PgTypeOK
<1>4. /\ tx' = [tx EXCEPT ![t] = Idle]
      /\ UNCHANGED <<rows, entities, told, acked, pullVars>>
  BY DEF Rollback
<1>5. QED
  BY <1>1, <1>2, <1>3, <1>4, NoNewRow, IdleIsTransaction
     DEF PgInv, PgTypeOK

\* BEGIN keeps the invariant.
LEMMA PgInvBegin ==
    ASSUME PgInv, NEW t \in Tx, NEW d \in Device, NEW ops \in Requests,
           BeginPush(t, d, ops)
    PROVE  PgInv'
<1> DEFINE X == [Idle EXCEPT !.pc = IF ops = <<>> THEN "commit" ELSE "check",
                             !.device = d, !.ops = ops]
<1>1. /\ ops \in Seq(Operation)
      /\ \A i \in DOMAIN ops : Valid(ops[i])
      /\ d \in Nat
  BY RequestsAssumption, DeviceAssumption
<1>2. /\ X \in Transaction
      /\ X.pc = IF ops = <<>> THEN "commit" ELSE "check"
      /\ X.device = d /\ X.ops = ops
      /\ X.inserted = {} /\ X.accepted = {}
  BY <1>1, IdleIsTransaction DEF Idle, Transaction
<1>3. /\ tx' = [tx EXCEPT ![t] = X]
      /\ UNCHANGED <<rows, entities, told, nextSeq, acked, pullVars>>
  BY DEF BeginPush
<1> HIDE DEF X
<1>4. Stage(X)
  BY <1>1, <1>2 DEF Stage
<1>5. AcceptedIn(X, rows) /\ X.inserted \subseteq tx[t].inserted
  BY <1>2 DEF AcceptedIn
<1>6. QED
  BY <1>2, <1>3, <1>4, <1>5, OnlyTransaction

\* The idempotency lookup keeps the invariant: it has found every committed
\* row.
LEMMA PgInvCheck ==
    ASSUME PgInv, NEW t \in Tx, CheckIdempotency(t)
    PROVE  PgInv'
<1>1. tx[t].pc = "check" /\ Stage(tx[t]) /\ tx[t] \in Transaction
  BY DEF CheckIdempotency, PgInv, Stages, PgTypeOK
<1>2. tx[t].ops # <<>> /\ tx[t].device \in Device
  BY <1>1 DEF Stage
<1>3. AcceptedIn(tx[t], rows)
  BY DEF PgInv, AcceptedIsSeen
<1>4. UNCHANGED <<rows, entities, told, nextSeq, acked, pullVars>>
  BY DEF CheckIdempotency
<1>5. CASE \E row \in Visible(t) : SameKey(row, tx[t].device, Op(t))
  <2> DEFINE X == Done(tx[t])
  <2>1. tx' = [tx EXCEPT ![t] = X]
    BY <1>5 DEF CheckIdempotency
  <2>2. /\ X \in Transaction
        /\ X.device = tx[t].device
        /\ X.ops = Tail(tx[t].ops)
        /\ X.inserted = tx[t].inserted
        /\ X.accepted = tx[t].accepted \cup {Op(t).idempotency_key}
        /\ X.pc \in {"check", "commit"}
        /\ X.pc = "check" => Tail(tx[t].ops) # <<>>
        /\ \A i \in DOMAIN Tail(tx[t].ops) : Valid(Tail(tx[t].ops)[i])
    BY <1>1, <1>2, DoneIsTransaction DEF Stage, Op
  <2> HIDE DEF X
  <2>3. Stage(X)
    BY <1>2, <2>2 DEF Stage
  <2>4. AcceptedIn(X, rows)
    BY <1>3, <1>4, <1>5, <2>2 DEF AcceptedIn, Visible, SameKey
  <2>5. QED
    BY <1>4, <2>1, <2>2, <2>3, <2>4, OnlyTransaction
<1>6. CASE ~\E row \in Visible(t) : SameKey(row, tx[t].device, Op(t))
  <2> DEFINE X == [tx[t] EXCEPT !.pc = "load"]
  <2>1. tx' = [tx EXCEPT ![t] = X]
    BY <1>6 DEF CheckIdempotency
  <2>2. /\ X \in Transaction
        /\ X.pc = "load"
        /\ X.device = tx[t].device
        /\ X.ops = tx[t].ops
        /\ X.inserted = tx[t].inserted
        /\ X.accepted = tx[t].accepted
    BY <1>1 DEF Transaction
  <2> HIDE DEF X
  <2>3. Stage(X)
    BY <1>1, <1>2, <2>2 DEF Stage
  <2>4. AcceptedIn(X, rows)
    BY <1>3, <1>4, <2>2 DEF AcceptedIn
  <2>5. QED
    BY <1>4, <2>1, <2>2, <2>3, <2>4, OnlyTransaction
<1>7. QED
  BY <1>5, <1>6

\* The lock of the snapshot keeps the invariant.
LEMMA PgInvLoad ==
    ASSUME PgInv, NEW t \in Tx, LoadEntityStateForUpdate(t)
    PROVE  PgInv'
<1> DEFINE e == Op(t).entity
           found == IF tx[t].written[e].version # 0
                    THEN tx[t].written[e] ELSE entities[e]
           locks == IF found.version = 0 THEN tx[t].locks
                    ELSE tx[t].locks \cup {e}
           X == [tx[t] EXCEPT !.pc = "insert", !.current = found,
                              !.locks = locks]
<1>1. tx[t].pc = "load" /\ Stage(tx[t]) /\ tx[t] \in Transaction
  BY DEF LoadEntityStateForUpdate, PgInv, Stages, PgTypeOK
<1>2. tx[t].ops # <<>> /\ tx[t].device \in Device
  BY <1>1 DEF Stage
<1>3. e \in Entity
  BY <1>2, OpIsValid
<1>4. found \in Snapshot /\ locks \in SUBSET Entity
  BY <1>1, <1>3 DEF PgInv, PgTypeOK, Transaction
<1>5. AcceptedIn(tx[t], rows)
  BY DEF PgInv, AcceptedIsSeen
<1>6. /\ tx' = [tx EXCEPT ![t] = X]
      /\ UNCHANGED <<rows, entities, told, nextSeq, acked, pullVars>>
  BY DEF LoadEntityStateForUpdate
<1> HIDE DEF found, locks
<1>7. /\ X \in Transaction
      /\ X.pc = "insert"
      /\ X.device = tx[t].device
      /\ X.ops = tx[t].ops
      /\ X.inserted = tx[t].inserted
      /\ X.accepted = tx[t].accepted
  BY <1>1, <1>4 DEF Transaction
<1> HIDE DEF X
<1>8. Stage(X)
  BY <1>1, <1>2, <1>7 DEF Stage
<1>9. AcceptedIn(X, rows)
  BY <1>5, <1>7 DEF AcceptedIn
<1>10. QED
  BY <1>6, <1>7, <1>8, <1>9, OnlyTransaction

(***************************************************************************)
(* What the upsert makes of the transaction.                               *)
(***************************************************************************)
LEMMA UpsertEffect ==
    ASSUME PgInv, NEW t \in Tx, UpsertEntityState(t)
    PROVE  \E X \in Transaction, snapshot \in Snapshot :
             /\ tx' = [tx EXCEPT ![t] = X]
             /\ snapshot.version = tx[t].current.version + 1
             /\ X.pc \in {"check", "commit"}
             /\ X.pc = "check" => X.ops # <<>>
             /\ X.device = tx[t].device
             /\ \A i \in DOMAIN X.ops : Valid(X.ops[i])
             /\ X.accepted = tx[t].accepted \cup {Op(t).idempotency_key}
             /\ X.inserted = tx[t].inserted
             /\ X.locks = tx[t].locks \cup {Op(t).entity}
             /\ X.written =
                   [tx[t].written EXCEPT ![Op(t).entity] = snapshot]
             /\ X.conflicts = tx[t].conflicts
<1> DEFINE e == Op(t).entity
           cursors == {row.cursor : row \in tx[t].inserted}
           seq == CHOOSE c \in cursors :
                     \A row \in tx[t].inserted : row.cursor <= c
           snapshot == NextSnapshot(Op(t), tx[t].device, tx[t].current, seq)
           Y == [tx[t] EXCEPT !.written[e] = snapshot,
                              !.locks = tx[t].locks \cup {e}]
           X == Done(Y)
<1>1. tx[t].pc = "upsert" /\ Stage(tx[t]) /\ tx[t] \in Transaction
  BY DEF UpsertEntityState, PgInv, Stages, PgTypeOK
<1>2. /\ tx[t].ops # <<>> /\ tx[t].device \in Device
      /\ \A i \in DOMAIN tx[t].ops : Valid(tx[t].ops[i])
  BY <1>1 DEF Stage
<1>3. Op(t) \in Operation /\ e \in Entity
  BY <1>2, OpIsValid
<1>4. PICK row \in tx[t].inserted :
         \A other \in tx[t].inserted : other.cursor <= row.cursor
  BY <1>1 DEF Stage
<1>5. seq \in cursors /\ cursors \subseteq Nat
  BY <1>1, <1>4 DEF Transaction, StoredOperation
<1>6. /\ snapshot \in Snapshot
      /\ snapshot.version = tx[t].current.version + 1
  <2>1. seq \in Nat /\ tx[t].device \in Nat /\ tx[t].current \in Snapshot
    BY <1>1, <1>5 DEF Transaction
  <2> HIDE DEF seq
  <2>2. QED
    BY <2>1, <1>3 DEF NextSnapshot, Snapshot, Operation
<1>7. tx' = [tx EXCEPT ![t] = X]
  BY DEF UpsertEntityState
<1> HIDE DEF snapshot
<1> DEFINE written == [tx[t].written EXCEPT ![e] = snapshot]
           locks == tx[t].locks \cup {e}
<1>8. written \in [Entity -> Snapshot] /\ locks \in SUBSET Entity
  BY <1>1, <1>3, <1>6 DEF Transaction
<1>9. Y = [tx[t] EXCEPT !.written = written, !.locks = locks]
  BY <1>1 DEF Transaction
<1>10. /\ written = [tx[t].written EXCEPT ![e] = snapshot]
       /\ locks = tx[t].locks \cup {e}
  OBVIOUS
<1> HIDE DEF written, locks
<1>11. /\ Y \in Transaction
       /\ Y.device = tx[t].device /\ Y.ops = tx[t].ops
       /\ Y.accepted = tx[t].accepted
       /\ Y.inserted = tx[t].inserted /\ Y.locks = locks
       /\ Y.written = written /\ Y.conflicts = tx[t].conflicts
  BY <1>1, <1>8, <1>9 DEF Transaction
<1> HIDE DEF Y
<1>12. /\ X \in Transaction
       /\ X.pc \in {"check", "commit"}
       /\ X.pc = "check" => X.ops # <<>>
       /\ X.device = tx[t].device
       /\ \A i \in DOMAIN X.ops : Valid(X.ops[i])
       /\ X.accepted = tx[t].accepted \cup {Op(t).idempotency_key}
       /\ X.inserted = tx[t].inserted /\ X.locks = locks
       /\ X.written = written /\ X.conflicts = tx[t].conflicts
  <2>1. Y.ops # <<>> /\ \A i \in DOMAIN Y.ops : Valid(Y.ops[i])
    BY <1>2, <1>11
  <2>2. QED
    BY <2>1, <1>11, DoneIsTransaction DEF Op
<1> HIDE DEF X
<1>13. QED
  BY <1>6, <1>7, <1>10, <1>12

\* The upsert of the snapshot keeps the invariant.
LEMMA PgInvUpsert ==
    ASSUME PgInv, NEW t \in Tx, UpsertEntityState(t)
    PROVE  PgInv'
<1>1. PICK X \in Transaction :
         /\ tx' = [tx EXCEPT ![t] = X]
         /\ X.pc \in {"check", "commit"}
         /\ X.pc = "check" => X.ops # <<>>
         /\ X.device = tx[t].device
         /\ \A i \in DOMAIN X.ops : Valid(X.ops[i])
         /\ X.accepted = tx[t].accepted \cup {Op(t).idempotency_key}
         /\ X.inserted = tx[t].inserted
  BY UpsertEffect
<1>2. /\ tx[t].pc = "upsert" /\ Stage(tx[t]) /\ AcceptedIn(tx[t], rows)
      /\ UNCHANGED <<rows, entities, told, nextSeq, acked, pullVars>>
  BY DEF UpsertEntityState, PgInv, Stages, AcceptedIsSeen
<1>3. \E row \in tx[t].inserted :
         row.device = tx[t].device /\ row.op = Op(t)
  BY <1>2 DEF Stage, Op
<1>4. Stage(X)
  BY <1>1, <1>2 DEF Stage
<1>5. AcceptedIn(X, rows)
  BY <1>1, <1>2, <1>3 DEF AcceptedIn
<1>6. QED
  BY <1>1, <1>2, <1>4, <1>5, OnlyTransaction

(***************************************************************************)
(* A commit moves the transaction's rows to the committed ones.            *)
(***************************************************************************)
LEMMA PgInvCommit ==
    ASSUME PgInv, NEW t \in Tx, Commit(t)
    PROVE  PgInv'
<1>1. /\ tx[t].pc = "commit" /\ Stage(tx[t]) /\ tx[t] \in Transaction
      /\ nextSeq \in Nat
  BY DEF Commit, PgInv, Stages, PgTypeOK
<1>2. tx[t].device \in Device
  BY <1>1 DEF Stage
<1>3. Idle.inserted = {} /\ Idle.accepted = {} /\ Idle.ops = <<>>
  BY DEF Idle
<1>4. Stage(Idle) /\ AcceptedIn(Idle, rows')
  BY <1>3 DEF Stage, AcceptedIn, Idle
<1>5. /\ tx' = [tx EXCEPT ![t] = Idle]
      /\ rows' = rows \cup tx[t].inserted
      /\ told' = told \cup tx[t].conflicts
      /\ nextSeq' = nextSeq
      /\ UNCHANGED pullVars
  BY DEF Commit
<1>6. entities' \in [Entity -> Snapshot]
  <2>1. \A e \in Entity : /\ tx[t].written[e] \in Snapshot
                          /\ entities[e] \in Snapshot
    BY <1>1 DEF Transaction, PgInv, PgTypeOK
  <2>2. entities' = [e \in Entity |-> IF tx[t].written[e].version # 0
                                      THEN tx[t].written[e] ELSE entities[e]]
    BY DEF Commit
  <2>3. QED
    BY <2>1, <2>2
<1>7. told' \subseteq ConflictEvent
  BY <1>1, <1>5 DEF Transaction, PgInv, PgTypeOK
<1>8. acked' \subseteq Device \X Key
  <2>1. tx[t].accepted \subseteq Key /\ acked \subseteq Device \X Key
    BY <1>1 DEF Transaction, PgInv, PgTypeOK
  <2>2. {<<tx[t].device, k>> : k \in tx[t].accepted} \subseteq Device \X Key
    BY <2>1, <1>2
  <2>3. QED
    BY <2>1, <2>2 DEF Commit
<1>9. /\ rows \subseteq rows'
      /\ rows' \cup Idle.inserted \subseteq rows \cup tx[t].inserted
  BY <1>3, <1>5
<1>10. nextSeq' \in Nat /\ nextSeq' >= nextSeq
  BY <1>1, <1>5
<1>11. QED
  BY <1>4, <1>5, <1>6, <1>7, <1>8, <1>9, <1>10, NoNewRow, IdleIsTransaction

(***************************************************************************)
(* The row t inserts, and what it makes of the transaction.                *)
(***************************************************************************)
NewRow(t) ==
    [cursor |-> nextSeq, device |-> tx[t].device,
     applied |-> Applied(Op(t), tx[t].device, tx[t].current), op |-> Op(t)]

\* After the INSERT the transaction has its row besides the earlier ones, and
\* goes to the upsert or is done with the operation.
LEMMA InsertEffect ==
    ASSUME PgInv, NEW t \in Tx, InsertOperation(t)
    PROVE  \E X \in Transaction :
             /\ tx' = [tx EXCEPT ![t] = X]
             /\ X.device = tx[t].device
             /\ X.current = tx[t].current
             /\ X.inserted = tx[t].inserted \cup {NewRow(t)}
             /\ X.locks = tx[t].locks
             /\ X.written = tx[t].written
             /\ X.conflicts =
                   IF IsConflict(Op(t), tx[t].current)
                   THEN tx[t].conflicts
                           \cup {Event(Op(t), tx[t].device, tx[t].current)}
                   ELSE tx[t].conflicts
             /\ IF NewRow(t).applied
                THEN /\ X.pc = "upsert"
                     /\ X.ops = tx[t].ops
                     /\ X.accepted = tx[t].accepted
                ELSE /\ X.pc \in {"check", "commit"}
                     /\ X.pc = "check" => X.ops # <<>>
                     /\ X.ops = Tail(tx[t].ops)
                     /\ \A i \in DOMAIN X.ops : Valid(X.ops[i])
                     /\ X.accepted =
                           tx[t].accepted \cup {Op(t).idempotency_key}
<1> DEFINE d == tx[t].device
           op == Op(t)
           applied == Applied(op, d, tx[t].current)
           rest == tx[t].inserted \cup {NewRow(t)}
           events == IF IsConflict(op, tx[t].current)
                     THEN tx[t].conflicts \cup {Event(op, d, tx[t].current)}
                     ELSE tx[t].conflicts
           Y == [tx[t] EXCEPT !.inserted = rest, !.conflicts = events]
<1>1. tx[t].pc = "insert" /\ Stage(tx[t]) /\ tx[t] \in Transaction
  BY DEF InsertOperation, PgInv, Stages, PgTypeOK
<1>2. /\ tx[t].ops # <<>> /\ d \in Device /\ d \in Nat
      /\ \A i \in DOMAIN tx[t].ops : Valid(tx[t].ops[i])
  BY <1>1, DeviceAssumption DEF Stage
<1>3. op \in Operation /\ op.entity \in Entity
  BY <1>2, OpIsValid
<1>4. applied \in BOOLEAN /\ nextSeq \in Nat
  BY DEF Applied, IsConflict, IncomingWinsByLWW, PgInv, PgTypeOK
<1>5. NewRow(t) \in StoredOperation /\ NewRow(t).applied = applied
  BY <1>2, <1>3, <1>4 DEF NewRow, StoredOperation
<1>6. tx[t].current \in Snapshot
  BY <1>1 DEF Transaction
<1>7. Event(op, d, tx[t].current) \in ConflictEvent
  BY <1>2, <1>3, <1>6 DEF Event, ConflictEvent, Operation, Snapshot
<1>8. rest \in SUBSET StoredOperation /\ events \in SUBSET ConflictEvent
  BY <1>1, <1>5, <1>7 DEF Transaction
<1>9. tx' = [tx EXCEPT ![t] = IF applied THEN [Y EXCEPT !.pc = "upsert"]
                              ELSE Done(Y)]
  BY DEF InsertOperation, NewRow, NewSeq
<1>10. rest = tx[t].inserted \cup {NewRow(t)}
  OBVIOUS
<1> DEFINE E == Event(op, d, tx[t].current)
<1>11. events = IF IsConflict(op, tx[t].current)
                THEN tx[t].conflicts \cup {E} ELSE tx[t].conflicts
  OBVIOUS
<1> HIDE DEF applied, rest, events, op
<1>12. /\ Y \in Transaction
       /\ Y.pc = "insert" /\ Y.device = d /\ Y.ops = tx[t].ops
       /\ Y.current = tx[t].current /\ Y.inserted = rest
       /\ Y.locks = tx[t].locks /\ Y.written = tx[t].written
       /\ Y.accepted = tx[t].accepted /\ Y.conflicts = events
  BY <1>1, <1>8 DEF Transaction
<1> HIDE DEF Y
<1>13. CASE applied
  <2> DEFINE X == [Y EXCEPT !.pc = "upsert"]
  <2>1. tx' = [tx EXCEPT ![t] = X]
    BY <1>9, <1>13
  <2>2. /\ X \in Transaction
        /\ X.pc = "upsert" /\ X.device = d /\ X.ops = tx[t].ops
        /\ X.current = tx[t].current /\ X.inserted = rest
        /\ X.locks = tx[t].locks /\ X.written = tx[t].written
        /\ X.accepted = tx[t].accepted /\ X.conflicts = events
    BY <1>12 DEF Transaction
  <2> HIDE DEF X
  <2>3. QED
    BY <2>1, <2>2, <1>5, <1>10, <1>11, <1>13 DEF op
<1>14. CASE ~applied
  <2> DEFINE X == Done(Y)
  <2>1. tx' = [tx EXCEPT ![t] = X]
    BY <1>9, <1>14
  <2>2. /\ X \in Transaction
        /\ X.pc \in {"check", "commit"}
        /\ X.pc = "check" => Tail(tx[t].ops) # <<>>
        /\ X.device = d /\ X.ops = Tail(tx[t].ops)
        /\ \A i \in DOMAIN Tail(tx[t].ops) : Valid(Tail(tx[t].ops)[i])
        /\ X.current = tx[t].current /\ X.inserted = rest
        /\ X.locks = tx[t].locks /\ X.written = tx[t].written
        /\ X.accepted = tx[t].accepted \cup {Head(tx[t].ops).idempotency_key}
        /\ X.conflicts = events
    <3>1. Y.ops # <<>> /\ \A i \in DOMAIN Y.ops : Valid(Y.ops[i])
      BY <1>2, <1>12
    <3>2. QED
      BY <3>1, <1>12, DoneIsTransaction
  <2> HIDE DEF X
  <2>3. X.accepted = tx[t].accepted \cup {Op(t).idempotency_key}
    BY <2>2 DEF Op
  <2>4. /\ X.pc = "check" => X.ops # <<>>
        /\ \A i \in DOMAIN X.ops : Valid(X.ops[i])
    BY <2>2
  <2>5. QED
    BY <2>1, <2>2, <2>3, <2>4, <1>5, <1>10, <1>11, <1>14 DEF op
<1>15. QED
  BY <1>13, <1>14

\* The INSERT keeps the invariant: the unique index refuses a second row for
\* a key.
LEMMA PgInvInsert ==
    ASSUME PgInv, NEW t \in Tx, InsertOperation(t)
    PROVE  PgInv'
<1> DEFINE new == NewRow(t)
<1>1. PICK X \in Transaction :
         /\ tx' = [tx EXCEPT ![t] = X]
         /\ X.device = tx[t].device
         /\ X.inserted = tx[t].inserted \cup {new}
         /\ IF new.applied
            THEN /\ X.pc = "upsert"
                 /\ X.ops = tx[t].ops
                 /\ X.accepted = tx[t].accepted
            ELSE /\ X.pc \in {"check", "commit"}
                 /\ X.pc = "check" => X.ops # <<>>
                 /\ X.ops = Tail(tx[t].ops)
                 /\ \A i \in DOMAIN X.ops : Valid(X.ops[i])
                 /\ X.accepted = tx[t].accepted \cup {Op(t).idempotency_key}
  BY InsertEffect
<1>2. /\ tx' \in [Tx -> Transaction]
      /\ tx'[t] = X
      /\ \A u \in Tx \ {t} : tx'[u] = tx[u]
  BY <1>1, OneTransaction DEF PgInv
<1>3. /\ UNCHANGED <<rows, entities, told, acked, pullVars>>
      /\ nextSeq' = nextSeq + 1
      /\ nextSeq \in Nat
      /\ tx[t].pc = "insert" /\ Stage(tx[t])
      /\ \A row \in Visible(t) : ~Collides(row, tx[t].device, Op(t))
      /\ Blockers(t) = {}
  BY DEF InsertOperation, PgInv, PgTypeOK, Stages
<1>4. /\ new.cursor = nextSeq
      /\ new.device = tx[t].device
      /\ new.op = Op(t)
  BY DEF NewRow
<1> HIDE DEF new
<1>5. Known' = Known \cup {new}
  <2>1. \A row \in Known' : row \in Known \cup {new}
    BY <1>1, <1>2, <1>3 DEF Known
  <2>2. \A row \in Known : row \in Known'
    <3>1. \A u \in Tx : tx[u].inserted \subseteq tx'[u].inserted
      BY <1>1, <1>2
    <3>2. QED
      BY <3>1, <1>3 DEF Known
  <2>3. new \in Known'
    BY <1>1, <1>2 DEF Known
  <2>4. QED
    BY <2>1, <2>2, <2>3
<1>6. \A row \in Known : ~Collides(row, tx[t].device, Op(t))
  <2> SUFFICES ASSUME NEW row \in Known, Collides(row, tx[t].device, Op(t))
               PROVE  FALSE
    OBVIOUS
  <2>1. row \notin Visible(t)
    BY <1>3
  <2>2. PICK u \in Tx : row \in tx[u].inserted
    BY <2>1 DEF Known, Visible
  <2>3. u \in Others(t)
    BY <2>1, <2>2 DEF Visible, Others
  <2>4. Blockers(t) = {v \in Others(t) : \E r \in tx[v].inserted :
                          Collides(r, tx[t].device, Op(t))}
    BY <1>3 DEF Blockers
  <2>5. QED
    BY <2>2, <2>3, <2>4, <1>3
<1>7. \A row \in Known : row.cursor \in Nat /\ row.cursor < nextSeq
  BY DEF PgInv, PgTypeOK, KnownRows, Known, StoredOperation, Transaction
<1>8. KnownRows'
  <2>1. \A row \in Known' : row.cursor < nextSeq'
    BY <1>3, <1>4, <1>5, <1>7
  <2>2. \A row \in Known :
           /\ row.cursor # new.cursor
           /\ ~Collides(row, new.device, new.op)
           /\ ~Collides(new, row.device, row.op)
    BY <1>4, <1>6, <1>7 DEF Collides, SameKey
  <2>3. Valid(new.op)
    BY <1>3, <1>4, OpIsValid DEF Stage
  <2>4. QED
    BY <2>1, <2>2, <2>3, <1>5 DEF PgInv, KnownRows
<1>9. Stage(X)
  <2>1. X.device \in Device
    BY <1>1, <1>3 DEF Stage
  <2>2. CASE new.applied
    <3>1. X.ops # <<>> /\ \A i \in DOMAIN X.ops : Valid(X.ops[i])
      BY <1>1, <1>3, <2>2 DEF Stage
    <3>2. \A row \in tx[t].inserted : row.cursor <= nextSeq
      BY <1>7, <1>3 DEF Known
    <3>3. \A row \in X.inserted : row.cursor <= new.cursor
      BY <3>2, <1>1, <1>3, <1>4
    <3>4. new \in X.inserted /\ new.op = Head(X.ops) /\ new.device = X.device
      BY <1>1, <1>4, <2>2 DEF Op
    <3>5. QED
      BY <2>1, <2>2, <1>1, <3>1, <3>3, <3>4 DEF Stage
  <2>3. CASE ~new.applied
    BY <2>1, <2>3, <1>1 DEF Stage
  <2>4. QED
    BY <2>2, <2>3
<1>10. AcceptedIn(X, rows)
  BY <1>1, <1>4 DEF PgInv, AcceptedIsSeen, AcceptedIn
<1>11. Stages'
  BY <1>2, <1>9 DEF PgInv, Stages
<1>12. AcceptedIsSeen'
  <2> SUFFICES ASSUME NEW u \in Tx PROVE AcceptedIn(tx'[u], rows)
    BY <1>3 DEF AcceptedIsSeen
  <2>1. CASE u = t
    BY <2>1, <1>2, <1>10
  <2>2. CASE u # t
    BY <2>2, <1>2 DEF PgInv, AcceptedIsSeen
  <2>3. QED
    BY <2>1, <2>2
<1>13. PgTypeOK'
  BY <1>2, <1>3 DEF PgInv, PgTypeOK, pullVars
<1>14. QED
  BY <1>8, <1>11, <1>12, <1>13 DEF PgInv

(***************************************************************************)
(* The next cursor of a page that is not empty is the largest one in it.   *)
(***************************************************************************)
LEMMA PageEnd ==
    ASSUME PgInv, NEW c, Page(c) # {}
    PROVE  /\ NextCursor(c) \in {row.cursor : row \in Page(c)}
           /\ \A row \in Page(c) : row.cursor <= NextCursor(c)
<1> DEFINE S == {row.cursor : row \in Page(c)}
<1>1. Page(c) \subseteq rows
  BY DEF Page, AppliedAfter
<1>2. nextSeq \in Nat /\ \A row \in rows : row.cursor \in Nat /\ row.cursor < nextSeq
  BY DEF PgInv, PgTypeOK, KnownRows, Known, StoredOperation
<1>3. S \subseteq 0..nextSeq /\ S \in SUBSET Nat
  <2>1. \A row \in Page(c) : row.cursor \in 0..nextSeq
    BY <1>1, <1>2
  <2>2. 0..nextSeq \subseteq Nat
    BY <1>2
  <2>3. S \subseteq 0..nextSeq
    BY <2>1
  <2>4. QED
    BY <2>2, <2>3
<1>4. \A i \in S : i <= nextSeq
  BY <1>1, <1>2
<1>5. PICK m \in S : \A i \in S : i <= m
  <2>1. S # {}
    OBVIOUS
  <2> HIDE DEF S
  <2>2. QED
    BY <2>1, <1>2, <1>3, <1>4, LargestNumber
<1>6. \A row \in Page(c) : row.cursor <= m
  BY <1>5
<1>7. QED
  BY <1>5, <1>6 DEF NextCursor

\* A pull changes nothing the invariant is about.
LEMMA PgInvPull ==
    ASSUME PgInv, NEW d \in Device, Pull(d)
    PROVE  PgInv'
<1>1. /\ Page(cursor[d]) # {}
      /\ got' = [got EXCEPT ![d] = @ \cup {row.cursor : row \in Page(cursor[d])}]
      /\ cursor' = [cursor EXCEPT ![d] = NextCursor(cursor[d])]
      /\ UNCHANGED <<rows, entities, told, nextSeq, tx, acked>>
  BY DEF Pull
<1>2. {row.cursor : row \in Page(cursor[d])} \subseteq Nat
  BY DEF Page, AppliedAfter, PgInv, PgTypeOK, StoredOperation
<1>3. NextCursor(cursor[d]) \in Nat
  BY <1>1, <1>2, PageEnd
<1>4. cursor' \in [Device -> Nat] /\ got' \in [Device -> SUBSET Nat]
  BY <1>1, <1>2, <1>3 DEF PgInv, PgTypeOK
<1>5. PgTypeOK'
  BY <1>1, <1>4 DEF PgInv, PgTypeOK
<1>6. Stages' /\ KnownRows' /\ AcceptedIsSeen'
  <2>1. Known' = Known
    BY <1>1 DEF Known
  <2>2. QED
    BY <1>1, <2>1 DEF PgInv, Stages, KnownRows, AcceptedIsSeen
<1>7. QED
  BY <1>5, <1>6 DEF PgInv

\* PgInv is inductive: one case per action.
LEMMA PgInvNext == PgInv /\ [Next]_vars => PgInv'
<1> SUFFICES ASSUME PgInv, [Next]_vars PROVE PgInv'
  OBVIOUS
<1>1. ASSUME NEW t \in Tx, NEW d \in Device, NEW ops \in Requests,
             BeginPush(t, d, ops)
      PROVE  PgInv'
  BY <1>1, PgInvBegin
<1>2. ASSUME NEW t \in Tx, Statement(t)
      PROVE  PgInv'
  <2>1. CASE CheckIdempotency(t)
    BY <2>1, PgInvCheck
  <2>2. CASE LoadEntityStateForUpdate(t)
    BY <2>2, PgInvLoad
  <2>3. CASE InsertOperation(t)
    BY <2>3, PgInvInsert
  <2>4. CASE UniqueViolation(t)
    BY <2>4, PgInvRollback DEF UniqueViolation
  <2>5. CASE UpsertEntityState(t)
    BY <2>5, PgInvUpsert
  <2>6. CASE Commit(t)
    BY <2>6, PgInvCommit
  <2>7. CASE DeadlockAbort(t)
    BY <2>7, PgInvRollback DEF DeadlockAbort
  <2>8. QED
    BY <1>2, <2>1, <2>2, <2>3, <2>4, <2>5, <2>6, <2>7 DEF Statement
<1>3. ASSUME NEW t \in Tx, Fail(t)
      PROVE  PgInv'
  BY <1>3, PgInvRollback DEF Fail
<1>4. ASSUME NEW d \in Device, Pull(d)
      PROVE  PgInv'
  BY <1>4, PgInvPull
<1>5. ASSUME UNCHANGED vars
      PROVE  PgInv'
  <2>1. Known' = Known
    BY <1>5 DEF vars, Known
  <2>2. QED
    BY <1>5, <2>1 DEF vars, pullVars, PgInv, PgTypeOK, Stages, KnownRows,
                      AcceptedIsSeen
<1>6. QED
  BY <1>1, <1>2, <1>3, <1>4, <1>5 DEF Next

(***************************************************************************)
(* The transactions of the Postgres store keep PgInv, whatever is pushed,  *)
(* by how many connections, and wherever they are aborted.                 *)
(***************************************************************************)
THEOREM PgInvariance == Spec => []PgInv
<1>1. QED
  BY PgInvInit, PgInvNext, PTL DEF Spec

(***************************************************************************)
(* Type correctness of the Postgres store; no two rows have one seq.       *)
(***************************************************************************)
THEOREM PgTypeCorrect == Spec => []PgTypeOK
<1>1. PgInv => PgTypeOK
  BY DEF PgInv
<1>2. QED
  BY <1>1, PgInvariance, PTL

(***************************************************************************)
(* Push logs an operation once, however often it is sent and to however    *)
(* many transactions at once (postgres_store.go:41,115-126).               *)
(***************************************************************************)
THEOREM PgLoggedOnce == Spec => []OnceInLog
<1>1. PgInv => OnceInLog
  BY DEF PgInv, KnownRows, Known, OnceInLog, Collides
<1>2. QED
  BY <1>1, PgInvariance, PTL

(***************************************************************************)
(* What Push answered as accepted is committed and stays so: an abort, a   *)
(* deadlock or a lost answer never leaves an acknowledged operation out of *)
(* the log (postgres_store.go:228-236).                                    *)
(***************************************************************************)
THEOREM PgAcceptedLogged == Spec => []AcceptedIsLogged
<1>1. Init => AcceptedIsLogged
  BY DEF Init, AcceptedIsLogged
<1>2. PgInv /\ AcceptedIsLogged /\ [Next]_vars => AcceptedIsLogged'
  <2> SUFFICES ASSUME PgInv, AcceptedIsLogged, [Next]_vars
               PROVE  AcceptedIsLogged'
    OBVIOUS
  <2>1. ASSUME NEW t \in Tx, Commit(t)
        PROVE  AcceptedIsLogged'
    <3>1. /\ rows' = rows \cup tx[t].inserted
          /\ acked' \subseteq
                acked \cup {<<tx[t].device, k>> : k \in tx[t].accepted}
      BY <2>1 DEF Commit
    <3>2. \A k \in tx[t].accepted : \E row \in rows' :
             row.device = tx[t].device /\ row.op.idempotency_key = k
      BY <3>1 DEF PgInv, AcceptedIsSeen, AcceptedIn
    <3>3. QED
      BY <3>1, <3>2 DEF AcceptedIsLogged
  <2>2. ASSUME UNCHANGED <<rows, acked>>
        PROVE  AcceptedIsLogged'
    BY <2>2 DEF AcceptedIsLogged
  <2>3. \/ \E t \in Tx : Commit(t)
        \/ UNCHANGED <<rows, acked>>
    BY DEF Next, vars, Statement, BeginPush, CheckIdempotency,
           LoadEntityStateForUpdate, InsertOperation, UniqueViolation,
           UpsertEntityState, DeadlockAbort, Fail, Rollback, Pull
  <2>4. QED
    BY <2>1, <2>2, <2>3
<1>3. QED
  BY <1>1, <1>2, PgInvariance, PTL DEF Spec
-----------------------------------------------------------------------------
(***************************************************************************)
(* SameBaseInv: what the row locks of sync_entities give, where every      *)
(* entity has a row.  Latest is the version trans works from: its own, or  *)
(* the committed one.                                                      *)
(***************************************************************************)
Latest(trans, e, committed) ==
    IF trans.written[e].version # 0 THEN trans.written[e] ELSE committed[e]

Mentioned(row, events) ==
    \E event \in events : /\ event.entity = row.op.entity
                          /\ row.op.op_id \in {event.winner, event.loser}

HoldsLatest(trans, committed) ==
    /\ \A e \in Entity :
          trans.written[e].version # 0 =>
             /\ e \in trans.locks
             /\ trans.written[e].version > committed[e].version
    /\ trans.pc \in {"insert", "upsert"} =>
          /\ Head(trans.ops).entity \in trans.locks
          /\ trans.current = Latest(trans, Head(trans.ops).entity, committed)

(***************************************************************************)
(* An operation that no conflict mentions was made on the latest version   *)
(* there was, so its base is below the version it led to.                  *)
(***************************************************************************)
BasesInserted(trans, committed) ==
    \A row \in trans.inserted :
        /\ row.op.entity \in trans.locks
        /\ ~Mentioned(row, trans.conflicts) =>
           /\ row.op.base_version >= committed[row.op.entity].version
           /\ \/ row.op.base_version
                    < Latest(trans, row.op.entity, committed).version
              \/ /\ trans.pc = "upsert"
                 /\ row.op = Head(trans.ops)
                 /\ row.op.base_version = trans.current.version
           /\ \A other \in trans.inserted :
                 /\ ~Mentioned(other, trans.conflicts)
                 /\ row.op.entity = other.op.entity
                 /\ row.op.base_version = other.op.base_version
                 => row = other

BasesCommitted ==
    \A row \in rows :
        ~Mentioned(row, told) =>
           /\ row.op.base_version < entities[row.op.entity].version
           /\ \A other \in rows :
                 /\ ~Mentioned(other, told)
                 /\ row.op.entity = other.op.entity
                 /\ row.op.base_version = other.op.base_version
                 => row = other

Exclusive ==
    \A t, u \in Tx : tx[t].locks \cap tx[u].locks # {} => t = u

AllWritten == \A e \in Entity : entities[e].version # 0

SameBaseInv ==
    /\ AllWritten
    /\ Exclusive
    /\ BasesCommitted
    /\ \A t \in Tx : /\ HoldsLatest(tx[t], entities)
                     /\ BasesInserted(tx[t], entities)

(***************************************************************************)
(* The hypothesis: the first operation on every entity, made on no         *)
(* version, is there at the start.  Without its row nothing is locked, and *)
(* two first operations do not meet.                                       *)
(***************************************************************************)
FirstsLogged ==
    \A e \in Entity : \E row \in Seed :
        row.op.entity = e /\ row.op.base_version = 0

\* The seeded rows satisfy the invariant about bases.
LEMMA SameBaseInit == FirstsLogged /\ Init => SameBaseInv
<1> SUFFICES ASSUME FirstsLogged, Init PROVE SameBaseInv
  OBVIOUS
<1>1. ASSUME NEW row \in Seed
      PROVE  /\ row.op.base_version = 0
             /\ row.op.entity \in Entity
             /\ entities[row.op.entity].version = 1
  <2>1. row.op.entity \in Entity
    BY SeedAssumption DEF StoredOperation, Operation, Valid
  <2>2. PICK first \in Seed :
           first.op.entity = row.op.entity /\ first.op.base_version = 0
    BY <2>1 DEF FirstsLogged
  <2>3. row = first
    BY <2>2, SeedAssumption
  <2>4. entities[row.op.entity].version = 1
    BY <2>1 DEF Init, NextSnapshot, NoSnapshot
  <2>5. QED
    BY <2>1, <2>2, <2>3, <2>4
<1>2. AllWritten
  BY <1>1 DEF AllWritten, FirstsLogged
<1>3. BasesCommitted
  BY <1>1, SeedAssumption DEF BasesCommitted, Init
<1>4. \A t \in Tx : tx[t] = Idle
  BY DEF Init
<1>5. Idle.locks = {} /\ Idle.inserted = {} /\ Idle.pc = "idle"
  BY DEF Idle
<1>6. \A e \in Entity : Idle.written[e].version = 0
  BY DEF Idle, NoSnapshot
<1>7. Exclusive
  BY <1>4, <1>5 DEF Exclusive
<1>8. HoldsLatest(Idle, entities) /\ BasesInserted(Idle, entities)
  BY <1>5, <1>6 DEF HoldsLatest, BasesInserted
<1>9. QED
  BY <1>2, <1>3, <1>4, <1>7, <1>8 DEF SameBaseInv

(***************************************************************************)
(* Until it commits, a transaction changes only what it holds.             *)
(***************************************************************************)
LEMMA SameBaseUncommitted ==
    ASSUME PgInv, SameBaseInv, NEW t \in Tx, NEW X \in Transaction,
           tx' = [tx EXCEPT ![t] = X],
           UNCHANGED <<rows, entities, told>>,
           HoldsLatest(X, entities), BasesInserted(X, entities),
           \A u \in Others(t) : X.locks \cap tx[u].locks = {}
    PROVE  SameBaseInv'
<1>1. /\ tx'[t] = X
      /\ \A u \in Tx \ {t} : tx'[u] = tx[u]
  BY OneTransaction DEF PgInv
<1>2. Exclusive'
  <2> SUFFICES ASSUME NEW u \in Tx, NEW v \in Tx, u # v,
                      tx'[u].locks \cap tx'[v].locks # {}
               PROVE  FALSE
    BY DEF Exclusive
  <2>1. CASE u = t
    BY <2>1, <1>1 DEF Others
  <2>2. CASE v = t
    BY <2>2, <1>1 DEF Others
  <2>3. CASE u # t /\ v # t
    BY <2>3, <1>1 DEF SameBaseInv, Exclusive
  <2>4. QED
    BY <2>1, <2>2, <2>3
<1>3. \A u \in Tx : HoldsLatest(tx'[u], entities) /\ BasesInserted(tx'[u], entities)
  <2> SUFFICES ASSUME NEW u \in Tx
               PROVE  /\ HoldsLatest(tx'[u], entities)
                      /\ BasesInserted(tx'[u], entities)
    OBVIOUS
  <2>1. CASE u = t
    BY <2>1, <1>1
  <2>2. CASE u # t
    BY <2>2, <1>1 DEF SameBaseInv
  <2>3. QED
    BY <2>1, <2>2
<1>4. AllWritten' /\ BasesCommitted'
  BY DEF SameBaseInv, AllWritten, BasesCommitted
<1>5. entities' = entities
  OBVIOUS
<1>6. QED
  BY <1>2, <1>3, <1>4, <1>5 DEF SameBaseInv

\* A rollback takes nothing committed back.
LEMMA SameBaseRollback ==
    ASSUME PgInv, SameBaseInv, NEW t \in Tx, Rollback(t)
    PROVE  SameBaseInv'
<1>1. Idle.locks = {} /\ Idle.inserted = {} /\ Idle.pc = "idle"
  BY DEF Idle
<1>2. \A e \in Entity : Idle.written[e].version = 0
  BY DEF Idle, NoSnapshot
<1>3. HoldsLatest(Idle, entities) /\ BasesInserted(Idle, entities)
  BY <1>1, <1>2 DEF HoldsLatest, BasesInserted
<1>4. /\ tx' = [tx EXCEPT ![t] = Idle]
      /\ UNCHANGED <<rows, entities, told>>
  BY DEF Rollback
<1>5. \A u \in Others(t) : Idle.locks \cap tx[u].locks = {}
  BY <1>1
<1>6. QED
  BY <1>3, <1>4, <1>5, SameBaseUncommitted, IdleIsTransaction

\* A transaction that has just begun has written nothing.
LEMMA SameBaseBegin ==
    ASSUME PgInv, SameBaseInv, NEW t \in Tx, NEW d \in Device,
           NEW ops \in Requests, BeginPush(t, d, ops)
    PROVE  SameBaseInv'
<1> DEFINE pc == IF ops = <<>> THEN "commit" ELSE "check"
           X == [Idle EXCEPT !.pc = pc, !.device = d, !.ops = ops]
<1>1. ops \in Seq(Operation) /\ d \in Nat /\ pc \in {"check", "commit"}
  BY RequestsAssumption, DeviceAssumption
<1>2. /\ tx' = [tx EXCEPT ![t] = X]
      /\ UNCHANGED <<rows, entities, told>>
  BY DEF BeginPush
<1> HIDE DEF pc
<1>3. /\ X \in Transaction
      /\ X.pc = pc /\ X.locks = {} /\ X.inserted = {}
      /\ X.written = [e \in Entity |-> NoSnapshot]
  BY <1>1, IdleIsTransaction DEF Idle, Transaction
<1> HIDE DEF X
<1>4. HoldsLatest(X, entities) /\ BasesInserted(X, entities)
  BY <1>1, <1>3 DEF HoldsLatest, BasesInserted, NoSnapshot
<1>5. \A u \in Others(t) : X.locks \cap tx[u].locks = {}
  BY <1>3
<1>6. QED
  BY <1>2, <1>3, <1>4, <1>5, SameBaseUncommitted

\* The idempotency lookup writes nothing.
LEMMA SameBaseCheck ==
    ASSUME PgInv, SameBaseInv, NEW t \in Tx, CheckIdempotency(t)
    PROVE  SameBaseInv'
<1>1. /\ tx[t].pc = "check" /\ Stage(tx[t]) /\ tx[t] \in Transaction
      /\ HoldsLatest(tx[t], entities) /\ BasesInserted(tx[t], entities)
      /\ Exclusive
  BY DEF CheckIdempotency, PgInv, Stages, PgTypeOK, SameBaseInv
<1>2. tx[t].ops # <<>>
  BY <1>1 DEF Stage
<1>3. UNCHANGED <<rows, entities, told>>
  BY DEF CheckIdempotency
<1>4. \E X \in Transaction :
         /\ tx' = [tx EXCEPT ![t] = X]
         /\ X.pc \in {"check", "commit", "load"}
         /\ X.inserted = tx[t].inserted /\ X.locks = tx[t].locks
         /\ X.written = tx[t].written /\ X.conflicts = tx[t].conflicts
  <2>1. CASE \E row \in Visible(t) : SameKey(row, tx[t].device, Op(t))
    <3>1. tx' = [tx EXCEPT ![t] = Done(tx[t])]
      BY <2>1 DEF CheckIdempotency
    <3>2. /\ Done(tx[t]) \in Transaction
          /\ Done(tx[t]).pc \in {"check", "commit"}
          /\ Done(tx[t]).inserted = tx[t].inserted
          /\ Done(tx[t]).locks = tx[t].locks
          /\ Done(tx[t]).written = tx[t].written
          /\ Done(tx[t]).conflicts = tx[t].conflicts
      BY <1>1, <1>2, DoneIsTransaction DEF Stage
    <3>3. QED
      BY <3>1, <3>2
  <2>2. CASE ~\E row \in Visible(t) : SameKey(row, tx[t].device, Op(t))
    <3> DEFINE X == [tx[t] EXCEPT !.pc = "load"]
    <3>1. tx' = [tx EXCEPT ![t] = X]
      BY <2>2 DEF CheckIdempotency
    <3>2. /\ X \in Transaction /\ X.pc = "load"
          /\ X.inserted = tx[t].inserted /\ X.locks = tx[t].locks
          /\ X.written = tx[t].written /\ X.conflicts = tx[t].conflicts
      BY <1>1 DEF Transaction
    <3> HIDE DEF X
    <3>3. QED
      BY <3>1, <3>2
  <2>3. QED
    BY <2>1, <2>2
<1>5. PICK X \in Transaction :
         /\ tx' = [tx EXCEPT ![t] = X]
         /\ X.pc \in {"check", "commit", "load"}
         /\ X.inserted = tx[t].inserted /\ X.locks = tx[t].locks
         /\ X.written = tx[t].written /\ X.conflicts = tx[t].conflicts
  BY <1>4
<1>6. HoldsLatest(X, entities)
  BY <1>1, <1>5 DEF HoldsLatest
<1>7. BasesInserted(X, entities)
  BY <1>1, <1>5 DEF BasesInserted, Latest
<1>8. \A u \in Others(t) : X.locks \cap tx[u].locks = {}
  BY <1>1, <1>5 DEF Exclusive, Others
<1>9. QED
  BY <1>3, <1>5, <1>6, <1>7, <1>8, SameBaseUncommitted

(***************************************************************************)
(* SELECT ... FOR UPDATE: the row is there, so it is locked, and what is   *)
(* loaded is the latest version until the transaction ends.                *)
(***************************************************************************)
LEMMA SameBaseLoad ==
    ASSUME PgInv, SameBaseInv, NEW t \in Tx, LoadEntityStateForUpdate(t)
    PROVE  SameBaseInv'
<1> DEFINE e == Op(t).entity
           found == IF tx[t].written[e].version # 0
                    THEN tx[t].written[e] ELSE entities[e]
           locks == IF found.version = 0 THEN tx[t].locks
                    ELSE tx[t].locks \cup {e}
           X == [tx[t] EXCEPT !.pc = "insert", !.current = found,
                              !.locks = locks]
<1>1. /\ tx[t].pc = "load" /\ Stage(tx[t]) /\ tx[t] \in Transaction
      /\ HoldsLatest(tx[t], entities) /\ BasesInserted(tx[t], entities)
      /\ Exclusive /\ AllWritten
  BY DEF LoadEntityStateForUpdate, PgInv, Stages, PgTypeOK, SameBaseInv
<1>2. tx[t].ops # <<>>
  BY <1>1 DEF Stage
<1>3. e \in Entity
  BY <1>2, OpIsValid
<1>4. /\ found \in Snapshot
      /\ found = Latest(tx[t], e, entities)
      /\ locks = tx[t].locks \cup {e}
  BY <1>1, <1>3 DEF PgInv, PgTypeOK, Transaction, Latest, AllWritten
<1>5. /\ tx' = [tx EXCEPT ![t] = X]
      /\ UNCHANGED <<rows, entities, told>>
      /\ Blockers(t) = {}
  BY DEF LoadEntityStateForUpdate
<1> HIDE DEF found, locks
<1>6. /\ X \in Transaction
      /\ X.pc = "insert" /\ X.ops = tx[t].ops /\ X.current = found
      /\ X.locks = tx[t].locks \cup {e}
      /\ X.inserted = tx[t].inserted /\ X.written = tx[t].written
      /\ X.conflicts = tx[t].conflicts
  BY <1>1, <1>3, <1>4 DEF Transaction
<1> HIDE DEF X
<1>7. HoldsLatest(X, entities)
  <2>1. Head(X.ops).entity = e
    BY <1>6 DEF Op
  <2>2. X.current = Latest(X, e, entities)
    BY <1>4, <1>6 DEF Latest
  <2>3. QED
    BY <1>1, <1>6, <2>1, <2>2 DEF HoldsLatest
<1>8. BasesInserted(X, entities)
  BY <1>1, <1>6 DEF BasesInserted, Latest
<1>9. \A u \in Others(t) : e \notin tx[u].locks
  <2>1. Blockers(t) = {u \in Others(t) : e \in tx[u].locks}
    BY <1>1, <1>3 DEF Blockers, AllWritten
  <2>2. QED
    BY <2>1, <1>5
<1>10. \A u \in Others(t) : X.locks \cap tx[u].locks = {}
  BY <1>1, <1>6, <1>9 DEF Exclusive, Others
<1>11. QED
  BY <1>5, <1>6, <1>7, <1>8, <1>10, SameBaseUncommitted

(***************************************************************************)
(* INSERT: an operation whose base is not the version loaded is a conflict *)
(* and mentioned; one whose base is that version is above the others.      *)
(***************************************************************************)
LEMMA SameBaseInsert ==
    ASSUME PgInv, SameBaseInv, NEW t \in Tx, InsertOperation(t)
    PROVE  SameBaseInv'
<1> DEFINE new == NewRow(t)
           e == Op(t).entity
           d == tx[t].device
           current == tx[t].current
<1>1. PICK X \in Transaction :
         /\ tx' = [tx EXCEPT ![t] = X]
         /\ X.current = current
         /\ X.inserted = tx[t].inserted \cup {new}
         /\ X.locks = tx[t].locks
         /\ X.written = tx[t].written
         /\ X.conflicts = IF IsConflict(Op(t), current)
                          THEN tx[t].conflicts \cup {Event(Op(t), d, current)}
                          ELSE tx[t].conflicts
         /\ IF new.applied
            THEN X.pc = "upsert" /\ X.ops = tx[t].ops
            ELSE X.pc \in {"check", "commit"}
  BY InsertEffect
<1>2. /\ tx[t].pc = "insert" /\ Stage(tx[t]) /\ tx[t] \in Transaction
      /\ HoldsLatest(tx[t], entities) /\ BasesInserted(tx[t], entities)
      /\ Exclusive /\ AllWritten
  BY DEF InsertOperation, PgInv, Stages, PgTypeOK, SameBaseInv
<1>3. tx[t].ops # <<>>
  BY <1>2 DEF Stage
<1>4. /\ e \in Entity
      /\ Op(t).base_version \in Int
      /\ entities \in [Entity -> Snapshot]
      /\ current \in Snapshot
      /\ tx[t].written \in [Entity -> Snapshot]
      /\ \A row \in tx[t].inserted : /\ row.op.base_version \in Int
                                     /\ row.op.entity \in Entity
  <2>1. e \in Entity /\ Op(t) \in Operation
    BY <1>3, OpIsValid
  <2>2. \A row \in tx[t].inserted : row.op \in Operation
    BY <1>2 DEF Transaction, StoredOperation
  <2>3. \A row \in tx[t].inserted : row.op.entity \in tx[t].locks
    BY <1>2 DEF BasesInserted
  <2>4. QED
    BY <2>1, <2>2, <2>3, <1>2
       DEF Operation, PgInv, PgTypeOK, Transaction
<1>5. e \in tx[t].locks /\ current = Latest(tx[t], e, entities)
  BY <1>2 DEF HoldsLatest, Op
<1>6. /\ current.version \in Nat /\ current.version # 0
      /\ entities[e].version \in Nat
      /\ current.version >= entities[e].version
  BY <1>2, <1>4, <1>5 DEF HoldsLatest, Latest, AllWritten, Snapshot
<1>7. new.op = Op(t) /\ new.applied = Applied(Op(t), d, current)
  BY DEF NewRow
<1> HIDE DEF new
<1>8. IsConflict(Op(t), current) => Mentioned(new, X.conflicts)
  <2> DEFINE event == Event(Op(t), d, current)
  <2>1. event.entity = e /\ Op(t).op_id \in {event.winner, event.loser}
    BY DEF Event
  <2>2. IsConflict(Op(t), current) => event \in X.conflicts
    BY <1>1
  <2> HIDE DEF event
  <2>3. QED
    BY <2>1, <2>2, <1>7 DEF Mentioned
<1>9. ~IsConflict(Op(t), current) =>
         /\ Op(t).base_version = current.version
         /\ new.applied
         /\ X.conflicts = tx[t].conflicts
  BY <1>1, <1>6, <1>7 DEF IsConflict, Applied
<1>10. \A row \in tx[t].inserted :
          Mentioned(row, tx[t].conflicts) => Mentioned(row, X.conflicts)
  BY <1>1 DEF Mentioned
<1>11. \A f : Latest(X, f, entities) = Latest(tx[t], f, entities)
  BY <1>1 DEF Latest
<1>12. HoldsLatest(X, entities)
  <2>1. X.pc = "upsert" => Head(X.ops).entity = e
    BY <1>1 DEF Op
  <2>2. \A f \in Entity :
           X.written[f].version # 0 =>
              f \in X.locks /\ X.written[f].version > entities[f].version
    BY <1>1, <1>2 DEF HoldsLatest
  <2>3. X.pc \in {"insert", "upsert"} => X.pc = "upsert"
    BY <1>1
  <2>4. X.current = Latest(X, e, entities) /\ e \in X.locks
    BY <1>1, <1>5, <1>11
  <2>5. QED
    BY <2>1, <2>2, <2>3, <2>4 DEF HoldsLatest
<1>13. BasesInserted(X, entities)
  <2>1. ASSUME NEW row \in tx[t].inserted, ~Mentioned(row, X.conflicts)
        PROVE  /\ row.op.base_version >= entities[row.op.entity].version
               /\ row.op.base_version
                     < Latest(X, row.op.entity, entities).version
               /\ \A other \in tx[t].inserted :
                     /\ ~Mentioned(other, X.conflicts)
                     /\ row.op.entity = other.op.entity
                     /\ row.op.base_version = other.op.base_version
                     => row = other
    BY <2>1, <1>2, <1>10, <1>11 DEF BasesInserted
  <2>2. ASSUME ~Mentioned(new, X.conflicts)
        PROVE  /\ new.op.base_version >= entities[new.op.entity].version
               /\ X.pc = "upsert"
               /\ new.op = Head(X.ops)
               /\ new.op.base_version = X.current.version
    BY <2>2, <1>1, <1>6, <1>7, <1>8, <1>9 DEF Op
  <2>3. ASSUME ~Mentioned(new, X.conflicts),
               NEW other \in tx[t].inserted,
               ~Mentioned(other, X.conflicts),
               new.op.entity = other.op.entity,
               new.op.base_version = other.op.base_version
        PROVE  FALSE
    <3>1. other.op.base_version < Latest(X, other.op.entity, entities).version
      BY <2>1, <2>3
    <3>2. new.op.base_version = current.version /\ other.op.entity = e
      BY <1>1, <1>7, <2>2, <2>3
    <3>3. Latest(X, other.op.entity, entities) = current
      BY <3>2, <1>5, <1>11
    <3>4. other.op.base_version = current.version
      BY <3>2, <2>3
    <3>5. QED
      BY <3>1, <3>3, <3>4, <1>6
  <2>4. \A row \in X.inserted : row.op.entity \in X.locks
    BY <1>1, <1>2, <1>5, <1>7 DEF BasesInserted
  <2> SUFFICES ASSUME NEW row \in X.inserted, ~Mentioned(row, X.conflicts)
               PROVE  /\ row.op.base_version >= entities[row.op.entity].version
                      /\ \/ row.op.base_version
                               < Latest(X, row.op.entity, entities).version
                         \/ /\ X.pc = "upsert"
                            /\ row.op = Head(X.ops)
                            /\ row.op.base_version = X.current.version
                      /\ \A other \in X.inserted :
                            /\ ~Mentioned(other, X.conflicts)
                            /\ row.op.entity = other.op.entity
                            /\ row.op.base_version = other.op.base_version
                            => row = other
    BY <2>4 DEF BasesInserted
  <2>5. CASE row \in tx[t].inserted
    BY <2>1, <2>3, <2>5, <1>1
  <2>6. CASE row = new
    BY <2>2, <2>3, <2>6, <1>1
  <2>7. QED
    BY <2>5, <2>6, <1>1
<1>14. \A u \in Others(t) : X.locks \cap tx[u].locks = {}
  BY <1>1, <1>2 DEF Exclusive, Others
<1>15. UNCHANGED <<rows, entities, told>>
  BY DEF InsertOperation
<1>16. QED
  BY <1>1, <1>12, <1>13, <1>14, <1>15, SameBaseUncommitted

(***************************************************************************)
(* INSERT ... ON CONFLICT DO UPDATE: the version written is one more than  *)
(* the one loaded, so the operation inserted last is below it as well.     *)
(***************************************************************************)
LEMMA SameBaseUpsert ==
    ASSUME PgInv, SameBaseInv, NEW t \in Tx, UpsertEntityState(t)
    PROVE  SameBaseInv'
<1> DEFINE e == Op(t).entity
           current == tx[t].current
<1>1. PICK X \in Transaction, snapshot \in Snapshot :
         /\ tx' = [tx EXCEPT ![t] = X]
         /\ snapshot.version = current.version + 1
         /\ X.pc \in {"check", "commit"}
         /\ X.inserted = tx[t].inserted
         /\ X.locks = tx[t].locks \cup {e}
         /\ X.written = [tx[t].written EXCEPT ![e] = snapshot]
         /\ X.conflicts = tx[t].conflicts
  BY UpsertEffect
<1>2. /\ tx[t].pc = "upsert" /\ Stage(tx[t]) /\ tx[t] \in Transaction
      /\ HoldsLatest(tx[t], entities) /\ BasesInserted(tx[t], entities)
      /\ Exclusive /\ AllWritten
  BY DEF UpsertEntityState, PgInv, Stages, PgTypeOK, SameBaseInv
<1>3. /\ e \in Entity
      /\ entities \in [Entity -> Snapshot]
      /\ current \in Snapshot
      /\ tx[t].written \in [Entity -> Snapshot]
      /\ tx[t].locks \subseteq Entity
      /\ \A row \in tx[t].inserted : row.op.base_version \in Int
  <2>1. e \in Entity
    BY <1>2, OpIsValid DEF Stage
  <2>2. \A row \in tx[t].inserted : row.op \in Operation
    BY <1>2 DEF Transaction, StoredOperation
  <2>3. QED
    BY <2>1, <2>2, <1>2 DEF Operation, PgInv, PgTypeOK, Transaction
<1>4. e \in tx[t].locks /\ current = Latest(tx[t], e, entities)
  BY <1>2 DEF HoldsLatest, Op
<1>5. /\ current.version \in Nat
      /\ entities[e].version \in Nat
      /\ current.version >= entities[e].version
  BY <1>2, <1>3, <1>4 DEF HoldsLatest, Latest, Snapshot
<1>6. /\ X.locks = tx[t].locks
      /\ X.written[e] = snapshot
      /\ \A f \in Entity \ {e} : X.written[f] = tx[t].written[f]
  BY <1>1, <1>3, <1>4
<1>7. HoldsLatest(X, entities)
  <2>1. ASSUME NEW f \in Entity, X.written[f].version # 0
        PROVE  f \in X.locks /\ X.written[f].version > entities[f].version
    <3>1. CASE f = e
      BY <3>1, <1>1, <1>4, <1>5, <1>6
    <3>2. CASE f # e
      BY <3>2, <2>1, <1>2, <1>6 DEF HoldsLatest
    <3>3. QED
      BY <3>1, <3>2
  <2>2. X.pc \notin {"insert", "upsert"}
    BY <1>1
  <2>3. QED
    BY <2>1, <2>2 DEF HoldsLatest
<1>8. /\ Latest(X, e, entities).version = current.version + 1
      /\ \A f \in Entity \ {e} :
            Latest(X, f, entities) = Latest(tx[t], f, entities)
  BY <1>1, <1>5, <1>6 DEF Latest
<1>9. BasesInserted(X, entities)
  <2>1. ASSUME NEW row \in tx[t].inserted, ~Mentioned(row, tx[t].conflicts)
        PROVE  row.op.base_version < Latest(X, row.op.entity, entities).version
    <3>1. row.op.entity \in Entity
      BY <1>2, <1>3 DEF BasesInserted
    <3>2. \/ row.op.base_version
                < Latest(tx[t], row.op.entity, entities).version
          \/ row.op = Op(t) /\ row.op.base_version = current.version
      BY <2>1, <1>2 DEF BasesInserted, Op
    <3>3. CASE row.op.entity = e
      <4>1. row.op.base_version <= current.version
        BY <3>2, <3>3, <1>3, <1>4, <1>5
      <4>2. QED
        BY <4>1, <3>3, <1>3, <1>5, <1>8
    <3>4. CASE row.op.entity # e
      BY <3>1, <3>2, <3>4, <1>8
    <3>5. QED
      BY <3>3, <3>4
  <2>2. QED
    BY <2>1, <1>1, <1>2, <1>6 DEF BasesInserted
<1>10. \A u \in Others(t) : X.locks \cap tx[u].locks = {}
  BY <1>2, <1>6 DEF Exclusive, Others
<1>11. UNCHANGED <<rows, entities, told>>
  BY DEF UpsertEntityState
<1>12. QED
  BY <1>1, <1>7, <1>9, <1>10, <1>11, SameBaseUncommitted

(***************************************************************************)
(* COMMIT: what another transaction holds does not change, and what this   *)
(* one inserted lies between the version that was and the one that is.     *)
(***************************************************************************)
LEMMA SameBaseCommit ==
    ASSUME PgInv, SameBaseInv, NEW t \in Tx, Commit(t)
    PROVE  SameBaseInv'
<1>1. /\ tx[t].pc = "commit"
      /\ rows' = rows \cup tx[t].inserted
      /\ told' = told \cup tx[t].conflicts
      /\ tx' = [tx EXCEPT ![t] = Idle]
      /\ entities' = [e \in Entity |-> Latest(tx[t], e, entities)]
  BY DEF Commit, Latest
<1>2. /\ tx'[t] = Idle
      /\ \A u \in Tx \ {t} : tx'[u] = tx[u]
  BY <1>1, OneTransaction, IdleIsTransaction DEF PgInv
<1>3. /\ HoldsLatest(tx[t], entities) /\ BasesInserted(tx[t], entities)
      /\ Exclusive /\ AllWritten /\ BasesCommitted
      /\ tx[t] \in Transaction
      /\ entities \in [Entity -> Snapshot]
      /\ rows \subseteq StoredOperation
  BY DEF SameBaseInv, PgInv, PgTypeOK
<1>4. \A row \in rows \cup tx[t].inserted :
         row.op.base_version \in Int /\ row.op.entity \in Entity
  <2>1. \A row \in rows \cup tx[t].inserted :
           row \in Known /\ row.op \in Operation
    BY <1>3 DEF Known, StoredOperation, Transaction
  <2>2. \A row \in rows : row.op.entity \in Entity
    BY <2>1 DEF PgInv, KnownRows, Valid, Operation
  <2>3. \A row \in tx[t].inserted : row.op.entity \in tx[t].locks
    BY <1>3 DEF BasesInserted
  <2>4. QED
    BY <2>1, <2>2, <2>3, <1>3 DEF Operation, Transaction
<1>5. \A e \in Entity : /\ entities[e].version \in Nat
                        /\ entities'[e].version \in Nat
                        /\ entities'[e].version >= entities[e].version
                        /\ entities'[e] = Latest(tx[t], e, entities)
  <2> SUFFICES ASSUME NEW e \in Entity
               PROVE  /\ entities[e].version \in Nat
                      /\ entities'[e].version \in Nat
                      /\ entities'[e].version >= entities[e].version
                      /\ entities'[e] = Latest(tx[t], e, entities)
    OBVIOUS
  <2>1. entities'[e] = Latest(tx[t], e, entities)
    BY <1>1
  <2>2. entities[e].version \in Nat /\ tx[t].written[e].version \in Nat
    BY <1>3 DEF Transaction, Snapshot
  <2>3. tx[t].written[e].version # 0 =>
           tx[t].written[e].version > entities[e].version
    BY <1>3 DEF HoldsLatest
  <2>4. QED
    BY <2>1, <2>2, <2>3 DEF Latest
<1>6. AllWritten'
  BY <1>3, <1>5 DEF AllWritten
<1>7. Exclusive'
  BY <1>2, <1>3 DEF Exclusive, Idle
<1>8. ASSUME NEW row \in rows \cup tx[t].inserted, ~Mentioned(row, told')
      PROVE  /\ row \in rows => ~Mentioned(row, told)
             /\ row \in tx[t].inserted => ~Mentioned(row, tx[t].conflicts)
  BY <1>1, <1>8 DEF Mentioned
<1>9. ASSUME NEW row \in rows, ~Mentioned(row, told')
      PROVE  row.op.base_version < entities[row.op.entity].version
  BY <1>3, <1>8, <1>9 DEF BasesCommitted
<1>10. ASSUME NEW row \in tx[t].inserted, ~Mentioned(row, told')
       PROVE  /\ row.op.base_version >= entities[row.op.entity].version
              /\ row.op.base_version < entities'[row.op.entity].version
  <2>1. ~Mentioned(row, tx[t].conflicts)
    BY <1>8, <1>10
  <2>2. /\ row.op.base_version >= entities[row.op.entity].version
        /\ row.op.base_version
              < Latest(tx[t], row.op.entity, entities).version
    BY <2>1, <1>1, <1>3 DEF BasesInserted
  <2>3. QED
    BY <2>2, <1>4, <1>5
<1>11. BasesCommitted'
  <2>1. ASSUME NEW row \in rows', ~Mentioned(row, told')
        PROVE  row.op.base_version < entities'[row.op.entity].version
    <3>1. CASE row \in rows
      BY <3>1, <2>1, <1>4, <1>5, <1>9
    <3>2. CASE row \in tx[t].inserted
      BY <3>2, <2>1, <1>10
    <3>3. QED
      BY <3>1, <3>2, <1>1
  <2>2. ASSUME NEW row \in rows', NEW other \in rows',
               ~Mentioned(row, told'), ~Mentioned(other, told'),
               row.op.entity = other.op.entity,
               row.op.base_version = other.op.base_version
        PROVE  row = other
    <3>1. CASE row \in rows /\ other \in rows
      BY <3>1, <2>2, <1>3, <1>8 DEF BasesCommitted
    <3>2. CASE row \in tx[t].inserted /\ other \in tx[t].inserted
      BY <3>2, <2>2, <1>3, <1>8 DEF BasesInserted
    <3>3. CASE row \in rows /\ other \in tx[t].inserted
      BY <3>3, <2>2, <1>4, <1>5, <1>9, <1>10
    <3>4. CASE other \in rows /\ row \in tx[t].inserted
      BY <3>4, <2>2, <1>4, <1>5, <1>9, <1>10
    <3>5. QED
      BY <3>1, <3>2, <3>3, <3>4, <1>1
  <2>3. QED
    BY <2>1, <2>2 DEF BasesCommitted
<1>12. ASSUME NEW u \in Tx
       PROVE  HoldsLatest(tx'[u], entities') /\ BasesInserted(tx'[u], entities')
  <2>1. CASE u = t
    <3>1. Idle.locks = {} /\ Idle.inserted = {} /\ Idle.pc = "idle"
      BY DEF Idle
    <3>2. \A e \in Entity : Idle.written[e].version = 0
      BY DEF Idle, NoSnapshot
    <3>3. QED
      BY <2>1, <1>2, <3>1, <3>2 DEF HoldsLatest, BasesInserted
  <2>2. CASE u # t
    <3>1. /\ HoldsLatest(tx[u], entities) /\ BasesInserted(tx[u], entities)
          /\ tx'[u] = tx[u] /\ tx[u].locks \subseteq Entity
      BY <2>2, <1>2 DEF SameBaseInv, PgInv, PgTypeOK, Transaction
    <3>2. \A e \in tx[u].locks : entities'[e] = entities[e]
      <4> SUFFICES ASSUME NEW e \in tx[u].locks
                   PROVE  entities'[e] = entities[e]
        OBVIOUS
      <4>1. e \in Entity /\ e \notin tx[t].locks
        BY <2>2, <3>1, <1>3 DEF Exclusive
      <4>2. tx[t].written[e].version = 0
        BY <4>1, <1>3 DEF HoldsLatest
      <4>3. QED
        BY <4>1, <4>2, <1>5 DEF Latest
    <3>3. \A e \in tx[u].locks :
             Latest(tx[u], e, entities') = Latest(tx[u], e, entities)
      BY <3>2 DEF Latest
    <3>4. HoldsLatest(tx[u], entities')
      BY <3>1, <3>2, <3>3 DEF HoldsLatest
    <3>5. BasesInserted(tx[u], entities')
      BY <3>1, <3>2, <3>3 DEF BasesInserted
    <3>6. QED
      BY <3>1, <3>4, <3>5
  <2>3. QED
    BY <2>1, <2>2
<1>13. QED
  BY <1>6, <1>7, <1>11, <1>12 DEF SameBaseInv

\* SameBaseInv is inductive: one case per action.
LEMMA SameBaseNext == PgInv /\ SameBaseInv /\ [Next]_vars => SameBaseInv'
<1> SUFFICES ASSUME PgInv, SameBaseInv, [Next]_vars PROVE SameBaseInv'
  OBVIOUS
<1>1. ASSUME NEW t \in Tx, NEW d \in Device, NEW ops \in Requests,
             BeginPush(t, d, ops)
      PROVE  SameBaseInv'
  BY <1>1, SameBaseBegin
<1>2. ASSUME NEW t \in Tx, Statement(t)
      PROVE  SameBaseInv'
  <2>1. CASE CheckIdempotency(t)
    BY <2>1, SameBaseCheck
  <2>2. CASE LoadEntityStateForUpdate(t)
    BY <2>2, SameBaseLoad
  <2>3. CASE InsertOperation(t)
    BY <2>3, SameBaseInsert
  <2>4. CASE UniqueViolation(t)
    BY <2>4, SameBaseRollback DEF UniqueViolation
  <2>5. CASE UpsertEntityState(t)
    BY <2>5, SameBaseUpsert
  <2>6. CASE Commit(t)
    BY <2>6, SameBaseCommit
  <2>7. CASE DeadlockAbort(t)
    BY <2>7, SameBaseRollback DEF DeadlockAbort
  <2>8. QED
    BY <1>2, <2>1, <2>2, <2>3, <2>4, <2>5, <2>6, <2>7 DEF Statement
<1>3. ASSUME NEW t \in Tx, Fail(t)
      PROVE  SameBaseInv'
  BY <1>3, SameBaseRollback DEF Fail
<1>4. ASSUME UNCHANGED <<rows, entities, told, tx>>
      PROVE  SameBaseInv'
  BY <1>4 DEF SameBaseInv, AllWritten, Exclusive, BasesCommitted
<1>5. ASSUME NEW d \in Device, Pull(d)
      PROVE  SameBaseInv'
  BY <1>4, <1>5 DEF Pull
<1>6. ASSUME UNCHANGED vars
      PROVE  SameBaseInv'
  BY <1>4, <1>6 DEF vars
<1>7. QED
  BY <1>1, <1>2, <1>3, <1>5, <1>6 DEF Next

(***************************************************************************)
(* Where every entity has its first operation, two operations made on the  *)
(* same version of one never both go in without a conflict being written   *)
(* down, however the transactions that insert them interleave              *)
(* (server_test.go:289, "conflicts len=%d want=1").                        *)
(***************************************************************************)
THEOREM SameBaseIsConflict ==
    ASSUME FirstsLogged
    PROVE  Spec => []SameBaseConflicts
<1>1. Init => SameBaseInv
  BY FirstsLogged, SameBaseInit
<1>2. PgInv /\ SameBaseInv /\ [Next]_vars => SameBaseInv'
  BY SameBaseNext
<1>3. SameBaseInv => SameBaseConflicts
  <2> SUFFICES ASSUME SameBaseInv, NEW row \in rows, NEW other \in rows,
                      row # other, row.op.entity = other.op.entity,
                      row.op.base_version = other.op.base_version
               PROVE  Mentioned(row, told) \/ Mentioned(other, told)
    BY DEF SameBaseConflicts, Mentioned
  <2>1. QED
    BY DEF SameBaseInv, BasesCommitted
<1>4. QED
  BY <1>1, <1>2, <1>3, PgInvariance, PTL DEF Spec
-----------------------------------------------------------------------------
(***************************************************************************)
(* Pulls.  NoOperationSkipped is violated as soon as two transactions      *)
(* commit out of the order of their seqs; over one connection it holds,    *)
(* aborts and unused seqs included: what is inserted and not committed is  *)
(* after every committed row, and after every device's cursor.             *)
(***************************************************************************)
OneConnection == \A t, u \in Tx : t = u

SerialInv ==
    /\ \A t \in Tx : \A new \in tx[t].inserted :
          /\ \A row \in rows : row.cursor < new.cursor
          /\ \A d \in Device : cursor[d] < new.cursor
    /\ \A d \in Device : cursor[d] < nextSeq
    /\ NoOperationSkipped

\* The log is finite, so that it has a highest sequence number.
LEMMA RowsFinite ==
    ASSUME PgInv
    PROVE  IsFiniteSet(rows)
<1> DEFINE f == [row \in rows |-> row.cursor]
<1>1. /\ nextSeq \in Nat
      /\ \A row \in rows : row.cursor \in Nat /\ row.cursor < nextSeq
  BY DEF PgInv, PgTypeOK, KnownRows, Known, StoredOperation
<1>2. \A row \in rows : f[row] \in 0..nextSeq
  BY <1>1
<1>3. f \in [rows -> 0..nextSeq]
  BY <1>2
<1>4. \A row, other \in rows : f[row] = f[other] => row = other
  BY DEF PgInv, PgTypeOK
<1>5. f \in Injection(rows, 0..nextSeq)
  BY <1>3, <1>4 DEF Injection, IsInjective
<1>6. IsFiniteSet(0..nextSeq)
  BY <1>1, FS_Interval
<1> HIDE DEF f
<1>7. QED
  BY <1>5, <1>6, FS_Injection

(***************************************************************************)
(* A page has no holes: with a row it has the applied rows before it that  *)
(* are not yet passed.                                                     *)
(***************************************************************************)
LEMMA PageHasNoHoles ==
    ASSUME PgInv, NEW c, NEW last \in Page(c), NEW row \in AppliedAfter(c),
           row.cursor <= last.cursor
    PROVE  row \in Page(c)
<1> DEFINE Before(r) == {r2 \in AppliedAfter(c) : r2.cursor < r.cursor}
<1>1. AppliedAfter(c) \subseteq rows
  BY DEF AppliedAfter
<1>2. \A r \in rows : r.cursor \in Nat
  BY DEF PgInv, PgTypeOK, StoredOperation
<1>3. last \in AppliedAfter(c)
  BY DEF Page
<1>4. Before(row) \subseteq Before(last)
  BY <1>1, <1>2, <1>3
<1>5. IsFiniteSet(Before(last))
  <2>1. Before(last) \subseteq rows
    BY <1>1
  <2>2. QED
    BY <2>1, RowsFinite, FS_Subset
<1>6. /\ Cardinality(Before(row)) <= Cardinality(Before(last))
      /\ Cardinality(Before(row)) \in Nat
      /\ Cardinality(Before(last)) \in Nat
  <2> HIDE DEF Before
  <2>1. IsFiniteSet(Before(row))
    BY <1>4, <1>5, FS_Subset
  <2>2. QED
    BY <2>1, <1>4, <1>5, FS_Subset, FS_CardinalityType
<1>7. Cardinality(Before(last)) < PullLimit
  BY DEF Page
<1>8. Cardinality(Before(row)) < PullLimit
  BY <1>6, <1>7, PullLimitAssumption
<1>9. QED
  BY <1>8 DEF Page

\* With one connection the sequence numbers commit in order: SerialInv is
\* inductive.
LEMMA SerialInvNext ==
    ASSUME OneConnection, PgInv, SerialInv, [Next]_vars
    PROVE  SerialInv'
<1>1. /\ nextSeq \in Nat
      /\ cursor \in [Device -> Nat] /\ got \in [Device -> SUBSET Nat]
      /\ \A row \in Known : row.cursor \in Nat /\ row.cursor < nextSeq
  BY DEF PgInv, PgTypeOK, KnownRows, Known, StoredOperation, Transaction
<1>2. ASSUME UNCHANGED <<rows, pullVars>>,
             nextSeq' \in Nat, nextSeq' >= nextSeq,
             \A t \in Tx : tx'[t].inserted \subseteq tx[t].inserted
      PROVE  SerialInv'
  BY <1>1, <1>2 DEF SerialInv, NoOperationSkipped, pullVars
<1>3. ASSUME NEW t \in Tx, tx' = [tx EXCEPT ![t] = Idle]
      PROVE  \A u \in Tx : tx'[u].inserted \subseteq tx[u].inserted
  BY <1>3 DEF PgInv, PgTypeOK, Idle
<1>4. ASSUME NEW t \in Tx, NEW X \in Transaction,
             tx' = [tx EXCEPT ![t] = X], X.inserted = tx[t].inserted
      PROVE  \A u \in Tx : tx'[u].inserted \subseteq tx[u].inserted
  BY <1>4 DEF PgInv, PgTypeOK
<1>5. ASSUME NEW t \in Tx, NEW d \in Device, NEW ops \in Requests,
             BeginPush(t, d, ops)
      PROVE  SerialInv'
  <2> DEFINE pc == IF ops = <<>> THEN "commit" ELSE "check"
             X == [Idle EXCEPT !.pc = pc, !.device = d, !.ops = ops]
  <2>1. tx' = [tx EXCEPT ![t] = X] /\ X.inserted = {}
    BY <1>5 DEF BeginPush, Idle
  <2> HIDE DEF X
  <2>2. \A u \in Tx : tx'[u].inserted \subseteq tx[u].inserted
    BY <2>1 DEF PgInv, PgTypeOK
  <2>3. UNCHANGED <<rows, nextSeq, pullVars>>
    BY <1>5 DEF BeginPush
  <2>4. QED
    BY <2>2, <2>3, <1>1, <1>2
<1>6. ASSUME NEW t \in Tx, CheckIdempotency(t)
      PROVE  SerialInv'
  <2>1. UNCHANGED <<rows, nextSeq, pullVars>>
    BY <1>6 DEF CheckIdempotency
  <2>2. \A u \in Tx : tx'[u].inserted \subseteq tx[u].inserted
    <3>1. tx[t] \in Transaction /\ tx[t].ops # <<>>
             /\ \A i \in DOMAIN tx[t].ops : Valid(tx[t].ops[i])
      BY <1>6 DEF CheckIdempotency, PgInv, PgTypeOK, Stages, Stage
    <3>2. CASE tx' = [tx EXCEPT ![t] = Done(tx[t])]
      BY <3>1, <3>2, <1>4, DoneIsTransaction
    <3>3. CASE tx' = [tx EXCEPT ![t].pc = "load"]
      BY <3>1, <3>3 DEF PgInv, PgTypeOK, Transaction
    <3>4. QED
      BY <1>6, <3>2, <3>3 DEF CheckIdempotency
  <2>3. QED
    BY <2>1, <2>2, <1>1, <1>2
<1>7. ASSUME NEW t \in Tx, LoadEntityStateForUpdate(t)
      PROVE  SerialInv'
  <2>1. UNCHANGED <<rows, nextSeq, pullVars>>
    BY <1>7 DEF LoadEntityStateForUpdate
  <2>2. \A u \in Tx : tx'[u].inserted \subseteq tx[u].inserted
    BY <1>7 DEF LoadEntityStateForUpdate, PgInv, PgTypeOK, Transaction
  <2>3. QED
    BY <2>1, <2>2, <1>1, <1>2
<1>8. ASSUME NEW t \in Tx, UpsertEntityState(t)
      PROVE  SerialInv'
  <2>1. UNCHANGED <<rows, nextSeq, pullVars>>
    BY <1>8 DEF UpsertEntityState
  <2>2. PICK X \in Transaction :
           tx' = [tx EXCEPT ![t] = X] /\ X.inserted = tx[t].inserted
    BY <1>8, UpsertEffect
  <2>3. QED
    BY <2>1, <2>2, <1>1, <1>2, <1>4
<1>9. ASSUME NEW t \in Tx, Rollback(t), nextSeq' \in {nextSeq, nextSeq + 1}
      PROVE  SerialInv'
  <2>1. nextSeq' \in Nat /\ nextSeq' >= nextSeq
    BY <1>1, <1>9
  <2>2. QED
    BY <2>1, <1>2, <1>3, <1>9 DEF Rollback
<1>10. ASSUME NEW t \in Tx, InsertOperation(t)
       PROVE  SerialInv'
  <2>1. PICK X \in Transaction :
           /\ tx' = [tx EXCEPT ![t] = X]
           /\ X.inserted = tx[t].inserted \cup {NewRow(t)}
    BY <1>10, InsertEffect
  <2>2. UNCHANGED <<rows, pullVars>> /\ nextSeq' = nextSeq + 1
    BY <1>10 DEF InsertOperation
  <2>3. NewRow(t).cursor = nextSeq
    BY DEF NewRow
  <2>4. \A u \in Tx : \A row \in tx'[u].inserted :
           row \in tx[u].inserted \/ row = NewRow(t)
    BY <2>1 DEF PgInv, PgTypeOK
  <2>5. /\ \A row \in rows : row.cursor < NewRow(t).cursor
        /\ \A d \in Device : cursor[d] < NewRow(t).cursor
    BY <2>3, <1>1 DEF SerialInv, Known
  <2>6. \A d \in Device : cursor[d] < nextSeq'
    BY <2>2, <1>1 DEF SerialInv
  <2>7. QED
    BY <2>2, <2>4, <2>5, <2>6 DEF SerialInv, NoOperationSkipped, pullVars
<1>11. ASSUME NEW t \in Tx, Commit(t)
       PROVE  SerialInv'
  <2>1. /\ rows' = rows \cup tx[t].inserted
        /\ tx' = [tx EXCEPT ![t] = Idle]
        /\ UNCHANGED <<nextSeq, pullVars>>
    BY <1>11 DEF Commit
  <2>2. \A u \in Tx : tx'[u].inserted = {}
    BY <2>1 DEF OneConnection, PgInv, PgTypeOK, Idle
  <2>3. ASSUME NEW d \in Device, NEW row \in tx[t].inserted
        PROVE  ~(row.cursor <= cursor[d])
    <3>1. row.cursor \in Nat
      BY <1>1 DEF Known
    <3>2. QED
      BY <3>1, <1>1 DEF SerialInv
  <2>4. NoOperationSkipped'
    BY <2>1, <2>3 DEF SerialInv, NoOperationSkipped, pullVars
  <2>5. QED
    BY <2>1, <2>2, <2>4 DEF SerialInv, pullVars
<1>12. ASSUME NEW d \in Device, Pull(d)
       PROVE  SerialInv'
  <2> DEFINE c == cursor[d]
  <2>1. /\ Page(c) # {}
        /\ got' = [got EXCEPT ![d] = @ \cup {row.cursor : row \in Page(c)}]
        /\ cursor' = [cursor EXCEPT ![d] = NextCursor(c)]
        /\ UNCHANGED <<rows, nextSeq, tx>>
    BY <1>12 DEF Pull
  <2>2. PICK last \in Page(c) : last.cursor = NextCursor(c)
    BY <2>1, PageEnd
  <2>3. last \in rows
    BY DEF Page, AppliedAfter
  <2>4. /\ cursor'[d] = last.cursor
        /\ got'[d] = got[d] \cup {row.cursor : row \in Page(c)}
        /\ \A other \in Device \ {d} :
              cursor'[other] = cursor[other] /\ got'[other] = got[other]
    BY <2>1, <2>2, <1>1
  <2>5. last.cursor < nextSeq
    BY <2>3, <1>1 DEF Known
  <2>6. \A u \in Tx : \A new \in tx[u].inserted : last.cursor < new.cursor
    BY <2>3 DEF SerialInv
  <2>7. ASSUME NEW row \in rows, row.applied, row.cursor <= last.cursor
        PROVE  row.cursor \in got'[d]
    <3>1. CASE row.cursor <= c
      BY <2>4, <2>7, <3>1 DEF SerialInv, NoOperationSkipped
    <3>2. CASE row.cursor > c
      <4>1. row \in AppliedAfter(c)
        BY <2>7, <3>2 DEF AppliedAfter
      <4>2. row \in Page(c)
        BY <4>1, <2>7, PageHasNoHoles
      <4>3. QED
        BY <4>2, <2>4
    <3>3. QED
      BY <3>1, <3>2, <1>1 DEF Known
  <2>8. NoOperationSkipped'
    <3>1. ASSUME NEW other \in Device, NEW row \in rows,
                 row.applied, row.cursor <= cursor'[other]
          PROVE  row.cursor \in got'[other]
      <4>1. CASE other = d
        BY <4>1, <3>1, <2>4, <2>7
      <4>2. CASE other # d
        BY <4>2, <3>1, <2>4 DEF SerialInv, NoOperationSkipped
      <4>3. QED
        BY <4>1, <4>2
    <3>2. QED
      BY <3>1, <2>1 DEF NoOperationSkipped
  <2>9. QED
    BY <2>1, <2>4, <2>5, <2>6, <2>8 DEF SerialInv
<1>13. ASSUME UNCHANGED vars
       PROVE  SerialInv'
  BY <1>13, <1>1, <1>2 DEF vars
<1>14. ASSUME NEW t \in Tx, Statement(t)
       PROVE  SerialInv'
  BY <1>14, <1>6, <1>7, <1>8, <1>9, <1>10, <1>11
     DEF Statement, UniqueViolation, DeadlockAbort
<1>15. ASSUME NEW t \in Tx, Fail(t)
       PROVE  SerialInv'
  BY <1>15, <1>9 DEF Fail
<1>16. QED
  BY <1>5, <1>12, <1>13, <1>14, <1>15 DEF Next

(***************************************************************************)
(* One connection at a time: a pull is sent every applied operation its    *)
(* cursor passes (client_test.go:563, "expected %s on %s after soak        *)
(* convergence").                                                          *)
(***************************************************************************)
THEOREM SerialPullsSkipNothing ==
    ASSUME OneConnection
    PROVE  Spec => []NoOperationSkipped
<1>1. Init => SerialInv
  <2> SUFFICES ASSUME Init PROVE SerialInv
    OBVIOUS
  <2>1. nextSeq \in Nat /\ nextSeq > 0
    BY SeedAssumption, FS_CardinalityType DEF Init
  <2>2. \A row \in rows : row.cursor \in Nat \ {0}
    <3>1. Cardinality(Seed) \in Nat /\ rows = Seed
      BY SeedAssumption, FS_CardinalityType DEF Init
    <3>2. \A row \in Seed : row.cursor \in 1..Cardinality(Seed)
      BY SeedAssumption
    <3>3. QED
      BY <3>1, <3>2
  <2>3. \A t \in Tx : tx[t].inserted = {}
    BY DEF Init, Idle
  <2>4. \A d \in Device : cursor[d] = 0
    BY DEF Init
  <2>5. QED
    BY <2>1, <2>2, <2>3, <2>4 DEF SerialInv, NoOperationSkipped
<1>2. PgInv /\ SerialInv /\ [Next]_vars => SerialInv'
  BY OneConnection, SerialInvNext
<1>3. SerialInv => NoOperationSkipped
  BY DEF SerialInv
<1>4. QED
  BY <1>1, <1>2, <1>3, PgInvariance, PTL DEF Spec
=============================================================================
