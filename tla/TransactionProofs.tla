------------------------- MODULE TransactionProofs -------------------------
(***************************************************************************)
(* Proofs about Transaction, for every set of calls, pool size and bound.  *)
(*                                                                         *)
(* The inductive invariant IInv says who may be in which status (Roles),   *)
(* that a call not made yet is named by nobody (Fresh), who holds a        *)
(* connection and an open transaction (Holds), and where the writes of a   *)
(* transaction are: in its pending set while it is open, durable exactly   *)
(* when it landed, and nowhere otherwise (Writes); and the database only    *)
(* holds writes that were made (Issued).                                   *)
(***************************************************************************)
EXTENDS Transaction, FiniteSetTheorems, WellFoundedInduction, TLAPS

Ops == {"user", "op"}

RoleOf(k) ==
  /\ status[k] \in {"running", "erring"} => kind[k] \in Ops
  /\ status[k] \in {"ready", "scanning", "scanned"} => kind[k] = "read"
  /\ kind[k] \in Ops => tx[k] # None
  /\ Opener(k) => kind[k] \in Ops
  /\ kind[k] = "exec" => tx[k] = None
  /\ status[k] = "waiting" => tx[k] \in {k, None}
  /\ tx[k] # None => tx[tx[k]] = tx[k]
  /\ status[k] = "waiting" \/ kind[k] = "read" => ran[k] = 0

FreshIf(k) ==
  status[k] = "unused" =>
    /\ kind[k] = "none" /\ ran[k] = 0 /\ txState[k] = "none" /\ k \notin held
    /\ k \notin lost /\ tx[k] = None
    /\ \A j \in Call : tx[j] # k /\ parent[j] # k

HoldsOf(k) ==
  /\ k \in held <=> \/ txState[k] \in {"open", "aborted"}
                    \/ status[k] = "scanning" /\ tx[k] = None
  /\ txState[k] \in {"open", "aborted"} => status[k] \in {"running", "erring"}
  /\ txState[k] # "none" => Opener(k)
  /\ status[k] = "waiting" => txState[k] = "none"

Landing(t) == status[t] = "returned" \/ t \in lost

WritesIn(t) ==
  /\ txState[t] = "none" => pending[t] = {} /\ TxWrites(t) = {}
  /\ txState[t] = "open" => pending[t] = TxWrites(t)
  /\ Opener(t) /\ Landing(t) => TxWrites(t) \subseteq durable /\ txState[t] = "done"
  /\ Opener(t) /\ ~Landing(t) => durable \cap TxWrites(t) = {}
  /\ t \in lost => status[t] = "failed"

Issued == \A w \in durable : w[2] <= ran[w[1]]

Roles  == \A k \in Call : RoleOf(k)
Fresh  == \A k \in Call : FreshIf(k)
Holds  == \A k \in Call : HoldsOf(k)
Writes == \A t \in Call : WritesIn(t)

IInv == TypeOK /\ Roles /\ Fresh /\ Holds /\ Writes /\ Issued

-----------------------------------------------------------------------------
(* How a call begins, whatever engine it is made on.                       *)

\* The engine of a call is the root engine, or that of a transaction in which
\* the function making the call runs.
Begins(k, p, kd, st, t) ==
  /\ Begin(k, p, kd, st, t) /\ p \in Call \cup {None}
  /\ \/ t = None /\ kd = "read" /\ st = "ready" /\ None \in Engines(p)
     \/ t = None /\ kd = "exec" /\ st = "waiting" /\ None \in Engines(p)
     \/ t = k /\ kd \in Ops /\ st = "waiting" /\ None \in Engines(p)
     \/ /\ t \in Call /\ p \in Call /\ t = tx[p] /\ status[p] = "running"
        /\ \/ kd \in Ops /\ st = "running"
           \/ kd = "read" /\ st = "ready"

\* Every way to start a call is a Begins.
LEMMA StartBegins ==
  ASSUME NEW k \in Call, TypeOK, Start(k)
  PROVE  \E p \in Call \cup {None}, kd \in Kind, st \in Live, t \in Call \cup {None} :
            Begins(k, p, kd, st, t)
<1>. USE CallAssumption
<1>1. PICK p \in Call \cup {None} :
           \/ \E kd \in Kind : CallOpening(k, p, kd) \/ CallJoining(k, p, kd)
           \/ CallRead(k, p) \/ CallExec(k, p)
  BY DEF Start
<1>2. ASSUME NEW t \in Engines(p) \ {None}, CanCall(p)
      PROVE  t \in Call /\ p \in Call /\ t = tx[p] /\ status[p] = "running"
  BY <1>2 DEF Engines, CanCall, TypeOK
<1>3. ASSUME NEW kd \in Kind, CallOpening(k, p, kd)
      PROVE  Begins(k, p, kd, "waiting", k)
  BY <1>3 DEF CallOpening, Begins, Ops
<1>4. ASSUME NEW kd \in Kind, CallJoining(k, p, kd)
      PROVE  \E t \in Call : Begins(k, p, kd, "running", t)
  <2>1. PICK t \in Engines(p) \ {None} : Begin(k, p, kd, "running", t)
    BY <1>4 DEF CallJoining
  <2>2. kd \in Ops /\ CanCall(p)
    BY <1>4, <2>1 DEF CallJoining, Begin, Ops
  <2>. QED
    BY <1>2, <2>1, <2>2 DEF Begins
<1>5. ASSUME CallRead(k, p)
      PROVE  \E t \in Call \cup {None} : Begins(k, p, "read", "ready", t)
  <2>1. PICK t \in Engines(p) : Begin(k, p, "read", "ready", t)
    BY <1>5 DEF CallRead
  <2>2. CASE t = None
    BY <2>1, <2>2 DEF Begins
  <2>3. CASE t # None
    BY <1>2, <2>1, <2>3 DEF Begins, Begin
  <2>. QED
    BY <2>2, <2>3
<1>6. ASSUME CallExec(k, p)
      PROVE  Begins(k, p, "exec", "waiting", None)
  BY <1>6 DEF CallExec, Begins
<1>. QED
  BY <1>1, <1>3, <1>4, <1>5, <1>6 DEF Kind, Live

-----------------------------------------------------------------------------
(* Type correctness.                                                       *)

\* The initial state is well typed.
LEMMA TypeInit == Init => TypeOK
BY PoolAssumption DEF Init, TypeOK, Status, TxState, Write

\* Every step keeps the types.
LEMMA TypeNext == TypeOK /\ [Next]_vars => TypeOK'
<1>. SUFFICES ASSUME TypeOK, [Next]_vars PROVE TypeOK'
  OBVIOUS
<1>. USE PoolAssumption, CallAssumption DEF TypeOK, Status, Live, Ended, TxState
<1>1. ASSUME NEW k \in Call, Start(k) PROVE TypeOK'
  <2>1. PICK p \in Call \cup {None}, kd \in Kind, st \in Live, t \in Call \cup {None} :
             Begins(k, p, kd, st, t)
    BY <1>1, StartBegins
  <2>. QED
    BY <2>1 DEF Begins, Begin
<1>2. ASSUME NEW k \in Call, Step(k) PROVE TypeOK'
  <2>1. CASE BeginTx(k)
    BY <2>1 DEF BeginTx
  <2>2. CASE BeginTxFails(k)
    BY <2>2 DEF BeginTxFails
  <2>3. CASE Exec(k)
    <3>1. ran[k] + 1 \in 1..MaxStmts /\ tx[k] \in Call \cup {None}
      BY <2>3 DEF Exec
    <3>2. ran' \in [Call -> 0..MaxStmts]
      BY <2>3, <3>1 DEF Exec
    <3>3. pending' \in [Call -> SUBSET Write]
      <4>1. <<k, ran[k] + 1>> \in Write
        BY <3>1 DEF Write
      <4>2. ASSUME NEW t \in Call PROVE pending'[t] \in SUBSET Write
        BY <2>3, <4>1 DEF Exec
      <4>. QED
        BY <2>3, <4>2 DEF Exec
    <3>. QED
      BY <2>3, <3>2, <3>3 DEF Exec
  <2>4. CASE ExecFails(k)
    BY <2>4 DEF ExecFails
  <2>5. CASE Commit(k)
    BY <2>5 DEF Commit, Landed
  <2>6. CASE CommitFails(k)
    BY <2>6 DEF CommitFails, RolledBack
  <2>7. CASE CommitAckLost(k)
    BY <2>7 DEF CommitAckLost, Landed
  <2>8. CASE JoinedReturns(k)
    BY <2>8 DEF JoinedReturns
  <2>9. ASSUME NEW st \in {"failed", "panicked"}, Unwind(k, st) PROVE TypeOK'
    BY <2>9 DEF Unwind, RolledBack
  <2>10. ASSUME NEW st \in {"failed", "panicked"}, JoinedUnwinds(k, st) PROVE TypeOK'
    BY <2>10 DEF JoinedUnwinds
  <2>11. CASE CtxDone(k)
    BY <2>11 DEF CtxDone, RolledBack
  <2>12. CASE QueryRoot(k)
    BY <2>12 DEF QueryRoot
  <2>13. CASE GotRows(k)
    BY <2>13 DEF GotRows
  <2>14. CASE QueryTx(k)
    BY <2>14 DEF QueryTx
  <2>15. CASE QueryTxRefused(k)
    BY <2>15 DEF QueryTxRefused
  <2>16. CASE RowsExhausted(k)
    BY <2>16 DEF RowsExhausted
  <2>17. CASE ReadFails(k)
    BY <2>17 DEF ReadFails
  <2>18. CASE ReadReturns(k)
    BY <2>18 DEF ReadReturns
  <2>19. CASE AutoCommit(k)
    BY <2>19 DEF AutoCommit, Write
  <2>20. CASE AutoCommitFails(k)
    BY <2>20 DEF AutoCommitFails
  <2>. QED
    BY <1>2, <2>1, <2>2, <2>3, <2>4, <2>5, <2>6, <2>7, <2>8, <2>9, <2>10, <2>11, <2>12, <2>13, <2>14, <2>15, <2>16, <2>17, <2>18, <2>19, <2>20 DEF Step, Finish, ReadStep
<1>3. CASE UNCHANGED vars
  BY <1>3 DEF vars
<1>. QED
  BY <1>1, <1>2, <1>3 DEF Next

\* Every reachable state has the declared types, for any instance.
THEOREM TypeCorrect == Spec => []TypeOK
BY TypeInit, TypeNext, PTL DEF Spec
-----------------------------------------------------------------------------
(* Who may be in which status. *)

\* Every step keeps each call in a status its kind allows.
LEMMA RolesNext == TypeOK /\ Roles /\ Fresh /\ [Next]_vars => Roles'
<1>. SUFFICES ASSUME TypeOK, Roles, Fresh, [Next]_vars PROVE Roles'
  OBVIOUS
<1>. USE CallAssumption, PoolAssumption DEF TypeOK, Roles, RoleOf, Ops, Opener
<1>1. ASSUME NEW k \in Call, Start(k) PROVE Roles'
  <2>1. PICK p \in Call \cup {None}, kd \in Kind, st \in Live, t \in Call \cup {None} :
             Begins(k, p, kd, st, t)
    BY <1>1, StartBegins
  <2>2. ASSUME NEW j \in Call, j # k PROVE RoleOf(j)'
    <3>1. tx[j] # None => tx[j] # k
      BY <2>1, <2>2 DEF Begins, Begin, Fresh, FreshIf
    <3>2. tx'[j] = tx[j] /\ status'[j] = status[j] /\ kind'[j] = kind[j]
      BY <2>1, <2>2 DEF Begins, Begin
    <3>. QED
      BY <2>1, <2>2, <3>1, <3>2 DEF Begins, Begin
  <2>3. RoleOf(k)'
    <3>1. CASE t = None
      BY <2>1, <3>1 DEF Begins, Begin, Fresh, FreshIf
    <3>2. CASE t = k
      BY <2>1, <3>2 DEF Begins, Begin, Fresh, FreshIf
    <3>3. CASE t \in Call /\ t # k
      <4>1. p \in Call /\ tx[p] = t /\ tx[t] = t /\ tx'[t] = t
        BY <2>1, <3>3 DEF Begins, Begin
      <4>. QED
        BY <2>1, <3>3, <4>1 DEF Begins, Begin, Fresh, FreshIf
    <3>. QED
      BY <2>1, <3>1, <3>2, <3>3
  <2>. QED
    BY <2>2, <2>3 DEF Roles
<1>2. ASSUME NEW k \in Call, Step(k) PROVE Roles'
  <2>1. CASE BeginTx(k)
    BY <2>1 DEF BeginTx
  <2>2. CASE BeginTxFails(k)
    BY <2>2 DEF BeginTxFails
  <2>3. CASE Exec(k)
    BY <2>3 DEF Exec
  <2>4. CASE ExecFails(k)
    BY <2>4 DEF ExecFails
  <2>5. CASE Commit(k)
    BY <2>5 DEF Commit, Landed
  <2>6. CASE CommitFails(k)
    BY <2>6 DEF CommitFails, RolledBack
  <2>7. CASE CommitAckLost(k)
    BY <2>7 DEF CommitAckLost, Landed
  <2>8. CASE JoinedReturns(k)
    BY <2>8 DEF JoinedReturns
  <2>9. ASSUME NEW st \in {"failed", "panicked"}, Unwind(k, st) PROVE Roles'
    BY <2>9 DEF Unwind, RolledBack
  <2>10. ASSUME NEW st \in {"failed", "panicked"}, JoinedUnwinds(k, st) PROVE Roles'
    BY <2>10 DEF JoinedUnwinds
  <2>11. CASE CtxDone(k)
    BY <2>11 DEF CtxDone, RolledBack
  <2>12. CASE QueryRoot(k)
    BY <2>12 DEF QueryRoot
  <2>13. CASE GotRows(k)
    BY <2>13 DEF GotRows
  <2>14. CASE QueryTx(k)
    BY <2>14 DEF QueryTx
  <2>15. CASE QueryTxRefused(k)
    BY <2>15 DEF QueryTxRefused
  <2>16. CASE RowsExhausted(k)
    BY <2>16 DEF RowsExhausted
  <2>17. CASE ReadFails(k)
    BY <2>17 DEF ReadFails
  <2>18. CASE ReadReturns(k)
    BY <2>18 DEF ReadReturns
  <2>19. CASE AutoCommit(k)
    BY <2>19 DEF AutoCommit
  <2>20. CASE AutoCommitFails(k)
    BY <2>20 DEF AutoCommitFails
  <2>. QED
    BY <1>2, <2>1, <2>2, <2>3, <2>4, <2>5, <2>6, <2>7, <2>8, <2>9, <2>10, <2>11, <2>12,
       <2>13, <2>14, <2>15, <2>16, <2>17, <2>18, <2>19, <2>20 DEF Step, Finish, ReadStep
<1>3. CASE UNCHANGED vars
  BY <1>3 DEF vars
<1>. QED
  BY <1>1, <1>2, <1>3 DEF Next

-----------------------------------------------------------------------------
(* A call not made yet is named by nobody. *)

\* Every step leaves the calls not made yet unnamed.
LEMMA FreshNext == TypeOK /\ Roles /\ Fresh /\ [Next]_vars => Fresh'
<1>. SUFFICES ASSUME TypeOK, Roles, Fresh, [Next]_vars PROVE Fresh'
  OBVIOUS
<1>. USE CallAssumption, PoolAssumption DEF TypeOK, Roles, RoleOf, Fresh, FreshIf, Ops, Opener
<1>1. ASSUME NEW k \in Call, Start(k) PROVE Fresh'
  <2>1. PICK p \in Call \cup {None}, kd \in Kind, st \in Live, t \in Call \cup {None} :
             Begins(k, p, kd, st, t)
    BY <1>1, StartBegins
  <2>2. ASSUME NEW j \in Call PROVE FreshIf(j)'
    <3>. SUFFICES ASSUME status'[j] = "unused" PROVE j # k /\ FreshIf(j)'
      BY DEF FreshIf
    <3>1. j # k /\ status[j] = "unused"
      BY <2>1 DEF Begins, Begin, Live
    <3>2. t # j /\ p # j
      BY <2>1, <3>1 DEF Begins, Begin, CanCall
    <3>. QED
      BY <2>1, <3>1, <3>2 DEF Begins, Begin
  <2>. QED
    BY <2>2 DEF Fresh
<1>2. ASSUME NEW k \in Call, Step(k) PROVE Fresh'
  <2>1. CASE BeginTx(k)
    BY <2>1 DEF BeginTx
  <2>2. CASE BeginTxFails(k)
    BY <2>2 DEF BeginTxFails
  <2>3. CASE Exec(k)
    BY <2>3 DEF Exec
  <2>4. CASE ExecFails(k)
    BY <2>4 DEF ExecFails
  <2>5. CASE Commit(k)
    BY <2>5 DEF Commit, Landed
  <2>6. CASE CommitFails(k)
    BY <2>6 DEF CommitFails, RolledBack
  <2>7. CASE CommitAckLost(k)
    BY <2>7 DEF CommitAckLost, Landed
  <2>8. CASE JoinedReturns(k)
    BY <2>8 DEF JoinedReturns
  <2>9. ASSUME NEW st \in {"failed", "panicked"}, Unwind(k, st) PROVE Fresh'
    BY <2>9 DEF Unwind, RolledBack
  <2>10. ASSUME NEW st \in {"failed", "panicked"}, JoinedUnwinds(k, st) PROVE Fresh'
    BY <2>10 DEF JoinedUnwinds
  <2>11. CASE CtxDone(k)
    BY <2>11 DEF CtxDone, RolledBack
  <2>12. CASE QueryRoot(k)
    BY <2>12 DEF QueryRoot
  <2>13. CASE GotRows(k)
    BY <2>13 DEF GotRows
  <2>14. CASE QueryTx(k)
    BY <2>14 DEF QueryTx
  <2>15. CASE QueryTxRefused(k)
    BY <2>15 DEF QueryTxRefused
  <2>16. CASE RowsExhausted(k)
    BY <2>16 DEF RowsExhausted
  <2>17. CASE ReadFails(k)
    BY <2>17 DEF ReadFails
  <2>18. CASE ReadReturns(k)
    BY <2>18 DEF ReadReturns
  <2>19. CASE AutoCommit(k)
    BY <2>19 DEF AutoCommit
  <2>20. CASE AutoCommitFails(k)
    BY <2>20 DEF AutoCommitFails
  <2>. QED
    BY <1>2, <2>1, <2>2, <2>3, <2>4, <2>5, <2>6, <2>7, <2>8, <2>9, <2>10, <2>11, <2>12,
       <2>13, <2>14, <2>15, <2>16, <2>17, <2>18, <2>19, <2>20 DEF Step, Finish, ReadStep
<1>3. CASE UNCHANGED vars
  BY <1>3 DEF vars
<1>. QED
  BY <1>1, <1>2, <1>3 DEF Next

-----------------------------------------------------------------------------
(* Who holds a connection and an open transaction. *)

\* Every step keeps connections with open transactions and open rows.
LEMMA HoldsNext == TypeOK /\ Roles /\ Fresh /\ Holds /\ [Next]_vars => Holds'
<1>. SUFFICES ASSUME TypeOK, Roles, Fresh, Holds, [Next]_vars PROVE Holds'
  OBVIOUS
<1>. USE CallAssumption, PoolAssumption DEF TypeOK, Roles, RoleOf, Holds, HoldsOf, Ops, Opener
<1>1. ASSUME NEW k \in Call, Start(k) PROVE Holds'
  <2>1. PICK p \in Call \cup {None}, kd \in Kind, st \in Live, t \in Call \cup {None} :
             Begins(k, p, kd, st, t)
    BY <1>1, StartBegins
  <2>2. ASSUME NEW j \in Call PROVE HoldsOf(j)'
    <3>1. CASE j = k
      BY <2>1, <3>1 DEF Begins, Begin, FreshIf, Fresh
    <3>2. CASE j # k
      BY <2>1, <3>2 DEF Begins, Begin
    <3>. QED
      BY <3>1, <3>2
  <2>. QED
    BY <2>2 DEF Holds
<1>2. ASSUME NEW k \in Call, Step(k) PROVE Holds'
  <2>1. CASE BeginTx(k)
    BY <2>1 DEF BeginTx
  <2>2. CASE BeginTxFails(k)
    BY <2>2 DEF BeginTxFails
  <2>3. CASE Exec(k)
    BY <2>3 DEF Exec
  <2>4. CASE ExecFails(k)
    BY <2>4 DEF ExecFails
  <2>5. CASE Commit(k)
    BY <2>5 DEF Commit, Landed
  <2>6. CASE CommitFails(k)
    BY <2>6 DEF CommitFails, RolledBack
  <2>7. CASE CommitAckLost(k)
    BY <2>7 DEF CommitAckLost, Landed
  <2>8. CASE JoinedReturns(k)
    BY <2>8 DEF JoinedReturns
  <2>9. ASSUME NEW st \in {"failed", "panicked"}, Unwind(k, st) PROVE Holds'
    BY <2>9 DEF Unwind, RolledBack
  <2>10. ASSUME NEW st \in {"failed", "panicked"}, JoinedUnwinds(k, st) PROVE Holds'
    BY <2>10 DEF JoinedUnwinds
  <2>11. CASE CtxDone(k)
    BY <2>11 DEF CtxDone, RolledBack
  <2>12. CASE QueryRoot(k)
    BY <2>12 DEF QueryRoot
  <2>13. CASE GotRows(k)
    BY <2>13 DEF GotRows
  <2>14. CASE QueryTx(k)
    BY <2>14 DEF QueryTx
  <2>15. CASE QueryTxRefused(k)
    BY <2>15 DEF QueryTxRefused
  <2>16. CASE RowsExhausted(k)
    BY <2>16 DEF RowsExhausted
  <2>17. CASE ReadFails(k)
    BY <2>17 DEF ReadFails
  <2>18. CASE ReadReturns(k)
    BY <2>18 DEF ReadReturns
  <2>19. CASE AutoCommit(k)
    BY <2>19 DEF AutoCommit
  <2>20. CASE AutoCommitFails(k)
    BY <2>20 DEF AutoCommitFails
  <2>. QED
    BY <1>2, <2>1, <2>2, <2>3, <2>4, <2>5, <2>6, <2>7, <2>8, <2>9, <2>10, <2>11, <2>12,
       <2>13, <2>14, <2>15, <2>16, <2>17, <2>18, <2>19, <2>20 DEF Step, Finish, ReadStep
<1>3. CASE UNCHANGED vars
  BY <1>3 DEF vars
<1>. QED
  BY <1>1, <1>2, <1>3 DEF Next

-----------------------------------------------------------------------------
(* The writes of a transaction. *)

\* Without a statement or a new call, transactions have the writes they had.
LEMMA TxWritesSame ==
  ASSUME tx' = tx, ran' = ran
  PROVE  \A t : TxWrites(t)' = TxWrites(t)
BY DEF TxWrites

\* No write belongs to two transactions.
LEMMA TxWritesDisjoint ==
  ASSUME NEW t, NEW u, t # u
  PROVE  TxWrites(t) \cap TxWrites(u) = {}
BY DEF TxWrites

\* A call that begins has made no write yet.
LEMMA TxWritesBegin ==
  ASSUME TypeOK, Fresh, NEW k \in Call, NEW p, NEW kd, NEW st, NEW u \in Call \cup {None},
         Begin(k, p, kd, st, u)
  PROVE  \A t : TxWrites(t)' = TxWrites(t) \/ t = None
<1>. SUFFICES ASSUME NEW t, t # None, NEW w \in Write
              PROVE  /\ tx[w[1]] = t /\ w[2] <= ran[w[1]] <=>
                        (tx[w[1]] = t /\ w[2] <= ran[w[1]])'
  BY DEF TxWrites, Write, Begin
<1>1. w[1] \in Call /\ w[2] \in 1..MaxStmts
  BY DEF Write
<1>2. ran' = ran /\ ran[k] = 0 /\ tx[k] = None
  BY DEF Begin, Fresh, FreshIf
<1>3. CASE w[1] = k
  BY <1>1, <1>2, <1>3, PoolAssumption
<1>4. CASE w[1] # k
  BY <1>1, <1>2, <1>4 DEF Begin, TypeOK
<1>. QED
  BY <1>3, <1>4

\* A statement of k adds one write to its transaction, a write the database
\* cannot hold yet.
LEMMA TxWritesExec ==
  ASSUME TypeOK, Issued, NEW k \in Call, tx[k] # None, Exec(k)
  PROVE  /\ TxWrites(tx[k])' = TxWrites(tx[k]) \cup {<<k, ran[k] + 1>>}
         /\ \A t : t # tx[k] => TxWrites(t)' = TxWrites(t)
         /\ <<k, ran[k] + 1>> \notin durable
<1>. DEFINE new == <<k, ran[k] + 1>>
<1>1. ran[k] \in Nat /\ new \in Write /\ tx' = tx /\ ran' = [ran EXCEPT ![k] = ran[k] + 1]
  BY PoolAssumption DEF Exec, TypeOK, Write
<1>2. ASSUME NEW w \in Write
      PROVE  w[2] <= ran'[w[1]] <=> w[2] <= ran[w[1]] \/ w = new
  <2>1. w = <<w[1], w[2]>> /\ w[1] \in Call /\ w[2] \in Nat
    BY PoolAssumption DEF Write
  <2>2. CASE w[1] # k
    BY <1>1, <2>1, <2>2 DEF TypeOK
  <2>3. CASE w[1] = k
    BY <1>1, <2>1, <2>3 DEF TypeOK
  <2>. QED
    BY <2>2, <2>3
<1>3. new \notin durable
  <2>1. new \in durable => ran[k] + 1 <= ran[k]
    BY DEF Issued
  <2>. QED
    BY <1>1, <2>1
<1>4. ASSUME NEW t
      PROVE  TxWrites(t)' = {w \in Write : tx[w[1]] = t /\ (w[2] <= ran[w[1]] \/ w = new)}
  BY <1>1, <1>2 DEF TxWrites, Write
<1>5. new[1] = k
  OBVIOUS
<1>. QED
  BY <1>1, <1>3, <1>4, <1>5 DEF TxWrites

-----------------------------------------------------------------------------
(* Where the writes of a transaction are. *)

\* Every step keeps a transaction's writes pending, durable or gone, as one.
LEMMA WritesNext == TypeOK /\ Roles /\ Fresh /\ Holds /\ Issued /\ Writes /\ [Next]_vars => Writes'
<1>. SUFFICES ASSUME TypeOK, Roles, Fresh, Holds, Issued, Writes, [Next]_vars PROVE Writes'
  OBVIOUS
<1>. USE CallAssumption, PoolAssumption DEF TypeOK, Roles, RoleOf, Holds, HoldsOf, Writes, WritesIn, Ops, Opener
<1>1. ASSUME NEW k \in Call, Start(k) PROVE Writes'
  <2>1. PICK p \in Call \cup {None}, kd \in Kind, st \in Live, t \in Call \cup {None} :
             Begins(k, p, kd, st, t)
    BY <1>1, StartBegins
  <2>2. \A v \in Call : TxWrites(v)' = TxWrites(v)
    BY <2>1, TxWritesBegin DEF Begins
  <2>3. ASSUME NEW j \in Call PROVE WritesIn(j)'
    <3>1. CASE j = k
      <4>1. j \notin lost' /\ status'[j] # "returned"
        BY <2>1, <3>1 DEF Begins, Begin, Fresh, FreshIf, Live
      <4>2. txState'[j] = "none" /\ (durable \cap TxWrites(j) = {})
        <5>1. TxWrites(j) = {}
          BY <2>1, <3>1 DEF Begins, Begin, Fresh, FreshIf, TxWrites, Write
        <5>. QED
          BY <2>1, <3>1, <5>1 DEF Begins, Begin, Fresh, FreshIf
      <4>. QED
        BY <2>1, <2>2, <4>1, <4>2 DEF Begins, Begin, Landing
    <3>2. CASE j # k
      BY <2>1, <2>2, <3>2 DEF Begins, Begin, Landing
    <3>. QED
      BY <3>1, <3>2
  <2>. QED
    BY <2>3 DEF Writes
<1>2. ASSUME NEW k \in Call, Step(k) PROVE Writes'
  <2>1. CASE BeginTx(k)
    <3>1. txState[k] = "none" /\ pending[k] = {} /\ TxWrites(k) = {}
      BY <2>1 DEF BeginTx
    <3>2. ASSUME NEW t \in Call PROVE WritesIn(t)'
      <4>1. TxWrites(t)' = TxWrites(t)
        BY <2>1, TxWritesSame DEF BeginTx
      <4>2. CASE t = k
        <5>1. /\ txState'[k] = "open" /\ status'[k] = "running" /\ k \notin lost
              /\ pending' = pending /\ lost' = lost /\ durable' = durable
          BY <2>1 DEF BeginTx
        <5>2. TxWrites(t) = {}
          BY <3>1, <4>2
        <5>3. TxWrites(t)' = {}
          BY <4>1, <5>2
        <5>. QED
          BY <3>1, <4>2, <5>1, <5>3 DEF Landing
      <4>3. CASE t # k
        BY <2>1, <4>1, <4>3 DEF BeginTx, Landing
      <4>. QED
        BY <4>2, <4>3
    <3>. QED
      BY <3>2 DEF Writes
  <2>2. CASE BeginTxFails(k)
    BY <2>2, TxWritesSame DEF BeginTxFails, Landing
  <2>3. CASE Exec(k)
    <3>. DEFINE new == <<k, ran[k] + 1>>
    <3>1. tx[k] \in Call /\ ~Landing(tx[k]) /\ Opener(tx[k]) /\ txState[tx[k]] = "open"
      BY <2>3 DEF Exec, Landing
    <3>2. /\ TxWrites(tx[k])' = TxWrites(tx[k]) \cup {new}
          /\ \A t : t # tx[k] => TxWrites(t)' = TxWrites(t)
          /\ new \notin durable
      BY <2>3, <3>1, TxWritesExec
    <3>3. ASSUME NEW t \in Call PROVE WritesIn(t)'
      <4>1. CASE t = tx[k]
        BY <2>3, <3>1, <3>2, <4>1 DEF Exec, Landing
      <4>2. CASE t # tx[k]
        BY <2>3, <3>2, <4>2 DEF Exec, Landing
      <4>. QED
        BY <4>1, <4>2
    <3>. QED
      BY <3>3 DEF Writes
  <2>4. CASE ExecFails(k)
    BY <2>4, TxWritesSame DEF ExecFails, Landing
  <2>5. CASE Commit(k)
    <3>1. \A t : TxWrites(t)' = TxWrites(t)
      BY <2>5, TxWritesSame DEF Commit
    <3>2. ~Landing(k) /\ durable' = durable \cup TxWrites(k)
      BY <2>5 DEF Commit, Landed, Landing
    <3>3. ASSUME NEW t \in Call PROVE WritesIn(t)'
      <4>1. CASE t = k
        BY <2>5, <3>1, <3>2, <4>1 DEF Commit, Landed, Landing
      <4>2. CASE t # k
        <5>1. TxWrites(t) \cap TxWrites(k) = {}
          BY <4>2, TxWritesDisjoint
        <5>. QED
          BY <2>5, <3>1, <3>2, <4>2, <5>1 DEF Commit, Landed, Landing
      <4>. QED
        BY <4>1, <4>2
    <3>. QED
      BY <3>3 DEF Writes
  <2>6. CASE CommitFails(k)
    BY <2>6, TxWritesSame DEF CommitFails, RolledBack, Landing
  <2>7. CASE CommitAckLost(k)
    <3>1. \A t : TxWrites(t)' = TxWrites(t)
      BY <2>7, TxWritesSame DEF CommitAckLost
    <3>2. ~Landing(k) /\ durable' = durable \cup TxWrites(k)
      BY <2>7 DEF CommitAckLost, Landed, Landing
    <3>3. ASSUME NEW t \in Call PROVE WritesIn(t)'
      <4>1. CASE t = k
        BY <2>7, <3>1, <3>2, <4>1 DEF CommitAckLost, Landed, Landing
      <4>2. CASE t # k
        <5>1. TxWrites(t) \cap TxWrites(k) = {}
          BY <4>2, TxWritesDisjoint
        <5>. QED
          BY <2>7, <3>1, <3>2, <4>2, <5>1 DEF CommitAckLost, Landed, Landing
      <4>. QED
        BY <4>1, <4>2
    <3>. QED
      BY <3>3 DEF Writes
  <2>8. CASE JoinedReturns(k)
    BY <2>8, TxWritesSame DEF JoinedReturns, Landing
  <2>9. ASSUME NEW st \in {"failed", "panicked"}, Unwind(k, st) PROVE Writes'
    BY <2>9, TxWritesSame DEF Unwind, RolledBack, Landing
  <2>10. ASSUME NEW st \in {"failed", "panicked"}, JoinedUnwinds(k, st) PROVE Writes'
    BY <2>10, TxWritesSame DEF JoinedUnwinds, Landing
  <2>11. CASE CtxDone(k)
    BY <2>11, TxWritesSame DEF CtxDone, RolledBack, Landing
  <2>12. CASE QueryRoot(k)
    BY <2>12, TxWritesSame DEF QueryRoot, Landing
  <2>13. CASE GotRows(k)
    BY <2>13, TxWritesSame DEF GotRows, Landing
  <2>14. CASE QueryTx(k)
    BY <2>14, TxWritesSame DEF QueryTx, Landing
  <2>15. CASE QueryTxRefused(k)
    BY <2>15, TxWritesSame DEF QueryTxRefused, Landing
  <2>16. CASE RowsExhausted(k)
    BY <2>16, TxWritesSame DEF RowsExhausted, Landing
  <2>17. CASE ReadFails(k)
    BY <2>17, TxWritesSame DEF ReadFails, Landing
  <2>18. CASE ReadReturns(k)
    BY <2>18, TxWritesSame DEF ReadReturns, Landing
  <2>19. CASE AutoCommit(k)
    <3>1. tx[k] = None /\ k \notin lost /\ status[k] = "waiting"
      BY <2>19 DEF AutoCommit
    <3>2. ASSUME NEW t \in Call PROVE TxWrites(t)' = TxWrites(t) /\ <<k, 1>> \notin TxWrites(t)
      BY <2>19, <3>1 DEF AutoCommit, TxWrites, Write
    <3>3. ASSUME NEW t \in Call PROVE WritesIn(t)'
      BY <2>19, <3>1, <3>2 DEF AutoCommit, Landing
    <3>. QED
      BY <3>3 DEF Writes
  <2>20. CASE AutoCommitFails(k)
    BY <2>20, TxWritesSame DEF AutoCommitFails, Landing
  <2>. QED
    BY <1>2, <2>1, <2>2, <2>3, <2>4, <2>5, <2>6, <2>7, <2>8, <2>9, <2>10, <2>11, <2>12,
       <2>13, <2>14, <2>15, <2>16, <2>17, <2>18, <2>19, <2>20 DEF Step, Finish, ReadStep
<1>3. CASE UNCHANGED vars
  BY <1>3, TxWritesSame DEF vars, Landing
<1>. QED
  BY <1>1, <1>2, <1>3 DEF Next

\* Every step keeps durable only writes that were issued.
LEMMA IssuedNext == TypeOK /\ Roles /\ Fresh /\ Holds /\ Writes /\ Issued /\ [Next]_vars => Issued'
<1>. SUFFICES ASSUME TypeOK, Roles, Fresh, Holds, Writes, Issued, [Next]_vars PROVE Issued'
  OBVIOUS
<1>1. ASSUME NEW w \in Write PROVE w[2] \in Nat /\ w[1] \in Call /\ ran[w[1]] \in Nat
  BY <1>1, PoolAssumption DEF Write, TypeOK
<1>2. ASSUME durable' = durable, ran' = ran PROVE Issued'
  BY <1>2 DEF Issued
<1>3. ASSUME NEW k \in Call, Start(k) PROVE Issued'
  BY <1>3, <1>2, StartBegins DEF Begins, Begin
<1>4. ASSUME NEW k \in Call, Exec(k) PROVE Issued'
  <2>1. \A w \in durable : ran[w[1]] <= ran'[w[1]]
    BY <1>1, <1>4 DEF Exec, TypeOK
  <2>2. durable' = durable /\ ran' \in [Call -> Nat]
    BY <1>4, PoolAssumption DEF Exec, TypeOK
  <2>. QED
    BY <1>1, <2>1, <2>2 DEF Issued, TypeOK
<1>5. ASSUME NEW k \in Call, AutoCommit(k) PROVE Issued'
  <2>1. ran[k] = 0
    BY <1>5 DEF AutoCommit, Roles, RoleOf
  <2>. QED
    BY <1>1, <1>5, <2>1 DEF Issued, AutoCommit, TypeOK
<1>6. ASSUME NEW k \in Call, Commit(k) \/ CommitAckLost(k) PROVE Issued'
  <2>1. pending[k] = TxWrites(k) /\ ran' = ran /\ durable' = durable \cup pending[k]
    BY <1>6 DEF Commit, CommitAckLost, Landed, Writes, WritesIn
  <2>. QED
    BY <2>1 DEF Issued, TxWrites
<1>7. ASSUME NEW k \in Call, Step(k) PROVE Issued'
  <2>1. ASSUME ~Exec(k), ~AutoCommit(k), ~Commit(k), ~CommitAckLost(k)
        PROVE  durable' = durable /\ ran' = ran
    BY <1>7, <2>1 DEF Step, Finish, ReadStep, BeginTx, BeginTxFails, ExecFails, CommitFails,
       JoinedReturns, Unwind, JoinedUnwinds, CtxDone, RolledBack, QueryRoot, GotRows, QueryTx,
       QueryTxRefused, RowsExhausted, ReadFails, ReadReturns, AutoCommitFails
  <2>. QED
    BY <1>2, <1>4, <1>5, <1>6, <2>1
<1>8. CASE UNCHANGED vars
  BY <1>2, <1>8 DEF vars
<1>. QED
  BY <1>3, <1>7, <1>8 DEF Next

-----------------------------------------------------------------------------
(* The theorems. *)

\* The inductive invariant holds initially.
LEMMA InvInit == Init => IInv
<1>. SUFFICES ASSUME Init PROVE IInv
  OBVIOUS
<1>1. ASSUME NEW t \in Call PROVE TxWrites(t) = {}
  BY CallAssumption DEF Init, TxWrites, Write
<1>2. TypeOK
  BY TypeInit
<1>3. Roles /\ Fresh /\ Holds /\ Issued
  BY CallAssumption DEF Init, Roles, RoleOf, Fresh, FreshIf, Holds, HoldsOf, Issued, Ops, Opener
<1>4. Writes
  BY <1>1, CallAssumption DEF Init, Writes, WritesIn, Landing, Opener
<1>. QED
  BY <1>2, <1>3, <1>4 DEF IInv

\* Every step keeps the inductive invariant.
LEMMA InvNext == IInv /\ [Next]_vars => IInv'
BY TypeNext, RolesNext, FreshNext, HoldsNext, WritesNext, IssuedNext DEF IInv

\* The inductive invariant: types, roles of calls, connections and writes.
THEOREM Invariant == Spec => []IInv
BY InvInit, InvNext, PTL DEF Spec

\* No path out of a transaction or of a read leaks a connection.
THEOREM NoConnectionLeaks == Spec => []ConnAccounting
<1>1. IInv => ConnAccounting
  BY DEF IInv, TypeOK, Holds, HoldsOf, ConnAccounting, Live
<1>. QED
  BY <1>1, Invariant, PTL

\* A transaction lands whole or not at all, for any nesting and any pool.
THEOREM TransactionsAtomic == Spec => []AllOrNothing
<1>1. IInv => AllOrNothing
  BY DEF IInv, Writes, WritesIn, AllOrNothing, Landing
<1>. QED
  BY <1>1, Invariant, PTL

\* What the outermost call reports of a transaction is what happened to it.
THEOREM OutcomesTruthful == Spec => []OutcomeReported
<1>1. IInv => OutcomeReported
  BY DEF IInv, Writes, WritesIn, OutcomeReported, Landing
<1>. QED
  BY <1>1, Invariant, PTL

-----------------------------------------------------------------------------
(* Waiting for a connection. *)

\* Without the root engine inside functions, a call that has no connection of
\* its transaction's to use was made from outside.
Inner(k) == status[k] # "unused" /\ tx[k] \in {k, None} => parent[k] = None

NestedJoins == \A k \in Call : Inner(k)

\* While functions use only their own engine, a nested call always joins.
LEMMA NestedJoinsNext ==
  ~RootInside /\ IInv /\ NestedJoins /\ [Next]_vars => NestedJoins'
<1>. SUFFICES ASSUME ~RootInside, IInv, NestedJoins, [Next]_vars PROVE NestedJoins'
  OBVIOUS
<1>. USE CallAssumption DEF IInv, NestedJoins, Inner
<1>1. ASSUME tx' = tx, parent' = parent, \A j \in Call : status[j] = "unused" => status'[j] = "unused"
      PROVE  NestedJoins'
  BY <1>1
<1>2. ASSUME NEW k \in Call, Start(k) PROVE NestedJoins'
  <2>1. PICK p \in Call \cup {None}, kd \in Kind, st \in Live, t \in Call \cup {None} :
             Begins(k, p, kd, st, t)
    BY <1>2, StartBegins
  <2>2. ASSUME p # None PROVE t # None /\ t # k
    <3>1. p \in Call
      BY <2>2
    <3>2. kind[p] = "user" /\ status[p] = "running" /\ status[k] = "unused"
      BY <2>1, <3>1 DEF Begins, Begin, CanCall
    <3>3. tx[p] # None /\ tx[p] # k
      BY <3>1, <3>2 DEF Roles, RoleOf, Ops, Fresh, FreshIf
    <3>. QED
      BY <2>1, <3>1, <3>3 DEF Begins, Engines
  <2>. QED
    BY <2>1, <2>2 DEF Begins, Begin, TypeOK
<1>3. ASSUME NEW k \in Call, Step(k) PROVE NestedJoins'
  <2>1. tx' = tx /\ parent' = parent
    BY <1>3 DEF Step, Finish, ReadStep, BeginTx, BeginTxFails, Exec, ExecFails, Commit, CommitFails,
       CommitAckLost, Landed, JoinedReturns, Unwind, JoinedUnwinds, CtxDone, RolledBack, QueryRoot,
       GotRows, QueryTx, QueryTxRefused, RowsExhausted, ReadFails, ReadReturns, AutoCommit,
       AutoCommitFails
  <2>2. status[k] # "unused"
    BY <1>3 DEF Step, Finish, ReadStep, BeginTx, BeginTxFails, Exec, ExecFails, Commit, CommitFails,
       CommitAckLost, JoinedReturns, Unwind, JoinedUnwinds, CtxDone, QueryRoot,
       GotRows, QueryTx, QueryTxRefused, RowsExhausted, ReadFails, ReadReturns, AutoCommit,
       AutoCommitFails, Live
  <2>3. status' = [status EXCEPT ![k] = status'[k]]
    BY <1>3 DEF Step, Finish, ReadStep, BeginTx, BeginTxFails, Exec, ExecFails, Commit, CommitFails,
       CommitAckLost, JoinedReturns, Unwind, JoinedUnwinds, CtxDone, QueryRoot,
       GotRows, QueryTx, QueryTxRefused, RowsExhausted, ReadFails, ReadReturns, AutoCommit,
       AutoCommitFails, TypeOK
  <2>. QED
    BY <1>1, <2>1, <2>2, <2>3 DEF TypeOK
<1>4. CASE UNCHANGED vars
  BY <1>1, <1>4 DEF vars
<1>. QED
  BY <1>2, <1>3, <1>4 DEF Next

\* A program whose functions use the engine they are given holds no connection
\* while it waits for one, however deep the nesting and small the pool.
THEOREM JoiningNeverHoldsAndWaits == Spec => []NoHoldAndWait
<1>1. CASE RootInside
  <2>1. NoHoldAndWait
    BY <1>1 DEF NoHoldAndWait
  <2>. QED
    BY <2>1, PTL
<1>2. CASE ~RootInside
  <2>1. Init => NestedJoins
    BY DEF Init, NestedJoins, Inner
  <2>2. IInv /\ NestedJoins /\ [Next]_vars => NestedJoins'
    BY <1>2, NestedJoinsNext
  <2>3. IInv /\ NestedJoins => NoHoldAndWait
    BY DEF IInv, TypeOK, Roles, RoleOf, Holds, HoldsOf, NestedJoins, Inner, NoHoldAndWait
  <2>. QED
    BY <2>1, <2>2, <2>3, Invariant, PTL DEF Spec
<1>. QED
  BY <1>1, <1>2

-----------------------------------------------------------------------------
(* How calls nest. *)

\* A call at work was made by a function that runs; a call that joined a transaction
\* was made by a function of that transaction.
NestingOf(k) ==
  /\ status[k] \in Live /\ parent[k] # None => status[parent[k]] = "running"
  /\ tx[k] \notin {k, None} => parent[k] # None /\ tx[parent[k]] = tx[k]

\* The calls can be numbered, those made so far up to n, so that each has a higher
\* number than the one whose function made it: they form a forest.
Numbering(r, n) ==
  /\ r \in [Call -> Nat] /\ n \in Nat
  /\ \A k \in Call : /\ parent[k] # None => r[parent[k]] < r[k]
                     /\ status[k] # "unused" => r[k] <= n

Nesting == (\A k \in Call : NestingOf(k)) /\ \E r, n : Numbering(r, n)

\* A set of naturals that is not empty has a least element: of the intervals below its
\* members, a finite and minimal one.
LEMMA Least ==
  ASSUME NEW S, S \subseteq Nat, S # {}
  PROVE \E n \in S : \A m \in S : n <= m
<1>. DEFINE T == {0 .. n : n \in S}
            R == StrictSubsetOrdering(Nat)
<1>0. \A n \in S : 0 .. n \in FiniteSubsetsOf(Nat)
  BY FS_Interval DEF FiniteSubsetsOf
<1>1. T \subseteq FiniteSubsetsOf(Nat) /\ T # {}
  BY <1>0
<1>2. \E x \in T : \A y \in T : ~ (<<y, x>> \in R)
  <2>1. IsWellFoundedOn(R, FiniteSubsetsOf(Nat))
    BY FS_StrictSubsetOrderingWellFounded
  <2>. HIDE DEF T, R
  <2>. QED
    BY <1>1, <2>1, WFMin
<1>3. PICK n \in S : \A m \in S : ~ (<<0 .. m, 0 .. n>> \in R)
  BY <1>2
<1>4. ASSUME NEW m \in S, m < n PROVE FALSE
  <2>1. n \in 0 .. n /\ n \notin 0 .. m /\ 0 .. m \subseteq 0 .. n
    BY <1>4
  <2>2. 0 .. m \in SUBSET Nat /\ 0 .. n \in SUBSET Nat
    OBVIOUS
  <2>. HIDE DEF R
  <2>. QED
    BY <1>3, <2>1, <2>2 DEF StrictSubsetOrdering, R
<1>. QED
  BY <1>4

\* Some call of any that are not none was made by none of the others.
LEMMA SomeRoot ==
  ASSUME TypeOK, Nesting, NEW S, S \subseteq Call, S # {}
  PROVE  \E k \in S : parent[k] \notin S
<1>1. PICK r, n : Numbering(r, n)
  BY DEF Nesting
<1>2. PICK k \in S : \A j \in S : r[k] <= r[j]
  <2>. DEFINE N == {r[j] : j \in S}
  <2>1. N \subseteq Nat /\ N # {}
    BY <1>1 DEF Numbering
  <2>. HIDE DEF N
  <2>2. PICK m \in N : \A l \in N : m <= l
    BY <2>1, Least
  <2>. QED
    BY <2>2 DEF N
<1>3. parent[k] \in S => r[parent[k]] < r[k] /\ r[parent[k]] \in Nat /\ r[k] \in Nat
  BY <1>1, CallAssumption DEF Numbering
<1>. QED
  BY <1>2, <1>3

\* Some call of any that were made, and are not none, made none of the others.
LEMMA SomeLeaf ==
  ASSUME TypeOK, Nesting, NEW S, S \subseteq Call, S # {}, \A k \in S : status[k] # "unused"
  PROVE  \E k \in S : \A j \in S : parent[j] # k
<1>1. PICK r, n : Numbering(r, n)
  BY DEF Nesting
<1>2. PICK k \in S : \A j \in S : n - r[k] <= n - r[j]
  <2>. DEFINE N == {n - r[j] : j \in S}
  <2>1. N \subseteq Nat /\ N # {}
    BY <1>1 DEF Numbering
  <2>. HIDE DEF N
  <2>2. PICK m \in N : \A l \in N : m <= l
    BY <2>1, Least
  <2>. QED
    BY <2>2 DEF N
<1>3. ASSUME NEW j \in S, parent[j] = k PROVE FALSE
  <2>1. r[k] < r[j] /\ r[k] \in Nat /\ r[j] \in Nat /\ n \in Nat
    BY <1>1, <1>3, CallAssumption DEF Numbering
  <2>. QED
    BY <1>2, <2>1
<1>. QED
  BY <1>3

\* A step of a call is its own affair, and a function ends only when no call it made
\* is still at work.
LEMMA StepLocal ==
  ASSUME TypeOK, Roles, NEW k \in Call, Step(k)
  PROVE  /\ tx' = tx /\ parent' = parent
         /\ status' = [status EXCEPT ![k] = status'[k]]
         /\ status[k] \in Live
         /\ status[k] = "running" /\ status'[k] # "running" => Active(k)
<1>1. tx' = tx /\ parent' = parent
  BY DEF Step, Finish, ReadStep, BeginTx, BeginTxFails, Exec, ExecFails, Commit, CommitFails,
     CommitAckLost, Landed, JoinedReturns, Unwind, JoinedUnwinds, CtxDone, RolledBack, QueryRoot,
     GotRows, QueryTx, QueryTxRefused, RowsExhausted, ReadFails, ReadReturns, AutoCommit,
     AutoCommitFails
<1>2. status' = [status EXCEPT ![k] = status'[k]] /\ status[k] \in Live
  BY DEF Step, Finish, ReadStep, BeginTx, BeginTxFails, Exec, ExecFails, Commit, CommitFails,
     CommitAckLost, JoinedReturns, Unwind, JoinedUnwinds, CtxDone, QueryRoot,
     GotRows, QueryTx, QueryTxRefused, RowsExhausted, ReadFails, ReadReturns, AutoCommit,
     AutoCommitFails, TypeOK, Live
<1>3. ASSUME status[k] = "running", status'[k] # "running" PROVE Active(k)
  <2>1. kind[k] \in Ops
    BY <1>3 DEF Roles, RoleOf
  <2>. QED
    BY <1>3, <2>1 DEF Step, Finish, ReadStep, BeginTx, BeginTxFails, Exec, ExecFails, Commit,
       CommitFails, CommitAckLost, JoinedReturns, Unwind, JoinedUnwinds, CtxDone, QueryRoot,
       GotRows, QueryTx, QueryTxRefused, RowsExhausted, ReadFails, ReadReturns, AutoCommit,
       AutoCommitFails, TypeOK, Ops
<1>. QED
  BY <1>1, <1>2, <1>3

\* Calls nest whatever happens: a call is made by a function that runs, and gets the
\* next number.
LEMMA NestingNext == IInv /\ Nesting /\ [Next]_vars => Nesting'
<1>. SUFFICES ASSUME IInv, Nesting, [Next]_vars PROVE Nesting'
  OBVIOUS
<1>. USE CallAssumption
<1>0. PICK r, n : Numbering(r, n)
  BY DEF Nesting
<1>1. ASSUME NEW k \in Call, Start(k) PROVE Nesting'
  <2>1. PICK p \in Call \cup {None}, kd \in Kind, st \in Live, t \in Call \cup {None} :
             Begins(k, p, kd, st, t)
    BY <1>1, StartBegins DEF IInv
  <2>2. /\ status[k] = "unused" /\ status' = [status EXCEPT ![k] = st]
        /\ parent' = [parent EXCEPT ![k] = p] /\ tx' = [tx EXCEPT ![k] = t]
        /\ p # None => p \in Call /\ p # k /\ status[p] = "running"
        /\ t \notin {k, None} => p # None /\ t = tx[p]
    BY <2>1 DEF Begins, Begin, CanCall
  <2>3. \A j \in Call : tx[j] # k /\ parent[j] # k
    BY <2>2 DEF IInv, Fresh, FreshIf
  <2>4. ASSUME NEW j \in Call PROVE NestingOf(j)'
    BY <2>2, <2>3 DEF Nesting, NestingOf, IInv, TypeOK
  <2>5. Numbering([r EXCEPT ![k] = n + 1], n + 1)'
    BY <1>0, <2>2, <2>3 DEF Numbering, IInv, TypeOK
  <2>. QED
    BY <2>4, <2>5 DEF Nesting
<1>2. ASSUME NEW k \in Call, Step(k) PROVE Nesting'
  <2>1. /\ tx' = tx /\ parent' = parent
        /\ status' = [status EXCEPT ![k] = status'[k]]
        /\ status[k] \in Live
        /\ status[k] = "running" /\ status'[k] # "running" => Active(k)
    BY <1>2, StepLocal DEF IInv
  <2>2. ASSUME NEW j \in Call PROVE NestingOf(j)'
    BY <2>1 DEF Nesting, NestingOf, IInv, TypeOK, Active
  <2>3. Numbering(r, n)'
    BY <1>0, <2>1 DEF Numbering, IInv, TypeOK, Live
  <2>. QED
    BY <2>2, <2>3 DEF Nesting
<1>3. CASE UNCHANGED vars
  BY <1>3 DEF vars, Nesting, NestingOf, Numbering
<1>. QED
  BY <1>1, <1>2, <1>3 DEF Next

\* Calls nest in every state.
LEMMA CallsNest == Spec => []Nesting
<1>1. Init => Nesting
  <2>. SUFFICES ASSUME Init PROVE Nesting
    OBVIOUS
  <2>1. Numbering([k \in Call |-> 0], 0)
    BY DEF Init, Numbering
  <2>. QED
    BY <2>1 DEF Init, Nesting, NestingOf, Live
<1>. QED
  BY <1>1, NestingNext, Invariant, PTL DEF Spec

\* A pool is exhausted for good only by a function that uses the outer engine inside
\* its transaction: else some call that holds a connection, or was made by one that
\* does, can move.
THEOREM ExhaustionIsNested == Spec => []ExhaustionNeedsOuterEngine
<1>1. ASSUME IInv, Nesting, Exhausted, \A k \in Call : status[k] = "waiting" => parent[k] = None
      PROVE  FALSE
  <2>. DEFINE S == {k \in Call : status[k] \in Live /\ status[k] # "waiting"}
  <2>1. held # {}
    BY <1>1, FS_EmptySet, PoolAssumption DEF Exhausted, FreeConn
  <2>2. \A k \in held : k \in S
    BY <1>1 DEF IInv, TypeOK, Holds, HoldsOf, Live
  <2>3. PICK k \in S : \A j \in S : parent[j] # k
    <3>1. S \subseteq Call /\ S # {} /\ \A k \in S : status[k] # "unused"
      BY <2>1, <2>2 DEF Live
    <3>. HIDE DEF S
    <3>. QED
      BY <1>1, <3>1, SomeLeaf DEF IInv
  <2>4. Active(k)
    BY <1>1, <2>3, CallAssumption DEF Active
  <2>. QED
    BY <1>1, <2>3, <2>4 DEF Exhausted
<1>2. IInv /\ Nesting => ExhaustionNeedsOuterEngine
  BY <1>1 DEF ExhaustionNeedsOuterEngine
<1>. QED
  BY <1>2, Invariant, CallsNest, PTL

\* Nothing becomes durable but by a root statement, or when the call that opened a
\* transaction ends and every call of the transaction has ended.
THEOREM OnlyOpenersCommit == Spec => OpenerCommits
<1>. DEFINE ByOpener == \A w \in durable' \ durable :
       LET t == tx[w[1]]
       IN \/ t = None /\ kind[w[1]] = "exec"
          \/ /\ status[t] = "running" /\ status'[t] \in Ended
             /\ \A k \in Call : tx[k] = t => status'[k] \notin Live
<1>1. ASSUME IInv, Nesting, NEW k \in Call, Active(k), NEW j \in Call, tx[j] = k, j # k
      PROVE  status[j] \notin Live
  <2>. DEFINE S == {i \in Call \ {k} : tx[i] = k /\ status[i] \in Live}
  <2>1. SUFFICES ASSUME S # {} PROVE FALSE
    BY <1>1
  <2>2. PICK i \in S : parent[i] \notin S
    <3>1. S \subseteq Call
      OBVIOUS
    <3>. HIDE DEF S
    <3>. QED
      BY <1>1, <2>1, <3>1, SomeRoot DEF IInv
  <2>3. parent[i] \in Call /\ tx[parent[i]] = k /\ status[parent[i]] \in Live
    BY <1>1, <2>2, CallAssumption DEF Nesting, NestingOf, IInv, TypeOK, Live
  <2>4. parent[i] = k
    BY <2>2, <2>3
  <2>. QED
    BY <1>1, <2>2, <2>4 DEF Active
<1>2. ASSUME IInv, Nesting, NEW k \in Call, Commit(k) \/ CommitAckLost(k) PROVE ByOpener
  <2>1. /\ Active(k) /\ status[k] = "running" /\ Opener(k) /\ txState[k] = "open"
        /\ durable' = durable \cup pending[k]
        /\ status' = [status EXCEPT ![k] = status'[k]] /\ status'[k] \in Ended
    BY <1>2 DEF Commit, CommitAckLost, Landed, IInv, TypeOK, Ended
  <2>2. pending[k] = TxWrites(k)
    BY <1>2, <2>1 DEF IInv, Writes, WritesIn
  <2>3. \A w \in durable' \ durable : tx[w[1]] = k
    BY <2>1, <2>2 DEF TxWrites
  <2>4. ASSUME NEW j \in Call, tx[j] = k PROVE status'[j] \notin Live
    BY <1>1, <1>2, <2>1, <2>4 DEF IInv, TypeOK, Ended, Live
  <2>. QED
    BY <2>1, <2>3, <2>4
<1>3. ASSUME IInv, NEW k \in Call, AutoCommit(k) PROVE ByOpener
  <2>1. kind[k] = "exec" /\ tx[k] = None
    BY <1>3 DEF AutoCommit, IInv, Roles, RoleOf
  <2>2. \A w \in durable' \ durable : w[1] = k
    BY <1>3 DEF AutoCommit
  <2>. QED
    BY <2>1, <2>2
<1>4. ASSUME durable' = durable PROVE ByOpener
  BY <1>4
<1>5. IInv /\ Nesting /\ [Next]_vars => [ByOpener]_vars
  <2>. SUFFICES ASSUME IInv, Nesting, Next PROVE ByOpener
    OBVIOUS
  <2>. HIDE DEF ByOpener
  <2>1. ASSUME NEW k \in Call, Start(k) PROVE durable' = durable
    <3>1. PICK p \in Call \cup {None}, kd \in Kind, st \in Live, t \in Call \cup {None} :
               Begins(k, p, kd, st, t)
      BY <2>1, StartBegins DEF IInv
    <3>. QED
      BY <3>1 DEF Begins, Begin
  <2>2. ASSUME NEW k \in Call, Step(k)
        PROVE  Commit(k) \/ CommitAckLost(k) \/ AutoCommit(k) \/ durable' = durable
    BY <2>2 DEF Step, Finish, ReadStep, BeginTx, BeginTxFails, Exec, ExecFails, CommitFails,
       JoinedReturns, Unwind, JoinedUnwinds, CtxDone, RolledBack, QueryRoot, GotRows, QueryTx,
       QueryTxRefused, RowsExhausted, ReadFails, ReadReturns, AutoCommitFails
  <2>. QED
    BY <1>2, <1>3, <1>4, <2>1, <2>2 DEF Next
<1>. QED
  BY <1>5, Invariant, CallsNest, PTL DEF Spec, OpenerCommits

-----------------------------------------------------------------------------
(* Refinement of the atomic store. *)

\* A step that touches neither the database nor what transactions wrote.
LEMMA MadeSame ==
  ASSUME tx' = tx, ran' = ran, kind' = kind
  PROVE  Made' = Made
BY TxWritesSame DEF Made, WritesOf

\* A call whose landing and dropping are unchanged has the outcome it had.
LEMMA OutcomeSame ==
  ASSUME NEW t \in Call, HasLanded(t)' <=> HasLanded(t), WasDropped(t)' <=> WasDropped(t)
  PROVE  Outcome'[t] = Outcome[t]
BY DEF Outcome

\* Outcome is a function on the calls, before and after a step.
LEMMA OutcomeFunction ==
  /\ Outcome = [t \in Call |-> Outcome[t]]
  /\ Outcome' = [t \in Call |-> Outcome'[t]]
BY DEF Outcome

\* The outcome of one call.
LEMMA OutcomeIs ==
  ASSUME NEW t \in Call
  PROVE  /\ HasLanded(t) => Outcome[t] = "landed"
         /\ WasDropped(t) => Outcome[t] = "dropped"
         /\ ~HasLanded(t) /\ ~WasDropped(t) => Outcome[t] = "open"
BY DEF Outcome, WasDropped

\* A step of k that writes nothing and decides nothing but, perhaps, to drop.
LEMMA DropOrStutter ==
  ASSUME TypeOK, NEW k \in Call, tx' = tx, ran' = ran, kind' = kind, durable' = durable, lost' = lost,
         \A t \in Call : t # k => status'[t] = status[t],
         \A t \in Call : t # k => (txState'[t] = "done" <=> txState[t] = "done"),
         ~HasLanded(k), ~HasLanded(k)', WasDropped(k) => WasDropped(k)'
  PROVE  [Store!Next]_(Store!vars)
<1>1. Made' = Made
  BY MadeSame
<1>2. ASSUME NEW t \in Call, t # k PROVE Outcome'[t] = Outcome[t]
  <2>1. /\ status'[t] = status[t] /\ (txState'[t] = "done" <=> txState[t] = "done")
        /\ (IsTx(t)' <=> IsTx(t)) /\ lost' = lost
    <3>1. IsTx(t)' <=> IsTx(t)
      BY DEF IsTx, Opener
    <3>. QED
      BY <1>2, <3>1
  <2>2. HasLanded(t)' <=> HasLanded(t)
    BY <2>1 DEF HasLanded
  <2>3. WasDropped(t)' <=> WasDropped(t)
    BY <2>1, <2>2 DEF WasDropped
  <2>. QED
    BY <2>2, <2>3, OutcomeSame
<1>3. CASE WasDropped(k)' <=> WasDropped(k)
  <2>1. Outcome'[k] = Outcome[k]
    BY <1>3, OutcomeSame
  <2>2. Outcome' = Outcome
    BY <1>2, <2>1 DEF Outcome
  <2>. QED
    BY <1>1, <2>2 DEF Store!vars
<1>4. CASE WasDropped(k)' /\ ~WasDropped(k)
  <2>1. Outcome[k] = "open"
    BY <1>4, OutcomeIs
  <2>2. Outcome'[k] = "dropped"
    BY <1>4 DEF Outcome
  <2>3. Outcome' = [Outcome EXCEPT ![k] = "dropped"]
    BY <1>2, <2>2, OutcomeFunction
  <2>. QED
    BY <1>1, <2>1, <2>3 DEF Store!Next, Store!Drop
<1>. QED
  BY <1>3, <1>4

\* The commit of k: all that its transaction made lands in one step.
LEMMA LandStep ==
  ASSUME IInv, NEW k \in Call, Opener(k), ~HasLanded(k), ~WasDropped(k), HasLanded(k)',
         tx' = tx, ran' = ran, kind' = kind, durable' = durable \cup TxWrites(k),
         \A t \in Call : t # k => status'[t] = status[t] /\ txState'[t] = txState[t],
         lost' \in {lost, lost \cup {k}}
  PROVE  Store!Land(k)
<1>1. Made' = Made /\ Made[k] = TxWrites(k)
  <2>1. kind[k] # "exec"
    BY DEF IInv, Roles, RoleOf, Ops, Opener
  <2>. QED
    BY <2>1, MadeSame DEF Made
<1>2. ASSUME NEW t \in Call, t # k PROVE Outcome'[t] = Outcome[t]
  <2>1. (HasLanded(t)' <=> HasLanded(t)) /\ (WasDropped(t)' <=> WasDropped(t))
    <3>1. status'[t] = status[t] /\ txState'[t] = txState[t] /\ (t \in lost' <=> t \in lost)
      BY <1>2
    <3>2. IsTx(t)' <=> IsTx(t)
      BY DEF IsTx, Opener
    <3>. QED
      BY <3>1, <3>2 DEF HasLanded, WasDropped
  <2>. QED
    BY <2>1, OutcomeSame
<1>3. Outcome[k] = "open" /\ Outcome'[k] = "landed"
  <2>1. Outcome[k] = "open"
    BY OutcomeIs
  <2>2. Outcome'[k] = "landed"
    BY DEF Outcome, WasDropped
  <2>. QED
    BY <2>1, <2>2
<1>4. Outcome' = [Outcome EXCEPT ![k] = "landed"]
  BY <1>2, <1>3, OutcomeFunction
<1>. QED
  BY <1>1, <1>3, <1>4 DEF Store!Land

\* The initial state is one of the store.
LEMMA StoreInit == Init => Store!Init
<1>. SUFFICES ASSUME Init PROVE Store!Init
  OBVIOUS
<1>1. ASSUME NEW t \in Call PROVE TxWrites(t) = {} /\ WritesOf(t) = {}
  BY CallAssumption DEF Init, TxWrites, WritesOf, Write
<1>2. Made = [t \in Call |-> {}]
  BY <1>1 DEF Made
<1>3. ASSUME NEW t \in Call PROVE Outcome[t] = "open"
  <2>1. ~HasLanded(t) /\ ~WasDropped(t)
    BY CallAssumption DEF Init, HasLanded, WasDropped, IsTx, Opener
  <2>. QED
    BY <2>1, OutcomeIs
<1>4. Outcome = [t \in Call |-> "open"]
  BY <1>3 DEF Outcome
<1>. QED
  BY <1>2, <1>4 DEF Store!Init, Init

\* Beginning a call is invisible to the store.
LEMMA StartStutters ==
  ASSUME IInv, NEW k \in Call, Start(k)
  PROVE  UNCHANGED Store!vars
<1>. USE CallAssumption DEF IInv
<1>1. PICK p \in Call \cup {None}, kd \in Kind, st \in Live, t \in Call \cup {None} :
           Begins(k, p, kd, st, t)
  BY StartBegins
<1>2. \A v \in Call : TxWrites(v)' = TxWrites(v)
  BY <1>1, TxWritesBegin DEF Begins
<1>3. /\ status[k] = "unused" /\ ran[k] = 0 /\ txState[k] = "none" /\ k \notin lost
      /\ kind[k] = "none" /\ tx[k] = None
      /\ \A j \in Call : tx[j] # k
  BY <1>1 DEF Begins, Begin, Fresh, FreshIf
<1>4. Made' = Made
  <2>1. WritesOf(k)' = {} /\ TxWrites(k) = {}
    BY <1>1, <1>3 DEF Begins, Begin, WritesOf, TxWrites, Write
  <2>2. ASSUME NEW v \in Call PROVE Made'[v] = Made[v]
    <3>1. CASE v = k
      <4>1. Made[k] = {}
        BY <1>3, <2>1 DEF Made
      <4>2. TxWrites(k)' = {}
        BY <1>2, <2>1
      <4>3. Made'[k] = {}
        BY <2>1, <4>2 DEF Made
      <4>. QED
        BY <3>1, <4>1, <4>3
    <3>2. CASE v # k
      <4>1. kind'[v] = kind[v] /\ ran' = ran
        BY <1>1, <3>2 DEF Begins, Begin
      <4>2. TxWrites(v)' = TxWrites(v) /\ WritesOf(v)' = WritesOf(v)
        BY <1>2, <4>1 DEF WritesOf
      <4>. QED
        BY <4>1, <4>2 DEF Made
    <3>. QED
      BY <3>1, <3>2
  <2>. QED
    BY <2>2 DEF Made
<1>5. Outcome' = Outcome
  <2>1. ASSUME NEW v \in Call PROVE Outcome'[v] = Outcome[v]
    <3>1. CASE v = k
      <4>1. ~HasLanded(k) /\ ~WasDropped(k) /\ ~HasLanded(k)' /\ ~WasDropped(k)'
        BY <1>1, <1>3 DEF Begins, Begin, HasLanded, WasDropped, IsTx, Opener, Live, Ended
      <4>2. Outcome'[k] = Outcome[k]
        BY <4>1, OutcomeSame
      <4>. QED
        BY <3>1, <4>2
    <3>2. CASE v # k
      <4>1. (HasLanded(v)' <=> HasLanded(v)) /\ (WasDropped(v)' <=> WasDropped(v))
        BY <1>1, <3>2 DEF Begins, Begin, HasLanded, WasDropped, IsTx, Opener
      <4>. QED
        BY <4>1, OutcomeSame
    <3>. QED
      BY <3>1, <3>2
  <2>. QED
    BY <2>1 DEF Outcome
<1>6. durable' = durable
  BY <1>1 DEF Begins, Begin
<1>. QED
  BY <1>4, <1>5, <1>6 DEF Store!vars

\* A statement in a transaction is a write of the store's transaction.
LEMMA ExecMakes ==
  ASSUME IInv, NEW k \in Call, Exec(k)
  PROVE  Store!Make(tx[k], <<k, ran[k] + 1>>) /\ tx[k] \in Call /\ <<k, ran[k] + 1>> \in Write
<1>. DEFINE t == tx[k]
            new == <<k, ran[k] + 1>>
<1>1. /\ t \in Call /\ Opener(t) /\ txState[t] = "open"
      /\ kind[t] # "exec" /\ kind[k] # "exec"
  BY DEF Exec, IInv, TypeOK, Roles, RoleOf, Ops, Opener
<1>2. new \in Write
  BY PoolAssumption DEF Exec, IInv, TypeOK, Write
<1>3. /\ TxWrites(t)' = TxWrites(t) \cup {new}
      /\ \A u : u # t => TxWrites(u)' = TxWrites(u)
  BY <1>1, CallAssumption, TxWritesExec DEF IInv
<1>4. ASSUME NEW u \in Call PROVE Made'[u] = IF u = t THEN Made[t] \cup {new} ELSE Made[u]
  <2>1. /\ kind' = kind /\ tx' = tx
        /\ ran' = [ran EXCEPT ![k] = ran[k] + 1] /\ ran \in [Call -> 0..MaxStmts]
    BY DEF Exec, IInv, TypeOK
  <2>2. CASE kind[u] = "exec"
    <3>1. u # k /\ u # t
      BY <1>1, <2>2
    <3>2. WritesOf(u)' = WritesOf(u)
      BY <2>1, <3>1 DEF WritesOf
    <3>. QED
      BY <2>1, <2>2, <3>1, <3>2 DEF Made
  <2>3. CASE u = t
    <3>1. Made'[t] = Made[t] \cup {new}
      BY <1>1, <1>3, <2>1 DEF Made
    <3>. QED
      BY <2>3, <3>1
  <2>4. CASE kind[u] # "exec" /\ u # t
    BY <1>3, <2>1, <2>4 DEF Made
  <2>. QED
    BY <2>2, <2>3, <2>4
<1>5. Made' = [Made EXCEPT ![t] = @ \cup {new}]
  BY <1>1, <1>4 DEF Made
<1>6. Outcome[t] = "open"
  <2>1. ~HasLanded(t) /\ ~WasDropped(t)
    BY <1>1 DEF IInv, Holds, HoldsOf, Writes, WritesIn, Landing, HasLanded, WasDropped, Ended
  <2>. QED
    BY <1>1, <2>1, OutcomeIs
<1>7. Outcome' = Outcome
  <2>1. ASSUME NEW u \in Call PROVE Outcome'[u] = Outcome[u]
    <3>1. (HasLanded(u)' <=> HasLanded(u)) /\ (WasDropped(u)' <=> WasDropped(u))
      BY DEF Exec, HasLanded, WasDropped, IsTx, Opener
    <3>. QED
      BY <3>1, OutcomeSame
  <2>. QED
    BY <2>1 DEF Outcome
<1>. QED
  BY <1>1, <1>2, <1>5, <1>6, <1>7 DEF Store!Make, Exec

\* A statement on the root engine is written and lands in one step.
LEMMA AutoCommitLands ==
  ASSUME IInv, NEW k \in Call, AutoCommit(k)
  PROVE  Store!MakeAndLand(k, <<k, 1>>) /\ <<k, 1>> \in Write
<1>. DEFINE new == <<k, 1>>
<1>1. /\ tx[k] = None /\ kind[k] = "exec" /\ ran[k] = 0 /\ status[k] = "waiting" /\ k \notin lost
      /\ txState[k] = "none"
  BY DEF AutoCommit, IInv, Roles, RoleOf, Ops, Holds, HoldsOf, Writes, WritesIn
<1>2. new \in Write
  BY PoolAssumption DEF AutoCommit, Write
<1>3. ASSUME NEW u \in Call PROVE TxWrites(u)' = TxWrites(u)
  BY <1>1, CallAssumption DEF AutoCommit, TxWrites, Write, IInv, TypeOK
<1>4. Made[k] = {} /\ Made'[k] = {new}
  <2>1. WritesOf(k) = {} /\ WritesOf(k)' = {new}
    <3>1. ran'[k] = 1
      BY DEF AutoCommit, IInv, TypeOK
    <3>. QED
      BY <1>1, <3>1 DEF WritesOf
  <2>. QED
    BY <1>1, <2>1 DEF Made, AutoCommit
<1>5. ASSUME NEW u \in Call, u # k PROVE Made'[u] = Made[u]
  <2>1. kind' = kind /\ ran'[u] = ran[u]
    BY <1>5 DEF AutoCommit
  <2>2. WritesOf(u)' = WritesOf(u)
    BY <2>1 DEF WritesOf
  <2>. QED
    BY <1>3, <2>1, <2>2 DEF Made
<1>6. Made' = [Made EXCEPT ![k] = @ \cup {new}]
  BY <1>4, <1>5 DEF Made
<1>7. Outcome[k] = "open" /\ Outcome'[k] = "landed"
  <2>1. ~HasLanded(k) /\ ~WasDropped(k) /\ HasLanded(k)'
    BY <1>1 DEF AutoCommit, HasLanded, WasDropped, IsTx, Ended, IInv, TypeOK
  <2>2. Outcome[k] = "open"
    BY <2>1, OutcomeIs
  <2>3. Outcome'[k] = "landed"
    BY <2>1 DEF Outcome, WasDropped
  <2>. QED
    BY <2>2, <2>3
<1>8. ASSUME NEW u \in Call, u # k PROVE Outcome'[u] = Outcome[u]
  <2>1. (HasLanded(u)' <=> HasLanded(u)) /\ (WasDropped(u)' <=> WasDropped(u))
    BY <1>8 DEF AutoCommit, HasLanded, WasDropped, IsTx, Opener
  <2>. QED
    BY <2>1, OutcomeSame
<1>9. Outcome' = [Outcome EXCEPT ![k] = "landed"]
  BY <1>7, <1>8, OutcomeFunction
<1>. QED
  BY <1>2, <1>4, <1>6, <1>7, <1>9 DEF Store!MakeAndLand, AutoCommit

\* Every step of the engine is a step of the store or invisible to it.
LEMMA StepRefines ==
  ASSUME IInv, NEW k \in Call, Step(k)
  PROVE  [Store!Next]_(Store!vars)
<1>. USE DEF Ops, Opener, IsTx, HasLanded, WasDropped, Ended
<1>1. CASE Exec(k)
  BY <1>1, ExecMakes DEF Store!Next
<1>2. CASE AutoCommit(k)
  BY <1>2, AutoCommitLands DEF Store!Next
<1>3. CASE Commit(k) \/ CommitAckLost(k)
  <2>1. txState[k] = "open" /\ Opener(k) /\ status[k] = "running" /\ k \notin lost
    BY <1>3 DEF Commit, CommitAckLost, IInv, Writes, WritesIn
  <2>2. durable' = durable \cup TxWrites(k)
    BY <1>3, <2>1 DEF Commit, CommitAckLost, Landed, IInv, Writes, WritesIn
  <2>3. ~HasLanded(k) /\ ~WasDropped(k) /\ HasLanded(k)'
    BY <1>3, <2>1 DEF Commit, CommitAckLost, Landed, IInv, TypeOK
  <2>4. /\ tx' = tx /\ ran' = ran /\ kind' = kind
        /\ \A t \in Call : t # k => status'[t] = status[t] /\ txState'[t] = txState[t]
        /\ lost' \in {lost, lost \cup {k}}
    <3>1. CASE Commit(k)
      BY <3>1 DEF Commit, Landed
    <3>2. CASE CommitAckLost(k)
      BY <3>2 DEF CommitAckLost, Landed
    <3>. QED
      BY <1>3, <3>1, <3>2
  <2>5. Store!Land(k)
    BY <2>1, <2>2, <2>3, <2>4, LandStep
  <2>. QED
    BY <2>5 DEF Store!Next
<1>4. ASSUME ~Exec(k), ~AutoCommit(k), ~Commit(k), ~CommitAckLost(k)
      PROVE  [Store!Next]_(Store!vars)
  <2>. USE DEF IInv, TypeOK, Roles, RoleOf, Holds, HoldsOf, Writes, WritesIn, Landing
  <2>1. /\ tx' = tx /\ ran' = ran /\ kind' = kind /\ durable' = durable /\ lost' = lost
        /\ status[k] \in Live
    BY <1>4 DEF Step, Finish, ReadStep, BeginTx, BeginTxFails, ExecFails, CommitFails, RolledBack,
       JoinedReturns, Unwind, JoinedUnwinds, CtxDone, QueryRoot, GotRows, QueryTx, QueryTxRefused,
       RowsExhausted, ReadFails, ReadReturns, AutoCommitFails, Live
  <2>2. ASSUME NEW t \in Call, t # k
        PROVE  status'[t] = status[t] /\ (txState'[t] = "done" <=> txState[t] = "done")
    BY <1>4, <2>2 DEF Step, Finish, ReadStep, BeginTx, BeginTxFails, ExecFails, CommitFails, RolledBack,
       JoinedReturns, Unwind, JoinedUnwinds, CtxDone, QueryRoot, GotRows, QueryTx, QueryTxRefused,
       RowsExhausted, ReadFails, ReadReturns, AutoCommitFails
  <2>3. ~HasLanded(k)
    BY <2>1 DEF Live
  <2>4. txState[k] = "done" => txState'[k] = "done"
    BY <1>4 DEF Step, Finish, ReadStep, BeginTx, BeginTxFails, ExecFails, CommitFails, RolledBack,
       JoinedReturns, Unwind, JoinedUnwinds, CtxDone, QueryRoot, GotRows, QueryTx, QueryTxRefused,
       RowsExhausted, ReadFails, ReadReturns, AutoCommitFails
  <2>5. status'[k] = "returned" => ~IsTx(k)
    BY <1>4 DEF Step, Finish, ReadStep, BeginTx, BeginTxFails, ExecFails, CommitFails, RolledBack,
       JoinedReturns, Unwind, JoinedUnwinds, CtxDone, QueryRoot, GotRows, QueryTx, QueryTxRefused,
       RowsExhausted, ReadFails, ReadReturns, AutoCommitFails
  <2>6. ~HasLanded(k)' /\ (WasDropped(k) => WasDropped(k)')
    BY <2>1, <2>3, <2>4, <2>5 DEF Live
  <2>. QED
    BY <2>1, <2>2, <2>3, <2>6, DropOrStutter
<1>. QED
  BY <1>1, <1>2, <1>3, <1>4

\* goql's transactions, nested, cancelled or panicking, are atomic: every
\* behaviour of the engine is one of the atomic store.
THEOREM ImplementsAtomicStore == Spec => AtomicTransactions
<1>1. IInv /\ [Next]_vars => [Store!Next]_(Store!vars)
  <2>. SUFFICES ASSUME IInv, [Next]_vars PROVE [Store!Next]_(Store!vars)
    OBVIOUS
  <2>1. ASSUME NEW k \in Call, Start(k) PROVE [Store!Next]_(Store!vars)
    BY <2>1, StartStutters
  <2>2. CASE UNCHANGED vars
    BY <2>2, TxWritesSame DEF vars, Store!vars, Made, WritesOf, Outcome, HasLanded, WasDropped,
       IsTx, Opener
  <2>. QED
    BY <2>1, <2>2, StepRefines DEF Next
<1>. QED
  BY <1>1, StoreInit, Invariant, PTL DEF Spec, AtomicTransactions, Store!Spec

=============================================================================
