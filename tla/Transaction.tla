---------------------------- MODULE Transaction ----------------------------
(***************************************************************************)
(* Transactions and connection use of goql's Engine.                       *)
(*                                                                         *)
(* An Engine value is either the root engine (ctx.tx = nil), whose         *)
(* statements take a connection from the database/sql pool one at a time,  *)
(* or a transaction engine, whose statements run on the connection its     *)
(* sql.Tx pinned.  Every public call is one element of Call:               *)
(*   "user"  Engine.Transaction with the caller's function;                *)
(*   "op"    Create, Write, Update, Delete, Insert, CreateTables: a        *)
(*           Transaction around a list of statements, the first failing    *)
(*           one of which ends the function with its error;                *)
(*   "read"  Select, Search, Get: a query that is scanned to its end, then *)
(*           the queries of the relations to preload;                      *)
(*   "exec"  Execute on the root engine: one autocommitted statement.      *)
(* A goroutine is a call made from outside (parent None) with the calls    *)
(* its function makes.  database/sql - the pool, Tx, the ctx watcher that  *)
(* rolls a transaction back - and the server are external and modelled     *)
(* from how the code uses them.                                            *)
(***************************************************************************)
EXTENDS Integers, FiniteSets

CONSTANTS
  Call,           \* the calls of a behaviour, each made at most once
  None,           \* no call: the parent of an outermost call, the root engine
  MaxOpen,        \* SetMaxOpenConns of the pool
  MaxStmts,       \* bound: successful statements issued by one call
  RootInside,     \* TRUE: functions may also use the outer, root engine
  AbortOnError    \* TRUE: a failed statement aborts its tx (PostgreSQL)

ASSUME CallAssumption == None \notin Call
ASSUME PoolAssumption == MaxOpen \in Nat \ {0} /\ MaxStmts \in Nat
ASSUME FlagAssumption == RootInside \in BOOLEAN /\ AbortOnError \in BOOLEAN

VARIABLES
  status,    \* how far each call is
  kind,      \* what each call is
  parent,    \* the call whose function made it
  tx,        \* the call that opened the transaction it runs in; None: none
  txState,   \* for each opener, its sql.Tx
  held,      \* the calls that hold a pool connection of their own
  ran,       \* how many statements of each call succeeded
  pending,   \* for each opener, the writes its transaction has made
  durable,   \* the writes the database has committed
  lost       \* openers whose commit landed but was reported as an error

vars == <<status, kind, parent, tx, txState, held, ran, pending, durable, lost>>

Kind    == {"user", "op", "read", "exec"}
Live    == {"waiting", "running", "erring", "ready", "scanning", "scanned"}
Ended   == {"returned", "failed", "panicked"}
Status  == {"unused"} \cup Live \cup Ended
TxState == {"none", "open", "aborted", "done"}
Write   == Call \X (1..MaxStmts)

\* The writes a call's statements made, and those of a whole transaction.
WritesOf(k) == {k} \X (1..ran[k])
TxWrites(t) == {w \in Write : tx[w[1]] = t /\ w[2] <= ran[w[1]]}

TypeOK ==
  /\ status  \in [Call -> Status]
  /\ kind    \in [Call -> Kind \cup {"none"}]
  /\ parent  \in [Call -> Call \cup {None}]
  /\ tx      \in [Call -> Call \cup {None}]
  /\ txState \in [Call -> TxState]
  /\ held    \in SUBSET Call
  /\ ran     \in [Call -> 0..MaxStmts]
  /\ pending \in [Call -> SUBSET Write]
  /\ durable \in SUBSET Write
  /\ lost    \in SUBSET Call

Init ==
  /\ status  = [k \in Call |-> "unused"]
  /\ kind    = [k \in Call |-> "none"]
  /\ parent  = [k \in Call |-> None]
  /\ tx      = [k \in Call |-> None]
  /\ txState = [k \in Call |-> "none"]
  /\ held    = {}
  /\ ran     = [k \in Call |-> 0]
  /\ pending = [k \in Call |-> {}]
  /\ durable = {}
  /\ lost    = {}

-----------------------------------------------------------------------------
(* Guards.  A goroutine is sequential: only its innermost call moves.      *)

Active(k) == /\ status[k] \in Live
             /\ \A j \in Call : parent[j] = k => status[j] \notin Live

FreeConn == Cardinality(held) < MaxOpen

Opener(k) == tx[k] = k

\* The engines a function made by p can call: the one it was given, and the
\* root engine when the program also uses that one inside.
Engines(p) == IF p = None THEN {None}
              ELSE {tx[p]} \cup (IF RootInside THEN {None} ELSE {})

\* Only a user's function makes further calls.
CanCall(p) == \/ p = None
              \/ p \in Call /\ kind[p] = "user" /\ status[p] = "running" /\ Active(p)

\* A call k begins: made by p, of a kind, in the given status and transaction.
Begin(k, p, kd, st, t) ==
  /\ status[k] = "unused" /\ CanCall(p)
  /\ kind'   = [kind   EXCEPT ![k] = kd]
  /\ parent' = [parent EXCEPT ![k] = p]
  /\ tx'     = [tx     EXCEPT ![k] = t]
  /\ status' = [status EXCEPT ![k] = st]
  /\ UNCHANGED <<txState, held, ran, pending, durable, lost>>

\* tx.Rollback, explicit or by the ctx watcher: the writes are gone and the
\* connection is back.  On a finished transaction it is ErrTxDone: no effect.
RolledBack(k) ==
  /\ pending' = [pending EXCEPT ![k] = {}]
  /\ txState' = [txState EXCEPT ![k] = "done"]
  /\ held'    = held \ {k}
  /\ UNCHANGED <<durable, lost>>

Landed(k) ==
  /\ durable' = durable \cup pending[k]
  /\ pending' = [pending EXCEPT ![k] = {}]
  /\ txState' = [txState EXCEPT ![k] = "done"]
  /\ held'    = held \ {k}

-----------------------------------------------------------------------------
(* Engine.Transaction.                                                     *)

\* On the root engine BeginTx needs a connection of its own ...
CallOpening(k, p, kd) ==
  /\ kd \in {"user", "op"} /\ None \in Engines(p)
  /\ Begin(k, p, kd, "waiting", k)

\* Variation: a nested call opens a transaction of its own (design.md, 26).
CallReopening(k, p, kd) ==
  /\ kd \in {"user", "op"} /\ Engines(p) \ {None} # {}
  /\ Begin(k, p, kd, "waiting", k)

\* ... on a transaction engine the function simply runs in that transaction.
CallJoining(k, p, kd) ==
  /\ kd \in {"user", "op"}
  /\ \E t \in Engines(p) \ {None} : Begin(k, p, kd, "running", t)

BeginTx(k) ==
  /\ status[k] = "waiting" /\ Opener(k) /\ FreeConn
  /\ held'    = held \cup {k}
  /\ txState' = [txState EXCEPT ![k] = "open"]
  /\ status'  = [status EXCEPT ![k] = "running"]
  /\ UNCHANGED <<kind, parent, tx, ran, pending, durable, lost>>

\* BeginTx fails: the driver refuses a connection the pool had room for, or,
\* for the operations that carry a ctx, that ctx ends during the wait.
BeginTxFails(k) ==
  /\ status[k] = "waiting" /\ Opener(k) /\ (FreeConn \/ kind[k] = "op")
  /\ status' = [status EXCEPT ![k] = "failed"]
  /\ UNCHANGED <<kind, parent, tx, txState, held, ran, pending, durable, lost>>

\* Variation: a statement that had run is sent twice more.
ExecRetried(k) ==
  /\ Active(k) /\ status[k] = "running" /\ kind[k] \in {"user", "op"}
  /\ ran[k] < MaxStmts /\ txState[tx[k]] = "open"
  /\ ran'     = [ran EXCEPT ![k] = @ + 3]
  /\ pending' = [pending EXCEPT ![tx[k]] = @ \cup ({k} \X ((ran[k] + 1)..(ran[k] + 3)))]
  /\ UNCHANGED <<status, kind, parent, tx, txState, held, durable, lost>>

\* exec on the transaction engine.
Exec(k) ==
  /\ Active(k) /\ status[k] = "running" /\ kind[k] \in {"user", "op"}
  /\ ran[k] < MaxStmts /\ txState[tx[k]] = "open"
  /\ ran'     = [ran EXCEPT ![k] = @ + 1]
  /\ pending' = [pending EXCEPT ![tx[k]] = @ \cup {<<k, ran[k] + 1>>}]
  /\ UNCHANGED <<status, kind, parent, tx, txState, held, durable, lost>>

\* A statement that fails, always so in a transaction that is over.  An
\* operation returns the error; a user's function may do anything with it.
ExecFails(k) ==
  /\ Active(k) /\ status[k] = "running" /\ kind[k] \in {"user", "op"}
  /\ status' = [status EXCEPT ![k] = IF kind[k] = "op" THEN "erring" ELSE "running"]
  /\ txState' = [txState EXCEPT ![tx[k]] =
                   IF AbortOnError /\ @ = "open" THEN "aborted" ELSE @]
  /\ UNCHANGED <<kind, parent, tx, held, ran, pending, durable, lost>>

\* The function returns nil: the call that opened the transaction commits ...
Commit(k) ==
  /\ Active(k) /\ status[k] = "running" /\ Opener(k) /\ txState[k] = "open"
  /\ Landed(k)
  /\ status' = [status EXCEPT ![k] = "returned"]
  /\ UNCHANGED <<kind, parent, tx, ran, lost>>

\* Variation: the error of tx.Commit is dropped.
CommitErrorDropped(k) ==
  /\ Active(k) /\ status[k] = "running" /\ Opener(k)
  /\ RolledBack(k)
  /\ status' = [status EXCEPT ![k] = "returned"]
  /\ UNCHANGED <<kind, parent, tx, ran>>

\* ... the commit is refused, and the deferred Rollback has nothing to do ...
CommitFails(k) ==
  /\ Active(k) /\ status[k] = "running" /\ Opener(k)
  /\ RolledBack(k)
  /\ status' = [status EXCEPT ![k] = "failed"]
  /\ UNCHANGED <<kind, parent, tx, ran>>

\* ... or it lands and its acknowledgement is lost with the connection.
CommitAckLost(k) ==
  /\ Active(k) /\ status[k] = "running" /\ Opener(k) /\ txState[k] = "open"
  /\ Landed(k)
  /\ lost'   = lost \cup {k}
  /\ status' = [status EXCEPT ![k] = "failed"]
  /\ UNCHANGED <<kind, parent, tx, ran>>

\* Variation: the call that joined commits what there is so far.
JoinedCommits(k) ==
  /\ Active(k) /\ status[k] = "running" /\ kind[k] \in {"user", "op"} /\ ~Opener(k)
  /\ status'  = [status EXCEPT ![k] = "returned"]
  /\ durable' = durable \cup pending[tx[k]]
  /\ pending' = [pending EXCEPT ![tx[k]] = {}]
  /\ UNCHANGED <<kind, parent, tx, txState, held, ran, lost>>

\* A joined call returns nil: the transaction is not its to finish.
JoinedReturns(k) ==
  /\ Active(k) /\ status[k] = "running" /\ kind[k] \in {"user", "op"} /\ ~Opener(k)
  /\ status' = [status EXCEPT ![k] = "returned"]
  /\ UNCHANGED <<kind, parent, tx, txState, held, ran, pending, durable, lost>>

\* Variation: without the defer, a panic skips the rollback.
UnwindLeaking(k, st) ==
  /\ Active(k) /\ kind[k] \in {"user", "op"} /\ Opener(k)
  /\ \/ status[k] = "running"
     \/ status[k] = "erring" /\ st = "failed"
  /\ IF st = "failed" THEN RolledBack(k)
     ELSE UNCHANGED <<txState, held, pending, durable, lost>>
  /\ status' = [status EXCEPT ![k] = st]
  /\ UNCHANGED <<kind, parent, tx, ran>>

\* The function returns an error (st = "failed") or panics: the deferred
\* rollback of the call that opened the transaction runs on both ways out.
Unwind(k, st) ==
  /\ Active(k) /\ kind[k] \in {"user", "op"} /\ Opener(k)
  /\ \/ status[k] = "running"
     \/ status[k] = "erring" /\ st = "failed"
  /\ RolledBack(k)
  /\ status' = [status EXCEPT ![k] = st]
  /\ UNCHANGED <<kind, parent, tx, ran>>

\* Variation: a joined call that fails undoes the work on its own.
JoinedRollsBack(k, st) ==
  /\ Active(k) /\ kind[k] \in {"user", "op"} /\ ~Opener(k)
  /\ \/ status[k] = "running"
     \/ status[k] = "erring" /\ st = "failed"
  /\ status'  = [status EXCEPT ![k] = st]
  /\ pending' = [pending EXCEPT ![tx[k]] = {}]
  /\ UNCHANGED <<kind, parent, tx, txState, held, ran, durable, lost>>

\* The same in a call that joined: nothing is undone here.
JoinedUnwinds(k, st) ==
  /\ Active(k) /\ kind[k] \in {"user", "op"} /\ ~Opener(k)
  /\ \/ status[k] = "running"
     \/ status[k] = "erring" /\ st = "failed"
  /\ status' = [status EXCEPT ![k] = st]
  /\ UNCHANGED <<kind, parent, tx, txState, held, ran, pending, durable, lost>>

\* The ctx of an operation that opened its transaction ends while it runs:
\* database/sql rolls back and takes the connection, the call goes on.
CtxDone(k) ==
  /\ status[k] \in {"running", "erring"} /\ kind[k] = "op" /\ Opener(k)
  /\ txState[k] \in {"open", "aborted"}
  /\ RolledBack(k)
  /\ UNCHANGED <<status, kind, parent, tx, ran>>

-----------------------------------------------------------------------------
(* Reads, and statements on the root engine.                               *)

CallRead(k, p) == \E t \in Engines(p) : Begin(k, p, "read", "ready", t)

\* ctx.query, for the rows themselves and then for each relation to preload:
\* on the root engine it needs a connection, which the open rows will hold.
QueryRoot(k) ==
  /\ status[k] \in {"ready", "scanned"} /\ tx[k] = None
  /\ status' = [status EXCEPT ![k] = "waiting"]
  /\ UNCHANGED <<kind, parent, tx, txState, held, ran, pending, durable, lost>>

GotRows(k) ==
  /\ status[k] = "waiting" /\ kind[k] = "read" /\ FreeConn
  /\ held'   = held \cup {k}
  /\ status' = [status EXCEPT ![k] = "scanning"]
  /\ UNCHANGED <<kind, parent, tx, txState, ran, pending, durable, lost>>

QueryTx(k) ==
  /\ status[k] \in {"ready", "scanned"} /\ tx[k] # None /\ txState[tx[k]] = "open"
  /\ status' = [status EXCEPT ![k] = "scanning"]
  /\ UNCHANGED <<kind, parent, tx, txState, held, ran, pending, durable, lost>>

\* A query in a transaction that is over or aborted always fails.
QueryTxRefused(k) ==
  /\ status[k] \in {"ready", "scanned"} /\ tx[k] # None /\ txState[tx[k]] # "open"
  /\ status' = [status EXCEPT ![k] = "failed"]
  /\ UNCHANGED <<kind, parent, tx, txState, held, ran, pending, durable, lost>>

\* Variation: the relations are queried with the first rows still open.
RowsKept(k) ==
  /\ status[k] = "scanning"
  /\ status' = [status EXCEPT ![k] = "scanned"]
  /\ UNCHANGED <<kind, parent, tx, txState, held, ran, pending, durable, lost>>

\* scanRows runs rows.Next to false, which closes the rows and frees the
\* connection before the relations are queried.
RowsExhausted(k) ==
  /\ status[k] = "scanning"
  /\ held'   = held \ {k}
  /\ status' = [status EXCEPT ![k] = "scanned"]
  /\ UNCHANGED <<kind, parent, tx, txState, ran, pending, durable, lost>>

\* An error at any point, the wait for a connection included; the deferred
\* rows.Close frees the connection.  One from the server aborts the tx.
ReadFails(k) ==
  /\ kind[k] = "read" /\ status[k] \in Live
  /\ held'   = held \ {k}
  /\ status' = [status EXCEPT ![k] = "failed"]
  /\ \/ UNCHANGED txState
     \/ /\ AbortOnError /\ tx[k] # None /\ txState[tx[k]] = "open"
        /\ txState' = [txState EXCEPT ![tx[k]] = "aborted"]
  /\ UNCHANGED <<kind, parent, tx, ran, pending, durable, lost>>

ReadReturns(k) ==
  /\ status[k] = "scanned"
  /\ status' = [status EXCEPT ![k] = "returned"]
  /\ UNCHANGED <<kind, parent, tx, txState, held, ran, pending, durable, lost>>

CallExec(k, p) == None \in Engines(p) /\ Begin(k, p, "exec", "waiting", None)

\* exec with ctx.tx = nil; its answer, too, may be lost.
AutoCommit(k) ==
  /\ status[k] = "waiting" /\ kind[k] = "exec" /\ FreeConn /\ MaxStmts > 0
  /\ ran'     = [ran EXCEPT ![k] = 1]
  /\ durable' = durable \cup {<<k, 1>>}
  /\ \E st \in {"returned", "failed"} :
       /\ status' = [status EXCEPT ![k] = st]
       /\ lost'   = IF st = "failed" THEN lost \cup {k} ELSE lost
  /\ UNCHANGED <<kind, parent, tx, txState, held, pending>>

AutoCommitFails(k) ==
  /\ status[k] = "waiting" /\ kind[k] = "exec"
  /\ status' = [status EXCEPT ![k] = "failed"]
  /\ UNCHANGED <<kind, parent, tx, txState, held, ran, pending, durable, lost>>

-----------------------------------------------------------------------------

Finish(k) == \/ Commit(k) \/ CommitFails(k) \/ CommitAckLost(k) \/ JoinedReturns(k)
             \/ \E st \in {"failed", "panicked"} : Unwind(k, st) \/ JoinedUnwinds(k, st)

ReadStep(k) == QueryRoot(k) \/ GotRows(k) \/ QueryTx(k) \/ QueryTxRefused(k)
               \/ RowsExhausted(k)

Step(k) == \/ BeginTx(k) \/ BeginTxFails(k) \/ Exec(k) \/ ExecFails(k)
           \/ Finish(k) \/ CtxDone(k)
           \/ ReadStep(k) \/ ReadFails(k) \/ ReadReturns(k)
           \/ AutoCommit(k) \/ AutoCommitFails(k)

Start(k) == \E p \in Call \cup {None} :
              \/ \E kd \in Kind : CallOpening(k, p, kd) \/ CallJoining(k, p, kd)
              \/ CallRead(k, p) \/ CallExec(k, p)

Next == \E k \in Call : Start(k) \/ Step(k)

Spec == Init /\ [][Next]_vars

\* A function ends (the programs considered do not block for ever in it), the
\* driver answers, rows and the list of relations are finite, and database/sql
\* serves the requests for a connection in order: a free one is handed out.
Fairness == \A k \in Call : /\ WF_vars(Finish(k))
                            /\ WF_vars(BeginTx(k))
                            /\ WF_vars(ReadStep(k))
                            /\ SF_vars(ReadReturns(k))
                            /\ WF_vars(AutoCommit(k))

FairSpec == Spec /\ Fairness

-----------------------------------------------------------------------------
(* Properties.                                                             *)

\* The pool's connections are held by exactly the open transactions and the
\* open result sets, each on behalf of a call still in progress: no way out of
\* Transaction, a panic and a refused commit included, and none out of a read
\* leaks a connection or leaves a transaction open (engine.go, the deferred
\* Rollback; rows.Close).
ConnAccounting ==
  /\ held = {k \in Call : \/ txState[k] \in {"open", "aborted"}
                          \/ status[k] = "scanning" /\ tx[k] = None}
  /\ \A k \in held : status[k] \in Live

\* A program whose functions use only the engine they are given never waits for
\* a connection while its goroutine holds one: joining makes the nesting depth
\* irrelevant to the size of the pool (comment of Engine.Transaction).
NoHoldAndWait ==
  ~RootInside =>
     \A k \in Call : status[k] = "waiting" => parent[k] = None /\ k \notin held

\* When every connection is taken and every goroutine is waiting for one, a
\* function somewhere called the outer engine inside its transaction: nothing
\* else in goql can exhaust the pool for good.
Exhausted ==
  /\ ~FreeConn
  /\ \A k \in Call : Active(k) => status[k] = "waiting"

ExhaustionNeedsOuterEngine ==
  Exhausted => \E k \in Call : status[k] = "waiting" /\ parent[k] # None

\* A transaction lands with all the writes made in it, by nested calls too, or
\* with none (docs/transactions.md, "Nesting joins, it does not re-open").
AllOrNothing ==
  \A t \in Call : Opener(t) => durable \cap TxWrites(t) \in {{}, TxWrites(t)}

\* What the call that opened the transaction reports is what happened: nil means
\* everything is durable; an error or a panic means nothing is, unless only the
\* acknowledgement of the commit was lost; and before that nothing shows.
OutcomeReported ==
  \A t \in Call : Opener(t) =>
     /\ status[t] = "returned" => TxWrites(t) \subseteq durable
     /\ status[t] # "returned" /\ t \notin lost => durable \cap TxWrites(t) = {}

\* Durability moves only when a root statement autocommits, or when the call
\* that opened a transaction ends, after every call nested in it has ended.
OpenerCommits ==
  [][\A w \in durable' \ durable :
       LET t == tx[w[1]]
       IN \/ t = None /\ kind[w[1]] = "exec"
          \/ /\ status[t] = "running" /\ status'[t] \in Ended
             /\ \A k \in Call : tx[k] = t => status'[k] \notin Live
    ]_vars

\* Every call made ends, whatever the nesting and however small the pool.
EveryCallEnds ==
  \A k \in Call : status[k] # "unused" ~> status[k] \in Ended

-----------------------------------------------------------------------------
(* Transactions implement the atomic store.                                *)

Made == [t \in Call |-> IF kind[t] = "exec" THEN WritesOf(t) ELSE TxWrites(t)]

\* The calls that are transactions of the store, how they landed or were dropped.
IsTx(t)       == Opener(t) \/ kind[t] = "exec"
HasLanded(t)  == IsTx(t) /\ (status[t] = "returned" \/ t \in lost)
WasDropped(t) == IsTx(t) /\ ~HasLanded(t) /\ (txState[t] = "done" \/ status[t] \in Ended)

Outcome == [t \in Call |-> CASE HasLanded(t)  -> "landed"
                              [] WasDropped(t) -> "dropped"
                              [] OTHER         -> "open"]

Store == INSTANCE AtomicStore WITH Tx <- Call, Item <- Write,
                                   db <- durable, made <- Made, outcome <- Outcome

\* goql's nested, panicking, cancelled transactions behave like transactions
\* that happen at one instant or not at all.
AtomicTransactions == Store!Spec

=============================================================================
