# goql in TLA+

A model of goql, the Go ORM in `src/` that compiles Go lambdas to SQL. The modules
here are translated from the source; TLC checks them on small instances and TLAPS
proves the most important properties for every instance.

## The system

| Part | State | Operations | What is hard, and what must hold | Modules |
|---|---|---|---|---|
| Transactions and connection use (`engine.go`, `helpers.go`, `raw.go`) | `Engine.tx`, `Engine.ctx`, the pool | `Transaction`, the operations that wrap themselves in one, reads with preloads, `Execute` | nesting joins, panics, contexts that end, lost commits, a bounded pool; no leak, all or nothing, no self-deadlock | `Transaction`, `AtomicStore` |
| Entities and change tracking (`model.go`, `createAny`, `writeAny`, `deleteAny`, `scanRows`) | `Model.original`, the key field, the row | load, `Create`, `Write`, `Delete` | rollbacks do not touch memory, several sessions; nothing assigned is lost, nothing else is overwritten | `EntityTracking` |
| Relations (`preload.go`, `syncO2M`, many2many loops) | relation fields, join rows, foreign keys | preload, `Write`, `Create`, an assigning `Update` | two reads or a read and a write with other sessions between, nil and empty slices; what commits is what was listed | `RelationSync` |
| Lambda compilation (`executor_dev.go`, `query/parse.go`) | the list of branches | `parseBody`, `parseIfChain`, `parseSwitchStmt`, `exclusiveCondition` | order of arms, NULL; the branches do what the body says | `LambdaBody` |
| Lambda calls (`engine.go`, `insert.go`, `query/write.go`, ...) | the table, between statements | `Select`, `Delete`, `Update`, `Insert` | one statement per arm, other sessions in between, failure half way | `LambdaCall` |
| Lambda identity (`lambdakey.go`, `generator/`, `source.go`, `executor_*.go`, `compiled_*.go`) | source on disk, registry files, compiled map, parse cache | generate, build, look up, locate, cache | literals that share lines, a source edited under the program, a registry half written; every call runs its own query | `LambdaKeys` |
| Statement building (`query/`), params | aliases, placeholder numbers, bound values | one builder per clause and statement | numbering across clauses and subqueries, alias scopes, brackets; the statement means what the lambda says | `Statement` |
| From call to statement | both of the above | `ParseQuery`, render, resolve params, send | a body shared by calls with different params | `Pipeline` |
| Migration (`migrate.go`, `introspect.go`, `query/ddl.go`) | live schema, audit table, answers | plan, ask, apply, `CreateTables` | no transactional DDL on MySQL, re-run after failure, two migrators; nothing is lost unasked, the report is true | `Migrate` |
| Migration socket and CLI (`migrate_socket.go`, `tools/goqlmigrate`) | the server, the socket file | serve, close, plan, apply | Serve against Close, two processes on a path | `MigrateSocket` |
| Model registry, public API, option carriers, emitter, value conversion | see "Not modelled" | | | |

The parts meet in the engine. A public call finds its query (parsed from the source, or
registered by `goqlc`), asks the dialect for statements and runs them on the engine it was
called on: the root engine, which takes a pooled connection per statement, or the
engine a `Transaction` gave to its function. Create, Write, Update, Delete, Insert and
CreateTables wrap themselves in `Transaction`; called inside one they join it. Entities
are plain memory: the tracking in `Model` is shared with nothing and is never undone.

## Modules

* `AtomicStore` - the abstract specification of a transaction: its writes appear at
  one instant or never.
* `Transaction` - `Engine.Transaction` and everything that takes a connection.
  `status`, `kind`, `parent` and `tx` describe each call (which function made it, in
  whose transaction it runs); `txState` and `held` are the `sql.Tx` and the pool;
  `pending`, `durable` and `lost` are the writes and the commits whose acknowledgement
  never arrived. `CallOpening`/`CallJoining` are the two branches of
  `Transaction`, `BeginTx`, `Commit`, `CommitFails`, `CommitAckLost`, `Unwind` (error or
  panic through the deferred rollback) and their `Joined...` counterparts its ends;
  `CtxDone` is database/sql rolling back a transaction whose ctx ended; the reads are
  `QueryRoot`, `GotRows`, `QueryTx`, `RowsExhausted`, `ReadFails`, `ReadReturns`. The
  refinement `AtomicTransactions` maps it to `AtomicStore`.
* `EntityTracking` - entities in the memory of several sessions against the rows.
  `key`, `val`, `original` are the entity; `alias` says which map columns it still
  shares with its original; `home`, `base`, `assigned`, `stale` record what
  really happened and appear only in properties.
* `RelationSync` - one relation of any kind between parents and targets. `field` is the
  relation field in each session's memory, `links` what is committed, `gone`/`new`/`locked`
  the open transaction; `jobs` and `rest` are the loops of `Write`, `Create` and
  `applyRelationAssignments` over parents and statements. A preload is two actions, as the
  code's two queries are; `syncO2M` is a disassociation followed by its NOT NULL check.
  `always`, `ever`, `moved`, `since` and `missed` record what happened for the properties.
* `Subsequences` - the elements of a sequence that are in a set, as a fold.
* `LambdaBody` - pure: `parseBody`, the conditions of arms, else and top-level returns,
  `SelectCondition`, `WriteBranches`, and SQL's three-valued `IsTrue`/`IsFalse`. Next to
  it stands `GoRun`, the reference: the same body executed by Go on one row.
* `LambdaCall` - a call on a table, one action per statement, with another
  session writing between them. It uses `LambdaBody` through EXTENDS.
* `LambdaKeys` - a program is the history of its source, a set of function literals per
  version. `disk` is the version on disk, `writing` and `written` the registry files
  `goqlc` has still to write and has written, `binary` what was built (the line the runtime
  reports for each literal is chosen at build time), `cache` the development executor's map,
  `session` the goroutines. `Scan`/`Emit`/`EmitFails` are `Run`, `LookCompiled` is the
  production executor, `cachedBody`, `parseLambda`, `storeBody` the development one, which
  reads the source without the lock. `Call`, `Search` and `Return` begin and end a call. A
  literal has its extent in the files of its package (`pos`, `close`), by which the locator
  finds the outermost one; what is written in a lambda goql accepts is parsed as part of it
  and never run (`Parsed`, after `executor_dev.go:1820`), so nobody calls with it.
* `Statement` - the builders of `src/query` as operators from a query to a statement: a
  sequence of tokens with the values bound. A column token carries the row the lambda
  meant, a placeholder the value; below the builders stands a reader of statements
  (`Resolves`, `MarkersMatch`, `Says`, `Grouped`) that knows scopes, numbering and the
  precedence of NOT, AND and OR as an engine does. The builders call each other through
  `Render`, the one recursive operator among them; the clauses of a statement are a list of
  parts, rendered in the order of the text.
* `Pipeline` - composes the two: a goroutine finds a query, renders it for the engine,
  resolves the params of this call and sends it. It adds the variable `sent` and no step of
  `LambdaKeys`'s variables (`ImplementsKeys`), so what is proved of `KeysSpec` holds of it.
* `Migrate` - `MigrationPlan` (introspection table by table, `planTable`, the questions),
  the tool's loop, `Migrate` and `CreateTables`. `db` is the committed schema, `work` the one
  inside a transaction, `plan`/`decisions` what each client was shown and answered, `applied`,
  `logged`, `rolled`, `stopped` the summary and the audit table, `landed`, `agreed`, `cut`,
  `unacked` what really happened.
* `MigrateSocket` - composes `Migrate` with `Serve`, `Close`, the socket file and the
  requests: a client's steps happen only through a server that accepts it.
* `MC...` modules and `.cfg` files instantiate them.
* `TransactionProofs`, `EntityProofs`, `RelationSyncProofs`, `LambdaProofs` (the body and its
  calls), `LambdaKeysProofs` and `MigrateProofs` (with the socket) hold the theorems.
  `MigratePlanProofs` has the lemmas about what a migration plans, and `SequenceLemmas` those
  about folds and order that it shares with `LambdaProofs` and `LambdaKeysProofs`.

Definitions whose comment begins with "Variation" are what a bug would make of the
definition below them; no specification uses them.

## Abstractions

Outside `Statement`, a statement either runs or fails and its text does not matter. Column
values are model values. In `LambdaBody` the condition of an arm is a set of
`column = value` comparisons, ORed: enough to make arms overlap, be unknown under NULL, and
change truth when a column is assigned. The server gives read-committed isolation: a row
changed in an open transaction is locked until it ends, others are not. In
`EntityTracking` one session at a time has a write transaction open, keys are never handed
out twice (PostgreSQL and MySQL; SQLite rolls its sequence back), and automatic timestamps
are left out, so that "columns the program assigned" means the program's.

`RelationSync`: a slice is a set (nothing in the code depends on its order or on
duplicates, which the join table's INSERT ignores); the models have one relation field.
`LambdaKeys`: files of different packages may share a base name, and a literal is where it
begins and ends and the lines of its start, first statement and end; the collision guard is
that of one walk of `goqlc`. `Statement`: operators, quoting, column lists and the text of literals are
left out; a comparison is the same test wherever it stands; `"no with"` is a dialect whose
`SupportsCTE` is false, as the `Spec` interface allows though the three shipped ones have
it. `Migrate`: a column is its type and the data in it, two types, and an index or a join
table is there or not.

## Runs

| Run | Bounds | What it shows |
|---|---|---|
| `tx_safety` | 3 calls of any kind, pool of 2, 2 statements each, functions may use the outer engine, errors abort the transaction; symmetric in calls | connections are accounted for, transactions are whole, outcomes are truthful, durability moves only with the opener, refinement of `AtomicStore` |
| `tx_live` | 3 calls, pool of 1, one statement each, functions use only their own engine | nobody holds and waits; every call ends |
| `entity` | 2 sessions, 2 keys, a plain and an optional map column of 2 values, 3 field changes in all | keys, tracking, lost updates |
| `relations` | 2 sessions, 2 parents, 2 targets, all four kinds; one session reads once and handles two rows in a call, the other one; one failure or deleted target | a preload shows nothing that was never linked and misses nothing that always was; writing back what was loaded changes nothing; what commits is what was listed |
| `lambda_call` | two nullable columns of two values, hence a table of every row content; the bodies of `MCLambdaCall`; one row written by another session | at most one arm per row, Update and predicates follow Go, NULL is never guessed |
| `pipeline` | fourteen sources of up to two versions and three literals, two goroutines, both binaries; 120 queries, one at a time, on four engines | both binaries run the query written at the call; sending leaves the shared bodies alone (refinement of `KeysSpec`); every placeholder, column and condition of the statement means what the lambda says; aggregates are grouped |
| `migrate` | two clients started twice, two models with an index and a join table, four installations (an empty MySQL, an old one, PostgreSQL, SQLite), one failure; one server, one rival | no data is lost unasked, summaries are true, success means every column, missing indexes are explained, no question comes twice, closed sockets are closed |
| `lambda_cascade`, `lambda_guard` (violated) | as `lambda_call` | an arm's assignment makes a row match a later arm; a guard clause is forgotten by the next chain |
| `entity_revert`, `entity_pg` (violated) | as `entity`; without LastInsertId | a value assigned back is not written; a created entity lacks its key |
| `stmt_brackets` (violated) | as `pipeline` | a disjunction in the condition of a path join is not bracketed |

Three calls are what it takes to nest twice, or to nest once beside a concurrent
transaction; a third connection adds nothing a second does not. Two arms and an
else are all `exclusiveCondition` distinguishes, and two columns let one be tested
while the other is assigned. Two sessions and two rows give lost updates and
writes to the wrong row; three changes allow assign, write, assign back, write. Two
parents and two targets let a child move between parents of one call or of two. Two clients
give a plan made from a schema another has changed since; two starts give the re-run. A
source of three literals has an enclosing one, one nested in it and one beside it, which is
all the locator tells apart; two versions are an edit under a running binary or between
two files of the registry. A statement is rendered by one goroutine from constants, so each
query is studied alone in its program, and the conditions, options, joins, definitions and
branches of `MCPipeline` reach every clause of every builder.

Deadlock is not checked in `relations` and `migrate`: sessions and clients have a bounded
number of calls and then stop. In `pipeline` a build is always possible or a call is.

### What the properties except

`lambda_call` compares with Go only for the bodies `FaithfulMutation` and
`FaithfulPredicate` describe, and only on rows without NULL: outside of them the code
does differ, in the ways the violated runs show. A mutation is faithful if it assigns
no column an arm tests, returns nowhere but in its last statement, assigns no relation at
the top level and no column both there and in an arm (top-level assignments run last), nor
twice there (they are a set here, so that the later of two is not told). A predicate is
faithful if some path accepts, it assigns nothing, every arm returns, only the last
statement is not a chain, only the last chain rejects, and an else ends the body.

`pipeline` names what it leaves out, and each exception is needed:

* `SharesKey` - nested literals that are not inlined have no name the runtime tells, so two
  on one line share a cache entry (`executor_dev.go:1714`).
* `SideBySide` - on one line with one signature, the locator may refuse; it never guesses.
* a literal kept in a variable is looked up by line; the development cache does not record
  which call it was passed to, so an Insert and a Select of one variable share a body.
* `SameLine` - lambdas of one file with a line in common share a registry entry without an
  error; the guard compares `path:line`, which is then the same (`generator.go:266`). A
  literal that goqlc does not emit, being kept in a variable or skipped because goql does not
  accept it (`generator.go:230`), has no key in the guard, but the binary looks it up under
  its base name and line all the same: a lambda of another package's file with that base
  name and line is then served to it.
* `Parsed` - a literal inside a lambda that goql accepts is never a function value of its own.
* `Fresh` - the registry is the one of this source, from one walk. With an older one a
  lambda that moved to another's line is served the other's body, although
  `docs/production.md:78` calls a mismatch loud; a package that lost its last lambda keeps
  its file; and walks of single directories each guard against collisions only within
  themselves, although `lambdakey.go:28` and `docs/production.md:103` speak of the build.
* `Supported` - what the builders neither support nor refuse: two roots whose paths have
  the same names and table share an alias (the key is the path without its root); a path
  used only in a projection, an assignment, an ON or a GROUP BY is never joined; a declared
  path join and a condition over the same hop emit the join twice; a model listed after a
  comma is invisible to the ONs that follow on PostgreSQL and MySQL; declared joins are
  dropped in EXISTS and INSERT.
* `Bracketed` - the disjunctions of `stmt_brackets`.
* `DrawnOnce` - a projection's ORDER BY and page are rendered twice (`query/search.go:136`):
  first as for a table, which draws placeholders for LIMIT and OFFSET, then as for a
  projection, which draws others; the first text is dropped. On PostgreSQL the numbers of a
  paged projection then run past the values bound and the server refuses it, although
  `docs/dialects.md:51` has values follow their markers and `docs/set-operations.md:63` has
  Limit need no special case. A sort by a name the model does not have ends the first
  rendering before the page, so only those projections number well.

Other differences met on the way, without a run of their own: `groupTerms` compares terms
as text, so that two projected products `a * ?` with different values become one term, and
on PostgreSQL a term with a placeholder of its own does not equal the column it groups; an
element of an IN list that is a column is bound as nil (`query/join.go:94-99`); branches of
a set operation are compared by column names and not by order; `COUNT(DISTINCT pk)` is
used for models listed after a comma but not for joins that multiply rows
(`docs/joins.md:95`); `LambdaCount` and `LambdaAggregate` have no callers. A preload whose
batch has no link at all leaves fields nil rather than empty (`docs/relations.md`); a Write
of a preloaded many2one is refused because the pointer is bound (`query/write.go:197`);
keys read as bytes cannot be looked up in a map (`engine.go:507`, MySQL). Join tables are
planned with foreign keys to tables that may not exist yet. Closing a `MigrateSocket`
before `Serve` has stored its server leaves it running (`early`), and two processes on one
path unlink each other's file (`rival`). A commit whose acknowledgement is lost is
reported as rolled back.

## Fairness

Only `tx_live` needs it. `FairSpec` assumes that a function given to `Transaction`
ends, that the driver answers, that result sets and lists of relations are finite, and
that database/sql serves waiters in order (`WF` of `BeginTx` and of the query steps; `SF`
of `ReadReturns`, since a read may take any finite number of preloads). Nothing
forces a call to begin, a commit to succeed or a ctx to end. That the tool's dialogue ends
is stated as safety (`NeverAsksTwice`: every question is new, and there are finitely many):
nothing in the code forces a user to answer.

## Proofs

The theorems hold for every value of the constants that the named ASSUMEs of the modules
allow; TLC evaluates those in the runs.

`TransactionProofs`, for any set of calls and any pool: `TypeCorrect`,
`NoConnectionLeaks`, `TransactionsAtomic`, `OutcomesTruthful`, `JoiningNeverHoldsAndWaits`,
`ImplementsAtomicStore`. The properties are not inductive: that a commit lands all
writes of a transaction needs that `pending` of an open transaction is exactly what
the calls in it have issued. `IInv` adds that (`Writes`), that a call may only be in the
statuses of its kind (`Roles`), that nobody names a call not made yet (`Fresh`), that the
holders of connections are the open transactions and open root reads (`Holds`), and
that nothing is durable that was not issued (`Issued`). Refinement: every step of a call either
leaves `Made` and `Outcome` alone, adds a write, lands a transaction or drops it.
`ExhaustionIsNested` and `OnlyOpenersCommit` need that the calls form a forest. `Nesting`
says so with a numbering: a call has a higher number than the one whose function made it.
Then the live call with the highest number has no call inside it, so it waits for nothing
but a connection (every goroutine waiting means that one of them holds one: its function
uses the outer engine), and the calls joined to a transaction are below its opener, so
none is live when the opener ends.

`EntityProofs`, for any sessions, rows, columns and values, where the server reports
generated keys: `TypeCorrect` (this one without that assumption), `KeysKnown`,
`UntouchedStayInSync`, `WritesDoNotClobber`, `WritesCarryAll`. The invariant says that keys
come from the server, that an entity without a row has a key no row has, that
differences from the original are assigned columns, and that `db` and `saved` differ only
while a transaction is open.

`RelationSyncProofs`, for any sessions, kinds of relation, and finite sets of parents and
targets: `RelationsTyped`, `PreloadsAreWithin`, `WritingBackIsNeutral`, `CallsDoAsListed`.
`IInv` relates, for each session, what it read of the links to what was there always or at
some time since (`ReadOf`, `LoadedOf`), a field still as it was loaded to the links and
whoever moved them (`AsLoadedOf`), and the statements already run to what the job lists
(`DoneOf`, `NowOf`): links of the targets done so far are as listed, or another job of the
call claims them. Locks enter there: a link a job changed stays until the call commits.

`LambdaProofs`. Of single chains, of any length: `ArmsExclusive`, `ElseExclusive`,
`ChainFollowsGo`, `UnknownFallsOut`, from `Null \notin Val` only. Of calls with bodies of any
length, on a table with any columns and values, next to other sessions:
* `CallsTyped`, from `CallInv` and what `parseBody` returns (`BodyCompiles`: branches in the
  order of their statements, and of two of one statement the later one carries the
  negation of a test of the earlier; `parseBody` flattens a sequence of sequences, and
  `SequenceLemmas` has what flattening and filtering keep).
* `OneArm` and `NullsFallOut`, from `HitInv`: the statements that hit a row were run, the
  tested columns of a row nobody else wrote stand as they did at first, and of a row hit
  the condition that hit it goes on to hold. So the negations in later arms fail, however
  the rest of the row has changed.
* `PredicatesFollow`: `PickInv` says what a finished predicate picked; `PredicateSelects`
  that, for a faithful body, the branches that select and hold are those of the first
  statement that returns in Go.
* `UpdatesFollow`: `UpdateInv` says that each column of a row holds what the last of the
  branches so far that apply put there (`WrittenBy`), and the row is linked likewise
  (`LinkedBy`); `GoLeaves` says the same of the Go run, by statements. `SameLast` joins the
  two: the last branch in the order of the UPDATEs is the one of the last statement.
The bodies are those `FaithfulPredicate` and `FaithfulMutation` describe (see above); the
bodies of `MCLambdaCall` have many such, and TLC checks the same formulas on them.

`MigrateProofs`, for any models, installations and number of clients, about `Steps`: clients
that step in any order. `Spec` implies it (`SpecSteps`), and so does the specification with
the socket (`SocketSteps` below), so each theorem is about both.
* `MigrationsTyped`, `SummariesAreTrue`, `MigrationsAreWhole` from `CountInv`, which ties the
  numbers of statements run, landed and logged to each other in every phase and way to fail.
* `LossIsAgreed`, `QuestionsAreNew` from `LossInv`: the plan shown is the one made of what was
  read, and what was read of a column no model has, or that is to be retyped, still stands
  (`SeenLasts`), since only such a decision changes it; once a user confirmed, what the decisions
  drop or retype holds only data agreed to be lost (`Consented`), the pending changes discard
  nothing else (`PendingAgreed`), and neither does an open transaction (`WorkAgreed`).
* `SuccessIsComplete` from `ColumnInv`: a table that was listed stays, one that was not appears
  complete (`SeenStays`), and what a migration lacks its pending changes provide (`Promises`).
  Assumes `Recognised`, that a table found shares a column, its id, with its model: a table is
  its columns here, and one that shares none could lose them all before it gains any.
* `NothingElseMissing` from `AuxInv`: an index or join table that is missing is owed by the
  client that creates its table, in this transaction where there is one. Assumes `Equipped`,
  that tables found have theirs: the planner never adds one to a table that exists.
Both assumptions hold of every installation of `MCMigrateSocket`.

Of the socket, for any servers: `ClosedStops`, `PathIsKept`, from an invariant on who
shut a server and who took the path; and `SocketSteps`, that the socket with its clients
refines the migration. `SocketKeepsPromises` and `SocketCompletes` carry the theorems over.

`LambdaKeysProofs`, of `KeysSpec`, for any number of goroutines and programs with sources of
any size and history: `KeysTyped`, `DevRunsOwnText`, `ProdRunsOwnText`. From
`ProgramsAssumption` (a source has finitely many literals, those of a package stand at
different places, the lines of each are in order, and no declaration has the name of an
inlined closure) and `APIAssumption` (a call has a name). Its `IInv` has five parts:
* `FilesInv` - a registry file says what was walked for it, and that walk passed the guard.
  So the files `Fresh` speaks of have no clash, from whichever walks they are.
* `BinaryInv` - once there is a binary no registry file changes, each function is reported at
  one of its two anchors, and the compiled map is `RegisterAll` of the files in some order.
* `CallsInv` - a call in `ParseQuery` passes a literal of the source the binary was built
  from, which is not `Parsed` and is written in that call or in a variable.
* `DevInv` - under a literal's key the cache has its own query or nothing, and a goroutine
  carries that query, as long as the literal is `Sought`. That is the case `DevServesOwnText`
  is about: its source is the one built from, and its key its own. It is lost by an edit and
  never comes back, so a query read before an edit and stored after it promises nothing.
* `ProdInv` - what was served is the entry of the literal, or nothing.

The step lemmas rest on what the operators do: `SortedLits` (literals at different places are
numbered in the order they are written: each has one number, each number one literal, by
induction on the count), `NumberOf` and `Located` (in the source it was built from, the
locator finds the literal itself, or nothing where `SideBySide` says so: a literal that is not
`Parsed` is enclosed by no candidate it shares an anchor with that goql accepts, so that the
outermost one is itself or refuses), `RegisteredAre` and `RegisteredBody` (concatenated in any
order, the files of a walk register each entry's keys, and the last of several is the same
body where nothing but `SameLine` shares a key), and `Lookup`, which joins them.

Induction enters in one form: a set of naturals that contains 0 and each successor is
`Nat` (`Induction`). It suffices for folds over sequences and for recursive functions
(`GoRun`), which are then stated by their steps (`FlattenSteps`, `GoSteps`).

Model-checked only:
* `EveryCallEnds`, which is liveness under fairness.
* `MarkersMatchArgs`, `ScopesResolve`, `FiltersPlaced`, `GroupedColumns`, and what `Pipeline`
  adds to `LambdaKeys` (`ImplementsKeys`, its `TypeOK`). `Statement` declares a RECURSIVE
  operator (builders that call each other), which puts it and `Pipeline` out of the prover's
  reach. What the builders do to a query of every depth would be an induction over queries.
* The violated runs, which are counterexamples.

## Findings

The violated runs each contradict a line of the repository, quoted in `PROJECT.json`:
the arms of one Update are not independent; guard clauses do not carry over to the next
chain, and a predicate that accepts nothing selects everything; a Write after an assignment
back persists nothing; on PostgreSQL `Create` never reads the generated key; a disjunction
in the condition of a path join, or in an UPDATE over joins, escapes the tie of the join.
`insert.go:42` says of an Insert that it "either lands completely or not at all": inside a
user's Transaction it joins, and if the function drops its error and returns nil, the
statements before the failed one are committed (`AllOrNothing` states atomicity of the
outermost call only).

The proof of `ProdRunsOwnText` met one more, which has no run of its own: `lambdakey.go:18`
says that "goqlc rejects a build in which two lambdas would collide". The guard has only the
lambdas goqlc emits (`generator.go:262`). One that it skips with a log line (`generator.go:230`)
is compiled into the binary all the same, and finds the entry of a lambda of another package
whose file and line have the same names, without an error. `MCPipeline` has such a source, and
`SameLine` excepts it.

## Not modelled

* The translation of Go syntax into queries (`exprToCondition`, `resolveFieldRef`,
  `parse_boundquery.go`, `parse_recursive.go`, `parse_subquery.go`, `parse_projection.go`).
  It is a case analysis over the Go grammar without state; `LambdaBody` has its control flow,
  and the queries of `MCPipeline` are of the shapes it produces.
* The registry emitter: a query is taken to come back from the registry as it was parsed.
* Conversion of values by reflection, type names of columns, spelling and quoting of the
  dialects, logging: data without decisions the properties depend on.
* The model registry: filled by `init` functions, constant afterwards.
* The generic wrappers of `api.go` and the collecting of option carriers: they check
  argument types and copy fields. The ON CONFLICT option of Insert.
* `WithDebug`, which sets a flag other goroutines read: it only turns logging on.
* What rows a join or a page returns: `Statement` says which rows a column and a condition
  are about, and the server does the rest.
