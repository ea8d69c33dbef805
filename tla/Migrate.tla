------------------------------ MODULE Migrate ------------------------------
(***************************************************************************)
(* The migration planner and runner of src/migrate.go, and the dialogue of *)
(* src/tools/goqlmigrate that drives them.  A plan is the difference of    *)
(* the models and the schema the server reports, read table by table;      *)
(* whatever it cannot decide is asked; Migrate plans again, outside any    *)
(* transaction, and runs the changes.  Where DDL is transactional they run *)
(* in one transaction, on MySQL every statement commits as it runs.        *)
(* Several clients may be migrating, and any statement may fail.           *)
(***************************************************************************)
EXTENDS Integers, FiniteSets, Subsequences, TLC

CONSTANTS
  Clients,       \* runs of the command line tool
  NoClient,      \* no client
  Tables,        \* the tables of the registered models
  Entities,      \* those tables in the order the models are given
  Names,         \* all column names, in the order sort.Strings gives them
  ModelColumns,  \* [Tables -> set of columns]: modelColumns
  Indexed,       \* the tables whose model declares an index
  JoinedTo,      \* [Tables -> set of tables]: its many2many targets
  Installations, \* the servers and the schemas found there
  Prepared,      \* decisions a program may bring along
  MaxSessions,   \* bound: how often a client starts
  MaxFaults      \* bound: statements, commits and requests that fail by themselves

Columns == Range(Names)
Model == "modelled"            \* the type TypeName gives the field
Types == {Model, "other"}
NoName == ""
NoData == <<NoName, NoName>>      \* a column no value was ever stored in
Data == (Tables \X Columns)       \* the values of a column, by where they were at first

DialectType == [transactional: BOOLEAN, alters: BOOLEAN, checksTargets: BOOLEAN]

\* A schema: the columns of each table (none: no such table), each with its type
\* and the data in it, and the indexes and join tables.
ColumnState == [type : Types, data : Data \cup {NoData}]
TableColumns == UNION {[cols -> ColumnState] : cols \in SUBSET Columns}
Auxiliary == {<<"index", t, t>> : t \in Indexed}
             \cup UNION {{<<"join", t, u>> : u \in JoinedTo[t]} : t \in Tables}
SchemaType == [cols : [Tables -> TableColumns], aux : SUBSET Auxiliary]

ASSUME MigrateAssumption ==
  /\ NoClient \notin Clients /\ Tables # {}
  /\ Names \in Seq(Columns) /\ Entities \in Seq(Tables) /\ Range(Entities) = Tables
  /\ ModelColumns \in [Tables -> (SUBSET Columns) \ {{}}]
  /\ Indexed \subseteq Tables /\ JoinedTo \in [Tables -> SUBSET Tables]
  /\ \A i \in Installations : i.dialect \in DialectType /\ i.schema \in SchemaType
  /\ MaxSessions \in Nat /\ MaxFaults \in Nat

AuxOf(t) == {a \in Auxiliary : a[2] = t}
Exists(schema, t) == DOMAIN schema.cols[t] # {}
Kept(schema) == {schema.cols[p[1]][p[2]].data :
                   p \in {q \in Tables \X Columns : q[2] \in DOMAIN schema.cols[q[1]]}}

VARIABLES
  dialect,   \* the server in use
  db,        \* the committed schema
  work,      \* the schema inside the open transaction
  holder,    \* the client whose migration holds that transaction
  phase,     \* where each client stands
  decisions, \* its answers so far
  seen,      \* what Introspect has read for the request under way
  listed,    \* the tables it found in the list of tables
  plan,      \* the plan it was last sent, or the one Migrate made
  ran,       \* changes of the plan executed by this Migrate
  applied,   \* Summary.Applied, as a count
  logged,    \* rows of the audit table this Migrate left
  landed,    \* changes of this Migrate that are in db
  rolled,    \* Summary.Rolled
  stopped,   \* Summary.Failed: was it set
  unacked,   \* the commit happened and its acknowledgement was lost
  migrates,  \* is the call under way Migrate (or CreateTables)
  agreed,    \* data that some user confirmed to discard
  cut,       \* tables whose creation was cut off before their indexes and joins
  sessions, faults

schemas == <<db, work, holder, cut>>
dialogue == <<decisions, agreed, sessions>>
reading == <<seen, listed>>
summary == <<migrates, ran, applied, logged, landed, rolled, stopped, unacked>>
vars == <<dialect, schemas, phase, dialogue, reading, plan, summary, faults>>

NoPlan == [changes |-> <<>>, questions |-> <<>>, error |-> FALSE]
NoAnswers == [id \in {} |-> id]
Answer(act, to) == [act |-> act, to |-> to]
Change(kind, t, c, from) == [kind |-> kind, table |-> t, column |-> c, from |-> from]
\* Variation: changing a type is not marked.
DestructiveDropOnly(change) == change.kind = "drop_column"
Destructive(change) == change.kind \in {"drop_column", "change_type"}
Sorted(S) == Those(Names, S)
Each(cols, Op(_)) == [i \in DOMAIN cols |-> Op(cols[i])]

------------------------------------------------------------------------------
(* The planner. *)

ColumnId(t, c) == <<t, c, "column">>
TypeId(t, c) == <<t, c, "type">>
Answered(dec, id) == id \in DOMAIN dec

Appeared(t, live) == ModelColumns[t] \ DOMAIN live
Disappeared(t, live) == DOMAIN live \ ModelColumns[t]
Mistyped(t, live) == {c \in ModelColumns[t] \cap DOMAIN live : live[c].type # Model}

\* The options of renameQuestion and of typeQuestion.
RenameOptions(t, live) ==
  {Answer("rename", to) : to \in Appeared(t, live)} \cup {Answer("drop", NoName), Answer("skip", NoName)}
TypeOptions(d) ==
  IF d.alters THEN {Answer("change", NoName), Answer("skip", NoName)} ELSE {Answer("skip", NoName)}

Question(id, options) == [id |-> id, options |-> options]

\* Variation: a type left alone is asked about again.
TableQuestionsForgetful(d, t, live, dec) ==
  Each(Sorted({c \in Disappeared(t, live) : ~Answered(dec, ColumnId(t, c))}),
       LAMBDA c : Question(ColumnId(t, c), RenameOptions(t, live)))
  \o Each(Sorted(Mistyped(t, live)), LAMBDA c : Question(TypeId(t, c), TypeOptions(d)))
TableQuestions(d, t, live, dec) ==
  Each(Sorted({c \in Disappeared(t, live) : ~Answered(dec, ColumnId(t, c))}),
       LAMBDA c : Question(ColumnId(t, c), RenameOptions(t, live)))
  \o Each(Sorted({c \in Mistyped(t, live) : ~Answered(dec, TypeId(t, c))}),
          LAMBDA c : Question(TypeId(t, c), TypeOptions(d)))

\* A table the server does not have: the table, its indexes, its join tables.
\* Variation: the join tables are left to the table they lead to.
NewTableChangesNoJoin(t) ==
  <<Change("create_table", t, NoName, NoName)>>
  \o (IF t \in Indexed THEN <<Change("create_index", t, NoName, t)>> ELSE <<>>)
NewTableChanges(t) ==
  <<Change("create_table", t, NoName, NoName)>>
  \o (IF t \in Indexed THEN <<Change("create_index", t, NoName, t)>> ELSE <<>>)
  \o Each(Those(Entities, JoinedTo[t]), LAMBDA u : Change("create_join_table", t, NoName, u))

\* The renames and drops decided on for the columns the model no longer has.
Decided(t, live, dec, act) ==
  {c \in Disappeared(t, live) : Answered(dec, ColumnId(t, c)) /\ dec[ColumnId(t, c)].act = act}
Consumed(t, live, dec) == {dec[ColumnId(t, c)].to : c \in Decided(t, live, dec, "rename")}
Retyped(t, live, dec) ==
  {c \in Mistyped(t, live) : Answered(dec, TypeId(t, c)) /\ dec[TypeId(t, c)].act = "change"}

GoneColumnChange(t, dec, c) ==
  IF dec[ColumnId(t, c)].act = "drop"
  THEN Change("drop_column", t, c, c)
  ELSE Change("rename_column", t, dec[ColumnId(t, c)].to, c)

TableChanges(t, live, dec) ==
  Each(Sorted(Decided(t, live, dec, "drop") \cup Decided(t, live, dec, "rename")),
       LAMBDA c : GoneColumnChange(t, dec, c))
  \o Each(Sorted(Retyped(t, live, dec)), LAMBDA c : Change("change_type", t, c, c))
  \o Each(Sorted(Appeared(t, live) \ Consumed(t, live, dec)),
          LAMBDA c : Change("add_column", t, c, c))

\* An answer that planTable refuses.
TableError(d, t, live, dec) ==
  \/ \E c \in Decided(t, live, dec, "rename") : dec[ColumnId(t, c)].to \notin ModelColumns[t]
  \/ ~d.alters /\ Retyped(t, live, dec) # {}

\* planTable for every model, in order; live is what Introspect returned.
PlanAgainst(d, live, dec) ==
  LET of(Missing(_), Present(_)) ==
        FlattenSeq(Each(Entities, LAMBDA t : IF t \in DOMAIN live THEN Present(t) ELSE Missing(t)))
      changes == of(NewTableChanges, LAMBDA t : TableChanges(t, live[t], dec))
      questions == of(LAMBDA t : <<>>, LAMBDA t : TableQuestions(d, t, live[t], dec))
  IN  IF \E t \in DOMAIN live : TableError(d, t, live[t], dec)
      THEN [NoPlan EXCEPT !.error = TRUE]
      ELSE [changes |-> changes, questions |-> questions, error |-> FALSE]

\* Variation: nothing to ask is taken for nothing to do.
EmptyOfQuestions(p) == p.questions = <<>>
Empty(p) == p.changes = <<>> /\ p.questions = <<>>

------------------------------------------------------------------------------
(* One statement on a schema: whether the server accepts it, and what may   *)
(* come out.  CREATE statements say IF NOT EXISTS; changing a type may      *)
(* truncate.                                                                *)

Accepts(d, schema, ch) ==
  LET cols == DOMAIN schema.cols[ch.table] IN
  CASE ch.kind \in {"create_table", "create_index"} -> TRUE
    [] ch.kind = "create_join_table" -> d.checksTargets => Exists(schema, ch.from)
    [] ch.kind = "add_column" -> ch.column \notin cols
    [] ch.kind = "rename_column" -> ch.from \in cols /\ ch.column \notin cols
    [] OTHER -> ch.column \in cols

\* A map with one entry set.
Put(f, k, v) == [x \in DOMAIN f \cup {k} |-> IF x = k THEN v ELSE f[x]]
WithColumns(schema, t, cols) == [schema EXCEPT !.cols[t] = cols]
WithAux(schema, a) == [schema EXCEPT !.aux = @ \cup {a}]
\* Variation: the definition in ALTER names another type than TypeName.
FreshUntyped == [type |-> "untyped", data |-> NoData]
Fresh == [type |-> Model, data |-> NoData]

Outcomes(schema, ch) ==
  LET t == ch.table
      cols == schema.cols[t]
      without(c) == [x \in DOMAIN cols \ {c} |-> cols[x]]
  IN  CASE ch.kind = "create_table" ->
             {IF Exists(schema, t) THEN schema
              ELSE WithColumns(schema, t, [c \in ModelColumns[t] |-> Fresh])}
        [] ch.kind = "create_index" -> {WithAux(schema, <<"index", t, t>>)}
        [] ch.kind = "create_join_table" -> {WithAux(schema, <<"join", t, ch.from>>)}
        [] ch.kind = "add_column" -> {WithColumns(schema, t, Put(cols, ch.column, Fresh))}
        [] ch.kind = "drop_column" -> {WithColumns(schema, t, without(ch.column))}
        [] ch.kind = "rename_column" ->
             {WithColumns(schema, t, Put(without(ch.from), ch.column, cols[ch.from]))}
        [] ch.kind = "change_type" ->
             {WithColumns(schema, t, Put(cols, ch.column, [type |-> Model, data |-> x])) :
                x \in {NoData, cols[ch.column].data}}

------------------------------------------------------------------------------
(* The dialogue: goqlmigrate's main, ask and confirm.                       *)

Ended == {"done", "upToDate", "aborted", "failed"}
Reading == {"planning", "replanning"}
Migrating == {"applying", "recording", "committing"}

Init ==
  /\ \E i \in Installations : dialect = i.dialect /\ db = i.schema
  /\ work = db /\ holder = NoClient /\ cut = {}
  /\ phase = [c \in Clients |-> "idle"]
  /\ decisions = [c \in Clients |-> NoAnswers]
  /\ agreed = {} /\ sessions = 0 /\ faults = 0
  /\ seen = [c \in Clients |-> NoAnswers] /\ listed = [c \in Clients |-> {}]
  /\ plan = [c \in Clients |-> NoPlan]
  /\ ran = [c \in Clients |-> 0] /\ applied = ran /\ logged = ran /\ landed = ran
  /\ rolled = [c \in Clients |-> FALSE] /\ stopped = rolled /\ unacked = rolled
  /\ migrates = [c \in Clients |-> TRUE]

\* A request reaches Introspect, which first lists the tables.
ListTables(c, to) ==
  /\ phase' = [phase EXCEPT ![c] = to]
  /\ listed' = [listed EXCEPT ![c] = {t \in Tables : Exists(db, t)}]
  /\ seen' = [seen EXCEPT ![c] = NoAnswers]

\* Nothing has been reported yet.
NewSummary(c, isMigrate) ==
  /\ migrates' = [migrates EXCEPT ![c] = isMigrate]
  /\ ran' = [ran EXCEPT ![c] = 0] /\ applied' = [applied EXCEPT ![c] = 0]
  /\ logged' = [logged EXCEPT ![c] = 0] /\ landed' = [landed EXCEPT ![c] = 0]
  /\ rolled' = [rolled EXCEPT ![c] = FALSE] /\ stopped' = [stopped EXCEPT ![c] = FALSE]
  /\ unacked' = [unacked EXCEPT ![c] = FALSE]

\* A client starts and asks for a plan: the tool without decisions, a program that
\* drives the socket by itself perhaps with some about a column it knows of.
Begin(c) ==
  /\ phase[c] \in Ended \cup {"idle"} /\ sessions < MaxSessions
  /\ sessions' = sessions + 1
  /\ \E dec \in {NoAnswers} \cup Prepared :
       /\ \A id \in DOMAIN dec : id[2] \in DOMAIN db.cols[id[1]]
       /\ decisions' = [decisions EXCEPT ![c] = dec]
  /\ plan' = [plan EXCEPT ![c] = NoPlan]
  /\ ListTables(c, "planning") /\ NewSummary(c, TRUE)
  /\ UNCHANGED <<dialect, schemas, agreed, faults>>

\* tableColumns, one query for each table that was listed.
ReadColumns(c) ==
  /\ phase[c] \in Reading
  /\ LET rest == listed[c] \ DOMAIN seen[c] IN
       \E i \in DOMAIN Entities :
         /\ Entities[i] \in rest /\ \A j \in 1 .. (i - 1) : Entities[j] \notin rest
         /\ seen' = [seen EXCEPT ![c] = Put(@, Entities[i], db.cols[Entities[i]])]
  /\ UNCHANGED <<dialect, schemas, phase, dialogue, listed, plan, summary, faults>>

Planned(c) == PlanAgainst(dialect, seen[c], decisions[c])
AllRead(c) == listed[c] = DOMAIN seen[c]

\* The tool ends, and what it was answered and sent goes with it.
Forget(c) ==
  /\ decisions' = [decisions EXCEPT ![c] = NoAnswers]
  /\ seen' = [seen EXCEPT ![c] = NoAnswers] /\ listed' = [listed EXCEPT ![c] = {}]

EndEmpty(c, end) ==
  /\ phase' = [phase EXCEPT ![c] = end] /\ plan' = [plan EXCEPT ![c] = NoPlan]
  /\ Forget(c)
  /\ UNCHANGED <<dialect, schemas, agreed, sessions, summary>>

\* The plan is sent; the tool reports an error, is finished, asks, or shows it.
ShowPlan(c) ==
  /\ phase[c] = "planning" /\ AllRead(c)
  /\ LET p == Planned(c) IN
       \/ /\ p.error /\ EndEmpty(c, "failed")
       \/ /\ ~p.error /\ Empty(p) /\ EndEmpty(c, "upToDate")
       \/ /\ ~p.error /\ ~Empty(p)
          /\ plan' = [plan EXCEPT ![c] = p]
          /\ phase' = [phase EXCEPT ![c] = IF p.questions = <<>> THEN "confirming" ELSE "asking"]
          /\ UNCHANGED <<dialect, schemas, dialogue, reading, summary>>
  /\ UNCHANGED faults

\* The user chooses among the options of the first question; the tool plans again.
Ask(c) ==
  /\ phase[c] = "asking"
  /\ LET q == Head(plan[c].questions)
     IN  \E answer \in q.options :
           decisions' = [decisions EXCEPT ![c] = Put(@, q.id, answer)]
  /\ ListTables(c, "planning")
  /\ UNCHANGED <<dialect, schemas, agreed, sessions, plan, summary, faults>>

\* The user accepts the changes shown; Migrate introspects again.
Confirm(c) ==
  /\ phase[c] = "confirming"
  /\ agreed' = agreed \cup {seen[c][ch.table][ch.column].data :
                              ch \in {x \in Range(plan[c].changes) : Destructive(x)}}
  /\ ListTables(c, "replanning")
  /\ UNCHANGED <<dialect, schemas, decisions, sessions, plan, summary, faults>>

Abort(c) == phase[c] = "confirming" /\ EndEmpty(c, "aborted") /\ UNCHANGED faults

------------------------------------------------------------------------------
(* Migrate. *)

\* The plan Migrate made is refused, or empty, or about to be applied.  Only one
\* transaction changes the schema at a time.
StartApply(c) ==
  /\ phase[c] = "replanning" /\ AllRead(c)
  /\ LET p == Planned(c)
         refused == p.error \/ p.questions # <<>>
     IN
       /\ plan' = [plan EXCEPT ![c] = p]
       /\ \/ /\ refused
             /\ phase' = [phase EXCEPT ![c] = "failed"]
             /\ UNCHANGED <<work, holder>>
          \/ /\ ~refused /\ p.changes = <<>>
             /\ phase' = [phase EXCEPT ![c] = "done"]
             /\ UNCHANGED <<work, holder>>
          \/ /\ ~refused /\ p.changes # <<>>
             /\ dialect.transactional => holder = NoClient
             /\ phase' = [phase EXCEPT ![c] = "applying"]
             /\ holder' = IF dialect.transactional THEN c ELSE holder
             /\ work' = IF dialect.transactional THEN db ELSE work
  /\ Forget(c)
  /\ UNCHANGED <<dialect, db, cut, agreed, sessions, summary, faults>>

\* CreateTables: for every model its table, indexes and join tables, in a Transaction,
\* without a plan and without an audit row.
CreateTables(c) ==
  /\ phase[c] \in Ended \cup {"idle"} /\ sessions < MaxSessions
  /\ dialect.transactional => holder = NoClient
  /\ sessions' = sessions + 1
  /\ phase' = [phase EXCEPT ![c] = "applying"]
  /\ plan' = [plan EXCEPT ![c] =
                [NoPlan EXCEPT !.changes = FlattenSeq(Each(Entities, NewTableChanges))]]
  /\ NewSummary(c, FALSE)
  /\ holder' = IF dialect.transactional THEN c ELSE holder
  /\ work' = IF dialect.transactional THEN db ELSE work
  /\ UNCHANGED <<dialect, db, cut, decisions, agreed, reading, faults>>

Current(c) == plan[c].changes[applied[c] + 1]
Target == IF dialect.transactional THEN work ELSE db

\* Where a statement of the loop takes effect: apply runs on the engine it is given.
\* Variation: on the engine Migrate was called on.
EffectOutside(schema) == db' = schema /\ UNCHANGED work
Effect(schema) ==
  IF dialect.transactional
  THEN work' = schema /\ UNCHANGED db
  ELSE db' = schema /\ UNCHANGED work

\* One change of the loop in Migrate.
Exec(c) ==
  /\ phase[c] = "applying" /\ Accepts(dialect, Target, Current(c))
  /\ \E schema \in Outcomes(Target, Current(c)) : Effect(schema)
  /\ ran' = [ran EXCEPT ![c] = @ + 1]
  /\ landed' = [landed EXCEPT ![c] = IF dialect.transactional THEN @ ELSE @ + 1]
  /\ phase' = [phase EXCEPT ![c] = "recording"]
  /\ UNCHANGED <<dialect, holder, cut, dialogue, reading, plan, migrates, applied, logged,
                 rolled, stopped, unacked, faults>>

\* recordMigration, and the change joins Summary.Applied.
Record(c) ==
  /\ phase[c] = "recording"
  /\ applied' = [applied EXCEPT ![c] = @ + 1]
  /\ logged' = [logged EXCEPT ![c] =
                  IF migrates[c] /\ ~dialect.transactional THEN @ + 1 ELSE @]
  /\ phase' = [phase EXCEPT ![c] =
       IF applied[c] + 1 < Len(plan[c].changes) THEN "applying"
       ELSE IF dialect.transactional THEN "committing" ELSE "done"]
  /\ UNCHANGED <<dialect, schemas, dialogue, reading, plan, migrates, ran, landed, rolled,
                 stopped, unacked, faults>>

Land(c) ==
  /\ db' = work /\ holder' = NoClient /\ UNCHANGED <<work, cut>>
  /\ landed' = [landed EXCEPT ![c] = ran[c]]
  /\ logged' = [logged EXCEPT ![c] = IF migrates[c] THEN applied[c] ELSE @]

Commit(c) ==
  /\ phase[c] = "committing"
  /\ Land(c)
  /\ phase' = [phase EXCEPT ![c] = "done"]
  /\ UNCHANGED <<dialect, dialogue, reading, plan, migrates, ran, applied, rolled, stopped,
                 unacked, faults>>

\* Migrate returns an error.  In a transaction everything is undone and the summary
\* says so; without one whatever ran stays.
CutAfter(c, n, schema) ==
  {t \in Tables : /\ \E i \in 1..n : plan[c].changes[i] = Change("create_table", t, NoName, NoName)
                  /\ ~ AuxOf(t) \subseteq schema.aux}

\* Variation: a rollback is reported on every server.
UndoneOnErrorAlways == TRUE
UndoneOnError == dialect.transactional

GiveUp(c, failed) ==
  /\ phase' = [phase EXCEPT ![c] = "failed"]
  /\ IF UndoneOnError
     THEN /\ holder' = NoClient
          /\ applied' = [applied EXCEPT ![c] = 0] /\ rolled' = [rolled EXCEPT ![c] = TRUE]
          /\ UNCHANGED cut
     ELSE /\ cut' = cut \cup CutAfter(c, ran'[c], db')
          /\ UNCHANGED <<holder, applied, rolled>>
  /\ stopped' = [stopped EXCEPT ![c] = failed]
  /\ UNCHANGED <<dialect, work, dialogue, reading, plan, migrates, logged>>

\* The server refuses the statement.
Refused(c) ==
  /\ phase[c] = "applying" /\ ~Accepts(dialect, Target, Current(c))
  /\ UNCHANGED <<db, ran, landed, unacked, faults>> /\ GiveUp(c, TRUE)

Fault == faults < MaxFaults /\ faults' = faults + 1

\* A statement fails for another reason: a lock timeout, a lost connection.
ExecFails(c) ==
  /\ phase[c] = "applying" /\ Fault
  /\ UNCHANGED <<db, ran, landed, unacked>> /\ GiveUp(c, TRUE)

\* Or it took effect and only its answer was lost.
ExecAckLost(c) ==
  /\ phase[c] = "applying" /\ Fault
  /\ ~dialect.transactional /\ Accepts(dialect, db, Current(c))
  /\ db' \in Outcomes(db, Current(c))
  /\ ran' = [ran EXCEPT ![c] = @ + 1] /\ landed' = [landed EXCEPT ![c] = @ + 1]
  /\ unacked' = [unacked EXCEPT ![c] = TRUE]
  /\ GiveUp(c, TRUE)

\* BeginTx, recordMigration or Commit fails.
OtherFails(c) ==
  /\ \/ phase[c] = "applying" /\ ran[c] = 0 /\ dialect.transactional
     \/ phase[c] = "recording" /\ migrates[c]
     \/ phase[c] = "committing"
  /\ Fault
  /\ UNCHANGED <<db, ran, landed, unacked>> /\ GiveUp(c, FALSE)

\* The commit happens and its acknowledgement is lost: Migrate reports a rollback.
CommitAckLost(c) ==
  /\ phase[c] = "committing" /\ Fault
  /\ Land(c)
  /\ phase' = [phase EXCEPT ![c] = "failed"]
  /\ applied' = [applied EXCEPT ![c] = 0] /\ rolled' = [rolled EXCEPT ![c] = TRUE]
  /\ unacked' = [unacked EXCEPT ![c] = TRUE]
  /\ UNCHANGED <<dialect, dialogue, reading, plan, migrates, ran, stopped>>

\* A query of Introspect, or ensureMigrationsTable, fails: nothing was done.
ReadFails(c) == phase[c] \in Reading /\ Fault /\ EndEmpty(c, "failed")

\* What a client, its user and the process serving it do when nothing fails.
Proceed(c) ==
  \/ ReadColumns(c) \/ ShowPlan(c) \/ Ask(c) \/ Confirm(c) \/ Abort(c)
  \/ StartApply(c) \/ Exec(c) \/ Record(c) \/ Commit(c) \/ Refused(c)

Fails(c) == ExecFails(c) \/ ExecAckLost(c) \/ OtherFails(c) \/ CommitAckLost(c) \/ ReadFails(c)

AllEnded == (\A c \in Clients : phase[c] \in Ended \cup {"idle"}) /\ sessions = MaxSessions

Next ==
  \/ \E c \in Clients : Begin(c) \/ CreateTables(c) \/ Proceed(c) \/ Fails(c)
  \/ AllEnded /\ UNCHANGED vars

Spec == Init /\ [][Next]_vars
------------------------------------------------------------------------------
(* Correctness. *)

TypeOK ==
  /\ dialect \in DialectType /\ {db, work} \subseteq SchemaType
  /\ holder \in Clients \cup {NoClient}
  /\ phase \in [Clients -> Ended \cup Reading \cup Migrating \cup {"idle", "asking", "confirming"}]
  /\ \A c \in Clients : /\ listed[c] \subseteq Tables /\ DOMAIN seen[c] \subseteq Tables
                        /\ applied[c] <= Len(plan[c].changes)
  /\ cut \subseteq Tables

\* Stored values disappear only where a user was shown that very column among the
\* changes marked destructive and confirmed ("Nothing destructive is ever planned
\* without the user having chosen it", migrate.go:49), although Migrate plans again
\* and other clients migrate in between.
NoSilentLoss ==
  [][\A x \in (Kept(db) \ Kept(db')) \ {NoData} : x \in agreed]_vars

\* What Migrate reports is what happened.  A finished migration ran, recorded and
\* reported every change; one reported as rolled back left nothing, and one that
\* stopped half way left what it reports and at most the change it was at, the
\* audit table holding exactly the reported ones.  A lost acknowledgement is the
\* exception: there Rolled, or Failed, says less than what happened.
SummaryTruthful ==
  \A c \in Clients :
    /\ phase[c] = "done" /\ migrates[c] =>
         applied[c] = Len(plan[c].changes) /\ landed[c] = applied[c] /\ logged[c] = applied[c]
    /\ rolled[c] /\ ~unacked[c] => landed[c] = 0 /\ logged[c] = 0
    /\ phase[c] = "failed" /\ migrates[c] /\ ~rolled[c] =>
         /\ logged[c] = applied[c] /\ landed[c] \in {applied[c], applied[c] + 1}
         /\ stopped[c] /\ ~unacked[c] => landed[c] = applied[c]

\* Where DDL is transactional the schema moves by whole migrations.
WholeMigrations ==
  [][dialect.transactional /\ db # db' =>
       \E c \in Clients : phase[c] = "committing" /\ landed'[c] = Len(plan[c].changes)]_vars

\* Once Migrate or the tool says the schema is in order, every column of every model
\* is there: two renames into one column, an answer given before another client
\* migrated, or an interrupted run never pass for success.
SuccessHasColumns ==
  \A c \in Clients :
    (phase[c] = "upToDate" \/ (phase[c] = "done" /\ migrates[c])) =>
       \A t \in Tables : ModelColumns[t] \subseteq DOMAIN db.cols[t]

\* While nobody is migrating, a table lacks an index or a join table only if its
\* creation was cut off on a server without transactional DDL.  (Then no later plan
\* creates them, for the table exists; CreateTables does.)
MissingOnlyWhereCut ==
  (\A c \in Clients : phase[c] \notin Migrating) =>
     /\ \A t \in Tables \ cut : Exists(db, t) => AuxOf(t) \subseteq db.aux
     /\ dialect.transactional => cut = {}

\* Planning again after every answer never brings back a question that was answered,
\* so the loop of the tool is over after as many questions as there are columns,
\* whoever else migrates meanwhile.
NeverAsksTwice ==
  \A c \in Clients :
    phase[c] = "asking" => Head(plan[c].questions).id \notin DOMAIN decisions[c]

==============================================================================
