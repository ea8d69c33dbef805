---------------------------- MODULE LambdaCall ----------------------------
(***************************************************************************)
(* Lambda calls against a table: Select and Delete send one statement with *)
(* the conditions of the selecting branches ORed; Update sends one UPDATE  *)
(* per branch that sets columns, then applies the relation assignments of  *)
(* each branch to the rows its condition selects by then; Insert sends one *)
(* INSERT ... SELECT per branch.  Update, Delete and Insert run in one     *)
(* transaction of the server's default isolation: other sessions may write *)
(* rows it has not changed between two of its statements.                  *)
(*                                                                         *)
(* The table starts with one row for every content a row can have, and a   *)
(* row is named by what it held when the call began.                       *)
(***************************************************************************)
EXTENDS LambdaBody, FiniteSets

CONSTANTS
  Calls,       \* the calls: [kind |-> ..., body |-> ...]
  MaxForeign   \* bound: rows other sessions write during the call

ASSUME CallsAssumption ==
  /\ \A c \in Calls : c.kind \in {"select", "delete", "update", "insert"} /\ c.body \in BodyType
  /\ MaxForeign \in Nat

VARIABLES
  call,      \* the call being made
  phase,     \* "called", "parsed", "columns", "relations", "done" or "failed"
  branches,  \* the branches its body was compiled to
  next,      \* the number of statements of this phase already run
  table,     \* what each row holds, as the transaction sees it
  saved,     \* what is committed, and comes back on rollback
  link,      \* the relation assigned to each row, or Keep
  hits,      \* the branches that updated or copied each row
  picked,    \* the rows a Select returned or a Delete removed
  foreign    \* the rows other sessions wrote

vars == <<call, phase, branches, next, table, saved, link, hits, picked, foreign>>

\* LambdaWrite and LambdaInsert: a statement for each branch that sets columns.
Updates   == Those(WriteBranches(branches), {b \in Range(branches) : b.set # {}})
Relations == Those(WriteBranches(branches), {b \in Range(branches) : b.rel # Keep})

TypeOK ==
  /\ call.kind \in {"select", "delete", "update", "insert"}
  /\ phase   \in {"called", "parsed", "columns", "relations", "done", "failed"}
  /\ next    \in 0..Len(branches)
  /\ table   \in [Row -> Row]
  /\ saved   \in [Row -> Row]
  /\ \A r \in Row : link[r] \in {Keep} \cup {branches[i].rel : i \in DOMAIN branches}
  /\ hits    \in [Row -> SUBSET DOMAIN Updates]
  /\ picked  \in SUBSET Row
  /\ foreign \in SUBSET Row

Init ==
  /\ call \in Calls
  /\ phase   = "called"
  /\ branches = <<>>
  /\ next    = 0
  /\ table   = [r \in Row |-> r]
  /\ saved   = [r \in Row |-> r]
  /\ link    = [r \in Row |-> Keep]
  /\ hits    = [r \in Row |-> {}]
  /\ picked  = {}
  /\ foreign = {}

-----------------------------------------------------------------------------

Parse ==
  /\ phase = "called"
  /\ branches' = parseBody(call.body)
  /\ phase' = "parsed"
  /\ UNCHANGED <<call, next, table, saved, link, hits, picked, foreign>>

\* What the WHERE clause of the predicate keeps.
Selected(r) == \E cond \in SelectCondition(branches) : Holds(cond, table[r])

\* LambdaSearch and LambdaDelete: one statement.
RunPredicate ==
  /\ call.kind \in {"select", "delete"} /\ phase = "parsed"
  /\ picked' = {r \in Row : Selected(r)}
  /\ phase'  = "done"
  /\ UNCHANGED <<call, branches, next, table, saved, link, hits, foreign>>

\* Update refuses a lambda that assigns nothing; LambdaInsert one that sets no
\* column or assigns a relation.
Refused == IF call.kind = "update" THEN WriteBranches(branches) = <<>>
           ELSE Updates = <<>> \/ Relations # <<>>

Refuse ==
  /\ call.kind \in {"update", "insert"} /\ phase = "parsed" /\ Refused
  /\ phase' = "failed"
  /\ UNCHANGED <<call, branches, next, table, saved, link, hits, picked, foreign>>

Start ==
  /\ call.kind \in {"update", "insert"} /\ phase = "parsed" /\ ~Refused
  /\ phase' = "columns"
  /\ UNCHANGED <<call, branches, next, table, saved, link, hits, picked, foreign>>

\* The rows a branch applies to, by what they hold when its statement runs.
RowsOf(branch) == {r \in Row : Holds(branch.cond, table[r])}

\* Record that the statement number i of this phase was for the rows in R.
Hit(i, R) == hits' = [r \in Row |-> IF r \in R THEN hits[r] \cup {i} ELSE hits[r]]

RunUpdate ==
  /\ call.kind = "update" /\ phase = "columns" /\ next < Len(Updates)
  /\ LET i == next + 1
         R == RowsOf(Updates[i])
     IN /\ table' = [r \in Row |-> IF r \in R THEN Assign(table[r], Updates[i].set)
                                   ELSE table[r]]
        /\ Hit(i, R)
        /\ next' = i
  /\ UNCHANGED <<call, branches, phase, saved, link, picked, foreign>>

RunInsert ==
  /\ call.kind = "insert" /\ phase = "columns" /\ next < Len(Updates)
  /\ Hit(next + 1, RowsOf(Updates[next + 1]))
  /\ next' = next + 1
  /\ UNCHANGED <<call, branches, phase, table, saved, link, picked, foreign>>

ColumnsDone ==
  /\ phase = "columns" /\ next = Len(Updates)
  /\ phase' = "relations" /\ next' = 0
  /\ UNCHANGED <<call, branches, table, saved, link, hits, picked, foreign>>

\* Variation: the relations of a branch for every row.
RelationsUnscoped ==
  /\ phase = "relations" /\ next < Len(Relations)
  /\ link' = [r \in Row |-> Relations[next + 1].rel]
  /\ next' = next + 1
  /\ UNCHANGED <<call, branches, phase, table, saved, hits, picked, foreign>>

\* Variation: a relation field is bound as if it were a column.
RelationAsColumn ==
  /\ phase = "relations" /\ next < Len(Relations)
  /\ LET R == RowsOf(Relations[next + 1])
     IN table' = [r \in Row |-> IF r \in R THEN [k \in Col |-> Relations[next + 1].rel]
                                ELSE table[r]]
  /\ next' = next + 1
  /\ UNCHANGED <<call, branches, phase, saved, link, hits, picked, foreign>>

\* applyRelationAssignments: SelectPKsWhere, then the links of each row found.
ApplyRelations ==
  /\ phase = "relations" /\ next < Len(Relations)
  /\ LET R == RowsOf(Relations[next + 1])
     IN link' = [r \in Row |-> IF r \in R THEN Relations[next + 1].rel ELSE link[r]]
  /\ next' = next + 1
  /\ UNCHANGED <<call, branches, phase, table, saved, hits, picked, foreign>>

Commit ==
  /\ phase = "relations" /\ next = Len(Relations)
  /\ phase' = "done"
  /\ saved' = table
  /\ UNCHANGED <<call, branches, next, table, link, hits, picked, foreign>>

\* A statement fails: the transaction rolls back.
Fail ==
  /\ phase \in {"columns", "relations"}
  /\ phase' = "failed"
  /\ table' = saved
  /\ link'  = [r \in Row |-> Keep]
  /\ hits'  = [r \in Row |-> {}]
  /\ UNCHANGED <<call, branches, next, saved, picked, foreign>>

\* Another session commits a write to a row this transaction has not locked.
\* Rows an UPDATE changed are locked to the end; rows only read are not.
Locked(r) == call.kind = "update" /\ hits[r] # {}

OtherWrites(r, c, v) ==
  /\ phase \in {"columns", "relations"} /\ ~Locked(r)
  /\ Cardinality(foreign) < MaxForeign
  /\ table'   = [table EXCEPT ![r][c] = v]
  /\ saved'   = [saved EXCEPT ![r][c] = v]
  /\ foreign' = foreign \cup {r}
  /\ UNCHANGED <<call, branches, phase, next, link, hits, picked>>

Next ==
  \/ Parse \/ RunPredicate \/ Refuse \/ Start
  \/ RunUpdate \/ RunInsert \/ ColumnsDone \/ ApplyRelations \/ Commit \/ Fail
  \/ \E r \in Row, c \in Col, v \in Val \cup {Null} : OtherWrites(r, c, v)

Spec == Init /\ [][Next]_vars

-----------------------------------------------------------------------------
(* Which bodies the compilation is faithful for.                           *)

Arms(body) == Statements(body, "arms")

\* The blocks of the arms of a chain, an else included.
BlocksOf(stmt) == Range(stmt.arms \o stmt.other)

Tested(body) == {a[1] : a \in UNION UNION {Tests(body[i].arms) : i \in Arms(body)}}

SetInArms(body) == UNION {b.set : b \in UNION {BlocksOf(body[i]) : i \in Arms(body)}}

SetOnTop(body) == TopBlock(body).set

ColumnsOf(set) == {a[1] : a \in set}

\* No statement assigns a column an arm tests.
Stable(body) == ColumnsOf(SetInArms(body) \cup SetOnTop(body)) \cap Tested(body) = {}

\* A mutation goql carries out as Go would: stable, every row left to the
\* end of the body, and the top level assigning no relation, no column twice
\* and nothing an arm assigns.
FaithfulMutation(body) ==
  /\ Stable(body)
  /\ \A i \in Arms(body) : \A b \in BlocksOf(body[i]) : b.ret = "none"
  /\ \A i \in DOMAIN body : body[i].op \notin {"arms", "assign"} => i = Len(body)
  /\ ColumnsOf(SetInArms(body)) \cap ColumnsOf(SetOnTop(body)) = {}
  /\ \A i \in Statements(body, "assign") : body[i].block.rel = Keep /\ body[i].block.ret = "none"
  /\ \A a, b \in SetOnTop(body) : a[1] = b[1] => a = b

\* A predicate that decides as Go would: it assigns nothing at the top level,
\* nothing follows a return, something is selected, every arm returns, only the
\* last chain rejects, and an else ends the body.
FaithfulPredicate(body) ==
  /\ body # <<>>
  /\ \A i \in DOMAIN body : body[i].op # "arms" => i = Len(body) /\ body[i].op # "assign"
  /\ \/ body[Len(body)].op \in {"accept", "return"}
     \/ \E i \in Arms(body) : \E b \in BlocksOf(body[i]) : b.ret = "true"
  /\ \A i \in Arms(body) :
       /\ \A b \in BlocksOf(body[i]) : b.ret \in {"true", "false"}
       /\ (\E j \in Arms(body) : j > i) =>
             \A b \in BlocksOf(body[i]) : b.ret = "true"
       /\ body[i].other # <<>> => i = Len(body)

NoNull(r) == Null \notin Range(r)

-----------------------------------------------------------------------------
(* Properties.                                                             *)

\* No row is changed by two arms of one chain, whatever other sessions write
\* between the UPDATEs and whatever is NULL, when no statement assigns a tested
\* column: the row an arm changed is locked, and keeps failing the conditions
\* of the later arms (engine.go, "its own mutually exclusive WHERE").  Insert
\* locks nothing, and copies a row twice only if another session changed it.
OneArmPerRow ==
  Stable(call.body) =>
    \A r \in Row : \A i, j \in hits[r] :
       i # j /\ Updates[i].at = Updates[j].at => call.kind = "insert" /\ r \in foreign

\* What an Update leaves in a row no other session wrote is what Go would have
\* made of it, columns and relation, for the bodies it is faithful to.
UpdateFollowsGo ==
  call.kind = "update" /\ phase = "done" /\ FaithfulMutation(call.body) =>
    \A r \in Row \ foreign : NoNull(r) =>
       LET go == GoRun(call.body, r) IN table[r] = go.row /\ link[r] = go.rel

\* A predicate selects the rows for which the lambda would have returned true.
PredicateFollowsGo ==
  call.kind \in {"select", "delete"} /\ phase = "done" /\ FaithfulPredicate(call.body) =>
    \A r \in Row : NoNull(r) => (r \in picked <=> GoRun(call.body, r).ret = "true")

\* A row about which no test of a chain can tell anything, every tested column
\* being NULL, is in no arm of it, not in the else either: a call never guesses.
NullNeverGuessed ==
  \A r \in Row \ foreign : \A n \in hits[r] :
     LET i == Updates[n].at
     IN i # 0 /\ call.body[i].arms # <<>> /\ Stable(call.body) =>
          \E a \in UNION Tests(call.body[i].arms) : r[a[1]] # Null

\* query/parse.go:216: "branches are mutually exclusive and independent: each can
\* be emitted as its own statement in any order" - of one chain at most one
\* UPDATE changes a row.
ArmsIndependent ==
  call.kind = "update" =>
    \A r \in Row \ foreign : \A i, j \in hits[r] : Updates[i].at = Updates[j].at => i = j

\* docs/predicates.md:92: "Each arm carries the negation of the ones before it, so
\* the arms cannot overlap" - an arm that rejects a row keeps it out for good,
\* and so does a lambda that accepts none (docs/predicates.md:76: "every arm that
\* returns `true` contributes").
RejectedRowsStayOut ==
  call.kind = "delete" /\ phase = "done" =>
    \A r \in Row : NoNull(r) /\ GoRun(call.body, r).ret = "false" => r \notin picked

=============================================================================
