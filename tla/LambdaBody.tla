---------------------------- MODULE LambdaBody ----------------------------
(***************************************************************************)
(* How goql compiles the body of a lambda: parseBody turns an if chain, a  *)
(* switch, top-level assignments and returns into a flat list of branches, *)
(* each with the condition under which its statement applies.  Next to it, *)
(* what Go would do: GoRun executes the same body on one row, the "mental  *)
(* model" of docs/lambdas.md.                                              *)
(*                                                                         *)
(* A row maps columns to values or NULL.  A test - the condition of one    *)
(* arm, or the values of one case - is a set of comparisons col = val that *)
(* are ORed.  A statement of a body is one of                              *)
(*   [op |-> "arms", arms |-> <<a1, ...>>, other |-> <<>> or <<b>>]        *)
(*        if / else if / else, or switch / default, arms with a test;      *)
(*   [op |-> "assign", block |-> b]   an assignment at the top level;      *)
(*   [op |-> "accept"], [op |-> "reject"]   return true, return false;     *)
(*   [op |-> "return", test |-> t]          return of a condition.         *)
(* A block b assigns columns (b.set, pairs <<col, val>>), a relation field *)
(* (b.rel, or Keep) and ends with b.ret: "true", "false", "bare" or "none".*)
(***************************************************************************)
EXTENDS Integers, Subsequences

CONSTANTS
  Col,    \* the columns
  Val,    \* their values
  Null,   \* SQL NULL
  Related,  \* what a relation field can be set to
  Keep    \* the value of b.rel when a block leaves the relation alone

ASSUME NullAssumption == Null \notin Val /\ Keep \notin Related

Row  == [Col -> Val \cup {Null}]
Test == SUBSET (Col \X Val)

Sets == SUBSET (Col \X (Val \cup {Null}))
BlockType == [set : Sets, rel : Related \cup {Keep}, ret : {"true", "false", "bare", "none"}]
ArmType == [test : Test \ {{}}, set : Sets, rel : Related \cup {Keep},
            ret : {"true", "false", "bare", "none"}]
StatementType ==
  {s \in [op : {"arms"}, arms : Seq(ArmType), other : Seq(BlockType)] : Len(s.other) <= 1}
  \cup [op : {"assign"}, block : BlockType]
  \cup [op : {"accept", "reject"}] \cup [op : {"return"}, test : Test \ {{}}]
BodyType == Seq(StatementType)

-----------------------------------------------------------------------------
(* SQL's three-valued logic: a WHERE keeps a row only if it is TRUE.       *)

IsTrue(test, row)  == \E a \in test : row[a[1]] = a[2]

\* Variation: NOT of an unknown is taken for true.
IsNotTrue(test, row) == ~IsTrue(test, row)

IsFalse(test, row) == \A a \in test : row[a[1]] \notin {a[2], Null}

\* A compiled condition is a conjunction: NOT of the prior tests, AND the own
\* one, if any.  Nothing in either is the nil condition.
exclusiveCondition(priors, own) == [not |-> priors, own |-> own]

Nil == exclusiveCondition({}, {})

Holds(cond, row) == /\ \A test \in cond.not : IsFalse(test, row)
                    /\ \A test \in cond.own : IsTrue(test, row)

-----------------------------------------------------------------------------
(* parseIfChain and parseSwitchStmt: "at" is the statement a branch is of. *)

branchFromBlock(block, cond, at) ==
  [cond |-> cond, set |-> block.set, rel |-> block.rel,
   selects |-> block.ret = "true", at |-> at]

\* branchFromBlock returns nil for a block that does nothing observable.
Observable(branch) == branch.selects \/ branch.set # {} \/ branch.rel # Keep

Tests(arms) == {arms[i].test : i \in 1..Len(arms)}

\* Variation: every arm under its own test alone (design.md, phase C).
MergedArm(arms, i) == exclusiveCondition({}, {arms[i].test})

\* Each arm carries the negation of the arms before it.
ArmCondition(arms, i) ==
  exclusiveCondition({arms[j].test : j \in 1..(i - 1)}, {arms[i].test})

\* Variation: an else that negates the last test only.
LastOnly(arms) ==
  exclusiveCondition(IF arms = <<>> THEN {} ELSE {arms[Len(arms)].test}, {})

\* An else or a default applies when no arm does.
ElseCondition(arms) == exclusiveCondition(Tests(arms), {})

ChainBranches(stmt, at) ==
  LET all == [i \in 1..Len(stmt.arms) |->
                branchFromBlock(stmt.arms[i], ArmCondition(stmt.arms, i), at)]
             \o [i \in 1..Len(stmt.other) |->
                branchFromBlock(stmt.other[i], ElseCondition(stmt.arms), at)]
  IN Those(all, {b \in Range(all) : Observable(b)})

\* Variation: the arms of a chain are forgotten by what follows it.
PriorsForgotten(stmt) == {}

\* The tests a chain leaves behind: none when it was exhaustive.
ChainPriors(stmt) == IF stmt.other = <<>> THEN Tests(stmt.arms) ELSE {}

-----------------------------------------------------------------------------
(* parseBody.                                                              *)

Statements(body, op) == {i \in DOMAIN body : body[i].op = op}

\* The tests of the chains before a statement.
bodyPriors(body, at) == UNION {ChainPriors(body[i]) : i \in Statements(body, "arms") \cap 1..(at - 1)}

\* What a top-level return selects: its own test, and no arm seen before it.
ReturnBranch(own, body, at) ==
  branchFromBlock([set |-> {}, rel |-> Keep, ret |-> "true"],
                  exclusiveCondition(bodyPriors(body, at), own), at)

StatementBranches(body, at) ==
  CASE body[at].op = "arms"   -> ChainBranches(body[at], at)
    [] body[at].op = "accept" -> <<ReturnBranch({}, body, at)>>
    [] body[at].op = "return" -> <<ReturnBranch({body[at].test}, body, at)>>
    [] OTHER -> <<>>

\* The unconditional assignments together: the last one decides about the relation.
TopBlock(body) ==
  LET related == {i \in Statements(body, "assign") : body[i].block.rel # Keep}
  IN [set |-> UNION {body[i].block.set : i \in Statements(body, "assign")},
      rel |-> IF related = {} THEN Keep ELSE body[Max(related)].block.rel,
      ret |-> "none"]

\* They make one branch, after all the others.
parseBody(body) ==
  LET last == branchFromBlock(TopBlock(body), Nil, 0)
  IN FlattenSeq([at \in DOMAIN body |-> StatementBranches(body, at)])
     \o IF Observable(last) THEN <<last>> ELSE <<>>

SelectingConditions(branches) ==
  {branches[i].cond : i \in {j \in DOMAIN branches : branches[j].selects}}

\* Variation: only the first selecting branch makes the WHERE clause.
FirstSelecting(branches) ==
  LET S == {j \in DOMAIN branches : branches[j].selects}
  IN IF S = {} THEN {Nil}
     ELSE {branches[CHOOSE j \in S : \A i \in S : j <= i].cond}

\* The conditions ORed in the WHERE clause.  A nil condition selects all rows,
\* and so does a body without any selecting branch.
SelectCondition(branches) ==
  LET roots == SelectingConditions(branches)
  IN IF roots = {} \/ Nil \in roots THEN {Nil} ELSE roots

WriteBranches(branches) ==
  Those(branches, {b \in Range(branches) : b.set # {} \/ b.rel # Keep})

-----------------------------------------------------------------------------
(* The same body run by Go on one row.                                     *)

Assign(row, set) ==
  [c \in DOMAIN row |->
     IF \E a \in set : a[1] = c THEN (CHOOSE a \in set : a[1] = c)[2] ELSE row[c]]

GoBlock(s, block) ==
  [row |-> Assign(s.row, block.set),
   rel |-> IF block.rel = Keep THEN s.rel ELSE block.rel,
   ret |-> block.ret]

\* The arm Go enters, if any: its test holds, and none before it does.
Entered(arms, row) ==
  {i \in 1..Len(arms) : /\ IsTrue(arms[i].test, row)
                        /\ \A j \in 1..(i - 1) : ~IsTrue(arms[j].test, row)}

GoChain(s, stmt) ==
  LET entered == Entered(stmt.arms, s.row)
  IN IF entered # {} THEN GoBlock(s, stmt.arms[CHOOSE i \in entered : TRUE])
     ELSE IF stmt.other # <<>> THEN GoBlock(s, stmt.other[1])
     ELSE s

GoStatement(s, stmt) ==
  CASE s.ret # "none" -> s
    [] s.ret = "none" /\ stmt.op = "arms" -> GoChain(s, stmt)
    [] s.ret = "none" /\ stmt.op = "assign" -> GoBlock(s, stmt.block)
    [] s.ret = "none" /\ stmt.op = "accept" -> [s EXCEPT !.ret = "true"]
    [] s.ret = "none" /\ stmt.op = "reject" -> [s EXCEPT !.ret = "false"]
    [] s.ret = "none" /\ stmt.op = "return" ->
         [s EXCEPT !.ret = IF IsTrue(stmt.test, s.row) THEN "true" ELSE "false"]

GoStart(row) == [row |-> row, rel |-> Keep, ret |-> "none"]

GoRun(body, row) ==
  LET after[n \in 0..Len(body)] ==
        IF n = 0 THEN GoStart(row) ELSE GoStatement(after[n - 1], body[n])
  IN after[Len(body)]

=============================================================================
