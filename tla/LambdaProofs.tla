--------------------------- MODULE LambdaProofs ---------------------------
(***************************************************************************)
(* What the compilation of a chain guarantees, for chains of any length,   *)
(* tests over any columns and values, and rows with or without NULL; then  *)
(* what the statements of a call do to the table, for bodies of any number *)
(* of statements and any number of writes by other sessions.               *)
(***************************************************************************)
EXTENDS LambdaCall, SequenceLemmas

\* No test is both true and false of a row.
LEMMA NotBoth ==
  ASSUME NEW test, NEW row, IsTrue(test, row)
  PROVE  ~IsFalse(test, row)
BY DEF IsTrue, IsFalse

\* Of a row without NULL in the tested columns, a test that is not true is false.
LEMMA TwoValued ==
  ASSUME NEW test, NEW row, \A a \in test : row[a[1]] # Null, ~IsTrue(test, row)
  PROVE  IsFalse(test, row)
BY DEF IsTrue, IsFalse

-----------------------------------------------------------------------------

\* The conditions of two arms of one chain hold of no row together, NULLs or
\* not: parseIfChain's "the branches stay mutually exclusive".
THEOREM ArmsExclusive ==
  ASSUME NEW arms, Len(arms) \in Nat, NEW row,
         NEW i \in 1..Len(arms), NEW j \in 1..Len(arms), i # j
  PROVE  ~(Holds(ArmCondition(arms, i), row) /\ Holds(ArmCondition(arms, j), row))
<1>1. ASSUME NEW m \in 1..Len(arms), NEW n \in 1..Len(arms), m < n,
             Holds(ArmCondition(arms, m), row), Holds(ArmCondition(arms, n), row)
      PROVE  FALSE
  <2>1. IsTrue(arms[m].test, row)
    BY <1>1 DEF Holds, ArmCondition, exclusiveCondition
  <2>2. arms[m].test \in {arms[k].test : k \in 1..(n - 1)}
    BY <1>1
  <2>3. IsFalse(arms[m].test, row)
    BY <1>1, <2>2 DEF Holds, ArmCondition, exclusiveCondition
  <2> QED
    BY <2>1, <2>3, NotBoth
<1>2. i < j \/ j < i
  OBVIOUS
<1> QED
  BY <1>1, <1>2

\* An else or default arm applies to no row an arm of its chain applies to.
THEOREM ElseExclusive ==
  ASSUME NEW arms, NEW row, NEW i \in 1..Len(arms)
  PROVE  ~(Holds(ArmCondition(arms, i), row) /\ Holds(ElseCondition(arms), row))
<1> SUFFICES ASSUME Holds(ArmCondition(arms, i), row), Holds(ElseCondition(arms), row)
             PROVE  FALSE
  OBVIOUS
<1>1. IsTrue(arms[i].test, row)
  BY DEF Holds, ArmCondition, exclusiveCondition
<1>2. IsFalse(arms[i].test, row)
  BY DEF Holds, ElseCondition, exclusiveCondition, Tests
<1> QED
  BY <1>1, <1>2, NotBoth

-----------------------------------------------------------------------------

\* On a row without NULL in the tested columns, the arm whose condition holds is
\* the arm Go enters, and the else applies when no test holds: the conditions of
\* a chain are the if chain, read by the database.
THEOREM ChainFollowsGo ==
  ASSUME NEW arms, Len(arms) \in Nat, NEW row,
         \A i \in 1..Len(arms) : \A a \in arms[i].test : row[a[1]] # Null
  PROVE  /\ \A i \in 1..Len(arms) :
              Holds(ArmCondition(arms, i), row) <=> i \in Entered(arms, row)
         /\ Holds(ElseCondition(arms), row) <=>
              \A i \in 1..Len(arms) : ~IsTrue(arms[i].test, row)
<1>1. \A i \in 1..Len(arms) : IsFalse(arms[i].test, row) <=> ~IsTrue(arms[i].test, row)
  BY NotBoth, TwoValued
<1>2. ASSUME NEW i \in 1..Len(arms)
      PROVE  Holds(ArmCondition(arms, i), row) <=> i \in Entered(arms, row)
  <2>1. \A j \in 1..(i - 1) : j \in 1..Len(arms)
    OBVIOUS
  <2>2. Holds(ArmCondition(arms, i), row) <=>
          /\ \A j \in 1..(i - 1) : IsFalse(arms[j].test, row)
          /\ IsTrue(arms[i].test, row)
    BY DEF Holds, ArmCondition, exclusiveCondition
  <2> QED
    BY <1>1, <2>1, <2>2 DEF Entered
<1>3. Holds(ElseCondition(arms), row) <=>
        \A i \in 1..Len(arms) : IsFalse(arms[i].test, row)
  BY DEF Holds, ElseCondition, exclusiveCondition, Tests
<1> QED
  BY <1>1, <1>2, <1>3

\* An arm whose test is unknown of a row - every column it tests is NULL there -
\* applies to that row neither itself nor through its negation in a later arm or
\* in the else: NULL rows fall out of a chain, they are never guessed into one.
THEOREM UnknownFallsOut ==
  ASSUME NEW arms, Len(arms) \in Nat, NEW row, NEW i \in 1..Len(arms),
         arms[i].test # {}, \A a \in arms[i].test : row[a[1]] = Null /\ a[2] # Null
  PROVE  /\ \A j \in i..Len(arms) : ~Holds(ArmCondition(arms, j), row)
         /\ ~Holds(ElseCondition(arms), row)
<1>1. ~IsTrue(arms[i].test, row) /\ ~IsFalse(arms[i].test, row)
  BY DEF IsTrue, IsFalse
<1>2. ASSUME NEW j \in i..Len(arms), Holds(ArmCondition(arms, j), row)
      PROVE  FALSE
  <2>1. CASE j = i
    BY <1>1, <1>2, <2>1 DEF Holds, ArmCondition, exclusiveCondition
  <2>2. CASE i \in 1..(j - 1)
    BY <1>1, <1>2, <2>2 DEF Holds, ArmCondition, exclusiveCondition
  <2> QED
    BY <2>1, <2>2
<1>3. ~Holds(ElseCondition(arms), row)
  BY <1>1 DEF Holds, ElseCondition, exclusiveCondition, Tests
<1> QED
  BY <1>2, <1>3

-----------------------------------------------------------------------------
(* What parseBody compiles a body to.                                      *)

ConditionType == [not : SUBSET Test, own : SUBSET Test]

BranchType == [cond : ConditionType, set : Sets, rel : Related \cup {Keep},
               selects : BOOLEAN, at : Nat]

\* The branches of a chain: of its arms, and of its else.
IsArm(b, stmt, at) ==
  \E k \in 1..Len(stmt.arms) : b = branchFromBlock(stmt.arms[k], ArmCondition(stmt.arms, k), at)

IsElse(b, stmt, at) ==
  \E k \in 1..Len(stmt.other) : b = branchFromBlock(stmt.other[k], ElseCondition(stmt.arms), at)

\* Branches are in the order of their statements, the one of the top level last, and of
\* two of one statement the later one excludes a test of the earlier.
Apart == {p \in BranchType \X BranchType :
            /\ p[1].at = p[2].at => \E t \in p[1].cond.own : t \in p[2].cond.not
            /\ p[2].at # 0 => p[1].at # 0 /\ p[1].at <= p[2].at}

\* What a chain is made of.
LEMMA ArmsTyped ==
  ASSUME NEW stmt \in StatementType, stmt.op = "arms"
  PROVE  /\ stmt.arms \in Seq(ArmType) /\ stmt.other \in Seq(BlockType) /\ Len(stmt.other) <= 1
         /\ Len(stmt.arms) \in Nat /\ Len(stmt.other) \in Nat
         /\ \A k \in 1..Len(stmt.arms) : stmt.arms[k] \in ArmType
         /\ \A k \in 1..Len(stmt.other) : stmt.other[k] \in BlockType
<1>1. /\ stmt.arms \in Seq(ArmType) /\ stmt.other \in Seq(BlockType) /\ Len(stmt.other) <= 1
  BY DEF StatementType
<1>. QED
  BY <1>1, LenProperties, ElementOfSeq

\* The branch of a block has the type of branches.
LEMMA BranchTyped ==
  ASSUME NEW block, block.set \in Sets, block.rel \in Related \cup {Keep},
         NEW cond \in ConditionType, NEW at \in Nat
  PROVE  branchFromBlock(block, cond, at) \in BranchType
BY DEF branchFromBlock, BranchType

\* The conditions of a chain are conditions.
LEMMA ConditionsTyped ==
  ASSUME NEW arms \in Seq(ArmType)
  PROVE  /\ Tests(arms) \in SUBSET Test
         /\ ElseCondition(arms) \in ConditionType
         /\ \A k \in 1..Len(arms) : ArmCondition(arms, k) \in ConditionType
<1>1. Len(arms) \in Nat /\ \A k \in 1..Len(arms) : arms[k] \in ArmType
  BY LenProperties, ElementOfSeq
<1>2. \A k \in 1..Len(arms) : arms[k].test \in Test
  BY <1>1 DEF ArmType
<1>3. Tests(arms) \in SUBSET Test
  BY <1>2 DEF Tests
<1>4. ASSUME NEW k \in 1..Len(arms) PROVE ArmCondition(arms, k) \in ConditionType
  <2>1. \A j \in 1..(k - 1) : j \in 1..Len(arms)
    BY <1>1
  <2>2. {arms[j].test : j \in 1..(k - 1)} \in SUBSET Test /\ {arms[k].test} \in SUBSET Test
    BY <1>2, <2>1
  <2>. QED
    BY <2>2 DEF ArmCondition, exclusiveCondition, ConditionType
<1>. QED
  BY <1>3, <1>4 DEF ElseCondition, exclusiveCondition, ConditionType

\* A chain compiles to its observable arms and its else, in order and apart.
LEMMA ChainCompiles ==
  ASSUME NEW stmt \in StatementType, stmt.op = "arms", NEW at \in Nat
  PROVE  /\ ChainBranches(stmt, at) \in Seq(BranchType)
         /\ \A b : b \in Range(ChainBranches(stmt, at)) <=>
                     Observable(b) /\ (IsArm(b, stmt, at) \/ IsElse(b, stmt, at))
         /\ InOrder(ChainBranches(stmt, at), Apart)
<1>. DEFINE m == Len(stmt.arms)
            n == Len(stmt.other)
            u == [i \in 1..m |-> branchFromBlock(stmt.arms[i], ArmCondition(stmt.arms, i), at)]
            v == [i \in 1..n |-> branchFromBlock(stmt.other[i], ElseCondition(stmt.arms), at)]
            all == u \o v
<1>1. /\ stmt.arms \in Seq(ArmType) /\ m \in Nat /\ n \in Nat /\ n <= 1
      /\ \A k \in 1..m : stmt.arms[k] \in ArmType
      /\ \A k \in 1..n : stmt.other[k] \in BlockType
  BY ArmsTyped
<1>2. ASSUME NEW i \in 1..m PROVE u[i] \in BranchType
  <2>1. stmt.arms[i].set \in Sets /\ stmt.arms[i].rel \in Related \cup {Keep}
    BY <1>1 DEF ArmType
  <2>2. ArmCondition(stmt.arms, i) \in ConditionType
    BY <1>1, ConditionsTyped
  <2>. QED
    BY <2>1, <2>2, BranchTyped
<1>3. ASSUME NEW i \in 1..n PROVE v[i] \in BranchType
  <2>1. stmt.other[i].set \in Sets /\ stmt.other[i].rel \in Related \cup {Keep}
    BY <1>1 DEF BlockType
  <2>2. ElseCondition(stmt.arms) \in ConditionType
    BY <1>1, ConditionsTyped
  <2>. QED
    BY <2>1, <2>2, BranchTyped
<1>4. /\ u \in Seq(BranchType) /\ v \in Seq(BranchType)
      /\ DOMAIN u = 1..m /\ DOMAIN v = 1..n
  <2>1. u \in [1..m -> BranchType] /\ v \in [1..n -> BranchType]
    BY <1>2, <1>3
  <2>. QED
    BY <1>1, <2>1, SeqDef
<1>5. \A b : b \in Range(u) <=> IsArm(b, stmt, at)
  BY <1>4 DEF Range, IsArm
<1>6. \A b : b \in Range(v) <=> IsElse(b, stmt, at)
  BY <1>4 DEF Range, IsElse
<1>7. ASSUME NEW i \in 1..m, NEW j \in 1..m, i < j PROVE <<u[i], u[j]>> \in Apart
  <2>1. stmt.arms[i].test \in u[i].cond.own
    BY DEF branchFromBlock, ArmCondition, exclusiveCondition
  <2>2. i \in 1..(j - 1)
    BY <1>7
  <2>3. stmt.arms[i].test \in u[j].cond.not
    BY <2>2 DEF branchFromBlock, ArmCondition, exclusiveCondition
  <2>4. u[i] \in BranchType /\ u[j] \in BranchType /\ u[i].at = at /\ u[j].at = at
    BY <1>2 DEF branchFromBlock
  <2>. HIDE DEF u
  <2>. QED
    BY <2>1, <2>3, <2>4 DEF Apart
<1>8. ASSUME NEW i \in 1..m, NEW j \in 1..n PROVE <<u[i], v[j]>> \in Apart
  <2>1. stmt.arms[i].test \in u[i].cond.own
    BY DEF branchFromBlock, ArmCondition, exclusiveCondition
  <2>3. stmt.arms[i].test \in v[j].cond.not
    BY DEF branchFromBlock, ElseCondition, Tests, exclusiveCondition
  <2>4. u[i] \in BranchType /\ v[j] \in BranchType /\ u[i].at = at /\ v[j].at = at
    BY <1>2, <1>3 DEF branchFromBlock
  <2>. HIDE DEF u, v
  <2>. QED
    BY <2>1, <2>3, <2>4 DEF Apart
<1>9. ChainBranches(stmt, at) = Those(all, {b \in Range(all) : Observable(b)})
  BY DEF ChainBranches
<1>. HIDE DEF u, v
<1>10. InOrder(u, Apart) /\ InOrder(v, Apart)
  <2>1. \A i, j \in 1..n : ~(i < j)
    BY <1>1
  <2>. QED
    BY <1>4, <1>7, <2>1 DEF InOrder
<1>11. all \in Seq(BranchType) /\ Range(all) = Range(u) \cup Range(v) /\ InOrder(all, Apart)
  <2>1. \A x \in Range(u) : \A y \in Range(v) : <<x, y>> \in Apart
    BY <1>4, <1>8 DEF Range
  <2>. QED
    BY <1>4, <1>10, <2>1, ConcatProperties, RangeConcatenation, ConcatInOrder
<1>. DEFINE S == {b \in Range(all) : Observable(b)}
<1>. HIDE DEF all
<1>12. /\ Those(all, S) \in Seq(BranchType \cap S)
       /\ Range(Those(all, S)) = Range(all) \cap S
       /\ InOrder(Those(all, S), Apart)
  BY <1>11, ThoseRange, ThoseInOrder
<1>13. Those(all, S) \in Seq(BranchType)
  BY <1>12, SeqMonotonic
<1>14. \A b : b \in Range(Those(all, S)) <=> Observable(b) /\ b \in Range(all)
  BY <1>12
<1>. QED
  BY <1>5, <1>6, <1>9, <1>11, <1>12, <1>13, <1>14

\* Numbers up to n have a greatest one.
LEMMA Greatest ==
  ASSUME NEW n \in Nat, NEW S, S \subseteq 1..n, S # {}
  PROVE  Max(S) \in S /\ \A i \in S : i <= Max(S)
<1>. DEFINE B == {m \in Nat : \A i \in S : i <= m}
<1>1. n \in B
  OBVIOUS
<1>2. PICK m \in B : \A k \in B : m <= k
  <2>. HIDE DEF B
  <2>1. B # {}
    BY <1>1
  <2>2. B \subseteq Nat
    BY DEF B
  <2>. QED
    BY <2>1, <2>2, Least
<1>3. m \in S
  <2>1. SUFFICES ASSUME m \notin S PROVE FALSE
    OBVIOUS
  <2>2. \A i \in S : i <= m /\ i # m /\ i \in Nat /\ i >= 1
    BY <2>1
  <2>3. m - 1 \in Nat
    <3>1. PICK i \in S : TRUE
      OBVIOUS
    <3>2. i \in Nat /\ i >= 1 /\ i <= m /\ m \in Nat
      BY <2>2
    <3>. QED
      BY <3>2
  <2>4. m - 1 \in B
    BY <2>2, <2>3
  <2>. QED
    BY <1>2, <2>4
<1>4. \A i \in S : m >= i
  BY <1>2
<1>5. Max(S) \in S /\ \A i \in S : Max(S) >= i
  BY <1>3, <1>4 DEF Max
<1>. QED
  BY <1>5

\* The statements of a body, by what they do.
LEMMA BodyTyped ==
  ASSUME NEW body \in BodyType
  PROVE  /\ Len(body) \in Nat /\ DOMAIN body = 1..Len(body)
         /\ \A i \in DOMAIN body : body[i] \in StatementType
         /\ \A i \in Statements(body, "assign") : body[i].block \in BlockType
BY LenProperties, ElementOfSeq DEF BodyType, Statements, StatementType

\* The unconditional assignments are a block.
LEMMA TopTyped ==
  ASSUME NEW body \in BodyType
  PROVE  /\ TopBlock(body).set \in Sets /\ TopBlock(body).rel \in Related \cup {Keep}
         /\ TopBlock(body).ret = "none"
<1>. DEFINE related == {i \in Statements(body, "assign") : body[i].block.rel # Keep}
            sets == UNION {body[i].block.set : i \in Statements(body, "assign")}
            rel == IF related = {} THEN Keep ELSE body[Max(related)].block.rel
<1>1. TopBlock(body) = [set |-> sets, rel |-> rel, ret |-> "none"]
  BY DEF TopBlock
<1>2. /\ Len(body) \in Nat /\ related \subseteq 1..Len(body)
      /\ \A i \in Statements(body, "assign") : body[i].block.set \in Sets /\ body[i].block.rel \in Related \cup {Keep}
  BY BodyTyped DEF BlockType, Statements
<1>3. sets \in Sets
  BY <1>2 DEF Sets
<1>4. rel \in Related \cup {Keep}
  <2>1. CASE related # {}
    <3>1. Max(related) \in related
      BY <1>2, <2>1, Greatest
    <3>. QED
      BY <1>2, <2>1, <3>1
  <2>. QED
    BY <2>1
<1>. HIDE DEF sets, rel
<1>. QED
  BY <1>1, <1>3, <1>4

\* The tests before a statement are tests.
LEMMA PriorsTyped ==
  ASSUME NEW body \in BodyType, NEW at
  PROVE  bodyPriors(body, at) \in SUBSET Test
<1>1. ASSUME NEW i \in Statements(body, "arms") PROVE ChainPriors(body[i]) \in SUBSET Test
  <2>1. body[i] \in StatementType /\ body[i].op = "arms"
    BY BodyTyped DEF Statements
  <2>2. Tests(body[i].arms) \in SUBSET Test
    BY <2>1, ArmsTyped, ConditionsTyped
  <2>. QED
    BY <2>2 DEF ChainPriors
<1>. QED
  BY <1>1 DEF bodyPriors

\* What a statement compiles to.
LEMMA StatementCompiles ==
  ASSUME NEW body \in BodyType, NEW at \in DOMAIN body
  PROVE  /\ StatementBranches(body, at) \in Seq(BranchType)
         /\ InOrder(StatementBranches(body, at), Apart)
         /\ \A b : b \in Range(StatementBranches(body, at)) <=>
              \/ body[at].op = "arms" /\ Observable(b) /\ (IsArm(b, body[at], at) \/ IsElse(b, body[at], at))
              \/ body[at].op = "accept" /\ b = ReturnBranch({}, body, at)
              \/ body[at].op = "return" /\ b = ReturnBranch({body[at].test}, body, at)
<1>1. body[at] \in StatementType /\ at \in Nat
  BY BodyTyped
<1>2. ASSUME NEW own \in SUBSET Test
      PROVE  LET s == <<ReturnBranch(own, body, at)>>
             IN s \in Seq(BranchType) /\ InOrder(s, Apart) /\ Range(s) = {ReturnBranch(own, body, at)}
  <2>. DEFINE b == ReturnBranch(own, body, at)
  <2>1. exclusiveCondition(bodyPriors(body, at), own) \in ConditionType
    BY PriorsTyped DEF exclusiveCondition, ConditionType
  <2>2. {} \in Sets
    BY DEF Sets
  <2>3. b \in BranchType
    BY <1>1, <2>1, <2>2 DEF ReturnBranch, branchFromBlock, BranchType
  <2>. HIDE DEF b
  <2>4. DOMAIN <<b>> = {1} /\ Range(<<b>>) = {b}
    BY DEF Range
  <2>5. <<b>> \in Seq(BranchType)
    BY <2>3
  <2>. QED
    BY <2>4, <2>5 DEF InOrder, b
<1>3. CASE body[at].op = "arms"
  BY <1>1, <1>3, ChainCompiles DEF StatementBranches
<1>4. CASE body[at].op = "accept"
  <2>1. StatementBranches(body, at) = <<ReturnBranch({}, body, at)>>
    BY <1>4 DEF StatementBranches
  <2>2. {} \in SUBSET Test
    OBVIOUS
  <2>3. /\ StatementBranches(body, at) \in Seq(BranchType)
        /\ InOrder(StatementBranches(body, at), Apart)
        /\ Range(StatementBranches(body, at)) = {ReturnBranch({}, body, at)}
    BY <1>2, <2>1, <2>2
  <2>. QED
    BY <1>4, <2>3
<1>5. CASE body[at].op = "return"
  <2>1. StatementBranches(body, at) = <<ReturnBranch({body[at].test}, body, at)>>
    BY <1>5 DEF StatementBranches
  <2>2. {body[at].test} \in SUBSET Test
    BY <1>1, <1>5 DEF StatementType
  <2>3. /\ StatementBranches(body, at) \in Seq(BranchType)
        /\ InOrder(StatementBranches(body, at), Apart)
        /\ Range(StatementBranches(body, at)) = {ReturnBranch({body[at].test}, body, at)}
    BY <1>2, <2>1, <2>2
  <2>. QED
    BY <1>5, <2>3
<1>6. CASE body[at].op \notin {"arms", "accept", "return"}
  <2>1. StatementBranches(body, at) = <<>>
    BY <1>6 DEF StatementBranches
  <2>2. DOMAIN <<>> = {} /\ Range(<<>>) = {}
    BY DEF Range
  <2>. QED
    BY <1>6, <2>1, <2>2, EmptySeq DEF InOrder
<1>. QED
  BY <1>3, <1>4, <1>5, <1>6

\* The branch of the top-level assignments.
LastBranch(body) == branchFromBlock(TopBlock(body), Nil, 0)

\* What a body compiles to: the branches of its statements, each apart from those
\* before it of the same one, and that of the top-level assignments.
LEMMA BodyCompiles ==
  ASSUME NEW body \in BodyType
  PROVE  /\ parseBody(body) \in Seq(BranchType)
         /\ InOrder(parseBody(body), Apart)
         /\ \A b : b \in Range(parseBody(body)) <=>
              \/ \E at \in DOMAIN body : b \in Range(StatementBranches(body, at))
              \/ b = LastBranch(body) /\ Observable(b)
<1>. DEFINE g == [at \in DOMAIN body |-> StatementBranches(body, at)]
            last == LastBranch(body)
            tail == IF Observable(last) THEN <<last>> ELSE <<>>
<1>0. Len(body) \in Nat /\ DOMAIN body = 1..Len(body)
  BY BodyTyped
<1>1. \A at \in DOMAIN body : g[at] = StatementBranches(body, at) /\ g[at] \in Seq(BranchType) /\ InOrder(g[at], Apart)
  BY StatementCompiles
<1>2. DOMAIN g = DOMAIN body /\ g = [at \in DOMAIN body |-> g[at]]
  OBVIOUS
<1>3. last \in BranchType /\ last.at = 0
  <2>1. Nil \in ConditionType
    BY DEF Nil, exclusiveCondition, ConditionType
  <2>. QED
    BY <2>1, TopTyped, BranchTyped DEF LastBranch, branchFromBlock
<1>4. parseBody(body) = FlattenSeq(g) \o tail
  BY DEF parseBody, LastBranch
<1>. HIDE DEF g, last
<1>5. g \in Seq(Seq(BranchType))
  <2>1. g \in [1..Len(body) -> Seq(BranchType)]
    BY <1>0, <1>1, <1>2
  <2>. QED
    BY <1>0, <2>1, SeqDef
<1>6. ASSUME NEW at \in DOMAIN body, NEW b \in Range(g[at]) PROVE b.at = at
  <2>1. b \in Range(StatementBranches(body, at))
    BY <1>1, <1>6
  <2>2. \/ IsArm(b, body[at], at) \/ IsElse(b, body[at], at)
        \/ b = ReturnBranch({}, body, at) \/ b = ReturnBranch({body[at].test}, body, at)
    BY <2>1, StatementCompiles
  <2>3. \A block, cond : branchFromBlock(block, cond, at).at = at
    BY DEF branchFromBlock
  <2>. QED
    BY <2>2, <2>3 DEF IsArm, IsElse, ReturnBranch
<1>7. ASSUME NEW at \in DOMAIN body PROVE Range(g[at]) \subseteq BranchType
  BY <1>1, RangeOfSeq
<1>8. \A i, j \in DOMAIN g : i < j => \A x \in Range(g[i]) : \A y \in Range(g[j]) : <<x, y>> \in Apart
  <2>1. ASSUME NEW i \in DOMAIN g, NEW j \in DOMAIN g, i < j, NEW x \in Range(g[i]), NEW y \in Range(g[j])
        PROVE  <<x, y>> \in Apart
    <3>1. x.at = i /\ y.at = j /\ x \in BranchType /\ y \in BranchType
      BY <1>2, <1>6, <1>7
    <3>2. i # j /\ i # 0 /\ i <= j
      BY <1>0, <1>2, <2>1
    <3>. QED
      BY <3>1, <3>2 DEF Apart
  <2>. QED
    BY <2>1
<1>9. /\ FlattenSeq(g) \in Seq(BranchType) /\ InOrder(FlattenSeq(g), Apart)
      /\ \A b : b \in Range(FlattenSeq(g)) <=> \E at \in DOMAIN g : b \in Range(g[at])
  BY <1>1, <1>2, <1>5, <1>8, FlattenRange, FlattenInOrder
<1>10. /\ tail \in Seq(BranchType) /\ InOrder(tail, Apart)
       /\ \A b : b \in Range(tail) <=> b = last /\ Observable(b)
  <2>1. <<last>> \in Seq(BranchType) /\ <<>> \in Seq(BranchType)
    BY <1>3, EmptySeq
  <2>2. DOMAIN <<last>> = {1} /\ Range(<<last>>) = {last} /\ DOMAIN <<>> = {} /\ Range(<<>>) = {}
    BY DEF Range
  <2>3. InOrder(<<last>>, Apart) /\ InOrder(<<>>, Apart)
    BY <2>2 DEF InOrder
  <2>. QED
    BY <2>1, <2>2, <2>3
<1>. HIDE DEF tail
<1>11. ASSUME NEW x \in Range(FlattenSeq(g)), NEW y \in Range(tail) PROVE <<x, y>> \in Apart
  <2>1. PICK at \in DOMAIN body : x \in Range(g[at])
    BY <1>2, <1>9
  <2>2. x.at = at /\ at # 0 /\ x \in BranchType /\ y = last
    BY <1>0, <1>6, <1>7, <1>10, <2>1
  <2>. QED
    BY <1>3, <2>2 DEF Apart
<1>12. /\ FlattenSeq(g) \o tail \in Seq(BranchType)
       /\ InOrder(FlattenSeq(g) \o tail, Apart)
       /\ Range(FlattenSeq(g) \o tail) = Range(FlattenSeq(g)) \cup Range(tail)
  BY <1>9, <1>10, <1>11, ConcatProperties, RangeConcatenation, ConcatInOrder
<1>13. \A b : b \in Range(parseBody(body)) <=> b \in Range(FlattenSeq(g)) \/ b \in Range(tail)
  BY <1>4, <1>12
<1>14. \A b : b \in Range(FlattenSeq(g)) <=> \E at \in DOMAIN body : b \in Range(StatementBranches(body, at))
  BY <1>1, <1>2, <1>9
<1>. QED
  BY <1>4, <1>10, <1>12, <1>13, <1>14 DEF last

\* The columns a condition reads.
Reads(cond) == {a[1] : a \in UNION (cond.own \cup cond.not)}

\* A condition tells two rows apart only by the columns it reads.
LEMMA SameHolds ==
  ASSUME NEW cond, NEW row, NEW other, \A k \in Reads(cond) : row[k] = other[k],
         Holds(cond, row)
  PROVE  Holds(cond, other)
<1>1. \A t \in cond.own \cup cond.not : \A a \in t : row[a[1]] = other[a[1]]
  BY DEF Reads
<1>2. \A t \in cond.own : IsTrue(t, other)
  BY <1>1 DEF Holds, IsTrue
<1>3. \A t \in cond.not : IsFalse(t, other)
  BY <1>1 DEF Holds, IsFalse
<1>. QED
  BY <1>2, <1>3 DEF Holds

\* Assigning to a row makes a row, and leaves the other columns alone.
LEMMA Assigned ==
  ASSUME NEW row \in Row, NEW set \in Sets
  PROVE  /\ Assign(row, set) \in Row
         /\ \A k \in Col : k \notin ColumnsOf(set) => Assign(row, set)[k] = row[k]
<1>1. DOMAIN row = Col /\ \A k \in Col : row[k] \in Val \cup {Null}
  BY DEF Row
<1>2. ASSUME NEW k \in Col, NEW a \in set, a[1] = k
      PROVE  (CHOOSE b \in set : b[1] = k)[2] \in Val \cup {Null}
  <2>1. PICK b \in set : b = CHOOSE x \in set : x[1] = k
    BY <1>2
  <2>2. b \in Col \X (Val \cup {Null})
    BY DEF Sets
  <2>. QED
    BY <2>1, <2>2
<1>3. ASSUME NEW k \in Col
      PROVE  (IF \E a \in set : a[1] = k THEN (CHOOSE a \in set : a[1] = k)[2] ELSE row[k]) \in Val \cup {Null}
  BY <1>1, <1>2
<1>4. \A k \in Col : k \notin ColumnsOf(set) => ~ \E a \in set : a[1] = k
  BY DEF ColumnsOf
<1>. QED
  BY <1>1, <1>3, <1>4 DEF Assign, Row

\* A branch that writes columns is that of the top level, under no condition, or of a
\* chain of the body, and reads the tests of the chain.
LEMMA WritersAre ==
  ASSUME NEW body \in BodyType, NEW b \in Range(parseBody(body)), b.set # {} \/ b.rel # Keep
  PROVE  \/ b = LastBranch(body) /\ b.at = 0 /\ b.cond = Nil /\ b.set = SetOnTop(body)
         \/ /\ b.at \in Statements(body, "arms") /\ b.at # 0
            /\ IsArm(b, body[b.at], b.at) \/ IsElse(b, body[b.at], b.at)
            /\ b.set \subseteq SetInArms(body)
            /\ Reads(b.cond) \subseteq Tested(body)
<1>1. CASE b = LastBranch(body)
  BY <1>1 DEF LastBranch, branchFromBlock, SetOnTop
<1>2. ASSUME NEW at \in DOMAIN body, b \in Range(StatementBranches(body, at))
      PROVE  /\ b.at \in Statements(body, "arms") /\ b.at # 0
             /\ IsArm(b, body[b.at], b.at) \/ IsElse(b, body[b.at], b.at)
             /\ b.set \subseteq SetInArms(body)
             /\ Reads(b.cond) \subseteq Tested(body)
  <2>1. \A own : ReturnBranch(own, body, at).set = {} /\ ReturnBranch(own, body, at).rel = Keep
    BY DEF ReturnBranch, branchFromBlock
  <2>2. body[at].op = "arms" /\ (IsArm(b, body[at], at) \/ IsElse(b, body[at], at))
    BY <1>2, <2>1, StatementCompiles
  <2>. DEFINE stmt == body[at]
  <2>3. at \in Statements(body, "arms") /\ at # 0 /\ stmt \in StatementType /\ stmt.op = "arms"
    BY <2>2, BodyTyped DEF Statements
  <2>4. /\ stmt.arms \in Seq(ArmType) /\ stmt.other \in Seq(BlockType)
        /\ Len(stmt.arms) \in Nat /\ Len(stmt.other) \in Nat
    BY <2>3, ArmsTyped
  <2>5. Tests(stmt.arms) \subseteq UNION {Tests(body[i].arms) : i \in Arms(body)}
    BY <2>3 DEF Arms
  <2>6. ASSUME b.cond.own \cup b.cond.not \subseteq Tests(stmt.arms)
        PROVE  Reads(b.cond) \subseteq Tested(body)
    BY <2>5, <2>6 DEF Reads, Tested
  <2>7. ASSUME NEW block \in BlocksOf(stmt), b.set = block.set
        PROVE  b.set \subseteq SetInArms(body)
    BY <2>3, <2>7 DEF SetInArms, Arms
  <2>8. BlocksOf(stmt) = Range(stmt.arms) \cup Range(stmt.other)
    <3>1. stmt.arms \in Seq(ArmType \cup BlockType) /\ stmt.other \in Seq(ArmType \cup BlockType)
      BY <2>4, SeqMonotonic
    <3>. HIDE DEF stmt
    <3>. QED
      BY <3>1, RangeConcatenation DEF BlocksOf
  <2>9. DOMAIN stmt.arms = 1..Len(stmt.arms) /\ DOMAIN stmt.other = 1..Len(stmt.other)
    BY <2>4, LenProperties
  <2>10. CASE IsArm(b, stmt, at)
    <3>1. PICK k \in 1..Len(stmt.arms) : b = branchFromBlock(stmt.arms[k], ArmCondition(stmt.arms, k), at)
      BY <2>10 DEF IsArm
    <3>2. b.at = at /\ b.set = stmt.arms[k].set /\ b.cond = ArmCondition(stmt.arms, k)
      BY <3>1 DEF branchFromBlock
    <3>3. stmt.arms[k] \in BlocksOf(stmt)
      BY <2>8, <2>9 DEF Range
    <3>4. \A j \in 1..(k - 1) : j \in 1..Len(stmt.arms)
      BY <2>4
    <3>5. b.cond.own \cup b.cond.not \subseteq Tests(stmt.arms)
      BY <3>2, <3>4 DEF ArmCondition, exclusiveCondition, Tests
    <3>. QED
      BY <2>3, <2>6, <2>7, <2>10, <3>2, <3>3, <3>5
  <2>11. CASE IsElse(b, stmt, at)
    <3>1. PICK k \in 1..Len(stmt.other) : b = branchFromBlock(stmt.other[k], ElseCondition(stmt.arms), at)
      BY <2>11 DEF IsElse
    <3>2. b.at = at /\ b.set = stmt.other[k].set /\ b.cond = ElseCondition(stmt.arms)
      BY <3>1 DEF branchFromBlock
    <3>3. stmt.other[k] \in BlocksOf(stmt)
      BY <2>8, <2>9 DEF Range
    <3>5. b.cond.own \cup b.cond.not \subseteq Tests(stmt.arms)
      BY <3>2 DEF ElseCondition, exclusiveCondition, Tests
    <3>. QED
      BY <2>3, <2>6, <2>7, <2>11, <3>2, <3>3, <3>5
  <2>. QED
    BY <2>2, <2>10, <2>11
<1>. QED
  BY <1>1, <1>2, BodyCompiles

\* A stable body writes no column that its branches read.
LEMMA StableKeeps ==
  ASSUME NEW body \in BodyType, Stable(body), NEW b \in Range(parseBody(body)), b.set # {},
         NEW row \in Row, b.set \in Sets
  PROVE  \A k \in Tested(body) \cap Col : Assign(row, b.set)[k] = row[k]
<1>1. b.set \subseteq SetInArms(body) \cup SetOnTop(body)
  BY WritersAre
<1>2. ColumnsOf(b.set) \cap Tested(body) = {}
  BY <1>1 DEF Stable, ColumnsOf
<1>. QED
  BY <1>2, Assigned

-----------------------------------------------------------------------------
(* The steps of a call.                                                    *)

\* Before the first statement nothing has happened, and only writing calls get to one.
CallInv ==
  /\ TypeOK
  /\ call \in Calls
  /\ branches = IF phase = "called" THEN <<>> ELSE parseBody(call.body)
  /\ phase \in {"columns", "relations"} => call.kind \in {"update", "insert"}
  /\ phase \in {"called", "parsed"} =>
       /\ next = 0 /\ foreign = {}
       /\ table = [r \in Row |-> r] /\ saved = [r \in Row |-> r]
       /\ link = [r \in Row |-> Keep]
       /\ hits = [r \in Row |-> {}]

\* The branches of a call, and those of them that write columns or relations.
LEMMA CallCompiles ==
  ASSUME CallInv
  PROVE  /\ call.body \in BodyType
         /\ branches \in Seq(BranchType) /\ InOrder(branches, Apart)
         /\ Len(branches) \in Nat /\ DOMAIN branches = 1..Len(branches)
         /\ Updates \in Seq(BranchType) /\ InOrder(Updates, Apart)
         /\ Relations \in Seq(BranchType) /\ InOrder(Relations, Apart)
         /\ Range(Updates) = {b \in Range(branches) : b.set # {}}
         /\ Range(Relations) = {b \in Range(branches) : b.rel # Keep}
         /\ Len(Updates) \in 0..Len(branches) /\ DOMAIN Updates = 1..Len(Updates)
         /\ Len(Relations) \in 0..Len(branches) /\ DOMAIN Relations = 1..Len(Relations)
<1>. DEFINE W == {b \in Range(branches) : b.set # {} \/ b.rel # Keep}
            w == WriteBranches(branches)
            S == {b \in Range(branches) : b.set # {}}
            L == {b \in Range(branches) : b.rel # Keep}
<1>1. call.body \in BodyType
  BY CallsAssumption DEF CallInv
<1>2. branches \in Seq(BranchType) /\ InOrder(branches, Apart)
  <2>1. DOMAIN <<>> = {} /\ <<>> \in Seq(BranchType)
    BY EmptySeq
  <2>2. InOrder(<<>>, Apart)
    BY <2>1 DEF InOrder
  <2>. QED
    BY <1>1, <2>1, <2>2, BodyCompiles DEF CallInv
<1>3. w \in Seq(BranchType \cap W) /\ Range(w) = Range(branches) \cap W /\ InOrder(w, Apart) /\ Len(w) <= Len(branches)
  BY <1>2, ThoseRange, ThoseInOrder, ThoseShort DEF WriteBranches
<1>4. w \in Seq(BranchType)
  BY <1>3, SeqMonotonic
<1>5. ASSUME NEW T
      PROVE  LET u == Those(w, T)
             IN u \in Seq(BranchType) /\ InOrder(u, Apart) /\ Range(u) = Range(w) \cap T /\ Len(u) <= Len(w)
  <2>1. Those(w, T) \in Seq(BranchType \cap T) /\ Range(Those(w, T)) = Range(w) \cap T
    BY <1>4, ThoseRange
  <2>2. Those(w, T) \in Seq(BranchType)
    BY <2>1, SeqMonotonic
  <2>3. InOrder(Those(w, T), Apart)
    BY <1>3, <1>4, ThoseInOrder
  <2>4. Len(Those(w, T)) <= Len(w)
    BY <1>4, ThoseShort
  <2>. QED
    BY <2>1, <2>2, <2>3, <2>4
<1>6. Updates = Those(w, S) /\ Relations = Those(w, L)
  BY DEF Updates, Relations
<1>. HIDE DEF w
<1>7. /\ Updates \in Seq(BranchType) /\ InOrder(Updates, Apart) /\ Range(Updates) = Range(w) \cap S
      /\ Relations \in Seq(BranchType) /\ InOrder(Relations, Apart) /\ Range(Relations) = Range(w) \cap L
      /\ Len(Updates) <= Len(w) /\ Len(Relations) <= Len(w)
  <2>. HIDE DEF S, L
  <2>. QED
    BY <1>5, <1>6
<1>8. /\ Len(branches) \in Nat /\ DOMAIN branches = 1..Len(branches) /\ Len(w) \in Nat
      /\ Len(Updates) \in Nat /\ DOMAIN Updates = 1..Len(Updates)
      /\ Len(Relations) \in Nat /\ DOMAIN Relations = 1..Len(Relations)
  BY <1>2, <1>4, <1>7, LenProperties
<1>9. Len(Updates) <= Len(branches) /\ Len(Relations) <= Len(branches)
  BY <1>3, <1>7, <1>8
<1>10. Range(Updates) = S /\ Range(Relations) = L
  BY <1>3, <1>7
<1>. QED
  BY <1>1, <1>2, <1>7, <1>8, <1>9, <1>10

\* A branch that has a statement of its own is one of the body's.
LEMMA UpdateIs ==
  ASSUME CallInv, NEW i \in DOMAIN Updates
  PROVE  /\ phase # "called" /\ Updates[i] \in BranchType
         /\ Updates[i] \in Range(parseBody(call.body)) /\ Updates[i].set # {}
<1>1. Updates[i] \in Range(branches) /\ Updates[i].set # {} /\ Updates[i] \in BranchType
  <2>1. Updates[i] \in Range(Updates)
    BY DEF Range
  <2>2. Range(Updates) \subseteq BranchType
    BY CallCompiles, RangeOfSeq
  <2>. QED
    BY <2>1, <2>2, CallCompiles
<1>2. DOMAIN <<>> = {} /\ Range(<<>>) = {}
  BY DEF Range
<1>3. phase # "called"
  BY <1>1, <1>2 DEF CallInv
<1>. QED
  BY <1>1, <1>3 DEF CallInv

\* A row that another session wrote is a row.
LEMMA Overwritten ==
  ASSUME NEW rows \in [Row -> Row], NEW r \in Row, NEW c \in Col, NEW v \in Val \cup {Null}
  PROVE  /\ [rows EXCEPT ![r][c] = v] \in [Row -> Row]
         /\ \A q \in Row \ {r} : [rows EXCEPT ![r][c] = v][q] = rows[q]
<1>1. rows[r] \in [Col -> Val \cup {Null}]
  BY DEF Row
<1>2. [rows[r] EXCEPT ![c] = v] \in Row
  BY <1>1 DEF Row
<1>. QED
  BY <1>2

\* Every step of a call keeps the types.
LEMMA CallStep ==
  ASSUME CallInv, [Next]_vars
  PROVE  CallInv'
<1>0. /\ call.body \in BodyType /\ DOMAIN branches = 1..Len(branches) /\ Len(branches) \in Nat
      /\ Len(Updates) \in 0..Len(branches) /\ DOMAIN Updates = 1..Len(Updates)
      /\ Len(Relations) \in 0..Len(branches) /\ DOMAIN Relations = 1..Len(Relations)
      /\ Range(Relations) \subseteq Range(branches)
  BY CallCompiles
<1>same. branches' = branches => Updates' = Updates
  BY DEF Updates
<1>. USE DEF CallInv, TypeOK
<1>. DEFINE Links == {Keep} \cup {branches[i].rel : i \in DOMAIN branches}
<1>1. CASE Parse
  <2>1. Len(branches') \in Nat
    BY <1>0, <1>1, BodyCompiles, LenProperties DEF Parse
  <2>2. hits' \in [Row -> SUBSET DOMAIN Updates']
    BY <1>1 DEF Parse
  <2>. QED
    BY <1>1, <2>1, <2>2 DEF Parse
<1>2. CASE RunPredicate
  BY <1>2, <1>same DEF RunPredicate
<1>3. CASE Refuse
  BY <1>3, <1>same DEF Refuse
<1>4. CASE Start
  BY <1>4, <1>same DEF Start
<1>5. ASSUME NEW i \in DOMAIN Updates, NEW R \in SUBSET Row, Hit(i, R), branches' = branches
      PROVE  hits' \in [Row -> SUBSET DOMAIN Updates']
  BY <1>5, <1>same DEF Hit
<1>6. CASE RunUpdate
  <2>. DEFINE i == next + 1
              R == RowsOf(Updates[i])
  <2>1. i \in DOMAIN Updates /\ next' \in 0..Len(branches') /\ R \in SUBSET Row
    BY <1>0, <1>6 DEF RunUpdate, RowsOf
  <2>2. Updates[i].set \in Sets
    BY <2>1, UpdateIs DEF BranchType
  <2>3. hits' \in [Row -> SUBSET DOMAIN Updates']
    <3>1. Hit(i, R) /\ branches' = branches
      BY <1>6 DEF RunUpdate
    <3>. HIDE DEF i, R
    <3>. QED
      BY <1>5, <2>1, <3>1
  <2>4. table' \in [Row -> Row]
    <3>1. table' = [r \in Row |-> IF r \in R THEN Assign(table[r], Updates[i].set) ELSE table[r]]
      BY <1>6 DEF RunUpdate
    <3>2. \A r \in Row : table[r] \in Row /\ Assign(table[r], Updates[i].set) \in Row
      BY <2>2, Assigned
    <3>. HIDE DEF i, R
    <3>. QED
      BY <3>1, <3>2
  <2>. QED
    BY <1>6, <2>1, <2>3, <2>4 DEF RunUpdate
<1>7. CASE RunInsert
  <2>1. next + 1 \in DOMAIN Updates /\ next' \in 0..Len(branches')
    BY <1>0, <1>7 DEF RunInsert
  <2>2. hits' \in [Row -> SUBSET DOMAIN Updates']
    <3>1. Hit(next + 1, RowsOf(Updates[next + 1])) /\ branches' = branches /\ RowsOf(Updates[next + 1]) \in SUBSET Row
      BY <1>7 DEF RunInsert, RowsOf
    <3>. QED
      BY <1>5, <2>1, <3>1
  <2>. QED
    BY <1>7, <2>1, <2>2 DEF RunInsert
<1>8. CASE ColumnsDone
  BY <1>0, <1>8, <1>same DEF ColumnsDone
<1>9. CASE ApplyRelations
  <2>1. next + 1 \in DOMAIN Relations /\ next' \in 0..Len(branches')
    BY <1>0, <1>9 DEF ApplyRelations
  <2>2. Relations[next + 1].rel \in Links
    <3>1. Relations[next + 1] \in Range(branches)
      BY <1>0, <2>1 DEF Range
    <3>. QED
      BY <3>1 DEF Range
  <2>3. \A r \in Row : link'[r] \in Links
    BY <1>9, <2>2 DEF ApplyRelations
  <2>. QED
    BY <1>9, <1>same, <2>1, <2>3 DEF ApplyRelations
<1>10. CASE Commit
  BY <1>10, <1>same DEF Commit
<1>11. CASE Fail
  BY <1>11, <1>same DEF Fail
<1>12. ASSUME NEW r \in Row, NEW c \in Col, NEW v \in Val \cup {Null}, OtherWrites(r, c, v)
       PROVE  CallInv'
  <2>1. table' \in [Row -> Row] /\ saved' \in [Row -> Row]
    BY <1>12, Overwritten DEF OtherWrites
  <2>. QED
    BY <1>12, <1>same, <2>1 DEF OtherWrites
<1>13. CASE UNCHANGED vars
  BY <1>13, <1>same DEF vars
<1>. QED
  BY <1>1, <1>2, <1>3, <1>4, <1>6, <1>7, <1>8, <1>9, <1>10, <1>11, <1>12, <1>13 DEF Next

\* The invariant holds of a call about to be made.
LEMMA CallStarts ==
  ASSUME Init
  PROVE  CallInv
<1>1. call \in Calls /\ call.kind \in {"select", "delete", "update", "insert"}
  BY CallsAssumption DEF Init
<1>2. Len(branches) = 0 /\ DOMAIN branches = {}
  BY EmptySeq DEF Init
<1>. QED
  BY <1>1, <1>2 DEF Init, CallInv, TypeOK

\* Throughout a call, its statements run in turn, a row holds a value or NULL in every
\* column, and what it is linked to comes from a branch: LambdaWrite and LambdaInsert
\* run the branches that parseBody made, and no others.
THEOREM CallsTyped == Spec => []TypeOK
<1>1. CallInv /\ [Next]_vars => CallInv'
  BY CallStep
<1>2. Init => CallInv
  BY CallStarts
<1>3. CallInv => TypeOK
  BY DEF CallInv
<1>. QED
  BY <1>1, <1>2, <1>3, PTL DEF Spec

-----------------------------------------------------------------------------
(* One arm per row.                                                        *)

\* The statements that hit a row were run.
HitsRun == phase = "columns" => \A r \in Row : \A i \in hits[r] : i <= next

\* Nobody but another session writes a column that an arm tests.
TestedStand == \A r \in Row \ foreign : \A k \in Tested(call.body) \cap Col : table[r][k] = r[k] /\ saved[r][k] = r[k]

\* A row that a branch changed, or that it copied and nobody wrote, still meets its condition.
HitsHold ==
  \A r \in Row : \A i \in hits[r] :
    call.kind = "update" \/ r \notin foreign => Holds(Updates[i].cond, table[r])

HitInv == HitsRun /\ (Stable(call.body) => TestedStand /\ HitsHold) /\ OneArmPerRow

\* The condition of an update reads tested columns.
LEMMA UpdateReads ==
  ASSUME CallInv, NEW i \in DOMAIN Updates
  PROVE  Reads(Updates[i].cond) \subseteq Tested(call.body) \cap Col
<1>. DEFINE b == Updates[i]
<1>1. b \in BranchType /\ b \in Range(parseBody(call.body)) /\ b.set # {} /\ call.body \in BodyType
  BY UpdateIs, CallCompiles
<1>. HIDE DEF b
<1>2. b.cond \in ConditionType
  BY <1>1 DEF BranchType
<1>3. Reads(b.cond) \subseteq Col
  BY <1>2 DEF Reads, ConditionType, Test
<1>4. Reads(Nil) = {}
  BY DEF Reads, Nil, exclusiveCondition
<1>5. Reads(b.cond) \subseteq Tested(call.body)
  BY <1>1, <1>4, WritersAre
<1>. QED
  BY <1>3, <1>5 DEF b

\* A row that a branch hit fails the condition of every later branch of its statement.
LEMMA LaterFails ==
  ASSUME NEW seq, InOrder(seq, Apart), NEW i \in DOMAIN seq, NEW j \in DOMAIN seq, i < j,
         seq[i].at = seq[j].at, NEW row, Holds(seq[i].cond, row)
  PROVE  ~Holds(seq[j].cond, row)
<1>1. <<seq[i], seq[j]>> \in Apart
  BY DEF InOrder
<1>2. PICK t \in seq[i].cond.own : t \in seq[j].cond.not
  BY <1>1 DEF Apart
<1>3. IsTrue(t, row)
  BY <1>2 DEF Holds
<1>. QED
  BY <1>2, <1>3, NotBoth DEF Holds

\* A statement that hits the rows its condition holds of, none of which it hit before.
LEMMA HitStep ==
  ASSUME CallInv, HitInv, phase = "columns", next < Len(Updates),
         Hit(next + 1, RowsOf(Updates[next + 1])), call' = call, branches' = branches, foreign' = foreign
  PROVE  OneArmPerRow'
<1>. DEFINE n == next + 1
            R == RowsOf(Updates[n])
<1>0. /\ next \in Nat /\ n \in DOMAIN Updates /\ Updates' = Updates
      /\ hits \in [Row -> SUBSET DOMAIN Updates] /\ DOMAIN Updates \subseteq Nat
  <2>1. Updates' = Updates
    BY DEF Updates
  <2>2. DOMAIN Updates = 1..Len(Updates) /\ Len(Updates) \in Nat
    BY CallCompiles
  <2>. QED
    BY <2>1, <2>2 DEF CallInv, TypeOK
<1>1. SUFFICES ASSUME Stable(call.body), NEW r \in Row, NEW i \in hits'[r], NEW j \in hits'[r],
                      i # j, Updates[i].at = Updates[j].at, ~(call.kind = "insert" /\ r \in foreign)
               PROVE  FALSE
  BY <1>0 DEF OneArmPerRow
<1>2. hits'[r] = IF r \in R THEN hits[r] \cup {n} ELSE hits[r]
  BY DEF Hit
<1>3. \A k \in hits[r] : k <= next /\ k \in DOMAIN Updates
  BY <1>0 DEF HitInv, HitsRun
<1>4. \A k \in hits[r] : k # n
  BY <1>0, <1>3
<1>5. ~(i \in hits[r] /\ j \in hits[r])
  BY <1>1 DEF HitInv, OneArmPerRow
<1>6. r \in R
  BY <1>1, <1>2, <1>5
<1>7. PICK k \in hits[r] : Updates[k].at = Updates[n].at
  BY <1>1, <1>2, <1>5, <1>6
<1>8. call.kind = "update" \/ call.kind = "insert"
  BY DEF CallInv
<1>9. Holds(Updates[k].cond, table[r])
  BY <1>1, <1>7, <1>8 DEF HitInv, HitsHold
<1>10. Holds(Updates[n].cond, table[r])
  BY <1>6 DEF RowsOf
<1>11. k < n /\ k \in DOMAIN Updates
  BY <1>0, <1>3, <1>7
<1>. HIDE DEF n
<1>. QED
  BY <1>0, <1>7, <1>9, <1>10, <1>11, CallCompiles, LaterFails

\* Every step of a call keeps the hits as they are described.
LEMMA HitsStep ==
  ASSUME CallInv, HitInv, [Next]_vars
  PROVE  HitInv'
<1>0. /\ call.body \in BodyType /\ call' = call /\ Tested(call.body)' = Tested(call.body) /\ Stable(call.body)' = Stable(call.body)
      /\ hits \in [Row -> SUBSET DOMAIN Updates] /\ DOMAIN Updates = 1..Len(Updates) /\ Len(Updates) \in Nat
      /\ table \in [Row -> Row] /\ saved \in [Row -> Row] /\ next \in Nat
  <2>1. call' = call
    BY DEF Next, Parse, RunPredicate, Refuse, Start, RunUpdate, RunInsert, ColumnsDone, ApplyRelations, Commit, Fail,
           OtherWrites, vars
  <2>. QED
    BY <2>1, CallCompiles DEF CallInv, TypeOK
<1>same. branches' = branches => Updates' = Updates
  BY DEF Updates
\* Steps that hit no row and write nothing.
<1>1. ASSUME UNCHANGED <<branches, table, hits, foreign>>, saved' = saved \/ saved' = table,
             phase' = "columns" => next' = next /\ phase \in {"columns", "parsed"}
      PROVE  HitInv'
  <2>1. Updates' = Updates
    BY <1>1, <1>same
  <2>2. HitsRun'
    BY <1>1 DEF HitInv, HitsRun, CallInv
  <2>3. Stable(call.body) => TestedStand' /\ HitsHold'
    BY <1>0, <1>1, <2>1 DEF HitInv, TestedStand, HitsHold
  <2>4. OneArmPerRow'
    BY <1>0, <1>1, <2>1 DEF HitInv, OneArmPerRow
  <2>. QED
    BY <1>0, <2>2, <2>3, <2>4 DEF HitInv
<1>2. CASE Parse
  <2>1. phase' = "parsed" /\ \A r \in Row : hits'[r] = {}
    BY <1>2 DEF Parse, CallInv
  <2>2. HitsRun' /\ HitsHold' /\ OneArmPerRow'
    BY <2>1 DEF HitsRun, HitsHold, OneArmPerRow
  <2>3. Stable(call.body) => TestedStand'
    BY <1>0, <1>2 DEF Parse, HitInv, TestedStand
  <2>. QED
    BY <1>0, <2>2, <2>3 DEF HitInv
<1>3. CASE RunPredicate \/ Refuse \/ Start \/ ColumnsDone \/ ApplyRelations \/ Commit \/ UNCHANGED vars
  BY <1>1, <1>3 DEF RunPredicate, Refuse, Start, ColumnsDone, ApplyRelations, Commit, vars
<1>4. CASE Fail
  <2>1. phase' = "failed" /\ (\A r \in Row : hits'[r] = {}) /\ table' = saved /\ saved' = saved /\ foreign' = foreign
    BY <1>4 DEF Fail
  <2>2. HitsRun' /\ HitsHold' /\ OneArmPerRow'
    BY <2>1 DEF HitsRun, HitsHold, OneArmPerRow
  <2>3. Stable(call.body) => TestedStand'
    BY <1>0, <2>1 DEF HitInv, TestedStand
  <2>. QED
    BY <1>0, <2>2, <2>3 DEF HitInv
<1>5. CASE RunUpdate \/ RunInsert
  <2>. DEFINE n == next + 1
              R == RowsOf(Updates[n])
  <2>1. /\ phase = "columns" /\ next < Len(Updates) /\ Hit(n, R) /\ next' = n /\ phase' = phase
        /\ saved' = saved /\ foreign' = foreign /\ branches' = branches
    BY <1>5 DEF RunUpdate, RunInsert
  <2>2. n \in DOMAIN Updates /\ Updates' = Updates
    BY <1>0, <1>same, <2>1
  <2>3. \A r \in Row : hits'[r] = IF r \in R THEN hits[r] \cup {n} ELSE hits[r]
    BY <2>1 DEF Hit
  <2>4. HitsRun'
    <3>1. ASSUME NEW r \in Row, NEW i \in hits'[r] PROVE i <= next'
      <4>1. CASE i \in hits[r]
        <5>1. i <= next /\ i \in Nat
          BY <1>0, <2>1, <4>1 DEF HitInv, HitsRun
        <5>. QED
          BY <1>0, <2>1, <5>1
      <4>2. CASE i = n
        BY <1>0, <2>1, <4>2
      <4>. QED
        BY <2>3, <3>1, <4>1, <4>2
    <3>. QED
      BY <3>1 DEF HitsRun
  <2>5. OneArmPerRow'
    BY <1>0, <2>1, HitStep
  <2>6. ASSUME Stable(call.body), NEW r \in Row
        PROVE  \A k \in Tested(call.body) \cap Col : table'[r][k] = table[r][k]
    <3>1. CASE RunInsert
      BY <3>1 DEF RunInsert
    <3>2. CASE RunUpdate
      <4>1. table'[r] = IF r \in R THEN Assign(table[r], Updates[n].set) ELSE table[r]
        BY <3>2 DEF RunUpdate
      <4>2. Updates[n] \in Range(parseBody(call.body)) /\ Updates[n].set # {} /\ Updates[n].set \in Sets
        BY <2>2, UpdateIs DEF BranchType
      <4>3. \A k \in Tested(call.body) \cap Col : Assign(table[r], Updates[n].set)[k] = table[r][k]
        BY <1>0, <2>6, <4>2, StableKeeps
      <4>. QED
        BY <4>1, <4>3
    <3>. QED
      BY <1>5, <3>1, <3>2
  <2>7. ASSUME Stable(call.body), NEW r \in Row, NEW i \in DOMAIN Updates, Holds(Updates[i].cond, table[r])
        PROVE  Holds(Updates[i].cond, table'[r])
    <3>1. \A k \in Reads(Updates[i].cond) : table[r][k] = table'[r][k]
      BY <2>6, <2>7, UpdateReads
    <3>. QED
      BY <2>7, <3>1, SameHolds
  <2>8. Stable(call.body) => TestedStand'
    BY <1>0, <2>1, <2>6 DEF HitInv, TestedStand
  <2>9. ASSUME Stable(call.body), NEW r \in Row, NEW i \in hits'[r], call.kind = "update" \/ r \notin foreign
        PROVE  Holds(Updates[i].cond, table'[r])
    <3>1. CASE i \in hits[r]
      BY <1>0, <2>7, <2>9, <3>1 DEF HitInv, HitsHold
    <3>2. CASE i = n /\ r \in R
      BY <2>2, <2>7, <2>9, <3>2 DEF RowsOf
    <3>. QED
      BY <2>3, <2>9, <3>1, <3>2
  <2>. QED
    BY <1>0, <2>1, <2>2, <2>4, <2>5, <2>8, <2>9 DEF HitInv, HitsHold
<1>6. ASSUME NEW r \in Row, NEW c \in Col, NEW v \in Val \cup {Null}, OtherWrites(r, c, v)
      PROVE  HitInv'
  <2>1. /\ UNCHANGED <<branches, phase, next, hits>> /\ foreign' = foreign \cup {r} /\ Updates' = Updates
        /\ \A q \in Row \ {r} : table'[q] = table[q] /\ saved'[q] = saved[q]
        /\ call.kind = "update" => hits[r] = {}
    BY <1>0, <1>6, <1>same, Overwritten DEF OtherWrites, Locked
  <2>2. HitsRun'
    BY <2>1 DEF HitInv, HitsRun
  <2>3. Stable(call.body) => TestedStand' /\ HitsHold'
    BY <1>0, <2>1 DEF HitInv, TestedStand, HitsHold
  <2>4. OneArmPerRow'
    BY <1>0, <2>1 DEF HitInv, OneArmPerRow
  <2>. QED
    BY <1>0, <2>2, <2>3, <2>4 DEF HitInv
<1>. QED
  BY <1>2, <1>3, <1>4, <1>5, <1>6 DEF Next

\* No row has been hit when the call begins.
LEMMA HitsStart ==
  ASSUME Init
  PROVE  HitInv
<1>1. \A r \in Row : hits[r] = {} /\ table[r] = r /\ saved[r] = r
  BY DEF Init
<1>2. phase # "columns"
  BY DEF Init
<1>. QED
  BY <1>1, <1>2 DEF HitInv, HitsRun, TestedStand, HitsHold, OneArmPerRow

\* No row is changed by two arms of one chain, and none is copied by two unless another
\* session wrote it, for stable bodies: an arm's negation of those before it holds
\* against every write a call and other sessions make between the statements.
THEOREM OneArm == Spec => []OneArmPerRow
<1>1. Init => CallInv /\ HitInv
  BY CallStarts, HitsStart
<1>2. CallInv /\ HitInv /\ [Next]_vars => CallInv' /\ HitInv'
  BY CallStep, HitsStep
<1>3. HitInv => OneArmPerRow
  BY DEF HitInv
<1>. QED
  BY <1>1, <1>2, <1>3, PTL DEF Spec

\* A row that nobody else wrote and whose tested columns are all NULL is in no arm of a
\* chain and not in its else either, for stable bodies.
LEMMA HitsTell ==
  ASSUME CallInv, HitInv
  PROVE  NullNeverGuessed
<1>1. SUFFICES ASSUME NEW r \in Row \ foreign, NEW n \in hits[r], Updates[n].at # 0,
                      call.body[Updates[n].at].arms # <<>>, Stable(call.body)
               PROVE  \E a \in UNION Tests(call.body[Updates[n].at].arms) : r[a[1]] # Null
  BY DEF NullNeverGuessed
<1>. DEFINE b == Updates[n]
            i == b.at
            stmt == call.body[i]
            arms == stmt.arms
<1>2. /\ n \in DOMAIN Updates /\ b \in BranchType /\ b \in Range(parseBody(call.body)) /\ b.set # {}
      /\ call.body \in BodyType
  <2>1. n \in DOMAIN Updates
    BY DEF CallInv, TypeOK
  <2>. QED
    BY <2>1, UpdateIs, CallCompiles
<1>3. Holds(b.cond, table[r])
  BY <1>1 DEF HitInv, HitsHold
<1>4. \A k \in Tested(call.body) \cap Col : table[r][k] = r[k]
  BY <1>1 DEF HitInv, TestedStand
<1>5. Reads(b.cond) \subseteq Tested(call.body) \cap Col
  BY <1>2, UpdateReads
<1>6. Holds(b.cond, r)
  BY <1>3, <1>4, <1>5, SameHolds
<1>7. i \in Statements(call.body, "arms") /\ (IsArm(b, stmt, i) \/ IsElse(b, stmt, i))
  <2>. HIDE DEF b
  <2>. QED
    BY <1>1, <1>2, WritersAre DEF b
<1>8. stmt \in StatementType /\ stmt.op = "arms"
  BY <1>2, <1>7, BodyTyped DEF Statements
<1>9. arms \in Seq(ArmType) /\ Len(arms) \in Nat \ {0} /\ \A k \in 1..Len(arms) : arms[k] \in ArmType
  BY <1>1, <1>8, ArmsTyped, EmptySeq
<1>. HIDE DEF b
<1>10. CASE IsArm(b, stmt, i)
  <2>1. PICK k \in 1..Len(arms) : b.cond = ArmCondition(arms, k)
    BY <1>10 DEF IsArm, branchFromBlock
  <2>2. IsTrue(arms[k].test, r)
    BY <1>6, <2>1 DEF Holds, ArmCondition, exclusiveCondition
  <2>3. PICK a \in arms[k].test : r[a[1]] = a[2]
    BY <2>2 DEF IsTrue
  <2>4. a[2] \in Val
    BY <1>9 DEF ArmType, Test
  <2>5. a \in UNION Tests(arms)
    BY DEF Tests
  <2>. QED
    BY <2>3, <2>4, <2>5, NullAssumption DEF b
<1>11. CASE IsElse(b, stmt, i)
  <2>1. b.cond = ElseCondition(arms)
    BY <1>11 DEF IsElse, branchFromBlock
  <2>2. 1 \in 1..Len(arms)
    BY <1>9
  <2>3. IsFalse(arms[1].test, r)
    BY <1>6, <2>1, <2>2 DEF Holds, ElseCondition, exclusiveCondition, Tests
  <2>4. PICK a \in arms[1].test : TRUE
    BY <1>9, <2>2 DEF ArmType
  <2>5. r[a[1]] # Null
    BY <2>3 DEF IsFalse
  <2>6. a \in UNION Tests(arms)
    BY <2>2 DEF Tests
  <2>. QED
    BY <2>5, <2>6 DEF b
<1>. QED
  BY <1>7, <1>10, <1>11

\* NULL rows fall out of a chain whatever the call, its body and the other sessions:
\* docs/lambdas.md's promise that a call never guesses.
THEOREM NullsFallOut == Spec => []NullNeverGuessed
<1>1. Init => CallInv /\ HitInv
  BY CallStarts, HitsStart
<1>2. CallInv /\ HitInv /\ [Next]_vars => CallInv' /\ HitInv'
  BY CallStep, HitsStep
<1>3. CallInv /\ HitInv => NullNeverGuessed
  BY HitsTell
<1>. QED
  BY <1>1, <1>2, <1>3, PTL DEF Spec

-----------------------------------------------------------------------------
(* What Go does with a body.                                               *)

\* The runs of the first k statements.
GoRuns(after, body, row, k) ==
  after = [j \in 0..k |-> IF j = 0 THEN GoStart(row) ELSE GoStatement(after[j - 1], body[j])]

\* Go runs the statements one after the other.
LEMMA GoSteps ==
  ASSUME NEW body, Len(body) \in Nat, NEW row
  PROVE  \E after : /\ GoRun(body, row) = after[Len(body)] /\ after[0] = GoStart(row)
                    /\ \A k \in 1..Len(body) : after[k] = GoStatement(after[k - 1], body[k])
<1>. DEFINE S == {k \in Nat : \E f : GoRuns(f, body, row, k)}
<1>1. 0 \in S
  <2>. DEFINE f == [j \in 0..0 |-> GoStart(row)]
  <2>1. \A j \in 0..0 : j = 0
    OBVIOUS
  <2>2. f = [j \in 0..0 |-> IF j = 0 THEN GoStart(row) ELSE GoStatement(f[j - 1], body[j])]
    BY <2>1
  <2>. QED
    BY <2>2 DEF GoRuns
<1>2. ASSUME NEW k \in Nat, k \in S PROVE k + 1 \in S
  <2>1. PICK f : GoRuns(f, body, row, k)
    BY <1>2
  <2>. DEFINE Step(h, j) == IF j = 0 THEN GoStart(row) ELSE GoStatement(h[j - 1], body[j])
              g == [j \in 0..(k + 1) |-> IF j = k + 1 THEN GoStatement(f[k], body[k + 1]) ELSE f[j]]
  <2>2. f = [j \in 0..k |-> Step(f, j)]
    BY <2>1 DEF GoRuns
  <2>3. ASSUME NEW j \in 0..k PROVE g[j] = f[j] /\ f[j] = Step(f, j)
    <3>1. j \in 0..(k + 1) /\ j # k + 1
      OBVIOUS
    <3>2. g[j] = f[j]
      BY <3>1
    <3>. HIDE DEF Step, g
    <3>. QED
      BY <2>2, <3>2
  <2>4. ASSUME NEW j \in 0..k PROVE g[j] = Step(g, j)
    <3>1. j # 0 => j - 1 \in 0..k
      OBVIOUS
    <3>2. j # 0 => g[j - 1] = f[j - 1]
      BY <2>3, <3>1
    <3>3. g[j] = f[j] /\ f[j] = Step(f, j)
      BY <2>3
    <3>. HIDE DEF g
    <3>. QED
      BY <3>2, <3>3
  <2>5. g[k + 1] = Step(g, k + 1)
    <3>1. g[k + 1] = GoStatement(f[k], body[k + 1]) /\ k + 1 # 0 /\ k + 1 - 1 = k /\ k \in 0..k
      OBVIOUS
    <3>2. g[k + 1 - 1] = f[k]
      BY <2>3, <3>1
    <3>. HIDE DEF g
    <3>. QED
      BY <3>1, <3>2
  <2>6. \A j \in 0..(k + 1) : j \in 0..k \/ j = k + 1
    OBVIOUS
  <2>7. g = [j \in 0..(k + 1) |-> g[j]]
    OBVIOUS
  <2>8. GoRuns(g, body, row, k + 1)
    <3>. HIDE DEF g, Step
    <3>1. \A j \in 0..(k + 1) : g[j] = Step(g, j)
      BY <2>4, <2>5, <2>6
    <3>2. g = [j \in 0..(k + 1) |-> Step(g, j)]
      BY <2>7, <3>1
    <3>. QED
      BY <3>2 DEF GoRuns, Step
  <2>. HIDE DEF g
  <2>. QED
    BY <2>8
<1>3. \E f : GoRuns(f, body, row, Len(body))
  <2>1. Nat \subseteq S
    <3>. HIDE DEF S
    <3>. QED
      BY <1>1, <1>2, Induction
  <2>. QED
    BY <2>1
<1>. DEFINE f == CHOOSE f : GoRuns(f, body, row, Len(body))
<1>4. GoRuns(f, body, row, Len(body))
  BY <1>3
<1>5. GoRun(body, row) = f[Len(body)]
  BY DEF GoRun, GoRuns
<1>. HIDE DEF f
<1>6. f[0] = GoStart(row)
  BY <1>4 DEF GoRuns
<1>7. \A k \in 1..Len(body) : f[k] = GoStatement(f[k - 1], body[k])
  BY <1>4 DEF GoRuns
<1>. QED
  BY <1>5, <1>6, <1>7

\* Of a row without NULL, a test is true or false.
LEMMA NotNull ==
  ASSUME NEW row \in Row, NoNull(row), NEW test \in Test
  PROVE  /\ \A a \in test : row[a[1]] # Null
         /\ IsFalse(test, row) <=> ~IsTrue(test, row)
<1>1. \A a \in test : row[a[1]] # Null
  BY DEF NoNull, Range, Row, Test
<1>. QED
  BY <1>1, TwoValued, NotBoth

\* Go enters one arm at most, and the branches of a chain select exactly the rows for
\* which the block Go runs returns true.
LEMMA ChainSelects ==
  ASSUME NEW stmt \in StatementType, stmt.op = "arms", NEW at \in Nat, NEW s,
         s.row \in Row, NoNull(s.row), s.ret = "none"
  PROVE  GoChain(s, stmt).ret = "true" <=>
           \E b \in Range(ChainBranches(stmt, at)) : b.selects /\ Holds(b.cond, s.row)
<1>. DEFINE arms == stmt.arms
            row == s.row
            entered == Entered(arms, row)
<1>1. /\ arms \in Seq(ArmType) /\ Len(arms) \in Nat /\ Len(stmt.other) \in Nat /\ Len(stmt.other) <= 1
      /\ \A k \in 1..Len(arms) : arms[k].test \in Test
      /\ stmt.other \in Seq(BlockType)
  BY ArmsTyped DEF ArmType
<1>2. /\ \A k \in 1..Len(arms) : Holds(ArmCondition(arms, k), row) <=> k \in entered
      /\ Holds(ElseCondition(arms), row) <=> \A k \in 1..Len(arms) : ~IsTrue(arms[k].test, row)
  <2>1. \A k \in 1..Len(arms) : \A a \in arms[k].test : row[a[1]] # Null
    BY <1>1, NotNull
  <2>. HIDE DEF arms, row
  <2>. QED
    BY <1>1, <2>1, ChainFollowsGo
<1>3. (\A k \in 1..Len(arms) : ~IsTrue(arms[k].test, row)) <=> entered = {}
  <2>1. ASSUME entered = {}, NEW m \in 1..Len(arms), IsTrue(arms[m].test, row) PROVE FALSE
    <3>. DEFINE T == {k \in 1..Len(arms) : IsTrue(arms[k].test, row)}
    <3>1. T \subseteq Nat /\ T # {}
      BY <1>1, <2>1
    <3>2. PICK k \in T : \A j \in T : k <= j
      <4>. HIDE DEF T
      <4>. QED
        BY <3>1, Least
    <3>3. k \in entered
      BY <1>1, <3>2 DEF Entered
    <3>. QED
      BY <2>1, <3>3
  <2>. QED
    BY <2>1 DEF Entered
<1>4. \A b : b \in Range(ChainBranches(stmt, at)) <=>
              Observable(b) /\ (IsArm(b, stmt, at) \/ IsElse(b, stmt, at))
  BY ChainCompiles
<1>5. CASE entered # {}
  <2>. DEFINE i == CHOOSE i \in entered : TRUE
  <2>1. i \in entered
    BY <1>5
  <2>2. GoChain(s, stmt) = GoBlock(s, arms[i])
    BY <1>5 DEF GoChain
  <2>. HIDE DEF i
  <2>3. i \in 1..Len(arms) /\ \A k \in entered : k = i
    BY <1>1, <2>1 DEF Entered
  <2>4. GoChain(s, stmt).ret = arms[i].ret
    BY <2>2 DEF GoBlock
  <2>. DEFINE c == branchFromBlock(arms[i], ArmCondition(arms, i), at)
  <2>5. /\ c.selects <=> arms[i].ret = "true"
        /\ c.cond = ArmCondition(arms, i) /\ IsArm(c, stmt, at)
    BY <2>3 DEF branchFromBlock, IsArm
  <2>6. ASSUME arms[i].ret = "true"
        PROVE  \E b \in Range(ChainBranches(stmt, at)) : b.selects /\ Holds(b.cond, row)
    <3>. HIDE DEF c
    <3>1. c \in Range(ChainBranches(stmt, at)) /\ c.selects /\ Holds(c.cond, row)
      BY <1>2, <1>4, <2>1, <2>3, <2>5, <2>6 DEF Observable
    <3>. QED
      BY <3>1
  <2>7. ASSUME NEW b \in Range(ChainBranches(stmt, at)), b.selects, Holds(b.cond, row)
        PROVE  arms[i].ret = "true"
    <3>1. ~IsElse(b, stmt, at)
      BY <1>2, <1>3, <1>5, <2>7 DEF IsElse, branchFromBlock
    <3>2. PICK k \in 1..Len(arms) : b = branchFromBlock(arms[k], ArmCondition(arms, k), at)
      BY <1>4, <3>1 DEF IsArm
    <3>3. k = i
      BY <1>2, <2>3, <2>7, <3>2 DEF branchFromBlock
    <3>. QED
      BY <2>7, <3>2, <3>3 DEF branchFromBlock
  <2>. QED
    BY <2>4, <2>6, <2>7
<1>6. CASE entered = {} /\ stmt.other # <<>>
  <2>1. Len(stmt.other) = 1 /\ 1 \in 1..Len(stmt.other)
    <3>1. Len(stmt.other) \in Nat \ {0}
      BY <1>1, <1>6, EmptySeq
    <3>2. \A n \in Nat \ {0} : n <= 1 => n = 1 /\ 1 \in 1..n
      OBVIOUS
    <3>. QED
      BY <1>1, <3>1, <3>2
  <2>2. GoChain(s, stmt).ret = stmt.other[1].ret
    BY <1>6 DEF GoChain, GoBlock
  <2>. DEFINE c == branchFromBlock(stmt.other[1], ElseCondition(arms), at)
  <2>3. /\ c.selects <=> stmt.other[1].ret = "true"
        /\ c.cond = ElseCondition(arms) /\ IsElse(c, stmt, at)
    <3>1. IsElse(c, stmt, at)
      BY <2>1, Zenon DEF IsElse
    <3>. QED
      BY <3>1 DEF branchFromBlock
  <2>4. ASSUME stmt.other[1].ret = "true"
        PROVE  \E b \in Range(ChainBranches(stmt, at)) : b.selects /\ Holds(b.cond, row)
    <3>. HIDE DEF c
    <3>1. c \in Range(ChainBranches(stmt, at)) /\ c.selects /\ Holds(c.cond, row)
      BY <1>2, <1>3, <1>4, <1>6, <2>3, <2>4 DEF Observable
    <3>. QED
      BY <3>1
  <2>5. ASSUME NEW b \in Range(ChainBranches(stmt, at)), b.selects, Holds(b.cond, row)
        PROVE  stmt.other[1].ret = "true"
    <3>1. ~IsArm(b, stmt, at)
      BY <1>2, <1>6, <2>5 DEF IsArm, branchFromBlock
    <3>2. PICK k \in 1..Len(stmt.other) : b = branchFromBlock(stmt.other[k], ElseCondition(arms), at)
      BY <1>4, <3>1 DEF IsElse
    <3>3. k = 1
      BY <2>1, <3>2
    <3>. QED
      BY <2>5, <3>2, <3>3 DEF branchFromBlock
  <2>. QED
    BY <2>2, <2>4, <2>5
<1>7. CASE entered = {} /\ stmt.other = <<>>
  <2>1. GoChain(s, stmt).ret = "none"
    BY <1>7 DEF GoChain
  <2>2. \A b : ~IsElse(b, stmt, at)
    BY <1>7, EmptySeq DEF IsElse
  <2>3. \A b : IsArm(b, stmt, at) => ~Holds(b.cond, row)
    BY <1>2, <1>7 DEF IsArm, branchFromBlock
  <2>. QED
    BY <1>4, <2>1, <2>2, <2>3
<1>. QED
  BY <1>5, <1>6, <1>7

\* The conditions of the WHERE clause hold when that of a selecting branch does.
LEMMA Selects ==
  ASSUME NEW body \in BodyType, NEW row, \E b \in Range(parseBody(body)) : b.selects
  PROVE  (\E cond \in SelectCondition(parseBody(body)) : Holds(cond, row)) <=>
           \E b \in Range(parseBody(body)) : b.selects /\ Holds(b.cond, row)
<1>. DEFINE bs == parseBody(body)
            roots == SelectingConditions(bs)
<1>1. roots = {b.cond : b \in {c \in Range(bs) : c.selects}}
  BY DEF SelectingConditions, Range
<1>2. roots # {}
  BY <1>1
<1>3. Holds(Nil, row)
  BY DEF Holds, Nil, exclusiveCondition
<1>4. SelectCondition(bs) = IF roots = {} \/ Nil \in roots THEN {Nil} ELSE roots
  BY DEF SelectCondition
<1>. HIDE DEF roots
<1>5. (\E cond \in SelectCondition(bs) : Holds(cond, row)) <=> \E cond \in roots : Holds(cond, row)
  BY <1>2, <1>3, <1>4
<1>. QED
  BY <1>1, <1>5

\* The blocks of a chain.
LEMMA BlocksAre ==
  ASSUME NEW stmt, NEW X, stmt.arms \in Seq(X), stmt.other \in Seq(X)
  PROVE  BlocksOf(stmt) = Range(stmt.arms) \cup Range(stmt.other)
<1>. DEFINE u == stmt.arms
            v == stmt.other
<1>1. BlocksOf(stmt) = Range(u \o v)
  BY DEF BlocksOf
<1>2. u \in Seq(X) /\ v \in Seq(X)
  OBVIOUS
<1>. HIDE DEF u, v
<1>3. Range(u \o v) = Range(u) \cup Range(v)
  BY <1>2, RangeConcatenation
<1>. QED
  BY <1>1, <1>3 DEF u, v

\* A chain that no row enters, and without an else, leaves everything as it was; one
\* whose blocks all return and that is entered returns.
LEMMA ChainReturns ==
  ASSUME NEW stmt \in StatementType, stmt.op = "arms", NEW s, s.ret = "none",
         \A b \in BlocksOf(stmt) : b.ret \in {"true", "false"}, stmt.other = <<>>
  PROVE  \/ GoChain(s, stmt) = s /\ Entered(stmt.arms, s.row) = {}
         \/ GoChain(s, stmt).ret \in {"true", "false"} /\ Entered(stmt.arms, s.row) # {}
<1>. DEFINE entered == Entered(stmt.arms, s.row)
            i == CHOOSE i \in entered : TRUE
<1>1. CASE entered = {}
  BY <1>1 DEF GoChain
<1>2. CASE entered # {}
  <2>1. i \in 1..Len(stmt.arms)
    BY <1>2 DEF Entered
  <2>2. GoChain(s, stmt) = GoBlock(s, stmt.arms[i])
    BY <1>2 DEF GoChain
  <2>. HIDE DEF i
  <2>3. stmt.arms[i] \in BlocksOf(stmt)
    <3>1. stmt.arms \in Seq(ArmType \cup BlockType) /\ stmt.other \in Seq(ArmType \cup BlockType)
      BY ArmsTyped, SeqMonotonic
    <3>2. BlocksOf(stmt) = Range(stmt.arms) \cup Range(stmt.other)
      BY <3>1, BlocksAre
    <3>3. DOMAIN stmt.arms = 1..Len(stmt.arms)
      BY <3>1, LenProperties
    <3>. QED
      BY <2>1, <3>2, <3>3 DEF Range
  <2>. QED
    BY <1>2, <2>2, <2>3 DEF GoBlock
<1>. QED
  BY <1>1, <1>2

\* An entered arm has a true test, and without one none is true.
LEMMA EnteredIs ==
  ASSUME NEW arms, Len(arms) \in Nat, NEW row
  PROVE  Entered(arms, row) = {} <=> \A k \in 1..Len(arms) : ~IsTrue(arms[k].test, row)
<1>1. ASSUME Entered(arms, row) = {}, NEW m \in 1..Len(arms), IsTrue(arms[m].test, row) PROVE FALSE
  <2>. DEFINE T == {k \in 1..Len(arms) : IsTrue(arms[k].test, row)}
  <2>1. T \subseteq Nat /\ T # {}
    BY <1>1
  <2>2. PICK k \in T : \A j \in T : k <= j
    <3>. HIDE DEF T
    <3>. QED
      BY <2>1, Least
  <2>3. k \in Entered(arms, row)
    BY <2>2 DEF Entered
  <2>. QED
    BY <1>1, <2>3
<1>. QED
  BY <1>1 DEF Entered

\* A faithful predicate selects a row without NULL when Go returns true for it.
LEMMA PredicateSelects ==
  ASSUME NEW body \in BodyType, FaithfulPredicate(body), NEW row \in Row, NoNull(row)
  PROVE  (\E cond \in SelectCondition(parseBody(body)) : Holds(cond, row)) <=> GoRun(body, row).ret = "true"
<1>. DEFINE n == Len(body)
            start == GoStart(row)
            Chosen(at) == \E b \in Range(StatementBranches(body, at)) : b.selects /\ Holds(b.cond, row)
            Enters(at) == Entered(body[at].arms, row) # {}
<1>1. n \in Nat \ {0} /\ DOMAIN body = 1..n /\ \A i \in 1..n : body[i] \in StatementType
  BY BodyTyped, EmptySeq DEF FaithfulPredicate, BodyType
<1>2. start.row = row /\ start.ret = "none"
  BY DEF GoStart
<1>3. PICK after : /\ GoRun(body, row) = after[n] /\ after[0] = start
                   /\ \A k \in 1..n : after[k] = GoStatement(after[k - 1], body[k])
  BY <1>1, GoSteps
<1>. HIDE DEF start, n
<1>4. ASSUME NEW i \in 1..n, body[i].op = "arms"
      PROVE  /\ i \in Statements(body, "arms") /\ i \in Arms(body)
             /\ \A b \in BlocksOf(body[i]) : b.ret \in {"true", "false"}
             /\ i # n => body[i].other = <<>>
             /\ Len(body[i].arms) \in Nat
             /\ Chosen(i) <=> GoChain(start, body[i]).ret = "true"
  <2>1. i \in Statements(body, "arms") /\ i \in Arms(body) /\ i \in Nat
    BY <1>1, <1>4 DEF Statements, Arms
  <2>2. StatementBranches(body, i) = ChainBranches(body[i], i)
    BY <1>4 DEF StatementBranches
  <2>3. Chosen(i) <=> GoChain(start, body[i]).ret = "true"
    BY <1>1, <1>2, <1>4, <2>1, <2>2, ChainSelects
  <2>4. Len(body[i].arms) \in Nat
    BY <1>1, <1>4, ArmsTyped
  <2>. QED
    BY <2>1, <2>3, <2>4 DEF FaithfulPredicate, n
<1>5. \A i \in 1..n : i # n => body[i].op = "arms"
  BY <1>1 DEF FaithfulPredicate, n
<1>6. /\ body[n].op # "assign" /\ n \in 1..n
      /\ Statements(body, "assign") = {}
  <2>1. n \in 1..n
    BY <1>1
  <2>2. \A i \in 1..n : body[i].op # "arms" => body[i].op # "assign"
    BY <1>1 DEF FaithfulPredicate
  <2>3. \A i \in 1..n : body[i].op # "assign"
    BY <2>2
  <2>. QED
    BY <1>1, <2>1, <2>3 DEF Statements
\* What the branches select.
<1>7. (\E b \in Range(parseBody(body)) : b.selects /\ Holds(b.cond, row)) <=> \E at \in 1..n : Chosen(at)
  <2>1. ~LastBranch(body).selects
    BY TopTyped DEF LastBranch, branchFromBlock
  <2>. QED
    BY <1>1, <2>1, BodyCompiles
<1>8. \E b \in Range(parseBody(body)) : b.selects
  <2>1. \A own : ReturnBranch(own, body, n).selects
    BY DEF ReturnBranch, branchFromBlock
  <2>2. CASE body[n].op \in {"accept", "return"}
    <3>1. \E b \in Range(StatementBranches(body, n)) : b.selects
      BY <1>1, <1>6, <2>1, <2>2, StatementCompiles
    <3>. QED
      BY <1>1, <1>6, <3>1, BodyCompiles
  <2>3. ASSUME NEW i \in Arms(body), NEW block \in BlocksOf(body[i]), block.ret = "true"
        PROVE  \E b \in Range(StatementBranches(body, i)) : b.selects
    <3>. DEFINE stmt == body[i]
    <3>1. i \in 1..n /\ stmt.op = "arms" /\ stmt \in StatementType
      BY <1>1 DEF Arms, Statements
    <3>2. /\ stmt.arms \in Seq(ArmType \cup BlockType) /\ stmt.other \in Seq(ArmType \cup BlockType)
      BY <3>1, ArmsTyped, SeqMonotonic
    <3>3. /\ DOMAIN stmt.arms = 1..Len(stmt.arms) /\ DOMAIN stmt.other = 1..Len(stmt.other)
      BY <3>2, LenProperties
    <3>4. BlocksOf(stmt) = Range(stmt.arms) \cup Range(stmt.other)
      BY <3>2, BlocksAre
    <3>5. \A b : Observable(b) /\ (IsArm(b, stmt, i) \/ IsElse(b, stmt, i)) => b \in Range(StatementBranches(body, i))
      BY <1>1, <3>1, StatementCompiles
    <3>6. \A cond : /\ branchFromBlock(block, cond, i).selects
                    /\ Observable(branchFromBlock(block, cond, i))
      BY <2>3 DEF branchFromBlock, Observable
    <3>7. CASE block \in Range(stmt.arms)
      <4>1. PICK k \in 1..Len(stmt.arms) : block = stmt.arms[k]
        BY <3>3, <3>7 DEF Range
      <4>2. IsArm(branchFromBlock(block, ArmCondition(stmt.arms, k), i), stmt, i)
        BY <4>1 DEF IsArm
      <4>. QED
        BY <3>5, <3>6, <4>2
    <3>8. CASE block \in Range(stmt.other)
      <4>1. PICK k \in 1..Len(stmt.other) : block = stmt.other[k]
        BY <3>3, <3>8 DEF Range
      <4>2. IsElse(branchFromBlock(block, ElseCondition(stmt.arms), i), stmt, i)
        BY <4>1 DEF IsElse
      <4>. QED
        BY <3>5, <3>6, <4>2
    <3>. QED
      BY <2>3, <3>4, <3>7, <3>8
  <2>4. Arms(body) \subseteq DOMAIN body
    BY DEF Arms, Statements
  <2>. QED
    BY <2>2, <2>3, <2>4, BodyCompiles DEF FaithfulPredicate, n
\* What Go does: the first chain that is entered decides.
<1>9. ASSUME NEW i \in 1..n, NEW k \in i..n, after[i].ret # "none" PROVE after[k] = after[i]
  <2>. DEFINE S == {m \in Nat : i + m <= n => after[i + m] = after[i]}
  <2>1. 0 \in S
    BY <1>1
  <2>2. ASSUME NEW m \in Nat, m \in S PROVE m + 1 \in S
    <3>1. SUFFICES ASSUME i + (m + 1) <= n PROVE after[i + (m + 1)] = after[i]
      OBVIOUS
    <3>. DEFINE j == i + (m + 1)
    <3>2. j \in 1..n /\ j - 1 = i + m /\ i + m <= n
      BY <1>1, <3>1
    <3>3. after[j - 1] = after[i]
      BY <2>2, <3>2
    <3>. HIDE DEF j
    <3>4. after[j] = GoStatement(after[i], body[j])
      BY <1>3, <3>2, <3>3
    <3>5. after[j] = after[i]
      BY <1>9, <3>4 DEF GoStatement
    <3>. QED
      BY <3>5 DEF j
  <2>3. Nat \subseteq S
    <3>. HIDE DEF S
    <3>. QED
      BY <2>1, <2>2, Induction
  <2>4. k - i \in Nat /\ i + (k - i) = k /\ k <= n
    BY <1>1
  <2>. QED
    BY <2>3, <2>4
<1>10. ASSUME NEW k \in 0..(n - 1), \A i \in 1..k : ~Enters(i) PROVE after[k] = start
  <2>. DEFINE S == {m \in Nat : m <= k => after[m] = start}
  <2>1. 0 \in S
    BY <1>3
  <2>2. ASSUME NEW m \in Nat, m \in S PROVE m + 1 \in S
    <3>1. SUFFICES ASSUME m + 1 <= k PROVE after[m + 1] = start
      OBVIOUS
    <3>. DEFINE j == m + 1
    <3>2. j \in 1..n /\ j # n /\ j - 1 = m /\ m <= k /\ j \in 1..k
      BY <1>1, <3>1
    <3>3. after[j - 1] = start
      BY <2>2, <3>2
    <3>. HIDE DEF j
    <3>4. body[j].op = "arms" /\ body[j].other = <<>>
      BY <1>4, <1>5, <3>2
    <3>5. after[j] = GoChain(start, body[j])
      BY <1>2, <1>3, <3>2, <3>3, <3>4 DEF GoStatement
    <3>6. ~Enters(j)
      BY <1>10, <3>2
    <3>7. after[j] = start
      BY <1>2, <3>4, <3>5, <3>6 DEF GoChain
    <3>. QED
      BY <3>7 DEF j
  <2>3. Nat \subseteq S
    <3>. HIDE DEF S
    <3>. QED
      BY <2>1, <2>2, Induction
  <2>4. k \in Nat /\ k <= k
    BY <1>1
  <2>. QED
    BY <2>3, <2>4
<1>11. ASSUME NEW i \in 1..n, i # n, ~Enters(i) PROVE ~Chosen(i)
  <2>1. body[i].op = "arms" /\ body[i].other = <<>>
    BY <1>4, <1>5, <1>11
  <2>2. GoChain(start, body[i]) = start
    BY <1>2, <1>11, <2>1 DEF GoChain
  <2>. QED
    BY <1>2, <1>4, <2>1, <2>2
<1>12. ASSUME NEW i \in 1..n, i # n, Enters(i), \A j \in 1..(i - 1) : ~Enters(j)
       PROVE  (\E at \in 1..n : Chosen(at)) <=> GoRun(body, row).ret = "true"
  <2>1. body[i].op = "arms" /\ body[i].other = <<>> /\ i - 1 \in 0..(n - 1) /\ i <= n
    BY <1>1, <1>4, <1>5, <1>12
  <2>2. after[i - 1] = start
    BY <1>10, <1>12, <2>1
  <2>3. after[i] = GoChain(start, body[i])
    BY <1>2, <1>3, <2>1, <2>2 DEF GoStatement
  <2>4. after[i].ret \in {"true", "false"}
    BY <1>1, <1>2, <1>4, <1>12, <2>1, <2>3, ChainReturns
  <2>5. GoRun(body, row) = after[i]
    <3>1. n \in i..n /\ after[i].ret # "none"
      BY <1>1, <2>4
    <3>. QED
      BY <1>3, <1>9, <3>1
  <2>6. CASE after[i].ret = "true"
    BY <1>4, <2>1, <2>3, <2>5, <2>6
  <2>7. ASSUME after[i].ret = "false", NEW at \in 1..n, Chosen(at) PROVE FALSE
    <3>1. at # i
      BY <1>4, <2>1, <2>3, <2>7
    <3>2. at > i
      <4>1. SUFFICES ASSUME at < i PROVE FALSE
        BY <1>1, <3>1
      <4>2. at \in 1..(i - 1) /\ at # n
        BY <1>1, <2>1, <4>1
      <4>. QED
        BY <1>11, <1>12, <2>7, <4>2
    <3>3. ~Chosen(i)
      BY <1>4, <2>1, <2>3, <2>7
    <3>. DEFINE entry == CHOOSE k \in Entered(body[i].arms, row) : TRUE
    <3>4. PICK k \in 1..Len(body[i].arms) : IsTrue(body[i].arms[k].test, row)
      BY <1>12 DEF Entered
    <3>5. GoChain(start, body[i]) = GoBlock(start, body[i].arms[entry]) /\ entry \in 1..Len(body[i].arms)
      BY <1>2, <1>12 DEF GoChain, Entered
    <3>. HIDE DEF entry
    <3>6. body[i].arms[entry] \in BlocksOf(body[i]) /\ body[i].arms[entry].ret = "false"
      <4>1. body[i].arms \in Seq(ArmType \cup BlockType) /\ body[i].other \in Seq(ArmType \cup BlockType)
        BY <1>1, <2>1, ArmsTyped, SeqMonotonic
      <4>2. BlocksOf(body[i]) = Range(body[i].arms) \cup Range(body[i].other)
        BY <4>1, BlocksAre
      <4>3. DOMAIN body[i].arms = 1..Len(body[i].arms)
        BY <4>1, LenProperties
      <4>. QED
        BY <2>3, <2>7, <3>5, <4>2, <4>3 DEF Range, GoBlock
    <3>7. ~ \E j \in Arms(body) : j > i
      BY <1>4, <2>1, <3>6 DEF FaithfulPredicate
    <3>8. body[at].op # "arms"
      BY <1>4, <3>2, <3>7
    <3>9. at = n
      BY <1>5, <3>8
    <3>10. PICK own : ReturnBranch(own, body, at) \in Range(StatementBranches(body, at)) /\ Holds(ReturnBranch(own, body, at).cond, row)
      BY <1>1, <2>7, <3>8, StatementCompiles
    <3>11. body[i].arms[k].test \in bodyPriors(body, at)
      <4>1. i \in Statements(body, "arms") \cap 1..(at - 1)
        BY <1>1, <1>4, <2>1, <3>2
      <4>2. body[i].arms[k].test \in ChainPriors(body[i])
        BY <2>1 DEF ChainPriors, Tests
      <4>. QED
        BY <4>1, <4>2 DEF bodyPriors
    <3>12. IsFalse(body[i].arms[k].test, row)
      BY <3>10, <3>11 DEF ReturnBranch, branchFromBlock, exclusiveCondition, Holds
    <3>. QED
      BY <3>4, <3>12, NotBoth
  <2>. QED
    BY <2>4, <2>5, <2>6, <2>7
<1>13. ASSUME \A i \in 1..(n - 1) : ~Enters(i)
       PROVE  (\E at \in 1..n : Chosen(at)) <=> GoRun(body, row).ret = "true"
  <2>1. n - 1 \in 0..(n - 1) /\ \A i \in 1..n : i # n => i \in 1..(n - 1)
    BY <1>1
  <2>2. after[n - 1] = start
    BY <1>10, <1>13, <2>1
  <2>3. GoRun(body, row) = GoStatement(start, body[n])
    BY <1>3, <1>6, <2>2
  <2>4. (\E at \in 1..n : Chosen(at)) <=> Chosen(n)
    BY <1>6, <1>11, <1>13, <2>1
  <2>5. ASSUME NEW own
        PROVE  Holds(ReturnBranch(own, body, n).cond, row) <=> \A t \in own : IsTrue(t, row)
    <3>1. ASSUME NEW t \in bodyPriors(body, n) PROVE IsFalse(t, row)
      <4>1. PICK i \in Statements(body, "arms") \cap 1..(n - 1) : t \in ChainPriors(body[i])
        BY <3>1 DEF bodyPriors
      <4>2. i \in 1..n /\ body[i].op = "arms" /\ i \in 1..(n - 1)
        BY <1>1, <4>1 DEF Statements
      <4>3. t \in Tests(body[i].arms)
        BY <4>1 DEF ChainPriors
      <4>4. PICK k \in 1..Len(body[i].arms) : t = body[i].arms[k].test
        BY <4>3 DEF Tests
      <4>5. ~IsTrue(t, row) /\ t \in Test
        <5>1. \A m \in 1..Len(body[i].arms) : ~IsTrue(body[i].arms[m].test, row)
          BY <1>4, <1>13, <4>2, EnteredIs
        <5>2. body[i].arms[k] \in ArmType
          BY <1>1, <4>2, ArmsTyped
        <5>. QED
          BY <4>4, <5>1, <5>2 DEF ArmType
      <4>. QED
        BY <4>5, NotNull
    <3>. QED
      BY <3>1 DEF ReturnBranch, branchFromBlock, exclusiveCondition, Holds
  <2>6. \A own : ReturnBranch(own, body, n).selects
    BY DEF ReturnBranch, branchFromBlock
  <2>7. CASE body[n].op = "arms"
    BY <1>2, <1>4, <1>6, <2>3, <2>4, <2>7 DEF GoStatement
  <2>8. CASE body[n].op = "accept"
    <3>1. GoRun(body, row).ret = "true"
      BY <1>2, <2>3, <2>8 DEF GoStatement, GoStart, start
    <3>2. Holds(ReturnBranch({}, body, n).cond, row)
      BY <2>5
    <3>3. Chosen(n)
      BY <1>1, <1>6, <2>6, <2>8, <3>2, StatementCompiles
    <3>. QED
      BY <2>4, <3>1, <3>3
  <2>9. CASE body[n].op = "return"
    <3>1. GoRun(body, row).ret = "true" <=> IsTrue(body[n].test, row)
      BY <1>2, <2>3, <2>9 DEF GoStatement, GoStart, start
    <3>2. Holds(ReturnBranch({body[n].test}, body, n).cond, row) <=> IsTrue(body[n].test, row)
      BY <2>5
    <3>3. Chosen(n) <=> IsTrue(body[n].test, row)
      BY <1>1, <1>6, <2>6, <2>9, <3>2, StatementCompiles
    <3>. QED
      BY <2>4, <3>1, <3>3
  <2>10. CASE body[n].op = "reject"
    <3>1. GoRun(body, row).ret = "false"
      BY <1>2, <2>3, <2>10 DEF GoStatement, GoStart, start
    <3>2. ~Chosen(n)
      BY <1>1, <1>6, <2>10, StatementCompiles
    <3>. QED
      BY <2>4, <3>1, <3>2
  <2>11. body[n].op \in {"arms", "accept", "return", "reject", "assign"}
    BY <1>1, <1>6 DEF StatementType
  <2>. QED
    BY <1>6, <2>7, <2>8, <2>9, <2>10, <2>11
<1>14. (\E at \in 1..n : Chosen(at)) <=> GoRun(body, row).ret = "true"
  <2>1. ASSUME NEW m \in 1..(n - 1), Enters(m)
        PROVE  \E i \in 1..n : i # n /\ Enters(i) /\ \A j \in 1..(i - 1) : ~Enters(j)
    <3>. DEFINE T == {i \in 1..(n - 1) : Enters(i)}
    <3>1. T \subseteq Nat /\ T # {}
      <4>1. T \subseteq Nat
        BY <1>1
      <4>2. m \in T
        BY <2>1
      <4>. QED
        BY <4>1, <4>2
    <3>2. PICK i \in T : \A j \in T : i <= j
      <4>. HIDE DEF T
      <4>. QED
        BY <3>1, Least
    <3>3. i \in 1..n /\ i # n /\ \A j \in 1..(i - 1) : j \in 1..(n - 1) /\ ~(i <= j)
      BY <1>1
    <3>. QED
      BY <3>2, <3>3
  <2>. HIDE DEF Enters, Chosen
  <2>. QED
    BY <1>12, <1>13, <2>1
<1>. QED
  BY <1>7, <1>8, <1>14, Selects

\* A call with a predicate picks the rows that its conditions hold of.
PickInv ==
  call.kind \in {"select", "delete"} /\ phase = "done" =>
    picked = {r \in Row : \E cond \in SelectCondition(parseBody(call.body)) : Holds(cond, r)}

\* It picks them in one statement, before anything else happens.
LEMMA PickStep ==
  ASSUME CallInv, PickInv, [Next]_vars
  PROVE  PickInv'
<1>1. CASE RunPredicate
  <2>1. phase = "parsed" /\ picked' = {r \in Row : Selected(r)} /\ call' = call
    BY <1>1 DEF RunPredicate
  <2>2. branches = parseBody(call.body) /\ \A r \in Row : table[r] = r
    BY <2>1 DEF CallInv
  <2>3. \A r \in Row : Selected(r) <=> \E cond \in SelectCondition(parseBody(call.body)) : Holds(cond, r)
    BY <2>2 DEF Selected
  <2>. QED
    BY <2>1, <2>3 DEF PickInv
<1>2. CASE Parse \/ Refuse \/ Start \/ ColumnsDone \/ Commit
  BY <1>2 DEF Parse, Refuse, Start, ColumnsDone, Commit, CallInv, PickInv
<1>3. CASE RunUpdate \/ RunInsert \/ ApplyRelations \/ Fail
  BY <1>3 DEF RunUpdate, RunInsert, ApplyRelations, Fail, CallInv, PickInv
<1>4. ASSUME NEW r \in Row, NEW c \in Col, NEW v \in Val \cup {Null}, OtherWrites(r, c, v) PROVE PickInv'
  BY <1>4 DEF OtherWrites, PickInv
<1>5. CASE UNCHANGED vars
  BY <1>5 DEF vars, PickInv
<1>. QED
  BY <1>1, <1>2, <1>3, <1>4, <1>5 DEF Next

\* A Select or a Delete picks, among the rows without NULL, those for which the lambda
\* would have returned true: parseIfChain, the priors a body collects and the OR of
\* SelectCondition together are the Go function, for faithful predicates of any length.
THEOREM PredicatesFollow == Spec => []PredicateFollowsGo
<1>1. Init => CallInv /\ PickInv
  BY CallStarts DEF Init, PickInv
<1>2. CallInv /\ PickInv /\ [Next]_vars => CallInv' /\ PickInv'
  BY CallStep, PickStep
<1>3. CallInv /\ PickInv => PredicateFollowsGo
  <2>1. SUFFICES ASSUME CallInv, PickInv, call.kind \in {"select", "delete"}, phase = "done",
                        FaithfulPredicate(call.body), NEW r \in Row, NoNull(r)
                 PROVE  r \in picked <=> GoRun(call.body, r).ret = "true"
    BY DEF PredicateFollowsGo
  <2>2. call.body \in BodyType
    BY <2>1, CallCompiles
  <2>3. r \in picked <=> \E cond \in SelectCondition(parseBody(call.body)) : Holds(cond, r)
    BY <2>1 DEF PickInv
  <2>. QED
    BY <2>1, <2>2, <2>3, PredicateSelects
<1>. QED
  BY <1>1, <1>2, <1>3, PTL DEF Spec

-----------------------------------------------------------------------------
(* What an Update leaves in a row: in each column what the last branch that *)
(* applies to the row put there, whatever the others put there before.     *)

\* The first n branches that apply to a row.
Met(seq, n, row) == {i \in 1..n : Holds(seq[i].cond, row)}

\* What a set of assignments gives a column.
Value(set, c) == (CHOOSE a \in set : a[1] = c)[2]

\* The column of a row holds what the last of the branches in H gave it, or is as before.
WrittenBy(H, seq, c, old, new) ==
  \/ (\A i \in H : c \notin ColumnsOf(seq[i].set)) /\ new[c] = old[c]
  \/ \E i \in H : /\ c \in ColumnsOf(seq[i].set) /\ new[c] = Value(seq[i].set, c)
                  /\ \A j \in H : c \in ColumnsOf(seq[j].set) => j <= i

\* The row is linked to what the last of the branches in H assigned.
LinkedBy(H, seq, to) ==
  \/ H = {} /\ to = Keep
  \/ \E i \in H : to = seq[i].rel /\ \A j \in H : j <= i

UpdateInv ==
  call.kind = "update" /\ Stable(call.body) =>
    \A r \in Row \ foreign :
      /\ phase = "columns" => hits[r] = Met(Updates, next, r) /\ link[r] = Keep
      /\ phase \in {"relations", "done"} => hits[r] = Met(Updates, Len(Updates), r)
      /\ phase \in {"columns", "relations", "done"} =>
           \A c \in Col : WrittenBy(hits[r], Updates, c, r, table[r])
      /\ phase = "relations" => LinkedBy(Met(Relations, next, r), Relations, link[r])
      /\ phase = "done" => LinkedBy(Met(Relations, Len(Relations), r), Relations, link[r])

\* One more branch.
LEMMA MetStep ==
  ASSUME NEW seq, NEW n \in Nat, NEW row
  PROVE  /\ Met(seq, 0, row) = {}
         /\ Met(seq, n + 1, row) = IF Holds(seq[n + 1].cond, row) THEN Met(seq, n, row) \cup {n + 1}
                                   ELSE Met(seq, n, row)
         /\ \A i \in Met(seq, n, row) : i \in Nat /\ i <= n
<1>1. 1..(n + 1) = (1..n) \cup {n + 1} /\ 1..0 = {} /\ \A i \in 1..n : i \in Nat /\ i <= n
  OBVIOUS
<1>. QED
  BY <1>1 DEF Met

\* An assigned column has the value it was assigned.
LEMMA AssignedValue ==
  ASSUME NEW row \in Row, NEW set \in Sets, NEW c \in Col
  PROVE  Assign(row, set)[c] = IF c \in ColumnsOf(set) THEN Value(set, c) ELSE row[c]
BY DEF Assign, ColumnsOf, Value, Row

\* The last branch wins.
LEMMA WrittenStep ==
  ASSUME NEW H, NEW n \in Nat, \A i \in H : i \in Nat /\ i <= n, NEW seq, NEW c \in Col, NEW old,
         NEW row \in Row, seq[n + 1].set \in Sets, WrittenBy(H, seq, c, old, row)
  PROVE  WrittenBy(H \cup {n + 1}, seq, c, old, Assign(row, seq[n + 1].set))
<1>. DEFINE new == Assign(row, seq[n + 1].set)
            m == n + 1
<1>1. new[c] = IF c \in ColumnsOf(seq[m].set) THEN Value(seq[m].set, c) ELSE row[c]
  BY AssignedValue
<1>2. m <= m /\ \A i \in H : i <= m
  OBVIOUS
<1>3. SUFFICES WrittenBy(H \cup {m}, seq, c, old, new)
  OBVIOUS
<1>. HIDE DEF new, m
<1>4. CASE c \in ColumnsOf(seq[m].set)
  BY <1>1, <1>2, <1>4 DEF WrittenBy
<1>5. CASE c \notin ColumnsOf(seq[m].set)
  <2>1. new[c] = row[c]
    BY <1>1, <1>5
  <2>2. CASE (\A i \in H : c \notin ColumnsOf(seq[i].set)) /\ row[c] = old[c]
    BY <1>5, <2>1, <2>2 DEF WrittenBy
  <2>3. ASSUME NEW i \in H, c \in ColumnsOf(seq[i].set), row[c] = Value(seq[i].set, c),
               \A j \in H : c \in ColumnsOf(seq[j].set) => j <= i
        PROVE  WrittenBy(H \cup {m}, seq, c, old, new)
    BY <1>5, <2>1, <2>3 DEF WrittenBy
  <2>. QED
    BY <2>2, <2>3 DEF WrittenBy
<1>. QED
  BY <1>4, <1>5

\* The condition of a branch that links reads tested columns.
LEMMA RelationReads ==
  ASSUME CallInv, NEW i \in DOMAIN Relations
  PROVE  Reads(Relations[i].cond) \subseteq Tested(call.body) \cap Col
<1>. DEFINE b == Relations[i]
<1>1. b \in Range(branches) /\ b.rel # Keep /\ b \in BranchType /\ call.body \in BodyType
  <2>1. b \in Range(Relations)
    BY DEF Range
  <2>2. Range(Relations) \subseteq BranchType
    BY CallCompiles, RangeOfSeq
  <2>. QED
    BY <2>1, <2>2, CallCompiles
<1>. HIDE DEF b
<1>2. branches = parseBody(call.body)
  <2>1. DOMAIN <<>> = {} /\ Range(<<>>) = {}
    BY DEF Range
  <2>. QED
    BY <1>1, <2>1 DEF CallInv
<1>3. b.cond \in ConditionType
  BY <1>1 DEF BranchType
<1>4. Reads(b.cond) \subseteq Col
  BY <1>3 DEF Reads, ConditionType, Test
<1>5. Reads(Nil) = {}
  BY DEF Reads, Nil, exclusiveCondition
<1>6. Reads(b.cond) \subseteq Tested(call.body)
  BY <1>1, <1>2, <1>5, WritersAre
<1>. QED
  BY <1>4, <1>6 DEF b

\* Of a row nobody else wrote, a branch of a stable body can tell at any time what it
\* could at the start.
LEMMA SameAsFirst ==
  ASSUME CallInv, HitInv, Stable(call.body), NEW r \in Row \ foreign, NEW cond,
         Reads(cond) \subseteq Tested(call.body) \cap Col
  PROVE  Holds(cond, table[r]) <=> Holds(cond, r)
<1>1. \A k \in Reads(cond) : table[r][k] = r[k] /\ r[k] = table[r][k]
  BY DEF HitInv, TestedStand
<1>. QED
  BY <1>1, SameHolds

\* Every step of an Update keeps the rows as they are described.
LEMMA UpdateStep ==
  ASSUME CallInv, HitInv, UpdateInv, [Next]_vars
  PROVE  UpdateInv'
<1>0. /\ call' = call /\ next \in Nat /\ table \in [Row -> Row]
      /\ DOMAIN Updates = 1..Len(Updates) /\ Len(Updates) \in Nat
      /\ DOMAIN Relations = 1..Len(Relations) /\ Len(Relations) \in Nat
  <2>1. call' = call
    BY DEF Next, Parse, RunPredicate, Refuse, Start, RunUpdate, RunInsert, ColumnsDone, ApplyRelations, Commit, Fail,
           OtherWrites, vars
  <2>. QED
    BY <2>1, CallCompiles DEF CallInv, TypeOK
<1>1. SUFFICES ASSUME call.kind = "update", Stable(call.body)
               PROVE  UpdateInv'
  BY <1>0 DEF UpdateInv
<1>. DEFINE Is(r) == /\ phase = "columns" => hits[r] = Met(Updates, next, r) /\ link[r] = Keep
                     /\ phase \in {"relations", "done"} => hits[r] = Met(Updates, Len(Updates), r)
                     /\ phase \in {"columns", "relations", "done"} =>
                          \A c \in Col : WrittenBy(hits[r], Updates, c, r, table[r])
                     /\ phase = "relations" => LinkedBy(Met(Relations, next, r), Relations, link[r])
                     /\ phase = "done" => LinkedBy(Met(Relations, Len(Relations), r), Relations, link[r])
<1>2. SUFFICES ASSUME NEW r \in Row \ foreign' PROVE Is(r)'
  BY DEF UpdateInv
<1>3. foreign \subseteq foreign' /\ r \in Row \ foreign
  <2>1. foreign \subseteq foreign'
    BY DEF Next, Parse, RunPredicate, Refuse, Start, RunUpdate, RunInsert, ColumnsDone, ApplyRelations, Commit, Fail,
           OtherWrites, vars
  <2>. QED
    BY <2>1
<1>4. Is(r)
  BY <1>1, <1>3 DEF UpdateInv
<1>same. branches' = branches => Updates' = Updates /\ Relations' = Relations
  BY DEF Updates, Relations
<1>5. CASE Parse \/ Refuse \/ Fail
  BY <1>5 DEF Parse, Refuse, Fail
<1>6. CASE Start
  <2>1. phase = "parsed" /\ phase' = "columns" /\ next' = 0 /\ hits'[r] = {} /\ link'[r] = Keep /\ table'[r] = r
    BY <1>6 DEF Start, CallInv
  <2>2. Met(Updates', 0, r) = {}
    BY MetStep
  <2>. QED
    BY <2>1, <2>2 DEF WrittenBy
<1>7. CASE RunUpdate
  <2>. DEFINE n == next + 1
              R == RowsOf(Updates[n])
  <2>1. /\ phase = "columns" /\ phase' = "columns" /\ n \in DOMAIN Updates /\ next' = n
        /\ Updates' = Updates /\ link'[r] = link[r]
        /\ hits'[r] = IF r \in R THEN hits[r] \cup {n} ELSE hits[r]
        /\ table'[r] = IF r \in R THEN Assign(table[r], Updates[n].set) ELSE table[r]
    <3>1. phase = "columns" /\ n \in DOMAIN Updates
      BY <1>0, <1>7 DEF RunUpdate
    <3>. QED
      BY <1>7, <1>same, <3>1 DEF RunUpdate, Hit
  <2>2. r \in R <=> Holds(Updates[n].cond, r)
    BY <1>1, <1>3, <2>1, UpdateReads, SameAsFirst DEF RowsOf
  <2>3. Updates[n].set \in Sets
    BY <2>1, UpdateIs DEF BranchType
  <2>4. hits[r] = Met(Updates, next, r) /\ link[r] = Keep /\ \A c \in Col : WrittenBy(hits[r], Updates, c, r, table[r])
    BY <1>4, <2>1
  <2>5. hits'[r] = Met(Updates, n, r) /\ \A i \in hits[r] : i \in Nat /\ i <= next
    <3>. HIDE DEF R
    <3>. QED
      BY <1>0, <2>1, <2>2, <2>4, MetStep
  <2>6. \A c \in Col : WrittenBy(hits'[r], Updates, c, r, table'[r])
    <3>1. CASE r \notin R
      BY <2>1, <2>4, <3>1
    <3>2. CASE r \in R
      <4>1. table[r] \in Row
        BY <1>0
      <4>2. ASSUME NEW c \in Col
            PROVE  WrittenBy(hits[r] \cup {n}, Updates, c, r, Assign(table[r], Updates[n].set))
        BY <1>0, <2>3, <2>4, <2>5, <4>1, WrittenStep
      <4>. HIDE DEF R, n
      <4>. QED
        BY <2>1, <3>2, <4>2
    <3>. QED
      BY <3>1, <3>2
  <2>. HIDE DEF n, R
  <2>. QED
    BY <2>1, <2>4, <2>5, <2>6
<1>8. CASE ColumnsDone
  <2>1. /\ phase = "columns" /\ phase' = "relations" /\ next = Len(Updates) /\ next' = 0
        /\ Updates' = Updates /\ Relations' = Relations /\ UNCHANGED <<hits, table, link>>
    BY <1>8, <1>same DEF ColumnsDone
  <2>2. Met(Relations, 0, r) = {}
    BY MetStep
  <2>. QED
    BY <1>4, <2>1, <2>2 DEF LinkedBy
<1>9. CASE ApplyRelations
  <2>. DEFINE n == next + 1
              R == RowsOf(Relations[n])
  <2>1. /\ phase = "relations" /\ phase' = "relations" /\ n \in DOMAIN Relations /\ next' = n
        /\ Updates' = Updates /\ Relations' = Relations /\ UNCHANGED <<hits, table>>
        /\ link'[r] = IF r \in R THEN Relations[n].rel ELSE link[r]
    <3>1. phase = "relations" /\ n \in DOMAIN Relations
      BY <1>0, <1>9 DEF ApplyRelations
    <3>. QED
      BY <1>9, <1>same, <3>1 DEF ApplyRelations
  <2>2. r \in R <=> Holds(Relations[n].cond, r)
    BY <1>1, <1>3, <2>1, RelationReads, SameAsFirst DEF RowsOf
  <2>. DEFINE H == Met(Relations, next, r)
  <2>3. LinkedBy(H, Relations, link[r])
    BY <1>4, <2>1
  <2>4. /\ Met(Relations, n, r) = IF r \in R THEN H \cup {n} ELSE H
        /\ \A i \in H : i \in Nat /\ i <= next
    <3>. HIDE DEF R
    <3>. QED
      BY <1>0, <2>2, MetStep
  <2>. HIDE DEF H, R
  <2>5. CASE r \in R
    <3>1. \A i \in H : i <= n
      BY <1>0, <2>4
    <3>2. n <= n
      BY <1>0
    <3>. HIDE DEF n
    <3>3. LinkedBy(Met(Relations, n, r), Relations, link'[r])
      BY <2>1, <2>4, <2>5, <3>1, <3>2 DEF LinkedBy
    <3>. QED
      BY <1>4, <2>1, <3>3
  <2>6. CASE r \notin R
    <3>. HIDE DEF n
    <3>. QED
      BY <1>4, <2>1, <2>3, <2>4, <2>6
  <2>. QED
    BY <2>5, <2>6
<1>10. CASE Commit
  <2>1. /\ phase = "relations" /\ phase' = "done" /\ next = Len(Relations)
        /\ Updates' = Updates /\ Relations' = Relations /\ UNCHANGED <<hits, table, link>>
    BY <1>10, <1>same DEF Commit
  <2>. QED
    BY <1>4, <2>1
<1>11. CASE RunPredicate \/ RunInsert
  BY <1>1, <1>11 DEF RunPredicate, RunInsert
<1>12. ASSUME NEW q \in Row, NEW c \in Col, NEW v \in Val \cup {Null}, OtherWrites(q, c, v) PROVE Is(r)'
  <2>1. /\ UNCHANGED <<phase, next, hits, link>> /\ Updates' = Updates /\ Relations' = Relations /\ r # q
    BY <1>2, <1>12, <1>same DEF OtherWrites
  <2>2. table'[r] = table[r]
    BY <1>0, <1>12, <2>1, Overwritten DEF OtherWrites
  <2>. QED
    BY <1>4, <2>1, <2>2
<1>13. CASE UNCHANGED vars
  <2>1. UNCHANGED <<phase, next, hits, link, table>> /\ Updates' = Updates /\ Relations' = Relations
    BY <1>13, <1>same DEF vars
  <2>. QED
    BY <1>4, <2>1
<1>. QED
  BY <1>5, <1>6, <1>7, <1>8, <1>9, <1>10, <1>11, <1>12, <1>13 DEF Next

-----------------------------------------------------------------------------
(* What Go makes of a row, in the same words.                              *)

GoState == [row : Row, rel : Related \cup {Keep}, ret : {"true", "false", "bare", "none"}]

\* The branches of the statements that apply to a row.
Applies(body, row) == {b \in Range(parseBody(body)) : b.at # 0 /\ Holds(b.cond, row)}

\* Those of them that write a column or a relation, each with the value it writes.
Columns(body, row, c) == {<<b, Value(b.set, c)>> : b \in {x \in Applies(body, row) : c \in ColumnsOf(x.set)}}
Links(body, row) == {<<b, b.rel>> : b \in {x \in Applies(body, row) : x.rel # Keep}}

\* The new value is from the last of the first n statements that wrote one, or is the old.
LastOf(W, n, old, new) ==
  \/ (\A w \in W : w[1].at \notin 1..n) /\ new = old
  \/ \E w \in W : /\ w[1].at \in 1..n /\ new = w[2]
                  /\ \A u \in W : u[1].at \in 1..n => u[1].at <= w[1].at

\* A statement wrote one of the values, or nothing.
Writes(W, at, old, new) ==
  \/ (\A w \in W : w[1].at # at) /\ new = old
  \/ \E w \in W : w[1].at = at /\ new = w[2]

\* The last statement wins.
LEMMA LastStep ==
  ASSUME NEW W, NEW n \in Nat, NEW old, NEW val, NEW new,
         LastOf(W, n, old, val), Writes(W, n + 1, val, new)
  PROVE  LastOf(W, n + 1, old, new)
<1>. DEFINE m == n + 1
            now == 1..n
            then == 1..m
<1>1. then = now \cup {m} /\ m <= m /\ (\A i \in now : i <= m) /\ m \notin now
  OBVIOUS
<1>2. LastOf(W, n, old, val) /\ Writes(W, m, val, new)
  OBVIOUS
<1>3. SUFFICES LastOf(W, m, old, new)
  OBVIOUS
<1>4. /\ \/ (\A w \in W : w[1].at \notin now) /\ val = old
         \/ \E w \in W : /\ w[1].at \in now /\ val = w[2]
                         /\ \A u \in W : u[1].at \in now => u[1].at <= w[1].at
      /\ \/ (\A w \in W : w[1].at # m) /\ new = val
         \/ \E w \in W : w[1].at = m /\ new = w[2]
  BY <1>2 DEF LastOf, Writes
<1>5. SUFFICES \/ (\A w \in W : w[1].at \notin then) /\ new = old
               \/ \E w \in W : /\ w[1].at \in then /\ new = w[2]
                               /\ \A u \in W : u[1].at \in then => u[1].at <= w[1].at
  BY DEF LastOf
<1>. HIDE DEF m, now, then
<1>6. CASE (\A w \in W : w[1].at # m) /\ new = val
  BY <1>1, <1>4, <1>6
<1>7. CASE \E w \in W : w[1].at = m /\ new = w[2]
  BY <1>1, <1>7
<1>. QED
  BY <1>4, <1>6, <1>7

\* Two rows with the same tested columns enter the same arms.
LEMMA SameEntered ==
  ASSUME NEW arms, Len(arms) \in Nat, NEW row, NEW other,
         \A k \in 1..Len(arms) : IsTrue(arms[k].test, row) <=> IsTrue(arms[k].test, other)
  PROVE  Entered(arms, row) = Entered(arms, other)
<1>1. \A k \in 1..Len(arms) : \A j \in 1..(k - 1) : j \in 1..Len(arms)
  OBVIOUS
<1>. QED
  BY <1>1 DEF Entered

\* Of a chain Go runs the block whose branch applies to the row, the only one that does,
\* or no branch applies and Go runs none.
LEMMA ChainRuns ==
  ASSUME NEW stmt \in StatementType, stmt.op = "arms", NEW at \in Nat, NEW row \in Row, NoNull(row),
         NEW s, \A t \in Tests(stmt.arms) : IsTrue(t, s.row) <=> IsTrue(t, row)
  PROVE  LET Is(b) == IsArm(b, stmt, at) \/ IsElse(b, stmt, at)
         IN \/ GoChain(s, stmt) = s /\ \A b : Is(b) => ~Holds(b.cond, row)
            \/ \E b, block : /\ Is(b) /\ Holds(b.cond, row) /\ block \in BlocksOf(stmt)
                             /\ b.set = block.set /\ b.rel = block.rel
                             /\ GoChain(s, stmt) = GoBlock(s, block)
                             /\ \A x : Is(x) /\ Holds(x.cond, row) => x = b
<1>. DEFINE arms == stmt.arms
            other == stmt.other
            m == Len(arms)
            n == Len(other)
            entered == Entered(arms, row)
            arm(k) == branchFromBlock(arms[k], ArmCondition(arms, k), at)
            else(k) == branchFromBlock(other[k], ElseCondition(arms), at)
            Is(b) == IsArm(b, stmt, at) \/ IsElse(b, stmt, at)
<1>1. /\ arms \in Seq(ArmType) /\ other \in Seq(BlockType) /\ m \in Nat /\ n \in Nat /\ n <= 1
      /\ \A k \in 1..m : arms[k].test \in Test
  BY ArmsTyped DEF ArmType
<1>2. /\ \A k \in 1..m : Holds(ArmCondition(arms, k), row) <=> k \in entered
      /\ Holds(ElseCondition(arms), row) <=> entered = {}
  <2>1. \A k \in 1..m : \A a \in arms[k].test : row[a[1]] # Null
    BY <1>1, NotNull
  <2>. HIDE DEF arms
  <2>. QED
    BY <1>1, <2>1, ChainFollowsGo, EnteredIs
<1>3. Entered(arms, s.row) = entered
  <2>1. \A k \in 1..m : IsTrue(arms[k].test, s.row) <=> IsTrue(arms[k].test, row)
    BY DEF Tests
  <2>. HIDE DEF arms
  <2>. QED
    BY <1>1, <2>1, SameEntered
<1>4. /\ \A b : Is(b) <=> (\E k \in 1..m : b = arm(k)) \/ (\E k \in 1..n : b = else(k))
      /\ \A k : /\ arm(k).cond = ArmCondition(arms, k) /\ arm(k).set = arms[k].set /\ arm(k).rel = arms[k].rel
                /\ else(k).cond = ElseCondition(arms) /\ else(k).set = other[k].set /\ else(k).rel = other[k].rel
  BY DEF IsArm, IsElse, branchFromBlock
<1>5. /\ \A k \in 1..m : arms[k] \in BlocksOf(stmt)
      /\ \A k \in 1..n : other[k] \in BlocksOf(stmt)
  <2>1. arms \in Seq(ArmType \cup BlockType) /\ other \in Seq(ArmType \cup BlockType)
    BY <1>1, SeqMonotonic
  <2>2. BlocksOf(stmt) = Range(arms) \cup Range(other)
    BY <2>1, BlocksAre
  <2>3. DOMAIN arms = 1..m /\ DOMAIN other = 1..n
    BY <1>1, LenProperties
  <2>. HIDE DEF arms, other
  <2>. QED
    BY <2>2, <2>3 DEF Range
<1>6. GoChain(s, stmt) = IF entered # {} THEN GoBlock(s, arms[CHOOSE i \in entered : TRUE])
                         ELSE IF other # <<>> THEN GoBlock(s, other[1]) ELSE s
  BY <1>3 DEF GoChain
<1>7. /\ entered \subseteq 1..m
      /\ \A i, j \in entered : i = j
  <2>1. entered \subseteq 1..m
    BY DEF Entered
  <2>2. ASSUME NEW i \in entered, NEW j \in entered, i # j PROVE FALSE
    <3>. HIDE DEF arms, entered
    <3>. QED
      BY <1>1, <1>2, <2>1, <2>2, ArmsExclusive
  <2>. QED
    BY <2>1, <2>2
<1>8. (other = <<>> => n = 0) /\ (other # <<>> => n = 1 /\ 1 \in 1..n)
  <2>. HIDE DEF other
  <2>1. (other = <<>> => n = 0) /\ (other # <<>> => n \in Nat \ {0})
    BY <1>1, EmptySeq
  <2>. HIDE DEF n
  <2>. QED
    BY <1>1, <2>1
<1>. SUFFICES \/ GoChain(s, stmt) = s /\ \A b : Is(b) => ~Holds(b.cond, row)
              \/ \E b, block : /\ Is(b) /\ Holds(b.cond, row) /\ block \in BlocksOf(stmt)
                               /\ b.set = block.set /\ b.rel = block.rel
                               /\ GoChain(s, stmt) = GoBlock(s, block)
                               /\ \A x : Is(x) /\ Holds(x.cond, row) => x = b
  OBVIOUS
<1>. HIDE DEF Is, arms, other, m, n, entered, arm, else
<1>9. CASE entered # {}
  <2>. DEFINE i == CHOOSE i \in entered : TRUE
  <2>1. i \in entered /\ i \in 1..m
    BY <1>7, <1>9
  <2>. HIDE DEF i
  <2>2. Is(arm(i)) /\ Holds(arm(i).cond, row)
    BY <1>2, <1>4, <2>1
  <2>3. \A x : Is(x) /\ Holds(x.cond, row) => x = arm(i)
    BY <1>2, <1>4, <1>7, <1>9, <2>1
  <2>4. GoChain(s, stmt) = GoBlock(s, arms[i]) /\ arms[i] \in BlocksOf(stmt)
    BY <1>5, <1>6, <1>9, <2>1 DEF i
  <2>5. arm(i).set = arms[i].set /\ arm(i).rel = arms[i].rel
    BY <1>4
  <2>. QED
    BY <2>2, <2>3, <2>4, <2>5
<1>10. CASE entered = {} /\ other # <<>>
  <2>1. Is(else(1)) /\ Holds(else(1).cond, row)
    BY <1>2, <1>4, <1>8, <1>10
  <2>2. \A k \in 1..n : k = 1
    BY <1>8, <1>10
  <2>3. \A x : Is(x) /\ Holds(x.cond, row) => x = else(1)
    BY <1>2, <1>4, <1>10, <2>2
  <2>4. GoChain(s, stmt) = GoBlock(s, other[1]) /\ other[1] \in BlocksOf(stmt)
    BY <1>5, <1>6, <1>8, <1>10
  <2>5. else(1).set = other[1].set /\ else(1).rel = other[1].rel
    BY <1>4
  <2>. QED
    BY <2>1, <2>3, <2>4, <2>5
<1>11. CASE entered = {} /\ other = <<>>
  <2>1. 1..n = {}
    BY <1>8, <1>11
  <2>2. \A b : Is(b) => ~Holds(b.cond, row)
    BY <1>2, <1>4, <1>11, <2>1
  <2>. QED
    BY <1>6, <1>11, <2>2
<1>. QED
  BY <1>9, <1>10, <1>11

\* A block that Go runs.
LEMMA BlockRuns ==
  ASSUME NEW s \in GoState, NEW block, block.set \in Sets, block.rel \in Related \cup {Keep},
         block.ret \in {"true", "false", "bare", "none"}
  PROVE  LET new == GoBlock(s, block)
         IN /\ new \in GoState /\ new.ret = block.ret
            /\ new.rel = IF block.rel = Keep THEN s.rel ELSE block.rel
            /\ \A c \in Col : new.row[c] = IF c \in ColumnsOf(block.set) THEN Value(block.set, c) ELSE s.row[c]
<1>1. s.row \in Row /\ s.rel \in Related \cup {Keep}
  BY DEF GoState
<1>2. Assign(s.row, block.set) \in Row
  BY <1>1, Assigned
<1>3. \A c \in Col : Assign(s.row, block.set)[c] = IF c \in ColumnsOf(block.set) THEN Value(block.set, c) ELSE s.row[c]
  BY <1>1, AssignedValue
<1>4. /\ GoBlock(s, block).row = Assign(s.row, block.set)
      /\ GoBlock(s, block).rel = IF block.rel = Keep THEN s.rel ELSE block.rel
      /\ GoBlock(s, block).ret = block.ret
  BY DEF GoBlock
<1>5. GoBlock(s, block) \in GoState
  BY <1>1, <1>2 DEF GoBlock, GoState
<1>. QED
  BY <1>3, <1>4, <1>5

\* The assignments of the top level are together in the last branch, and none of them
\* disagrees with another.
LEMMA TopAssigns ==
  ASSUME NEW body \in BodyType, FaithfulMutation(body), NEW i \in Statements(body, "assign")
  PROVE  LET block == body[i].block
         IN /\ block \in BlockType /\ block.rel = Keep /\ block.ret = "none"
            /\ ColumnsOf(block.set) \subseteq ColumnsOf(SetOnTop(body))
            /\ \A c \in ColumnsOf(block.set) : Value(block.set, c) = Value(SetOnTop(body), c)
<1>1. SetOnTop(body) = UNION {body[k].block.set : k \in Statements(body, "assign")}
  BY DEF SetOnTop, TopBlock
<1>. DEFINE block == body[i].block
            top == SetOnTop(body)
<1>2. block \in BlockType /\ block.rel = Keep /\ block.ret = "none" /\ block.set \subseteq top
  BY <1>1, BodyTyped DEF FaithfulMutation
<1>3. \A a, b \in top : a[1] = b[1] => a = b
  BY DEF FaithfulMutation
<1>. HIDE DEF top, block
<1>4. ASSUME NEW c \in ColumnsOf(block.set) PROVE Value(block.set, c) = Value(top, c)
  <2>1. PICK a \in block.set : a[1] = c
    BY DEF ColumnsOf
  <2>2. (CHOOSE x \in block.set : x[1] = c) = a
    BY <1>2, <1>3, <2>1
  <2>3. (CHOOSE x \in top : x[1] = c) = a
    BY <1>2, <1>3, <2>1
  <2>. QED
    BY <2>2, <2>3 DEF Value
<1>5. ColumnsOf(block.set) \subseteq ColumnsOf(top)
  BY <1>2 DEF ColumnsOf
<1>. QED
  BY <1>2, <1>4, <1>5 DEF top, block

\* The tests of an arm read the same in two rows without NULL that agree where the body
\* tests.
LEMMA SameTests ==
  ASSUME NEW body \in BodyType, NEW at \in Statements(body, "arms"), NEW row, NEW other,
         \A k \in Tested(body) \cap Col : row[k] = other[k]
  PROVE  \A t \in Tests(body[at].arms) : IsTrue(t, row) <=> IsTrue(t, other)
<1>1. body[at] \in StatementType /\ body[at].op = "arms"
  BY BodyTyped DEF Statements
<1>2. Tests(body[at].arms) \in SUBSET Test
  BY <1>1, ArmsTyped, ConditionsTyped
<1>3. \A t \in Tests(body[at].arms) : \A a \in t : a[1] \in Tested(body) \cap Col
  BY <1>2 DEF Tested, Arms, Test
<1>4. \A t \in Tests(body[at].arms) : \A a \in t : row[a[1]] = other[a[1]]
  BY <1>3
<1>. QED
  BY <1>4 DEF IsTrue

\* Where Go is in a body.
OnTheWay(body, row, s) == s \in GoState /\ \A k \in Tested(body) \cap Col : s.row[k] = row[k]

\* What a statement writes, for Go.
StatementWrites(body, row, at, s, new) ==
  /\ OnTheWay(body, row, new) /\ (at # Len(body) => new.ret = "none")
  /\ \A c \in Col \ ColumnsOf(SetOnTop(body)) : Writes(Columns(body, row, c), at, s.row[c], new.row[c])
  /\ \A c \in Col \cap ColumnsOf(SetOnTop(body)) :
       new.row[c] = IF body[at].op = "assign" /\ c \in ColumnsOf(body[at].block.set)
                    THEN Value(SetOnTop(body), c) ELSE s.row[c]
  /\ Writes(Links(body, row), at, s.rel, new.rel)

\* A chain writes what its only branch that applies does.
LEMMA ChainWrites ==
  ASSUME NEW body \in BodyType, FaithfulMutation(body), NEW row \in Row, NoNull(row),
         NEW at \in Statements(body, "arms"), NEW s, OnTheWay(body, row, s), s.ret = "none"
  PROVE  StatementWrites(body, row, at, s, GoChain(s, body[at]))
<1>. DEFINE stmt == body[at]
            new == GoChain(s, stmt)
            Is(b) == IsArm(b, stmt, at) \/ IsElse(b, stmt, at)
<1>1. at \in DOMAIN body /\ at \in Nat /\ at # 0 /\ stmt \in StatementType /\ stmt.op = "arms" /\ at \in Arms(body)
  BY BodyTyped DEF Statements, Arms
<1>2. \/ new = s /\ \A b : Is(b) => ~Holds(b.cond, row)
      \/ \E b, block : /\ Is(b) /\ Holds(b.cond, row) /\ block \in BlocksOf(stmt)
                       /\ b.set = block.set /\ b.rel = block.rel
                       /\ new = GoBlock(s, block)
                       /\ \A x : Is(x) /\ Holds(x.cond, row) => x = b
  BY <1>1, SameTests, ChainRuns DEF OnTheWay
<1>3. ASSUME NEW x \in Applies(body, row), x.at = at, x.set # {} \/ x.rel # Keep
      PROVE  Is(x) /\ Holds(x.cond, row)
  BY <1>1, <1>3, WritersAre DEF Applies
<1>4. ASSUME NEW x, Is(x), Holds(x.cond, row), x.set # {} \/ x.rel # Keep
      PROVE  x \in Applies(body, row) /\ x.at = at
  <2>1. x \in Range(StatementBranches(body, at))
    BY <1>1, <1>4, StatementCompiles DEF Observable
  <2>2. x.at = at
    BY <1>4 DEF IsArm, IsElse, branchFromBlock
  <2>. QED
    BY <1>1, <1>4, <2>1, <2>2, BodyCompiles DEF Applies
<1>5. stmt.op # "assign"
  BY <1>1
<1>6. \A set : (\E c \in Col : c \in ColumnsOf(set)) => set # {}
  BY DEF ColumnsOf
<1>7. CASE new = s /\ \A b : Is(b) => ~Holds(b.cond, row)
  <2>1. \A x \in Applies(body, row) : x.at = at => x.set = {} /\ x.rel = Keep
    BY <1>3, <1>7
  <2>. HIDE DEF new, Is
  <2>2. \A c \in Col : Writes(Columns(body, row, c), at, s.row[c], new.row[c])
    BY <1>6, <1>7, <2>1 DEF Writes, Columns
  <2>3. Writes(Links(body, row), at, s.rel, new.rel)
    BY <1>7, <2>1 DEF Writes, Links
  <2>. QED
    BY <1>1, <1>5, <1>7, <2>2, <2>3 DEF StatementWrites, new
<1>8. ASSUME NEW b, NEW block, Is(b), Holds(b.cond, row), block \in BlocksOf(stmt), b.set = block.set,
             b.rel = block.rel, new = GoBlock(s, block), \A x : Is(x) /\ Holds(x.cond, row) => x = b
      PROVE  StatementWrites(body, row, at, s, new)
  <2>1. /\ block.set \in Sets /\ block.rel \in Related \cup {Keep} /\ block.ret = "none"
        /\ block.set \subseteq SetInArms(body)
    <3>1. stmt.arms \in Seq(ArmType \cup BlockType) /\ stmt.other \in Seq(ArmType \cup BlockType)
      BY <1>1, ArmsTyped, SeqMonotonic
    <3>2. BlocksOf(stmt) = Range(stmt.arms) \cup Range(stmt.other)
      BY <3>1, BlocksAre
    <3>3. Range(stmt.arms) \subseteq ArmType \cup BlockType /\ Range(stmt.other) \subseteq ArmType \cup BlockType
      BY <3>1, RangeOfSeq
    <3>4. block \in ArmType \cup BlockType
      BY <1>8, <3>2, <3>3
    <3>5. block.set \in Sets /\ block.rel \in Related \cup {Keep}
      BY <3>4 DEF ArmType, BlockType
    <3>6. block.ret = "none"
      BY <1>1, <1>8 DEF FaithfulMutation
    <3>7. block.set \subseteq SetInArms(body)
      BY <1>1, <1>8 DEF SetInArms
    <3>. QED
      BY <3>5, <3>6, <3>7
  <2>2. /\ new \in GoState /\ new.ret = "none"
        /\ new.rel = IF block.rel = Keep THEN s.rel ELSE block.rel
        /\ \A c \in Col : new.row[c] = IF c \in ColumnsOf(block.set) THEN Value(block.set, c) ELSE s.row[c]
    BY <1>8, <2>1, BlockRuns DEF OnTheWay
  <2>3. /\ ColumnsOf(block.set) \cap Tested(body) = {}
        /\ ColumnsOf(block.set) \cap ColumnsOf(SetOnTop(body)) = {}
    <3>1. ColumnsOf(block.set) \subseteq ColumnsOf(SetInArms(body))
      BY <2>1 DEF ColumnsOf
    <3>2. ColumnsOf(SetInArms(body)) \subseteq ColumnsOf(SetInArms(body) \cup SetOnTop(body))
      BY DEF ColumnsOf
    <3>. QED
      BY <3>1, <3>2 DEF FaithfulMutation, Stable
  <2>. HIDE DEF new, Is
  <2>4. OnTheWay(body, row, new)
    BY <2>2, <2>3 DEF OnTheWay
  <2>5. ASSUME NEW c \in Col PROVE Writes(Columns(body, row, c), at, s.row[c], new.row[c])
    <3>1. CASE c \in ColumnsOf(b.set)
      <4>1. b \in Applies(body, row) /\ b.at = at
        BY <1>4, <1>6, <1>8, <3>1
      <4>2. <<b, Value(b.set, c)>> \in Columns(body, row, c)
        BY <3>1, <4>1 DEF Columns
      <4>3. new.row[c] = Value(b.set, c)
        BY <1>8, <2>2, <3>1
      <4>. QED
        BY <4>1, <4>2, <4>3 DEF Writes
    <3>2. CASE c \notin ColumnsOf(b.set)
      <4>1. new.row[c] = s.row[c]
        BY <1>8, <2>2, <3>2
      <4>2. \A x \in Applies(body, row) : x.at = at => c \notin ColumnsOf(x.set)
        BY <1>3, <1>6, <1>8, <3>2
      <4>. QED
        BY <4>1, <4>2 DEF Writes, Columns
    <3>. QED
      BY <3>1, <3>2
  <2>6. Writes(Links(body, row), at, s.rel, new.rel)
    <3>1. CASE b.rel # Keep
      <4>1. b \in Applies(body, row) /\ b.at = at
        BY <1>4, <1>8, <3>1
      <4>2. <<b, b.rel>> \in Links(body, row) /\ new.rel = b.rel
        BY <1>8, <2>2, <3>1, <4>1 DEF Links
      <4>. QED
        BY <4>1, <4>2 DEF Writes
    <3>2. CASE b.rel = Keep
      <4>1. new.rel = s.rel
        BY <1>8, <2>2, <3>2
      <4>2. \A x \in Applies(body, row) : x.at = at => x.rel = Keep
        BY <1>3, <1>8, <3>2
      <4>. QED
        BY <4>1, <4>2 DEF Writes, Links
    <3>. QED
      BY <3>1, <3>2
  <2>7. \A c \in Col \cap ColumnsOf(SetOnTop(body)) : new.row[c] = s.row[c]
    BY <2>2, <2>3
  <2>. QED
    BY <1>5, <2>2, <2>4, <2>5, <2>6, <2>7 DEF StatementWrites
<1>. HIDE DEF Is
<1>. QED
  BY <1>2, <1>7, <1>8

\* Every statement of a faithful mutation that Go gets to.
LEMMA StatementRuns ==
  ASSUME NEW body \in BodyType, FaithfulMutation(body), NEW row \in Row, NoNull(row),
         NEW at \in DOMAIN body, NEW s, OnTheWay(body, row, s), s.ret = "none"
  PROVE  StatementWrites(body, row, at, s, GoStatement(s, body[at]))
<1>. DEFINE stmt == body[at]
            new == GoStatement(s, stmt)
<1>1. stmt \in StatementType /\ at # 0
  BY BodyTyped
<1>2. CASE stmt.op = "arms"
  <2>1. at \in Statements(body, "arms") /\ new = GoChain(s, stmt)
    BY <1>2 DEF Statements, GoStatement
  <2>. QED
    BY <2>1, ChainWrites
<1>3. ASSUME stmt.op # "arms"
      PROVE  \A x \in Applies(body, row) : x.at = at => x.set = {} /\ x.rel = Keep
  <2>1. at \notin Statements(body, "arms")
    BY <1>3 DEF Statements
  <2>. QED
    BY <1>1, <2>1, WritersAre DEF Applies
<1>4. ASSUME stmt.op # "arms"
      PROVE  /\ \A c : \A w \in Columns(body, row, c) : w[1].at # at
             /\ \A w \in Links(body, row) : w[1].at # at
  BY <1>3, <1>4 DEF Columns, Links, ColumnsOf
<1>5. CASE stmt.op = "assign"
  <2>. DEFINE block == stmt.block
  <2>1. at \in Statements(body, "assign")
    BY <1>5 DEF Statements
  <2>2. /\ block \in BlockType /\ block.rel = Keep /\ block.ret = "none"
        /\ ColumnsOf(block.set) \subseteq ColumnsOf(SetOnTop(body))
        /\ \A c \in ColumnsOf(block.set) : Value(block.set, c) = Value(SetOnTop(body), c)
    BY <2>1, TopAssigns
  <2>3. new = GoBlock(s, block)
    BY <1>5 DEF GoStatement
  <2>4. /\ new \in GoState /\ new.ret = "none" /\ new.rel = s.rel
        /\ \A c \in Col : new.row[c] = IF c \in ColumnsOf(block.set) THEN Value(block.set, c) ELSE s.row[c]
    <3>1. block.set \in Sets /\ block.rel \in Related \cup {Keep} /\ block.ret \in {"true", "false", "bare", "none"}
      BY <2>2 DEF BlockType
    <3>. HIDE DEF block
    <3>. QED
      BY <2>2, <2>3, <3>1, BlockRuns DEF OnTheWay
  <2>5. ColumnsOf(SetOnTop(body)) \cap Tested(body) = {}
    <3>1. ColumnsOf(SetOnTop(body)) \subseteq ColumnsOf(SetInArms(body) \cup SetOnTop(body))
      BY DEF ColumnsOf
    <3>. QED
      BY <3>1 DEF FaithfulMutation, Stable
  <2>. HIDE DEF new, block
  <2>6. OnTheWay(body, row, new)
    BY <2>2, <2>4, <2>5 DEF OnTheWay
  <2>7. \A c \in Col \ ColumnsOf(SetOnTop(body)) : new.row[c] = s.row[c]
    BY <2>2, <2>4
  <2>8. \A c \in Col \ ColumnsOf(SetOnTop(body)) : Writes(Columns(body, row, c), at, s.row[c], new.row[c])
    BY <1>4, <1>5, <2>7 DEF Writes
  <2>9. Writes(Links(body, row), at, s.rel, new.rel)
    BY <1>4, <1>5, <2>4 DEF Writes
  <2>10. \A c \in Col \cap ColumnsOf(SetOnTop(body)) :
           new.row[c] = IF c \in ColumnsOf(block.set) THEN Value(SetOnTop(body), c) ELSE s.row[c]
    BY <2>2, <2>4
  <2>. QED
    BY <1>5, <2>4, <2>6, <2>8, <2>9, <2>10 DEF StatementWrites, new, block
<1>6. CASE stmt.op \in {"accept", "reject", "return"}
  <2>1. new.row = s.row /\ new.rel = s.rel /\ new \in GoState
    BY <1>6 DEF GoStatement, OnTheWay, GoState
  <2>2. at = Len(body)
    BY <1>6 DEF FaithfulMutation
  <2>. HIDE DEF new
  <2>3. OnTheWay(body, row, new)
    BY <2>1 DEF OnTheWay
  <2>4. /\ \A c \in Col \ ColumnsOf(SetOnTop(body)) : Writes(Columns(body, row, c), at, s.row[c], new.row[c])
        /\ Writes(Links(body, row), at, s.rel, new.rel)
    BY <1>4, <1>6, <2>1 DEF Writes
  <2>5. stmt.op # "assign"
    BY <1>6
  <2>. QED
    BY <2>1, <2>2, <2>3, <2>4, <2>5 DEF StatementWrites, new
<1>7. stmt.op \in {"arms", "assign", "accept", "reject", "return"}
  BY <1>1 DEF StatementType
<1>. QED
  BY <1>2, <1>5, <1>6, <1>7

\* What Go leaves: in a column of the top level what is assigned there, in another what
\* the last statement gave it whose branch applies, and the relation likewise.
LEMMA GoLeaves ==
  ASSUME NEW body \in BodyType, FaithfulMutation(body), NEW row \in Row, NoNull(row)
  PROVE  LET go == GoRun(body, row)
         IN /\ go.row \in Row
            /\ \A c \in Col \ ColumnsOf(SetOnTop(body)) :
                 LastOf(Columns(body, row, c), Len(body), row[c], go.row[c])
            /\ \A c \in Col \cap ColumnsOf(SetOnTop(body)) : go.row[c] = Value(SetOnTop(body), c)
            /\ LastOf(Links(body, row), Len(body), Keep, go.rel)
<1>. DEFINE n == Len(body)
            top == Col \cap ColumnsOf(SetOnTop(body))
            At(i, c) == body[i].op = "assign" /\ c \in ColumnsOf(body[i].block.set)
<1>1. n \in Nat /\ DOMAIN body = 1..n /\ \A i \in 1..n : body[i] \in StatementType
  BY BodyTyped
<1>2. PICK after : /\ GoRun(body, row) = after[n] /\ after[0] = GoStart(row)
                   /\ \A k \in 1..n : after[k] = GoStatement(after[k - 1], body[k])
  BY <1>1, GoSteps
<1>. DEFINE Good(k) == /\ OnTheWay(body, row, after[k]) /\ (k # n => after[k].ret = "none")
                       /\ \A c \in Col \ top : LastOf(Columns(body, row, c), k, row[c], after[k].row[c])
                       /\ \A c \in top : (\E i \in 1..k : At(i, c)) => after[k].row[c] = Value(SetOnTop(body), c)
                       /\ LastOf(Links(body, row), k, Keep, after[k].rel)
            S == {k \in Nat : k <= n => Good(k)}
<1>. HIDE DEF n
<1>3. 0 \in S
  <2>1. after[0].row = row /\ after[0].rel = Keep /\ after[0].ret = "none" /\ after[0] \in GoState
    BY <1>2 DEF GoStart, GoState
  <2>2. OnTheWay(body, row, after[0])
    BY <2>1 DEF OnTheWay
  <2>3. 1..0 = {}
    OBVIOUS
  <2>4. Good(0)
    BY <2>1, <2>2, <2>3 DEF LastOf
  <2>. HIDE DEF Good
  <2>. QED
    BY <2>4
<1>4. ASSUME NEW k \in Nat, k \in S PROVE k + 1 \in S
  <2>1. SUFFICES ASSUME k + 1 <= n PROVE Good(k + 1)
    <3>. HIDE DEF Good
    <3>. QED
      OBVIOUS
  <2>. DEFINE m == k + 1
              s == after[k]
              new == after[m]
  <2>2. k <= n /\ k # n /\ m \in 1..n /\ m - 1 = k /\ 1..m = (1..k) \cup {m}
    BY <1>1, <2>1
  <2>3. Good(k)
    <3>. HIDE DEF Good
    <3>. QED
      BY <1>4, <2>2
  <2>4. new = GoStatement(s, body[m])
    BY <1>2, <2>2
  <2>5. OnTheWay(body, row, s) /\ s.ret = "none"
    BY <2>2, <2>3
  <2>. HIDE DEF s, new
  <2>6. StatementWrites(body, row, m, s, new)
    BY <1>1, <2>2, <2>4, <2>5, StatementRuns
  <2>7. \A c \in Col \ top : LastOf(Columns(body, row, c), m, row[c], new.row[c])
    <3>1. ASSUME NEW c \in Col \ top PROVE LastOf(Columns(body, row, c), m, row[c], new.row[c])
      <4>1. LastOf(Columns(body, row, c), k, row[c], s.row[c])
        BY <2>3 DEF s
      <4>2. Writes(Columns(body, row, c), m, s.row[c], new.row[c])
        BY <2>6 DEF StatementWrites
      <4>. QED
        BY <4>1, <4>2, LastStep
    <3>. QED
      BY <3>1
  <2>8. LastOf(Links(body, row), m, Keep, new.rel)
    <3>1. LastOf(Links(body, row), k, Keep, s.rel)
      BY <2>3 DEF s
    <3>2. Writes(Links(body, row), m, s.rel, new.rel)
      BY <2>6 DEF StatementWrites
    <3>. QED
      BY <3>1, <3>2, LastStep
  <2>9. \A c \in top : (\E i \in 1..m : At(i, c)) => new.row[c] = Value(SetOnTop(body), c)
    <3>1. \A c \in top : (\E i \in 1..k : At(i, c)) => s.row[c] = Value(SetOnTop(body), c)
      BY <2>3 DEF s
    <3>2. \A c \in top : new.row[c] = IF At(m, c) THEN Value(SetOnTop(body), c) ELSE s.row[c]
      BY <2>6 DEF StatementWrites
    <3>. HIDE DEF At, m, top
    <3>. QED
      BY <2>2, <3>1, <3>2
  <2>10. OnTheWay(body, row, new) /\ (m # n => new.ret = "none")
    BY <2>6 DEF StatementWrites, n
  <2>. HIDE DEF At, top
  <2>. QED
    BY <2>7, <2>8, <2>9, <2>10 DEF new
<1>5. Good(n)
  <2>. HIDE DEF Good
  <2>1. \A k \in Nat : k \in S => k + 1 \in S
    BY <1>4
  <2>. HIDE DEF S
  <2>2. Nat \subseteq S
    BY <1>3, <2>1, Induction
  <2>3. n \in S /\ n <= n
    BY <1>1, <2>2
  <2>. QED
    BY <2>3 DEF S
<1>6. \A c \in top : \E i \in 1..n : At(i, c)
  <2>1. SetOnTop(body) = UNION {body[i].block.set : i \in Statements(body, "assign")}
    BY DEF SetOnTop, TopBlock
  <2>. QED
    BY <1>1, <2>1 DEF ColumnsOf, Statements
<1>7. after[n].row \in Row
  BY <1>5 DEF OnTheWay, GoState
<1>. HIDE DEF At
<1>8. \A c \in top : after[n].row[c] = Value(SetOnTop(body), c)
  BY <1>5, <1>6
<1>9. \A c \in Col \ ColumnsOf(SetOnTop(body)) : c \in Col \ top
  OBVIOUS
<1>10. /\ \A c \in Col \ ColumnsOf(SetOnTop(body)) : LastOf(Columns(body, row, c), n, row[c], after[n].row[c])
       /\ LastOf(Links(body, row), n, Keep, after[n].rel)
  <2>. HIDE DEF top
  <2>. QED
    BY <1>5, <1>9
<1>. QED
  BY <1>2, <1>7, <1>8, <1>10 DEF n

-----------------------------------------------------------------------------
(* The last branch that applies is the same for both.                      *)

\* The last of the branches in order that apply is of the last statement of those that
\* do, and no other of its statement applies.
LEMMA SameLast ==
  ASSUME NEW seq \in Seq(BranchType), InOrder(seq, Apart), NEW i \in DOMAIN seq, NEW j \in DOMAIN seq,
         NEW row, Holds(seq[i].cond, row), Holds(seq[j].cond, row),
         seq[i].at # 0, j <= i, seq[i].at <= seq[j].at
  PROVE  i = j
<1>1. DOMAIN seq \subseteq Nat /\ seq[i] \in BranchType /\ seq[j] \in BranchType
  BY LenProperties, ElementOfSeq
<1>2. SUFFICES ASSUME j < i PROVE FALSE
  BY <1>1
<1>3. <<seq[j], seq[i]>> \in Apart
  BY <1>2 DEF InOrder
<1>4. seq[j].at <= seq[i].at /\ seq[i].at \in Nat /\ seq[j].at \in Nat
  BY <1>1, <1>3 DEF Apart, BranchType
<1>5. seq[j].at = seq[i].at
  BY <1>4
<1>. QED
  BY <1>2, <1>5, LaterFails

\* The statements of a finished Update are those of the branches of its body.
LEMMA UpdatesAre ==
  ASSUME CallInv, phase # "called"
  PROVE  /\ \A x : x \in Range(Updates) <=> x \in Range(parseBody(call.body)) /\ x.set # {}
         /\ \A x : x \in Range(Relations) <=> x \in Range(parseBody(call.body)) /\ x.rel # Keep
<1>1. branches = parseBody(call.body)
  BY DEF CallInv
<1>. QED
  BY <1>1, CallCompiles

\* A column is left as Go would.
LEMMA ColumnFollows ==
  ASSUME CallInv, phase # "called", FaithfulMutation(call.body), NEW r \in Row, NoNull(r), NEW c \in Col,
         NEW new, WrittenBy(Met(Updates, Len(Updates), r), Updates, c, r, new)
  PROVE  new[c] = GoRun(call.body, r).row[c]
<1>. DEFINE body == call.body
            H == Met(Updates, Len(Updates), r)
            go == GoRun(body, r)
            top == SetOnTop(body)
            W == Columns(body, r, c)
            n == Len(body)
<1>1. /\ body \in BodyType /\ Updates \in Seq(BranchType) /\ InOrder(Updates, Apart)
      /\ DOMAIN Updates = 1..Len(Updates) /\ n \in Nat /\ DOMAIN body = 1..n
  BY CallCompiles, BodyTyped
<1>2. /\ c \notin ColumnsOf(top) => LastOf(W, n, r[c], go.row[c])
      /\ c \in ColumnsOf(top) => go.row[c] = Value(top, c)
  BY <1>1, GoLeaves
<1>3. \A i : i \in H <=> i \in DOMAIN Updates /\ Holds(Updates[i].cond, r)
  BY <1>1 DEF Met
<1>4. \A i \in DOMAIN Updates : Updates[i] \in Range(parseBody(body)) /\ Updates[i].set # {}
  BY UpdateIs
<1>5. ASSUME NEW x \in Range(parseBody(body)), x.set # {} PROVE \E i \in DOMAIN Updates : x = Updates[i]
  <2>1. x \in Range(Updates)
    BY <1>5, UpdatesAre
  <2>. QED
    BY <2>1 DEF Range
<1>6. ASSUME NEW x \in Range(parseBody(body)), c \in ColumnsOf(x.set)
      PROVE  /\ c \in ColumnsOf(top) => x.set = top
             /\ c \notin ColumnsOf(top) => x.at # 0 /\ x.at \in 1..n
  <2>1. x.set # {}
    BY <1>6 DEF ColumnsOf
  <2>2. \/ x.set = top
        \/ x.at \in Statements(body, "arms") /\ x.at # 0 /\ x.set \subseteq SetInArms(body)
    BY <1>1, <2>1, WritersAre
  <2>3. x.set \subseteq SetInArms(body) => c \in ColumnsOf(SetInArms(body))
    BY <1>6 DEF ColumnsOf
  <2>4. ColumnsOf(SetInArms(body)) \cap ColumnsOf(top) = {}
    BY DEF FaithfulMutation
  <2>5. Statements(body, "arms") \subseteq 1..n
    BY <1>1 DEF Statements
  <2>. QED
    BY <1>6, <2>2, <2>3, <2>4, <2>5
<1>7. \/ (\A i \in H : c \notin ColumnsOf(Updates[i].set)) /\ new[c] = r[c]
      \/ \E i \in H : /\ c \in ColumnsOf(Updates[i].set) /\ new[c] = Value(Updates[i].set, c)
                      /\ \A j \in H : c \in ColumnsOf(Updates[j].set) => j <= i
  BY DEF WrittenBy
<1>8. CASE c \in ColumnsOf(top)
  <2>. DEFINE last == LastBranch(body)
  <2>1. last.set = top /\ last.cond = Nil /\ top # {}
    BY <1>8 DEF LastBranch, branchFromBlock, SetOnTop, ColumnsOf
  <2>2. last \in Range(parseBody(body))
    BY <1>1, <2>1, BodyCompiles DEF Observable
  <2>3. PICK k \in DOMAIN Updates : last = Updates[k]
    BY <1>5, <2>1, <2>2
  <2>4. Holds(Nil, r)
    BY DEF Holds, Nil, exclusiveCondition
  <2>5. k \in H /\ c \in ColumnsOf(Updates[k].set)
    BY <1>3, <1>8, <2>1, <2>3, <2>4
  <2>6. PICK i \in H : c \in ColumnsOf(Updates[i].set) /\ new[c] = Value(Updates[i].set, c)
    BY <1>7, <2>5
  <2>7. Updates[i].set = top
    BY <1>3, <1>4, <1>6, <1>8, <2>6
  <2>. QED
    BY <1>2, <1>8, <2>6, <2>7
<1>9. CASE c \notin ColumnsOf(top)
  <2>1. \/ (\A w \in W : w[1].at \notin 1..n) /\ go.row[c] = r[c]
        \/ \E w \in W : /\ w[1].at \in 1..n /\ go.row[c] = w[2]
                        /\ \A u \in W : u[1].at \in 1..n => u[1].at <= w[1].at
    BY <1>2, <1>9 DEF LastOf
  <2>2. ASSUME NEW w \in W
        PROVE  \E i \in H : w = <<Updates[i], Value(Updates[i].set, c)>> /\ c \in ColumnsOf(Updates[i].set)
    <3>1. PICK x \in Applies(body, r) : c \in ColumnsOf(x.set) /\ w = <<x, Value(x.set, c)>>
      BY DEF Columns
    <3>2. x \in Range(parseBody(body)) /\ Holds(x.cond, r) /\ x.set # {}
      BY <3>1 DEF Applies, ColumnsOf
    <3>3. PICK i \in DOMAIN Updates : x = Updates[i]
      BY <1>5, <3>2
    <3>. QED
      BY <1>3, <3>1, <3>2, <3>3
  <2>3. ASSUME NEW i \in H, c \in ColumnsOf(Updates[i].set)
        PROVE  <<Updates[i], Value(Updates[i].set, c)>> \in W /\ Updates[i].at \in 1..n /\ Updates[i].at # 0
    <3>1. Updates[i] \in Range(parseBody(body)) /\ Holds(Updates[i].cond, r)
      BY <1>3, <1>4
    <3>2. Updates[i].at # 0 /\ Updates[i].at \in 1..n
      BY <1>6, <1>9, <2>3, <3>1
    <3>. QED
      BY <2>3, <3>1, <3>2 DEF Columns, Applies
  <2>. HIDE DEF W, H, n, go
  <2>4. CASE (\A i \in H : c \notin ColumnsOf(Updates[i].set)) /\ new[c] = r[c]
    <3>1. W = {}
      BY <2>2, <2>4
    <3>. QED
      BY <2>1, <2>4, <3>1 DEF go
  <2>5. ASSUME NEW i \in H, c \in ColumnsOf(Updates[i].set), new[c] = Value(Updates[i].set, c),
               \A j \in H : c \in ColumnsOf(Updates[j].set) => j <= i
        PROVE  new[c] = go.row[c]
    <3>. DEFINE v == <<Updates[i], Value(Updates[i].set, c)>>
    <3>1. v \in W /\ v[1].at \in 1..n /\ v[1] = Updates[i] /\ Updates[i].at # 0
      BY <2>3, <2>5
    <3>2. PICK w \in W : /\ w[1].at \in 1..n /\ go.row[c] = w[2]
                         /\ \A u \in W : u[1].at \in 1..n => u[1].at <= w[1].at
      <4>. HIDE DEF v
      <4>. QED
        BY <2>1, <3>1
    <3>3. PICK j \in H : w = <<Updates[j], Value(Updates[j].set, c)>> /\ c \in ColumnsOf(Updates[j].set)
      BY <2>2
    <3>4. v[1].at <= w[1].at
      <4>. HIDE DEF v
      <4>. QED
        BY <3>1, <3>2
    <3>5. Updates[i].at <= Updates[j].at
      BY <3>3, <3>4
    <3>6. i = j
      BY <1>1, <1>3, <2>5, <3>1, <3>3, <3>5, SameLast
    <3>. QED
      BY <2>5, <3>2, <3>3, <3>6
  <2>. QED
    BY <1>7, <2>4, <2>5 DEF go
<1>. QED
  BY <1>8, <1>9

\* A relation is left as Go would.
LEMMA RelationFollows ==
  ASSUME CallInv, phase # "called", FaithfulMutation(call.body), NEW r \in Row, NoNull(r),
         NEW to, LinkedBy(Met(Relations, Len(Relations), r), Relations, to)
  PROVE  to = GoRun(call.body, r).rel
<1>. DEFINE body == call.body
            H == Met(Relations, Len(Relations), r)
            go == GoRun(body, r)
            W == Links(body, r)
            n == Len(body)
<1>1. /\ body \in BodyType /\ Relations \in Seq(BranchType) /\ InOrder(Relations, Apart)
      /\ DOMAIN Relations = 1..Len(Relations) /\ n \in Nat /\ DOMAIN body = 1..n
  BY CallCompiles, BodyTyped
<1>2. LastOf(W, n, Keep, go.rel)
  BY <1>1, GoLeaves
<1>3. \A i : i \in H <=> i \in DOMAIN Relations /\ Holds(Relations[i].cond, r)
  BY <1>1 DEF Met
<1>4. \A i \in DOMAIN Relations : Relations[i] \in Range(parseBody(body)) /\ Relations[i].rel # Keep
  BY UpdatesAre DEF Range
<1>5. ASSUME NEW x \in Range(parseBody(body)), x.rel # Keep PROVE \E i \in DOMAIN Relations : x = Relations[i]
  <2>1. x \in Range(Relations)
    BY <1>5, UpdatesAre
  <2>. QED
    BY <2>1 DEF Range
<1>6. LastBranch(body).rel = Keep
  <2>1. {i \in Statements(body, "assign") : body[i].block.rel # Keep} = {}
    BY DEF FaithfulMutation
  <2>2. TopBlock(body).rel = Keep
    BY <2>1 DEF TopBlock
  <2>. QED
    BY <2>2 DEF LastBranch, branchFromBlock
<1>7. ASSUME NEW x \in Range(parseBody(body)), x.rel # Keep PROVE x.at # 0 /\ x.at \in 1..n
  <2>1. x.at \in Statements(body, "arms") /\ x.at # 0
    BY <1>1, <1>6, <1>7, WritersAre
  <2>. QED
    BY <1>1, <2>1 DEF Statements
<1>8. \/ H = {} /\ to = Keep
      \/ \E i \in H : to = Relations[i].rel /\ \A j \in H : j <= i
  BY DEF LinkedBy
<1>9. \/ (\A w \in W : w[1].at \notin 1..n) /\ go.rel = Keep
      \/ \E w \in W : /\ w[1].at \in 1..n /\ go.rel = w[2]
                      /\ \A u \in W : u[1].at \in 1..n => u[1].at <= w[1].at
  BY <1>2 DEF LastOf
<1>10. ASSUME NEW w \in W PROVE \E i \in H : w = <<Relations[i], Relations[i].rel>>
  <2>1. PICK x \in Applies(body, r) : x.rel # Keep /\ w = <<x, x.rel>>
    BY DEF Links
  <2>2. x \in Range(parseBody(body)) /\ Holds(x.cond, r)
    BY <2>1 DEF Applies
  <2>3. PICK i \in DOMAIN Relations : x = Relations[i]
    BY <1>5, <2>1, <2>2
  <2>. QED
    BY <1>3, <2>1, <2>2, <2>3
<1>11. ASSUME NEW i \in H
       PROVE  <<Relations[i], Relations[i].rel>> \in W /\ Relations[i].at \in 1..n /\ Relations[i].at # 0
  <2>1. Relations[i] \in Range(parseBody(body)) /\ Holds(Relations[i].cond, r) /\ Relations[i].rel # Keep
    BY <1>3, <1>4
  <2>2. Relations[i].at # 0 /\ Relations[i].at \in 1..n
    BY <1>7, <2>1
  <2>. QED
    BY <2>1, <2>2 DEF Links, Applies
<1>. HIDE DEF W, H, n, go
<1>12. CASE H = {} /\ to = Keep
  <2>1. W = {}
    BY <1>10, <1>12
  <2>. QED
    BY <1>9, <1>12, <2>1 DEF go
<1>13. ASSUME NEW i \in H, to = Relations[i].rel, \A j \in H : j <= i
       PROVE  to = go.rel
  <2>. DEFINE v == <<Relations[i], Relations[i].rel>>
  <2>1. v \in W /\ v[1].at \in 1..n /\ Relations[i].at # 0
    BY <1>11
  <2>2. PICK w \in W : /\ w[1].at \in 1..n /\ go.rel = w[2]
                       /\ \A u \in W : u[1].at \in 1..n => u[1].at <= w[1].at
    <3>. HIDE DEF v
    <3>. QED
      BY <1>9, <2>1
  <2>3. PICK j \in H : w = <<Relations[j], Relations[j].rel>>
    BY <1>10
  <2>4. v[1].at <= w[1].at
    <3>. HIDE DEF v
    <3>. QED
      BY <2>1, <2>2
  <2>5. Relations[i].at <= Relations[j].at
    BY <2>3, <2>4
  <2>6. i = j
    BY <1>1, <1>3, <1>13, <2>1, <2>5, SameLast
  <2>. QED
    BY <1>13, <2>2, <2>3, <2>6
<1>. QED
  BY <1>8, <1>12, <1>13 DEF go

\* At the start nothing is written.
LEMMA UpdateStarts ==
  ASSUME Init
  PROVE  UpdateInv
BY DEF Init, UpdateInv

\* An Update that is done left every row without NULL that no other session wrote as
\* the lambda run by Go on it would, columns and relation: one statement per branch, each
\* under its own condition and against what the statements before it left, and then the
\* relations, add up to the Go function, for faithful mutations of any length.
THEOREM UpdatesFollow == Spec => []UpdateFollowsGo
<1>. DEFINE Inv == CallInv /\ HitInv /\ UpdateInv
<1>1. Init => Inv
  BY CallStarts, HitsStart, UpdateStarts
<1>2. Inv /\ [Next]_vars => Inv'
  BY CallStep, HitsStep, UpdateStep
<1>3. Inv => UpdateFollowsGo
  <2>1. SUFFICES ASSUME CallInv, UpdateInv, call.kind = "update", phase = "done", FaithfulMutation(call.body),
                        NEW r \in Row \ foreign, NoNull(r)
                 PROVE  table[r] = GoRun(call.body, r).row /\ link[r] = GoRun(call.body, r).rel
    BY DEF UpdateFollowsGo
  <2>2. /\ \A c \in Col : WrittenBy(Met(Updates, Len(Updates), r), Updates, c, r, table[r])
        /\ LinkedBy(Met(Relations, Len(Relations), r), Relations, link[r])
    BY <2>1 DEF UpdateInv, FaithfulMutation
  <2>3. \A c \in Col : table[r][c] = GoRun(call.body, r).row[c]
    BY <2>1, <2>2, ColumnFollows
  <2>4. link[r] = GoRun(call.body, r).rel
    BY <2>1, <2>2, RelationFollows
  <2>5. table[r] \in Row /\ GoRun(call.body, r).row \in Row
    BY <2>1, CallCompiles, GoLeaves DEF CallInv, TypeOK
  <2>. QED
    BY <2>3, <2>4, <2>5 DEF Row
<1>. HIDE DEF Inv
<1>. QED
  BY <1>1, <1>2, <1>3, PTL DEF Spec

=============================================================================
