------------------------------- MODULE Statement -------------------------------
(***************************************************************************)
(* The statements the builders of src/query render from a parsed lambda:   *)
(* the aliases, the joins, the clauses in the order they are emitted, the  *)
(* placeholders drawn while they are, and the values bound to them.        *)
(*                                                                         *)
(* A statement is a sequence of tokens.  Every token has a sort and holds  *)
(* the tokens written inside it; what the engines' grammars do not tell    *)
(* apart (column lists, quoting, operators) is left out.  A column carries *)
(* the row the lambda meant by it, and a placeholder the value, so that    *)
(* what is rendered can be compared with what was written.                 *)
(*                                                                         *)
(* The operators below are the builders; a result is the state of the      *)
(* statement, the text, the bound values, and whether no error came back.  *)
(* An optional value is a sequence of at most one.                         *)
(***************************************************************************)
EXTENDS Integers, Sequences, FiniteSets, SequencesExt, Functions

CONSTANTS
  Relation,  \* relation |-> [name, from, to, kind, bridge]
  Letter,    \* table |-> the letter its aliases start with
  Fields     \* table |-> the names of its fields, by which a query can be sorted

ASSUME RelationAssumption ==
  \A r \in DOMAIN Relation : /\ Relation[r].kind \in {"M2O", "O2M", "M2M"}
                             /\ {Relation[r].from, Relation[r].to} \subseteq DOMAIN Letter

(***************************************************************************)
(* References.  A handle (a parameter of the lambda) stands for a row of   *)
(* its table; `at' is the path of the row when a join bound the handle.    *)
(***************************************************************************)
TableOf(ref) == IF ref.path = <<>> THEN ref.table ELSE Relation[Last(ref.path)].to
Path(ref) == ref.at \o ref.path
Row(ref) == <<ref.root, Path(ref)>>
Hops(ref) == [i \in DOMAIN ref.path |->
                [root |-> ref.root, rel |-> ref.path[i],
                 source |-> ref.at \o SubSeq(ref.path, 1, i - 1),
                 target |-> ref.at \o SubSeq(ref.path, 1, i)]]

RECURSIVE ValueRefs(_)
ValueRefs(v) == CASE v.k = "expr" -> ValueRefs(v.l) \o ValueRefs(v.r)
                  [] v.k = "col"  -> <<v.ref>>
                  [] v.k = "bind" -> <<>>

RefsOf(values) == FlattenSeq([i \in DOMAIN values |-> ValueRefs(values[i])])

\* The relations a condition reaches through, each path once, in the order
\* met.  A nested query joins within itself.
RECURSIVE Refs(_)
Refs(node) ==
  CASE node.k \in {"and", "or", "not"} -> FlattenSeq([i \in DOMAIN node.kids |-> Refs(node.kids[i])])
    [] node.k = "cmp" -> RefsOf(node.left \o node.rights)
    [] OTHER -> <<>>
Reached(node) == FlattenSeq([i \in DOMAIN Refs(node) |-> Hops(Refs(node)[i])])

Names(path) == [i \in DOMAIN path |-> IF path[i] \in DOMAIN Relation THEN Relation[path[i]].name
                                                                   ELSE path[i]]
CollectJoins(node) ==
  FoldLeft(LAMBDA hops, hop : IF \E i \in DOMAIN hops : Names(hops[i].target) = Names(hop.target) THEN hops
                              ELSE Append(hops, hop),
           <<>>, Reached(node))

(***************************************************************************)
(* The statement under construction: the engine, the alias of every        *)
(* occurrence of a table, and the number of the last placeholder.  The     *)
(* k-th alias of a letter is <<letter, k>>; <<table, 0>> is the name of a  *)
(* pinned table.                                                           *)
(***************************************************************************)
NewStmt(engine) == [engine |-> engine, alias |-> <<>>, n |-> 0]

Key(path, table) == <<table, Names(path)>>
\* Variation: the aliases of a letter are counted for each table.
ClaimByTable(s, path, table) ==
  LET key == Key(path, table)
      n == 1 + Cardinality({k \in DOMAIN s.alias : k[1] = table})
  IN IF key \in DOMAIN s.alias THEN s
     ELSE [s EXCEPT !.alias = [x \in DOMAIN @ \cup {key} |-> IF x = key THEN <<Letter[table], n>> ELSE @[x]]]
Claim(s, path, table) ==
  LET key == Key(path, table)
      letter == Letter[table]
      n == CHOOSE k \in 1 .. Cardinality(DOMAIN s.alias) + 1 :
             /\ <<letter, k>> \notin Range(s.alias)
             /\ \A j \in 1 .. k - 1 : <<letter, j>> \in Range(s.alias)
  IN IF key \in DOMAIN s.alias THEN s
     ELSE [s EXCEPT !.alias = [x \in DOMAIN @ \cup {key} |-> IF x = key THEN <<letter, n>> ELSE @[x]]]
AliasFor(s, path, table) == Claim(s, path, table).alias[Key(path, table)]
Assigned(s, table) == Key(<<>>, table) \in DOMAIN s.alias
PinTableName(s, table) ==
  [s EXCEPT !.alias = [x \in DOMAIN @ \cup {Key(<<>>, table)} |->
                         IF x = Key(<<>>, table) THEN <<table, 0>> ELSE @[x]]]
FreshAliases(s) == [s EXCEPT !.alias = <<>>]

(* What the engines differ in. *)
Numbered(engine) == engine = "postgres"
SupportsUpdateFrom(engine) == engine # "mysql"
SupportsCTE(engine) == engine # "no with"
SupportsJoinType(engine, kind) == engine # "mysql" \/ kind # "FULL"

(* Tokens and results. *)
Use(alias, row, col) == [t |-> "use", alias |-> alias, row |-> row, col |-> col, in |-> <<>>]
Table(alias, row)    == [t |-> "table", alias |-> alias, row |-> row, comma |-> FALSE, in |-> <<>>]
Comma(table)         == [table EXCEPT !.comma = TRUE]
Join(alias, row, on) == [t |-> "join", alias |-> alias, row |-> row, comma |-> FALSE, own |-> <<>>, in |-> on]
Equal(a, b)          == [t |-> "equal", in |-> <<a, b>>]
Operator(op)         == [t |-> op, in |-> <<>>]
Paren(sql)           == [t |-> "paren", in |-> sql]
Test(node, sql)      == [t |-> "test", node |-> node, in |-> sql]
Clause(kw, sql)      == [t |-> "clause", kw |-> kw, in |-> sql]
Group(sql)           == [t |-> "group", in |-> sql]
Nested(cond, sql)    == [t |-> "nested", cond |-> cond, in |-> sql]       \* sees the rows outside it
Alone(cond, sql)     == [t |-> "alone", cond |-> cond, in |-> sql]        \* a statement of its own

Text(s, sql) == [s |-> s, sql |-> sql, args |-> <<>>, ok |-> TRUE]
Refused(s) == [Text(s, <<>>) EXCEPT !.ok = FALSE]
\* The first error ends the rendering.
Cat(a, b) == IF ~a.ok THEN a
             ELSE [s |-> b.s, sql |-> a.sql \o b.sql, args |-> a.args \o b.args, ok |-> b.ok]
EachIn(Render(_, _), items, s) ==
  LET upTo[i \in 0 .. Len(items)] ==
        IF i = 0 THEN Text(s, <<>>)
        ELSE LET r == upTo[i - 1] IN Cat(r, Render(items[i], r.s))
  IN upTo[Len(items)]
\* The elements of a sequence, each where it first occurs.
ToSeqOnce(items) == FoldLeft(LAMBDA seq, x : IF \E i \in DOMAIN seq : seq[i] = x THEN seq ELSE Append(seq, x),
                             <<>>, items)
Wrap(r, Token(_)) == [r EXCEPT !.sql = <<Token(r.sql)>>]

Placeholder(engine, n) == IF Numbered(engine) THEN n ELSE 0
Mark(s, bind) ==
  Text([s EXCEPT !.n = s.n + 1],
       <<[t |-> "mark", n |-> Placeholder(s.engine, s.n + 1), bind |-> bind, in |-> <<>>]>>)
Bind(bind, s) == [Mark(s, bind) EXCEPT !.args = <<bind>>]

Column(ref, s) ==
  LET c == Claim(s, Path(ref), TableOf(ref))
  IN Text(c, <<Use(AliasFor(c, Path(ref), TableOf(ref)), Row(ref), ref.col)>>)

RECURSIVE ValueSQL(_, _)
ValueSQL(v, s) == CASE v.k = "expr" -> LET left == ValueSQL(v.l, s) IN Cat(left, ValueSQL(v.r, left.s))
                    [] v.k = "col"  -> Column(v.ref, s)
                    [] v.k = "bind" -> Bind(v.bind, s)

\* The row of a handle that no join bound, and the table in a FROM clause.
Whole(root) == <<root, <<>>>>
Own(root, table, s, col) == Use(AliasFor(s, <<>>, table), Whole(root), col)
From(root, table, s) == Text(Claim(s, <<>>, table), <<Table(AliasFor(s, <<>>, table), Whole(root))>>)

(***************************************************************************)
(* Projections, options and joins.                                         *)
(***************************************************************************)

\* One projected column; COUNT of nothing counts rows, or `distinct' keys.
SelectExpr(sel, distinct, s) ==
  IF sel.value # <<>> THEN ValueSQL(sel.value[1], s)
  ELSE IF sel.func = "Count" THEN Text(s, distinct) ELSE Refused(s)

Paging(opts, s) ==
  LET limit == EachIn(Bind, opts.limit, s)
  IN Cat(limit, EachIn(Bind, opts.offset, limit.s))

\* ORDER BY a field of the table the query reads, found before the page.
SortsByField(q) == Range(q.opts.sorts) \subseteq Fields[q.table]
OptionsTail(q, s) ==
  LET sorts == Text(s, [i \in DOMAIN q.opts.sorts |-> Own(q.root, q.table, s, q.opts.sorts[i])])
  IN IF SortsByField(q) THEN Cat(sorts, Paging(q.opts, s)) ELSE Refused(s)

\* ORDER BY a column the query projects, by its name.
ProjectionTail(select, opts, s) ==
  IF \A i \in DOMAIN opts.sorts : \E j \in DOMAIN select : select[j].into = opts.sorts[i]
  THEN Paging(opts, s) ELSE Refused(s)

\* The tables a hop is rendered with, in the order their aliases are claimed.
HopTables(hop, rel) ==
  <<<<hop.source, rel.from>>>>
    \o (IF rel.kind = "M2M" THEN <<<<Append(hop.target, "@bridge"), rel.bridge>>>> ELSE <<>>)
    \o <<<<hop.target, rel.to>>>>
Claimed(tables, s) == FoldLeft(LAMBDA st, table : Claim(st, table[1], table[2]), s, tables)

HopJoins(hop, rel, s) ==
  LET At(path, table, col) == Use(AliasFor(s, path, table), <<hop.root, path>>, col)
      Joined(path, table, on) == Join(AliasFor(s, path, table), <<hop.root, path>>, <<on>>)
      bridge == Append(hop.target, "@bridge")
  IN CASE rel.kind = "M2O" -> <<Joined(hop.target, rel.to,
            Equal(At(hop.source, rel.from, "fk"), At(hop.target, rel.to, "pk")))>>
       [] rel.kind = "O2M" -> <<Joined(hop.target, rel.to,
            Equal(At(hop.target, rel.to, "fk"), At(hop.source, rel.from, "pk")))>>
       [] rel.kind = "M2M" ->
            <<Joined(bridge, rel.bridge, Equal(At(bridge, rel.bridge, "fk"), At(hop.source, rel.from, "pk"))),
              Joined(hop.target, rel.to, Equal(At(hop.target, rel.to, "pk"), At(bridge, rel.bridge, "ref")))>>
TextOf(hop, s) == Text(s, HopJoins(hop, Relation[hop.rel], s))
JoinClauseOf(hop, s) == TextOf(hop, Claimed(HopTables(hop, Relation[hop.rel]), s))

JoinClauses(cond, s) == EachIn(JoinClauseOf, CollectJoins(cond), s)
JoinClausesIf(conds, s) == EachIn(JoinClauses, conds, s)

\* The source's columns, the FROM table and the condition that relates them.
UpdateFromClause(hop, s) == IF Relation[hop.rel].kind = "M2M" THEN Refused(s) ELSE JoinClauseOf(hop, s)

\* Extra models are listed after the table; one an explicit join brings is not.
JoinsTable(opts, table) == \E i \in DOMAIN opts.joins : opts.joins[i].table = table
FromList(q, s) ==
  LET extra(i) == LET p == q.joined[i] IN
        /\ p.table # q.table /\ ~JoinsTable(q.opts, p.table)
        /\ \A j \in 1 .. i - 1 : q.joined[j].table # p.table
      Listed(i, st) ==
        IF i = 0 THEN From(q.root, q.table, st)
        ELSE Wrap(From(q.joined[i].root, q.joined[i].table, st), LAMBDA sql : Comma(sql[1]))
  IN EachIn(Listed, <<0>> \o SelectSeq([i \in DOMAIN q.joined |-> i], extra), s)

\* A derived table, common table expression or branch is rendered with
\* aliases of its own; the placeholders go on counting.
InOwnScope(Render(_), s) == LET r == Render(FreshAliases(s)) IN [r EXCEPT !.s.alias = s.alias]

(***************************************************************************)
(* Conditions, and the queries nested in them.                             *)
(***************************************************************************)
\* The builders call each other: a part of a statement is rendered from a
\* condition or a query.
RECURSIVE Render(_, _, _)
WhereClauses(conds, s) == EachIn(LAMBDA cond, st : Render("condition", cond, st), conds, s)
Clauses(parts, q, s)   == EachIn(LAMBDA part, st : Render(part, q, st), parts, s)

\* A list of values is bound whatever its elements are; other values are
\* rendered.
Rights(node, s) ==
  IF node.sub # <<>> THEN Render("subquery", node.sub[1], s)
  ELSE IF node.list THEN EachIn(LAMBDA v, st : Bind(IF v.k = "bind" THEN v.bind ELSE "nil", st), node.rights, s)
  ELSE EachIn(ValueSQL, node.rights, s)

SubQuery(q, s) ==
  IF Assigned(s, q.table) THEN Refused(s)
  ELSE Wrap(Clauses(<<IF q.func = "Exists" THEN "one" ELSE "field", "table", "joins", "where", "page">>, q, s),
            LAMBDA sql : Nested(q.cond, sql))

\* The rows of a collection: the target's, or the join table's and through
\* them the target's, tied to the source's row, and the filter in brackets.
ExistsFrom(e, rel, bridge, s) ==
  IF rel.kind = "M2M"
  THEN <<Table(AliasFor(s, <<>>, rel.bridge), Whole(bridge)),
         Join(AliasFor(s, <<>>, rel.to), Whole(e.item),
              <<Equal(Own(e.item, rel.to, s, "pk"), Own(bridge, rel.bridge, s, "ref"))>>)>>
  ELSE <<Table(AliasFor(s, <<>>, rel.to), Whole(e.item))>>
ExistsTie(e, rel, bridge, s) ==
  Equal(IF rel.kind = "M2M" THEN Own(bridge, rel.bridge, s, "fk") ELSE Own(e.item, rel.to, s, "fk"),
        Use(AliasFor(s, <<>>, rel.from), <<e.root, e.at>>, "pk"))
ExistsTables(rel) == (IF rel.kind = "M2M" THEN <<<<<<>>, rel.bridge>>>> ELSE <<>>)
                       \o <<<<<<>>, rel.to>>, <<<<>>, rel.from>>>>
ExistsText(e, rel, bridge, joins, where) ==
  [Cat(joins, where) EXCEPT !.sql = <<Nested(e.cond,
     ExistsFrom(e, rel, bridge, joins.s) \o joins.sql
       \o <<Clause("WHERE", <<ExistsTie(e, rel, bridge, joins.s)>>
              \o IF e.cond = <<>> THEN <<>> ELSE <<Operator("and"), Paren(where.sql)>>)>>)>>]
ExistsWhere(e, rel, joins) == ExistsText(e, rel, e.item \o " bridge", joins, WhereClauses(e.cond, joins.s))
ExistsBody(e, rel, s) ==
  IF Assigned(s, rel.to) \/ (rel.kind = "M2M" /\ Assigned(s, rel.bridge)) THEN Refused(s)
  ELSE ExistsWhere(e, rel, JoinClausesIf(e.cond, Claimed(ExistsTables(rel), s)))
ExistsClause(e, s) == ExistsBody(e, Relation[e.rel], s)

LeafClause(node, s) ==
  CASE node.k = "exists" -> ExistsClause(node, s)
    [] node.k = "sub"    -> Render("subquery", node.sub[1], s)
    [] node.k = "cmp"    -> LET Side(side, st) == IF side = "left" THEN EachIn(ValueSQL, node.left, st)
                                                                  ELSE Rights(node, st)
                            IN EachIn(Side, <<"left", "right">>, s)

WhereClause(node, s) ==
  LET Kid(i, st) == LET r == Wrap(Render("condition", node.kids[i], st), Paren)
                    IN IF i = 1 THEN r ELSE [r EXCEPT !.sql = <<Operator(node.k)>> \o @]
  IN CASE node.k = "not" -> LET r == Render("condition", node.kids[1], s)
                            IN [r EXCEPT !.sql = <<Operator("not"), Paren(@)>>]
       [] node.k \in {"and", "or"} -> EachIn(Kid, [i \in DOMAIN node.kids |-> i], s)
       [] OTHER -> Wrap(LeafClause(node, s), LAMBDA sql : Test(node, sql))

\* WHERE or HAVING, when there is something to test.
Filter(kw, conds, s) ==
  LET r == WhereClauses(conds, s)
  IN IF conds = <<>> THEN r ELSE Wrap(r, LAMBDA sql : Clause(kw, sql))

(***************************************************************************)
(* SELECT: definitions, columns, tables, declared joins, derived joins,    *)
(* WHERE, GROUP BY, HAVING, ORDER BY and the page, in that order.          *)
(***************************************************************************)

\* A declared join: by a path, one JOIN for each hop and the condition with
\* the last; or by the condition alone.
LastOn(joins, on, own) ==
  [joins EXCEPT ![Len(joins)].own = own,
                ![Len(joins)].in = @ \o (IF own = <<>> THEN <<>> ELSE <<Operator("and")>>) \o on]
OnHops(join, hops, on) == [Cat(hops, on) EXCEPT !.sql = LastOn(hops.sql, on.sql, join.on)]
PathJoin(join, s) ==
  LET hops == EachIn(JoinClauseOf, join.hops, s)
  IN OnHops(join, hops, WhereClauses(join.on, hops.s))

JoinedOn(join, on, table) == [on EXCEPT !.s = table.s,
  !.sql = <<[Join(table.sql[1].alias, table.sql[1].row, @) EXCEPT !.own = join.on]>>]
ConditionJoin(join, s) ==
  LET on == WhereClauses(join.on, s) IN JoinedOn(join, on, From(join.root, join.table, on.s))

ExplicitJoin(join, s) == IF ~SupportsJoinType(s.engine, join.kind) THEN Refused(s)
                         ELSE IF join.hops # <<>> THEN PathJoin(join, s) ELSE ConditionJoin(join, s)
ExplicitJoins(opts, s) == EachIn(ExplicitJoin, opts.joins, s)

\* The conditions over rows and those over groups come apart only across AND.
RECURSIVE HasAggregate(_), SplitHaving(_)
HasAggregate(node) == \/ node.k = "cmp" /\ node.agg
                      \/ node.k \in {"and", "or", "not"} /\ \E i \in DOMAIN node.kids : HasAggregate(node.kids[i])
CombineAnd(nodes) == IF Len(nodes) < 2 THEN nodes ELSE <<[k |-> "and", kids |-> nodes]>>
\* Variation: the conditions come apart across OR and NOT as well.
SplitAnywhere(node) ==
  IF ~HasAggregate(node) THEN [where |-> <<node>>, having |-> <<>>, ok |-> TRUE]
  ELSE IF node.k = "cmp" THEN [where |-> <<>>, having |-> <<node>>, ok |-> TRUE]
  ELSE LET parts == [i \in DOMAIN node.kids |-> SplitHaving(node.kids[i])]
       IN [where  |-> CombineAnd(FlattenSeq([i \in DOMAIN parts |-> parts[i].where])),
           having |-> CombineAnd(FlattenSeq([i \in DOMAIN parts |-> parts[i].having])),
           ok     |-> TRUE]
SplitHaving(node) ==
  IF ~HasAggregate(node) THEN [where |-> <<node>>, having |-> <<>>, ok |-> TRUE]
  ELSE IF node.k = "cmp" THEN [where |-> <<>>, having |-> <<node>>, ok |-> TRUE]
  ELSE LET parts == [i \in DOMAIN node.kids |-> SplitHaving(node.kids[i])]
       IN [where  |-> CombineAnd(FlattenSeq([i \in DOMAIN parts |-> parts[i].where])),
           having |-> CombineAnd(FlattenSeq([i \in DOMAIN parts |-> parts[i].having])),
           ok     |-> node.k = "and" /\ \A i \in DOMAIN parts : parts[i].ok]

Aggregated(q) == \E i \in DOMAIN q.select : q.select[i].func # ""
\* Variation: the keys the lambda names replace the columns it projects.
GroupByNamed(q) == IF q.opts.groupBy # <<>> THEN <<>> ELSE SelectSeq(q.select, LAMBDA sel : sel.func = "")
GroupBy(q) == IF Aggregated(q) THEN SelectSeq(q.select, LAMBDA sel : sel.func = "") ELSE <<>>

\* COUNT counts the distinct rows of the query's table once others are listed.
ProjectionList(q, s) ==
  LET distinct == IF q.joined = <<>> THEN <<>> ELSE <<Own(q.root, q.table, s, "pk")>>
      Projected(sel, st) == Wrap(SelectExpr(sel, distinct, st),
                                 LAMBDA sql : [t |-> "column", into |-> sel.into, in |-> sql])
  IN EachIn(Projected, q.select, s)

\* How a token reads in the text.
RECURSIVE Shown(_)
Shown(sql) == FlattenSeq([i \in DOMAIN sql |->
  CASE sql[i].t = "use"  -> <<<<sql[i].alias, sql[i].col, 0>>>>
    [] sql[i].t = "mark" -> <<<<<<"?", 0>>, "", sql[i].n>>>>
    [] OTHER -> Shown(sql[i].in)])

\* The keys the lambda named and every plain column it projects, each once.
GroupTerms(q, s) ==
  LET keys == [i \in DOMAIN q.opts.groupBy |-> Group(<<Own(q.root, q.table, s, q.opts.groupBy[i])>>)]
      Term(r, sel) ==
        LET term == Wrap(SelectExpr(sel, <<>>, r.s), Group)
            seen == \E i \in DOMAIN r.sql : Shown(r.sql[i].in) = Shown(term.sql[1].in)
        IN IF seen THEN [r EXCEPT !.s = term.s] ELSE Cat(r, term)
  IN IF keys # <<>> /\ ~Aggregated(q) THEN Refused(s)
     ELSE FoldLeft(Term, Text(s, ToSeqOnce(keys)), GroupBy(q))

CountCTEJoins(q, name) == Cardinality({i \in DOMAIN q.opts.joins :
                                         q.opts.joins[i].cte /\ q.opts.joins[i].table = name})
\* What no engine allows in a recursive definition is refused.
CheckRecursive(cte) ==
  LET branches == cte.query.branches
      self(i) == CountCTEJoins(branches[i], cte.name) > 0
  IN cte.recursive =>
       /\ Len(branches) >= 2 /\ cte.query.op \in {"UNION", "UNION ALL"}
       /\ ~self(1)
       /\ \A i \in DOMAIN branches : self(i) =>
            /\ ~Aggregated(branches[i]) /\ branches[i].opts.groupBy = <<>>
            /\ branches[i].opts.sorts = <<>> /\ branches[i].opts.limit = <<>> /\ branches[i].opts.offset = <<>>
            /\ CountCTEJoins(branches[i], cte.name) = 1

\* Variation: the placeholders of a definition are not counted after it.
CteBodyUncounted(cte, s) == [Render("Select", cte.query, FreshAliases(s)) EXCEPT !.s = s]
CteBody(cte, s) == InOwnScope(LAMBDA st : Render("Select", cte.query, st), s)

WithClause(q, s) ==
  LET Defined(cte, st) == IF CheckRecursive(cte) THEN CteBody(cte, st) ELSE Refused(st)
  IN IF SupportsCTE(s.engine) THEN EachIn(Defined, q.with, s) ELSE Text(s, <<>>)

\* Without WITH, the definition stands where it is read.
DerivedTable(q, s) ==
  LET cte == q.with[CHOOSE i \in DOMAIN q.with : q.with[i].name = q.table]
  IN IF cte.recursive THEN Refused(s)
     ELSE Wrap(CteBody(cte, s), LAMBDA sql : [Table(AliasFor(s, <<>>, q.table), Whole(q.root)) EXCEPT !.in = sql])
ReadFrom(q, listed) == IF q.readsCTE /\ ~SupportsCTE(listed.s.engine) THEN DerivedTable(q, listed.s) ELSE listed

Columns(q, cols, s) == Text(s, [i \in DOMAIN cols |-> Own(q.root, q.table, s, cols[i])])
Listing(q, s) == IF q.select = <<>> THEN Columns(q, <<"pk">> \o q.opts.fields, s) ELSE ProjectionList(q, s)

Split(q) == IF q.cond = <<>> THEN [where |-> <<>>, having |-> <<>>, ok |-> TRUE] ELSE SplitHaving(q.cond[1])

LambdaSearchIn(q, s) ==
  Wrap(Clauses(<<"with", "list", "read", "declared", "joins", "rows", "groups", "having",
                 IF q.select = <<>> THEN "page" ELSE "projected">>, q, s),
       LAMBDA sql : Alone(q.cond, sql))

\* A set operation: every branch has aliases of its own.
LambdaSetSearchIn(q, s) ==
  LET branches == EachIn(LAMBDA b, st : Render("Select", b, FreshAliases(st)), q.branches, s)
  IN Wrap(Cat(branches, ProjectionTail(q.branches[1].select, q.opts, branches.s)),
          LAMBDA sql : Alone(<<>>, sql))

LambdaSearch(q, s) == IF q.branches # <<>> THEN LambdaSetSearchIn(q, s) ELSE LambdaSearchIn(q, s)

(***************************************************************************)
(* EXISTS, UPDATE, INSERT ... SELECT and DELETE.                           *)
(***************************************************************************)
LambdaExists(q, s) == Wrap(Clauses(<<"tables", "joins", "where">>, q, s), LAMBDA sql : Alone(q.cond, sql))

RejectJoined(q) == q.opts.joins # <<>> \/ q.joined # <<>>
Conjoined(tests) == FlattenSeq([i \in DOMAIN tests |-> IF i = 1 THEN <<tests[i]>>
                                                       ELSE <<Operator("and"), tests[i]>>])

\* UPDATE of the table by its name: the columns set, the tables it joins,
\* and the condition, which follows the joins' without brackets.
UpdateText(q, assigned, joins, where) ==
  LET target == <<Table(<<q.table, 0>>, Whole(q.root))>>
      tied   == Conjoined([i \in DOMAIN joins.sql |-> joins.sql[i].in[1]])
      before == [i \in DOMAIN joins.sql |-> [joins.sql[i] EXCEPT !.in = IF i = Len(joins.sql) THEN tied ELSE <<>>]]
      after  == [i \in DOMAIN joins.sql |-> Comma(Table(joins.sql[i].alias, joins.sql[i].row))]
  IN CASE q.cond = <<>> -> target \o assigned
       [] q.cond # <<>> /\ joins.sql = <<>> -> target \o assigned \o <<Clause("WHERE", where)>>
       [] joins.sql # <<>> /\ ~SupportsUpdateFrom(joins.s.engine) ->
            target \o before \o assigned \o <<Clause("WHERE", where)>>
       [] joins.sql # <<>> /\ SupportsUpdateFrom(joins.s.engine) ->
            target \o assigned \o after \o <<Clause("WHERE", tied \o <<Operator("and")>> \o where)>>
UpdateWhere(q, set, joins) ==
  LET where == WhereClauses(q.cond, joins.s)
  IN [Cat(Cat(set, joins), where) EXCEPT !.sql = <<Alone(q.cond, UpdateText(q, set.sql, joins, where.sql))>>]
UpdateJoins(q, set) ==
  UpdateWhere(q, set, EachIn(UpdateFromClause, IF q.cond = <<>> THEN <<>> ELSE CollectJoins(q.cond[1]), set.s))
UpdateSet(q, assigned) == UpdateJoins(q, Cat(assigned, EachIn(Bind, q.stamps, assigned.s)))
LambdaWriteBranch(q, s) == UpdateSet(q, EachIn(ValueSQL, q.assign, PinTableName(s, q.table)))
LambdaWrite(q, s) == IF RejectJoined(q) THEN Refused(s) ELSE LambdaWriteBranch(q, s)

\* INSERT of what is selected from the source, the lambda's second model.
LambdaInsert(q, s) ==
  Wrap(Clauses(<<"assigned", "tables", "joins", "where", "page">>, q, s), LAMBDA sql : Alone(q.cond, sql))

\* DELETE of the rows whose keys a query selects, when the condition joins.
SelectPKsWhere(q, s) ==
  Wrap(Clauses(<<"key", "table", "joins", "where">>, q, s), LAMBDA sql : Nested(q.cond, sql))

LambdaDelete(q, s) ==
  LET pinned == PinTableName(s, q.table)
      target == <<Table(<<q.table, 0>>, Whole(q.root))>>
      where  == Filter("WHERE", q.cond, pinned)
  IN IF RejectJoined(q) THEN Refused(s)
     ELSE IF q.cond # <<>> /\ CollectJoins(q.cond[1]) # <<>>
          THEN Wrap(SelectPKsWhere(q, s), LAMBDA sql : Alone(<<>>, sql))
          ELSE [where EXCEPT !.sql = <<Alone(q.cond, target \o @)>>]

(***************************************************************************)
(* Searches by entities: by the key of a single one, else by the values of *)
(* its columns, a list for a column with several.                          *)
(***************************************************************************)
EntityConditions(q, s) ==
  LET Values(col) == LET with == SelectSeq(q.entities, LAMBDA e : col \in DOMAIN e.values)
                     IN ToSeqOnce([i \in DOMAIN with |-> with[i].values[col]])
  IN EachIn(LAMBDA col, st : EachIn(Bind, Values(col), st), q.columns, s)

EntityWhere(q, s) ==
  IF Len(q.entities) = 1 /\ q.entities[1].pk # <<>> THEN EachIn(Bind, q.entities[1].pk, s) ELSE EntityConditions(q, s)
EntitySearch(q, s) ==
  LET Part(part, st) == CASE part = "list"  -> Columns(q, <<"pk">> \o q.opts.fields, st)
                          [] part = "table" -> Text(st, <<Table(<<q.table, 0>>, Whole(q.root))>>)
                          [] part = "where" -> EntityWhere(q, st)
                          [] part = "page"  -> OptionsTail(q, st)
  IN Wrap(EachIn(Part, <<"list", "table", "where", "page">>, PinTableName(s, q.table)),
          LAMBDA sql : Alone(<<>>, sql))

\* The builder of a part.  The tail of a projection is rendered twice: the
\* text of the first and its errors are dropped, the placeholders it drew are
\* not drawn again.
Render(part, q, s) ==
  CASE part = "Select"    -> LambdaSearch(q, s)
    [] part = "Exists"    -> LambdaExists(q, s)
    [] part = "Update"    -> LambdaWrite(q, s)
    [] part = "Insert"    -> LambdaInsert(q, s)
    [] part = "Delete"    -> LambdaDelete(q, s)
    [] part = "Search"    -> EntitySearch(q, s)
    [] part = "condition" -> WhereClause(q, s)
    [] part = "subquery"  -> SubQuery(q, s)
    [] part = "with"      -> WithClause(q, s)
    [] part = "list"      -> Listing(q, Claim(s, <<>>, q.table))
    [] part = "field"     -> Columns(q, <<q.field>>, Claim(s, <<>>, q.table))
    [] part = "key"       -> Columns(q, <<"pk">>, Claim(s, <<>>, q.table))
    [] part = "one"       -> Text(s, <<>>)
    [] part = "assigned"  -> EachIn(ValueSQL, q.assign, Claim(s, <<>>, q.table))
    [] part = "table"     -> From(q.root, q.table, s)
    [] part = "tables"    -> FromList(q, s)
    [] part = "read"      -> ReadFrom(q, FromList(q, s))
    [] part = "declared"  -> ExplicitJoins(q.opts, s)
    [] part = "joins"     -> JoinClausesIf(q.cond, s)
    [] part = "where"     -> Filter("WHERE", q.cond, s)
    [] part = "rows"      -> IF Split(q).ok THEN Filter("WHERE", Split(q).where, s) ELSE Refused(s)
    [] part = "groups"    -> GroupTerms(q, s)
    [] part = "having"    -> Filter("HAVING", Split(q).having, s)
    [] part = "page"      -> OptionsTail(q, s)
    [] part = "projected" -> ProjectionTail(q.select, q.opts, OptionsTail(q, s).s)

\* The statement of a call.
Rendered(q, engine) == Render(q.call, q, NewStmt(engine))

\* Values of the call's params take the place of the fields the lambda names.
ResolveParams(args, params) ==
  [i \in DOMAIN args |-> IF args[i] \in DOMAIN params THEN params[args[i]] ELSE args[i]]

(***************************************************************************)
(* Reading a statement the way an engine does.                             *)
(***************************************************************************)
RECURSIVE Flat(_), OwnLevel(_)
Flat(sql) == FlattenSeq([i \in DOMAIN sql |-> <<sql[i]>> \o Flat(sql[i].in)])
\* Without what belongs to queries written inside.
OwnLevel(sql) == FlattenSeq([i \in DOMAIN sql |->
                   <<sql[i]>> \o IF sql[i].t \in {"nested", "alone"} THEN <<>> ELSE OwnLevel(sql[i].in)])
Of(sort, tokens) == {tokens[i] : i \in {j \in DOMAIN tokens : tokens[j].t \in sort}}

\* Every placeholder gets the value the lambda has at its place.
MarkersMatch(sql, args, params) ==
  LET marks == SelectSeq(Flat(sql), LAMBDA token : token.t = "mark")
      Bound(i) == args[IF marks[i].n = 0 THEN i ELSE marks[i].n]
  IN /\ Len(marks) = Len(args)
     /\ \A i \in DOMAIN marks : Bound(i) = ResolveParams(<<marks[i].bind>>, params)[1]

\* Every column is read from the row the lambda means.  An ON sees the tables
\* before it, and where the standard holds only those since the last comma.
RECURSIVE Resolves(_, _, _)
Resolves(sql, outer, strict) ==
  LET own == OwnLevel(sql)
      tables == {i \in DOMAIN own : own[i].t \in {"table", "join"}}
      here == [a \in {own[i].alias : i \in tables} |-> own[CHOOSE i \in tables : own[i].alias = a].row]
      env == here @@ outer
      Before(j) == {own[i].alias : i \in {i \in tables :
                      /\ i <= j
                      /\ strict => ~\E c \in tables : own[c].comma /\ i < c /\ c <= j}}
  IN /\ \A i, j \in tables : own[i].alias = own[j].alias => i = j
     /\ \A use \in Of({"use"}, own) : use.alias \in DOMAIN env /\ env[use.alias] = use.row
     /\ \A j \in tables : \A use \in Of({"use"}, OwnLevel(own[j].in)) :
          own[j].t = "join" /\ use.alias \in DOMAIN here => use.alias \in Before(j)
     /\ \A query \in Of({"nested"}, own) : Resolves(query.in, env, strict)
     /\ \A query \in Of({"alone"}, own) : Resolves(query.in, <<>>, strict)

\* What a condition means, and what one says as it is written: NOT binds
\* tighter than AND, and AND than OR.  The ties of joins hold or not, `e'.
RECURSIVE Leaves(_), Means(_, _), Says(_, _, _)
Leaves(node) == IF node.k \in {"and", "or", "not"} THEN UNION {Leaves(node.kids[i]) : i \in DOMAIN node.kids}
                ELSE {node}
Means(node, v) == CASE node.k = "and" -> \A i \in DOMAIN node.kids : Means(node.kids[i], v)
                    [] node.k = "or"  -> \E i \in DOMAIN node.kids : Means(node.kids[i], v)
                    [] node.k = "not" -> ~Means(node.kids[1], v)
                    [] OTHER -> v[node]
Says(sql, v, e) ==
  LET operands == {i \in DOMAIN sql : sql[i].t \in {"test", "equal", "paren"}}
      Plain(i) == CASE sql[i].t = "test"  -> v[sql[i].node]
                    [] sql[i].t = "equal" -> e
                    [] sql[i].t = "paren" -> Says(sql[i].in, v, e)
      Operand(i) == IF i > 1 /\ sql[i - 1].t = "not" THEN ~Plain(i) ELSE Plain(i)
      Together(i, j) == \A k \in DOMAIN sql : i < k /\ k < j => sql[k].t # "or"
  IN \E i \in operands : \A j \in operands : Together(i, j) /\ Together(j, i) => Operand(j)

\* The clauses together say what the condition means; groups are tested in
\* HAVING, and rows in WHERE.
Says1(sqls, conds) ==
  LET leaves == UNION {Leaves(conds[i]) : i \in DOMAIN conds}
      tests  == UNION {Of({"test"}, OwnLevel(sql)) : sql \in sqls}
      tied   == \E sql \in sqls : Of({"equal"}, OwnLevel(sql)) # {}
  IN /\ \A test \in tests : test.node \in leaves
     /\ \A v \in [leaves -> BOOLEAN], e \in BOOLEAN :
          (\A sql \in sqls : Says(sql, v, e)) <=> (\A i \in DOMAIN conds : Means(conds[i], v)) /\ (tied => e)

ConditionKept(query) ==
  LET own == OwnLevel(query.in)
  IN /\ Says1({clause.in : clause \in Of({"clause"}, own)}, query.cond)
     /\ \A join \in Of({"join"}, own) : join.in = <<>> \/ Says1({join.in}, join.own)
     /\ \A clause \in Of({"clause"}, own) : \A test \in Of({"test"}, OwnLevel(clause.in)) :
          HasAggregate(test.node) <=> clause.kw = "HAVING"
ConditionsKept(sql) == \A query \in Of({"nested", "alone"}, Flat(sql)) : ConditionKept(query)

\* A query that aggregates groups by every plain column it projects.
BindFree(sel) == sel.func = "" /\ Of({"mark"}, Flat(ValueSQL(sel.value[1], NewStmt("sqlite")).sql)) = {}
Grouped(q, sql) ==
  LET own == OwnLevel(sql[1].in)
  IN Aggregated(q) => \A i \in DOMAIN q.select : BindFree(q.select[i]) =>
       \A column \in Of({"column"}, own) : column.into = q.select[i].into =>
         \E group \in Of({"group"}, own) : Shown(group.in) = Shown(column.in)

(***************************************************************************)
(* What the builders do not support and do not refuse, named so that the   *)
(* properties can leave it out.                                            *)
(***************************************************************************)
RECURSIVE Occurrences(_)
\* The rows a condition is about, by the keys of their aliases.
RefRows(ref) == {<<Key(Path(ref), TableOf(ref)), Row(ref)>>}
                  \cup {<<Key(Hops(ref)[i].target, Relation[Hops(ref)[i].rel].to),
                          <<ref.root, Hops(ref)[i].target>>>> : i \in DOMAIN Hops(ref)}
Occurrences(node) ==
  CASE node.k \in {"and", "or", "not"} -> UNION {Occurrences(node.kids[i]) : i \in DOMAIN node.kids}
    [] node.k = "exists" -> {<<Key(<<>>, Relation[node.rel].to), Whole(node.item)>>,
                             <<Key(<<>>, Relation[node.rel].from), <<node.root, node.at>>>>}
                              \cup UNION {Occurrences(node.cond[i]) : i \in DOMAIN node.cond}
    [] node.k \in {"cmp", "sub"} ->
         LET refs == IF node.k = "cmp" THEN RefsOf(node.left \o node.rights) ELSE <<>>
         IN UNION {RefRows(refs[i]) : i \in DOMAIN refs}
              \cup UNION {{<<Key(<<>>, node.sub[i].table), Whole(node.sub[i].root)>>}
                            \cup UNION {Occurrences(node.sub[i].cond[j]) : j \in DOMAIN node.sub[i].cond}
                          : i \in DOMAIN node.sub}

Conds(q) == q.cond \o FlattenSeq([i \in DOMAIN q.opts.joins |-> q.opts.joins[i].on])
Elsewhere(q) == RefsOf(q.assign) \o RefsOf(FlattenSeq([i \in DOMAIN q.select |-> q.select[i].value]))
JoinHops(q) == FlattenSeq([i \in DOMAIN q.opts.joins |-> q.opts.joins[i].hops])

\* A path is joined for the condition, or by a declared join, and by one only.
Derived(q) == FlattenSeq([i \in DOMAIN q.cond |-> CollectJoins(q.cond[i])])
Targets(hops) == {Names(hops[i].target) : i \in DOMAIN hops}
JoinedOnce(q) == \A i, j \in DOMAIN (JoinHops(q) \o Derived(q)) : i # j =>
                   Names((JoinHops(q) \o Derived(q))[i].target) # Names((JoinHops(q) \o Derived(q))[j].target)
PathsJoined(q) ==
  LET on == FlattenSeq([i \in DOMAIN q.opts.joins |->
              FlattenSeq([j \in DOMAIN q.opts.joins[i].on |-> Refs(q.opts.joins[i].on[j])])])
      refs == Elsewhere(q) \o on
  IN \A i \in DOMAIN refs : Path(refs[i]) = <<>> \/ Names(Path(refs[i])) \in Targets(JoinHops(q) \o Derived(q))
\* Two rows never have the same key.
KeysNameRows(q) ==
  LET rows == {<<Key(<<>>, q.table), Whole(q.root)>>}
                \cup {<<Key(<<>>, q.joined[i].table), Whole(q.joined[i].root)>> : i \in DOMAIN q.joined}
                \cup UNION {RefRows(Elsewhere(q)[i]) : i \in DOMAIN Elsewhere(q)}
                \cup UNION {Occurrences(Conds(q)[i]) : i \in DOMAIN Conds(q)}
  IN \A a, b \in rows : a[1] = b[1] => a[2] = b[2]
\* Joins after a list of tables see the last table only, but in SQLite.
CommaAlone(q, engine) ==
  LET listed == FromList(q, NewStmt(engine)).sql
  IN engine = "sqlite" \/ Len(listed) = 1 \/ (Derived(q) = <<>> /\ q.opts.joins = <<>>)
JoinsRendered(q) == q.call \in {"Exists", "Insert"} => q.opts.joins = <<>>

RECURSIVE Supported(_, _)
Supported(q, engine) ==
  IF q.call = "Search" THEN TRUE
  ELSE /\ JoinedOnce(q) /\ PathsJoined(q) /\ KeysNameRows(q) /\ CommaAlone(q, engine) /\ JoinsRendered(q)
       /\ \A i \in DOMAIN q.with : Supported(q.with[i].query, engine)
       /\ \A i \in DOMAIN q.branches : Supported(q.branches[i], engine)

\* No placeholder is drawn for a text that is dropped: the page of a
\* projection that is unsorted or sorted by a field.
RECURSIVE DrawnOnce(_)
DrawnOnce(q) ==
  /\ q.select # <<>> /\ SortsByField(q) => q.opts.limit = <<>> /\ q.opts.offset = <<>>
  /\ \A i \in DOMAIN q.with : DrawnOnce(q.with[i].query)
  /\ \A i \in DOMAIN q.branches : DrawnOnce(q.branches[i])

\* A disjunction is conjoined with a join's tie without brackets: in the
\* condition of a path join, and in an UPDATE ... FROM.
Bracketed(q, engine) ==
  /\ \A i \in DOMAIN q.opts.joins : q.opts.joins[i].hops # <<>> =>
       \A j \in DOMAIN q.opts.joins[i].on : q.opts.joins[i].on[j].k # "or"
  /\ q.call = "Update" /\ Derived(q) # <<>> /\ SupportsUpdateFrom(engine) => q.cond[1].k # "or"
================================================================================
