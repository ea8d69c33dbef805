--------------------------------- MODULE MCPipeline ---------------------------------
(***************************************************************************)
(* Two studies of Pipeline: sources whose literals are hard to tell apart, *)
(* edited and generated for at any moment and called by two goroutines;    *)
(* and, for one literal alone in its file, the queries a lambda may say,   *)
(* for every engine.                                                       *)
(***************************************************************************)
EXTENDS Pipeline

(***************************************************************************)
(* The models: orders with a customer, a tag, tags and items; letters that *)
(* collide, and relations of the same name.                                *)
(***************************************************************************)
M2O(name, from, to) == [name |-> name, from |-> from, to |-> to, kind |-> "M2O", bridge |-> ""]
MCRelation ==
  [oCustomer |-> M2O("Customer", "orders", "customers"),
   oTag      |-> M2O("Tag", "orders", "tags"),
   cCountry  |-> M2O("Country", "customers", "countries"),
   gCountry  |-> M2O("Country", "tags", "countries"),
   pCustomer |-> M2O("Customer", "payments", "customers"),
   iProduct  |-> M2O("Product", "items", "products"),
   oItems    |-> [name |-> "Items", from |-> "orders", to |-> "items", kind |-> "O2M", bridge |-> ""],
   oTags     |-> [name |-> "Tags", from |-> "orders", to |-> "tags", kind |-> "M2M", bridge |-> "order_tags"]]
MCLetter ==
  [orders |-> "o", order_tags |-> "o", customers |-> "c", countries |-> "c", payments |-> "p",
   products |-> "p", items |-> "i", invoices |-> "i", tags |-> "t", totals |-> "t"]

MCFields ==
  [orders |-> {"pk", "status", "total", "customer"}, order_tags |-> {}, customers |-> {"pk", "name"}, countries |-> {"pk"},
   payments |-> {"pk"}, products |-> {"pk"}, items |-> {"pk"}, invoices |-> {"pk"}, tags |-> {"pk"},
   totals |-> {"Status", "Sum"}]

\* References, values, comparisons.
Ref(root, table, path, col) == [root |-> root, table |-> table, at |-> <<>>, path |-> path, col |-> col]
Through(root, at, table, col) == [Ref(root, table, <<>>, col) EXCEPT !.at = at]
O(col) == [k |-> "col", ref |-> Ref("o", "orders", <<>>, col)]
OPath(path, col) == [k |-> "col", ref |-> Ref("o", "orders", path, col)]
Of1(root, table, col) == [k |-> "col", ref |-> Ref(root, table, <<>>, col)]
Val(bind) == [k |-> "bind", bind |-> bind]
Times(l, r) == [k |-> "expr", l |-> l, r |-> r]
Cmp(l, r) == [k |-> "cmp", agg |-> FALSE, left |-> <<l>>, rights |-> <<r>>, list |-> FALSE, sub |-> <<>>]
In(l, rs) == [Cmp(l, l) EXCEPT !.rights = rs, !.list = TRUE]
IsNull(l) == [Cmp(l, l) EXCEPT !.rights = <<>>]
InQuery(l, q) == [IsNull(l) EXCEPT !.sub = <<q>>]
Agg(ls, r) == [Cmp(r, r) EXCEPT !.agg = TRUE, !.left = ls]
ExistsQuery(q) == [k |-> "sub", sub |-> <<q>>]
Some(rel, item, cond) == [k |-> "exists", root |-> "o", at |-> <<>>, rel |-> rel, item |-> item, cond |-> cond]
And(a, b) == [k |-> "and", kids |-> <<a, b>>]
Or(a, b)  == [k |-> "or", kids |-> <<a, b>>]
Not(a)    == [k |-> "not", kids |-> <<a>>]
Column1(value, into) == [func |-> "", value |-> <<value>>, into |-> into]
Count(into)          == [func |-> "Count", value |-> <<>>, into |-> into]
Total(value, into)   == [func |-> "Sum", value |-> <<value>>, into |-> into]

NoOpts == [sorts |-> <<>>, limit |-> <<>>, offset |-> <<>>, fields |-> <<>>, groupBy |-> <<>>, joins |-> <<>>]
Page == [NoOpts EXCEPT !.sorts = <<"total">>, !.limit = <<"ten">>, !.offset = <<"twenty">>]
Query(call, cond) ==
  [call |-> call, root |-> "o", table |-> "orders", readsCTE |-> FALSE, with |-> <<>>, joined |-> <<>>,
   select |-> <<>>, branches |-> <<>>, op |-> "", cond |-> cond, assign |-> <<>>, stamps |-> <<>>,
   entities |-> <<>>, columns |-> <<>>, func |-> "", field |-> "pk", opts |-> NoOpts]
On(root, table, cond) == [Query("Select", cond) EXCEPT !.root = root, !.table = table]
Joins(kind, root, table, hops, on) ==
  [kind |-> kind, root |-> root, table |-> table, hops |-> hops, on |-> on, cte |-> FALSE]
PathOf(path) == Hops(Ref("o", "orders", path, "pk"))

(***************************************************************************)
(* The conditions and queries of the lambdas.                              *)
(***************************************************************************)
Large   == Cmp(O("total"), Val("hundred"))
Foreign == Cmp(OPath(<<"oCustomer", "cCountry">>, "name"), Val("@country"))
Known   == Cmp(OPath(<<"oCustomer">>, "name"), Val("ann"))
Tagged  == Some("oTags", "g", <<Or(Cmp(Of1("g", "tags", "name"), Val("x")),
                                   Cmp(Of1("g", "tags", "name"), Val("@tag")))>>)
Costly  == Some("oItems", "l", <<Cmp([k |-> "col", ref |-> Ref("l", "items", <<"iProduct">>, "price")],
                                     Val("five"))>>)
AnyItem == Some("oItems", "l", <<>>)
Within  == InQuery(O("customer"), [On("c", "customers", <<Cmp(Of1("c", "customers", "age"), Val("@age"))>>)
                                     EXCEPT !.opts.limit = <<"ten">>])
Paid    == ExistsQuery([On("p", "payments", <<And(Cmp(Of1("p", "payments", "order"), O("pk")),
                                                  Cmp(Of1("p", "payments", "amount"), Val("@paid")))>>)
                          EXCEPT !.func = "Exists"])
Scaled  == Cmp(Times(O("total"), Val("rate")), Times(OPath(<<"oCustomer">>, "limit"), Val("@factor")))
Listed  == In(O("status"), <<Val("new"), Val("@status")>>)
SameLand == Cmp(OPath(<<"oCustomer", "cCountry">>, "name"), OPath(<<"oTag", "gCountry">>, "name"))

Conditions ==
  <<Large, Foreign, Tagged, Costly, AnyItem, Within, Paid, Scaled, Listed, SameLand, IsNull(O("status")),
   And(Large, Foreign), Or(Foreign, Known), Not(Or(Large, Tagged)), And(Tagged, Paid), And(Paid, Costly),
   And(Or(Large, Known), Listed), Or(And(Within, Large), Not(And(Listed, Foreign))),
   Or(Foreign, Cmp(OPath(<<"oCustomer", "cCountry">>, "code"), Val("@code"))), And(Within, Within)>>

Sums == <<Column1(O("status"), "Status"), Total(O("total"), "Sum")>>
Big  == Agg(<<O("total")>>, Val("thousand"))
Totals == [name |-> "totals", recursive |-> FALSE,
           query |-> [Query("Select", <<Listed>>) EXCEPT !.select = Sums]]
Tree(op) == [name |-> "totals", recursive |-> TRUE,
             query |-> [Query("Select", <<>>) EXCEPT !.op = op, !.branches =
               <<[Query("Select", <<Large>>) EXCEPT !.select = <<Column1(O("pk"), "Id")>>],
                 [Query("Select", <<>>) EXCEPT
                    !.select = <<Column1(O("pk"), "Id")>>,
                    !.opts.joins = <<[Joins("INNER", "t", "totals", <<>>,
                       <<Cmp(O("parent"), Of1("t", "totals", "Id"))>>) EXCEPT !.cte = TRUE]>>]>>]]
ReadTotals(cte) == [On("t", "totals", <<Cmp(Of1("t", "totals", "Sum"), Val("@least"))>>) EXCEPT
                      !.readsCTE = TRUE, !.with = <<cte>>,
                      !.select = <<Column1(Times(Of1("t", "totals", "Sum"), Val("vat")), "Gross")>>,
                      !.opts.sorts = <<"Gross">>, !.opts.limit = <<"ten">>]
JoinTotals == [Query("Select", <<Foreign>>) EXCEPT !.with = <<Totals>>, !.opts = [Page EXCEPT !.joins =
                 <<[Joins("LEFT", "t", "totals", <<>>, <<And(Cmp(O("status"), Of1("t", "totals", "Status")),
                       Cmp(Of1("t", "totals", "Sum"), Val("@least")))>>) EXCEPT !.cte = TRUE]>>]]
PaidJoin(kind) == Joins(kind, "p", "payments", <<>>, <<And(Cmp(Of1("p", "payments", "order"), O("pk")),
                                                          Cmp(Of1("p", "payments", "amount"), Val("@paid")))>>)
LandJoin(on) == Joins("LEFT", "o", "countries", PathOf(<<"oCustomer", "cCountry">>), on)
Land(col) == [k |-> "col", ref |-> Through("o", <<"oCustomer", "cCountry">>, "countries", col)]
Payment == [root |-> "p", table |-> "payments"]

Selects ==
  [i \in DOMAIN Conditions |-> [Query("Select", <<Conditions[i]>>) EXCEPT !.opts = Page]]
   \o
  <<[Query("Select", <<>>) EXCEPT !.opts.offset = <<"twenty">>, !.opts.fields = <<"total">>],
   [Query("Select", <<And(And(Large, Big), Foreign)>>) EXCEPT !.select = Sums, !.opts.limit = <<"ten">>],
   [Query("Select", <<And(Large, Big)>>) EXCEPT !.select = Sums, !.opts = [Page EXCEPT !.sorts = <<"Sum">>]],
   [Query("Select", <<And(Listed, Agg(<<>>, Val("two")))>>) EXCEPT !.select = <<Count("N")>> \o Sums,
                                            !.opts.groupBy = <<"customer", "status">>],
   [Query("Select", <<Listed>>) EXCEPT !.select = Sums, !.opts.groupBy = <<"customer">>],
   [Query("Select", <<Or(Large, Big)>>) EXCEPT !.select = Sums],
   [Query("Select", <<Large>>) EXCEPT !.opts.groupBy = <<"status">>],
   [Query("Select", <<Big>>) EXCEPT !.select =
      <<Column1(Times(O("total"), Val("rate")), "Scaled"), Count("N")>>, !.opts.sorts = <<"N">>],
   [Query("Select", <<And(Known, Cmp(Of1("p", "payments", "order"), O("pk")))>>)
      EXCEPT !.joined = <<Payment>>, !.select = <<Count("N")>>],
   [Query("Select", <<Cmp(Of1("p", "payments", "order"), O("pk"))>>) EXCEPT !.joined = <<Payment>>,
      !.select = <<Count("N"), Column1(Of1("p", "payments", "kind"), "Kind")>>],
   [Query("Select", <<Large>>) EXCEPT !.joined = <<Payment>>, !.opts = [Page EXCEPT !.joins = <<PaidJoin("FULL")>>]],
   [Query("Select", <<Tagged>>) EXCEPT !.opts.joins = <<PaidJoin("LEFT")>>],
   [Query("Select", <<Or(Large, Cmp(Land("code"), Val("@code")))>>)
      EXCEPT !.opts.joins = <<LandJoin(<<Cmp(Land("name"), Val("@country"))>>), PaidJoin("INNER")>>],
   [Query("Select", <<Foreign>>) EXCEPT !.opts.joins = <<LandJoin(<<>>)>>],
   [Query("Select", <<>>) EXCEPT !.opts.joins =
      <<LandJoin(<<Or(Cmp(Land("name"), Val("@country")), Cmp(Land("code"), Val("@code")))>>)>>],
   [Query("Select", <<Known>>) EXCEPT !.opts.joins =
      <<Joins("INNER", "o", "tags", PathOf(<<"oTags">>), <<>>)>>],
   ReadTotals(Totals), JoinTotals, ReadTotals(Tree("UNION ALL")), ReadTotals(Tree("EXCEPT")),
   [Query("Select", <<>>) EXCEPT !.op = "UNION", !.opts.limit = <<"ten">>, !.branches =
      <<[Query("Select", <<And(Listed, Foreign)>>) EXCEPT !.select = Sums],
        [Query("Select", <<And(Tagged, Big)>>) EXCEPT !.select = Sums, !.opts.sorts = <<"Sum">>,
                                                                         !.opts.limit = <<"five">>]>>],
   [Query("Select", <<>>) EXCEPT !.op = "UNION", !.opts.sorts = <<"Sum">>, !.branches =
      <<ReadTotals(Totals), [Query("Select", <<>>) EXCEPT !.select = <<Column1(Val("none"), "Gross")>>]>>],
   \* Rows the aliases do not tell apart, and paths nothing joins.
   [Query("Select", <<And(Known, Cmp([k |-> "col", ref |-> Ref("p", "payments", <<"pCustomer">>, "name")],
                                     Val("bob")))>>) EXCEPT !.joined = <<Payment>>],
   [Query("Select", <<Large>>) EXCEPT !.select = <<Column1(OPath(<<"oCustomer">>, "name"), "Name")>>]>>

Writes ==
  [i \in DOMAIN Conditions |-> [Query("Update", <<Conditions[i]>>) EXCEPT
      !.assign = <<Val("@status"), Times(O("total"), Val("rate"))>>, !.stamps = <<"now">>]]
   \o <<[Query("Update", <<>>) EXCEPT !.assign = <<Val("done")>>],
        [Query("Update", <<Large>>) EXCEPT !.assign = <<Val("done")>>, !.joined = <<Payment>>], Query("Delete", <<>>)>>
   \o [i \in DOMAIN Conditions |-> Query("Delete", <<Conditions[i]>>)]
   \o LET from == <<Large, Tagged, Foreign, And(Within, Large)>>
      IN [i \in DOMAIN from |-> [Query("Insert", <<from[i]>>) EXCEPT !.opts = Page,
                                 !.assign = <<Times(O("total"), Val("rate")), Val("@status"), O("customer")>>]]
   \o <<[Query("Insert", <<Cmp(Of1("p", "payments", "order"), O("pk"))>>) EXCEPT !.joined = <<Payment>>,
                                        !.assign = <<Of1("p", "payments", "kind"), Val("new")>>]>>

Exists == <<Query("Exists", <<>>)>> \o [i \in DOMAIN Conditions |-> Query("Exists", <<Conditions[i]>>)]

Entity(pk, values) == [pk |-> pk, values |-> values]
Searches ==
  LET entities ==
        << <<Entity(<<"seven">>, [status |-> "new"])>>,
           <<Entity(<<>>, [total |-> "five", status |-> "new"])>>,
           <<Entity(<<>>, [status |-> "new"]), Entity(<<"seven">>, [status |-> "old", total |-> "ten"]),
             Entity(<<>>, [status |-> "new", total |-> "five"])>> >>
  IN [i \in DOMAIN entities |-> [Query("Search", <<>>) EXCEPT !.columns = <<"status", "total">>,
                                                             !.entities = entities[i], !.opts = Page]]

MCQueries == << Query("Select", <<Large>>), Query("Select", <<Listed>>), Query("Delete", <<Listed>>),
                Query("Exists", <<Large>>) >> \o Selects \o Writes \o Exists \o Searches
Engines == {"postgres", "mysql", "sqlite", "no with"}

(***************************************************************************)
(* The sources.  `At' places a literal at a line of a.go in package a.     *)
(***************************************************************************)
Named(id, call, text) ==
  [id |-> id, parent |-> "", dir |-> "a", base |-> "a.go", fn |-> "F", start |-> 1, first |-> 1,
   end |-> 1, pos |-> 1, close |-> 1, sig |-> "row", call |-> call, text |-> text, parses |-> TRUE]
At(id, start, first, end, pos, text) ==
  [Named(id, CASE text <= 2 -> "Select" [] text = 3 -> "Delete" [] text = 4 -> "Exists", text)
     EXCEPT !.start = start, !.first = first, !.end = end, !.pos = pos, !.close = pos]
Ends(l, close) == [l EXCEPT !.close = close]
In2(l, parent) == [l EXCEPT !.parent = parent]
InB(l) == [l EXCEPT !.dir = "b"]
Var(l) == [l EXCEPT !.call = ""]
\* A closure around a lambda, such as a Transaction's.
Around(id, start, first, end, pos, close) ==
  [Ends(At(id, start, first, end, pos, 1), close) EXCEPT !.sig = "engine", !.call = "Transaction", !.parses = FALSE]

Find == 1
Seek == 2
Drop == 3
Test1 == 4

Layouts ==
  { \* The same line of two files of one name; then apart.
    << {At("x", 1, 1, 1, 1, Find), InB(At("y", 1, 2, 3, 1, Drop))}, {At("x", 1, 1, 1, 1, Find), InB(At("y", 2, 3, 4, 2, Drop))} >>,
    \* A lambda moves to the line another had.
    << {At("x", 1, 1, 1, 1, Find), At("y", 3, 3, 3, 3, Drop)}, {At("x", 3, 3, 3, 3, Find), At("y", 5, 5, 5, 5, Drop)} >>,
    \* A package loses its lambda, another gets one on its line.
    << {At("x", 1, 1, 1, 1, Find)}, {InB(At("y", 1, 1, 1, 1, Drop))} >>,
    \* Its text changes where it stands.
    << {At("x", 1, 2, 3, 1, Find)}, {At("x", 1, 2, 3, 1, Seek)} >>,
    \* In a closure, at its first statement, and one after it on its last line.
    << {Around("t", 1, 2, 3, 1, 2), In2(At("x", 2, 3, 3, 2, Find), "t"), At("y", 3, 3, 3, 3, Drop)} >>,
    \* All on one line: a closure, in it a lambda, after it another.
    << {Around("t", 1, 1, 1, 1, 2), In2(At("x", 1, 1, 1, 2, Find), "t"), At("y", 1, 1, 1, 3, Drop)} >>,
    \* Two lambdas of a closure on one line.
    << {Around("t", 1, 2, 3, 1, 3), In2(At("x", 2, 2, 2, 2, Find), "t"), In2(At("y", 2, 2, 2, 3, Drop), "t")} >>,
    \* The same with different signatures.
    << {Around("t", 1, 2, 3, 1, 3), In2(At("x", 2, 2, 2, 2, Find), "t"),
        In2([At("y", 2, 2, 2, 3, Drop) EXCEPT !.sig = "other row"], "t")} >>,
    \* In a closure of its own signature, which is no query.
    << {[Around("t", 1, 2, 3, 1, 2) EXCEPT !.sig = "row"], In2(At("x", 2, 2, 2, 2, Find), "t"), At("y", 4, 4, 4, 3, Drop)} >>,
    \* A lambda and the filter its first statement opens with.
    << {Ends(At("x", 1, 2, 3, 1, Find), 2), In2([At("g", 2, 2, 2, 2, Seek) EXCEPT !.call = "Filter"], "x")} >>,
    \* A lambda and a query in its first statement.
    << {Ends(At("x", 1, 2, 3, 1, Find), 2), In2(At("y", 2, 2, 2, 2, Test1), "x")} >>,
    \* goql refuses one, and a lambda of another file has its line.
    << {[At("x", 1, 1, 1, 1, Find) EXCEPT !.parses = FALSE], InB(At("y", 1, 1, 1, 1, Drop))} >>,
    \* Kept in a variable, and beside a lambda; and goql refuses one.
    << {Var(At("x", 1, 1, 1, 1, Find)), At("y", 2, 2, 2, 2, Drop), InB(At("z", 1, 1, 1, 1, Test1))} >>,
    << {Var(At("x", 1, 1, 1, 1, Find)), [At("y", 2, 3, 4, 2, Drop) EXCEPT !.parses = FALSE]} >> }

Study(versions, kinds, callers, engine) ==
  [versions |-> versions, kinds |-> kinds, callers |-> callers, engine |-> engine, searches |-> {}]
Alone1(query, text, engine) ==
  IF query.call = "Search"
  THEN [Study(<<{}>>, {"prod"}, 1, engine) EXCEPT !.searches = {text}]
  ELSE Study(<<{Named("x", query.call, text)}>>, {"prod"}, 1, engine)
MCPrograms ==
  LET queries == MCQueries
  IN {Study(versions, {kind}, 2, "sqlite") : versions \in Layouts, kind \in {"dev", "prod"}}
       \cup {Alone1(queries[text], text, engine) : text \in DOMAIN queries, engine \in Engines}

MCAPI == {"Select", "Exists", "Update", "Insert", "Delete"}
MCParams == [s \in {"s1", "s2"} |->
              [name \in {"@country", "@tag", "@age", "@paid", "@factor", "@status", "@code", "@least"} |-> s \o name]]
=====================================================================================
