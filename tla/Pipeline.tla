---------------------------------- MODULE Pipeline ----------------------------------
(***************************************************************************)
(* A lambda call from the function value to the statement sent: the query  *)
(* is found (LambdaKeys), rendered for the engine (Statement), and the     *)
(* values of this call's params take their places.                         *)
(***************************************************************************)
EXTENDS LambdaKeys, Statement

CONSTANTS
  Queries,  \* text |-> the query it says
  Params    \* goroutine |-> the values of the params it passes

VARIABLE sent     \* goroutine |-> the statement it sent: at most one

vars == <<program, disk, written, writing, binary, cache, session, sent>>

Init == KeysInit /\ sent = [s \in Sessions |-> <<>>]

\* The builders render the query for the call it is passed to.
QuerySent(s) == [Queries[session[s].body[1].text] EXCEPT !.call = session[s].call]
Completed(r, params) == [sql |-> r.sql, args |-> ResolveParams(r.args, params), ok |-> r.ok]

\* Variation: the query is made ready for the call in the body the calls share.
SendFromCache(s) ==
  /\ session[s].pc = "served" /\ session[s].body # <<>> /\ sent[s] = <<>>
  /\ sent' = [sent EXCEPT ![s] = <<Completed(Rendered(QuerySent(s), program.engine), Params[s])>>]
  /\ cache' = [k \in DOMAIN cache |-> IF cache[k] = session[s].body[1] THEN [cache[k] EXCEPT !.func = session[s].call]
                                                                       ELSE cache[k]]
  /\ UNCHANGED <<program, disk, written, writing, binary, session>>
Send(s) ==
  /\ session[s].pc = "served" /\ session[s].body # <<>> /\ sent[s] = <<>>
  /\ sent' = [sent EXCEPT ![s] = <<Completed(Rendered(QuerySent(s), program.engine), Params[s])>>]
  /\ UNCHANGED keysVars

\* The call returns its rows or its error.
SentReturn(s) ==
  /\ session[s].body = <<>> \/ sent[s] # <<>>
  /\ Return(s)
  /\ sent' = [sent EXCEPT ![s] = <<>>]

Next == \/ Working /\ UNCHANGED sent
        \/ \E s \in Sessions : Send(s)
        \/ \E s \in Sessions : SentReturn(s)

Spec == Init /\ [][Next]_vars

(***************************************************************************)
(* Properties.                                                             *)
(***************************************************************************)

\* The types of the variables; only a call that was served a query has a
\* statement sent.
TypeOK ==
  /\ KeysTypeOK
  /\ \A s \in Sessions :
       sent[s] # <<>> => session[s].pc = "served" /\ session[s].body # <<>>

\* Rendering, resolving and sending leave the body that all calls share, and
\* all else a query is found by, as they were (query/params.go:20): each step
\* is a step of LambdaKeys or leaves its variables alone.
ImplementsKeys == KeysSpec

Sent(s) == sent[s] # <<>> /\ sent[s][1].ok

\* Every placeholder of a statement takes the value the lambda has at its
\* place, with the params of this call: by number on PostgreSQL, elsewhere by
\* the order of the text, which is not the order of rendering for every
\* clause (query/search.go:76, query/write.go:122).  Numbers are left out by a
\* page that is drawn twice (query/search.go:136).
MarkersMatchArgs ==
  \A s \in Sessions : Sent(s) /\ (Numbered(program.engine) => DrawnOnce(QuerySent(s))) =>
    MarkersMatch(sent[s][1].sql, sent[s][1].args, Params[s])

\* Every column is read from the row the lambda means: its alias belongs to
\* one table of the query or of one around it, and to that row (query/alias.go:42).
ScopesResolve ==
  \A s \in Sessions : Sent(s) /\ Supported(QuerySent(s), program.engine) =>
    Resolves(sent[s][1].sql, <<>>, program.engine \in {"postgres", "mysql"})

\* The WHERE, HAVING and ON of a statement keep the rows the condition keeps,
\* read with the precedence the engine gives AND and OR, and test groups in
\* HAVING only (query/parse.go:458).
FiltersPlaced ==
  \A s \in Sessions : Sent(s) /\ Bracketed(QuerySent(s), program.engine) => ConditionsKept(sent[s][1].sql)

\* The same of every statement: the condition of a join is ANDed to its tie
\* (docs/joins.md:122), and a disjunction is bracketed where it is conjoined
\* (query/exists.go:86).
DisjunctionsBracketed == \A s \in Sessions : Sent(s) => ConditionsKept(sent[s][1].sql)

\* A query that aggregates groups by every plain column it projects, so that
\* the engine accepts it (query/search.go:242).
GroupedColumns ==
  \A s \in Sessions : Sent(s) /\ session[s].call = "Select" => Grouped(QuerySent(s), sent[s][1].sql)
====================================================================================
