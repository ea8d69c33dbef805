--------------------------- MODULE MCLambdaCall ---------------------------
(* Small sets of lambda bodies for TLC: predicates over two columns of two *)
(* values, and mutations whose arms test one column and assign the other,  *)
(* the tested one, or a relation.                                          *)
EXTENDS LambdaCall, TLC

CONSTANTS a, c, x, y, tags

Is(col, val) == <<col, val>>
Block(set, rel, ret) == [set |-> set, rel |-> rel, ret |-> ret]
Arm(test, b) == [test |-> test, set |-> b.set, rel |-> b.rel, ret |-> b.ret]
Chain(arms, other) == [op |-> "arms", arms |-> arms, other |-> other]

\* Sequences of one or two elements of S, and of none or one.
UpToTwo(S) == {<<s>> : s \in S} \cup {<<s, t>> : s \in S, t \in S}
UpToOne(S) == {<<>>} \cup {<<s>> : s \in S}

PredTests  == {{Is(a, x)}, {Is(c, x)}, {Is(a, x), Is(c, y)}}
Verdicts   == {Block({}, Keep, "true"), Block({}, Keep, "false")}
PredArms   == {Arm(t, b) : t \in PredTests, b \in Verdicts}
Returns    == {[op |-> "accept"], [op |-> "reject"]}
              \cup {[op |-> "return", test |-> t] : t \in PredTests}
Exhaustive == {<<Chain(arms, <<b>>)>> : arms \in UpToTwo(PredArms), b \in Verdicts}
Guarded    == {<<Chain(arms, <<>>), last>> : arms \in UpToTwo(PredArms), last \in Returns}
TwoGuards  == {<<Chain(<<p>>, <<>>), Chain(<<q>>, <<>>), last>> :
                 p \in PredArms, q \in PredArms, last \in Returns}
Predicates == Exhaustive \cup Guarded \cup TwoGuards

MutTests == {{Is(a, x)}, {Is(a, y)}, {Is(a, x), Is(a, y)}}
StableBlocks == {Block({Is(c, x)}, Keep, "none"), Block({Is(c, y)}, tags, "none"),
                 Block({}, tags, "none"), Block({}, Keep, "none")}
OnTop == [op |-> "assign", block |-> Block({Is(c, y)}, Keep, "none")]
Mutations(Blocks) ==
  {<<Chain(arms, other)>> : arms \in UpToTwo({Arm(t, b) : t \in MutTests, b \in Blocks}),
                            other \in UpToOne(Blocks)}

\* The two chains of the second family set the column one after the other.
TwoChains(Blocks) ==
  {<<Chain(<<p>>, <<>>), Chain(<<q>>, <<b>>)>> :
     p \in {Arm(t, d) : t \in MutTests, d \in Blocks},
     q \in {Arm(t, d) : t \in MutTests, d \in Blocks}, b \in Blocks}

CallsOf(kinds, bodies) == {[kind |-> k, body |-> b] : k \in kinds, b \in bodies}

FaithfulCalls ==
  CallsOf({"select", "delete"}, {b \in Predicates : FaithfulPredicate(b)})
  \cup CallsOf({"update"}, Mutations(StableBlocks) \cup TwoChains(StableBlocks)
                           \cup {<<OnTop, m[1]>> : m \in Mutations({Block({}, tags, "none")})})
  \cup CallsOf({"insert"}, Mutations({b \in StableBlocks : b.rel = Keep}))

\* Bodies whose arms assign the column they test.
CascadingCalls ==
  CallsOf({"update"}, Mutations({Block({Is(a, x)}, Keep, "none"), Block({Is(a, y)}, Keep, "none")}))

\* Deletes with two guards, of which some arm or the last statement selects.
GuardedDeletes == CallsOf({"delete"}, {b \in TwoGuards : SelectingConditions(parseBody(b)) # {}})

\* Deletes whose every arm returns false.
RejectingDeletes ==
  CallsOf({"delete"}, {b \in Guarded : SelectingConditions(parseBody(b)) = {}})

=============================================================================
