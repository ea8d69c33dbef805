--------------------------- MODULE MCMigrateSocket -----------------------------
(* Two models: orders, whose columns changed, with an index and a many2many *)
(* relation to tags.  The schema found is empty, old, or partly old.        *)
EXTENDS MigrateSocket

MCNames == <<"a", "b", "c", "d">>
MCEntities == <<"orders", "tags">>
MCModelColumns == [t \in {"orders", "tags"} |-> IF t = "orders" THEN {"a", "b"} ELSE {"a"}]
MCJoinedTo == [t \in {"orders", "tags"} |-> IF t = "orders" THEN {"tags"} ELSE {}]

SQLite == [transactional |-> TRUE, alters |-> FALSE, checksTargets |-> FALSE]
PostgreSQL == [transactional |-> TRUE, alters |-> TRUE, checksTargets |-> TRUE]
MySQL == [transactional |-> FALSE, alters |-> TRUE, checksTargets |-> TRUE]

Nothing == [c \in {} |-> c]
Schema(orders, tags, aux) ==
  [cols |-> [t \in Tables |-> IF t = "orders" THEN orders ELSE tags], aux |-> aux]
Typed(t, c, type) == (c :> [type |-> type, data |-> <<t, c>>])
NoTables == Schema(Nothing, Nothing, {})
OldTags == Schema(Nothing, Typed("tags", "a", "other") @@ Typed("tags", "c", "other"), {})
OldOrders ==
  Schema(Typed("orders", "a", Model) @@ Typed("orders", "c", Model) @@ Typed("orders", "d", "other"),
         Typed("tags", "a", Model), Auxiliary)
OldOrder == Schema(Typed("orders", "a", "other") @@ Typed("orders", "c", Model), Nothing, Auxiliary)
MCInstallations ==
  {[dialect |-> MySQL, schema |-> NoTables], [dialect |-> MySQL, schema |-> OldOrders],
   [dialect |-> PostgreSQL, schema |-> OldTags], [dialect |-> SQLite, schema |-> OldOrder]}
MCPrepared == {(<<"tags", "c", "column">> :> [act |-> "rename", to |-> "d"])}
Symmetry == Permutations(Clients)
=============================================================================
