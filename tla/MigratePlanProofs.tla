------------------------- MODULE MigratePlanProofs -------------------------
(***************************************************************************)
(* Lemmas about the operators of Migrate: the changes and questions of a   *)
(* plan, and what a statement makes of a schema.                           *)
(***************************************************************************)
EXTENDS Migrate, SequenceLemmas

-----------------------------------------------------------------------------
(* The changes of a plan, and what a statement may do to a schema.          *)

\* A change that fits the models: it creates what they declare, adds, renames into
\* and retypes columns they have, and drops or renames only columns they lack.
Fits(ch) ==
  LET t == ch.table IN
  \/ ch = Change("create_table", t, NoName, NoName)
  \/ ch = Change("create_index", t, NoName, t) /\ t \in Indexed
  \/ ch = Change("create_join_table", t, NoName, ch.from) /\ ch.from \in JoinedTo[t]
  \/ ch = Change("add_column", t, ch.column, ch.column) /\ ch.column \in ModelColumns[t]
  \/ /\ ch = Change("rename_column", t, ch.column, ch.from)
     /\ ch.column \in ModelColumns[t] /\ ch.from \in Columns \ ModelColumns[t]
  \/ ch = Change("drop_column", t, ch.column, ch.column) /\ ch.column \in Columns \ ModelColumns[t]
  \/ ch = Change("change_type", t, ch.column, ch.column) /\ ch.column \in ModelColumns[t]

\* All kinds of changes, and all changes that fit.
Kinds == {"create_table", "create_index", "create_join_table", "add_column",
          "rename_column", "drop_column", "change_type"}

Changes ==
  {ch \in [kind : Kinds, table : Tables, column : Columns \cup {NoName},
           from : Columns \cup Tables \cup {NoName}] : Fits(ch)}

\* Columns of the models stay, at most retyped, their data then kept or lost; other
\* columns never appear and stay what they are; indexes and join tables stay.
Retypes(old, new) == new = old \/ (new.type = Model /\ new.data \in {NoData, old.data})
Evolves(old, new) ==
  /\ \A t \in Tables : \A x \in ModelColumns[t] \cap DOMAIN old.cols[t] :
       x \in DOMAIN new.cols[t] /\ Retypes(old.cols[t][x], new.cols[t][x])
  /\ \A t \in Tables : \A x \in DOMAIN new.cols[t] \ ModelColumns[t] :
       x \in DOMAIN old.cols[t] /\ new.cols[t][x] = old.cols[t][x]
  /\ old.aux \subseteq new.aux

\* A table appears with all the columns of its model.
Grows(old, new) ==
  \A t \in Tables : Exists(new, t) => Exists(old, t) \/ ModelColumns[t] \subseteq DOMAIN new.cols[t]

\* Every table found shares a column with its model (its id).
SharesColumn(schema) ==
  \A t \in Tables : Exists(schema, t) => ModelColumns[t] \cap DOMAIN schema.cols[t] # {}

\* The change brings column x of table t.
Provides(ch, t, x) ==
  ch.table = t /\ (ch.kind = "create_table" \/ (ch.kind \in {"add_column", "rename_column"} /\ ch.column = x))

\* The change brings index or join table a.
Makes(ch, a) ==
  \/ ch.kind = "create_index" /\ a = <<"index", ch.table, ch.table>>
  \/ ch.kind = "create_join_table" /\ a = <<"join", ch.table, ch.from>>

\* After the creation of a table come those of its indexes and join tables.
CreatesAll(changes) ==
  \A i \in DOMAIN changes : changes[i].kind = "create_table" =>
    \A a \in AuxOf(changes[i].table) : \E j \in DOMAIN changes : j > i /\ Makes(changes[j], a)

-----------------------------------------------------------------------------
(* The planner.                                                             *)

\* Sorted yields the columns of a set.
LEMMA SortedRange ==
  ASSUME NEW S
  PROVE  /\ Sorted(S) \in Seq(Columns \cap S)
         /\ Range(Sorted(S)) = Columns \cap S
BY ThoseRange, MigrateAssumption DEF Sorted, Columns

GoneChanges(t, live, dec) ==
  {GoneColumnChange(t, dec, c) :
     c \in Columns \cap (Decided(t, live, dec, "drop") \cup Decided(t, live, dec, "rename"))}
RetypeChanges(t, live, dec) == {Change("change_type", t, c, c) : c \in Retyped(t, live, dec)}
AddChanges(t, live, dec) ==
  {Change("add_column", t, c, c) : c \in Appeared(t, live) \ Consumed(t, live, dec)}

\* The renames decided on lead to columns of the model.
RenamesFit(t, live, dec) ==
  \A c \in Decided(t, live, dec, "rename") : dec[ColumnId(t, c)].to \in ModelColumns[t]

\* The columns of the models are among the names.
LEMMA ModelNames == \A t \in Tables : ModelColumns[t] \in SUBSET Columns
BY MigrateAssumption

\* The fields of a change.
LEMMA ChangeFields ==
  ASSUME NEW k, NEW t, NEW c, NEW u
  PROVE  LET ch == Change(k, t, c, u) IN
         ch.kind = k /\ ch.table = t /\ ch.column = c /\ ch.from = u
BY DEF Change

\* A change made of these parts fits its model.
LEMMA FittingChange ==
  ASSUME NEW k \in Kinds, NEW t \in Tables, NEW c \in Columns \cup {NoName},
         NEW u \in Columns \cup Tables \cup {NoName},
         \/ k = "create_table" /\ c = NoName /\ u = NoName
         \/ k = "create_index" /\ c = NoName /\ u = t /\ t \in Indexed
         \/ k = "create_join_table" /\ c = NoName /\ u \in JoinedTo[t]
         \/ k \in {"add_column", "change_type"} /\ c = u /\ c \in ModelColumns[t]
         \/ k = "rename_column" /\ c \in ModelColumns[t] /\ u \in Columns \ ModelColumns[t]
         \/ k = "drop_column" /\ c = u /\ c \in Columns \ ModelColumns[t]
  PROVE  Change(k, t, c, u) \in Changes
<1>. DEFINE ch == Change(k, t, c, u)
<1>1. ch.table = t /\ ch.column = c /\ ch.from = u
  BY ChangeFields
<1>2. ch = Change(k, t, c, u)
  OBVIOUS
<1>3. ch \in [kind : Kinds, table : Tables, column : Columns \cup {NoName},
              from : Columns \cup Tables \cup {NoName}]
  BY DEF Change
<1>. HIDE DEF ch
<1>4. Fits(ch)
  BY <1>1, <1>2 DEF Fits
<1>. QED
  BY <1>2, <1>3, <1>4 DEF Changes

\* Every kind of change, made as the planner makes it, fits.
LEMMA KindsFit ==
  ASSUME NEW t \in Tables
  PROVE  /\ Change("create_table", t, NoName, NoName) \in Changes
         /\ t \in Indexed => Change("create_index", t, NoName, t) \in Changes
         /\ \A u \in JoinedTo[t] : Change("create_join_table", t, NoName, u) \in Changes
         /\ \A c \in ModelColumns[t] : /\ Change("add_column", t, c, c) \in Changes
                                       /\ Change("change_type", t, c, c) \in Changes
         /\ \A c \in Columns \ ModelColumns[t] :
              /\ Change("drop_column", t, c, c) \in Changes
              /\ \A to \in ModelColumns[t] : Change("rename_column", t, to, c) \in Changes
<1>1. Change("create_table", t, NoName, NoName) \in Changes
  BY FittingChange DEF Kinds
<1>2. ASSUME t \in Indexed PROVE Change("create_index", t, NoName, t) \in Changes
  BY <1>2, FittingChange DEF Kinds
<1>3. ASSUME NEW u \in JoinedTo[t] PROVE Change("create_join_table", t, NoName, u) \in Changes
  <2>1. u \in Tables
    BY MigrateAssumption
  <2>. QED
    BY <1>3, <2>1, FittingChange DEF Kinds
<1>4. ASSUME NEW c \in ModelColumns[t] PROVE Change("add_column", t, c, c) \in Changes
  BY <1>4, ModelNames, FittingChange DEF Kinds
<1>5. ASSUME NEW c \in ModelColumns[t] PROVE Change("change_type", t, c, c) \in Changes
  BY <1>5, ModelNames, FittingChange DEF Kinds
<1>6. ASSUME NEW c \in Columns \ ModelColumns[t] PROVE Change("drop_column", t, c, c) \in Changes
  BY <1>6, FittingChange DEF Kinds
<1>7. ASSUME NEW c \in Columns \ ModelColumns[t], NEW to \in ModelColumns[t]
      PROVE  Change("rename_column", t, to, c) \in Changes
  BY <1>7, ModelNames, FittingChange DEF Kinds
<1>. QED
  BY <1>1, <1>2, <1>3, <1>4, <1>5, <1>6, <1>7

\* Every change made for a table that exists fits its model.
LEMMA TableChangesFit ==
  ASSUME NEW t \in Tables, NEW live, NEW dec, RenamesFit(t, live, dec)
  PROVE  GoneChanges(t, live, dec) \cup RetypeChanges(t, live, dec) \cup AddChanges(t, live, dec)
           \subseteq Changes
<1>1. ASSUME NEW c \in Columns,
             c \in Decided(t, live, dec, "drop") \cup Decided(t, live, dec, "rename")
      PROVE  GoneColumnChange(t, dec, c) \in Changes
  <2>1. c \notin ModelColumns[t]
    BY <1>1 DEF Decided, Disappeared
  <2>2. CASE dec[ColumnId(t, c)].act = "drop"
    BY <2>1, <2>2, KindsFit DEF GoneColumnChange
  <2>3. CASE dec[ColumnId(t, c)].act # "drop"
    <3>1. dec[ColumnId(t, c)].to \in ModelColumns[t]
      BY <1>1, <2>3 DEF Decided, RenamesFit
    <3>. QED
      BY <2>1, <2>3, <3>1, KindsFit DEF GoneColumnChange
  <2>. QED
    BY <2>2, <2>3
<1>2. ASSUME NEW c \in ModelColumns[t] PROVE Change("change_type", t, c, c) \in Changes
  BY KindsFit
<1>3. ASSUME NEW c \in ModelColumns[t] PROVE Change("add_column", t, c, c) \in Changes
  BY KindsFit
<1>4. Retyped(t, live, dec) \subseteq ModelColumns[t] /\ Appeared(t, live) \subseteq ModelColumns[t]
  BY DEF Retyped, Mistyped, Appeared
<1>. QED
  BY <1>1, <1>2, <1>3, <1>4 DEF GoneChanges, RetypeChanges, AddChanges

\* The changes of such a table: its decided drops and renames, its retypings and the
\* columns it lacks.
LEMMA TableChangesRange ==
  ASSUME NEW t \in Tables, NEW live, NEW dec, RenamesFit(t, live, dec)
  PROVE  /\ TableChanges(t, live, dec) \in Seq(Changes)
         /\ Range(TableChanges(t, live, dec)) =
              GoneChanges(t, live, dec) \cup RetypeChanges(t, live, dec) \cup AddChanges(t, live, dec)
<1>. DEFINE A == Decided(t, live, dec, "drop") \cup Decided(t, live, dec, "rename")
            B == Retyped(t, live, dec)
            C == Appeared(t, live) \ Consumed(t, live, dec)
            a == [i \in DOMAIN Sorted(A) |-> GoneColumnChange(t, dec, Sorted(A)[i])]
            b == [i \in DOMAIN Sorted(B) |-> Change("change_type", t, Sorted(B)[i], Sorted(B)[i])]
            c == [i \in DOMAIN Sorted(C) |-> Change("add_column", t, Sorted(C)[i], Sorted(C)[i])]
<1>1. TableChanges(t, live, dec) = a \o b \o c
  BY DEF TableChanges, Each
<1>2. B \subseteq Columns /\ C \subseteq Columns
  BY ModelNames DEF Retyped, Mistyped, Appeared
<1>3. \A S : Sorted(S) \in Seq(Columns \cap S) /\ Range(Sorted(S)) = Columns \cap S
  BY SortedRange
<1>4. \A S : \A i \in DOMAIN Sorted(S) : Sorted(S)[i] \in Columns \cap S
  BY <1>3, LenProperties, ElementOfSeq
<1>. HIDE DEF A, B, C
<1>5. Range(a) = GoneChanges(t, live, dec)
  <2>1. Range(a) = {GoneColumnChange(t, dec, x) : x \in Range(Sorted(A))}
    BY DEF Range
  <2>. QED
    BY <1>3, <2>1 DEF GoneChanges, A
<1>6. Range(b) = RetypeChanges(t, live, dec)
  <2>1. Range(b) = {Change("change_type", t, x, x) : x \in Range(Sorted(B))}
    BY DEF Range
  <2>. QED
    BY <1>2, <1>3, <2>1 DEF RetypeChanges, B
<1>7. Range(c) = AddChanges(t, live, dec)
  <2>1. Range(c) = {Change("add_column", t, x, x) : x \in Range(Sorted(C))}
    BY DEF Range
  <2>. QED
    BY <1>2, <1>3, <2>1 DEF AddChanges, C
<1>8. Range(a) \subseteq Changes /\ Range(b) \subseteq Changes /\ Range(c) \subseteq Changes
  BY <1>5, <1>6, <1>7, TableChangesFit
<1>9. a \in Seq(Changes) /\ b \in Seq(Changes) /\ c \in Seq(Changes)
  <2>1. a = [i \in DOMAIN Sorted(A) |-> a[i]] /\ \A i \in DOMAIN Sorted(A) : a[i] \in Changes
    BY <1>8 DEF Range
  <2>2. b = [i \in DOMAIN Sorted(B) |-> b[i]] /\ \A i \in DOMAIN Sorted(B) : b[i] \in Changes
    BY <1>8 DEF Range
  <2>3. c = [i \in DOMAIN Sorted(C) |-> c[i]] /\ \A i \in DOMAIN Sorted(C) : c[i] \in Changes
    BY <1>8 DEF Range
  <2>. HIDE DEF a, b, c
  <2>4. a \in Seq(Changes)
    BY <1>3, <2>1, MadeOf
  <2>5. b \in Seq(Changes)
    BY <1>3, <2>2, MadeOf
  <2>6. c \in Seq(Changes)
    BY <1>3, <2>3, MadeOf
  <2>. QED
    BY <2>4, <2>5, <2>6
<1>. HIDE DEF a, b, c
<1>10. a \o b \in Seq(Changes) /\ Range(a \o b) = Range(a) \cup Range(b)
  BY <1>9, ConcatProperties, RangeConcatenation
<1>. DEFINE ab == a \o b
<1>. HIDE DEF ab
<1>11. ab \o c \in Seq(Changes) /\ Range(ab \o c) = Range(ab) \cup Range(c)
  <2>1. ab \in Seq(Changes)
    BY <1>10 DEF ab
  <2>. QED
    BY <1>9, <2>1, ConcatProperties, RangeConcatenation
<1>. QED
  BY <1>1, <1>5, <1>6, <1>7, <1>10, <1>11 DEF ab

\* A table that is missing is created, then its index and join tables.
NewChanges(t) ==
  {Change("create_table", t, NoName, NoName)}
  \cup {Change("create_index", u, NoName, u) : u \in Indexed \cap {t}}
  \cup {Change("create_join_table", t, NoName, u) : u \in JoinedTo[t]}

\* The changes that create a table, after which its index and join tables follow.
LEMMA NewTableRange ==
  ASSUME NEW t \in Tables
  PROVE  /\ NewTableChanges(t) \in Seq(Changes) /\ Range(NewTableChanges(t)) = NewChanges(t)
         /\ CreatesAll(NewTableChanges(t))
<1>. DEFINE x == Change("create_table", t, NoName, NoName)
            index == IF t \in Indexed THEN <<Change("create_index", t, NoName, t)>> ELSE <<>>
            others == Those(Entities, JoinedTo[t])
            joins == [i \in DOMAIN others |-> Change("create_join_table", t, NoName, others[i])]
<1>1. NewTableChanges(t) = <<x>> \o index \o joins
  BY DEF NewTableChanges, Each
<1>2. others \in Seq(Tables \cap JoinedTo[t]) /\ Range(others) = Tables \cap JoinedTo[t]
  BY ThoseRange, MigrateAssumption
<1>3. JoinedTo[t] \subseteq Tables
  BY MigrateAssumption
<1>4. x \in Changes /\ (t \in Indexed => Change("create_index", t, NoName, t) \in Changes)
        /\ \A u \in JoinedTo[t] : Change("create_join_table", t, NoName, u) \in Changes
  BY KindsFit
<1>5. <<x>> \in Seq(Changes) /\ Range(<<x>>) = {x}
  BY <1>4 DEF Range
<1>6. index \in Seq(Changes) /\ Range(index) = {Change("create_index", u, NoName, u) : u \in Indexed \cap {t}}
  <2>1. CASE t \in Indexed
    BY <1>4, <2>1 DEF Range
  <2>2. CASE t \notin Indexed
    <3>1. index = <<>> /\ index \in Seq(Changes) /\ DOMAIN <<>> = {}
      BY <2>2, EmptySeq
    <3>. QED
      BY <2>2, <3>1 DEF Range
  <2>. QED
    BY <2>1, <2>2
<1>. HIDE DEF x, index, others
<1>7. Range(joins) = {Change("create_join_table", t, NoName, u) : u \in JoinedTo[t]}
  <2>1. Range(joins) = {Change("create_join_table", t, NoName, u) : u \in Range(others)}
    BY DEF Range
  <2>. QED
    BY <1>2, <1>3, <2>1
<1>8. joins \in Seq(Changes)
  <2>1. joins = [i \in DOMAIN others |-> joins[i]] /\ \A i \in DOMAIN others : joins[i] \in Changes
    BY <1>4, <1>7 DEF Range
  <2>. HIDE DEF joins
  <2>. QED
    BY <1>2, <2>1, MadeOf
<1>. HIDE DEF joins
<1>. DEFINE rest == index \o joins
<1>9. rest \in Seq(Changes) /\ Range(rest) = Range(index) \cup Range(joins)
  BY <1>6, <1>8, ConcatProperties, RangeConcatenation
<1>10. <<x>> \o index \o joins = <<x>> \o rest
  BY <1>5, <1>6, <1>8, ConcatAssociative
<1>. HIDE DEF rest
<1>11. <<x>> \o rest \in Seq(Changes) /\ Range(<<x>> \o rest) = {x} \cup Range(rest)
  <2>. DEFINE one == <<x>>
  <2>1. one \in Seq(Changes) /\ Range(one) = {x}
    BY <1>5
  <2>. HIDE DEF one
  <2>2. one \o rest \in Seq(Changes) /\ Range(one \o rest) = Range(one) \cup Range(rest)
    BY <1>9, <2>1, ConcatProperties, RangeConcatenation
  <2>. QED
    BY <2>1, <2>2 DEF one
<1>12. \A ch \in Range(rest) : ch.kind # "create_table"
  BY <1>6, <1>7, <1>9, ChangeFields
<1>13. Range(NewTableChanges(t)) = NewChanges(t)
  BY <1>1, <1>6, <1>7, <1>9, <1>10, <1>11 DEF NewChanges, x
<1>. DEFINE all == <<x>> \o rest
<1>14. Len(rest) \in Nat /\ DOMAIN all = 1 .. (Len(rest) + 1) /\ DOMAIN rest = 1 .. Len(rest)
  <2>1. Len(<<x>>) = 1
    OBVIOUS
  <2>2. Len(all) = Len(rest) + 1
    BY <1>5, <1>9, <2>1, ConcatProperties
  <2>. QED
    BY <1>9, <1>11, <2>2, LenProperties
<1>15. all[1] = x /\ \A i \in DOMAIN rest : all[i + 1] = rest[i]
  <2>1. Len(<<x>>) = 1 /\ <<x>>[1] = x
    OBVIOUS
  <2>2. \A i \in 1 .. (1 + Len(rest)) : all[i] = IF i <= 1 THEN <<x>>[i] ELSE rest[i - 1]
    BY <1>5, <1>9, <2>1, ConcatProperties
  <2>. HIDE DEF all
  <2>. QED
    BY <1>14, <2>1, <2>2
<1>. HIDE DEF all
<1>16. ASSUME NEW i \in DOMAIN all, all[i].kind = "create_table", NEW a \in AuxOf(all[i].table)
       PROVE  \E j \in DOMAIN all : j > i /\ Makes(all[j], a)
  <2>1. i = 1
    <3>1. SUFFICES ASSUME i # 1 PROVE FALSE
      OBVIOUS
    <3>2. i - 1 \in DOMAIN rest /\ i - 1 + 1 = i
      BY <1>14, <3>1
    <3>3. all[i] = rest[i - 1]
      BY <1>15, <3>2
    <3>. QED
      BY <1>12, <1>16, <3>2, <3>3 DEF Range
  <2>2. a \in AuxOf(t)
    BY <1>15, <1>16, <2>1, ChangeFields DEF x
  <2>3. \E ch \in Range(rest) : Makes(ch, a)
    <3>1. CASE a = <<"index", t, t>> /\ t \in Indexed
      <4>1. Makes(Change("create_index", t, NoName, t), a)
        BY <3>1, ChangeFields DEF Makes
      <4>. QED
        BY <1>6, <1>9, <3>1, <4>1
    <3>2. ASSUME NEW u \in JoinedTo[t], a = <<"join", t, u>>
          PROVE  \E ch \in Range(rest) : Makes(ch, a)
      <4>1. Makes(Change("create_join_table", t, NoName, u), a)
        BY <3>2, ChangeFields DEF Makes
      <4>. QED
        BY <1>7, <1>9, <4>1
    <3>3. \/ \E v \in Indexed : a = <<"index", v, v>>
          \/ \E v \in Tables : \E u \in JoinedTo[v] : a = <<"join", v, u>>
      BY <2>2 DEF AuxOf, Auxiliary
    <3>4. a[2] = t
      BY <2>2 DEF AuxOf
    <3>. QED
      BY <3>1, <3>2, <3>3, <3>4
  <2>4. PICK j \in DOMAIN rest : Makes(rest[j], a)
    BY <2>3 DEF Range
  <2>. QED
    BY <1>14, <1>15, <2>1, <2>4
<1>17. CreatesAll(NewTableChanges(t))
  BY <1>1, <1>10, <1>16 DEF CreatesAll, all
<1>. QED
  BY <1>1, <1>10, <1>11, <1>13, <1>17

\* A table planned for: created when it is missing, else changed.
SegmentOf(live, dec, t) == IF t \in DOMAIN live THEN TableChanges(t, live[t], dec) ELSE NewTableChanges(t)
ChangesOf(live, dec, t) ==
  IF t \in DOMAIN live
  THEN GoneChanges(t, live[t], dec) \cup RetypeChanges(t, live[t], dec) \cup AddChanges(t, live[t], dec)
  ELSE NewChanges(t)

\* Two sequences of changes that create all they should do so one after the other.
LEMMA CreatesAllConcat ==
  ASSUME NEW s \in Seq(Changes), NEW u \in Seq(Changes), CreatesAll(s), CreatesAll(u)
  PROVE  s \o u \in Seq(Changes) /\ CreatesAll(s \o u)
<1>. DEFINE m == Len(s)
            n == Len(u)
            su == s \o u
<1>1. m \in Nat /\ n \in Nat /\ DOMAIN s = 1 .. m /\ DOMAIN u = 1 .. n
  BY LenProperties
<1>2. su \in Seq(Changes) /\ Len(su) = m + n
      /\ \A i \in 1 .. (m + n) : su[i] = IF i <= m THEN s[i] ELSE u[i - m]
  BY ConcatProperties
<1>3. DOMAIN su = 1 .. (m + n)
  BY <1>2, LenProperties
<1>. HIDE DEF m, n, su
<1>4. \A i \in 1 .. m : i \in 1 .. (m + n) /\ su[i] = s[i]
  BY <1>1, <1>2
<1>5. \A i \in 1 .. n : m + i \in 1 .. (m + n) /\ su[m + i] = u[i]
  <2>1. ASSUME NEW i \in 1 .. n
        PROVE  m + i \in 1 .. (m + n) /\ ~ (m + i <= m) /\ m + i - m = i
    BY <1>1
  <2>2. \A j \in 1 .. (m + n) : ~ (j <= m) => su[j] = u[j - m]
    BY <1>2
  <2>3. ASSUME NEW i \in 1 .. n PROVE su[m + i] = u[i]
    <3>. DEFINE j == m + i
    <3>1. j \in 1 .. (m + n) /\ ~ (j <= m) /\ j - m = i
      BY <1>1, <2>1
    <3>. HIDE DEF j
    <3>2. su[j] = u[j - m]
      BY <2>2, <3>1
    <3>. QED
      BY <3>1, <3>2 DEF j
  <2>. QED
    BY <2>1, <2>3
<1>6. ASSUME NEW i \in DOMAIN su, su[i].kind = "create_table", NEW a \in AuxOf(su[i].table)
      PROVE  \E j \in DOMAIN su : j > i /\ Makes(su[j], a)
  <2>1. CASE i \in 1 .. m
    <3>1. PICK j \in DOMAIN s : j > i /\ Makes(s[j], a)
      BY <1>1, <1>4, <1>6, <2>1 DEF CreatesAll
    <3>. QED
      BY <1>1, <1>3, <1>4, <3>1
  <2>2. CASE i \notin 1 .. m
    <3>1. i - m \in 1 .. n /\ m + (i - m) = i
      BY <1>1, <1>3, <2>2
    <3>2. su[i] = u[i - m]
      BY <1>5, <3>1
    <3>3. PICK j \in DOMAIN u : j > i - m /\ Makes(u[j], a)
      BY <1>1, <1>6, <3>1, <3>2 DEF CreatesAll
    <3>4. m + j > i /\ m + j \in DOMAIN su /\ Makes(su[m + j], a)
      BY <1>1, <1>3, <1>5, <3>3
    <3>. QED
      BY <3>4
  <2>. QED
    BY <2>1, <2>2
<1>. QED
  BY <1>2, <1>6 DEF CreatesAll, su

\* A sequence without creations owes nothing.
LEMMA NothingCreated ==
  ASSUME NEW s \in Seq(Changes), \A ch \in Range(s) : ch.kind # "create_table"
  PROVE  CreatesAll(s)
BY DEF CreatesAll, Range

\* One table's part of the plan.
LEMMA SegmentRange ==
  ASSUME NEW t \in Tables, NEW live, NEW dec, t \in DOMAIN live => RenamesFit(t, live[t], dec)
  PROVE  /\ SegmentOf(live, dec, t) \in Seq(Changes) /\ CreatesAll(SegmentOf(live, dec, t))
         /\ Range(SegmentOf(live, dec, t)) = ChangesOf(live, dec, t)
<1>1. CASE t \in DOMAIN live
  <2>1. /\ SegmentOf(live, dec, t) \in Seq(Changes)
        /\ Range(SegmentOf(live, dec, t)) = ChangesOf(live, dec, t)
    BY <1>1, TableChangesRange DEF SegmentOf, ChangesOf
  <2>2. \A c : GoneColumnChange(t, dec, c).kind # "create_table"
    BY ChangeFields DEF GoneColumnChange
  <2>3. \A ch \in ChangesOf(live, dec, t) : ch.kind # "create_table"
    BY <1>1, <2>2, ChangeFields DEF ChangesOf, GoneChanges, RetypeChanges, AddChanges
  <2>. QED
    BY <2>1, <2>3, NothingCreated
<1>2. CASE t \notin DOMAIN live
  BY <1>2, NewTableRange DEF SegmentOf, ChangesOf
<1>. QED
  BY <1>1, <1>2

\* A plan that is not refused has the changes of every table, and after each creation
\* the index and joins of its table.
LEMMA PlanChanges ==
  ASSUME NEW d, NEW live, NEW dec
  PROVE  LET p == PlanAgainst(d, live, dec) IN
         /\ p.changes \in Seq(Changes) /\ CreatesAll(p.changes)
         /\ p.error => p.changes = <<>> /\ p.questions = <<>>
         /\ ~p.error => Range(p.changes) = UNION {ChangesOf(live, dec, t) : t \in Tables}
<1>. DEFINE p == PlanAgainst(d, live, dec)
            bad == \E t \in DOMAIN live : TableError(d, t, live[t], dec)
            Good == /\ p.changes \in Seq(Changes) /\ CreatesAll(p.changes)
                    /\ p.error => p.changes = <<>> /\ p.questions = <<>>
                    /\ ~p.error => Range(p.changes) = UNION {ChangesOf(live, dec, t) : t \in Tables}
            segments == [i \in DOMAIN Entities |-> SegmentOf(live, dec, Entities[i])]
<1>0. Entities \in Seq(Tables) /\ Range(Entities) = Tables
  BY MigrateAssumption
<1>1. ASSUME bad PROVE Good
  <2>1. p = [changes |-> <<>>, questions |-> <<>>, error |-> TRUE]
    BY <1>1 DEF PlanAgainst, NoPlan
  <2>2. p.changes = <<>> /\ p.questions = <<>> /\ p.error
    BY <2>1
  <2>3. <<>> \in Seq(Changes) /\ CreatesAll(<<>>)
    BY EmptySeq DEF CreatesAll
  <2>. HIDE DEF p
  <2>. QED
    BY <2>2, <2>3
<1>2. ASSUME ~bad PROVE Good
  <2>1. ~p.error /\ p.changes = FlattenSeq(segments)
    BY <1>2 DEF PlanAgainst, Each, SegmentOf
  <2>2. \A t \in Tables \cap DOMAIN live : RenamesFit(t, live[t], dec)
    BY <1>2 DEF TableError, RenamesFit
  <2>. DEFINE P == {s \in Seq(Changes) : CreatesAll(s)}
  <2>3. \A t \in Tables : /\ SegmentOf(live, dec, t) \in P
                         /\ Range(SegmentOf(live, dec, t)) = ChangesOf(live, dec, t)
    BY <2>2, SegmentRange
  <2>4. \A i \in DOMAIN Entities : Entities[i] \in Tables
    BY <1>0, LenProperties, ElementOfSeq
  <2>5. segments = [i \in DOMAIN Entities |-> segments[i]]
        /\ \A i \in DOMAIN Entities : segments[i] = SegmentOf(live, dec, Entities[i])
        /\ DOMAIN segments = DOMAIN Entities
    OBVIOUS
  <2>. HIDE DEF segments, bad, p
  <2>6. segments \in Seq(P)
    <3>. HIDE DEF P
    <3>1. \A i \in DOMAIN Entities : segments[i] \in P
      BY <2>3, <2>4, <2>5
    <3>. QED
      BY <1>0, <2>5, <3>1, MadeOf
  <2>7. <<>> \in P
    BY EmptySeq DEF CreatesAll
  <2>8. \A s \in P : \A u \in P : s \o u \in P
    BY CreatesAllConcat
  <2>9. FlattenSeq(segments) \in P
    <3>. HIDE DEF P
    <3>. QED
      BY <2>6, <2>7, <2>8, FlattenClosed
  <2>10. segments \in Seq(Seq(Changes))
    BY <2>6, SeqMonotonic
  <2>11. \A x : x \in Range(FlattenSeq(segments)) <=> \E i \in DOMAIN segments : x \in Range(segments[i])
    BY <2>10, FlattenRange
  <2>12. \A x : x \in Range(FlattenSeq(segments)) <=> \E t \in Tables : x \in ChangesOf(live, dec, t)
    <3>1. ASSUME NEW x, NEW i \in DOMAIN segments, x \in Range(segments[i])
          PROVE  \E t \in Tables : x \in ChangesOf(live, dec, t)
      BY <2>3, <2>4, <2>5, <3>1
    <3>2. ASSUME NEW x, NEW t \in Tables, x \in ChangesOf(live, dec, t)
          PROVE  \E i \in DOMAIN segments : x \in Range(segments[i])
      <4>1. PICK i \in DOMAIN Entities : Entities[i] = t
        BY <1>0 DEF Range
      <4>. QED
        BY <2>3, <2>5, <3>2, <4>1
    <3>. QED
      BY <2>11, <3>1, <3>2
  <2>. QED
    BY <2>1, <2>9, <2>12
<1>. HIDE DEF bad
<1>3. Good
  <2>. HIDE DEF Good
  <2>. QED
    BY <1>1, <1>2
<1>. QED
  BY <1>3

\* The questions a plan may ask.
QuestionsOf(d, live, dec) ==
  UNION {{Question(ColumnId(t, x), RenameOptions(t, live[t])) :
            x \in {y \in Disappeared(t, live[t]) : ~Answered(dec, ColumnId(t, y))}}
         \cup {Question(TypeId(t, x), TypeOptions(d)) :
            x \in {y \in Mistyped(t, live[t]) : ~Answered(dec, TypeId(t, y))}} :
         t \in Tables \cap DOMAIN live}

\* Each is about a column that was read and not decided on.
LEMMA QuestionsAsk ==
  ASSUME NEW d, NEW live, NEW dec, NEW q \in QuestionsOf(d, live, dec)
  PROVE  /\ ~Answered(dec, q.id)
         /\ \E t \in Tables \cap DOMAIN live : \E x \in DOMAIN live[t] :
              q.id = ColumnId(t, x) \/ (q.id = TypeId(t, x) /\ x \in ModelColumns[t])
BY DEF QuestionsOf, Question, Disappeared, Mistyped

\* The questions about one table.
LEMMA TableQuestionsRange ==
  ASSUME NEW d, NEW live, NEW dec, NEW t \in Tables \cap DOMAIN live
  PROVE  TableQuestions(d, t, live[t], dec) \in Seq(QuestionsOf(d, live, dec))
<1>. DEFINE X == QuestionsOf(d, live, dec)
            A == {c \in Disappeared(t, live[t]) : ~Answered(dec, ColumnId(t, c))}
            B == {c \in Mistyped(t, live[t]) : ~Answered(dec, TypeId(t, c))}
            qa(c) == Question(ColumnId(t, c), RenameOptions(t, live[t]))
            qb(c) == Question(TypeId(t, c), TypeOptions(d))
            a == [i \in DOMAIN Sorted(A) |-> qa(Sorted(A)[i])]
            b == [i \in DOMAIN Sorted(B) |-> qb(Sorted(B)[i])]
<1>1. TableQuestions(d, t, live[t], dec) = a \o b
  BY DEF TableQuestions, Each
<1>2. \A S : Sorted(S) \in Seq(Columns \cap S)
  BY SortedRange
<1>3. \A S : \A i \in DOMAIN Sorted(S) : Sorted(S)[i] \in Columns \cap S
  BY <1>2, LenProperties, ElementOfSeq
<1>4. (\A x \in A : qa(x) \in X) /\ (\A x \in B : qb(x) \in X)
  BY DEF QuestionsOf
<1>. HIDE DEF A, B, qa, qb, X
<1>6. a \in Seq(X)
  <2>1. a = [i \in DOMAIN Sorted(A) |-> a[i]] /\ \A i \in DOMAIN Sorted(A) : a[i] \in X
    BY <1>3, <1>4
  <2>. HIDE DEF a
  <2>. QED
    BY <1>2, <2>1, MadeOf
<1>7. b \in Seq(X)
  <2>1. b = [i \in DOMAIN Sorted(B) |-> b[i]] /\ \A i \in DOMAIN Sorted(B) : b[i] \in X
    BY <1>3, <1>4
  <2>. HIDE DEF b
  <2>. QED
    BY <1>2, <2>1, MadeOf
<1>. HIDE DEF a, b
<1>8. a \o b \in Seq(X)
  BY <1>6, <1>7, ConcatProperties
<1>. QED
  BY <1>1, <1>8 DEF X

\* A plan asks only such questions.
LEMMA PlanQuestions ==
  ASSUME NEW d, NEW live, NEW dec
  PROVE  PlanAgainst(d, live, dec).questions \in Seq(QuestionsOf(d, live, dec))
<1>. DEFINE p == PlanAgainst(d, live, dec)
            X == QuestionsOf(d, live, dec)
            bad == \E t \in DOMAIN live : TableError(d, t, live[t], dec)
            part(t) == IF t \in DOMAIN live THEN TableQuestions(d, t, live[t], dec) ELSE <<>>
            parts == [i \in DOMAIN Entities |-> part(Entities[i])]
<1>0. Entities \in Seq(Tables) /\ \A i \in DOMAIN Entities : Entities[i] \in Tables
  BY MigrateAssumption, LenProperties, ElementOfSeq
<1>1. ASSUME bad PROVE p.questions = <<>>
  BY <1>1 DEF PlanAgainst, NoPlan
<1>2. ASSUME ~bad PROVE p.questions = FlattenSeq(parts)
  BY <1>2 DEF PlanAgainst, Each
<1>3. <<>> \in Seq(X)
  BY EmptySeq
<1>4. \A t \in Tables : part(t) \in Seq(X)
  <2>1. \A t \in Tables \cap DOMAIN live : TableQuestions(d, t, live[t], dec) \in Seq(X)
    BY TableQuestionsRange
  <2>. HIDE DEF X
  <2>. QED
    BY <1>3, <2>1
<1>5. parts = [i \in DOMAIN Entities |-> parts[i]] /\ \A i \in DOMAIN Entities : parts[i] = part(Entities[i])
  OBVIOUS
<1>. HIDE DEF parts, bad, p, X, part
<1>6. parts \in Seq(Seq(X))
  <2>1. \A i \in DOMAIN Entities : parts[i] \in Seq(X)
    BY <1>0, <1>4, <1>5
  <2>. QED
    BY <1>0, <1>5, <2>1, MadeOf
<1>7. FlattenSeq(parts) \in Seq(X)
  BY <1>6, FlattenRange
<1>8. p.questions \in Seq(X)
  BY <1>1, <1>2, <1>3, <1>7
<1>. QED
  BY <1>8 DEF p, X

-----------------------------------------------------------------------------
(* A statement on a schema.                                                 *)

\* A schema's columns.
LEMMA ColumnsTyped ==
  /\ \A f \in TableColumns : /\ f = [x \in DOMAIN f |-> f[x]] /\ DOMAIN f \subseteq Columns
                             /\ \A x \in DOMAIN f : f[x] \in ColumnState
  /\ \A f : /\ f = [x \in DOMAIN f |-> f[x]] /\ DOMAIN f \subseteq Columns
            /\ \A x \in DOMAIN f : f[x] \in ColumnState
            => f \in TableColumns
<1>1. ASSUME NEW f \in TableColumns
      PROVE  /\ f = [x \in DOMAIN f |-> f[x]] /\ DOMAIN f \subseteq Columns
             /\ \A x \in DOMAIN f : f[x] \in ColumnState
  <2>1. PICK cols \in SUBSET Columns : f \in [cols -> ColumnState]
    BY DEF TableColumns
  <2>. QED
    BY <2>1
<1>2. ASSUME NEW f, f = [x \in DOMAIN f |-> f[x]], DOMAIN f \subseteq Columns,
             \A x \in DOMAIN f : f[x] \in ColumnState
      PROVE  f \in TableColumns
  <2>1. f \in [DOMAIN f -> ColumnState]
    BY <1>2
  <2>2. DOMAIN f \in SUBSET Columns
    BY <1>2
  <2>. QED
    BY <2>1, <2>2 DEF TableColumns
<1>. QED
  BY <1>1, <1>2

\* One column more, or changed.
LEMMA ColumnSet ==
  ASSUME NEW f \in TableColumns, NEW c \in Columns, NEW v \in ColumnState
  PROVE  LET g == Put(f, c, v) IN
         /\ g \in TableColumns /\ DOMAIN g = DOMAIN f \cup {c} /\ g[c] = v
         /\ \A x \in DOMAIN f : x # c => g[x] = f[x]
<1>. DEFINE g == Put(f, c, v)
<1>1. DOMAIN g = DOMAIN f \cup {c} /\ g[c] = v /\ g = [x \in DOMAIN g |-> g[x]]
      /\ \A x \in DOMAIN f : x # c => g[x] = f[x]
  BY DEF Put
<1>. HIDE DEF g
<1>2. g \in TableColumns
  <2>1. DOMAIN g \subseteq Columns /\ \A x \in DOMAIN g : g[x] \in ColumnState
    BY <1>1, ColumnsTyped
  <2>. QED
    BY <1>1, <2>1, ColumnsTyped
<1>. QED
  BY <1>1, <1>2 DEF g

\* One column less.
LEMMA ColumnTaken ==
  ASSUME NEW f \in TableColumns, NEW c
  PROVE  LET g == [x \in DOMAIN f \ {c} |-> f[x]] IN
         /\ g \in TableColumns /\ DOMAIN g = DOMAIN f \ {c}
         /\ \A x \in DOMAIN g : g[x] = f[x]
<1>. DEFINE g == [x \in DOMAIN f \ {c} |-> f[x]]
<1>1. DOMAIN g = DOMAIN f \ {c} /\ g = [x \in DOMAIN g |-> g[x]] /\ \A x \in DOMAIN g : g[x] = f[x]
  OBVIOUS
<1>. HIDE DEF g
<1>2. g \in TableColumns
  <2>1. DOMAIN g \subseteq Columns /\ \A x \in DOMAIN g : g[x] \in ColumnState
    BY <1>1, ColumnsTyped
  <2>. QED
    BY <1>1, <2>1, ColumnsTyped
<1>. QED
  BY <1>1, <1>2 DEF g

\* A schema with other columns in one table.
LEMMA WithColumnsIs ==
  ASSUME NEW s \in SchemaType, NEW t \in Tables, NEW f \in TableColumns
  PROVE  LET s2 == WithColumns(s, t, f) IN
         /\ s2 \in SchemaType /\ s2.aux = s.aux /\ s2.cols[t] = f
         /\ \A u \in Tables \ {t} : s2.cols[u] = s.cols[u]
BY DEF WithColumns, SchemaType

\* A schema with one index or join table more.
LEMMA WithAuxIs ==
  ASSUME NEW s \in SchemaType, NEW a \in Auxiliary
  PROVE  LET s2 == WithAux(s, a) IN
         s2 \in SchemaType /\ s2.aux = s.aux \cup {a} /\ s2.cols = s.cols
BY DEF WithAux, SchemaType

\* What a kind of statement makes of the columns of its table.
Made(s, ch, old, new) ==
  /\ ch.kind = "create_table" =>
       /\ Exists(s, ch.table) => new = old
       /\ ~Exists(s, ch.table) => new = [c \in ModelColumns[ch.table] |-> Fresh]
  /\ ch.kind \in {"create_index", "create_join_table"} => new = old
  /\ ch.kind = "add_column" =>
       DOMAIN new = DOMAIN old \cup {ch.column} /\ new[ch.column] = Fresh
  /\ ch.kind = "drop_column" => DOMAIN new = DOMAIN old \ {ch.column}
  /\ ch.kind = "rename_column" =>
       /\ ch.from \in DOMAIN old /\ ch.column \notin DOMAIN old
       /\ DOMAIN new = (DOMAIN old \ {ch.from}) \cup {ch.column}
       /\ new[ch.column] = old[ch.from]
  /\ ch.kind = "change_type" =>
       /\ DOMAIN new = DOMAIN old /\ new[ch.column].type = Model
       /\ new[ch.column].data \in {NoData, old[ch.column].data}
  /\ ch.kind \in {"add_column", "drop_column", "rename_column", "change_type"} =>
       \A x \in (DOMAIN old \cap DOMAIN new) \ {ch.column} : new[x] = old[x]

\* Whatever comes out of a statement the server accepts is a schema in which only the
\* table it names has other columns.
LEMMA OutcomeIs ==
  ASSUME NEW d, NEW s \in SchemaType, NEW ch \in Changes, Accepts(d, s, ch),
         NEW s2 \in Outcomes(s, ch)
  PROVE  /\ s2 \in SchemaType /\ \A u \in Tables \ {ch.table} : s2.cols[u] = s.cols[u]
         /\ s.aux \subseteq s2.aux /\ \A a : Makes(ch, a) => a \in s2.aux
         /\ Made(s, ch, s.cols[ch.table], s2.cols[ch.table])
<1>. DEFINE t == ch.table
            old == s.cols[t]
            without(c) == [x \in DOMAIN old \ {c} |-> old[x]]
            Good == /\ s2 \in SchemaType /\ \A u \in Tables \ {t} : s2.cols[u] = s.cols[u]
                    /\ s.aux \subseteq s2.aux /\ \A a : Makes(ch, a) => a \in s2.aux
                    /\ Made(s, ch, old, s2.cols[t])
<1>0. t \in Tables /\ ch.kind \in Kinds /\ Fits(ch)
  BY DEF Changes
<1>1. old \in TableColumns /\ s.cols \in [Tables -> TableColumns] /\ s.aux \in SUBSET Auxiliary
  BY <1>0 DEF SchemaType
<1>2. Fresh \in ColumnState /\ Fresh.type = Model
  BY DEF Fresh, ColumnState, Types
<1>3. ASSUME ch.kind = "create_table" PROVE Good
  <2>1. s2 = IF Exists(s, t) THEN s ELSE WithColumns(s, t, [c \in ModelColumns[t] |-> Fresh])
    BY <1>3 DEF Outcomes
  <2>2. [c \in ModelColumns[t] |-> Fresh] \in TableColumns
    BY <1>0, <1>2, ModelNames, ColumnsTyped
  <2>3. \A a : ~Makes(ch, a)
    BY <1>3 DEF Makes
  <2>4. s2 \in SchemaType /\ s2.aux = s.aux /\ \A u \in Tables \ {t} : s2.cols[u] = s.cols[u]
    BY <1>0, <2>1, <2>2, WithColumnsIs
  <2>5. /\ Exists(s, t) => s2.cols[t] = old
        /\ ~Exists(s, t) => s2.cols[t] = [c \in ModelColumns[t] |-> Fresh]
    BY <1>0, <2>1, <2>2, WithColumnsIs
  <2>6. Made(s, ch, old, s2.cols[t])
    BY <1>3, <2>5 DEF Made
  <2>. HIDE DEF old, t
  <2>. QED
    BY <2>3, <2>4, <2>6
<1>4. ASSUME ch.kind \in {"create_index", "create_join_table"} PROVE Good
  <2>1. PICK a \in Auxiliary : s2 = WithAux(s, a) /\ \A b : Makes(ch, b) => b = a
    <3>1. CASE ch.kind = "create_index"
      <4>1. t \in Indexed
        BY <3>1, <1>0, ChangeFields DEF Fits
      <4>2. <<"index", t, t>> \in Auxiliary
        BY <4>1 DEF Auxiliary
      <4>3. s2 = WithAux(s, <<"index", t, t>>)
        BY <3>1 DEF Outcomes
      <4>. QED
        BY <3>1, <4>2, <4>3 DEF Makes
    <3>2. CASE ch.kind = "create_join_table"
      <4>1. ch.from \in JoinedTo[t]
        BY <3>2, <1>0, ChangeFields DEF Fits
      <4>2. <<"join", t, ch.from>> \in Auxiliary
        BY <1>0, <4>1 DEF Auxiliary
      <4>3. s2 = WithAux(s, <<"join", t, ch.from>>)
        BY <3>2 DEF Outcomes
      <4>. QED
        BY <3>2, <4>2, <4>3 DEF Makes
    <3>. QED
      BY <1>4, <3>1, <3>2
  <2>2. s2 \in SchemaType /\ s2.aux = s.aux \cup {a} /\ s2.cols = s.cols
    BY <2>1, WithAuxIs
  <2>3. Made(s, ch, old, s2.cols[t])
    BY <1>4, <2>2 DEF Made
  <2>. QED
    BY <2>1, <2>2, <2>3
<1>5. ASSUME NEW f \in TableColumns, s2 = WithColumns(s, t, f), Made(s, ch, old, f),
             ch.kind \notin {"create_index", "create_join_table"}
      PROVE  Good
  <2>1. \A a : ~Makes(ch, a)
    BY <1>5 DEF Makes
  <2>2. s2 \in SchemaType /\ s2.aux = s.aux /\ s2.cols[t] = f /\ \A u \in Tables \ {t} : s2.cols[u] = s.cols[u]
    BY <1>0, <1>5, WithColumnsIs
  <2>. HIDE DEF old, t
  <2>. QED
    BY <1>5, <2>1, <2>2
<1>6. ASSUME ch.kind = "add_column" PROVE Good
  <2>. DEFINE f == Put(old, ch.column, Fresh)
  <2>1. s2 = WithColumns(s, t, f)
    BY <1>6 DEF Outcomes
  <2>2. ch.column \in Columns
    BY <1>0, <1>6, ModelNames, ChangeFields DEF Fits
  <2>. HIDE DEF f, old, t
  <2>3. f \in TableColumns /\ DOMAIN f = DOMAIN old \cup {ch.column} /\ f[ch.column] = Fresh
        /\ \A x \in DOMAIN old : x # ch.column => f[x] = old[x]
    BY <1>1, <1>2, <2>2, ColumnSet DEF f
  <2>4. Made(s, ch, old, f)
    BY <1>6, <2>3 DEF Made
  <2>. QED
    BY <1>5, <1>6, <2>1, <2>3, <2>4
<1>7. ASSUME ch.kind = "drop_column" PROVE Good
  <2>. DEFINE f == without(ch.column)
  <2>1. s2 = WithColumns(s, t, f)
    BY <1>7 DEF Outcomes
  <2>2. f \in TableColumns /\ DOMAIN f = DOMAIN old \ {ch.column} /\ \A x \in DOMAIN f : f[x] = old[x]
    <3>. HIDE DEF old, t
    <3>. QED
      BY <1>1, ColumnTaken
  <2>. HIDE DEF f, old, t
  <2>3. Made(s, ch, old, f)
    BY <1>7, <2>2 DEF Made
  <2>. QED
    BY <1>5, <1>7, <2>1, <2>2, <2>3
<1>8. ASSUME ch.kind = "rename_column" PROVE Good
  <2>. DEFINE w == without(ch.from)
              v == old[ch.from]
              f == Put(w, ch.column, v)
  <2>1. s2 = WithColumns(s, t, f)
    BY <1>8 DEF Outcomes
  <2>2. ch.column \in Columns
    BY <1>0, <1>8, ModelNames, ChangeFields DEF Fits
  <2>3. ch.from \in DOMAIN old /\ ch.column \notin DOMAIN old
    BY <1>8 DEF Accepts
  <2>4. v \in ColumnState
    BY <1>1, <2>3, ColumnsTyped
  <2>5. w \in TableColumns /\ DOMAIN w = DOMAIN old \ {ch.from} /\ \A x \in DOMAIN w : w[x] = old[x]
    <3>. HIDE DEF old, t, v
    <3>. QED
      BY <1>1, ColumnTaken
  <2>. HIDE DEF f, old, t, w, v
  <2>6. f \in TableColumns /\ DOMAIN f = DOMAIN w \cup {ch.column} /\ f[ch.column] = v
        /\ \A x \in DOMAIN w : x # ch.column => f[x] = w[x]
    BY <2>2, <2>4, <2>5, ColumnSet DEF f
  <2>7. Made(s, ch, old, f)
    BY <1>8, <2>3, <2>5, <2>6 DEF Made, v
  <2>. QED
    BY <1>5, <1>8, <2>1, <2>6, <2>7
<1>9. ASSUME ch.kind = "change_type" PROVE Good
  <2>1. PICK y \in {NoData, old[ch.column].data} :
          s2 = WithColumns(s, t, Put(old, ch.column, [type |-> Model, data |-> y]))
    BY <1>9 DEF Outcomes
  <2>. DEFINE v == [type |-> Model, data |-> y]
              f == Put(old, ch.column, v)
  <2>2. ch.column \in Columns
    BY <1>0, <1>9, ModelNames, ChangeFields DEF Fits
  <2>3. ch.column \in DOMAIN old
    BY <1>9 DEF Accepts
  <2>4. old[ch.column] \in ColumnState
    BY <1>1, <2>3, ColumnsTyped
  <2>5. v \in ColumnState /\ v.type = Model /\ v.data \in {NoData, old[ch.column].data}
    BY <2>4 DEF ColumnState, Types
  <2>6. s2 = WithColumns(s, t, f)
    BY <2>1
  <2>. HIDE DEF f, old, t, v
  <2>7. f \in TableColumns /\ DOMAIN f = DOMAIN old \cup {ch.column} /\ f[ch.column] = v
        /\ \A x \in DOMAIN old : x # ch.column => f[x] = old[x]
    BY <1>1, <2>2, <2>5, ColumnSet DEF f
  <2>8. Made(s, ch, old, f)
    BY <1>9, <2>3, <2>5, <2>7 DEF Made
  <2>. QED
    BY <1>5, <1>9, <2>6, <2>7, <2>8
<1>. HIDE DEF Good
<1>10. Good
  BY <1>0, <1>3, <1>4, <1>6, <1>7, <1>8, <1>9 DEF Kinds
<1>. QED
  BY <1>10 DEF Good

\* The data of a schema are those of its columns.
LEMMA KeptIs ==
  ASSUME NEW s \in SchemaType
  PROVE  \A v : v \in Kept(s) <=> \E t \in Tables : \E x \in DOMAIN s.cols[t] : v = s.cols[t][x].data
<1>1. \A t \in Tables : DOMAIN s.cols[t] \subseteq Columns
  BY ColumnsTyped DEF SchemaType
<1>2. ASSUME NEW v, v \in Kept(s)
      PROVE  \E t \in Tables : \E x \in DOMAIN s.cols[t] : v = s.cols[t][x].data
  BY <1>2 DEF Kept
<1>3. ASSUME NEW t \in Tables, NEW x \in DOMAIN s.cols[t] PROVE s.cols[t][x].data \in Kept(s)
  <2>1. <<t, x>> \in {q \in Tables \X Columns : q[2] \in DOMAIN s.cols[q[1]]}
    BY <1>1
  <2>2. <<t, x>>[1] = t /\ <<t, x>>[2] = x
    OBVIOUS
  <2>. QED
    BY <2>1, <2>2 DEF Kept
<1>. QED
  BY <1>2, <1>3

\* A schema evolves by every statement that fits the models.
LEMMA OutcomeEvolves ==
  ASSUME NEW d, NEW s \in SchemaType, NEW ch \in Changes, Accepts(d, s, ch),
         NEW s2 \in Outcomes(s, ch)
  PROVE  Evolves(s, s2)
<1>. DEFINE t == ch.table
            old == s.cols[t]
            new == s2.cols[t]
<1>0. t \in Tables /\ ch.kind \in Kinds /\ Fits(ch)
  BY DEF Changes
<1>1. /\ \A u \in Tables \ {t} : s2.cols[u] = s.cols[u]
      /\ s.aux \subseteq s2.aux /\ Made(s, ch, old, new)
  BY OutcomeIs
<1>2. /\ ch.kind \in {"add_column", "change_type", "rename_column"} => ch.column \in ModelColumns[t]
      /\ ch.kind = "rename_column" => ch.from \notin ModelColumns[t]
      /\ ch.kind = "drop_column" => ch.column \notin ModelColumns[t]
  BY <1>0, ChangeFields DEF Fits
<1>3. ch.kind = "add_column" => ch.column \notin DOMAIN old
  BY DEF Accepts
<1>. HIDE DEF t, old, new
<1>4. ASSUME NEW x \in ModelColumns[t], x \in DOMAIN old
      PROVE  x \in DOMAIN new /\ Retypes(old[x], new[x])
  <2>1. CASE ch.kind = "create_table"
    <3>1. Exists(s, t)
      BY <1>4 DEF Exists, old
    <3>. QED
      BY <1>1, <1>4, <2>1, <3>1 DEF Made, Retypes, t
  <2>2. CASE ch.kind \in {"create_index", "create_join_table"}
    BY <1>1, <1>4, <2>2 DEF Made, Retypes
  <2>3. CASE ch.kind \in {"add_column", "drop_column", "rename_column"}
    BY <1>1, <1>2, <1>3, <1>4, <2>3 DEF Made, Retypes
  <2>4. CASE ch.kind = "change_type"
    BY <1>1, <1>4, <2>4 DEF Made, Retypes
  <2>. QED
    BY <1>0, <2>1, <2>2, <2>3, <2>4 DEF Kinds
<1>5. ASSUME NEW x \in DOMAIN new, x \notin ModelColumns[t]
      PROVE  x \in DOMAIN old /\ new[x] = old[x]
  <2>1. CASE ch.kind = "create_table"
    BY <1>1, <1>5, <2>1 DEF Made, t
  <2>2. CASE ch.kind \in {"create_index", "create_join_table"}
    BY <1>1, <1>5, <2>2 DEF Made
  <2>3. CASE ch.kind \in {"add_column", "drop_column", "rename_column", "change_type"}
    BY <1>1, <1>2, <1>5, <2>3 DEF Made
  <2>. QED
    BY <1>0, <2>1, <2>2, <2>3 DEF Kinds
<1>6. ASSUME NEW u \in Tables, NEW x \in ModelColumns[u], x \in DOMAIN s.cols[u]
      PROVE  x \in DOMAIN s2.cols[u] /\ Retypes(s.cols[u][x], s2.cols[u][x])
  BY <1>1, <1>4, <1>6 DEF Retypes, old, new
<1>7. ASSUME NEW u \in Tables, NEW x \in DOMAIN s2.cols[u], x \notin ModelColumns[u]
      PROVE  x \in DOMAIN s.cols[u] /\ s2.cols[u][x] = s.cols[u][x]
  BY <1>1, <1>5, <1>7 DEF old, new
<1>. QED
  BY <1>1, <1>6, <1>7 DEF Evolves

\* What is not done at all, or in two evolutions, is one.
LEMMA EvolvesTwice ==
  /\ \A s : Evolves(s, s)
  /\ \A s1, s2, s3 : Evolves(s1, s2) /\ Evolves(s2, s3) => Evolves(s1, s3)
<1>1. \A s : Evolves(s, s)
  BY DEF Evolves, Retypes
<1>2. ASSUME NEW s1, NEW s2, NEW s3, Evolves(s1, s2), Evolves(s2, s3)
      PROVE  Evolves(s1, s3)
  <2>1. ASSUME NEW t \in Tables, NEW x \in ModelColumns[t] \cap DOMAIN s1.cols[t]
        PROVE  x \in DOMAIN s3.cols[t] /\ Retypes(s1.cols[t][x], s3.cols[t][x])
    <3>1. x \in DOMAIN s2.cols[t] /\ Retypes(s1.cols[t][x], s2.cols[t][x])
      BY <1>2, <2>1 DEF Evolves
    <3>2. x \in DOMAIN s3.cols[t] /\ Retypes(s2.cols[t][x], s3.cols[t][x])
      BY <1>2, <2>1, <3>1 DEF Evolves
    <3>. QED
      BY <3>1, <3>2 DEF Retypes
  <2>2. ASSUME NEW t \in Tables, NEW x \in DOMAIN s3.cols[t] \ ModelColumns[t]
        PROVE  x \in DOMAIN s1.cols[t] /\ s3.cols[t][x] = s1.cols[t][x]
    BY <1>2, <2>2 DEF Evolves
  <2>3. s1.aux \subseteq s3.aux
    BY <1>2 DEF Evolves
  <2>. QED
    BY <2>1, <2>2, <2>3 DEF Evolves
<1>. QED
  BY <1>1, <1>2

\* Only dropping or retyping a column loses data, the data of that column.
LEMMA OutcomeLoses ==
  ASSUME NEW d, NEW s \in SchemaType, NEW ch \in Changes, Accepts(d, s, ch),
         NEW s2 \in Outcomes(s, ch), NEW v \in Kept(s) \ Kept(s2)
  PROVE  /\ ch.kind \in {"drop_column", "change_type"} /\ ch.column \in DOMAIN s.cols[ch.table]
         /\ v = s.cols[ch.table][ch.column].data
<1>. DEFINE t == ch.table
            old == s.cols[t]
            new == s2.cols[t]
<1>0. t \in Tables /\ ch.kind \in Kinds
  BY DEF Changes
<1>1. /\ s2 \in SchemaType /\ \A u \in Tables \ {t} : s2.cols[u] = s.cols[u]
      /\ Made(s, ch, old, new)
  BY OutcomeIs
<1>2. ch.kind = "add_column" => ch.column \notin DOMAIN old
  BY DEF Accepts
<1>3. PICK u \in Tables : \E x \in DOMAIN s.cols[u] : v = s.cols[u][x].data
  BY KeptIs
<1>13. PICK x \in DOMAIN s.cols[u] : v = s.cols[u][x].data
  BY <1>3
<1>4. ~ \E w \in Tables : \E y \in DOMAIN s2.cols[w] : v = s2.cols[w][y].data
  BY <1>1, KeptIs
<1>5. u = t
  BY <1>1, <1>13, <1>4
<1>. HIDE DEF t
<1>6. Exists(s, t)
  BY <1>13, <1>5 DEF Exists
<1>. HIDE DEF old, new
<1>7. x \in DOMAIN old /\ v = old[x].data
  BY <1>13, <1>5 DEF old
<1>8. \A y \in DOMAIN new : v # new[y].data
  BY <1>0, <1>4 DEF new
<1>9. ch.kind \notin {"create_table", "create_index", "create_join_table"}
  BY <1>1, <1>6, <1>7, <1>8 DEF Made, t
<1>10. ch.kind # "add_column"
  BY <1>1, <1>2, <1>7, <1>8 DEF Made
<1>11. ch.kind # "rename_column"
  BY <1>1, <1>7, <1>8 DEF Made
<1>12. x = ch.column
  BY <1>0, <1>1, <1>7, <1>8, <1>9, <1>10, <1>11 DEF Made, Kinds
<1>. QED
  BY <1>0, <1>7, <1>9, <1>10, <1>11, <1>12 DEF Kinds, t, old

\* A statement makes a table appear only by creating it, if columns are added only to
\* those that are there.
LEMMA OutcomeGrows ==
  ASSUME NEW d, NEW s \in SchemaType, NEW ch \in Changes, Accepts(d, s, ch),
         NEW s2 \in Outcomes(s, ch),
         ch.kind \in {"add_column", "rename_column"} => Exists(s, ch.table)
  PROVE  /\ Grows(s, s2)
         /\ \A t \in Tables : Exists(s2, t) /\ ~Exists(s, t) => ch = Change("create_table", t, NoName, NoName)
<1>. DEFINE t == ch.table
            old == s.cols[t]
            new == s2.cols[t]
<1>0. t \in Tables /\ ch.kind \in Kinds /\ Fits(ch)
  BY DEF Changes
<1>1. (\A u \in Tables \ {t} : s2.cols[u] = s.cols[u]) /\ Made(s, ch, old, new)
  BY OutcomeIs
<1>2. ASSUME NEW u \in Tables, Exists(s2, u), ~Exists(s, u)
      PROVE  ModelColumns[u] \subseteq DOMAIN s2.cols[u] /\ ch = Change("create_table", u, NoName, NoName)
  <2>1. u = t
    BY <1>1, <1>2 DEF Exists
  <2>2. DOMAIN old = {} /\ DOMAIN new # {}
    BY <1>2, <2>1 DEF Exists
  <2>. HIDE DEF old, new, t
  <2>3. ch.kind = "create_table"
    <3>1. ch.kind \notin {"create_index", "create_join_table", "drop_column", "change_type"}
      BY <1>1, <2>2 DEF Made
    <3>2. ch.kind \notin {"add_column", "rename_column"}
      BY <1>2, <2>1 DEF t
    <3>. QED
      BY <1>0, <3>1, <3>2 DEF Kinds
  <2>4. new = [c \in ModelColumns[t] |-> Fresh]
    BY <1>1, <1>2, <2>1, <2>3 DEF Made, t
  <2>5. ch = Change("create_table", t, NoName, NoName)
    BY <1>0, <2>3, ChangeFields DEF Fits, t
  <2>. QED
    BY <2>1, <2>4, <2>5 DEF new
<1>. QED
  BY <1>2 DEF Grows

\* Tables that share a column with their model go on doing so.
LEMMA SharesStays ==
  ASSUME NEW s, NEW s2, Evolves(s, s2), Grows(s, s2), SharesColumn(s)
  PROVE  SharesColumn(s2) /\ \A t \in Tables : Exists(s, t) => Exists(s2, t)
<1>1. \A t \in Tables : ModelColumns[t] # {}
  BY MigrateAssumption
<1>2. ASSUME NEW t \in Tables, Exists(s, t) PROVE ModelColumns[t] \cap DOMAIN s2.cols[t] # {}
  BY <1>2 DEF Evolves, SharesColumn
<1>. QED
  BY <1>1, <1>2 DEF Grows, SharesColumn, Exists

\* Growing twice.
LEMMA GrowsTwice ==
  ASSUME NEW s1, NEW s2, NEW s3, Grows(s1, s2), Grows(s2, s3), Evolves(s2, s3)
  PROVE  Grows(s1, s3)
BY DEF Grows, Evolves

\* A statement that provides a column of the model leaves it there.
LEMMA OutcomeProvides ==
  ASSUME NEW d, NEW s \in SchemaType, NEW ch \in Changes, Accepts(d, s, ch),
         NEW s2 \in Outcomes(s, ch), NEW t \in Tables, NEW x \in ModelColumns[t],
         Provides(ch, t, x),
         ch.kind = "create_table" /\ Exists(s, t) => ModelColumns[t] \subseteq DOMAIN s.cols[t]
  PROVE  x \in DOMAIN s2.cols[t]
<1>1. Made(s, ch, s.cols[ch.table], s2.cols[ch.table])
  BY OutcomeIs
<1>. QED
  BY <1>1 DEF Provides, Made

=============================================================================
