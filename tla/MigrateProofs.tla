--------------------------- MODULE MigrateProofs ---------------------------
(***************************************************************************)
(* What holds of clients that migrate, in whatever order they step and     *)
(* whatever fails.  Four inductive invariants, each resting on the ones    *)
(* before it: CountInv, LossInv, ColumnInv and AuxInv.  Then the same      *)
(* behind a socket that anybody may close or take: SocketIInv.             *)
(***************************************************************************)
EXTENDS MigrateSocket, MigratePlanProofs

-----------------------------------------------------------------------------
(* Types and counts.                                                        *)

\* The types, with what the proofs need to know of every client's variables.
Phases == Ended \cup Reading \cup Migrating \cup {"idle", "asking", "confirming"}

MigrateTypes ==
  /\ dialect \in DialectType /\ db \in SchemaType /\ work \in SchemaType
  /\ holder \in Clients \cup {NoClient} /\ cut \in SUBSET Tables
  /\ phase \in [Clients -> Phases]
  /\ DOMAIN decisions = Clients
  /\ listed \in [Clients -> SUBSET Tables]
  /\ DOMAIN seen = Clients /\ DOMAIN plan = Clients
  /\ \A c \in Clients : /\ DOMAIN seen[c] \subseteq Tables /\ seen[c] \in [DOMAIN seen[c] -> TableColumns]
                        /\ plan[c].changes \in Seq(Changes)
  /\ ran \in [Clients -> Nat] /\ applied \in [Clients -> Nat]
  /\ logged \in [Clients -> Nat] /\ landed \in [Clients -> Nat]
  /\ migrates \in [Clients -> BOOLEAN] /\ rolled \in [Clients -> BOOLEAN]
  /\ stopped \in [Clients -> BOOLEAN] /\ unacked \in [Clients -> BOOLEAN]

\* A transaction is held exactly by the client that migrates in it.
Held ==
  /\ \A c \in Clients : dialect.transactional => (holder = c <=> phase[c] \in Migrating)
  /\ ~dialect.transactional => holder = NoClient
  /\ dialect.transactional => cut = {}

\* The counts agree: nothing while reading, and while migrating whatever ran is in db
\* and recorded as it is reported, or waits in the transaction.
Untouched(c) ==
  /\ ran[c] = 0 /\ applied[c] = 0 /\ logged[c] = 0 /\ landed[c] = 0
  /\ migrates[c] /\ ~rolled[c] /\ ~stopped[c] /\ ~unacked[c]

Counted(c) ==
  /\ ~rolled[c] /\ ~stopped[c] /\ ~unacked[c]
  /\ dialect.transactional => landed[c] = 0 /\ logged[c] = 0
  /\ ~dialect.transactional => landed[c] = ran[c] /\ (migrates[c] => logged[c] = applied[c])

Length(c) == Len(plan[c].changes)

Counts(c) ==
  /\ phase[c] \in Reading \cup {"idle", "asking", "confirming", "upToDate", "aborted"} => Untouched(c)
  /\ phase[c] = "applying" => Counted(c) /\ ran[c] = applied[c] /\ applied[c] < Length(c)
  /\ phase[c] = "recording" => Counted(c) /\ ran[c] = applied[c] + 1 /\ applied[c] < Length(c)
  /\ phase[c] = "committing" =>
       Counted(c) /\ ran[c] = Length(c) /\ applied[c] = Length(c) /\ dialect.transactional
  /\ phase[c] \in Ended => applied[c] <= Length(c)

\* The reports of the migrations that ended.
Report(c) ==
  /\ phase[c] = "done" /\ migrates[c] =>
       applied[c] = Length(c) /\ landed[c] = applied[c] /\ logged[c] = applied[c]
  /\ rolled[c] /\ ~unacked[c] => landed[c] = 0 /\ logged[c] = 0
  /\ phase[c] = "failed" /\ migrates[c] /\ ~rolled[c] =>
       /\ logged[c] = applied[c] /\ landed[c] \in {applied[c], applied[c] + 1}
       /\ stopped[c] /\ ~unacked[c] => landed[c] = applied[c]

\* The inductive invariant of the counts.
CountInv == MigrateTypes /\ Held /\ \A c \in Clients : Counts(c) /\ Report(c)

-----------------------------------------------------------------------------
(* The steps of a client.                                                   *)

\* A reading or a dialogue that ends with an error, and a migration that does, each
\* for whatever reason.
Leaves(c) == phase[c] \in Reading \cup {"asking", "confirming"} /\ EndEmpty(c, "failed")
Breaks(c) ==
  /\ phase[c] \in Migrating /\ UNCHANGED <<db, ran, landed, unacked>>
  /\ \E failed \in BOOLEAN : (failed => phase[c] = "applying") /\ GiveUp(c, failed)

Step(c) ==
  \/ Begin(c) \/ CreateTables(c) \/ ReadColumns(c) \/ ShowPlan(c) \/ Ask(c) \/ Confirm(c)
  \/ Abort(c) \/ StartApply(c) \/ Exec(c) \/ Record(c) \/ Commit(c)
  \/ ExecAckLost(c) \/ CommitAckLost(c) \/ Leaves(c) \/ Breaks(c)

\* Whatever fails, a client leaves or breaks off, or its statement or commit took effect.
LEMMA NextSteps ==
  ASSUME NEW c \in Clients, Begin(c) \/ CreateTables(c) \/ Proceed(c) \/ Fails(c)
  PROVE  Step(c)
<1>1. CASE Refused(c)
  <2>1. phase[c] = "applying" /\ UNCHANGED <<db, ran, landed, unacked>> /\ GiveUp(c, TRUE)
    BY <1>1 DEF Refused
  <2>. QED
    BY <2>1, Zenon DEF Step, Breaks, Migrating
<1>2. CASE ExecFails(c)
  <2>1. phase[c] = "applying" /\ UNCHANGED <<db, ran, landed, unacked>> /\ GiveUp(c, TRUE)
    BY <1>2 DEF ExecFails
  <2>. QED
    BY <2>1, Zenon DEF Step, Breaks, Migrating
<1>3. CASE OtherFails(c)
  <2>1. phase[c] \in Migrating /\ UNCHANGED <<db, ran, landed, unacked>> /\ GiveUp(c, FALSE)
    BY <1>3 DEF OtherFails, Migrating
  <2>. QED
    BY <2>1, Zenon DEF Step, Breaks
<1>4. CASE ReadFails(c)
  BY <1>4 DEF ReadFails, Step, Leaves
<1>. QED
  BY <1>1, <1>2, <1>3, <1>4 DEF Proceed, Fails, Step

\* A step of one client leaves the others' variables alone.
LEMMA OthersStand ==
  ASSUME MigrateTypes, NEW c \in Clients, NEW o \in Clients \ {c}, Step(c)
  PROVE  /\ phase'[o] = phase[o] /\ decisions'[o] = decisions[o] /\ seen'[o] = seen[o]
         /\ listed'[o] = listed[o] /\ plan'[o] = plan[o] /\ migrates'[o] = migrates[o]
         /\ ran'[o] = ran[o] /\ applied'[o] = applied[o] /\ logged'[o] = logged[o]
         /\ landed'[o] = landed[o] /\ rolled'[o] = rolled[o] /\ stopped'[o] = stopped[o]
         /\ unacked'[o] = unacked[o]
<1>. DEFINE Same == /\ phase'[o] = phase[o] /\ decisions'[o] = decisions[o] /\ seen'[o] = seen[o]
                    /\ listed'[o] = listed[o] /\ plan'[o] = plan[o] /\ migrates'[o] = migrates[o]
                    /\ ran'[o] = ran[o] /\ applied'[o] = applied[o] /\ logged'[o] = logged[o]
                    /\ landed'[o] = landed[o] /\ rolled'[o] = rolled[o] /\ stopped'[o] = stopped[o]
                    /\ unacked'[o] = unacked[o]
<1>. USE DEF MigrateTypes, vars, schemas, dialogue, reading, summary
<1>1. ASSUME Begin(c) PROVE Same
  BY <1>1 DEF Begin, ListTables, NewSummary
<1>2. ASSUME CreateTables(c) PROVE Same
  BY <1>2 DEF CreateTables, NewSummary
<1>3. ASSUME ReadColumns(c) PROVE Same
  BY <1>3 DEF ReadColumns
<1>4. ASSUME ShowPlan(c) PROVE Same
  BY <1>4 DEF ShowPlan, EndEmpty, Forget
<1>5. ASSUME Ask(c) PROVE Same
  BY <1>5 DEF Ask, ListTables
<1>6. ASSUME Confirm(c) PROVE Same
  BY <1>6 DEF Confirm, ListTables
<1>7. ASSUME Abort(c) \/ Leaves(c) PROVE Same
  BY <1>7 DEF Abort, Leaves, EndEmpty, Forget
<1>8. ASSUME StartApply(c) PROVE Same
  BY <1>8 DEF StartApply, Forget
<1>9. ASSUME Exec(c) PROVE Same
  BY <1>9 DEF Exec
<1>10. ASSUME Record(c) PROVE Same
  BY <1>10 DEF Record
<1>11. ASSUME Commit(c) PROVE Same
  BY <1>11 DEF Commit, Land
<1>12. ASSUME ExecAckLost(c) PROVE Same
  BY <1>12 DEF ExecAckLost, GiveUp
<1>13. ASSUME CommitAckLost(c) PROVE Same
  BY <1>13 DEF CommitAckLost, Land
<1>14. ASSUME Breaks(c) PROVE Same
  BY <1>14 DEF Breaks, GiveUp
<1>. HIDE DEF Same
<1>15. Same
  BY <1>1, <1>2, <1>3, <1>4, <1>5, <1>6, <1>7, <1>8, <1>9, <1>10, <1>11, <1>12, <1>13, <1>14
     DEF Step
<1>. QED
  BY <1>15 DEF Same

-----------------------------------------------------------------------------
(* The types and counts are preserved.                                      *)

\* The plan of a client is a sequence of changes.
LEMMA PlanTyped ==
  ASSUME MigrateTypes, NEW c \in Clients
  PROVE  /\ Length(c) \in Nat /\ DOMAIN plan[c].changes = 1 .. Length(c)
         /\ \A i \in 1 .. Length(c) : plan[c].changes[i] \in Changes
BY LenProperties, ElementOfSeq DEF MigrateTypes, Length

\* The statement about to run is one of the plan, the next one.
LEMMA CurrentIs ==
  ASSUME CountInv, NEW c \in Clients, phase[c] = "applying"
  PROVE  /\ Current(c) \in Changes /\ ran[c] + 1 \in 1 .. Length(c)
         /\ Current(c) = plan[c].changes[ran[c] + 1] /\ Target \in SchemaType
<1>1. ran[c] = applied[c] /\ applied[c] < Length(c) /\ applied[c] \in Nat /\ Length(c) \in Nat
  BY PlanTyped DEF CountInv, Counts, MigrateTypes
<1>2. ran[c] + 1 \in 1 .. Length(c)
  BY <1>1
<1>3. Target \in SchemaType
  BY DEF CountInv, MigrateTypes, Target
<1>. QED
  BY <1>1, <1>2, <1>3, PlanTyped DEF CountInv, Current

\* What a statement makes of the schema it runs on is a schema.
LEMMA EffectTyped ==
  ASSUME CountInv, NEW c \in Clients, phase[c] = "applying", Accepts(dialect, Target, Current(c)),
         NEW s \in Outcomes(Target, Current(c))
  PROVE  s \in SchemaType
BY CurrentIs, OutcomeIs

\* What the installation, no client and no answer make.
LEMMA InitTypes == Init => MigrateTypes
<1>. SUFFICES ASSUME Init PROVE MigrateTypes
  OBVIOUS
<1>1. PICK i \in Installations : dialect = i.dialect /\ db = i.schema
  BY DEF Init
<1>2. dialect \in DialectType /\ db \in SchemaType /\ work \in SchemaType
  BY <1>1, MigrateAssumption DEF Init
<1>3. DOMAIN NoAnswers = {} /\ NoAnswers \in [DOMAIN NoAnswers -> TableColumns]
  BY DEF NoAnswers
<1>4. NoPlan.changes \in Seq(Changes)
  BY EmptySeq DEF NoPlan
<1>5. DOMAIN decisions = Clients /\ DOMAIN seen = Clients /\ DOMAIN plan = Clients
  BY DEF Init
<1>6. \A c \in Clients : seen[c] = NoAnswers /\ plan[c] = NoPlan
  BY DEF Init
<1>7. listed \in [Clients -> SUBSET Tables]
  BY DEF Init
<1>8. /\ ran \in [Clients -> Nat] /\ applied \in [Clients -> Nat]
      /\ logged \in [Clients -> Nat] /\ landed \in [Clients -> Nat]
  BY DEF Init
<1>9. /\ migrates \in [Clients -> BOOLEAN] /\ rolled \in [Clients -> BOOLEAN]
      /\ stopped \in [Clients -> BOOLEAN] /\ unacked \in [Clients -> BOOLEAN]
  BY DEF Init
<1>10. phase \in [Clients -> Phases] /\ holder \in Clients \cup {NoClient} /\ cut \in SUBSET Tables
  BY DEF Init, Phases
<1>. QED
  BY <1>2, <1>3, <1>4, <1>5, <1>6, <1>7, <1>8, <1>9, <1>10 DEF MigrateTypes

\* The variables that are set for one client.
Controls ==
  /\ phase \in [Clients -> Phases]
  /\ ran \in [Clients -> Nat] /\ applied \in [Clients -> Nat]
  /\ logged \in [Clients -> Nat] /\ landed \in [Clients -> Nat]
  /\ migrates \in [Clients -> BOOLEAN] /\ rolled \in [Clients -> BOOLEAN]
  /\ stopped \in [Clients -> BOOLEAN] /\ unacked \in [Clients -> BOOLEAN]

\* A flag of one client set to a truth value leaves flags.
LEMMA FlagSet ==
  ASSUME NEW S, NEW f \in [S -> BOOLEAN], NEW s \in S, NEW b \in BOOLEAN
  PROVE  [f EXCEPT ![s] = b] \in [S -> BOOLEAN]
OBVIOUS

\* Every step leaves these typed.
LEMMA ControlsStep ==
  ASSUME Controls, NEW c \in Clients, Step(c)
  PROVE  Controls'
<1>. USE DEF Controls, Phases, Ended, Reading, Migrating, vars, schemas, dialogue, reading, summary
<1>1. ASSUME Begin(c) PROVE Controls'
  BY <1>1 DEF Begin, ListTables, NewSummary
<1>2. ASSUME CreateTables(c) PROVE Controls'
  BY <1>2 DEF CreateTables, NewSummary
<1>3. ASSUME ReadColumns(c) PROVE Controls'
  BY <1>3 DEF ReadColumns
<1>4. ASSUME ShowPlan(c) PROVE Controls'
  BY <1>4 DEF ShowPlan, EndEmpty, Forget
<1>5. ASSUME Ask(c) PROVE Controls'
  BY <1>5 DEF Ask, ListTables
<1>6. ASSUME Confirm(c) PROVE Controls'
  BY <1>6 DEF Confirm, ListTables
<1>7. ASSUME Abort(c) \/ Leaves(c) PROVE Controls'
  BY <1>7 DEF Abort, Leaves, EndEmpty, Forget
<1>8. ASSUME StartApply(c) PROVE Controls'
  BY <1>8 DEF StartApply, Forget
<1>0. ran[c] + 1 \in Nat /\ applied[c] + 1 \in Nat /\ logged[c] + 1 \in Nat /\ landed[c] + 1 \in Nat
  OBVIOUS
<1>9. ASSUME Exec(c) PROVE Controls'
  <2>1. /\ phase' = [phase EXCEPT ![c] = "recording"] /\ ran' = [ran EXCEPT ![c] = ran[c] + 1]
        /\ landed' = [landed EXCEPT ![c] = IF dialect.transactional THEN landed[c] ELSE landed[c] + 1]
        /\ UNCHANGED <<applied, logged, migrates, rolled, stopped, unacked>>
    BY <1>9 DEF Exec
  <2>. QED
    BY <1>0, <2>1
<1>10. ASSUME Record(c) PROVE Controls'
  <2>1. /\ phase' \in [Clients -> Phases] /\ applied' = [applied EXCEPT ![c] = applied[c] + 1]
        /\ \/ logged' = [logged EXCEPT ![c] = logged[c] + 1]
           \/ logged' = [logged EXCEPT ![c] = logged[c]]
        /\ UNCHANGED <<ran, landed, migrates, rolled, stopped, unacked>>
    BY <1>10 DEF Record
  <2>. QED
    BY <1>0, <2>1
<1>11. ASSUME Commit(c) PROVE Controls'
  BY <1>11 DEF Commit, Land
<1>12. ASSUME ExecAckLost(c) PROVE Controls'
  <2>1. /\ phase' = [phase EXCEPT ![c] = "failed"] /\ ran' = [ran EXCEPT ![c] = ran[c] + 1]
        /\ landed' = [landed EXCEPT ![c] = landed[c] + 1]
        /\ applied' = applied \/ applied' = [applied EXCEPT ![c] = 0]
        /\ rolled' = rolled \/ rolled' = [rolled EXCEPT ![c] = TRUE]
        /\ stopped' = [stopped EXCEPT ![c] = TRUE] /\ unacked' = [unacked EXCEPT ![c] = TRUE]
        /\ UNCHANGED <<logged, migrates>>
    BY <1>12, Zenon DEF ExecAckLost, GiveUp
  <2>2. applied' \in [Clients -> Nat]
    BY <2>1
  <2>3. rolled' \in [Clients -> BOOLEAN] /\ stopped' \in [Clients -> BOOLEAN]
        /\ unacked' \in [Clients -> BOOLEAN]
    BY <2>1, FlagSet
  <2>. QED
    BY <1>0, <2>1, <2>2, <2>3
<1>13. ASSUME CommitAckLost(c) PROVE Controls'
  BY <1>13 DEF CommitAckLost, Land
<1>14. ASSUME Breaks(c) PROVE Controls'
  <2>1. PICK failed \in BOOLEAN : GiveUp(c, failed)
    BY <1>14, Zenon DEF Breaks
  <2>2. /\ phase' = [phase EXCEPT ![c] = "failed"] /\ UNCHANGED <<ran, landed, unacked, logged, migrates>>
        /\ applied' = applied \/ applied' = [applied EXCEPT ![c] = 0]
        /\ rolled' = rolled \/ rolled' = [rolled EXCEPT ![c] = TRUE]
        /\ stopped' = [stopped EXCEPT ![c] = failed]
    BY <1>14, <2>1, Zenon DEF Breaks, GiveUp
  <2>3. applied' \in [Clients -> Nat]
    BY <2>2
  <2>4. rolled' \in [Clients -> BOOLEAN] /\ stopped' \in [Clients -> BOOLEAN]
    BY <2>2, FlagSet
  <2>. QED
    BY <2>2, <2>3, <2>4
<1>. QED
  BY <1>1, <1>2, <1>3, <1>4, <1>5, <1>6, <1>7, <1>8, <1>9, <1>10, <1>11, <1>12, <1>13, <1>14
     DEF Step

\* The two schemas, who holds the transaction and what was cut off.
Shared ==
  /\ dialect \in DialectType /\ db \in SchemaType /\ work \in SchemaType
  /\ holder \in Clients \cup {NoClient} /\ cut \in SUBSET Tables

\* Every step leaves schemas.
LEMMA SharedStep ==
  ASSUME CountInv, NEW c \in Clients, Step(c)
  PROVE  Shared'
<1>0. Shared
  BY DEF CountInv, MigrateTypes, Shared
<1>. USE <1>0 DEF Shared, vars, schemas, dialogue, reading, summary
<1>1. ASSUME Begin(c) PROVE Shared'
  BY <1>1 DEF Begin
<1>2. ASSUME CreateTables(c) PROVE Shared'
  BY <1>2 DEF CreateTables
<1>3. ASSUME ReadColumns(c) PROVE Shared'
  BY <1>3 DEF ReadColumns
<1>4. ASSUME ShowPlan(c) PROVE Shared'
  BY <1>4 DEF ShowPlan, EndEmpty
<1>5. ASSUME Ask(c) \/ Confirm(c) PROVE Shared'
  BY <1>5 DEF Ask, Confirm
<1>7. ASSUME Abort(c) \/ Leaves(c) PROVE Shared'
  BY <1>7 DEF Abort, Leaves, EndEmpty
<1>8. ASSUME StartApply(c) PROVE Shared'
  BY <1>8 DEF StartApply
<1>9. ASSUME Exec(c) PROVE Shared'
  <2>1. PICK s \in Outcomes(Target, Current(c)) : Effect(s)
    BY <1>9 DEF Exec
  <2>2. s \in SchemaType
    BY <1>9, EffectTyped DEF Exec
  <2>. QED
    BY <1>9, <2>1, <2>2 DEF Exec, Effect
<1>10. ASSUME Record(c) PROVE Shared'
  BY <1>10 DEF Record
<1>11. ASSUME Commit(c) \/ CommitAckLost(c) PROVE Shared'
  BY <1>11 DEF Commit, CommitAckLost, Land
<1>12. ASSUME ExecAckLost(c) PROVE Shared'
  <2>1. db' \in Outcomes(Target, Current(c)) /\ Accepts(dialect, Target, Current(c)) /\ phase[c] = "applying"
    BY <1>12 DEF ExecAckLost, Target
  <2>2. db' \in SchemaType
    BY <2>1, EffectTyped
  <2>3. CutAfter(c, ran'[c], db') \subseteq Tables
    BY DEF CutAfter
  <2>. QED
    BY <1>12, <2>2, <2>3 DEF ExecAckLost, GiveUp
<1>14. ASSUME Breaks(c) PROVE Shared'
  <2>1. CutAfter(c, ran'[c], db') \subseteq Tables
    BY DEF CutAfter
  <2>. QED
    BY <1>14, <2>1 DEF Breaks, GiveUp
<1>. QED
  BY <1>1, <1>2, <1>3, <1>4, <1>5, <1>7, <1>8, <1>9, <1>10, <1>11, <1>12, <1>14 DEF Step

\* CreateTables runs what every table needs, each in its order.
LEMMA CreatedChanges ==
  LET changes == FlattenSeq(Each(Entities, NewTableChanges)) IN
  /\ changes \in Seq(Changes) /\ CreatesAll(changes)
  /\ Range(changes) = UNION {NewChanges(t) : t \in Tables}
<1>. DEFINE changes == FlattenSeq(Each(Entities, NewTableChanges))
            P == {s \in Seq(Changes) : CreatesAll(s)}
            segments == Each(Entities, NewTableChanges)
<1>1. Entities \in Seq(Tables) /\ Range(Entities) = Tables
  BY MigrateAssumption
<1>2. \A i \in DOMAIN Entities : Entities[i] \in Tables
  BY <1>1, LenProperties, ElementOfSeq
<1>3. \A t \in Tables : NewTableChanges(t) \in P /\ Range(NewTableChanges(t)) = NewChanges(t)
  BY NewTableRange
<1>4. /\ segments = [i \in DOMAIN Entities |-> segments[i]] /\ DOMAIN segments = DOMAIN Entities
      /\ \A i \in DOMAIN Entities : segments[i] = NewTableChanges(Entities[i])
  BY DEF Each
<1>5. <<>> \in P /\ \A s \in P : \A u \in P : s \o u \in P
  <2>1. <<>> \in P
    BY EmptySeq DEF CreatesAll
  <2>2. \A s \in P : \A u \in P : s \o u \in P
    BY CreatesAllConcat
  <2>. QED
    BY <2>1, <2>2
<1>6. P \subseteq Seq(Changes)
  OBVIOUS
<1>. HIDE DEF segments
<1>7. segments \in Seq(P)
  <2>. HIDE DEF P
  <2>1. \A i \in DOMAIN Entities : segments[i] \in P
    BY <1>2, <1>3, <1>4
  <2>. QED
    BY <1>1, <1>4, <2>1, MadeOf
<1>8. FlattenSeq(segments) \in P
  <2>. HIDE DEF P
  <2>. QED
    BY <1>5, <1>7, FlattenClosed
<1>9. \A x : x \in Range(FlattenSeq(segments)) <=> \E i \in DOMAIN segments : x \in Range(segments[i])
  <2>1. segments \in Seq(Seq(Changes))
    <3>. HIDE DEF P
    <3>. QED
      BY <1>6, <1>7, SeqMonotonic
  <2>. QED
    BY <2>1, FlattenRange
<1>10. ASSUME NEW x
       PROVE  x \in Range(FlattenSeq(segments)) <=> \E t \in Tables : x \in NewChanges(t)
  <2>1. ASSUME NEW i \in DOMAIN segments, x \in Range(segments[i])
        PROVE  \E t \in Tables : x \in NewChanges(t)
    BY <1>2, <1>3, <1>4, <2>1
  <2>2. ASSUME NEW t \in Tables, x \in NewChanges(t)
        PROVE  \E i \in DOMAIN segments : x \in Range(segments[i])
    <3>1. PICK i \in DOMAIN Entities : Entities[i] = t
      BY <1>1 DEF Range
    <3>. QED
      BY <1>3, <1>4, <2>2, <3>1
  <2>. QED
    BY <1>9, <2>1, <2>2
<1>11. changes = FlattenSeq(segments)
  BY DEF segments
<1>12. changes \in P /\ Range(changes) = UNION {NewChanges(t) : t \in Tables}
  <2>. HIDE DEF changes, P
  <2>. QED
    BY <1>8, <1>10, <1>11
<1>. QED
  BY <1>12

\* What a client plans to run is a sequence of changes which create all they should.
LEMMA PlanStep ==
  ASSUME MigrateTypes, NEW c \in Clients, Step(c)
  PROVE  /\ DOMAIN plan' = Clients /\ plan'[c].changes \in Seq(Changes)
         /\ CreatesAll(plan[c].changes) => CreatesAll(plan'[c].changes)
<1>. DEFINE Good == /\ DOMAIN plan' = Clients /\ plan'[c].changes \in Seq(Changes)
                    /\ CreatesAll(plan[c].changes) => CreatesAll(plan'[c].changes)
<1>0. DOMAIN plan = Clients /\ plan[c].changes \in Seq(Changes)
  BY DEF MigrateTypes
<1>1. ASSUME plan' = plan PROVE Good
  BY <1>0, <1>1
<1>2. ASSUME plan' = [plan EXCEPT ![c] = NoPlan] PROVE Good
  <2>1. plan'[c].changes = <<>> /\ DOMAIN plan' = Clients
    BY <1>0, <1>2 DEF NoPlan
  <2>. QED
    BY <2>1, EmptySeq DEF CreatesAll
<1>3. ASSUME plan' = [plan EXCEPT ![c] = Planned(c)] PROVE Good
  <2>1. plan'[c] = Planned(c) /\ DOMAIN plan' = Clients
    BY <1>0, <1>3
  <2>. QED
    BY <2>1, PlanChanges DEF Planned
<1>4. ASSUME CreateTables(c) PROVE Good
  <2>. DEFINE created == FlattenSeq(Each(Entities, NewTableChanges))
  <2>1. plan'[c].changes = created /\ DOMAIN plan' = Clients
    BY <1>0, <1>4 DEF CreateTables, NoPlan
  <2>2. created \in Seq(Changes) /\ CreatesAll(created)
    BY CreatedChanges
  <2>. HIDE DEF created
  <2>. QED
    BY <2>1, <2>2
<1>5. \/ plan' = plan \/ plan' = [plan EXCEPT ![c] = NoPlan]
      \/ plan' = [plan EXCEPT ![c] = Planned(c)] \/ CreateTables(c)
  BY DEF Step, Begin, ReadColumns, ShowPlan, Ask, Confirm, Abort, StartApply, Exec, Record, Commit,
         ExecAckLost, CommitAckLost, Leaves, Breaks, GiveUp, EndEmpty
<1>. HIDE DEF Good
<1>6. Good
  BY <1>1, <1>2, <1>3, <1>4, <1>5
<1>. QED
  BY <1>6 DEF Good

\* What a client has read and been answered.
LEMMA ReadingStep ==
  ASSUME MigrateTypes, NEW c \in Clients, Step(c)
  PROVE  /\ DOMAIN decisions' = Clients /\ DOMAIN seen' = Clients
         /\ listed' \in [Clients -> SUBSET Tables]
         /\ DOMAIN seen'[c] \subseteq Tables /\ seen'[c] \in [DOMAIN seen'[c] -> TableColumns]
<1>. DEFINE Good == /\ DOMAIN decisions' = Clients /\ DOMAIN seen' = Clients
                    /\ listed' \in [Clients -> SUBSET Tables]
                    /\ DOMAIN seen'[c] \subseteq Tables /\ seen'[c] \in [DOMAIN seen'[c] -> TableColumns]
<1>0. /\ DOMAIN decisions = Clients /\ DOMAIN seen = Clients /\ listed \in [Clients -> SUBSET Tables]
      /\ DOMAIN seen[c] \subseteq Tables /\ seen[c] \in [DOMAIN seen[c] -> TableColumns]
  BY DEF MigrateTypes
<1>1. DOMAIN NoAnswers = {} /\ NoAnswers \in [DOMAIN NoAnswers -> TableColumns]
  BY DEF NoAnswers
<1>2. \/ decisions' = decisions
      \/ \E dec : decisions' = [decisions EXCEPT ![c] = dec]
  BY DEF Step, Begin, CreateTables, ReadColumns, ShowPlan, Ask, Confirm, Abort, StartApply, Exec,
         Record, Commit, ExecAckLost, CommitAckLost, Leaves, Breaks, GiveUp, EndEmpty, Forget,
         ListTables, dialogue, reading
<1>3. \/ seen' = seen /\ listed' = listed
      \/ seen' = [seen EXCEPT ![c] = NoAnswers] /\ \E S \in SUBSET Tables : listed' = [listed EXCEPT ![c] = S]
      \/ ReadColumns(c)
  BY DEF Step, Begin, CreateTables, ReadColumns, ShowPlan, Ask, Confirm, Abort, StartApply, Exec,
         Record, Commit, ExecAckLost, CommitAckLost, Leaves, Breaks, GiveUp, EndEmpty, Forget,
         ListTables, dialogue, reading
<1>4. DOMAIN decisions' = Clients
  BY <1>0, <1>2
<1>5. ASSUME seen' = seen, listed' = listed PROVE Good
  BY <1>0, <1>4, <1>5
<1>6. ASSUME seen' = [seen EXCEPT ![c] = NoAnswers],
             \E S \in SUBSET Tables : listed' = [listed EXCEPT ![c] = S]
      PROVE  Good
  <2>1. DOMAIN seen' = Clients /\ seen'[c] = NoAnswers
    BY <1>0, <1>6
  <2>2. listed' \in [Clients -> SUBSET Tables]
    BY <1>0, <1>6
  <2>. QED
    BY <1>1, <1>4, <2>1, <2>2
<1>7. ASSUME ReadColumns(c) PROVE Good
  <2>1. PICK i \in DOMAIN Entities : seen' = [seen EXCEPT ![c] = Put(seen[c], Entities[i], db.cols[Entities[i]])]
    BY <1>7 DEF ReadColumns
  <2>. DEFINE t == Entities[i]
  <2>2. t \in Tables
    BY MigrateAssumption, LenProperties, ElementOfSeq
  <2>3. DOMAIN seen' = Clients /\ seen'[c] = Put(seen[c], t, db.cols[t])
    BY <1>0, <2>1
  <2>4. db.cols[t] \in TableColumns
    BY <2>2 DEF MigrateTypes, SchemaType
  <2>5. listed' = listed
    BY <1>7 DEF ReadColumns
  <2>. HIDE DEF t
  <2>6. DOMAIN seen'[c] \subseteq Tables /\ seen'[c] \in [DOMAIN seen'[c] -> TableColumns]
    BY <1>0, <2>2, <2>3, <2>4 DEF Put
  <2>. QED
    BY <1>0, <1>4, <2>3, <2>5, <2>6
<1>. HIDE DEF Good
<1>8. Good
  BY <1>3, <1>5, <1>6, <1>7
<1>. QED
  BY <1>8 DEF Good

\* The types are preserved.
LEMMA TypesStep ==
  ASSUME CountInv, NEW c \in Clients, Step(c)
  PROVE  MigrateTypes'
<1>0. MigrateTypes /\ Controls
  BY DEF CountInv, MigrateTypes, Controls
<1>1. Controls' /\ Shared'
  BY <1>0, ControlsStep, SharedStep
<1>2. /\ DOMAIN plan' = Clients /\ DOMAIN decisions' = Clients /\ DOMAIN seen' = Clients
      /\ listed' \in [Clients -> SUBSET Tables]
  BY <1>0, PlanStep, ReadingStep
<1>3. ASSUME NEW o \in Clients
      PROVE  /\ DOMAIN seen'[o] \subseteq Tables /\ seen'[o] \in [DOMAIN seen'[o] -> TableColumns]
             /\ plan'[o].changes \in Seq(Changes)
  <2>1. CASE o = c
    BY <1>0, <2>1, PlanStep, ReadingStep
  <2>2. CASE o # c
    <3>1. seen'[o] = seen[o] /\ plan'[o] = plan[o]
      BY <1>0, <2>2, OthersStand
    <3>. QED
      BY <1>0, <3>1 DEF MigrateTypes
  <2>. QED
    BY <2>1, <2>2
<1>. QED
  BY <1>1, <1>2, <1>3 DEF MigrateTypes, Controls, Shared

\* The transaction is taken by who starts to migrate and given back at the end.
LEMMA HeldStep ==
  ASSUME CountInv, NEW c \in Clients, Step(c)
  PROVE  Held' /\ dialect' = dialect
<1>0. Held /\ phase \in [Clients -> Phases] /\ DOMAIN phase' = Clients /\ NoClient \notin Clients
  BY TypesStep, MigrateAssumption DEF CountInv, MigrateTypes
<1>. DEFINE T == dialect.transactional
            Good == /\ dialect' = dialect
                    /\ T => /\ holder' = c <=> phase'[c] \in Migrating
                            /\ holder' # c => holder' = holder \/ holder' = NoClient
                    /\ T => (holder = c \/ holder = NoClient \/ holder' = holder)
                    /\ ~T => holder' = holder
                    /\ T => cut' = cut
<1>. USE DEF vars, schemas, dialogue, reading, summary, Ended, Reading, Migrating
<1>. USE <1>0 DEF Held
<1>1. ASSUME Begin(c) PROVE Good
  BY <1>1 DEF Begin, ListTables
<1>2. ASSUME CreateTables(c) PROVE Good
  BY <1>2 DEF CreateTables
<1>3. ASSUME ReadColumns(c) PROVE Good
  BY <1>3 DEF ReadColumns
<1>4. ASSUME ShowPlan(c) PROVE Good
  BY <1>4 DEF ShowPlan, EndEmpty
<1>5. ASSUME Ask(c) PROVE Good
  BY <1>5 DEF Ask, ListTables
<1>6. ASSUME Confirm(c) PROVE Good
  BY <1>6 DEF Confirm, ListTables
<1>7. ASSUME Abort(c) \/ Leaves(c) PROVE Good
  BY <1>7 DEF Abort, Leaves, EndEmpty
<1>8. ASSUME StartApply(c) PROVE Good
  BY <1>8 DEF StartApply
<1>9. ASSUME Exec(c) PROVE Good
  <2>1. phase[c] = "applying" /\ phase'[c] = "recording" /\ UNCHANGED <<dialect, holder, cut>>
    BY <1>9 DEF Exec
  <2>. QED
    BY <2>1
<1>10. ASSUME Record(c) PROVE Good
  <2>1. /\ phase[c] = "recording" /\ UNCHANGED <<dialect, holder, cut>>
        /\ T => phase'[c] \in {"applying", "committing"}
    BY <1>10 DEF Record
  <2>. QED
    BY <2>1
<1>11. ASSUME Commit(c) PROVE Good
  BY <1>11 DEF Commit, Land, CountInv, Counts
<1>12. ASSUME CommitAckLost(c) PROVE Good
  BY <1>12 DEF CommitAckLost, Land, CountInv, Counts
<1>13. ASSUME ExecAckLost(c) PROVE Good
  BY <1>13 DEF ExecAckLost, GiveUp, UndoneOnError
<1>14. ASSUME Breaks(c) PROVE Good
  BY <1>14 DEF Breaks, GiveUp, UndoneOnError
<1>15. Good
  <2>. HIDE DEF Good
  <2>. QED
    BY <1>1, <1>2, <1>3, <1>4, <1>5, <1>6, <1>7, <1>8, <1>9, <1>10, <1>11, <1>12, <1>13, <1>14
       DEF Step
<1>16. \A o \in Clients : o # c => phase'[o] = phase[o]
  BY OthersStand DEF CountInv
<1>. QED
  BY <1>15, <1>16

\* What is counted and reported agrees after every step.
LEMMA CountsStep ==
  ASSUME CountInv, NEW c \in Clients, Step(c)
  PROVE  Counts(c)' /\ Report(c)'
<1>. DEFINE T == dialect.transactional
            Good == Counts(c)' /\ Report(c)'
<1>0. /\ DOMAIN phase = Clients /\ DOMAIN plan = Clients /\ DOMAIN migrates = Clients
      /\ DOMAIN ran = Clients /\ DOMAIN applied = Clients /\ DOMAIN logged = Clients /\ DOMAIN landed = Clients
      /\ DOMAIN rolled = Clients /\ DOMAIN stopped = Clients /\ DOMAIN unacked = Clients
      /\ Length(c) \in Nat /\ ran[c] \in Nat /\ applied[c] \in Nat /\ landed[c] \in Nat /\ logged[c] \in Nat
  BY PlanTyped DEF CountInv, MigrateTypes
<1>00. Counts(c) /\ Report(c)
  BY DEF CountInv
<1>01. Length(c)' \in Nat
  BY TypesStep, LenProperties DEF MigrateTypes, Length
<1>02. dialect' = dialect
  BY HeldStep
<1>. USE <1>0, <1>01, <1>02 DEF Reading, Migrating, Ended
<1>1. ASSUME Begin(c) PROVE Good
  <2>1. phase'[c] = "planning" /\ Untouched(c)' /\ applied'[c] = 0
    BY <1>1 DEF Begin, ListTables, NewSummary, Untouched
  <2>. QED
    BY <2>1 DEF Counts, Report, Untouched
<1>2. ASSUME CreateTables(c) PROVE Good
  <2>. DEFINE created == FlattenSeq(Each(Entities, NewTableChanges))
  <2>1. plan'[c].changes = created
    BY <1>2 DEF CreateTables, NoPlan
  <2>2. PICK t \in Tables : TRUE
    BY MigrateAssumption
  <2>3. Change("create_table", t, NoName, NoName) \in Range(created) /\ created \in Seq(Changes)
    BY CreatedChanges DEF NewChanges
  <2>. HIDE DEF created
  <2>4. Length(c)' > 0
    <3>1. created # <<>>
      BY <2>3 DEF Range
    <3>. QED
      BY <2>1, <2>3, <3>1, EmptySeq DEF Length
  <2>5. /\ phase'[c] = "applying" /\ ran'[c] = 0 /\ applied'[c] = 0 /\ logged'[c] = 0 /\ landed'[c] = 0
        /\ ~rolled'[c] /\ ~stopped'[c] /\ ~unacked'[c]
    BY <1>2 DEF CreateTables, NewSummary
  <2>. QED
    BY <2>4, <2>5 DEF Counts, Report, Counted
<1>. DEFINE Same == /\ UNCHANGED <<ran[c], applied[c], logged[c], landed[c], migrates[c]>>
                    /\ UNCHANGED <<rolled[c], stopped[c], unacked[c]>>
<1>3. ASSUME ReadColumns(c) \/ ShowPlan(c) \/ Ask(c) \/ Confirm(c) \/ Abort(c) \/ Leaves(c) PROVE Good
  <2>1. Same
    BY <1>3 DEF ReadColumns, ShowPlan, Ask, Confirm, Abort, Leaves, EndEmpty, summary
  <2>2. /\ phase[c] \in Reading \cup {"asking", "confirming"}
        /\ phase'[c] \in Reading \cup {"asking", "confirming", "upToDate", "aborted", "failed"}
        /\ phase'[c] = "failed" => applied[c] = 0
    <3>1. phase[c] \in Reading \cup {"asking", "confirming"}
      BY <1>3 DEF ReadColumns, ShowPlan, Ask, Confirm, Abort, Leaves
    <3>2. phase'[c] \in Reading \cup {"asking", "confirming", "upToDate", "aborted", "failed"}
      BY <1>3 DEF ReadColumns, ShowPlan, Ask, Confirm, Abort, Leaves, EndEmpty, ListTables
    <3>. QED
      BY <1>00, <3>1, <3>2 DEF Counts, Untouched
  <2>3. Untouched(c)
    BY <1>00, <2>2 DEF Counts
  <2>. QED
    BY <2>1, <2>2, <2>3 DEF Counts, Report, Untouched
<1>4. ASSUME StartApply(c) PROVE Good
  <2>1. Same /\ phase[c] = "replanning" /\ plan'[c] = Planned(c)
        /\ phase'[c] \in {"failed", "done", "applying"}
    BY <1>4 DEF StartApply, summary
  <2>2. Untouched(c)
    BY <1>00, <2>1 DEF Counts
  <2>3. phase'[c] = "done" => Length(c)' = 0
    BY <1>4, <2>1 DEF StartApply, Length
  <2>4. phase'[c] = "applying" => Length(c)' > 0
    <3>1. phase'[c] = "applying" => plan'[c].changes # <<>>
      BY <1>4, <2>1 DEF StartApply
    <3>2. plan'[c].changes \in Seq(Changes)
      BY TypesStep DEF MigrateTypes
    <3>. QED
      BY <3>1, <3>2, EmptySeq DEF Length
  <2>. QED
    BY <2>1, <2>2, <2>3, <2>4 DEF Counts, Report, Untouched, Counted
<1>5. ASSUME Exec(c) PROVE Good
  <2>1. /\ phase[c] = "applying" /\ phase'[c] = "recording" /\ ran'[c] = ran[c] + 1
        /\ UNCHANGED <<applied[c], logged[c], migrates[c], rolled[c], stopped[c], unacked[c], plan[c]>>
        /\ T => landed'[c] = landed[c]
        /\ ~T => landed'[c] = landed[c] + 1
    BY <1>5 DEF Exec
  <2>. QED
    BY <1>00, <2>1 DEF Counts, Report, Counted, Length
<1>6. ASSUME Record(c) PROVE Good
  <2>1. /\ phase[c] = "recording" /\ applied'[c] = applied[c] + 1
        /\ UNCHANGED <<ran[c], landed[c], migrates[c], rolled[c], stopped[c], unacked[c], plan[c]>>
        /\ migrates[c] /\ ~T => logged'[c] = logged[c] + 1
        /\ T => logged'[c] = logged[c]
        /\ applied[c] + 1 < Length(c) => phase'[c] = "applying"
        /\ ~ (applied[c] + 1 < Length(c)) => phase'[c] = IF T THEN "committing" ELSE "done"
    BY <1>6 DEF Record, Length
  <2>2. Length(c)' = Length(c)
    BY <2>1 DEF Length
  <2>. QED
    BY <1>00, <2>1, <2>2 DEF Counts, Report, Counted
<1>7. ASSUME Commit(c) PROVE Good
  <2>1. /\ phase[c] = "committing" /\ phase'[c] = "done"
        /\ UNCHANGED <<ran[c], applied[c], migrates[c], rolled[c], stopped[c], unacked[c], plan[c]>>
        /\ landed'[c] = ran[c] /\ migrates[c] => logged'[c] = applied[c]
    BY <1>7 DEF Commit, Land
  <2>2. landed'[c] = ran[c]
    BY <1>7 DEF Commit, Land
  <2>. QED
    BY <1>00, <2>1, <2>2 DEF Counts, Report, Counted, Length
<1>8. ASSUME CommitAckLost(c) PROVE Good
  <2>1. /\ phase[c] = "committing" /\ phase'[c] = "failed"
        /\ applied'[c] = 0 /\ rolled'[c] /\ unacked'[c]
    BY <1>8 DEF CommitAckLost
  <2>. QED
    BY <2>1 DEF Counts, Report
<1>9. ASSUME ExecAckLost(c) PROVE Good
  <2>1. /\ phase[c] = "applying" /\ phase'[c] = "failed" /\ ~T /\ unacked'[c]
        /\ landed'[c] = landed[c] + 1 /\ UNCHANGED <<applied[c], rolled[c], logged[c], migrates[c], plan[c]>>
    BY <1>9 DEF ExecAckLost, GiveUp, UndoneOnError
  <2>. QED
    BY <1>00, <2>1 DEF Counts, Report, Counted, Length
<1>10. ASSUME Breaks(c) PROVE Good
  <2>1. PICK failed \in BOOLEAN : (failed => phase[c] = "applying") /\ GiveUp(c, failed)
    BY <1>10, Zenon DEF Breaks
  <2>2. /\ phase[c] \in Migrating /\ phase'[c] = "failed" /\ stopped'[c] = failed
        /\ UNCHANGED <<landed[c], unacked[c], logged[c], migrates[c], plan[c]>>
    BY <1>10, <2>1 DEF Breaks, GiveUp
  <2>3. /\ T => applied'[c] = 0 /\ rolled'[c]
        /\ ~T => UNCHANGED <<applied[c], rolled[c]>>
    BY <2>1 DEF GiveUp, UndoneOnError
  <2>. QED
    BY <1>00, <2>1, <2>2, <2>3 DEF Counts, Report, Counted, Length
<1>11. Good
  <2>. HIDE DEF Good
  <2>. QED
    BY <1>1, <1>2, <1>3, <1>4, <1>5, <1>6, <1>7, <1>8, <1>9, <1>10 DEF Step
<1>. QED
  BY <1>11

\* Steps of the others and of none keep the counts of a client.
LEMMA CountsStand ==
  ASSUME NEW o \in Clients, Counts(o), Report(o), dialect' = dialect, phase'[o] = phase[o],
         plan'[o] = plan[o], migrates'[o] = migrates[o], ran'[o] = ran[o],
         applied'[o] = applied[o], logged'[o] = logged[o], landed'[o] = landed[o],
         rolled'[o] = rolled[o], stopped'[o] = stopped[o], unacked'[o] = unacked[o]
  PROVE  Counts(o)' /\ Report(o)'
BY DEF Counts, Report, Untouched, Counted, Length

\* The first invariant is inductive.
LEMMA CountStep ==
  ASSUME CountInv, NEW c \in Clients, Step(c)
  PROVE  CountInv'
<1>1. MigrateTypes' /\ Held' /\ dialect' = dialect
  BY TypesStep, HeldStep
<1>2. ASSUME NEW o \in Clients PROVE Counts(o)' /\ Report(o)'
  <2>1. CASE o = c
    BY <2>1, CountsStep
  <2>2. CASE o # c
    <3>1. MigrateTypes /\ Counts(o) /\ Report(o)
      BY DEF CountInv
    <3>. QED
      BY <1>1, <2>2, <3>1, OthersStand, CountsStand
  <2>. QED
    BY <2>1, <2>2
<1>. QED
  BY <1>1, <1>2 DEF CountInv

\* It holds at first.
LEMMA CountInit == Init => CountInv
<1>. SUFFICES ASSUME Init PROVE CountInv
  OBVIOUS
<1>1. MigrateTypes
  BY InitTypes
<1>2. Held
  BY MigrateAssumption DEF Init, Held, Migrating
<1>3. ASSUME NEW c \in Clients PROVE Counts(c) /\ Report(c)
  <2>1. phase[c] = "idle" /\ Untouched(c)
    BY DEF Init, Untouched
  <2>. QED
    BY <2>1 DEF Counts, Report, Ended, Untouched
<1>. QED
  BY <1>1, <1>2, <1>3 DEF CountInv

\* It outlives steps that change nothing.
LEMMA CountStutter ==
  ASSUME CountInv, UNCHANGED vars
  PROVE  CountInv'
BY DEF CountInv, MigrateTypes, Held, Counts, Report, Untouched, Counted, Length,
       vars, schemas, dialogue, reading, summary

\* Clients that step in any order, whatever else there is around them.
Steps == Init /\ [][\E c \in Clients : Step(c)]_vars

\* The clients of Migrate take such steps.
LEMMA SpecSteps == Spec => Steps
<1>1. Next => (\E c \in Clients : Step(c)) \/ UNCHANGED vars
  BY NextSteps DEF Next
<1>2. [Next]_vars => [\E c \in Clients : Step(c)]_vars
  BY <1>1
<1>. QED
  BY <1>2, PTL DEF Spec, Steps

\* The counts agree in every state.
LEMMA CountHolds == Steps => []CountInv
<1>1. CountInv /\ [\E c \in Clients : Step(c)]_vars => CountInv'
  BY CountStep, CountStutter
<1>. QED
  BY <1>1, CountInit, PTL DEF Steps

\* Every state has the types: the schemas are schemas of the models' tables, and no
\* client reports more changes than its plan has.
THEOREM MigrationsTyped == Steps => []TypeOK
<1>1. ASSUME CountInv, NEW c \in Clients PROVE applied[c] <= Len(plan[c].changes)
  <2>1. phase[c] \in Phases /\ applied[c] \in Nat /\ Length(c) \in Nat /\ Counts(c)
    BY <1>1, PlanTyped DEF CountInv, MigrateTypes
  <2>. QED
    BY <2>1 DEF Counts, Untouched, Phases, Ended, Reading, Migrating, Length
<1>2. CountInv => TypeOK
  <2>. SUFFICES ASSUME CountInv PROVE TypeOK
    OBVIOUS
  <2>. QED
    BY <1>1 DEF TypeOK, CountInv, MigrateTypes, Phases
<1>. QED
  BY <1>2, CountHolds, PTL

\* Summary says what happened, whatever fails and whoever else migrates.
THEOREM SummariesAreTrue == Steps => []SummaryTruthful
<1>1. CountInv => SummaryTruthful
  BY DEF CountInv, Report, SummaryTruthful, Length
<1>. QED
  BY <1>1, CountHolds, PTL

\* A transaction moves the schema by a whole migration or not at all.
THEOREM MigrationsAreWhole == Steps => WholeMigrations
<1>. DEFINE Whole == dialect.transactional /\ db # db' =>
                       \E c \in Clients : phase[c] = "committing" /\ landed'[c] = Len(plan[c].changes)
<1>1. ASSUME CountInv, NEW c \in Clients, Step(c) PROVE Whole
  <2>. SUFFICES ASSUME dialect.transactional, db # db'
                PROVE  phase[c] = "committing" /\ landed'[c] = Len(plan[c].changes)
    OBVIOUS
  <2>1. Commit(c) \/ CommitAckLost(c)
    BY <1>1 DEF Step, Begin, CreateTables, ReadColumns, ShowPlan, Ask, Confirm, Abort, StartApply,
                Exec, Effect, Record, ExecAckLost, Leaves, Breaks, EndEmpty, schemas
  <2>2. phase[c] = "committing" /\ landed'[c] = ran[c]
    BY <1>1, <2>1 DEF Commit, CommitAckLost, Land, CountInv, MigrateTypes
  <2>. QED
    BY <1>1, <2>2 DEF CountInv, Counts, Length
<1>2. CountInv /\ [\E c \in Clients : Step(c)]_vars => [Whole]_vars
  <2>. HIDE DEF Whole
  <2>. QED
    BY <1>1
<1>. QED
  BY <1>2, CountHolds, PTL DEF Steps, WholeMigrations

-----------------------------------------------------------------------------
(* Nothing is lost in silence, nothing is asked twice.                      *)

\* A plan that is shown is the one made of what was read, which is all there was.
InDialogue(c) == phase[c] \in Reading \cup {"asking", "confirming"}
ShownPlan(c) ==
  /\ InDialogue(c) => DOMAIN seen[c] \subseteq listed[c]
  /\ phase[c] \in {"asking", "confirming"} =>
       AllRead(c) /\ plan[c] = Planned(c) /\ ~plan[c].error
  /\ phase[c] = "asking" => plan[c].questions # <<>>
  /\ phase[c] = "confirming" => plan[c].questions = <<>>

\* While a client is migrating in a transaction the schema stands still and what it
\* has changed is an evolution of it.
WorkEvolves == holder # NoClient => Evolves(db, work)

\* Whoever decided on the type of a column decided on one that is there for good.
DecisionsKnown(c) ==
  \A t \in Tables : \A x \in ModelColumns[t] :
    Answered(decisions[c], TypeId(t, x)) => x \in DOMAIN db.cols[t]

\* The columns that were there when c read, as long as they are there: those no model
\* has, and those c decided to retype until someone does.
Lasting(c, t, x) ==
  \/ x \notin ModelColumns[t]
  \/ Answered(decisions[c], TypeId(t, x)) /\ db.cols[t][x].type # Model

SeenLasts(c) ==
  InDialogue(c) =>
    \A t \in Tables : \A x \in DOMAIN db.cols[t] :
      Lasting(c, t, x) =>
        /\ t \in listed[c]
        /\ t \in DOMAIN seen[c] =>
             x \in DOMAIN seen[c][t] /\ seen[c][t][x] = db.cols[t][x]

\* The model's columns c read are there for good.
SeenKnown(c) ==
  InDialogue(c) => \A t \in DOMAIN seen[c] : ModelColumns[t] \cap DOMAIN seen[c][t] \subseteq DOMAIN db.cols[t]

Discardable == agreed \cup {NoData}

\* Once c's user confirmed, what its decisions drop or retype is agreed on.
Dropped(c, t, x) ==
  /\ x \notin ModelColumns[t] /\ Answered(decisions[c], ColumnId(t, x))
  /\ decisions[c][ColumnId(t, x)].act = "drop"
ToRetype(c, t, x) ==
  /\ x \in ModelColumns[t] /\ Answered(decisions[c], TypeId(t, x))
  /\ decisions[c][TypeId(t, x)].act = "change"
  /\ \/ db.cols[t][x].type # Model
     \/ t \in DOMAIN seen[c] /\ x \in DOMAIN seen[c][t] /\ seen[c][t][x].type # Model
Consented(c) ==
  phase[c] = "replanning" =>
    \A t \in Tables : \A x \in DOMAIN db.cols[t] :
      Dropped(c, t, x) \/ ToRetype(c, t, x) => db.cols[t][x].data \in Discardable

\* The changes a migration still has to run.
Pending(c) == (ran[c] + 1) .. Length(c)

\* It discards nothing else than what was agreed on.
PendingAgreed(c) ==
  phase[c] \in Migrating =>
    \A i \in Pending(c) :
      LET ch == plan[c].changes[i]
          cols == Target.cols[ch.table]
      IN  /\ ch.kind = "drop_column" /\ ch.column \in DOMAIN cols =>
               cols[ch.column].data \in Discardable
          /\ ch.kind = "change_type" =>
               ch.column \in DOMAIN cols /\ cols[ch.column].data \in Discardable

\* So does what the open transaction has discarded.
WorkAgreed == holder # NoClient => Kept(db) \ Kept(work) \subseteq Discardable

\* The inductive invariant of what is stored and asked.
LossInv ==
  /\ WorkEvolves /\ WorkAgreed
  /\ \A c \in Clients : /\ ShownPlan(c) /\ DecisionsKnown(c) /\ SeenKnown(c) /\ SeenLasts(c)
                        /\ Consented(c) /\ PendingAgreed(c)

\* Every step of a client makes the committed schema evolve.
LEMMA DbEvolves ==
  ASSUME CountInv, WorkEvolves, NEW c \in Clients, Step(c)
  PROVE  Evolves(db, db')
<1>1. CASE Exec(c)
  <2>1. PICK s \in Outcomes(Target, Current(c)) : Effect(s)
    BY <1>1 DEF Exec
  <2>2. Evolves(Target, s)
    BY <1>1, CurrentIs, OutcomeEvolves DEF Exec
  <2>. QED
    BY <2>1, <2>2, EvolvesTwice DEF Effect, Target
<1>2. CASE ExecAckLost(c)
  <2>1. Target = db /\ db' \in Outcomes(Target, Current(c)) /\ Accepts(dialect, Target, Current(c))
    BY <1>2 DEF ExecAckLost, Target
  <2>2. Evolves(Target, db')
    BY <1>2, <2>1, CurrentIs, OutcomeEvolves DEF ExecAckLost
  <2>. QED
    BY <2>1, <2>2
<1>3. CASE Commit(c) \/ CommitAckLost(c)
  <2>1. db' = work /\ phase[c] = "committing"
    BY <1>3 DEF Commit, CommitAckLost, Land
  <2>2. holder = c
    BY <2>1 DEF CountInv, Held, Counts, Migrating
  <2>. QED
    BY <2>1, <2>2, MigrateAssumption DEF WorkEvolves
<1>4. CASE ~Exec(c) /\ ~ExecAckLost(c) /\ ~Commit(c) /\ ~CommitAckLost(c)
  <2>1. db' = db
    BY <1>4 DEF Step, Begin, CreateTables, ReadColumns, ShowPlan, Ask, Confirm, Abort, StartApply,
                Record, Leaves, Breaks, EndEmpty, schemas
  <2>. QED
    BY <2>1, EvolvesTwice
<1>. QED
  BY <1>1, <1>2, <1>3, <1>4

\* Who holds the transaction is alone in it: others leave it as it is.
LEMMA WorkStands ==
  ASSUME CountInv, NEW c \in Clients, Step(c), holder' # NoClient
  PROVE  \/ holder' = c /\ work' = db /\ db' = db
         \/ holder' = c /\ holder = c /\ Exec(c) /\ db' = db /\ work' \in Outcomes(work, Current(c))
         \/ holder' = holder /\ work' = work /\ db' = db
<1>0. dialect.transactional /\ holder' \in Clients /\ holder \in Clients \cup {NoClient}
  BY HeldStep, TypesStep DEF Held, MigrateTypes, CountInv
<1>1. CASE Exec(c)
  <2>1. work' \in Outcomes(work, Current(c)) /\ db' = db /\ holder' = holder
    BY <1>0, <1>1 DEF Exec, Effect, Target
  <2>2. holder = c
    BY <1>0, <1>1 DEF Exec, CountInv, Held, Migrating
  <2>. QED
    BY <1>1, <2>1, <2>2
<1>2. CASE StartApply(c) \/ CreateTables(c)
  BY <1>0, <1>2 DEF StartApply, CreateTables
<1>3. CASE ~Exec(c) /\ ~StartApply(c) /\ ~CreateTables(c)
  <2>1. ~Commit(c) /\ ~CommitAckLost(c)
    BY <1>0 DEF Commit, CommitAckLost, Land
  <2>. QED
    BY <1>0, <1>3, <2>1 DEF Step, Begin, ReadColumns, ShowPlan, Ask, Confirm, Abort,
                Record, ExecAckLost, Leaves, Breaks, GiveUp, UndoneOnError, EndEmpty, schemas
<1>. QED
  BY <1>1, <1>2, <1>3

\* What is done in a transaction makes an evolution.
LEMMA WorkEvolvesStep ==
  ASSUME CountInv, WorkEvolves, NEW c \in Clients, Step(c)
  PROVE  WorkEvolves'
<1>. SUFFICES ASSUME holder' # NoClient PROVE Evolves(db', work')
  BY DEF WorkEvolves
<1>1. CASE holder' = c /\ work' = db /\ db' = db
  BY <1>1, EvolvesTwice
<1>2. CASE holder = c /\ Exec(c) /\ db' = db /\ work' \in Outcomes(work, Current(c))
  <2>1. dialect.transactional /\ holder # NoClient
    BY <1>2, MigrateAssumption DEF CountInv, Held
  <2>2. Target = work
    BY <2>1 DEF Target
  <2>3. Evolves(work, work')
    BY <1>2, <2>2, CurrentIs, OutcomeEvolves DEF Exec
  <2>. QED
    BY <1>2, <2>1, <2>3, EvolvesTwice DEF WorkEvolves
<1>3. CASE holder' = holder /\ work' = work /\ db' = db
  BY <1>3 DEF WorkEvolves
<1>. QED
  BY <1>1, <1>2, <1>3, WorkStands

\* While a client migrates, what it works on evolves, whoever steps.
LEMMA TargetEvolves ==
  ASSUME CountInv, WorkEvolves, NEW c \in Clients, Step(c), NEW o \in Clients,
         phase[o] \in Migrating, phase'[o] \in Migrating
  PROVE  Evolves(Target, Target')
<1>0. dialect' = dialect /\ Held /\ Held'
  BY HeldStep DEF CountInv
<1>1. CASE dialect.transactional
  <2>1. holder = o /\ holder' = o /\ holder # NoClient
    BY <1>0, <1>1, MigrateAssumption DEF Held
  <2>2. Target = work /\ Target' = work'
    BY <1>0, <1>1 DEF Target
  <2>3. CASE c = o /\ Exec(c)
    <3>1. work' \in Outcomes(Target, Current(c))
      BY <1>1, <2>2, <2>3 DEF Exec, Effect
    <3>. QED
      BY <2>2, <2>3, <3>1, CurrentIs, OutcomeEvolves DEF Exec
  <2>4. CASE work' = work
    BY <2>2, <2>4, EvolvesTwice
  <2>5. CASE c = o /\ ~Exec(c)
    <3>1. work' = work
      BY <1>0, <1>1, <2>1, <2>5, MigrateAssumption
         DEF Step, Begin, CreateTables, StartApply, ReadColumns, ShowPlan, Ask, Confirm, Abort,
                Record, Commit,
             CommitAckLost, Land, ExecAckLost, Leaves, Breaks, GiveUp, EndEmpty, schemas
    <3>. QED
      BY <2>4, <3>1
  <2>6. CASE c # o
    <3>1. work' = work
      BY <2>1, <2>6, WorkStands
    <3>. QED
      BY <2>4, <3>1
  <2>. QED
    BY <2>3, <2>5, <2>6
<1>2. CASE ~dialect.transactional
  <2>1. Target = db /\ Target' = db'
    BY <1>0, <1>2 DEF Target
  <2>. QED
    BY <2>1, DbEvolves
<1>. QED
  BY <1>1, <1>2

\* What is asked is about a column that was read and not decided on.
LEMMA HeadAsked ==
  ASSUME NEW c \in Clients, ShownPlan(c), phase[c] = "asking"
  PROVE  Head(plan[c].questions) \in QuestionsOf(dialect, seen[c], decisions[c])
<1>. DEFINE Q == QuestionsOf(dialect, seen[c], decisions[c])
            qs == plan[c].questions
<1>1. qs \in Seq(Q) /\ qs # <<>>
  BY PlanQuestions DEF ShownPlan, Planned
<1>. HIDE DEF Q, qs
<1>2. Head(qs) \in Q
  BY <1>1
<1>. QED
  BY <1>2 DEF Q, qs

\* How the dialogue of a client moves: it lists the tables anew, reads the columns of
\* one, is shown what it read, or is over.
Lists(c) ==
  /\ db' = db /\ phase'[c] \in Reading /\ seen'[c] = NoAnswers
  /\ listed'[c] = {t \in Tables : Exists(db, t)}
  /\ phase'[c] = "replanning" => Confirm(c)

\* Every step moves the dialogue of its client in one of these ways.
LEMMA DialogueStep ==
  ASSUME MigrateTypes, NEW c \in Clients, Step(c)
  PROVE  \/ Lists(c) /\ (Begin(c) \/ Ask(c) \/ Confirm(c))
         \/ ReadColumns(c)
         \/ /\ ShowPlan(c) /\ phase'[c] \in {"asking", "confirming"}
            /\ UNCHANGED <<db, seen, listed, decisions>>
         \/ ~InDialogue(c)' /\ (decisions'[c] = decisions[c] \/ decisions'[c] = NoAnswers)
<1>. DEFINE Over == ~InDialogue(c)' /\ (decisions'[c] = decisions[c] \/ decisions'[c] = NoAnswers)
            Shown == /\ ShowPlan(c) /\ phase'[c] \in {"asking", "confirming"}
                     /\ UNCHANGED <<db, seen, listed, decisions>>
<1>. USE DEF MigrateTypes, InDialogue, Reading, schemas, dialogue, reading
<1>1. ASSUME Begin(c) \/ Ask(c) \/ Confirm(c) PROVE Lists(c)
  BY <1>1 DEF Begin, Ask, Confirm, ListTables, Lists
<1>2. ASSUME ShowPlan(c) PROVE Over \/ Shown
  BY <1>2 DEF ShowPlan, EndEmpty, Forget
<1>3. ASSUME CreateTables(c) PROVE Over
  BY <1>3 DEF CreateTables
<1>4. ASSUME Abort(c) \/ Leaves(c) PROVE Over
  BY <1>4 DEF Abort, Leaves, EndEmpty, Forget
<1>5. ASSUME StartApply(c) PROVE Over
  BY <1>5 DEF StartApply, Forget
<1>6. ASSUME Exec(c) \/ Record(c) PROVE Over
  BY <1>6 DEF Exec, Record
<1>7. ASSUME Commit(c) \/ CommitAckLost(c) PROVE Over
  BY <1>7 DEF Commit, CommitAckLost
<1>8. ASSUME ExecAckLost(c) \/ Breaks(c) PROVE Over
  BY <1>8 DEF ExecAckLost, Breaks, GiveUp
<1>. HIDE DEF Over, Shown
<1>9. \/ Lists(c) /\ (Begin(c) \/ Ask(c) \/ Confirm(c))
      \/ ReadColumns(c) \/ Shown \/ Over
  BY <1>1, <1>2, <1>3, <1>4, <1>5, <1>6, <1>7, <1>8 DEF Step
<1>. QED
  BY <1>9 DEF Over, Shown

\* Reading the columns of one table.
LEMMA ReadStep ==
  ASSUME MigrateTypes, NEW c \in Clients, ReadColumns(c)
  PROVE  /\ UNCHANGED <<db, phase, decisions, listed, agreed, plan, dialect>>
         /\ \E t \in Tables :
              /\ t \in listed[c] /\ DOMAIN seen'[c] = DOMAIN seen[c] \cup {t} /\ seen'[c][t] = db.cols[t]
              /\ \A u \in DOMAIN seen[c] : u # t => seen'[c][u] = seen[c][u]
<1>1. PICK i \in DOMAIN Entities :
        Entities[i] \in listed[c] /\ seen' = [seen EXCEPT ![c] = Put(seen[c], Entities[i], db.cols[Entities[i]])]
  BY DEF ReadColumns
<1>2. Entities[i] \in Tables
  BY MigrateAssumption, LenProperties, ElementOfSeq
<1>3. seen'[c] = Put(seen[c], Entities[i], db.cols[Entities[i]])
  BY <1>1 DEF MigrateTypes
<1>4. UNCHANGED <<db, phase, decisions, listed, agreed, plan, dialect>>
  BY DEF ReadColumns, schemas, dialogue
<1>. DEFINE t == Entities[i]
<1>. HIDE DEF t
<1>5. /\ t \in listed[c] /\ DOMAIN seen'[c] = DOMAIN seen[c] \cup {t} /\ seen'[c][t] = db.cols[t]
      /\ \A u \in DOMAIN seen[c] : u # t => seen'[c][u] = seen[c][u]
  BY <1>1, <1>3 DEF Put, t
<1>6. t \in Tables
  BY <1>2 DEF t
<1>. QED
  BY <1>4, <1>5, <1>6

\* A plan shown is the one that was made of what was read.
LEMMA ShownPlanStep ==
  ASSUME CountInv, NEW c \in Clients, Step(c), NEW o \in Clients, ShownPlan(o)
  PROVE  ShownPlan(o)'
<1>0. MigrateTypes /\ dialect' = dialect
  BY HeldStep DEF CountInv
<1>1. CASE o # c
  BY <1>0, <1>1, OthersStand DEF ShownPlan, InDialogue, AllRead, Planned
<1>. SUFFICES ASSUME o = c PROVE ShownPlan(c)'
  BY <1>1
<1>2. CASE Lists(c)
  BY <1>2 DEF Lists, ShownPlan, NoAnswers, Reading
<1>3. CASE ReadColumns(c)
  <2>1. phase[c] \in Reading /\ phase'[c] = phase[c]
    BY <1>3 DEF ReadColumns
  <2>. QED
    BY <1>0, <1>3, <2>1, ReadStep DEF ShownPlan, InDialogue, Reading
<1>4. CASE ShowPlan(c) /\ phase'[c] \in {"asking", "confirming"} /\ UNCHANGED <<db, seen, listed, decisions>>
  <2>1. /\ AllRead(c) /\ ~Planned(c).error /\ plan'[c] = Planned(c)
        /\ phase'[c] = IF Planned(c).questions = <<>> THEN "confirming" ELSE "asking"
    BY <1>0, <1>4 DEF ShowPlan, EndEmpty, MigrateTypes
  <2>2. AllRead(c)' /\ Planned(c)' = Planned(c)
    BY <1>0, <1>4, <2>1 DEF AllRead, Planned
  <2>3. DOMAIN seen'[c] \subseteq listed'[c]
    BY <2>2 DEF AllRead
  <2>4. phase'[c] = "asking" => plan'[c].questions # <<>>
    BY <2>1
  <2>5. phase'[c] = "confirming" => plan'[c].questions = <<>>
    BY <2>1
  <2>. QED
    BY <2>1, <2>2, <2>3, <2>4, <2>5 DEF ShownPlan
<1>5. CASE ~InDialogue(c)'
  BY <1>5 DEF ShownPlan, InDialogue
<1>. QED
  BY <1>0, <1>2, <1>3, <1>4, <1>5, DialogueStep

\* Who answers a question about a type, or brings the answer, knows of the column.
LEMMA DecisionsKnownStep ==
  ASSUME CountInv, LossInv, NEW c \in Clients, Step(c), NEW o \in Clients
  PROVE  DecisionsKnown(o)'
<1>0. MigrateTypes /\ Evolves(db, db') /\ DecisionsKnown(o)
  BY DbEvolves DEF CountInv, LossInv
<1>1. \A t \in Tables : \A x \in ModelColumns[t] : x \in DOMAIN db.cols[t] => x \in DOMAIN db'.cols[t]
  BY <1>0 DEF Evolves
<1>2. CASE decisions'[o] = decisions[o]
  BY <1>0, <1>1, <1>2 DEF DecisionsKnown
<1>3. CASE o # c
  BY <1>0, <1>2, <1>3, OthersStand
<1>. SUFFICES ASSUME o = c PROVE DecisionsKnown(c)'
  BY <1>3
<1>4. CASE decisions'[c] = NoAnswers
  BY <1>4 DEF DecisionsKnown, Answered, NoAnswers
<1>5. CASE Begin(c)
  <2>1. PICK dec \in {NoAnswers} \cup Prepared :
          /\ \A id \in DOMAIN dec : id[2] \in DOMAIN db.cols[id[1]]
          /\ decisions' = [decisions EXCEPT ![c] = dec]
    BY <1>5 DEF Begin
  <2>2. decisions'[c] = dec
    BY <1>0, <2>1 DEF MigrateTypes
  <2>3. \A t, x : TypeId(t, x)[1] = t /\ TypeId(t, x)[2] = x
    BY DEF TypeId
  <2>. QED
    BY <1>1, <2>1, <2>2, <2>3 DEF DecisionsKnown, Answered
<1>6. CASE Ask(c)
  <2>. DEFINE q == Head(plan[c].questions)
  <2>1. q \in QuestionsOf(dialect, seen[c], decisions[c])
    BY <1>6, HeadAsked DEF Ask, LossInv
  <2>2. PICK t \in Tables \cap DOMAIN seen[c] : \E x \in DOMAIN seen[c][t] :
          q.id = ColumnId(t, x) \/ (q.id = TypeId(t, x) /\ x \in ModelColumns[t])
    BY <2>1, QuestionsAsk
  <2>3. PICK x \in DOMAIN seen[c][t] : q.id = ColumnId(t, x) \/ (q.id = TypeId(t, x) /\ x \in ModelColumns[t])
    BY <2>2
  <2>4. x \in ModelColumns[t] => x \in DOMAIN db.cols[t]
    BY <1>6 DEF Ask, LossInv, SeenKnown, InDialogue
  <2>5. DOMAIN decisions'[c] = DOMAIN decisions[c] \cup {q.id}
    BY <1>0, <1>6 DEF Ask, Put, MigrateTypes
  <2>. HIDE DEF q
  <2>6. ASSUME NEW u \in Tables, NEW y \in ModelColumns[u], q.id = TypeId(u, y) PROVE y \in DOMAIN db.cols[u]
    BY <2>3, <2>4, <2>6 DEF TypeId, ColumnId
  <2>. QED
    BY <1>0, <1>1, <2>5, <2>6 DEF DecisionsKnown, Answered
<1>7. CASE Confirm(c) \/ ReadColumns(c) \/ UNCHANGED decisions
  BY <1>2, <1>7 DEF Confirm, ReadColumns, dialogue
<1>. QED
  BY <1>0, <1>2, <1>4, <1>5, <1>6, <1>7, DialogueStep

\* The columns of the models never go.
LEMMA SeenKnownStep ==
  ASSUME CountInv, LossInv, NEW c \in Clients, Step(c), NEW o \in Clients
  PROVE  SeenKnown(o)'
<1>0. MigrateTypes /\ Evolves(db, db') /\ SeenKnown(o) /\ DOMAIN seen[o] \subseteq Tables
  BY DbEvolves DEF CountInv, LossInv, MigrateTypes
<1>1. \A t \in Tables : \A x \in ModelColumns[t] : x \in DOMAIN db.cols[t] => x \in DOMAIN db'.cols[t]
  BY <1>0 DEF Evolves
<1>2. CASE seen'[o] = seen[o] /\ InDialogue(o)
  BY <1>0, <1>1, <1>2 DEF SeenKnown
<1>3. CASE o # c
  BY <1>0, <1>2, <1>3, OthersStand DEF SeenKnown, InDialogue
<1>. SUFFICES ASSUME o = c PROVE SeenKnown(c)'
  BY <1>3
<1>4. CASE Lists(c)
  BY <1>4 DEF Lists, SeenKnown, NoAnswers
<1>5. CASE ReadColumns(c)
  <2>1. InDialogue(c)
    BY <1>5 DEF ReadColumns, InDialogue
  <2>. QED
    BY <1>0, <1>5, <2>1, ReadStep DEF SeenKnown
<1>6. CASE ShowPlan(c) /\ UNCHANGED <<db, seen, listed, decisions>>
  BY <1>2, <1>6 DEF ShowPlan, InDialogue, Reading
<1>7. CASE ~InDialogue(c)'
  BY <1>7 DEF SeenKnown
<1>. QED
  BY <1>0, <1>4, <1>5, <1>6, <1>7, DialogueStep

\* What is still of use of what was read remains so.
LEMMA SeenLastsStep ==
  ASSUME CountInv, LossInv, NEW c \in Clients, Step(c), NEW o \in Clients
  PROVE  SeenLasts(o)'
<1>0. MigrateTypes /\ Evolves(db, db') /\ SeenLasts(o) /\ DecisionsKnown(o)
  BY DbEvolves DEF CountInv, LossInv
<1>1. ASSUME decisions'[o] = decisions[o],
             NEW t \in Tables, NEW x \in DOMAIN db'.cols[t], Lasting(o, t, x)'
      PROVE  Lasting(o, t, x) /\ x \in DOMAIN db.cols[t] /\ db'.cols[t][x] = db.cols[t][x]
  <2>1. CASE x \notin ModelColumns[t]
    BY <1>0, <2>1 DEF Evolves, Lasting
  <2>2. CASE x \in ModelColumns[t]
    <3>1. Answered(decisions[o], TypeId(t, x)) /\ db'.cols[t][x].type # Model
      BY <1>1, <2>2 DEF Lasting
    <3>2. x \in DOMAIN db.cols[t]
      BY <1>0, <2>2, <3>1 DEF DecisionsKnown
    <3>. QED
      BY <1>0, <2>2, <3>1, <3>2 DEF Evolves, Retypes, Lasting
  <2>. QED
    BY <2>1, <2>2
<1>2. CASE seen'[o] = seen[o] /\ listed'[o] = listed[o] /\ decisions'[o] = decisions[o] /\ InDialogue(o)
  BY <1>0, <1>1, <1>2 DEF SeenLasts
<1>3. CASE o # c
  BY <1>0, <1>2, <1>3, OthersStand DEF SeenLasts, InDialogue
<1>. SUFFICES ASSUME o = c PROVE SeenLasts(c)'
  BY <1>3
<1>4. CASE Lists(c)
  BY <1>4 DEF Lists, SeenLasts, NoAnswers, Exists
<1>5. CASE ReadColumns(c)
  <2>1. InDialogue(c) /\ UNCHANGED <<db, decisions, listed>>
    BY <1>0, <1>5, ReadStep DEF ReadColumns, InDialogue
  <2>2. PICK u \in Tables :
          /\ u \in listed[c] /\ DOMAIN seen'[c] = DOMAIN seen[c] \cup {u} /\ seen'[c][u] = db.cols[u]
          /\ \A v \in DOMAIN seen[c] : v # u => seen'[c][v] = seen[c][v]
    BY <1>0, <1>5, ReadStep
  <2>3. ASSUME NEW t \in Tables, NEW x \in DOMAIN db'.cols[t], Lasting(c, t, x)'
        PROVE  /\ t \in listed'[c]
               /\ t \in DOMAIN seen'[c] => x \in DOMAIN seen'[c][t] /\ seen'[c][t][x] = db'.cols[t][x]
    <3>1. Lasting(c, t, x) /\ x \in DOMAIN db.cols[t] /\ db' = db /\ listed' = listed
      BY <2>1, <2>3 DEF Lasting
    <3>2. /\ t \in listed[c]
          /\ t \in DOMAIN seen[c] => x \in DOMAIN seen[c][t] /\ seen[c][t][x] = db.cols[t][x]
      BY <1>0, <2>1, <3>1 DEF SeenLasts
    <3>. QED
      BY <2>2, <3>1, <3>2
  <2>. QED
    BY <2>3 DEF SeenLasts
<1>6. CASE ShowPlan(c) /\ UNCHANGED <<db, seen, listed, decisions>>
  BY <1>2, <1>6 DEF ShowPlan, InDialogue, Reading
<1>7. CASE ~InDialogue(c)'
  BY <1>7 DEF SeenLasts
<1>. QED
  BY <1>0, <1>4, <1>5, <1>6, <1>7, DialogueStep

\* The agreement only grows.
LEMMA AgreedGrows ==
  ASSUME NEW c \in Clients, Step(c)
  PROVE  agreed \subseteq agreed'
BY DEF Step, Begin, CreateTables, ReadColumns, ShowPlan, Ask, Confirm, Abort, StartApply, Exec,
       Record, Commit, ExecAckLost, CommitAckLost, Leaves, Breaks, GiveUp, EndEmpty, dialogue

\* The changes that an accepted plan makes of columns it found.
LEMMA PlannedDestruction ==
  ASSUME NEW c \in Clients, ~Planned(c).error, NEW t \in Tables \cap DOMAIN seen[c], NEW x \in DOMAIN seen[c][t],
         seen[c] \in [DOMAIN seen[c] -> TableColumns]
  PROVE  /\ Dropped(c, t, x) => Change("drop_column", t, x, x) \in Range(Planned(c).changes)
         /\ x \in ModelColumns[t] /\ Answered(decisions[c], TypeId(t, x))
            /\ decisions[c][TypeId(t, x)].act = "change" /\ seen[c][t][x].type # Model
              => Change("change_type", t, x, x) \in Range(Planned(c).changes)
<1>1. ChangesOf(seen[c], decisions[c], t) \subseteq Range(Planned(c).changes)
  BY PlanChanges DEF Planned
<1>2. ASSUME Dropped(c, t, x) PROVE Change("drop_column", t, x, x) \in Range(Planned(c).changes)
  <2>1. x \in Columns
    BY ColumnsTyped
  <2>2. x \in Decided(t, seen[c][t], decisions[c], "drop")
    BY <1>2 DEF Dropped, Decided, Disappeared
  <2>3. GoneColumnChange(t, decisions[c], x) = Change("drop_column", t, x, x)
    BY <1>2 DEF Dropped, GoneColumnChange
  <2>4. Change("drop_column", t, x, x) \in GoneChanges(t, seen[c][t], decisions[c])
    BY <2>1, <2>2, <2>3 DEF GoneChanges
  <2>. QED
    BY <1>1, <2>4 DEF ChangesOf
<1>3. ASSUME x \in ModelColumns[t], Answered(decisions[c], TypeId(t, x)),
             decisions[c][TypeId(t, x)].act = "change", seen[c][t][x].type # Model
      PROVE  Change("change_type", t, x, x) \in Range(Planned(c).changes)
  <2>1. Change("change_type", t, x, x) \in RetypeChanges(t, seen[c][t], decisions[c])
    BY <1>3 DEF RetypeChanges, Retyped, Mistyped
  <2>. QED
    BY <1>1, <2>1 DEF ChangesOf
<1>. QED
  BY <1>2, <1>3

\* After the confirmation all that the decisions discard is agreed on.
LEMMA ConsentedStep ==
  ASSUME CountInv, LossInv, NEW c \in Clients, Step(c), NEW o \in Clients
  PROVE  Consented(o)'
<1>0. MigrateTypes /\ Evolves(db, db') /\ Consented(o) /\ DecisionsKnown(o) /\ SeenLasts(o) /\ ShownPlan(o)
  BY DbEvolves DEF CountInv, LossInv
<1>1. Discardable \subseteq Discardable' /\ NoData \in Discardable'
  BY AgreedGrows DEF Discardable
<1>2. ASSUME decisions'[o] = decisions[o], seen'[o] = seen[o], phase[o] = "replanning",
             NEW t \in Tables, NEW x \in DOMAIN db'.cols[t],
             Dropped(o, t, x)' \/ ToRetype(o, t, x)'
      PROVE  db'.cols[t][x].data \in Discardable'
  <2>1. CASE Dropped(o, t, x)'
    <3>1. x \notin ModelColumns[t] /\ Dropped(o, t, x)
      BY <1>2, <2>1 DEF Dropped
    <3>2. x \in DOMAIN db.cols[t] /\ db'.cols[t][x] = db.cols[t][x]
      BY <1>0, <3>1 DEF Evolves
    <3>. QED
      BY <1>0, <1>1, <1>2, <3>1, <3>2 DEF Consented
  <2>2. CASE ToRetype(o, t, x)'
    <3>1. x \in ModelColumns[t] /\ Answered(decisions[o], TypeId(t, x))
      BY <1>2, <2>2 DEF ToRetype
    <3>2. x \in DOMAIN db.cols[t] /\ Retypes(db.cols[t][x], db'.cols[t][x])
      BY <1>0, <3>1 DEF DecisionsKnown, Evolves
    <3>3. ToRetype(o, t, x)
      BY <1>2, <2>2, <3>2 DEF ToRetype, Retypes
    <3>4. db.cols[t][x].data \in Discardable
      BY <1>0, <1>2, <3>2, <3>3 DEF Consented
    <3>. QED
      BY <1>1, <3>2, <3>4 DEF Retypes
  <2>. QED
    BY <1>2, <2>1, <2>2
<1>3. CASE decisions'[o] = decisions[o] /\ seen'[o] = seen[o] /\ phase[o] = "replanning"
  BY <1>2, <1>3 DEF Consented
<1>4. CASE o # c
  BY <1>0, <1>3, <1>4, OthersStand DEF Consented
<1>. SUFFICES ASSUME o = c, phase'[c] = "replanning" PROVE Consented(c)'
  BY <1>4 DEF Consented
<1>5. CASE Lists(c)
  <2>1. Confirm(c) /\ db' = db /\ decisions' = decisions /\ seen'[c] = NoAnswers
    BY <1>5 DEF Lists, Confirm
  <2>2. AllRead(c) /\ plan[c] = Planned(c) /\ ~Planned(c).error /\ phase[c] = "confirming"
    BY <1>0, <2>1 DEF Confirm, ShownPlan
  <2>3. \A ch \in Range(Planned(c).changes) :
          ch.kind \in {"drop_column", "change_type"} => seen[c][ch.table][ch.column].data \in agreed'
    BY <2>1, <2>2 DEF Confirm, Destructive
  <2>4. ASSUME NEW t \in Tables, NEW x \in DOMAIN db.cols[t],
               Dropped(c, t, x)' \/ ToRetype(c, t, x)'
        PROVE  db.cols[t][x].data \in agreed'
    <3>1. \/ Dropped(c, t, x)
          \/ /\ x \in ModelColumns[t] /\ Answered(decisions[c], TypeId(t, x))
             /\ decisions[c][TypeId(t, x)].act = "change" /\ db.cols[t][x].type # Model
      <4>1. DOMAIN seen'[c] = {}
        BY <2>1 DEF NoAnswers
      <4>. QED
        BY <2>1, <2>4, <4>1 DEF Dropped, ToRetype
    <3>2. Lasting(c, t, x)
      BY <3>1 DEF Lasting, Dropped
    <3>3. t \in DOMAIN seen[c] /\ x \in DOMAIN seen[c][t] /\ seen[c][t][x] = db.cols[t][x]
      BY <1>0, <2>2, <3>2 DEF SeenLasts, AllRead, InDialogue
    <3>4. \/ Change("drop_column", t, x, x) \in Range(Planned(c).changes)
          \/ Change("change_type", t, x, x) \in Range(Planned(c).changes)
      BY <1>0, <2>2, <3>1, <3>3, PlannedDestruction DEF MigrateTypes
    <3>. QED
      BY <2>3, <3>3, <3>4, ChangeFields
  <2>. QED
    BY <2>1, <2>4 DEF Consented, Discardable
<1>6. CASE ReadColumns(c)
  <2>1. phase[c] = "replanning" /\ UNCHANGED <<db, decisions, agreed>>
    BY <1>0, <1>6, ReadStep
  <2>2. ASSUME NEW t \in Tables, NEW x \in DOMAIN db.cols[t], ToRetype(c, t, x)'
        PROVE  ToRetype(c, t, x)
    <3>1. PICK u \in Tables :
            /\ DOMAIN seen'[c] = DOMAIN seen[c] \cup {u} /\ seen'[c][u] = db.cols[u]
            /\ \A v \in DOMAIN seen[c] : v # u => seen'[c][v] = seen[c][v]
      BY <1>0, <1>6, ReadStep
    <3>. QED
      BY <2>1, <2>2, <3>1 DEF ToRetype
  <2>. QED
    BY <1>0, <2>1, <2>2 DEF Consented, Dropped, Discardable
<1>7. CASE ShowPlan(c) /\ phase'[c] \in {"asking", "confirming"}
  BY <1>7 DEF Consented
<1>8. CASE ~InDialogue(c)'
  BY <1>8 DEF Consented, InDialogue, Reading
<1>. QED
  BY <1>0, <1>5, <1>6, <1>7, <1>8, DialogueStep

\* A statement discards only what was agreed on.
LEMMA StatementAgreed ==
  ASSUME CountInv, NEW c \in Clients, PendingAgreed(c), phase[c] = "applying",
         Accepts(dialect, Target, Current(c)), NEW s \in Outcomes(Target, Current(c))
  PROVE  Kept(Target) \ Kept(s) \subseteq Discardable
<1>. SUFFICES ASSUME NEW v \in Kept(Target) \ Kept(s) PROVE v \in Discardable
  OBVIOUS
<1>. DEFINE i == ran[c] + 1
            ch == Current(c)
<1>1. ch \in Changes /\ Target \in SchemaType /\ i \in 1 .. Length(c) /\ ch = plan[c].changes[i]
  BY CurrentIs
<1>2. /\ ch.kind \in {"drop_column", "change_type"} /\ ch.column \in DOMAIN Target.cols[ch.table]
      /\ v = Target.cols[ch.table][ch.column].data
  <2>1. /\ Current(c).kind \in {"drop_column", "change_type"}
        /\ Current(c).column \in DOMAIN Target.cols[Current(c).table]
        /\ v = Target.cols[Current(c).table][Current(c).column].data
    <3>1. ASSUME NEW old \in SchemaType, NEW ch2 \in Changes, Accepts(dialect, old, ch2),
                 NEW new \in Outcomes(old, ch2), v \in Kept(old) \ Kept(new)
          PROVE  /\ ch2.kind \in {"drop_column", "change_type"} /\ ch2.column \in DOMAIN old.cols[ch2.table]
                 /\ v = old.cols[ch2.table][ch2.column].data
      BY <3>1, OutcomeLoses
    <3>. QED
      BY <3>1, CurrentIs
  <2>. QED
    BY <2>1
<1>3. i \in Pending(c)
  BY <1>1, PlanTyped DEF Pending, CountInv, MigrateTypes
<1>. HIDE DEF i, ch
<1>. QED
  BY <1>1, <1>2, <1>3 DEF PendingAgreed, Migrating

\* The changes of the plan Migrate makes.
LEMMA PlannedAgreed ==
  ASSUME CountInv, LossInv, NEW c \in Clients, phase[c] = "replanning", ~Planned(c).error,
         NEW ch \in Range(Planned(c).changes)
  PROVE  LET cols == db.cols[ch.table] IN
         /\ ch.kind = "drop_column" /\ ch.column \in DOMAIN cols =>
              cols[ch.column].data \in Discardable
         /\ ch.kind = "change_type" =>
              ch.column \in DOMAIN cols /\ cols[ch.column].data \in Discardable
<1>1. PICK t \in Tables : ch \in ChangesOf(seen[c], decisions[c], t)
  BY PlanChanges DEF Planned
<1>2. Consented(c) /\ DecisionsKnown(c)
  BY DEF LossInv
<1>3. CASE t \notin DOMAIN seen[c]
  <2>1. ch \in NewChanges(t)
    BY <1>1, <1>3 DEF ChangesOf
  <2>2. ch.kind \notin {"drop_column", "change_type"}
    BY <2>1, ChangeFields DEF NewChanges
  <2>. QED
    BY <2>2
<1>4. CASE t \in DOMAIN seen[c] /\ ch \in GoneChanges(t, seen[c][t], decisions[c])
  <2>1. PICK x \in Disappeared(t, seen[c][t]) :
          ch = GoneColumnChange(t, decisions[c], x) /\ Answered(decisions[c], ColumnId(t, x))
    BY <1>4 DEF GoneChanges, Decided
  <2>2. CASE decisions[c][ColumnId(t, x)].act = "drop"
    <3>1. ch.kind = "drop_column" /\ ch.table = t /\ ch.column = x
      BY <2>1, <2>2, ChangeFields DEF GoneColumnChange
    <3>2. Dropped(c, t, x)
      BY <2>1, <2>2 DEF Dropped, Disappeared
    <3>. QED
      BY <1>2, <3>1, <3>2 DEF Consented
  <2>3. CASE decisions[c][ColumnId(t, x)].act # "drop"
    <3>1. ch.kind = "rename_column"
      BY <2>1, <2>3, ChangeFields DEF GoneColumnChange
    <3>. QED
      BY <3>1
  <2>. QED
    BY <2>2, <2>3
<1>5. CASE t \in DOMAIN seen[c] /\ ch \in RetypeChanges(t, seen[c][t], decisions[c])
  <2>1. PICK x \in Retyped(t, seen[c][t], decisions[c]) : ch = Change("change_type", t, x, x)
    BY <1>5 DEF RetypeChanges
  <2>2. ch.kind = "change_type" /\ ch.table = t /\ ch.column = x
    BY <2>1, ChangeFields
  <2>3. ToRetype(c, t, x)
    BY <1>5, <2>1 DEF ToRetype, Retyped, Mistyped
  <2>4. x \in DOMAIN db.cols[t]
    BY <1>2, <2>3 DEF DecisionsKnown, ToRetype
  <2>. QED
    BY <1>2, <2>2, <2>3, <2>4 DEF Consented
<1>6. CASE t \in DOMAIN seen[c] /\ ch \in AddChanges(t, seen[c][t], decisions[c])
  BY <1>6, ChangeFields DEF AddChanges
<1>. QED
  BY <1>1, <1>3, <1>4, <1>5, <1>6 DEF ChangesOf

\* How a client comes to migrate, or goes on doing so.
LEMMA MigratingStep ==
  ASSUME CountInv, NEW c \in Clients, Step(c), phase'[c] \in Migrating
  PROVE  \/ /\ StartApply(c) /\ phase[c] = "replanning" /\ ~Planned(c).error /\ AllRead(c)
            /\ plan'[c] = Planned(c) /\ Target' = db /\ db' = db /\ migrates'[c] /\ ran'[c] = 0
         \/ /\ CreateTables(c) /\ plan'[c].changes = FlattenSeq(Each(Entities, NewTableChanges))
            /\ Target' = db /\ db' = db /\ ~migrates'[c] /\ ran'[c] = 0
         \/ /\ phase[c] \in Migrating /\ plan'[c] = plan[c] /\ migrates'[c] = migrates[c]
            /\ \/ Exec(c) /\ Target' \in Outcomes(Target, Current(c)) /\ ran'[c] = ran[c] + 1
               \/ Record(c) /\ Target' = Target /\ db' = db /\ ran'[c] = ran[c]
<1>0. MigrateTypes /\ dialect' = dialect
  BY HeldStep DEF CountInv
<1>1. CASE StartApply(c)
  <2>1. /\ phase[c] = "replanning" /\ ~Planned(c).error /\ AllRead(c) /\ db' = db
        /\ dialect.transactional => work' = db
        /\ UNCHANGED <<ran, migrates>>
    BY <1>0, <1>1 DEF StartApply, Migrating, MigrateTypes, summary
  <2>2. plan'[c] = Planned(c)
    BY <1>0, <1>1 DEF StartApply, MigrateTypes
  <2>3. migrates[c] /\ ran[c] = 0
    BY <2>1 DEF CountInv, Counts, Untouched, Reading
  <2>. QED
    BY <1>0, <1>1, <2>1, <2>2, <2>3 DEF Target
<1>2. CASE CreateTables(c)
  <2>1. db' = db /\ ~migrates'[c] /\ ran'[c] = 0 /\ (dialect.transactional => work' = db)
    BY <1>0, <1>2 DEF CreateTables, NewSummary, MigrateTypes
  <2>2. plan'[c].changes = FlattenSeq(Each(Entities, NewTableChanges))
    BY <1>0, <1>2 DEF CreateTables, NoPlan, MigrateTypes
  <2>. QED
    BY <1>0, <1>2, <2>1, <2>2 DEF Target
<1>3. CASE Exec(c)
  <2>1. phase[c] \in Migrating /\ plan'[c] = plan[c] /\ migrates'[c] = migrates[c] /\ ran'[c] = ran[c] + 1
    BY <1>0, <1>3 DEF Exec, Migrating, MigrateTypes
  <2>2. Target' \in Outcomes(Target, Current(c))
    BY <1>0, <1>3 DEF Exec, Effect, Target
  <2>. QED
    BY <1>3, <2>1, <2>2
<1>4. CASE Record(c)
  BY <1>0, <1>4 DEF Record, Migrating, schemas, Target
<1>5. CASE ~StartApply(c) /\ ~CreateTables(c) /\ ~Exec(c) /\ ~Record(c)
  BY <1>0, <1>5 DEF Step, Begin, ReadColumns, ShowPlan, Ask, Confirm, Abort, Commit, CommitAckLost,
                    ExecAckLost, Leaves, Breaks, GiveUp, EndEmpty, ListTables, Migrating,
                    Reading, MigrateTypes
<1>. QED
  BY <1>1, <1>2, <1>3, <1>4, <1>5

\* What is pending was agreed on, whatever others do to the schema meanwhile.
LEMMA PendingAgreedStep ==
  ASSUME CountInv, LossInv, NEW c \in Clients, Step(c), NEW o \in Clients
  PROVE  PendingAgreed(o)'
<1>0. MigrateTypes /\ WorkEvolves /\ PendingAgreed(o) /\ Length(o) \in Nat /\ ran[o] \in Nat
  BY PlanTyped DEF CountInv, LossInv, MigrateTypes
<1>1. Discardable \subseteq Discardable' /\ NoData \in Discardable'
  BY AgreedGrows DEF Discardable
<1>. SUFFICES ASSUME phase'[o] \in Migrating PROVE PendingAgreed(o)'
  BY DEF PendingAgreed
<1>2. ASSUME phase[o] \in Migrating, plan'[o] = plan[o], ran'[o] \in {ran[o], ran[o] + 1}
      PROVE  PendingAgreed(o)'
  <2>1. Evolves(Target, Target')
    BY <1>0, <1>2, TargetEvolves
  <2>2. ASSUME NEW i \in Pending(o)'
        PROVE  i \in Pending(o) /\ plan[o].changes[i] \in Changes
    <3>1. i \in Pending(o) /\ i \in 1 .. Length(o)
      BY <1>0, <1>2, <2>2 DEF Pending, Length
    <3>. QED
      BY <1>0, <3>1, PlanTyped
  <2>3. ASSUME NEW i \in Pending(o)'
        PROVE  LET ch == plan'[o].changes[i]
                   cols == Target'.cols[ch.table]
               IN  /\ ch.kind = "drop_column" /\ ch.column \in DOMAIN cols =>
                        cols[ch.column].data \in Discardable'
                   /\ ch.kind = "change_type" =>
                        ch.column \in DOMAIN cols /\ cols[ch.column].data \in Discardable'
    <3>. DEFINE ch == plan[o].changes[i]
                t == ch.table
                x == ch.column
    <3>1. i \in Pending(o) /\ ch \in Changes /\ t \in Tables /\ plan'[o].changes[i] = ch
      BY <1>2, <2>2, <2>3 DEF Changes
    <3>2. /\ ch.kind = "drop_column" /\ x \in DOMAIN Target.cols[t] => Target.cols[t][x].data \in Discardable
          /\ ch.kind = "change_type" => x \in DOMAIN Target.cols[t] /\ Target.cols[t][x].data \in Discardable
      BY <1>0, <1>2, <3>1 DEF PendingAgreed
    <3>3. /\ ch.kind = "drop_column" => x \notin ModelColumns[t]
          /\ ch.kind = "change_type" => x \in ModelColumns[t]
      BY <3>1, ChangeFields DEF Changes, Fits
    <3>. HIDE DEF ch, t, x
    <3>4. ASSUME ch.kind = "drop_column", x \in DOMAIN Target'.cols[t]
          PROVE  Target'.cols[t][x].data \in Discardable'
      BY <1>1, <2>1, <3>1, <3>2, <3>3, <3>4 DEF Evolves
    <3>5. ASSUME ch.kind = "change_type"
          PROVE  x \in DOMAIN Target'.cols[t] /\ Target'.cols[t][x].data \in Discardable'
      BY <1>1, <2>1, <3>1, <3>2, <3>3, <3>5 DEF Evolves, Retypes
    <3>. QED
      BY <3>1, <3>4, <3>5 DEF t, x
  <2>. QED
    BY <2>3 DEF PendingAgreed
<1>3. CASE o # c
  <2>1. phase'[o] = phase[o] /\ plan'[o] = plan[o] /\ ran'[o] = ran[o]
    BY <1>0, <1>3, OthersStand
  <2>. QED
    BY <1>2, <2>1
<1>. SUFFICES ASSUME o = c PROVE PendingAgreed(c)'
  BY <1>3
<1>4. Pending(c)' = (ran'[c] + 1) .. Len(plan'[c].changes) /\ plan'[c].changes \in Seq(Changes) /\ ran'[c] \in Nat
  BY TypesStep DEF Pending, Length, MigrateTypes
<1>5. ASSUME NEW i \in Pending(c)' PROVE plan'[c].changes[i] \in Range(plan'[c].changes)
  BY <1>4, LenProperties DEF Range
<1>6. CASE ~Planned(c).error /\ phase[c] = "replanning" /\ plan'[c] = Planned(c) /\ Target' = db
  <2>1. ASSUME NEW ch \in Range(plan'[c].changes)
        PROVE  LET cols == db.cols[ch.table] IN
               /\ ch.kind = "drop_column" /\ ch.column \in DOMAIN cols =>
                    cols[ch.column].data \in Discardable
               /\ ch.kind = "change_type" =>
                    ch.column \in DOMAIN cols /\ cols[ch.column].data \in Discardable
    BY <1>6, <2>1, PlannedAgreed
  <2>. QED
    BY <1>1, <1>5, <1>6, <2>1 DEF PendingAgreed
<1>7. CASE plan'[c].changes = FlattenSeq(Each(Entities, NewTableChanges))
  <2>1. \A ch \in Range(plan'[c].changes) : ch.kind \notin {"drop_column", "change_type"}
    BY <1>7, CreatedChanges, ChangeFields DEF NewChanges
  <2>. QED
    BY <1>5, <2>1 DEF PendingAgreed
<1>. QED
  BY <1>2, <1>6, <1>7, MigratingStep

\* What the transaction has discarded was agreed on.
LEMMA WorkAgreedStep ==
  ASSUME CountInv, LossInv, NEW c \in Clients, Step(c)
  PROVE  WorkAgreed'
<1>1. Discardable \subseteq Discardable' /\ PendingAgreed(c) /\ WorkAgreed
  BY AgreedGrows DEF Discardable, LossInv
<1>. SUFFICES ASSUME holder' # NoClient PROVE Kept(db') \ Kept(work') \subseteq Discardable'
  BY DEF WorkAgreed
<1>2. CASE work' = db /\ db' = db
  BY <1>2
<1>3. CASE holder = c /\ Exec(c) /\ db' = db /\ work' \in Outcomes(work, Current(c))
  <2>1. dialect.transactional /\ holder # NoClient
    BY <1>3, MigrateAssumption DEF CountInv, Held
  <2>2. Target = work
    BY <2>1 DEF Target
  <2>3. Kept(work) \ Kept(work') \subseteq Discardable
    BY <1>1, <1>3, <2>2, StatementAgreed DEF Exec
  <2>. QED
    BY <1>1, <1>3, <2>1, <2>3 DEF WorkAgreed
<1>4. CASE holder' = holder /\ work' = work /\ db' = db
  BY <1>1, <1>4 DEF WorkAgreed
<1>. QED
  BY <1>2, <1>3, <1>4, WorkStands

\* The second invariant is inductive, given the first.
LEMMA LossStep ==
  ASSUME CountInv, LossInv, NEW c \in Clients, Step(c)
  PROVE  LossInv'
<1>1. WorkEvolves' /\ WorkAgreed'
  BY WorkEvolvesStep, WorkAgreedStep DEF LossInv
<1>2. \A o \in Clients : ShownPlan(o)'
  BY ShownPlanStep DEF LossInv
<1>3. \A o \in Clients : DecisionsKnown(o)' /\ SeenKnown(o)'
  BY DecisionsKnownStep, SeenKnownStep
<1>4. \A o \in Clients : SeenLasts(o)' /\ Consented(o)' /\ PendingAgreed(o)'
  BY SeenLastsStep, ConsentedStep, PendingAgreedStep
<1>. QED
  BY <1>1, <1>2, <1>3, <1>4 DEF LossInv

\* It holds at first.
LEMMA LossInit == Init => LossInv
<1>. SUFFICES ASSUME Init PROVE LossInv
  OBVIOUS
<1>1. holder = NoClient /\ \A c \in Clients : phase[c] = "idle" /\ decisions[c] = NoAnswers
  BY DEF Init
<1>. QED
  BY <1>1 DEF LossInv, WorkEvolves, WorkAgreed, ShownPlan, DecisionsKnown, SeenKnown, SeenLasts,
              Consented, PendingAgreed, InDialogue, Reading, Migrating, Answered, NoAnswers

\* It outlives steps that change nothing.
LEMMA LossStutter ==
  ASSUME LossInv, UNCHANGED vars
  PROVE  LossInv'
<1>. USE DEF vars, schemas, dialogue, reading, summary
<1>1. WorkEvolves' /\ WorkAgreed'
  BY DEF LossInv, WorkEvolves, WorkAgreed, Discardable
<1>2. ASSUME NEW c \in Clients PROVE ShownPlan(c)' /\ DecisionsKnown(c)' /\ SeenKnown(c)' /\ SeenLasts(c)'
  <2>1. ShownPlan(c)'
    BY DEF LossInv, ShownPlan, InDialogue, AllRead, Planned
  <2>2. DecisionsKnown(c)' /\ SeenKnown(c)'
    BY DEF LossInv, DecisionsKnown, SeenKnown, InDialogue
  <2>3. SeenLasts(c)'
    BY DEF LossInv, SeenLasts, InDialogue, Lasting
  <2>. QED
    BY <2>1, <2>2, <2>3
<1>3. ASSUME NEW c \in Clients PROVE Consented(c)' /\ PendingAgreed(c)'
  <2>1. Consented(c)'
    BY DEF LossInv, Consented, Dropped, ToRetype, Discardable
  <2>2. PendingAgreed(c)'
    BY DEF LossInv, PendingAgreed, Pending, Length, Target, Discardable
  <2>. QED
    BY <2>1, <2>2
<1>. QED
  BY <1>1, <1>2, <1>3 DEF LossInv

\* Both hold in every state.
LEMMA LossHolds == Steps => [](CountInv /\ LossInv)
<1>1. CountInv /\ LossInv /\ [\E c \in Clients : Step(c)]_vars => LossInv'
  BY LossStep, LossStutter
<1>. QED
  BY <1>1, LossInit, CountHolds, PTL DEF Steps

\* Values that were stored disappear only with a column that some user saw among the
\* destructive changes and confirmed.
THEOREM LossIsAgreed == Steps => NoSilentLoss
<1>. DEFINE Lost == \A x \in (Kept(db) \ Kept(db')) \ {NoData} : x \in agreed
<1>1. ASSUME CountInv, LossInv, NEW c \in Clients, Step(c) PROVE Lost
  <2>0. PendingAgreed(c) /\ WorkAgreed
    BY <1>1 DEF LossInv
  <2>1. CASE Exec(c)
    <3>1. PICK s \in Outcomes(Target, Current(c)) : Effect(s)
      BY <2>1 DEF Exec
    <3>2. Kept(Target) \ Kept(s) \subseteq Discardable
      BY <1>1, <2>0, <2>1, StatementAgreed DEF Exec
    <3>3. db' = db \/ (Target = db /\ db' = s)
      BY <3>1 DEF Effect, Target
    <3>. QED
      BY <3>2, <3>3 DEF Discardable
  <2>2. CASE ExecAckLost(c)
    <3>1. Target = db /\ db' \in Outcomes(Target, Current(c)) /\ phase[c] = "applying"
          /\ Accepts(dialect, Target, Current(c))
      BY <2>2 DEF ExecAckLost, Target
    <3>2. Kept(Target) \ Kept(db') \subseteq Discardable
      BY <1>1, <2>0, <3>1, StatementAgreed
    <3>. QED
      BY <3>1, <3>2 DEF Discardable
  <2>3. CASE Commit(c) \/ CommitAckLost(c)
    <3>1. db' = work /\ phase[c] = "committing"
      BY <2>3 DEF Commit, CommitAckLost, Land
    <3>2. holder = c
      BY <1>1, <3>1 DEF CountInv, Held, Counts, Migrating
    <3>. QED
      BY <2>0, <3>1, <3>2, MigrateAssumption DEF WorkAgreed, Discardable
  <2>4. CASE ~Exec(c) /\ ~ExecAckLost(c) /\ ~Commit(c) /\ ~CommitAckLost(c)
    <3>1. db' = db
      BY <1>1, <2>4
         DEF Step, Begin, CreateTables, ReadColumns, ShowPlan, Ask, Confirm, Abort, StartApply,
                  Record, Leaves, Breaks, EndEmpty, schemas
    <3>. QED
      BY <3>1
  <2>. QED
    BY <2>1, <2>2, <2>3, <2>4
<1>2. CountInv /\ LossInv /\ [\E c \in Clients : Step(c)]_vars => [Lost]_vars
  <2>. HIDE DEF Lost
  <2>. QED
    BY <1>1
<1>. QED
  BY <1>2, LossHolds, PTL DEF Steps, NoSilentLoss

\* Whatever was answered stays answered, so the dialogue asks about less and less.
THEOREM QuestionsAreNew == Steps => []NeverAsksTwice
<1>1. ASSUME LossInv, NEW c \in Clients, phase[c] = "asking"
      PROVE  Head(plan[c].questions).id \notin DOMAIN decisions[c]
  <2>1. Head(plan[c].questions) \in QuestionsOf(dialect, seen[c], decisions[c])
    BY <1>1, HeadAsked DEF LossInv
  <2>. QED
    BY <2>1, QuestionsAsk DEF Answered
<1>2. LossInv => NeverAsksTwice
  BY <1>1 DEF NeverAsksTwice
<1>. QED
  BY <1>2, LossHolds, PTL

-----------------------------------------------------------------------------
(* No success without the columns.                                          *)

\* The tables c found are still there, and one it did not find has appeared complete.
SeenStays(c) ==
  InDialogue(c) =>
    /\ \A t \in listed[c] : Exists(db, t)
    /\ \A t \in Tables \ listed[c] : Exists(db, t) => ModelColumns[t] \subseteq DOMAIN db.cols[t]

\* Columns are added only to tables that are there.
ColumnsPending(c) ==
  phase[c] \in Migrating =>
    \A i \in Pending(c) : plan[c].changes[i].kind \in {"add_column", "rename_column"} =>
      Exists(Target, plan[c].changes[i].table)

\* So does the open transaction's schema.
WorkGrows == holder # NoClient => Grows(db, work)

\* What a migration still lacks, its pending changes provide.
Promises(c) ==
  phase[c] \in Migrating /\ migrates[c] =>
    /\ \A t \in Tables : \A x \in ModelColumns[t] \ DOMAIN Target.cols[t] :
         \E i \in Pending(c) : Provides(plan[c].changes[i], t, x)
    /\ \A i \in Pending(c) :
         LET t == plan[c].changes[i].table IN
         plan[c].changes[i].kind = "create_table" /\ Exists(Target, t) =>
           ModelColumns[t] \subseteq DOMAIN Target.cols[t]

\* Every column of every model is there, and who says so.
Complete(schema) == \A t \in Tables : ModelColumns[t] \subseteq DOMAIN schema.cols[t]

Finished(c) == phase[c] = "upToDate" \/ (phase[c] = "done" /\ migrates[c])

\* The inductive invariant of the columns.
ColumnInv ==
  /\ SharesColumn(db) /\ SharesColumn(work) /\ WorkGrows
  /\ \A c \in Clients : /\ SeenStays(c) /\ ColumnsPending(c) /\ Promises(c)
                        /\ Finished(c) => Complete(db)

\* The statement about to run makes a table appear only by creating it.
LEMMA StatementGrows ==
  ASSUME CountInv, NEW c \in Clients, ColumnsPending(c), phase[c] = "applying",
         Accepts(dialect, Target, Current(c)), NEW s \in Outcomes(Target, Current(c))
  PROVE  Grows(Target, s) /\ Evolves(Target, s)
<1>. DEFINE i == ran[c] + 1
            ch == Current(c)
<1>1. ch \in Changes /\ Target \in SchemaType /\ i \in 1 .. Length(c) /\ ch = plan[c].changes[i]
  BY CurrentIs
<1>2. i \in Pending(c)
  BY <1>1, PlanTyped DEF Pending, CountInv, MigrateTypes
<1>3. ch.kind \in {"add_column", "rename_column"} => Exists(Target, ch.table)
  <2>. HIDE DEF i, ch
  <2>. QED
    BY <1>1, <1>2 DEF ColumnsPending, Migrating
<1>4. ASSUME NEW old \in SchemaType, NEW ch2 \in Changes, Accepts(dialect, old, ch2),
             NEW new \in Outcomes(old, ch2),
             ch2.kind \in {"add_column", "rename_column"} => Exists(old, ch2.table)
      PROVE  Grows(old, new) /\ Evolves(old, new)
  BY <1>4, OutcomeGrows, OutcomeEvolves
<1>. QED
  BY <1>1, <1>3, <1>4

\* A schema left alone has grown.
LEMMA GrowsSame == \A s : Grows(s, s)
BY DEF Grows

\* Every step of a client makes the committed schema grow.
LEMMA DbGrows ==
  ASSUME CountInv, WorkGrows, NEW c \in Clients, ColumnsPending(c), Step(c)
  PROVE  Grows(db, db')
<1>1. CASE Exec(c)
  <2>1. PICK s \in Outcomes(Target, Current(c)) : Effect(s)
    BY <1>1 DEF Exec
  <2>2. Grows(Target, s)
    BY <1>1, StatementGrows DEF Exec
  <2>. QED
    BY <2>1, <2>2, GrowsSame DEF Effect, Target
<1>2. CASE ExecAckLost(c)
  <2>1. Target = db /\ db' \in Outcomes(Target, Current(c)) /\ Accepts(dialect, Target, Current(c))
    BY <1>2 DEF ExecAckLost, Target
  <2>2. Grows(Target, db')
    BY <1>2, <2>1, StatementGrows DEF ExecAckLost
  <2>. QED
    BY <2>1, <2>2
<1>3. CASE Commit(c) \/ CommitAckLost(c)
  <2>1. db' = work /\ phase[c] = "committing"
    BY <1>3 DEF Commit, CommitAckLost, Land
  <2>2. holder = c
    BY <2>1 DEF CountInv, Held, Counts, Migrating
  <2>. QED
    BY <2>1, <2>2, MigrateAssumption DEF WorkGrows
<1>4. CASE ~Exec(c) /\ ~ExecAckLost(c) /\ ~Commit(c) /\ ~CommitAckLost(c)
  <2>1. db' = db
    BY <1>4 DEF Step, Begin, CreateTables, ReadColumns, ShowPlan, Ask, Confirm, Abort, StartApply,
                Record, Leaves, Breaks, EndEmpty, schemas
  <2>. QED
    BY <2>1, GrowsSame
<1>. QED
  BY <1>1, <1>2, <1>3, <1>4

\* In a transaction tables appear complete, too.
LEMMA WorkGrowsStep ==
  ASSUME CountInv, WorkGrows, NEW c \in Clients, ColumnsPending(c), Step(c)
  PROVE  WorkGrows'
<1>. SUFFICES ASSUME holder' # NoClient PROVE Grows(db', work')
  BY DEF WorkGrows
<1>1. CASE work' = db /\ db' = db
  BY <1>1, GrowsSame
<1>2. CASE holder = c /\ Exec(c) /\ db' = db /\ work' \in Outcomes(work, Current(c))
  <2>1. dialect.transactional /\ holder # NoClient
    BY <1>2, MigrateAssumption DEF CountInv, Held
  <2>2. Target = work
    BY <2>1 DEF Target
  <2>3. Grows(work, work') /\ Evolves(work, work')
    BY <1>2, <2>2, StatementGrows DEF Exec
  <2>. QED
    BY <1>2, <2>1, <2>3, GrowsTwice DEF WorkGrows
<1>3. CASE holder' = holder /\ work' = work /\ db' = db
  BY <1>3 DEF WorkGrows
<1>. QED
  BY <1>1, <1>2, <1>3, WorkStands

\* While a client migrates, what it works on grows, whoever steps.
LEMMA TargetGrows ==
  ASSUME CountInv, WorkGrows, NEW c \in Clients, ColumnsPending(c), Step(c), NEW o \in Clients,
         phase[o] \in Migrating, phase'[o] \in Migrating
  PROVE  Grows(Target, Target')
<1>0. dialect' = dialect /\ Held /\ Held'
  BY HeldStep DEF CountInv
<1>1. CASE dialect.transactional
  <2>1. holder = o /\ holder' = o /\ holder # NoClient
    BY <1>0, <1>1, MigrateAssumption DEF Held
  <2>2. Target = work /\ Target' = work'
    BY <1>0, <1>1 DEF Target
  <2>3. CASE Exec(c)
    <3>1. work' \in Outcomes(Target, Current(c))
      BY <1>1, <2>2, <2>3 DEF Exec, Effect
    <3>. QED
      BY <2>2, <2>3, <3>1, StatementGrows DEF Exec
  <2>4. CASE ~Exec(c)
    <3>1. work' = work
      BY <1>0, <1>1, <2>1, <2>4, MigrateAssumption
         DEF Step, Begin, CreateTables, StartApply, ReadColumns, ShowPlan, Ask, Confirm, Abort,
                Record, Commit,
             CommitAckLost, Land, ExecAckLost, Leaves, Breaks, GiveUp, EndEmpty, schemas, Migrating
    <3>. QED
      BY <2>2, <3>1, GrowsSame
  <2>. QED
    BY <2>3, <2>4
<1>2. CASE ~dialect.transactional
  <2>1. Target = db /\ Target' = db'
    BY <1>0, <1>2 DEF Target
  <2>. QED
    BY <2>1, DbGrows
<1>. QED
  BY <1>1, <1>2

\* A table found or created shares a column with its model, also in the transaction.
LEMMA SharesStep ==
  ASSUME CountInv, LossInv, ColumnInv, NEW c \in Clients, Step(c)
  PROVE  SharesColumn(db') /\ SharesColumn(work') /\ \A t \in Tables : Exists(db, t) => Exists(db', t)
<1>0. SharesColumn(db) /\ SharesColumn(work) /\ WorkGrows /\ WorkEvolves /\ ColumnsPending(c)
  BY DEF ColumnInv, LossInv
<1>1. SharesColumn(db') /\ \A t \in Tables : Exists(db, t) => Exists(db', t)
  <2>1. Evolves(db, db') /\ Grows(db, db')
    BY <1>0, DbEvolves, DbGrows
  <2>. QED
    BY <1>0, <2>1, SharesStays
<1>2. CASE Exec(c) /\ dialect.transactional
  <2>1. Target = work /\ work' \in Outcomes(Target, Current(c))
    BY <1>2 DEF Target, Exec, Effect
  <2>2. Grows(Target, work') /\ Evolves(Target, work')
    BY <1>0, <1>2, <2>1, StatementGrows DEF Exec
  <2>. QED
    BY <1>0, <1>1, <2>1, <2>2, SharesStays
<1>3. CASE ~(Exec(c) /\ dialect.transactional)
  <2>1. work' = work \/ work' = db
    <3>1. CASE Exec(c)
      BY <1>3, <3>1 DEF Exec, Effect
    <3>2. CASE ~Exec(c)
      BY <3>2 DEF Step, Begin, CreateTables, StartApply, ReadColumns, ShowPlan, Ask, Confirm,
         Abort, Record,
             Commit, CommitAckLost, Land, ExecAckLost, Leaves, Breaks, GiveUp, EndEmpty, schemas
    <3>. QED
      BY <3>1, <3>2
  <2>. QED
    BY <1>0, <1>1, <2>1
<1>. QED
  BY <1>2, <1>3

\* What was found is still there, what was not has appeared complete.
LEMMA SeenStaysStep ==
  ASSUME CountInv, LossInv, ColumnInv, NEW c \in Clients, Step(c), NEW o \in Clients
  PROVE  SeenStays(o)'
<1>0. /\ MigrateTypes /\ SeenStays(o) /\ WorkGrows /\ WorkEvolves /\ ColumnsPending(c)
      /\ \A t \in Tables : Exists(db, t) => Exists(db', t)
  BY SharesStep DEF ColumnInv, LossInv, CountInv
<1>1. Evolves(db, db') /\ Grows(db, db')
  BY <1>0, DbEvolves, DbGrows
<1>2. CASE listed'[o] = listed[o] /\ InDialogue(o)
  <2>1. listed[o] \subseteq Tables
    BY <1>0 DEF MigrateTypes
  <2>2. \A t \in listed'[o] : Exists(db', t)
    BY <1>0, <1>2, <2>1 DEF SeenStays
  <2>3. ASSUME NEW t \in Tables \ listed'[o], Exists(db', t) PROVE ModelColumns[t] \subseteq DOMAIN db'.cols[t]
    <3>1. CASE Exists(db, t)
      BY <1>0, <1>1, <1>2, <2>3, <3>1 DEF SeenStays, Evolves
    <3>2. CASE ~Exists(db, t)
      BY <1>1, <2>3, <3>2 DEF Grows
    <3>. QED
      BY <3>1, <3>2
  <2>. QED
    BY <2>2, <2>3 DEF SeenStays
<1>3. CASE o # c
  BY <1>0, <1>2, <1>3, OthersStand DEF SeenStays, InDialogue
<1>. SUFFICES ASSUME o = c PROVE SeenStays(c)'
  BY <1>3
<1>4. CASE Lists(c)
  BY <1>4 DEF Lists, SeenStays
<1>5. CASE ReadColumns(c) \/ (ShowPlan(c) /\ UNCHANGED <<db, seen, listed, decisions>>)
  BY <1>2, <1>5 DEF ReadColumns, ShowPlan, InDialogue, Reading
<1>6. CASE ~InDialogue(c)'
  BY <1>6 DEF SeenStays
<1>. QED
  BY <1>0, <1>4, <1>5, <1>6, DialogueStep

\* A plan that is not refused adds columns only to tables that are there, brings every
\* column that is missing, and creates no table that is there and lacks one.
LEMMA PlannedColumns ==
  ASSUME CountInv, LossInv, ColumnInv, NEW c \in Clients, phase[c] \in Reading, AllRead(c), ~Planned(c).error
  PROVE  /\ \A ch \in Range(Planned(c).changes) :
              ch.kind \in {"add_column", "rename_column"} => Exists(db, ch.table)
         /\ \A t \in Tables : \A x \in ModelColumns[t] \ DOMAIN db.cols[t] :
              \E ch \in Range(Planned(c).changes) : Provides(ch, t, x)
         /\ \A ch \in Range(Planned(c).changes) :
              ch.kind = "create_table" /\ Exists(db, ch.table) =>
                ModelColumns[ch.table] \subseteq DOMAIN db.cols[ch.table]
<1>. DEFINE R == Range(Planned(c).changes)
            live == seen[c]
            dec == decisions[c]
<1>0. SeenStays(c) /\ SeenKnown(c) /\ InDialogue(c) /\ listed[c] = DOMAIN live /\ listed[c] \subseteq Tables
  BY DEF LossInv, ColumnInv, InDialogue, AllRead, CountInv, MigrateTypes
<1>1. R = UNION {ChangesOf(live, dec, t) : t \in Tables}
  BY PlanChanges DEF Planned
<1>2. ASSUME NEW t \in Tables \cap DOMAIN live, NEW ch \in ChangesOf(live, dec, t)
      PROVE  ch.table = t /\ ch.kind # "create_table"
  <2>1. \A x : /\ GoneColumnChange(t, dec, x).table = t
               /\ GoneColumnChange(t, dec, x).kind \in {"drop_column", "rename_column"}
    BY ChangeFields DEF GoneColumnChange
  <2>. QED
    BY <1>2, <2>1, ChangeFields DEF ChangesOf, GoneChanges, RetypeChanges, AddChanges
<1>3. ASSUME NEW t \in Tables \ DOMAIN live, NEW ch \in ChangesOf(live, dec, t)
      PROVE  ch.table = t /\ ch.kind \notin {"add_column", "rename_column"}
  BY <1>3, ChangeFields DEF ChangesOf, NewChanges
<1>. HIDE DEF R, live, dec
<1>4. ASSUME NEW ch \in R, ch.kind \in {"add_column", "rename_column"} PROVE Exists(db, ch.table)
  <2>1. PICK t \in Tables : ch \in ChangesOf(live, dec, t)
    BY <1>1
  <2>2. t \in DOMAIN live /\ ch.table = t
    BY <1>2, <1>3, <1>4, <2>1
  <2>. QED
    BY <1>0, <2>2 DEF SeenStays
<1>5. ASSUME NEW t \in Tables, NEW x \in ModelColumns[t] \ DOMAIN db.cols[t]
      PROVE  \E ch \in R : Provides(ch, t, x)
  <2>1. CASE t \notin DOMAIN live
    <3>1. Change("create_table", t, NoName, NoName) \in ChangesOf(live, dec, t)
      BY <2>1 DEF ChangesOf, NewChanges
    <3>. QED
      BY <1>1, <3>1, ChangeFields DEF Provides
  <2>2. CASE t \in DOMAIN live
    <3>1. x \in Appeared(t, live[t])
      BY <1>0, <1>5, <2>2 DEF SeenKnown, Appeared, live
    <3>2. CASE x \in Consumed(t, live[t], dec)
      <4>1. PICK y \in Decided(t, live[t], dec, "rename") : x = dec[ColumnId(t, y)].to
        BY <3>2 DEF Consumed
      <4>2. y \in Columns
        <5>1. live[t] \in TableColumns /\ y \in DOMAIN live[t]
          BY <2>2, <4>1 DEF CountInv, MigrateTypes, live, Decided, Disappeared
        <5>. QED
          BY <5>1, ColumnsTyped
      <4>3. GoneColumnChange(t, dec, y) = Change("rename_column", t, x, y)
        BY <4>1 DEF Decided, GoneColumnChange
      <4>4. Change("rename_column", t, x, y) \in ChangesOf(live, dec, t)
        BY <2>2, <4>1, <4>2, <4>3 DEF ChangesOf, GoneChanges
      <4>. QED
        BY <1>1, <4>4, ChangeFields DEF Provides
    <3>3. CASE x \notin Consumed(t, live[t], dec)
      <4>1. Change("add_column", t, x, x) \in ChangesOf(live, dec, t)
        BY <2>2, <3>1, <3>3 DEF ChangesOf, AddChanges
      <4>. QED
        BY <1>1, <4>1, ChangeFields DEF Provides
    <3>. QED
      BY <3>2, <3>3
  <2>. QED
    BY <2>1, <2>2
<1>6. ASSUME NEW ch \in R, ch.kind = "create_table", Exists(db, ch.table)
      PROVE  ModelColumns[ch.table] \subseteq DOMAIN db.cols[ch.table]
  <2>1. PICK t \in Tables : ch \in ChangesOf(live, dec, t)
    BY <1>1
  <2>2. t \notin DOMAIN live /\ ch.table = t
    BY <1>2, <1>3, <1>6, <2>1
  <2>. QED
    BY <1>0, <1>6, <2>2 DEF SeenStays
<1>. QED
  BY <1>4, <1>5, <1>6 DEF R

\* All changes of a plan are pending when it is about to be run.
LEMMA AllPending ==
  ASSUME CountInv, NEW c \in Clients, Step(c), ran'[c] = 0
  PROVE  /\ \A i \in Pending(c)' : plan'[c].changes[i] \in Range(plan'[c].changes)
         /\ \A ch \in Range(plan'[c].changes) : \E i \in Pending(c)' : plan'[c].changes[i] = ch
<1>1. plan'[c].changes \in Seq(Changes)
  BY TypesStep DEF MigrateTypes
<1>2. Pending(c)' = 1 .. Len(plan'[c].changes)
  BY DEF Pending, Length
<1>. QED
  BY <1>1, <1>2, LenProperties DEF Range

\* A pending change stays pending until it is run.
LEMMA PendingShrinks ==
  ASSUME CountInv, NEW o \in Clients, plan'[o] = plan[o], ran'[o] \in {ran[o], ran[o] + 1}
  PROVE  /\ \A i \in Pending(o)' : i \in Pending(o) /\ plan[o].changes[i] \in Changes
         /\ \A i \in Pending(o) : i \in Pending(o)' \/ (i = ran[o] + 1 /\ ran'[o] = ran[o] + 1)
<1>1. Length(o)' = Length(o) /\ Length(o) \in Nat /\ ran[o] \in Nat
      /\ \A i \in 1 .. Length(o) : plan[o].changes[i] \in Changes
  BY PlanTyped DEF Length, CountInv, MigrateTypes
<1>2. Pending(o)' = (ran'[o] + 1) .. Length(o) /\ Pending(o) = (ran[o] + 1) .. Length(o)
  BY <1>1 DEF Pending
<1>. QED
  BY <1>1, <1>2

\* Tables that columns are to be added to do not go.
LEMMA ColumnsPendingStep ==
  ASSUME CountInv, LossInv, ColumnInv, NEW c \in Clients, Step(c), NEW o \in Clients
  PROVE  ColumnsPending(o)'
<1>0. MigrateTypes /\ ColumnsPending(o) /\ ColumnsPending(c) /\ WorkGrows /\ WorkEvolves
      /\ SharesColumn(db) /\ SharesColumn(work)
  BY DEF CountInv, ColumnInv, LossInv
<1>. SUFFICES ASSUME phase'[o] \in Migrating PROVE ColumnsPending(o)'
  BY DEF ColumnsPending
<1>1. ASSUME phase[o] \in Migrating, plan'[o] = plan[o], ran'[o] \in {ran[o], ran[o] + 1}
      PROVE  ColumnsPending(o)'
  <2>1. Evolves(Target, Target') /\ Grows(Target, Target') /\ SharesColumn(Target)
    BY <1>0, <1>1, TargetEvolves, TargetGrows DEF Target
  <2>2. \A t \in Tables : Exists(Target, t) => Exists(Target', t)
    BY <2>1, SharesStays
  <2>3. \A i \in Pending(o)' : i \in Pending(o) /\ plan[o].changes[i] \in Changes
    BY <1>1, PendingShrinks
  <2>4. \A ch \in Changes : ch.table \in Tables
    BY DEF Changes
  <2>. QED
    BY <1>0, <1>1, <2>2, <2>3, <2>4 DEF ColumnsPending
<1>2. CASE o # c
  <2>1. phase'[o] = phase[o] /\ plan'[o] = plan[o] /\ ran'[o] = ran[o]
    BY <1>0, <1>2, OthersStand
  <2>. QED
    BY <1>1, <2>1
<1>. SUFFICES ASSUME o = c PROVE ColumnsPending(c)'
  BY <1>2
<1>3. ASSUME ran'[c] = 0 PROVE \A i \in Pending(c)' : plan'[c].changes[i] \in Range(plan'[c].changes)
  BY <1>3, AllPending
<1>4. CASE phase[c] = "replanning" /\ AllRead(c) /\ ~Planned(c).error
           /\ plan'[c] = Planned(c) /\ Target' = db /\ ran'[c] = 0
  <2>1. \A ch \in Range(plan'[c].changes) :
          ch.kind \in {"add_column", "rename_column"} => Exists(db, ch.table)
    BY <1>4, PlannedColumns DEF Reading
  <2>. QED
    BY <1>3, <1>4, <2>1 DEF ColumnsPending
<1>5. CASE plan'[c].changes = FlattenSeq(Each(Entities, NewTableChanges)) /\ ran'[c] = 0
  <2>1. \A ch \in Range(plan'[c].changes) : ch.kind \notin {"add_column", "rename_column"}
    BY <1>5, CreatedChanges, ChangeFields DEF NewChanges
  <2>. QED
    BY <1>3, <1>5, <2>1 DEF ColumnsPending
<1>. QED
  BY <1>1, <1>4, <1>5, MigratingStep

\* What is missing stays promised until it is brought.
LEMMA PromisesStep ==
  ASSUME CountInv, LossInv, ColumnInv, NEW c \in Clients, Step(c), NEW o \in Clients
  PROVE  Promises(o)'
<1>0. MigrateTypes /\ Promises(o) /\ ColumnsPending(c) /\ WorkGrows /\ WorkEvolves
  BY DEF CountInv, ColumnInv, LossInv
<1>. SUFFICES ASSUME phase'[o] \in Migrating, migrates'[o] PROVE Promises(o)'
  BY DEF Promises
<1>1. ASSUME phase[o] \in Migrating, plan'[o] = plan[o], migrates'[o] = migrates[o],
             ran'[o] \in {ran[o], ran[o] + 1},
             ran'[o] = ran[o] + 1 => o = c /\ Exec(c) /\ Target' \in Outcomes(Target, Current(c))
      PROVE  Promises(o)'
  <2>1. Evolves(Target, Target') /\ Grows(Target, Target')
    BY <1>0, <1>1, TargetEvolves, TargetGrows
  <2>2. \A t \in Tables : ModelColumns[t] \cap DOMAIN Target.cols[t] \subseteq DOMAIN Target'.cols[t]
    BY <2>1 DEF Evolves
  <2>3. ASSUME NEW t \in Tables, NEW x \in ModelColumns[t] \ DOMAIN Target'.cols[t]
        PROVE  \E i \in Pending(o)' : Provides(plan'[o].changes[i], t, x)
    <3>1. PICK i \in Pending(o) : Provides(plan[o].changes[i], t, x)
      BY <1>0, <1>1, <2>2, <2>3 DEF Promises
    <3>2. CASE i \in Pending(o)'
      BY <1>1, <3>1, <3>2
    <3>3. CASE i = ran[o] + 1 /\ ran'[o] = ran[o] + 1
      <4>1. Exec(c) /\ o = c /\ plan[c].changes[i] = Current(c) /\ Current(c) \in Changes /\ Target \in SchemaType
            /\ Target' \in Outcomes(Target, Current(c))
        BY <1>1, <3>3, CurrentIs DEF Exec
      <4>2. Current(c).kind = "create_table" /\ Exists(Target, Current(c).table) =>
              ModelColumns[Current(c).table] \subseteq DOMAIN Target.cols[Current(c).table]
        BY <1>0, <1>1, <3>1, <4>1 DEF Promises
      <4>3. Current(c).table = t
        BY <3>1, <4>1 DEF Provides
      <4>4. ASSUME NEW old \in SchemaType, NEW ch \in Changes, Accepts(dialect, old, ch), NEW new \in Outcomes(old, ch),
                   Provides(ch, t, x),
                   ch.kind = "create_table" /\ Exists(old, t) => ModelColumns[t] \subseteq DOMAIN old.cols[t]
            PROVE  x \in DOMAIN new.cols[t]
        BY <4>4, <2>3, OutcomeProvides
      <4>5. x \in DOMAIN Target'.cols[t]
        BY <3>1, <4>1, <4>2, <4>3, <4>4 DEF Exec
      <4>. QED
        BY <2>3, <4>5
    <3>. QED
      BY <1>1, <3>2, <3>3, PendingShrinks
  <2>4. ASSUME NEW i \in Pending(o)', plan'[o].changes[i].kind = "create_table",
               Exists(Target', plan'[o].changes[i].table)
        PROVE  ModelColumns[plan'[o].changes[i].table] \subseteq DOMAIN Target'.cols[plan'[o].changes[i].table]
    <3>. DEFINE t == plan[o].changes[i].table
    <3>1. i \in Pending(o) /\ plan[o].changes[i] \in Changes
      BY <1>1, <2>4, PendingShrinks
    <3>2. t \in Tables /\ plan'[o].changes[i].table = t
      BY <1>1, <3>1 DEF Changes
    <3>3. Exists(Target, t) => ModelColumns[t] \subseteq DOMAIN Target.cols[t]
      BY <1>0, <1>1, <2>4, <3>1 DEF Promises
    <3>. HIDE DEF t
    <3>4. ModelColumns[t] \subseteq DOMAIN Target'.cols[t]
      BY <2>1, <2>2, <2>4, <3>2, <3>3 DEF Grows
    <3>. QED
      BY <3>2, <3>4
  <2>. QED
    BY <2>3, <2>4 DEF Promises
<1>2. CASE o # c
  <2>1. phase'[o] = phase[o] /\ plan'[o] = plan[o] /\ ran'[o] = ran[o] /\ migrates'[o] = migrates[o]
    BY <1>0, <1>2, OthersStand
  <2>2. ran[o] # ran[o] + 1
    BY <1>0 DEF MigrateTypes
  <2>. QED
    BY <1>1, <2>1, <2>2
<1>. SUFFICES ASSUME o = c PROVE Promises(c)'
  BY <1>2
<1>3. CASE /\ phase[c] = "replanning" /\ AllRead(c) /\ ~Planned(c).error
           /\ plan'[c] = Planned(c) /\ Target' = db /\ ran'[c] = 0
  <2>1. /\ \A i \in Pending(c)' : plan'[c].changes[i] \in Range(plan'[c].changes)
        /\ \A ch \in Range(plan'[c].changes) : \E i \in Pending(c)' : plan'[c].changes[i] = ch
    BY <1>3, AllPending
  <2>2. /\ \A t \in Tables : \A x \in ModelColumns[t] \ DOMAIN db.cols[t] :
             \E ch \in Range(plan'[c].changes) : Provides(ch, t, x)
        /\ \A ch \in Range(plan'[c].changes) :
             ch.kind = "create_table" /\ Exists(db, ch.table) =>
               ModelColumns[ch.table] \subseteq DOMAIN db.cols[ch.table]
    BY <1>3, PlannedColumns DEF Reading
  <2>3. ASSUME NEW t \in Tables, NEW x \in ModelColumns[t] \ DOMAIN db.cols[t]
        PROVE  \E i \in Pending(c)' : Provides(plan'[c].changes[i], t, x)
    BY <2>1, <2>2
  <2>4. ASSUME NEW i \in Pending(c)', plan'[c].changes[i].kind = "create_table",
               Exists(db, plan'[c].changes[i].table)
        PROVE  ModelColumns[plan'[c].changes[i].table] \subseteq DOMAIN db.cols[plan'[c].changes[i].table]
    BY <2>1, <2>2, <2>4
  <2>. QED
    BY <1>3, <2>3, <2>4 DEF Promises
<1>4. ran[c] # ran[c] + 1
  BY <1>0 DEF MigrateTypes
<1>. QED
  BY <1>1, <1>3, <1>4, MigratingStep

\* Who says the schema is in order found nothing missing, or has brought it.
LEMMA FinishedStep ==
  ASSUME CountInv, LossInv, ColumnInv, NEW c \in Clients, Step(c), NEW o \in Clients, Finished(o)'
  PROVE  Complete(db')
<1>0. /\ MigrateTypes /\ dialect' = dialect /\ Evolves(db, db')
      /\ Finished(o) => Complete(db)
  BY HeldStep, DbEvolves DEF CountInv, LossInv, ColumnInv, Finished
<1>1. Complete(db) => Complete(db')
  BY <1>0 DEF Complete, Evolves
<1>2. CASE Finished(o)
  BY <1>0, <1>1, <1>2
<1>3. CASE o # c
  BY <1>0, <1>2, <1>3, OthersStand DEF Finished
<1>. SUFFICES ASSUME o = c, ~Finished(c) PROVE Complete(db')
  BY <1>2, <1>3
<1>4. ASSUME phase[c] \in Reading, AllRead(c), ~Planned(c).error, Planned(c).changes = <<>>
      PROVE  Complete(db)
  <2>1. Range(Planned(c).changes) = {}
    BY <1>4 DEF Range
  <2>2. \A t \in Tables : \A x \in ModelColumns[t] \ DOMAIN db.cols[t] :
          \E ch \in Range(Planned(c).changes) : Provides(ch, t, x)
    BY <1>4, PlannedColumns
  <2>. QED
    BY <2>1, <2>2 DEF Complete
<1>5. ASSUME phase[c] \in Migrating, migrates[c], ran[c] = Length(c) PROVE Complete(Target)
  <2>1. Promises(c) /\ Length(c) \in Nat
    BY PlanTyped DEF ColumnInv, CountInv
  <2>2. Pending(c) = {}
    BY <1>5, <2>1 DEF Pending
  <2>. QED
    BY <1>5, <2>1, <2>2 DEF Promises, Complete
<1>6. CASE ShowPlan(c)
  <2>1. phase'[c] = "upToDate"
    BY <1>0, <1>6, Finished(c)' DEF ShowPlan, EndEmpty, Finished, MigrateTypes
  <2>2. AllRead(c) /\ ~Planned(c).error /\ Planned(c).changes = <<>> /\ phase[c] \in Reading
    BY <1>0, <1>6, <2>1 DEF ShowPlan, EndEmpty, Empty, Reading, MigrateTypes
  <2>. QED
    BY <1>1, <1>4, <2>2
<1>7. CASE StartApply(c)
  <2>1. phase'[c] = "done"
    BY <1>0, <1>7, Finished(c)' DEF StartApply, Finished, MigrateTypes
  <2>2. AllRead(c) /\ ~Planned(c).error /\ Planned(c).changes = <<>> /\ phase[c] \in Reading
    BY <1>0, <1>7, <2>1 DEF StartApply, Reading, MigrateTypes
  <2>. QED
    BY <1>1, <1>4, <2>2
<1>8. CASE Record(c)
  <2>1. /\ phase[c] = "recording" /\ migrates[c] /\ ~dialect.transactional
        /\ ~ (applied[c] + 1 < Length(c))
    BY <1>0, <1>8, Finished(c)' DEF Record, Finished, MigrateTypes, Length
  <2>2. ran[c] = Length(c)
    <3>1. ran[c] = applied[c] + 1 /\ applied[c] < Length(c) /\ applied[c] \in Nat /\ Length(c) \in Nat
      BY <2>1, PlanTyped DEF CountInv, Counts, MigrateTypes
    <3>. QED
      BY <2>1, <3>1
  <2>. QED
    BY <1>1, <1>5, <2>1, <2>2 DEF Target, Migrating
<1>9. CASE Commit(c)
  <2>1. phase[c] = "committing" /\ db' = work /\ migrates[c]
    BY <1>0, <1>9, Finished(c)' DEF Commit, Land, Finished
  <2>2. ran[c] = Length(c) /\ dialect.transactional
    BY <2>1 DEF CountInv, Counts
  <2>. QED
    BY <1>5, <2>1, <2>2 DEF Target, Migrating
<1>10. CASE ~ShowPlan(c) /\ ~StartApply(c) /\ ~Record(c) /\ ~Commit(c)
  <2>1. phase'[c] \notin {"done", "upToDate"}
    BY <1>0, <1>10
       DEF Step, Begin, CreateTables, ReadColumns, Ask, Confirm, Abort, Exec, CommitAckLost,
                    ExecAckLost, Leaves, Breaks, GiveUp, EndEmpty, ListTables, Migrating,
                    Reading, MigrateTypes
  <2>. QED
    BY <2>1, Finished(c)' DEF Finished
<1>. QED
  BY <1>6, <1>7, <1>8, <1>9, <1>10

\* The third invariant is inductive, given the first two.
LEMMA ColumnStep ==
  ASSUME CountInv, LossInv, ColumnInv, NEW c \in Clients, Step(c)
  PROVE  ColumnInv'
<1>1. SharesColumn(db') /\ SharesColumn(work') /\ WorkGrows'
  BY SharesStep, WorkGrowsStep DEF ColumnInv
<1>2. \A o \in Clients : SeenStays(o)' /\ ColumnsPending(o)' /\ Promises(o)'
  BY SeenStaysStep, ColumnsPendingStep, PromisesStep
<1>3. \A o \in Clients : Finished(o)' => Complete(db')
  BY FinishedStep
<1>. QED
  BY <1>1, <1>2, <1>3 DEF ColumnInv

\* The tables that are found on a server share a column with their model, their id.
Recognised == \A i \in Installations : SharesColumn(i.schema)

\* It holds at first.
LEMMA ColumnInit == Recognised /\ Init => ColumnInv
<1>. SUFFICES ASSUME Recognised, Init PROVE ColumnInv
  OBVIOUS
<1>1. PICK i \in Installations : db = i.schema
  BY DEF Init
<1>2. SharesColumn(db) /\ work = db /\ holder = NoClient /\ \A c \in Clients : phase[c] = "idle"
  BY <1>1 DEF Init, Recognised
<1>. QED
  BY <1>2 DEF ColumnInv, WorkGrows, SeenStays, ColumnsPending, Promises, Finished, InDialogue,
     Reading, Migrating

\* It outlives steps that change nothing.
LEMMA ColumnStutter ==
  ASSUME ColumnInv, UNCHANGED vars
  PROVE  ColumnInv'
<1>. USE DEF vars, schemas, dialogue, reading, summary
<1>1. SharesColumn(db') /\ SharesColumn(work') /\ WorkGrows'
  BY DEF ColumnInv, WorkGrows
<1>2. ASSUME NEW c \in Clients PROVE SeenStays(c)' /\ ColumnsPending(c)' /\ Promises(c)'
  <2>1. SeenStays(c)' /\ ColumnsPending(c)'
    BY DEF ColumnInv, SeenStays, ColumnsPending, InDialogue, Pending, Length, Target
  <2>2. Promises(c)'
    BY DEF ColumnInv, Promises, Pending, Length, Target
  <2>. QED
    BY <2>1, <2>2
<1>3. \A c \in Clients : Finished(c)' => Complete(db')
  BY DEF ColumnInv, Finished
<1>. QED
  BY <1>1, <1>2, <1>3 DEF ColumnInv

\* It holds in every state.
LEMMA ColumnsHold == Recognised /\ Steps => []ColumnInv
<1>1. CountInv /\ LossInv /\ ColumnInv /\ [\E c \in Clients : Step(c)]_vars => ColumnInv'
  BY ColumnStep, ColumnStutter
<1>. QED
  BY <1>1, ColumnInit, LossHolds, PTL DEF Steps

\* Success is only reported of a schema that has the columns of every model.
THEOREM SuccessIsComplete == Recognised /\ Steps => []SuccessHasColumns
<1>1. ColumnInv => SuccessHasColumns
  BY DEF ColumnInv, Finished, SuccessHasColumns, Complete
<1>. QED
  BY <1>1, ColumnsHold, PTL

-----------------------------------------------------------------------------
(* No index or join table is missing but where a creation was cut off.      *)

\* A client is creating what belongs to a table: the table is made, the rest pending.
Creating(c, t, a) ==
  /\ phase[c] \in Migrating
  /\ \E i \in 1 .. ran[c] : plan[c].changes[i] = Change("create_table", t, NoName, NoName)
  /\ \E i \in Pending(c) : Makes(plan[c].changes[i], a)

\* The indexes and joins of the tables that exist are there, or being created.
HasAux(schema) == \A t \in Tables : Exists(schema, t) => AuxOf(t) \subseteq schema.aux

Owed(t) ==
  Exists(Target, t) /\ (dialect.transactional => holder # NoClient) =>
    \A a \in AuxOf(t) \ Target.aux : \E c \in Clients : Creating(c, t, a)

\* The inductive invariant of the indexes and join tables.
AuxInv ==
  /\ \A c \in Clients : CreatesAll(plan[c].changes)
  /\ dialect.transactional => HasAux(db)
  /\ \A t \in Tables \ cut : Owed(t)

\* What a statement leaves missing it does not make; a table it creates owes the rest.
LEMMA StatementOwes ==
  ASSUME CountInv, NEW c \in Clients, ColumnsPending(c), CreatesAll(plan[c].changes),
         phase[c] = "applying", Accepts(dialect, Target, Current(c)),
         NEW s \in Outcomes(Target, Current(c)), NEW t \in Tables, NEW a \in AuxOf(t) \ s.aux
  PROVE  /\ a \notin Target.aux /\ ~Makes(plan[c].changes[ran[c] + 1], a)
         /\ Exists(s, t) /\ ~Exists(Target, t) =>
              /\ plan[c].changes[ran[c] + 1] = Change("create_table", t, NoName, NoName)
              /\ \E j \in (ran[c] + 2) .. Length(c) : Makes(plan[c].changes[j], a)
<1>. DEFINE i == ran[c] + 1
            ch == Current(c)
<1>1. ch \in Changes /\ Target \in SchemaType /\ i \in 1 .. Length(c) /\ ch = plan[c].changes[i]
      /\ ran[c] \in Nat /\ Length(c) \in Nat /\ DOMAIN plan[c].changes = 1 .. Length(c)
  BY CurrentIs, PlanTyped DEF CountInv, MigrateTypes
<1>2. i \in Pending(c)
  BY <1>1 DEF Pending
<1>3. ch.kind \in {"add_column", "rename_column"} => Exists(Target, ch.table)
  <2>. HIDE DEF i, ch
  <2>. QED
    BY <1>1, <1>2 DEF ColumnsPending, Migrating
<1>4. ASSUME NEW old \in SchemaType, NEW ch2 \in Changes, Accepts(dialect, old, ch2),
             NEW new \in Outcomes(old, ch2),
             ch2.kind \in {"add_column", "rename_column"} => Exists(old, ch2.table)
      PROVE  /\ old.aux \subseteq new.aux /\ \A b : Makes(ch2, b) => b \in new.aux
             /\ \A u \in Tables : Exists(new, u) /\ ~Exists(old, u) =>
                     ch2 = Change("create_table", u, NoName, NoName)
  BY <1>4, OutcomeIs, OutcomeGrows
<1>5. /\ Target.aux \subseteq s.aux /\ \A b : Makes(ch, b) => b \in s.aux
      /\ \A u \in Tables : Exists(s, u) /\ ~Exists(Target, u) => ch = Change("create_table", u, NoName, NoName)
  BY <1>1, <1>3, <1>4
<1>. HIDE DEF i, ch
<1>6. a \notin Target.aux /\ ~Makes(plan[c].changes[i], a)
  BY <1>1, <1>5
<1>7. ASSUME Exists(s, t), ~Exists(Target, t)
      PROVE  /\ plan[c].changes[i] = Change("create_table", t, NoName, NoName)
             /\ \E j \in (ran[c] + 2) .. Length(c) : Makes(plan[c].changes[j], a)
  <2>1. plan[c].changes[i] = Change("create_table", t, NoName, NoName)
    BY <1>1, <1>5, <1>7
  <2>2. PICK j \in 1 .. Length(c) : j > i /\ Makes(plan[c].changes[j], a)
    BY <1>1, <2>1, ChangeFields DEF CreatesAll
  <2>3. j \in (ran[c] + 2) .. Length(c)
    BY <1>1, <2>2 DEF i
  <2>. QED
    BY <2>1, <2>2, <2>3
<1>. QED
  BY <1>6, <1>7 DEF i

\* A creation under way stays so until the statement that ends it.
LEMMA CreatingStands ==
  ASSUME CountInv, NEW o \in Clients, NEW t, NEW a, Creating(o, t, a), phase'[o] \in Migrating,
         plan'[o] = plan[o], ran'[o] \in {ran[o], ran[o] + 1},
         ran'[o] = ran[o] + 1 => ~Makes(plan[o].changes[ran[o] + 1], a)
  PROVE  Creating(o, t, a)'
<1>1. ran[o] \in Nat /\ Length(o)' = Length(o)
  BY DEF CountInv, MigrateTypes, Length
<1>2. PICK i \in 1 .. ran[o] : plan[o].changes[i] = Change("create_table", t, NoName, NoName)
  BY DEF Creating
<1>3. PICK j \in Pending(o) : Makes(plan[o].changes[j], a)
  BY DEF Creating
<1>4. i \in 1 .. ran'[o] /\ plan'[o].changes[i] = Change("create_table", t, NoName, NoName)
  BY <1>1, <1>2
<1>5. j \in Pending(o)' /\ Makes(plan'[o].changes[j], a)
  BY <1>3, PendingShrinks
<1>. QED
  BY <1>4, <1>5 DEF Creating

\* What is owed is being created, step by step, or was cut off.
LEMMA OwedStep ==
  ASSUME CountInv, ColumnInv, AuxInv, NEW c \in Clients, Step(c), NEW t \in Tables \ cut'
  PROVE  Owed(t)'
<1>. SUFFICES ASSUME Exists(Target', t), dialect.transactional => holder' # NoClient,
                     NEW a \in AuxOf(t) \ Target'.aux
              PROVE  \E o \in Clients : Creating(o, t, a)'
  BY HeldStep DEF Owed
<1>0. /\ MigrateTypes /\ Held /\ Held' /\ dialect' = dialect /\ ColumnsPending(c) /\ CreatesAll(plan[c].changes)
      /\ t \notin cut => Owed(t)
      /\ ran[c] \in Nat /\ Length(c) \in Nat
  BY HeldStep, PlanTyped DEF CountInv, ColumnInv, AuxInv, Owed, MigrateTypes
<1>1. ASSUME NEW o \in Clients \ {c}, Creating(o, t, a) PROVE Creating(o, t, a)'
  <2>1. phase'[o] = phase[o] /\ plan'[o] = plan[o] /\ ran'[o] = ran[o]
    BY <1>0, OthersStand
  <2>2. ran[o] \in Nat
    BY <1>0 DEF MigrateTypes
  <2>3. ran[o] # ran[o] + 1
    BY <2>2
  <2>. QED
    BY <1>1, <2>1, <2>3, CreatingStands DEF Creating
<1>2. ASSUME phase[c] = "applying", Accepts(dialect, Target, Current(c)), Target' \in Outcomes(Target, Current(c)),
             ran'[c] = ran[c] + 1, plan'[c] = plan[c], t \notin cut, dialect.transactional => holder # NoClient
      PROVE  \/ \E o \in Clients \ {c} : Creating(o, t, a)
             \/ /\ \E i \in 1 .. ran'[c] : plan'[c].changes[i] = Change("create_table", t, NoName, NoName)
                /\ \E j \in Pending(c)' : Makes(plan'[c].changes[j], a)
  <2>1. a \in AuxOf(t) \ Target.aux /\ ~Makes(plan[c].changes[ran[c] + 1], a)
    BY <1>0, <1>2, StatementOwes
  <2>2. CASE Exists(Target, t)
    <3>1. PICK o \in Clients : Creating(o, t, a)
      BY <1>0, <1>2, <2>1, <2>2 DEF Owed
    <3>2. CASE o = c
      <4>1. PICK i \in 1 .. ran[c] : plan[c].changes[i] = Change("create_table", t, NoName, NoName)
        BY <3>1, <3>2 DEF Creating
      <4>2. PICK j \in Pending(c) : Makes(plan[c].changes[j], a)
        BY <3>1, <3>2 DEF Creating
      <4>3. j \in Pending(c)'
        BY <1>2, <2>1, <4>2, PendingShrinks
      <4>4. i \in 1 .. ran'[c]
        BY <1>0, <1>2
      <4>. QED
        BY <1>2, <4>1, <4>2, <4>3, <4>4
    <3>. QED
      BY <3>1, <3>2
  <2>3. CASE ~Exists(Target, t)
    <3>1. /\ plan[c].changes[ran[c] + 1] = Change("create_table", t, NoName, NoName)
          /\ \E j \in (ran[c] + 2) .. Length(c) : Makes(plan[c].changes[j], a)
      BY <1>0, <1>2, <2>3, StatementOwes
    <3>2. PICK j \in (ran[c] + 2) .. Length(c) : Makes(plan[c].changes[j], a)
      BY <3>1
    <3>3. j \in Pending(c)' /\ ran[c] + 1 \in 1 .. ran'[c]
      BY <1>0, <1>2 DEF Pending, Length
    <3>. QED
      BY <1>2, <3>1, <3>2, <3>3
  <2>. QED
    BY <2>2, <2>3
<1>3. CASE Exec(c)
  <2>1. /\ phase[c] = "applying" /\ Accepts(dialect, Target, Current(c)) /\ phase'[c] = "recording"
        /\ ran'[c] = ran[c] + 1 /\ plan'[c] = plan[c] /\ cut' = cut /\ holder' = holder
    BY <1>0, <1>3 DEF Exec, MigrateTypes
  <2>2. Target' \in Outcomes(Target, Current(c))
    BY <1>0, <1>3 DEF Exec, Effect, Target
  <2>3. \/ \E o \in Clients \ {c} : Creating(o, t, a)
        \/ /\ \E i \in 1 .. ran'[c] : plan'[c].changes[i] = Change("create_table", t, NoName, NoName)
           /\ \E j \in Pending(c)' : Makes(plan'[c].changes[j], a)
    BY <1>2, <2>1, <2>2
  <2>4. ASSUME \E i \in 1 .. ran'[c] : plan'[c].changes[i] = Change("create_table", t, NoName, NoName),
               \E j \in Pending(c)' : Makes(plan'[c].changes[j], a)
        PROVE  Creating(c, t, a)'
    BY <2>1, <2>4 DEF Creating, Migrating
  <2>. QED
    BY <1>1, <2>3, <2>4
<1>4. CASE ExecAckLost(c)
  <2>1. /\ phase[c] = "applying" /\ Accepts(dialect, Target, Current(c)) /\ ~dialect.transactional
        /\ ran'[c] = ran[c] + 1 /\ plan'[c] = plan[c] /\ cut' = cut \cup CutAfter(c, ran'[c], db')
        /\ Target' \in Outcomes(Target, Current(c)) /\ Target' = db'
    BY <1>0, <1>4 DEF ExecAckLost, GiveUp, UndoneOnError, MigrateTypes, Target
  <2>2. t \notin cut /\ t \notin CutAfter(c, ran'[c], db')
    BY <2>1
  <2>3. ~ \E i \in 1 .. ran'[c] : plan'[c].changes[i] = Change("create_table", t, NoName, NoName)
    BY <2>1, <2>2 DEF CutAfter
  <2>4. \E o \in Clients \ {c} : Creating(o, t, a)
    BY <1>2, <2>1, <2>2, <2>3
  <2>. QED
    BY <1>1, <2>4
<1>5. CASE Breaks(c)
  <2>1. /\ ~dialect.transactional /\ db' = db /\ ran'[c] = ran[c] /\ cut' = cut \cup CutAfter(c, ran'[c], db')
        /\ Target' = db /\ Target = db
    BY <1>0, <1>5 DEF Breaks, GiveUp, UndoneOnError, Target
  <2>2. t \notin cut /\ t \notin CutAfter(c, ran[c], db)
    BY <2>1 DEF CutAfter
  <2>3. PICK o \in Clients : Creating(o, t, a)
    BY <1>0, <2>1, <2>2 DEF Owed
  <2>4. ~Creating(c, t, a)
    BY <2>1, <2>2 DEF CutAfter, Creating
  <2>. QED
    BY <1>1, <2>3, <2>4
<1>6. CASE Record(c)
  <2>1. /\ phase[c] = "recording" /\ plan'[c] = plan[c] /\ ran'[c] = ran[c] /\ Target' = Target
        /\ cut' = cut /\ holder' = holder
        /\ phase'[c] \in Migrating \/ ~ (applied[c] + 1 < Length(c))
    BY <1>0, <1>6 DEF Record, schemas, Target, Migrating, MigrateTypes, Length
  <2>2. PICK o \in Clients : Creating(o, t, a)
    BY <1>0, <2>1 DEF Owed
  <2>3. CASE o = c
    <3>1. ran[c] = applied[c] + 1 /\ ran[c] + 1 <= Length(c) /\ applied[c] \in Nat
      BY <1>0, <2>1, <2>2, <2>3 DEF CountInv, Counts, Creating, Pending, MigrateTypes
    <3>2. phase'[c] \in Migrating
      BY <1>0, <2>1, <3>1
    <3>. QED
      BY <1>0, <2>1, <2>2, <2>3, <3>2, CreatingStands
  <2>. QED
    BY <1>1, <2>2, <2>3
<1>7. CASE Commit(c) \/ CommitAckLost(c)
  <2>1. holder' = NoClient /\ dialect.transactional
    BY <1>7 DEF Commit, CommitAckLost, Land, CountInv, Counts
  <2>. QED
    BY <2>1
<1>8. CASE Target' = db /\ dialect.transactional /\ phase[c] \notin Migrating
  BY <1>8 DEF AuxInv, HasAux
<1>9. CASE Target' = Target /\ cut' = cut /\ holder' = holder /\ phase[c] \notin Migrating
  <2>1. PICK o \in Clients : Creating(o, t, a)
    BY <1>0, <1>9 DEF Owed
  <2>2. o # c
    BY <1>9, <2>1 DEF Creating
  <2>. QED
    BY <1>1, <2>1, <2>2
<1>10. CASE StartApply(c) \/ CreateTables(c)
  <2>1. phase[c] \notin Migrating /\ cut' = cut /\ db' = db
    BY <1>10 DEF StartApply, CreateTables, Migrating, Ended
  <2>2. \/ work' = db /\ dialect.transactional
        \/ work' = work /\ holder' = holder
    BY <1>10 DEF StartApply, CreateTables
  <2>. QED
    BY <1>0, <1>8, <1>9, <2>1, <2>2 DEF Target
<1>11. CASE Begin(c) \/ ReadColumns(c) \/ ShowPlan(c) \/ Ask(c) \/ Confirm(c) \/ Abort(c) \/ Leaves(c)
  <2>1. phase[c] \notin Migrating
    BY <1>11
       DEF Begin, ReadColumns, ShowPlan, Ask, Confirm, Abort, Leaves, Migrating, Reading, Ended
  <2>2. UNCHANGED schemas
    BY <1>11 DEF Begin, ReadColumns, ShowPlan, Ask, Confirm, Abort, Leaves, EndEmpty
  <2>. QED
    BY <1>0, <1>9, <2>1, <2>2 DEF schemas, Target
<1>. QED
  BY <1>3, <1>4, <1>5, <1>6, <1>7, <1>10, <1>11 DEF Step

\* In a transaction the tables are committed with all that belongs to them.
LEMMA HasAuxStep ==
  ASSUME CountInv, ColumnInv, AuxInv, NEW c \in Clients, Step(c), dialect.transactional
  PROVE  HasAux(db')
<1>1. CASE Commit(c) \/ CommitAckLost(c)
  <2>1. db' = work /\ phase[c] = "committing"
    BY <1>1 DEF Commit, CommitAckLost, Land
  <2>2. holder = c /\ holder # NoClient /\ Target = work /\ cut = {}
    BY <2>1, MigrateAssumption DEF CountInv, Held, Migrating, Target
  <2>3. Pending(c) = {}
    <3>1. ran[c] = Length(c) /\ Length(c) \in Nat
      BY <2>1, PlanTyped DEF CountInv, Counts
    <3>. QED
      BY <3>1 DEF Pending
  <2>4. ASSUME NEW o \in Clients, NEW t, NEW a, Creating(o, t, a) PROVE FALSE
    <3>1. o = c
      BY <2>2, <2>4 DEF Creating, CountInv, Held
    <3>. QED
      BY <2>3, <2>4, <3>1 DEF Creating
  <2>5. ASSUME NEW t \in Tables, Exists(work, t) PROVE AuxOf(t) \subseteq work.aux
    BY <2>2, <2>4, <2>5 DEF AuxInv, Owed
  <2>. QED
    BY <2>1, <2>5 DEF HasAux
<1>2. CASE ~Commit(c) /\ ~CommitAckLost(c)
  <2>1. db' = db
    BY <1>2 DEF Step, Begin, CreateTables, ReadColumns, ShowPlan, Ask, Confirm, Abort,
       StartApply, Exec, Effect,
                Record, ExecAckLost, Leaves, Breaks, EndEmpty, schemas
  <2>. QED
    BY <2>1 DEF AuxInv
<1>. QED
  BY <1>1, <1>2

\* The fourth invariant is inductive, given the first and third.
LEMMA AuxStep ==
  ASSUME CountInv, ColumnInv, AuxInv, NEW c \in Clients, Step(c)
  PROVE  AuxInv'
<1>0. MigrateTypes /\ dialect' = dialect
  BY HeldStep DEF CountInv
<1>1. ASSUME NEW o \in Clients PROVE CreatesAll(plan'[o].changes)
  <2>1. CreatesAll(plan[o].changes)
    BY DEF AuxInv
  <2>2. CASE o = c
    BY <1>0, <2>1, <2>2, PlanStep
  <2>3. CASE o # c
    BY <1>0, <2>1, <2>3, OthersStand
  <2>. QED
    BY <2>2, <2>3
<1>2. dialect'.transactional => HasAux(db')
  BY <1>0, HasAuxStep
<1>3. \A t \in Tables \ cut' : Owed(t)'
  BY OwedStep
<1>. QED
  BY <1>1, <1>2, <1>3 DEF AuxInv

\* The tables that are found on a server have their indexes and join tables.
Equipped == \A i \in Installations : HasAux(i.schema)

\* It holds at first.
LEMMA AuxInit == Equipped /\ Init => AuxInv
<1>. SUFFICES ASSUME Equipped, Init PROVE AuxInv
  OBVIOUS
<1>1. PICK i \in Installations : db = i.schema
  BY DEF Init
<1>2. HasAux(db) /\ work = db /\ holder = NoClient /\ \A c \in Clients : plan[c] = NoPlan
  BY <1>1 DEF Init, Equipped
<1>3. CreatesAll(NoPlan.changes)
  BY DEF NoPlan, CreatesAll
<1>. QED
  BY <1>2, <1>3 DEF AuxInv, Owed, HasAux, Target

\* It outlives steps that change nothing.
LEMMA AuxStutter ==
  ASSUME AuxInv, UNCHANGED vars
  PROVE  AuxInv'
<1>. USE DEF vars, schemas, dialogue, reading, summary
<1>1. ASSUME NEW c \in Clients, NEW t, NEW a, Creating(c, t, a) PROVE Creating(c, t, a)'
  BY <1>1 DEF Creating, Pending, Length
<1>2. Target' = Target
  BY DEF Target
<1>. QED
  BY <1>1, <1>2 DEF AuxInv, Owed, HasAux

\* It holds in every state.
LEMMA AuxHolds == Recognised /\ Equipped /\ Steps => [](CountInv /\ AuxInv)
<1>1. CountInv /\ ColumnInv /\ AuxInv /\ [\E c \in Clients : Step(c)]_vars => AuxInv'
  BY AuxStep, AuxStutter
<1>. QED
  BY <1>1, AuxInit, CountHolds, ColumnsHold, PTL DEF Steps

\* While nobody migrates, nothing that belongs to a table is missing but where the
\* server commits statement by statement and the table's creation was cut off.
THEOREM NothingElseMissing == Recognised /\ Equipped /\ Steps => []MissingOnlyWhereCut
<1>1. CountInv /\ AuxInv => MissingOnlyWhereCut
  <2>. SUFFICES ASSUME CountInv, AuxInv, \A c \in Clients : phase[c] \notin Migrating
                PROVE  /\ \A t \in Tables \ cut : Exists(db, t) => AuxOf(t) \subseteq db.aux
                       /\ dialect.transactional => cut = {}
    BY DEF MissingOnlyWhereCut
  <2>1. dialect.transactional => cut = {} /\ HasAux(db)
    BY DEF CountInv, Held, AuxInv
  <2>2. ~dialect.transactional => Target = db
    BY DEF Target
  <2>3. ~ \E c \in Clients : \E t, a : Creating(c, t, a)
    BY DEF Creating
  <2>. QED
    BY <2>1, <2>2, <2>3 DEF AuxInv, Owed, HasAux
<1>. QED
  BY <1>1, AuxHolds, PTL

-----------------------------------------------------------------------------
(* The socket, for any number of processes sharing a path: who accepts after *)
(* a Close, and who may have taken the path away.  And the migrations behind *)
(* it: whatever the socket does to its clients, they take the steps above,   *)
(* so all that is proved there holds here.                                   *)

ServeStates == {"not called", "listening", "set", "serving", "returned"}
CloseStates == {"not called", "removing", "returned"}

SocketTypes ==
  /\ file \in Servers \cup {Rival, NoServer}
  /\ serve \in [Servers -> ServeStates]
  /\ closing \in [Servers -> CloseStates]
  /\ shut \in [Servers -> BOOLEAN]
  /\ early \in [Servers -> BOOLEAN]

\* Close shuts the server, unless it comes before ms.server is set; nothing else
\* does, and a Serve returns for no other reason.
ShutByClose(s) ==
  /\ shut[s] \/ serve[s] = "returned" => closing[s] # "not called"
  /\ closing[s] # "not called" => shut[s] \/ early[s]

\* From Listen on, and not only while it accepts, a server has the path unless
\* another process, or its own early Close, took it.
TakenByAnother(s) ==
  rival \/ early[s] \/ \E o \in Servers \ {s} : file = o \/ closing[o] # "not called"

HasPath(s) ==
  serve[s] \in {"listening", "set", "serving"} /\ ~shut[s] /\ file # s => TakenByAnother(s)

SocketIInv == SocketTypes /\ \A s \in Servers : ShutByClose(s) /\ HasPath(s)

-----------------------------------------------------------------------------

\* Membership is a truth value.
LEMMA MembershipIsTruth ==
  ASSUME NEW S, NEW x
  PROVE  (x \in S) \in BOOLEAN
OBVIOUS

\* Before any Serve, Close or rival.
LEMMA SocketInitInv == SocketInit => SocketIInv
BY DEF SocketInit, SocketIInv, SocketTypes, ServeStates, CloseStates, ShutByClose, HasPath

\* The migration itself leaves the socket alone.
LEMMA MigrationLeavesSocket ==
  ASSUME SocketIInv, UNCHANGED socketVars
  PROVE  SocketIInv'
BY DEF SocketIInv, socketVars, SocketTypes, ShutByClose, HasPath, TakenByAnother

\* Every step of a Serve, a Close or a rival keeps the invariant.
LEMMA SocketStepInv == SocketIInv /\ [SocketNext]_allVars => SocketIInv'
<1>. SUFFICES ASSUME SocketIInv, [SocketNext]_allVars
              PROVE  SocketIInv'
  OBVIOUS
<1>. USE SocketAssumption DEF SocketIInv, SocketTypes, ServeStates, CloseStates
<1>1. ASSUME NEW s \in Servers, Listen(s) PROVE SocketIInv'
  BY <1>1 DEF Listen, ShutByClose, HasPath, TakenByAnother
<1>2. ASSUME NEW s \in Servers, SetServer(s) PROVE SocketIInv'
  BY <1>2 DEF SetServer, ShutByClose, HasPath, TakenByAnother
<1>3. ASSUME NEW s \in Servers, AcceptClients(s) PROVE SocketIInv'
  BY <1>3 DEF AcceptClients, ShutByClose, HasPath, TakenByAnother
<1>4. ASSUME NEW s \in Servers, ServeReturns(s) PROVE SocketIInv'
  BY <1>4 DEF ServeReturns, ShutByClose, HasPath, TakenByAnother
<1>5. ASSUME NEW s \in Servers, CloseServer(s) PROVE SocketIInv'
  <2>1. SocketTypes'
    <3>1. ServerSet(s) \in BOOLEAN /\ (serve[s] \in {"not called", "listening"}) \in BOOLEAN
      BY MembershipIsTruth DEF ServerSet
    <3>2. shut' \in [Servers -> BOOLEAN] /\ early' \in [Servers -> BOOLEAN]
      BY <1>5, <3>1, FlagSet DEF CloseServer
    <3>. QED
      BY <1>5, <3>2 DEF CloseServer
  <2>2. ASSUME NEW o \in Servers PROVE ShutByClose(o)'
    BY <1>5, <2>2 DEF CloseServer, ServerSet, ShutByClose
  <2>3. ASSUME NEW o \in Servers, o # s PROVE HasPath(o)'
    BY <1>5, <2>3 DEF CloseServer, ServerSet, HasPath, TakenByAnother
  <2>4. HasPath(s)'
    BY <1>5 DEF CloseServer, ServerSet, HasPath, TakenByAnother
  <2>. QED
    BY <2>1, <2>2, <2>3, <2>4
<1>6. ASSUME NEW s \in Servers, RemoveFile(s) PROVE SocketIInv'
  BY <1>6 DEF RemoveFile, ShutByClose, HasPath, TakenByAnother
<1>7. ASSUME RivalServes \/ RivalCloses PROVE SocketIInv'
  <2>1. SocketTypes'
    BY <1>7 DEF RivalServes, RivalCloses
  <2>0. rival'
    <3>1. CASE RivalServes
      BY <3>1, Zenon DEF RivalServes
    <3>2. CASE RivalCloses
      BY <3>2, Zenon DEF RivalCloses
    <3>. QED
      BY <1>7, <3>1, <3>2
  <2>2. ASSUME NEW s \in Servers PROVE ShutByClose(s)'
    BY <1>7 DEF RivalServes, RivalCloses, ShutByClose
  <2>. QED
    BY <2>0, <2>1, <2>2 DEF HasPath, TakenByAnother
<1>8. ASSUME NEW c \in Clients, Request(c) \/ CannotReach(c) \/ Handler(c) \/ CutOff(c)
      PROVE  SocketIInv'
  BY <1>8, MigrationLeavesSocket DEF Request, CannotReach, Handler, CutOff
<1>9. CASE UNCHANGED allVars
  BY <1>9, MigrationLeavesSocket DEF allVars
<1>. QED
  BY <1>1, <1>2, <1>3, <1>4, <1>5, <1>6, <1>7, <1>8, <1>9 DEF SocketNext

-----------------------------------------------------------------------------

\* Once its Close has returned a server accepts nobody, or the Close came before
\* Serve had set ms.server (MigrateSocket.Close).
THEOREM ClosedStops == SocketSpec => []ClosedMeansStopped
<1>1. SocketIInv => ClosedMeansStopped
  BY DEF SocketIInv, SocketTypes, ClosedMeansStopped, Accepting, ShutByClose
<1>. QED
  BY <1>1, SocketInitInv, SocketStepInv, PTL DEF SocketSpec

\* However many processes share a path, one that accepts clients and has lost it
\* lost it to another, or to its own early Close (the os.Remove of Serve and Close).
THEOREM PathIsKept == SocketSpec => []PathLostToAnother
<1>1. SocketIInv => PathLostToAnother
  BY DEF SocketIInv, PathLostToAnother, Accepting, HasPath, TakenByAnother
<1>. QED
  BY <1>1, SocketInitInv, SocketStepInv, PTL DEF SocketSpec

-----------------------------------------------------------------------------
(* The migrations behind the socket.                                        *)

\* A client whose connection is cut, or that finds no server, gives up as one whose
\* statement fails does; everything else is a step of Migrate.
THEOREM SocketSteps == SocketSpec => Steps
<1>1. ASSUME NEW c \in Clients, Request(c) \/ Handler(c) PROVE Step(c)
  <2>1. Begin(c) \/ CreateTables(c) \/ Proceed(c) \/ Fails(c)
    BY <1>1 DEF Request, Handler, Proceed
  <2>. QED
    BY <2>1, NextSteps
<1>2. ASSUME NEW c \in Clients, CannotReach(c) PROVE Step(c)
  BY <1>2 DEF CannotReach, Step, Leaves
<1>3. ASSUME NEW c \in Clients, CutOff(c) PROVE Step(c)
  <2>1. CASE phase[c] \in Reading /\ EndEmpty(c, "failed")
    BY <2>1 DEF Step, Leaves
  <2>2. CASE /\ phase[c] \in Migrating
             /\ UNCHANGED <<db, ran, landed, unacked>> /\ GiveUp(c, phase[c] = "applying")
    <3>1. (phase[c] = "applying") \in BOOLEAN
      OBVIOUS
    <3>2. Breaks(c)
      BY <2>2, <3>1, Zenon DEF Breaks
    <3>. QED
      BY <3>2 DEF Step
  <2>. QED
    BY <1>3, <2>1, <2>2 DEF CutOff
<1>4. SocketNext => (\E c \in Clients : Step(c)) \/ UNCHANGED vars
  <2>1. ASSUME NEW s \in Servers, \/ Listen(s) \/ SetServer(s) \/ AcceptClients(s)
                                 \/ ServeReturns(s) \/ CloseServer(s) \/ RemoveFile(s)
        PROVE  UNCHANGED vars
    BY <2>1 DEF Listen, SetServer, AcceptClients, ServeReturns, CloseServer, RemoveFile
  <2>2. ASSUME RivalServes \/ RivalCloses PROVE UNCHANGED vars
    BY <2>2 DEF RivalServes, RivalCloses
  <2>. QED
    BY <1>1, <1>2, <1>3, <2>1, <2>2 DEF SocketNext
<1>5. [SocketNext]_allVars => [\E c \in Clients : Step(c)]_vars
  BY <1>4 DEF allVars
<1>6. SocketInit => Init
  BY DEF SocketInit
<1>. QED
  BY <1>5, <1>6, PTL DEF SocketSpec, Steps

\* So the socket keeps what the migration promises, although each request may reach
\* another process and a closing server cuts migrations off: summaries are true, a
\* question is asked once, a transactional schema stays whole, and no value goes that
\* a user did not give up.
THEOREM SocketKeepsPromises ==
  SocketSpec => /\ [](SummaryTruthful /\ NeverAsksTwice)
                /\ WholeMigrations /\ NoSilentLoss
BY SocketSteps, SummariesAreTrue, QuestionsAreNew, MigrationsAreWhole, LossIsAgreed, PTL

\* And where the schemas found are recognised and complete in indexes and join tables,
\* success means that all columns are there, and only a migration that was cut off
\* without a transaction leaves indexes or join tables missing.
THEOREM SocketCompletes ==
  Recognised /\ Equipped /\ SocketSpec => [](SuccessHasColumns /\ MissingOnlyWhereCut)
BY SocketSteps, SuccessIsComplete, NothingElseMissing, PTL
=============================================================================
