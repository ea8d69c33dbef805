--------------------------- MODULE EntityProofs ---------------------------
(***************************************************************************)
(* Change tracking on servers that report the key of an INSERT: what TLC   *)
(* checks of EntityTracking on two sessions and two rows, for any number   *)
(* of sessions, rows, columns and values.                                  *)
(***************************************************************************)
EXTENDS EntityTracking, TLAPS

\* The entity of o has the key of the row it stands for, ...
KnownOf(o) == home[o] # None => key[o] = home[o]

\* ... a key that was handed out, and that no row has if it stands for none.
KeyOf(o) ==
  /\ key[o] # None => key[o] \in used
  /\ home[o] = None /\ key[o] # None => db[key[o]] = None /\ saved[key[o]] = None

\* What differs from the original was assigned, and the original is the base
\* where it cannot have been changed in place.
TrackedOf(o) ==
  original[o] # None =>
    /\ \A c \in Col : val[o][c] # original[o][c] => c \in assigned[o]
    /\ \A c \in Col \ Ref : original[o][c] = base[o][c]

\* The entity of o shows row r where the program assigned nothing.
Shows(o, r) == \A c \in Col \ assigned[o] : (val[o][c] = Zero /\ c \in Optional) \/ r[c] = val[o][c]

SyncOf(o) == home[o] # None /\ ~stale[o] /\ View(o)[home[o]] # None => Shows(o, View(o)[home[o]])

Rows == /\ \A k \in Key : db[k] # None \/ saved[k] # None => k \in used
        /\ txOf = None => db = saved

IInv == /\ ReportsKey
        /\ TypeOK
        /\ Rows
        /\ \A o \in Session : KnownOf(o) /\ KeyOf(o)
        /\ \A o \in Session : TrackedOf(o)
        /\ \A o \in Session : SyncOf(o)

-----------------------------------------------------------------------------
(* Types.                                                                  *)

\* The rows an INSERT and an UPDATE leave are rows.
LEMMA InsertedType ==
  ASSUME TypeOK, NEW s \in Session
  PROVE  Inserted(s) \in Values
BY ValAssumption DEF TypeOK, Inserted, Values

\* A row that a Write changes keeps a value in every column.
LEMMA UpdatedType ==
  ASSUME TypeOK, NEW s \in Session
  PROVE  Updated(s) \in [Key -> Values \cup {None}]
<1>. SUFFICES ASSUME NEW k \in Key, db[k] # None
              PROVE  [c \in Col |-> IF c \in Changes(s) THEN val[s][c] ELSE db[k][c]] \in Values
  BY DEF Updated, TypeOK
<1>1. db[k] \in Values /\ val[s] \in Values
  BY DEF TypeOK
<1>. QED
  BY <1>1 DEF Values

\* Every step keeps the types.
LEMMA TypeNext == TypeOK /\ [Next]_vars => TypeOK'
<1>. SUFFICES ASSUME TypeOK, [Next]_vars PROVE TypeOK'
  OBVIOUS
<1>. USE DEF TypeOK, entity, truth
<1>1. ASSUME NEW s \in Session, NEW k \in Key, Load(s, k) PROVE TypeOK'
  <2>1. View(s)[k] \in Values
    BY <1>1 DEF View, Load
  <2>. QED
    BY <1>1, <2>1 DEF Load, Capture
<1>2. ASSUME NEW s \in Session, NEW k \in Key, Create(s, k) PROVE TypeOK'
  BY <1>2, InsertedType DEF Create, Store, KeyAfter, Capture
<1>3. ASSUME NEW s \in Session, NEW k \in Key, CreateRolledBack(s, k) PROVE TypeOK'
  BY <1>3 DEF CreateRolledBack, KeyAfter, Capture
<1>10. ASSUME NEW s \in Session, NEW k \in Key, CreateHalfDone(s, k) PROVE TypeOK'
  BY <1>10, InsertedType DEF CreateHalfDone, Store, KeyAfter
<1>4. ASSUME NEW s \in Session, NEW c \in Col, NEW v \in Val, Assign(s, c, v) PROVE TypeOK'
  <2>1. val' \in [Session -> Values] /\ edits' \in 0..MaxEdits
    BY <1>4, EditsAssumption DEF Assign, Values
  <2>. QED
    BY <1>4, <2>1 DEF Assign
<1>5. ASSUME NEW s \in Session, NEW c \in Col, NEW v \in Val, ChangeInPlace(s, c, v) PROVE TypeOK'
  <2>1. val' \in [Session -> Values] /\ edits' \in 0..MaxEdits
    BY <1>5, EditsAssumption DEF ChangeInPlace, Values
  <2>2. original' \in [Session -> Values \cup {None}]
    BY <1>5 DEF ChangeInPlace, Values
  <2>. QED
    BY <1>5, <2>1, <2>2 DEF ChangeInPlace
<1>6. ASSUME NEW s \in Session, Write(s) PROVE TypeOK'
  BY <1>6, UpdatedType DEF Write, Store, Outdate
<1>7. ASSUME NEW s \in Session, Remove(s) PROVE TypeOK'
  BY <1>7 DEF Remove, Store, Outdate
<1>8. ASSUME NEW s \in Session, BeginTx(s) \/ CommitTx(s) \/ RollbackTx(s) PROVE TypeOK'
  BY <1>8 DEF BeginTx, CommitTx, RollbackTx
<1>9. CASE UNCHANGED vars
  BY <1>9 DEF vars
<1>. QED
  BY <1>1, <1>2, <1>3, <1>4, <1>5, <1>6, <1>7, <1>8, <1>9, <1>10 DEF Next

\* Every reachable state is well typed, whatever the sessions, rows and columns.
THEOREM TypeCorrect == Spec => []TypeOK
<1>1. Init => TypeOK
  BY ValAssumption, EditsAssumption DEF Init, TypeOK, Blank, Values
<1>. QED
  BY <1>1, TypeNext, PTL DEF Spec

-----------------------------------------------------------------------------
(* Rows, keys and what the entities remember.                              *)

\* None is no session and no row.
LEMMA NoneApart == None \notin Session /\ None \notin Key /\ None \notin Values
BY NoneAssumption DEF Values

\* Every step keeps rows under keys that were handed out, and the committed rows
\* apart from the others only while a transaction is open.
LEMMA RowsNext == TypeOK /\ Rows /\ [Next]_vars => Rows'
<1>. SUFFICES ASSUME TypeOK, Rows, [Next]_vars PROVE Rows'
  OBVIOUS
<1>. USE DEF Rows
<1>1. ASSUME NEW s \in Session, NEW k \in Key, Create(s, k) \/ CreateHalfDone(s, k) PROVE Rows'
  BY <1>1, NoneApart DEF Create, CreateHalfDone, Store, MayWrite, TypeOK
<1>2. ASSUME NEW s \in Session, Write(s) PROVE Rows'
  <2>1. \A k \in Key : Updated(s)[k] # None => db[k] # None
    BY DEF Updated
  <2>. QED
    BY <1>2, <2>1, NoneApart DEF Write, Store, MayWrite
<1>3. ASSUME NEW s \in Session, Remove(s) PROVE Rows'
  BY <1>3, NoneApart DEF Remove, Store, MayWrite, TypeOK
<1>4. ASSUME NEW s \in Session, BeginTx(s) \/ CommitTx(s) \/ RollbackTx(s) PROVE Rows'
  BY <1>4, NoneApart DEF BeginTx, CommitTx, RollbackTx
<1>5. ASSUME NEW s \in Session, NEW k \in Key, Load(s, k) \/ CreateRolledBack(s, k) PROVE Rows'
  BY <1>5 DEF Load, CreateRolledBack
<1>6. ASSUME NEW s \in Session, NEW c \in Col, NEW v \in Val, Assign(s, c, v) \/ ChangeInPlace(s, c, v)
      PROVE  Rows'
  BY <1>6 DEF Assign, ChangeInPlace
<1>7. CASE UNCHANGED vars
  BY <1>7 DEF vars
<1>. QED
  BY <1>1, <1>2, <1>3, <1>4, <1>5, <1>6, <1>7 DEF Next

\* Every step keeps each entity with the key of the row it stands for.
LEMMA KeysNext ==
  ASSUME ReportsKey, TypeOK, Rows, \A o \in Session : KnownOf(o) /\ KeyOf(o), [Next]_vars,
         NEW o \in Session
  PROVE  KnownOf(o)' /\ KeyOf(o)'
<1>. USE DEF KnownOf, KeyOf, TypeOK, entity, truth
<1>1. ASSUME NEW s \in Session, NEW k \in Key, Load(s, k) PROVE KnownOf(o)' /\ KeyOf(o)'
  <2>1. db[k] # None \/ saved[k] # None
    BY <1>1 DEF Load, View
  <2>. QED
    BY <1>1, <2>1 DEF Load, Rows
<1>2. ASSUME NEW s \in Session, NEW k \in Key, Create(s, k) \/ CreateHalfDone(s, k)
      PROVE  KnownOf(o)' /\ KeyOf(o)'
  BY <1>2 DEF Create, CreateHalfDone, Store, KeyAfter, Rows
<1>3. ASSUME NEW s \in Session, NEW k \in Key, CreateRolledBack(s, k) PROVE KnownOf(o)' /\ KeyOf(o)'
  BY <1>3 DEF CreateRolledBack, KeyAfter, Rows
<1>4. ASSUME NEW s \in Session, Write(s) PROVE KnownOf(o)' /\ KeyOf(o)'
  <2>1. \A k \in Key : db[k] = None => Updated(s)[k] = None
    BY DEF Updated
  <2>. QED
    BY <1>4, <2>1 DEF Write, Store
<1>5. ASSUME NEW s \in Session, Remove(s) PROVE KnownOf(o)' /\ KeyOf(o)'
  BY <1>5 DEF Remove, Store
<1>6. ASSUME NEW s \in Session, BeginTx(s) \/ CommitTx(s) PROVE KnownOf(o)' /\ KeyOf(o)'
  BY <1>6 DEF BeginTx, CommitTx
<1>7. ASSUME NEW s \in Session, RollbackTx(s) PROVE KnownOf(o)' /\ KeyOf(o)'
  BY <1>7 DEF RollbackTx
<1>8. ASSUME NEW s \in Session, NEW c \in Col, NEW v \in Val, Assign(s, c, v) \/ ChangeInPlace(s, c, v)
      PROVE  KnownOf(o)' /\ KeyOf(o)'
  BY <1>8 DEF Assign, ChangeInPlace
<1>9. CASE UNCHANGED vars
  BY <1>9 DEF vars
<1>. QED
  BY <1>1, <1>2, <1>3, <1>4, <1>5, <1>6, <1>7, <1>8, <1>9 DEF Next

\* Every step keeps the differences from the original within what was assigned.
LEMMA TrackedNext ==
  ASSUME TypeOK, \A o \in Session : TrackedOf(o), [Next]_vars, NEW o \in Session
  PROVE  TrackedOf(o)'
<1>. USE DEF TrackedOf, TypeOK, entity, truth
<1>1. ASSUME NEW s \in Session, NEW k \in Key, Load(s, k) \/ Create(s, k) PROVE TrackedOf(o)'
  BY <1>1 DEF Load, Create, Capture
<1>2. ASSUME NEW s \in Session, NEW c \in Col, NEW v \in Val, Assign(s, c, v) PROVE TrackedOf(o)'
  BY <1>2 DEF Assign, Values
<1>3. ASSUME NEW s \in Session, NEW c \in Col, NEW v \in Val, ChangeInPlace(s, c, v) PROVE TrackedOf(o)'
  BY <1>3 DEF ChangeInPlace, Values
<1>4. ASSUME NEW s \in Session,
             \/ Write(s) \/ Remove(s) \/ BeginTx(s) \/ CommitTx(s) \/ RollbackTx(s)
             \/ \E k \in Key : CreateHalfDone(s, k)
      PROVE  TrackedOf(o)'
  BY <1>4 DEF Write, Remove, BeginTx, CommitTx, RollbackTx, CreateHalfDone
<1>6. ASSUME NEW s \in Session, NEW k \in Key, CreateRolledBack(s, k) PROVE TrackedOf(o)'
  BY <1>6 DEF CreateRolledBack, Capture
<1>5. CASE UNCHANGED vars
  BY <1>5 DEF vars
<1>. QED
  BY <1>1, <1>2, <1>3, <1>4, <1>5, <1>6 DEF Next

-----------------------------------------------------------------------------
(* What an entity shows of its row.                                        *)

\* A step that leaves the entity and what it sees of its row alone.
LEMMA SyncSame ==
  ASSUME NEW o \in Session, SyncOf(o),
         val'[o] = val[o], assigned'[o] = assigned[o],
         home'[o] # None /\ ~stale'[o] /\ View(o)'[home'[o]] # None =>
            /\ home'[o] = home[o] /\ ~stale[o]
            /\ View(o)'[home'[o]] = View(o)[home[o]]
  PROVE  SyncOf(o)'
BY DEF SyncOf, Shows

\* A Write leaves the entity's own columns, and those of no other row.
LEMMA UpdatedRow ==
  ASSUME TypeOK, NEW s \in Session, TrackedOf(s), NEW k \in Key, db[k] # None
  PROVE  /\ Updated(s)[k] \in Values
         /\ k # key[s] => Updated(s)[k] = db[k]
         /\ \A c \in Col \ assigned[s] : Updated(s)[k][c] = db[k][c]
<1>1. db[k] \in Values /\ val[s] \in Values
  BY DEF TypeOK
<1>2. \A c \in Changes(s) : c \in assigned[s]
  BY DEF Changes, TrackedOf
<1>3. CASE k # key[s]
  BY <1>1, <1>3 DEF Updated
<1>4. CASE k = key[s]
  <2>1. Updated(s)[k] = [c \in Col |-> IF c \in Changes(s) THEN val[s][c] ELSE db[k][c]]
    BY <1>4 DEF Updated
  <2>. QED
    BY <1>1, <1>2, <1>4, <2>1 DEF Values
<1>. QED
  BY <1>3, <1>4

\* What a session sees of the rows after a call has stored R.
LEMMA StoredView ==
  ASSUME TypeOK, Rows, NEW s \in Session, NEW o \in Session, NEW R, MayWrite(s), Store(s, R), txOf' = txOf
  PROVE  /\ View(s) = db /\ View(s)' = R
         /\ View(o)' = IF txOf = s /\ o # s THEN View(o) ELSE R
         /\ ~(txOf = s /\ o # s) => View(o) = db
BY NoneApart DEF View, MayWrite, Store, Rows

\* Every step keeps the untouched columns of an entity in step with its row.
LEMMA SyncNext ==
  ASSUME ReportsKey, TypeOK, Rows, \A o \in Session : KnownOf(o) /\ KeyOf(o),
         \A o \in Session : TrackedOf(o), \A o \in Session : SyncOf(o), [Next]_vars,
         NEW o \in Session
  PROVE  SyncOf(o)'
<1>. USE DEF TypeOK, entity, truth
<1>1. ASSUME NEW s \in Session, NEW k \in Key, Load(s, k) PROVE SyncOf(o)'
  <2>1. View(o)' = View(o)
    BY <1>1 DEF Load, View
  <2>2. CASE o = s
    BY <1>1, <2>1, <2>2 DEF Load, Capture, SyncOf, Shows
  <2>3. CASE o # s
    BY <1>1, <2>1, <2>3, SyncSame DEF Load, Capture
  <2>. QED
    BY <2>2, <2>3
<1>2. ASSUME NEW s \in Session, NEW k \in Key, Create(s, k) \/ CreateHalfDone(s, k) PROVE SyncOf(o)'
  <2>. DEFINE R == [db EXCEPT ![k] = Inserted(s)]
  <2>0. MayWrite(s) /\ Store(s, R) /\ txOf' = txOf
    BY <1>2 DEF Create, CreateHalfDone, MayWrite
  <2>3. View(s)' = R /\ View(o)' = IF txOf = s /\ o # s THEN View(o) ELSE R
    BY <2>0, StoredView
  <2>4. ~(txOf = s /\ o # s) => View(o) = db
    BY <2>0, StoredView
  <2>1. CASE o = s
    <3>1. View(s)'[k] = Inserted(s)
      BY <2>3
    <3>. QED
      BY <1>2, <2>1, <3>1 DEF Create, CreateHalfDone, Capture, SyncOf, Shows, Inserted
  <2>2. CASE o # s
    <3>1. home[o] # None => home[o] # k
      BY <1>2 DEF Create, CreateHalfDone, KnownOf, KeyOf
    <3>2. home[o] # None => View(o)'[home[o]] = View(o)[home[o]]
      BY <2>3, <2>4, <3>1
    <3>. QED
      BY <1>2, <2>2, <3>2, SyncSame DEF Create, CreateHalfDone, Capture
  <2>. QED
    BY <2>1, <2>2
<1>3. ASSUME NEW s \in Session, NEW k \in Key, CreateRolledBack(s, k) PROVE SyncOf(o)'
  <2>1. View(o)' = View(o)
    BY <1>3 DEF CreateRolledBack, View
  <2>2. CASE o = s
    BY <1>3, <2>2 DEF CreateRolledBack, SyncOf
  <2>3. CASE o # s
    BY <1>3, <2>1, <2>3, SyncSame DEF CreateRolledBack, Capture
  <2>. QED
    BY <2>2, <2>3
<1>4. ASSUME NEW s \in Session, NEW c \in Col, NEW v \in Val, Assign(s, c, v) \/ ChangeInPlace(s, c, v)
      PROVE  SyncOf(o)'
  <2>1. /\ View(o)' = View(o) /\ home' = home /\ stale' = stale
        /\ assigned' = [assigned EXCEPT ![s] = @ \cup {c}]
        /\ val' = [val EXCEPT ![s][c] = v]
    BY <1>4 DEF Assign, ChangeInPlace, View
  <2>2. CASE o = s
    <3>1. \A d \in Col \ assigned'[o] : d \notin assigned[o] /\ val'[o][d] = val[o][d]
      BY <2>1, <2>2 DEF Values
    <3>. QED
      BY <2>1, <3>1 DEF SyncOf, Shows
  <2>3. CASE o # s
    BY <2>1, <2>3, SyncSame
  <2>. QED
    BY <2>2, <2>3
<1>5. ASSUME NEW s \in Session, Write(s) PROVE SyncOf(o)'
  <2>. SUFFICES ASSUME home[o] # None, ~stale'[o], View(o)'[home[o]] # None
                PROVE  Shows(o, View(o)'[home[o]])
    BY <1>5 DEF Write, SyncOf, Shows
  <2>1. /\ MayWrite(s) /\ Store(s, Updated(s)) /\ txOf' = txOf /\ Outdate(s, key[s])
    BY <1>5 DEF Write
  <2>2. ~stale[o] /\ (o = s \/ home[o] # key[s] \/ txOf = s)
    BY <2>1 DEF Outdate
  <2>3. CASE txOf = s /\ o # s
    BY <2>1, <2>2, <2>3, StoredView DEF SyncOf
  <2>4. CASE ~(txOf = s /\ o # s)
    <3>1. View(o) = db /\ View(o)' = Updated(s)
      BY <2>1, <2>4, StoredView
    <3>2. db[home[o]] # None
      BY <3>1 DEF Updated
    <3>3. Shows(o, db[home[o]])
      BY <2>2, <3>1, <3>2 DEF SyncOf
    <3>4. CASE home[o] # key[s]
      BY <3>1, <3>2, <3>3, <3>4, UpdatedRow
    <3>5. CASE o = s
      <4>1. \A c \in Col \ assigned[o] : Updated(s)[home[o]][c] = db[home[o]][c]
        BY <3>2, <3>5, UpdatedRow
      <4>. QED
        BY <3>1, <3>3, <4>1 DEF Shows
    <3>. QED
      BY <2>2, <2>4, <3>4, <3>5
  <2>. QED
    BY <2>3, <2>4
<1>6. ASSUME NEW s \in Session, Remove(s) PROVE SyncOf(o)'
  <2>. DEFINE R == [db EXCEPT ![key[s]] = None]
  <2>1. /\ MayWrite(s) /\ Store(s, R) /\ txOf' = txOf
        /\ val' = val /\ assigned' = assigned /\ home' = home
    BY <1>6 DEF Remove
  <2>2. ~stale'[o] => ~stale[o]
    BY <1>6 DEF Remove, Outdate
  <2>3. home[o] # None /\ View(o)'[home[o]] # None => View(o)'[home[o]] = View(o)[home[o]]
    <3>1. \A k \in Key : R[k] # None => R[k] = db[k]
      OBVIOUS
    <3>2. View(o)' = IF txOf = s /\ o # s THEN View(o) ELSE R
      BY <2>1, StoredView
    <3>3. ~(txOf = s /\ o # s) => View(o) = db
      BY <2>1, StoredView
    <3>. QED
      BY <3>1, <3>2, <3>3
  <2>. QED
    BY <2>1, <2>2, <2>3, SyncSame
<1>7. ASSUME NEW s \in Session, BeginTx(s) PROVE SyncOf(o)'
  <2>1. View(o)' = View(o)
    BY <1>7 DEF BeginTx, View, Rows
  <2>. QED
    BY <1>7, <2>1, SyncSame DEF BeginTx
<1>8. ASSUME NEW s \in Session, CommitTx(s) PROVE SyncOf(o)'
  <2>1. View(o)' = db
    BY <1>8 DEF CommitTx, View
  <2>2. home[o] # None /\ ~stale'[o] => ~stale[o] /\ View(o)[home[o]] = db[home[o]]
    BY <1>8 DEF CommitTx, View
  <2>. QED
    BY <1>8, <2>1, <2>2, SyncSame DEF CommitTx
<1>9. ASSUME NEW s \in Session, RollbackTx(s) PROVE SyncOf(o)'
  <2>1. CASE o = s
    BY <1>9, <2>1 DEF RollbackTx, SyncOf
  <2>2. CASE o # s
    <3>1. View(o)' = View(o)
      BY <1>9, <2>2 DEF RollbackTx, View
    <3>. QED
      BY <1>9, <2>2, <3>1, SyncSame DEF RollbackTx
  <2>. QED
    BY <2>1, <2>2
<1>10. CASE UNCHANGED vars
  BY <1>10, SyncSame DEF vars, View
<1>. QED
  BY <1>1, <1>2, <1>3, <1>4, <1>5, <1>6, <1>7, <1>8, <1>9, <1>10 DEF Next

-----------------------------------------------------------------------------
(* The theorems.                                                           *)

\* The inductive invariant holds of every reachable state.
THEOREM Invariant == Spec /\ ReportsKey => []IInv
<1>1. Init /\ ReportsKey => IInv
  <2>. SUFFICES ASSUME Init, ReportsKey PROVE IInv
    OBVIOUS
  <2>1. TypeOK
    BY ValAssumption, EditsAssumption DEF Init, TypeOK, Blank, Values
  <2>. QED
    BY <2>1 DEF Init, IInv, Rows, KnownOf, KeyOf, TrackedOf, SyncOf
<1>2. IInv /\ [Next]_vars => IInv'
  BY TypeNext, RowsNext, KeysNext, TrackedNext, SyncNext DEF IInv
<1>. QED
  BY <1>1, <1>2, PTL DEF Spec

\* Where the server reports it, an entity that stands for a row has its key.
THEOREM KeysKnown == Spec /\ ReportsKey => []KeyKnown
<1>1. IInv => KeyKnown
  BY DEF IInv, KeyKnown, KnownOf
<1>. QED
  BY <1>1, Invariant, PTL

\* The columns left alone are in step with the row until another session, or a
\* rollback, changes it.
THEOREM UntouchedStayInSync == Spec /\ ReportsKey => []UntouchedInSync
<1>1. IInv => UntouchedInSync
  BY DEF IInv, UntouchedInSync, SyncOf, Shows
<1>. QED
  BY <1>1, Invariant, PTL

\* A Write changes the entity's own row, in assigned columns only.
THEOREM WritesDoNotClobber == Spec /\ ReportsKey => NoClobber
<1>1. IInv =>
        \A s \in Session : Write(s) =>
          \A k \in Key : db[k] # None =>
            \A c \in Col : db'[k][c] # db[k][c] => k = home[s] /\ c \in assigned[s]
  <2>. SUFFICES ASSUME IInv, NEW s \in Session, Write(s), NEW k \in Key, db[k] # None,
                       NEW c \in Col, db'[k][c] # db[k][c]
                PROVE  k = home[s] /\ c \in assigned[s]
    OBVIOUS
  <2>1. db' = Updated(s)
    BY DEF Write, Store
  <2>2. k = key[s] /\ c \in assigned[s]
    BY <2>1, UpdatedRow DEF IInv
  <2>3. home[s] # None
    BY <2>2, NoneApart DEF IInv, KeyOf
  <2>. QED
    BY <2>2, <2>3 DEF IInv, KnownOf
<1>. QED
  BY <1>1, Invariant, PTL DEF NoClobber

\* A Write carries every assigned value that differs from the base, rolled-back
\* Writes before it or not.
THEOREM WritesCarryAll == Spec /\ ReportsKey => WriteCarriesAll
<1>1. IInv =>
        \A s \in Session :
          Write(s) /\ home[s] # None /\ original[s] # None /\ db[home[s]] # None =>
            \A c \in assigned[s] \ Ref :
              val[s][c] # base[s][c] => db'[home[s]][c] = val[s][c]
  <2>. SUFFICES ASSUME IInv, NEW s \in Session, Write(s), home[s] # None, original[s] # None,
                       db[home[s]] # None, NEW c \in assigned[s] \ Ref, val[s][c] # base[s][c]
                PROVE  db'[home[s]][c] = val[s][c]
    OBVIOUS
  <2>1. c \in Col /\ home[s] \in Key /\ key[s] = home[s]
    BY DEF IInv, TypeOK, KnownOf
  <2>2. original[s][c] = base[s][c]
    BY <2>1 DEF IInv, TrackedOf
  <2>3. c \in Changes(s)
    BY <2>1, <2>2 DEF Changes
  <2>4. db' = Updated(s)
    BY DEF Write, Store
  <2>. QED
    BY <2>1, <2>3, <2>4 DEF Updated
<1>. QED
  BY <1>1, Invariant, PTL DEF WriteCarriesAll

=============================================================================
