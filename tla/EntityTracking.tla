-------------------------- MODULE EntityTracking --------------------------
(***************************************************************************)
(* Change tracking: entities in the memory of several sessions against the *)
(* rows they stand for.  An entity remembers the values it was scanned or  *)
(* created with (Model.original); Write diffs it against them and updates  *)
(* the columns that differ, by primary key.  Each call is a transaction of *)
(* its own or part of one the session opened, and a rollback undoes rows   *)
(* only, never what a call did to the entity.                              *)
(*                                                                         *)
(* Columns in Ref are of a reference type (a JSON map): capturing one      *)
(* captures the reference, which the entity shares until it is assigned a  *)
(* new value.  Columns in Optional are nullable: Create leaves a zero out  *)
(* of the INSERT and the column takes its default.                         *)
(***************************************************************************)
EXTENDS Integers

CONSTANTS
  Session,     \* each holds one entity
  Key,         \* the primary keys the server hands out, never one twice
  Col, Ref, Optional,
  Val, Zero,   \* column values, and Go's zero value
  Default,     \* the default of the optional columns
  None,        \* no key, no row, no original, no session
  MaxEdits,    \* bound: how often the program changes a field
  ReportsKey   \* TRUE: Exec's result has LastInsertId (not PostgreSQL's)

ASSUME ColAssumption == Ref \subseteq Col /\ Optional \subseteq Col
ASSUME ValAssumption == Zero \in Val /\ Default \in Val
ASSUME NoneAssumption == None \notin Key \cup Session \cup [Col -> Val]
ASSUME EditsAssumption == MaxEdits \in Nat
ASSUME ReportsAssumption == ReportsKey \in BOOLEAN

VARIABLES
  db,        \* the rows, as the open transaction sees them
  saved,     \* the committed rows
  txOf,      \* the session with a transaction open, or None
  used,      \* the keys handed out
  edits,     \* the changes of fields so far
  key,       \* the entity's primary key field; None is Go's 0
  val,       \* the entity's columns
  original,  \* Model.original; None before any InitTracking
  alias,     \* the reference columns the entity shares with its original
  \* What really happened, for the properties.
  home,      \* the row the entity was loaded from or created as
  base,      \* the values it had then
  assigned,  \* the columns the program assigned since
  stale      \* another session, or a rollback, changed the row since

entity == <<key, val, original, alias>>
truth  == <<home, base, assigned, stale>>
vars   == <<db, saved, txOf, used, edits, key, val, original, alias, home, base, assigned, stale>>

Values == [Col -> Val]

TypeOK ==
  /\ db       \in [Key -> Values \cup {None}]
  /\ saved    \in [Key -> Values \cup {None}]
  /\ txOf     \in Session \cup {None}
  /\ used     \in SUBSET Key
  /\ edits    \in 0 .. MaxEdits
  /\ key      \in [Session -> Key \cup {None}]
  /\ val      \in [Session -> Values]
  /\ original \in [Session -> Values \cup {None}]
  /\ alias    \in [Session -> SUBSET Ref]
  /\ home     \in [Session -> Key \cup {None}]
  /\ base     \in [Session -> Values]
  /\ assigned \in [Session -> SUBSET Col]
  /\ stale    \in [Session -> BOOLEAN]

Blank == [c \in Col |-> Zero]

Init ==
  /\ db       = [k \in Key |-> None]
  /\ saved    = db
  /\ txOf     = None
  /\ used     = {}
  /\ edits    = 0
  /\ key      = [s \in Session |-> None]
  /\ val      = [s \in Session |-> Blank]
  /\ original = [s \in Session |-> None]
  /\ alias    = [s \in Session |-> {}]
  /\ home     = [s \in Session |-> None]
  /\ base     = [s \in Session |-> Blank]
  /\ assigned = [s \in Session |-> {}]
  /\ stale    = [s \in Session |-> FALSE]

-----------------------------------------------------------------------------

\* Rows as a session sees them: its own transaction's, or the committed ones.
View(s) == IF txOf = s THEN db ELSE saved

\* A session writes in its transaction, or in one of its own; it waits while
\* another session has one open.
MayWrite(s) == txOf \in {None, s}

\* The rows are now R, which a call of s outside a transaction commits.
Store(s, R) == /\ db' = R
               /\ saved' = IF txOf = s THEN saved ELSE R

\* The other entities of row k no longer show it.
Outdate(s, k) ==
  stale' = [o \in Session |-> stale[o] \/ (o # s /\ home[o] = k /\ txOf # s)]

\* InitTracking.
Capture(s, values) ==
  /\ original' = [original EXCEPT ![s] = values]
  /\ alias'    = [alias EXCEPT ![s] = Ref]
  /\ base'     = [base EXCEPT ![s] = values]
  /\ assigned' = [assigned EXCEPT ![s] = {}]

\* A row is scanned into a new entity.
Load(s, k) ==
  /\ View(s)[k] # None
  /\ key' = [key EXCEPT ![s] = k]
  /\ val' = [val EXCEPT ![s] = View(s)[k]]
  /\ Capture(s, View(s)[k])
  /\ home'  = [home EXCEPT ![s] = k]
  /\ stale' = [stale EXCEPT ![s] = FALSE]
  /\ UNCHANGED <<db, saved, txOf, used, edits>>

\* The program assigns a field ...
Assign(s, c, v) ==
  /\ v # val[s][c] /\ edits < MaxEdits
  /\ edits'    = edits + 1
  /\ val'      = [val EXCEPT ![s][c] = v]
  /\ alias'    = [alias EXCEPT ![s] = @ \ {c}]
  /\ assigned' = [assigned EXCEPT ![s] = @ \cup {c}]
  /\ UNCHANGED <<db, saved, txOf, used, key, original, home, base, stale>>

\* ... or changes a map in place, and with it the original that shares it.
ChangeInPlace(s, c, v) ==
  /\ c \in Ref /\ v # val[s][c] /\ edits < MaxEdits
  /\ edits'    = edits + 1
  /\ val'      = [val EXCEPT ![s][c] = v]
  /\ original' = IF original[s] # None /\ c \in alias[s]
                 THEN [original EXCEPT ![s][c] = v] ELSE original
  /\ assigned' = [assigned EXCEPT ![s] = @ \cup {c}]
  /\ UNCHANGED <<db, saved, txOf, used, key, alias, home, base, stale>>

\* EntityCreate: the columns of the INSERT, and the defaults of the others.
Inserted(s) ==
  [c \in Col |-> IF c \in Optional /\ val[s][c] = Zero THEN Default ELSE val[s][c]]

\* Variation: a key that was set is kept.
KeyKept(s, k) == [key EXCEPT ![s] = IF ReportsKey /\ @ = None THEN k ELSE @]

\* Variation: the number of rows instead of the key.
RowsForKey(s, k) == [key EXCEPT ![s] = IF ReportsKey THEN 1 ELSE @]

\* The key field after an INSERT that generated k.
KeyAfter(s, k) == [key EXCEPT ![s] = IF ReportsKey THEN k ELSE @]

Create(s, k) ==
  /\ MayWrite(s) /\ k \notin used
  /\ used' = used \cup {k}
  /\ Store(s, [db EXCEPT ![k] = Inserted(s)])
  /\ key'  = KeyAfter(s, k)
  /\ Capture(s, val[s])
  /\ home'  = [home EXCEPT ![s] = k]
  /\ stale' = [stale EXCEPT ![s] = FALSE]
  /\ UNCHANGED <<txOf, edits, val>>

\* The INSERT succeeds, and linking the relations or creating a later entity of
\* the call fails: the rows are rolled back; the key, and in the second case the
\* tracking, stay on the entity.
CreateRolledBack(s, k) ==
  /\ txOf = None /\ k \notin used
  /\ used' = used \cup {k}
  /\ key'  = KeyAfter(s, k)
  /\ Capture(s, val[s]) \/ UNCHANGED <<original, alias, base, assigned>>
  /\ home' = [home EXCEPT ![s] = None]
  /\ UNCHANGED <<db, saved, txOf, edits, val, stale>>

\* The relations fail in a transaction of the user's, who may yet commit it: the
\* row stays, the entity is not tracked as the one created.
CreateHalfDone(s, k) ==
  /\ txOf = s /\ k \notin used
  /\ used' = used \cup {k}
  /\ Store(s, [db EXCEPT ![k] = Inserted(s)])
  /\ key'   = KeyAfter(s, k)
  /\ home'  = [home EXCEPT ![s] = k]
  /\ stale' = [stale EXCEPT ![s] = FALSE]
  /\ UNCHANGED <<txOf, edits, val, original, alias, base, assigned>>

\* Variation: every column of the entity.
AllColumns(s) == IF original[s] = None THEN {} ELSE Col

\* GetChanges: nothing for an entity that was never tracked.
Changes(s) == IF original[s] = None THEN {}
              ELSE {c \in Col : val[s][c] # original[s][c]}

\* Variation: the UPDATE lacks its WHERE.
UpdatedEverywhere(s) ==
  [k \in Key |-> IF db[k] = None THEN None
                 ELSE [c \in Col |-> IF c \in Changes(s) THEN val[s][c] ELSE db[k][c]]]

\* EntityWrite: UPDATE ... SET the changes WHERE pk = the entity's key.
Updated(s) ==
  [k \in Key |-> IF k # key[s] \/ db[k] = None THEN db[k]
                 ELSE [c \in Col |-> IF c \in Changes(s) THEN val[s][c] ELSE db[k][c]]]

\* Variation: Write takes the values written for the new original.
WriteRecapturing(s) ==
  /\ MayWrite(s)
  /\ Store(s, Updated(s))
  /\ Outdate(s, key[s])
  /\ original' = IF original[s] = None THEN original ELSE [original EXCEPT ![s] = val[s]]
  /\ UNCHANGED <<txOf, used, edits, key, val, alias, home, base, assigned>>

\* Write; ClearChanges leaves the original as it is.
Write(s) ==
  /\ MayWrite(s)
  /\ Store(s, Updated(s))
  /\ Outdate(s, key[s])
  /\ UNCHANGED <<txOf, used, edits, entity, home, base, assigned>>

Remove(s) ==
  /\ MayWrite(s) /\ key[s] # None
  /\ Store(s, [db EXCEPT ![key[s]] = None])
  /\ Outdate(s, key[s])
  /\ UNCHANGED <<txOf, used, edits, entity, home, base, assigned>>

\* The transaction a user opens around several calls.
BeginTx(s) ==
  /\ txOf = None
  /\ txOf' = s
  /\ UNCHANGED <<db, saved, used, edits, entity, truth>>

CommitTx(s) ==
  /\ txOf = s
  /\ saved' = db
  /\ txOf'  = None
  /\ stale' = [o \in Session |->
                 stale[o] \/ (o # s /\ home[o] # None /\ db[home[o]] # saved[home[o]])]
  /\ UNCHANGED <<db, used, edits, entity, home, base, assigned>>

RollbackTx(s) ==
  /\ txOf = s
  /\ db'    = saved
  /\ txOf'  = None
  /\ stale' = [stale EXCEPT ![s] = TRUE]
  /\ home'  = [home EXCEPT ![s] = IF @ # None /\ saved[@] = None THEN None ELSE @]
  /\ UNCHANGED <<saved, used, edits, entity, base, assigned>>

Next == \E s \in Session :
  \/ \E k \in Key : Load(s, k) \/ Create(s, k) \/ CreateRolledBack(s, k) \/ CreateHalfDone(s, k)
  \/ \E c \in Col, v \in Val : Assign(s, c, v) \/ ChangeInPlace(s, c, v)
  \/ Write(s) \/ Remove(s)
  \/ BeginTx(s) \/ CommitTx(s) \/ RollbackTx(s)

Spec == Init /\ [][Next]_vars

-----------------------------------------------------------------------------
(* Properties.                                                             *)

\* An entity that stands for a row carries its key, through loads, creates and
\* rollbacks (docs/struct-calls.md:29: "On PostgreSQL the key comes back with
\* `INSERT … RETURNING`; elsewhere via `LastInsertId`").
KeyKnown == \A s \in Session : home[s] # None => key[s] = home[s]

\* A column the program left alone shows what the row holds, unless another
\* session or a rollback has changed the row since.  A zero of an optional column
\* is the exception: Create stored the default in its place.
UntouchedInSync ==
  \A s \in Session :
    home[s] # None /\ ~stale[s] /\ View(s)[home[s]] # None =>
      \A c \in Col \ assigned[s] :
        (val[s][c] = Zero /\ c \in Optional) \/ View(s)[home[s]][c] = val[s][c]

\* A Write changes no row but the entity's own, whose key a rolled-back Create may
\* have left on it, and no column the program did not assign: two sessions that
\* edit different columns of a row do not undo each other.
NoClobber ==
  [][\A s \in Session : Write(s) =>
       \A k \in Key : db[k] # None =>
         \A c \in Col : db'[k][c] # db[k][c] => k = home[s] /\ c \in assigned[s]]_vars

\* A Write leaves the row with every assigned value that differs from the one
\* first loaded, also when an earlier Write of it was rolled back: tracking is not
\* reset by a Write whose transaction may yet fail.  Changes in place are excepted.
WriteCarriesAll ==
  [][\A s \in Session :
       Write(s) /\ home[s] # None /\ original[s] # None /\ db[home[s]] # None =>
         \A c \in assigned[s] \ Ref :
           val[s][c] # base[s][c] => db'[home[s]][c] = val[s][c]]_vars

\* docs/struct-calls.md:96, of Write: "Persists only what changed" - after it the
\* row holds what the program assigned.
WritePersists ==
  [][\A s \in Session :
       Write(s) /\ home[s] # None /\ original[s] # None /\ db[home[s]] # None =>
         \A c \in assigned[s] \ Ref : db'[home[s]][c] = val[s][c]]_vars

=============================================================================
