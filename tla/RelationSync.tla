---------------------------- MODULE RelationSync ----------------------------
(***************************************************************************)
(* Relations in memory and in the database: the two reads of a preload     *)
(* (src/preload.go) and the statements by which Create, Write and an       *)
(* assigning Update bring a relation to the listed rows (src/engine.go).   *)
(* Several sessions work on the same rows; each statement sees what is     *)
(* committed and its own transaction's changes, and waits for a row that   *)
(* another transaction has changed.                                        *)
(*                                                                         *)
(* The models have one relation field, of the kind `kind': to many rows    *)
(* through a foreign key that is nullable ("O2M") or not ("O2M NOT NULL"), *)
(* through a join table ("M2M"), or to one row ("M2O").  A field is Nil,   *)
(* or the set of the rows it lists.                                        *)
(***************************************************************************)
EXTENDS Integers, Sequences, FiniteSets, SequencesExt

CONSTANTS
  Sessions, Parents, Targets,
  Kinds,       \* the kinds of relation under study
  Nil,         \* a relation field with nothing in it
  Absent,      \* an entity the session has not loaded
  MaxReads,    \* bound: [Sessions -> Nat], the reads before a session's one change
  MaxRows,     \* bound: [Sessions -> Nat], the rows one of its calls is about
  MaxTroubles  \* bound: targets that go and statements that fail by themselves

ASSUME SyncAssumption ==
  /\ Kinds \subseteq {"O2M", "O2M NOT NULL", "M2M", "M2O"}
  /\ IsFiniteSet(Parents) /\ IsFiniteSet(Targets)
  /\ Nil # Absent /\ \A F \in SUBSET Targets : F # Nil /\ F # Absent
  /\ Nil \notin Sessions
  /\ MaxReads \in [Sessions -> Nat] /\ MaxRows \in [Sessions -> Nat] /\ MaxTroubles \in Nat

VARIABLES
  kind,           \* the relation under study
  born, live,     \* the parents and the targets that have rows
  links,          \* the committed links
  field,          \* the relation field of each session's entities
  at,             \* where the session stands
  batch, asked,   \* the rows being preloaded, and the links its first read found
  jobs, rest,     \* parents still to bring in line, statements left for the first
  call,           \* the operation under way
  gone, new,      \* links its transaction removed and added
  locked,         \* the rows its transaction has changed
  reads, faults,
  \* What really happened, for the properties.
  always, ever,   \* pairs linked at every, at some moment since the preload's first read
  loadedAs,       \* the fields as the preload left them
  moved,          \* pairs whose link changed since the preload
  since,          \* pairs others changed since the call looked at them
  missed          \* links a read that broke off did not deliver

server == <<kind, born, live, links>>
mine   == <<field, batch, asked, loadedAs>>
work   == <<jobs, rest, call, gone, new, locked, missed>>
truth  == <<always, ever, moved, since>>
vars   == <<server, mine, at, work, reads, faults, truth>>

Trouble == faults + Cardinality(Targets \ live) < MaxTroubles
ToMany == kind # "M2O"
ByKey  == kind \in {"O2M", "O2M NOT NULL"}
Pairs  == Parents \X Targets
Of(L, p) == {t \in Targets : <<p, t>> \in L}
Unloaded == [p \in Parents |-> Absent]
Fields == {Absent, Nil} \cup SUBSET Targets

\* The row that records a link: the child's, the parent's, or the join row.
RowOf(p, t) == CASE ByKey -> <<t, t>> [] kind = "M2M" -> <<p, t>> [] OTHER -> <<p, p>>

TypeOK ==
  /\ kind \in Kinds
  /\ born \in SUBSET Parents /\ live \in SUBSET Targets
  /\ links \in SUBSET Pairs
  /\ field \in [Sessions -> [Parents -> Fields]]
  /\ at \in [Sessions -> {"idle", "preload", "read", "statements", "done", "end"}]
  /\ batch \in [Sessions -> SUBSET Parents] /\ asked \in [Sessions -> SUBSET Pairs]
  /\ \A s \in Sessions :
       /\ \A i \in DOMAIN jobs[s] : jobs[s][i] \in [parent : Parents, listed : SUBSET Targets]
       /\ rest[s] \in SUBSET [op : {"unlink", "link"}, target : Targets]
       /\ gone[s] \cap new[s] = {}
  /\ gone \in [Sessions -> SUBSET Pairs] /\ new \in [Sessions -> SUBSET Pairs]
  /\ ByKey => \A p, q \in Parents : p = q \/ Of(links, p) \cap Of(links, q) = {}
  /\ kind = "O2M NOT NULL" => \A t \in live : \E p \in Parents : <<p, t>> \in links
  /\ \A s, o \in Sessions : s = o \/ locked[s] \cap locked[o] = {}

NoCall == [op |-> "none", jobs |-> << >>, asLoaded |-> FALSE]

Init ==
  /\ kind \in Kinds
  /\ born \in SUBSET Parents \ {{}} /\ live = Targets
  /\ links \in SUBSET (born \X Targets)
  /\ ByKey => \A t \in Targets : Cardinality({p \in born : <<p, t>> \in links}) <= 1
  /\ kind = "O2M NOT NULL" => \A t \in Targets : \E p \in born : <<p, t>> \in links
  /\ kind = "M2O" => \A p \in born : Cardinality(Of(links, p)) <= 1
  /\ field = [s \in Sessions |-> Unloaded]
  /\ loadedAs = field
  /\ at = [s \in Sessions |-> "idle"]
  /\ batch = [s \in Sessions |-> {}]
  /\ asked = batch /\ rest = batch /\ gone = batch /\ new = batch /\ locked = batch
  /\ missed = batch /\ always = batch /\ ever = batch /\ moved = batch /\ since = batch
  /\ jobs = [s \in Sessions |-> << >>]
  /\ call = [s \in Sessions |-> NoCall]
  /\ reads = [s \in Sessions |-> 0] /\ faults = 0

-----------------------------------------------------------------------------
\* Reading.

\* What a statement of s reads: the committed links and its own changes.
View(s) == (links \ gone[s]) \cup new[s]

\* A call that reads entities.
Reads(s) == /\ at[s] = "idle" /\ reads[s] < MaxReads[s]
            /\ reads' = [reads EXCEPT ![s] = @ + 1]

\* Search without a preload: the scanner leaves relation fields nil.
Search(s, P) ==
  /\ Reads(s)
  /\ field' = [field EXCEPT ![s] = [p \in Parents |-> IF p \in P THEN Nil ELSE Absent]]
  /\ loadedAs' = [loadedAs EXCEPT ![s] = field'[s]]
  /\ moved' = [moved EXCEPT ![s] = {}]
  /\ UNCHANGED <<server, at, batch, asked, work, faults, always, ever, since>>

\* The first read of a preload, of keys only: the key pairs, or the join rows.
Asked(P) == links \cap (P \X Targets)

Preload(s, P) ==
  /\ Reads(s)
  /\ batch' = [batch EXCEPT ![s] = P]
  /\ asked' = [asked EXCEPT ![s] = Asked(P)]
  /\ always' = [always EXCEPT ![s] = asked'[s]]
  /\ ever' = [ever EXCEPT ![s] = asked'[s]]
  /\ moved' = [moved EXCEPT ![s] = {}]
  /\ at' = [at EXCEPT ![s] = "preload"]
  /\ UNCHANGED <<server, field, loadedAs, work, faults, since>>

\* One row's field, from the pairs read first and the targets loaded then: the
\* children grouped by parent, the join rows looked up among the loaded targets,
\* or the one parent, which leaves the field nil when it has gone.
preloadO2M(pairs, loaded, p) == {t \in loaded : <<p, t>> \in pairs}
preloadM2M(pairs, loaded, p) == Of(pairs, p) \cap loaded
preloadM2O(pairs, loaded, p) ==
  IF Of(pairs, p) \cap loaded = {} THEN Nil ELSE Of(pairs, p) \cap loaded

\* Variation: the targets of the whole batch.
AssignedUngrouped(pairs, loaded, p) ==
  IF pairs = {} THEN Nil ELSE {t \in loaded : \E q \in Parents : <<q, t>> \in pairs}

\* No key to load: the rows are left as they were scanned.
Assigned(pairs, loaded, p) ==
  IF pairs = {} THEN Nil
  ELSE CASE kind = "M2M" -> preloadM2M(pairs, loaded, p)
         [] kind = "M2O" -> preloadM2O(pairs, loaded, p)
         [] OTHER        -> preloadO2M(pairs, loaded, p)

\* The second read, of the targets, and the fields.
Preloaded(s) ==
  /\ at[s] = "preload"
  /\ field' = [field EXCEPT ![s] = [p \in Parents |->
       IF p \in batch[s] THEN Assigned(asked[s], live, p) ELSE Absent]]
  /\ loadedAs' = [loadedAs EXCEPT ![s] = field'[s]]
  /\ batch' = [batch EXCEPT ![s] = {}]
  /\ asked' = [asked EXCEPT ![s] = {}]
  /\ always' = [always EXCEPT ![s] = {}]
  /\ ever' = [ever EXCEPT ![s] = {}]
  /\ at' = [at EXCEPT ![s] = "idle"]
  /\ UNCHANGED <<server, work, reads, faults, moved, since>>

\* Either read fails, and the call returns no entities.
PreloadFails(s) ==
  /\ at[s] = "preload" /\ Trouble
  /\ faults' = faults + 1
  /\ batch' = [batch EXCEPT ![s] = {}]
  /\ asked' = [asked EXCEPT ![s] = {}]
  /\ always' = [always EXCEPT ![s] = {}]
  /\ ever' = [ever EXCEPT ![s] = {}]
  /\ field' = [field EXCEPT ![s] = Unloaded]
  /\ loadedAs' = [loadedAs EXCEPT ![s] = Unloaded]
  /\ at' = [at EXCEPT ![s] = "idle"]
  /\ UNCHANGED <<server, work, reads, moved, since>>

\* The program gives an entity it has another list.
Assign(s, p, listed) ==
  /\ at[s] = "idle" /\ field[s][p] \notin {Absent, listed} /\ field[s] = loadedAs[s]
  /\ field' = [field EXCEPT ![s][p] = listed]
  /\ UNCHANGED <<server, batch, asked, loadedAs, at, work, reads, faults, truth>>

-----------------------------------------------------------------------------
\* Writing: every call is a transaction, a list of parents to bring in line.

Orders(W) == {o \in [1 .. Cardinality(W) -> W] : \A i, j \in DOMAIN o : o[i] = o[j] => i = j}

\* The one call by which s changes links; its entities are not needed after it.
Opens(s, op, list, asLoaded) ==
  /\ at[s] = "idle"
  /\ jobs' = [jobs EXCEPT ![s] = list]
  /\ call' = [call EXCEPT ![s] = [op |-> op, jobs |-> list, asLoaded |-> asLoaded]]
  /\ at' = [at EXCEPT ![s] = "read"]
  /\ field' = [field EXCEPT ![s] = Unloaded] /\ loadedAs' = [loadedAs EXCEPT ![s] = Unloaded]
  /\ moved' = IF asLoaded THEN moved ELSE [moved EXCEPT ![s] = {}]
  /\ UNCHANGED <<server, batch, asked, rest, gone, new, locked, missed, reads, faults, always, ever, since>>

\* Write: a nil field is left alone, any other is brought to what it lists.
Write(s) ==
  /\ ToMany
  /\ \E o \in Orders({p \in Parents : field[s][p] \notin {Absent, Nil}}) :
       o # << >> /\ Opens(s, "write", [i \in DOMAIN o |-> [parent |-> o[i], listed |-> field[s][o[i]]]],
                          field[s] = loadedAs[s])

\* Write of an entity whose many2one field is not nil: the field has changed
\* since InitTracking saw it nil, and EntityWrite binds the entity itself,
\* which no driver takes.
WriteRefused(s) ==
  /\ ~ToMany /\ at[s] = "idle" /\ \E p \in Parents : field[s][p] \notin {Absent, Nil}
  /\ at' = [at EXCEPT ![s] = "end"]
  /\ UNCHANGED <<server, mine, work, reads, faults, truth>>

\* Create: the row is inserted, then linked.
Create(s, p, listed) ==
  /\ p \notin born /\ \A o \in Sessions : call[o].op # "create"
  /\ ~ToMany => Cardinality(listed) = 1
  /\ Opens(s, "create", <<[parent |-> p, listed |-> listed]>>, FALSE)

\* An Update that assigns the relation, after SelectPKsWhere found the rows.
Update(s, P, listed) ==
  /\ ToMany
  /\ \E o \in Orders(P) :
       Opens(s, "update", [i \in DOMAIN o |-> [parent |-> o[i], listed |-> listed]], FALSE)

Job(s) == Head(jobs[s])
Diffs(s) == kind = "M2M" /\ call[s].op # "create"

\* The call has looked at the links of its first parent: what others changed
\* before is in its view.
Looks(s) == since' = [since EXCEPT ![s] = {pair \in @ : pair[1] # Job(s).parent}]

\* Variation: only links are added.
StatementsAdding(existing, listed) == [op : {"link"}, target : listed \ existing]

Statements(existing, listed) ==
  [op : {"unlink"}, target : existing \ listed] \cup [op : {"link"}, target : listed \ existing]

\* JoinSelect reads the links of a many2many to diff them with the list.  Its
\* loop ends at an error of the rows as at their end, and nobody asks which.
ReadLinks(s) ==
  /\ at[s] = "read"
  /\ LET linked == Of(View(s), Job(s).parent) IN
       \E unread \in IF Diffs(s) /\ Trouble THEN SUBSET linked ELSE {{}} :
         /\ faults' = IF unread = {} THEN faults ELSE faults + 1
         /\ rest' = [rest EXCEPT ![s] = Statements(IF Diffs(s) THEN linked \ unread ELSE {}, Job(s).listed)]
         /\ missed' = [missed EXCEPT ![s] = @ \cup ({Job(s).parent} \X unread)]
  /\ at' = [at EXCEPT ![s] = "statements"]
  /\ IF Diffs(s) THEN Looks(s) ELSE UNCHANGED since
  /\ UNCHANGED <<server, mine, jobs, call, gone, new, locked, reads, always, ever, moved>>

Free(s, row) == \A o \in Sessions \ {s} : row \notin locked[o]

\* The transaction of s now has no link of R, and has those of A.
Changes(s, R, A) ==
  /\ gone' = [gone EXCEPT ![s] = (@ \cup R) \ A]
  /\ new' = [new EXCEPT ![s] = (@ \ R) \cup A]
  /\ locked' = [locked EXCEPT ![s] = @ \cup {RowOf(pair[1], pair[2]) : pair \in R \cup A}]

\* JoinDelete.
Unlink(s, t) ==
  LET p == Job(s).parent IN
  /\ at[s] = "statements" /\ [op |-> "unlink", target |-> t] \in rest[s]
  /\ Free(s, RowOf(p, t))
  /\ Changes(s, {<<p, t>>} \cap View(s), {})
  /\ rest' = [rest EXCEPT ![s] = @ \ {[op |-> "unlink", target |-> t]}]
  /\ UNCHANGED <<server, mine, at, jobs, call, missed, reads, faults, truth>>

\* JoinInsert, which skips a link that is there, or O2MUpdate, which takes the
\* child from any other parent and finds no row when it has gone.  A link to a
\* target that has gone is skipped (MySQL), refused (ServerRefuses), or kept by
\* a server that does not enforce foreign keys (SQLite as goql opens it).
Link(s, t) ==
  LET p == Job(s).parent
      taken == {pair \in View(s) : ByKey /\ pair[2] = t /\ pair[1] # p}
  IN
  /\ at[s] = "statements" /\ [op |-> "link", target |-> t] \in rest[s]
  /\ \A e \in rest[s] : e.op = "link"
  /\ Free(s, RowOf(p, t))
  /\ \/ (t \in live \/ ~ByKey) /\ Changes(s, taken, {<<p, t>>})
     \/ t \notin live /\ ToMany /\ UNCHANGED <<gone, new, locked>>
  /\ rest' = [rest EXCEPT ![s] = @ \ {[op |-> "link", target |-> t]}]
  /\ UNCHANGED <<server, mine, at, jobs, call, missed, reads, faults, truth>>

\* The first parent is done.
Advance(s) ==
  /\ jobs' = [jobs EXCEPT ![s] = Tail(@)]
  /\ at' = [at EXCEPT ![s] = IF Len(jobs[s]) = 1 THEN "done" ELSE "read"]

Settles(s) == ByKey /\ call[s].op # "create"

JobDone(s) ==
  /\ at[s] = "statements" /\ rest[s] = {} /\ ~Settles(s)
  /\ Advance(s)
  /\ UNCHANGED <<server, mine, rest, call, gone, new, locked, missed, reads, faults, truth>>

\* Variation: the listed children are not excepted.
StaleAndKept(s) == {<<Job(s).parent, t>> : t \in Of(View(s), Job(s).parent)}

Stale(s) == {<<Job(s).parent, t>> : t \in Of(View(s), Job(s).parent) \ Job(s).listed}

\* syncO2M, second half: the children not listed lose their parent.
Disassociate(s) ==
  /\ at[s] = "statements" /\ rest[s] = {} /\ Settles(s) /\ kind = "O2M"
  /\ \A pair \in Stale(s) : Free(s, RowOf(pair[1], pair[2]))
  /\ Changes(s, Stale(s), {})
  /\ Looks(s) /\ Advance(s)
  /\ UNCHANGED <<server, mine, rest, call, missed, reads, faults, always, ever, moved>>

\* Variation: the key is cleared all the same.
NoneStaleUnchecked(s) ==
  /\ at[s] = "statements" /\ rest[s] = {} /\ Settles(s) /\ kind = "O2M NOT NULL"
  /\ Changes(s, Stale(s), {})
  /\ Looks(s) /\ Advance(s)
  /\ UNCHANGED <<server, mine, rest, call, missed, reads, faults, always, ever, moved>>

\* Where the key cannot be cleared, there must be none (O2MStale).
NoneStale(s) ==
  /\ at[s] = "statements" /\ rest[s] = {} /\ Settles(s) /\ kind = "O2M NOT NULL"
  /\ Stale(s) = {}
  /\ Looks(s) /\ Advance(s)
  /\ UNCHANGED <<server, mine, rest, call, gone, new, locked, missed, reads, faults, always, ever, moved>>

\* The call returns; its transaction is over.
Returns(s) ==
  /\ at' = [at EXCEPT ![s] = "end"]
  /\ jobs' = [jobs EXCEPT ![s] = << >>]
  /\ call' = [call EXCEPT ![s] = NoCall]
  /\ rest' = [rest EXCEPT ![s] = {}] /\ missed' = [missed EXCEPT ![s] = {}]
  /\ gone' = [gone EXCEPT ![s] = {}] /\ new' = [new EXCEPT ![s] = {}]
  /\ locked' = [locked EXCEPT ![s] = {}]

InCall(s, p) == \E i \in DOMAIN call[s].jobs : call[s].jobs[i].parent = p

\* The committed links become L, by a step of session s, or of no session.
Becomes(L, s) ==
  LET changed == (links \ L) \cup (L \ links) IN
  /\ links' = L
  /\ always' = [o \in Sessions |-> always[o] \cap L]
  /\ ever' = [o \in Sessions |-> IF at[o] = "preload" THEN ever[o] \cup (L \cap (batch[o] \X Targets)) ELSE {}]
  /\ moved' = [o \in Sessions |-> IF o = s THEN {} ELSE moved[o] \cup
       {pair \in changed : \/ field[o][pair[1]] # Absent \/ pair[1] \in batch[o]
                          \/ (call[o].asLoaded /\ InCall(o, pair[1]))}]
  /\ since' = [o \in Sessions |-> IF o = s THEN {} ELSE since[o] \cup
       {pair \in changed : InCall(o, pair[1])}]

Commit(s) ==
  /\ at[s] = "done"
  /\ Becomes(View(s), s)
  /\ born' = born \cup {call[s].jobs[i].parent : i \in DOMAIN call[s].jobs}
  /\ Returns(s)
  /\ UNCHANGED <<kind, live, mine, reads, faults>>

Writing(s) == at[s] \in {"read", "statements", "done"}
RollsBack(s) ==
  /\ Returns(s)
  /\ since' = [since EXCEPT ![s] = {}] /\ moved' = [moved EXCEPT ![s] = {}]
  /\ UNCHANGED <<server, mine, reads, always, ever>>

\* ErrRelationConstraint: the foreign key of a child left out cannot be cleared.
ConstraintFails(s) ==
  /\ at[s] = "statements" /\ rest[s] = {} /\ Settles(s) /\ kind = "O2M NOT NULL"
  /\ Stale(s) # {}
  /\ RollsBack(s) /\ UNCHANGED faults

\* A statement or the commit fails.
StatementFails(s) ==
  /\ Writing(s) /\ Trouble
  /\ faults' = faults + 1
  /\ RollsBack(s)

\* The server gives up a statement that waits for another session's row, or
\* refuses a link to a target that is not there.
ServerRefuses(s) ==
  /\ at[s] = "statements"
  /\ \/ \E e \in rest[s] : ~Free(s, RowOf(Job(s).parent, e.target))
     \/ \E pair \in Stale(s) : Settles(s) /\ rest[s] = {} /\ ~Free(s, RowOf(pair[1], pair[2]))
     \/ \E e \in rest[s] : e.op = "link" /\ e.target \notin live /\ ~ByKey
  /\ RollsBack(s) /\ UNCHANGED faults

\* Delete or Remove of a target, by another program; its children's keys go
\* with it, its join rows where foreign keys are enforced.
DeleteTarget(t) ==
  /\ t \in live /\ Trouble
  /\ \A s \in Sessions, p \in Parents : RowOf(p, t) \notin locked[s]
  /\ live' = live \ {t}
  /\ \/ ToMany /\ Becomes({pair \in links : pair[2] # t}, Nil)
     \/ ~ByKey /\ Becomes(links, Nil)
  /\ UNCHANGED <<kind, born, mine, at, work, reads, faults>>

Rows(s) == {P \in SUBSET born : Cardinality(P) \in 1 .. MaxRows[s]}

Calls(s) ==
  \/ \E P \in Rows(s) : Search(s, P) \/ Preload(s, P)
  \/ \E p \in born, listed \in SUBSET Targets : Assign(s, p, listed)
  \/ Write(s)
  \/ WriteRefused(s)
  \/ \E p \in Parents, listed \in SUBSET Targets : Create(s, p, listed)
  \/ \E P \in Rows(s), listed \in SUBSET Targets : Update(s, P, listed)

Proceeds(s) ==
  \/ Preloaded(s)
  \/ ReadLinks(s)
  \/ \E t \in Targets : Unlink(s, t) \/ Link(s, t)
  \/ JobDone(s)
  \/ Disassociate(s)
  \/ NoneStale(s)
  \/ Commit(s)

Fails(s) == PreloadFails(s) \/ ConstraintFails(s) \/ StatementFails(s) \/ ServerRefuses(s)

Next ==
  \/ \E s \in Sessions : Calls(s) \/ Proceeds(s) \/ Fails(s)
  \/ \E t \in Targets : DeleteTarget(t)

Spec == Init /\ [][Next]_vars

-----------------------------------------------------------------------------
\* A preload reads keys first and rows second, with other sessions in between:
\* what it puts into a field was linked at some moment of the preload, and
\* misses nothing that was linked all the while and still has a row; a field
\* is left nil only when nothing was.
ShowsInterval(s) ==
  \A p \in batch[s] :
    LET shown == IF field'[s][p] = Nil THEN {} ELSE field'[s][p] IN
    /\ shown \subseteq Of(ever[s], p)
    /\ Of(always[s], p) \cap live \subseteq shown

PreloadWithinInterval == [][\A s \in Sessions : Preloaded(s) => ShowsInterval(s)]_vars

\* Preloading rows and writing them back changes no link of a target that is
\* there, unless some session changed a link of theirs in between: what the
\* diff and the foreign keys say of an unassigned field is what they said.
LiveLinksStay == {pair \in links' : pair[2] \in live} = {pair \in links : pair[2] \in live}

RoundTrip ==
  [][\A s \in Sessions : Commit(s) /\ call[s].asLoaded /\ moved[s] = {} => LiveLinksStay]_vars

\* The list of a later parent of the same call names target t.
ClaimedLater(s, i, t) ==
  ByKey /\ \E j \in DOMAIN call[s].jobs : j > i /\ t \in call[s].jobs[j].listed

\* What a call leaves behind is what it was asked for: once Write, Create or
\* an assigning Update commits, each of its rows is linked to the targets
\* listed and to no others, except where another session changed a link after
\* the call had looked, where a later row of the same call took a child, and
\* for links that an interrupted read never delivered.
LinkedAsListed(s) ==
  \A i \in DOMAIN call[s].jobs, t \in live :
    LET pair == <<call[s].jobs[i].parent, t>> IN
    \/ pair \in links' <=> (t \in call[s].jobs[i].listed /\ ~ClaimedLater(s, i, t))
    \/ pair \in since[s] \cup missed[s]

CommittedIsListed == [][\A s \in Sessions : Commit(s) => LinkedAsListed(s)]_vars
=============================================================================
