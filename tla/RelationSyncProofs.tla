------------------------- MODULE RelationSyncProofs -------------------------
(***************************************************************************)
(* Preloads and the bringing in line of relations, for any number of       *)
(* sessions, parents and targets and calls about any number of rows: what  *)
(* TLC checks of RelationSync on two sessions, two parents, two targets.   *)
(***************************************************************************)
EXTENDS RelationSync, FiniteSetTheorems, SequenceTheorems, TLAPS

JobRecord == [parent : Parents, listed : SUBSET Targets]
Statement == [op : {"unlink", "link"}, target : Targets]
CallRecord == [op : {"none", "write", "create", "update"}, jobs : Seq(JobRecord), asLoaded : BOOLEAN]
Row == (Parents \cup Targets) \X (Parents \cup Targets)

Types ==
  /\ kind \in Kinds
  /\ born \in SUBSET Parents /\ live \in SUBSET Targets /\ links \in SUBSET Pairs
  /\ field \in [Sessions -> [Parents -> Fields]] /\ loadedAs \in [Sessions -> [Parents -> Fields]]
  /\ at \in [Sessions -> {"idle", "preload", "read", "statements", "done", "end"}]
  /\ batch \in [Sessions -> SUBSET Parents] /\ asked \in [Sessions -> SUBSET Pairs]
  /\ always \in [Sessions -> SUBSET Pairs] /\ ever \in [Sessions -> SUBSET Pairs]
  /\ moved \in [Sessions -> SUBSET Pairs] /\ since \in [Sessions -> SUBSET Pairs]
  /\ missed \in [Sessions -> SUBSET Pairs]
  /\ gone \in [Sessions -> SUBSET Pairs] /\ new \in [Sessions -> SUBSET Pairs]
  /\ jobs \in [Sessions -> Seq(JobRecord)]
  /\ call \in [Sessions -> CallRecord]
  /\ rest \in [Sessions -> SUBSET Statement]
  /\ locked \in [Sessions -> SUBSET Row]

OneParent(L) == \A p, q \in Parents, t \in Targets : <<p, t>> \in L /\ <<q, t>> \in L => p = q
HasParents(L) == \A t \in live : \E p \in Parents : <<p, t>> \in L
Sound(L) == (ByKey => OneParent(L)) /\ (kind = "O2M NOT NULL" => HasParents(L))

Shared ==
  /\ links \subseteq born \X Targets /\ Sound(links)
  /\ \A s, o \in Sessions : s # o =>
       locked[s] \cap locked[o] = {} /\ ~(call[s].op = "create" /\ call[o].op = "create")

LockedOf(s) ==
  /\ gone[s] \cap new[s] = {}
  /\ \A p \in Parents, t \in Targets : <<p, t>> \in gone[s] \cup new[s] => RowOf(p, t) \in locked[s]
  /\ \A p \in Parents, t \in Targets : <<p, t>> \in new[s] => InCall(s, p)
  /\ Sound(View(s))

Done(s) == Len(call[s].jobs) - Len(jobs[s])
JobsOf(s) ==
  IF Writing(s)
  THEN /\ Len(jobs[s]) <= Len(call[s].jobs)
       /\ \A i \in 1 .. Len(jobs[s]) : jobs[s][i] = call[s].jobs[Done(s) + i]
       /\ \A i, j \in 1 .. Len(call[s].jobs) :
            call[s].jobs[i].parent = call[s].jobs[j].parent => i = j
       /\ at[s] = "done" <=> jobs[s] = << >>
       /\ call[s].op = "create" => Len(call[s].jobs) = 1
       /\ \A i \in 1 .. Len(call[s].jobs) : call[s].jobs[i].parent \in born <=> call[s].op # "create"
       /\ ToMany \/ call[s].op = "create"
       /\ call[s].op # "none"
  ELSE /\ call[s] = NoCall /\ jobs[s] = << >> /\ rest[s] = {} /\ gone[s] = {} /\ new[s] = {}

RestOf(s) ==
  /\ rest[s] # {} => at[s] = "statements"
  /\ \A e \in rest[s] :
       IF e.op = "link" THEN e.target \in Job(s).listed
       ELSE Diffs(s) /\ e.target \notin Job(s).listed

FieldOf(s) ==
  /\ batch[s] \subseteq born
  /\ \A p \in Parents : /\ field[s][p] # Absent => p \in born
                        /\ loadedAs[s][p] # Absent => field[s][p] # Absent

ReadOf(s) ==
  at[s] = "preload" =>
    /\ always[s] \subseteq asked[s] /\ asked[s] \subseteq ever[s]
    /\ \A p \in batch[s], t \in Targets :
         <<p, t>> \notin moved[s] => (<<p, t>> \in asked[s] <=> <<p, t>> \in links)

LoadedOf(s) ==
  at[s] = "idle" => \A p \in Parents, t \in live :
    loadedAs[s][p] \notin {Absent, Nil} /\ <<p, t>> \notin moved[s] =>
      (t \in loadedAs[s][p] <=> <<p, t>> \in links)

AsLoadedOf(s) ==
  Writing(s) /\ call[s].asLoaded =>
    /\ \A i \in 1 .. Len(call[s].jobs), t \in live :
         <<call[s].jobs[i].parent, t>> \notin moved[s] =>
           (t \in call[s].jobs[i].listed <=> <<call[s].jobs[i].parent, t>> \in links)
    /\ moved[s] = {} =>
         /\ \A p \in Parents, t \in live : <<p, t>> \in View(s) <=> <<p, t>> \in links
         /\ \A e \in rest[s] : e.op = "unlink" => e.target \notin live

Ran(s, t) == at[s] = "statements" /\ t \in Job(s).listed /\ [op |-> "link", target |-> t] \notin rest[s]
TakenAfter(s, i, t) ==
  ByKey /\ (Ran(s, t) \/ \E j \in (i + 1) .. Done(s) : t \in call[s].jobs[j].listed)

DoneOf(s) ==
  Writing(s) => \A i \in 1 .. Done(s), t \in live :
    LET pair == <<call[s].jobs[i].parent, t>> IN
      \/ pair \in since[s] \cup missed[s]
      \/ pair \in View(s) <=> t \in call[s].jobs[i].listed /\ ~TakenAfter(s, i, t)

NowOf(s) ==
  /\ at[s] = "read" /\ call[s].op = "create" => new[s] = {}
  /\ at[s] = "statements" => \A t \in live :
    LET pair == <<Job(s).parent, t>> IN
      /\ call[s].op = "create" => (pair \in View(s) <=> Ran(s, t))
      /\ Settles(s) /\ Ran(s, t) => pair \in new[s]
      /\ Diffs(s) => \/ pair \in since[s] \cup missed[s]
                     \/ \E e \in rest[s] : e.target = t
                     \/ pair \in View(s) <=> t \in Job(s).listed

SessionInv(s) ==
  /\ LockedOf(s) /\ JobsOf(s) /\ RestOf(s) /\ FieldOf(s) /\ ReadOf(s) /\ LoadedOf(s)
  /\ AsLoadedOf(s) /\ DoneOf(s) /\ NowOf(s)
IInv == Types /\ Shared /\ \A s \in Sessions : SessionInv(s)

-----------------------------------------------------------------------------
(* Types.                                                                  *)

\* The row that records a link is one of the rows a session can hold.
LEMMA RowType ==
  ASSUME NEW p \in Parents, NEW t \in Targets
  PROVE  RowOf(p, t) \in Row
<1>1. CASE ByKey
  BY <1>1 DEF RowOf, Row
<1>2. CASE ~ByKey /\ kind = "M2M"
  BY <1>2 DEF RowOf, Row
<1>3. CASE ~ByKey /\ kind # "M2M"
  BY <1>3 DEF RowOf, Row
<1>. QED
  BY <1>1, <1>2, <1>3

\* What a transaction reads is links.
LEMMA ViewType ==
  ASSUME Types, NEW s \in Sessions
  PROVE  View(s) \in SUBSET Pairs
BY DEF Types, View

\* Where there is a job, it is a parent and a list.
LEMMA JobType ==
  ASSUME Types, NEW s \in Sessions, jobs[s] # << >>
  PROVE  /\ Job(s) \in JobRecord /\ Job(s) = jobs[s][1] /\ 1 \in 1 .. Len(jobs[s])
         /\ Tail(jobs[s]) \in Seq(JobRecord)
<1>1. jobs[s] \in Seq(JobRecord)
  BY DEF Types
<1>. QED
  BY <1>1 DEF Job

\* A transaction that changes links changes its own, in its own rows.
LEMMA ChangesEffect ==
  ASSUME Types, NEW s \in Sessions, NEW R \in SUBSET Pairs, NEW A \in SUBSET Pairs, Changes(s, R, A)
  PROVE  /\ gone' \in [Sessions -> SUBSET Pairs] /\ new' \in [Sessions -> SUBSET Pairs]
         /\ locked' \in [Sessions -> SUBSET Row]
         /\ gone'[s] = (gone[s] \cup R) \ A /\ new'[s] = (new[s] \ R) \cup A
         /\ \A row : row \in locked'[s] <=>
              row \in locked[s] \/ \E pair \in R \cup A : row = RowOf(pair[1], pair[2])
         /\ \A o \in Sessions \ {s} : gone'[o] = gone[o] /\ new'[o] = new[o] /\ locked'[o] = locked[o]
         /\ links' = links => View(s)' = (View(s) \ R) \cup A
<1>1. {RowOf(pair[1], pair[2]) : pair \in R \cup A} \subseteq Row
  BY RowType DEF Pairs
<1>. QED
  BY <1>1 DEF Types, Changes, View

\* The committed links change, and what was seen of them does.
LEMMA BecomesType ==
  ASSUME Types, NEW L \in SUBSET Pairs, NEW s, Becomes(L, s)
  PROVE  /\ links' \in SUBSET Pairs
         /\ always' \in [Sessions -> SUBSET Pairs] /\ ever' \in [Sessions -> SUBSET Pairs]
         /\ moved' \in [Sessions -> SUBSET Pairs] /\ since' \in [Sessions -> SUBSET Pairs]
<1>1. ASSUME NEW o \in Sessions
      PROVE  /\ always[o] \cap L \in SUBSET Pairs
             /\ (IF at[o] = "preload" THEN ever[o] \cup (L \cap (batch[o] \X Targets)) ELSE {}) \in SUBSET Pairs
  BY DEF Types, Pairs
<1>. QED
  BY <1>1 DEF Types, Becomes

\* The field a preload leaves.
LEMMA AssignedType ==
  ASSUME Types, NEW s \in Sessions, NEW p \in Parents
  PROVE  Assigned(asked[s], live, p) \in {Nil} \cup SUBSET Targets
<1>1. live \subseteq Targets /\ kind \in {"O2M", "O2M NOT NULL", "M2M", "M2O"}
  BY SyncAssumption DEF Types
<1>. QED
  BY <1>1 DEF Assigned, preloadM2M, preloadM2O, preloadO2M, Of

\* The parents of a call, in whatever order: a list without repetition.
LEMMA OrderType ==
  ASSUME NEW W \in SUBSET Parents, NEW o \in Orders(W)
  PROVE  /\ DOMAIN o = 1 .. Cardinality(W) /\ Cardinality(W) \in Nat
         /\ \A i \in DOMAIN o : o[i] \in W
         /\ \A i, j \in DOMAIN o : o[i] = o[j] => i = j
<1>1. IsFiniteSet(W)
  BY FS_Subset, SyncAssumption
<1>2. Cardinality(W) \in Nat
  BY <1>1, FS_CardinalityType
<1>. QED
  BY <1>2 DEF Orders

\* A call opens with a list of jobs.
LEMMA OpensType ==
  ASSUME Types, NEW s \in Sessions, NEW op \in {"write", "create", "update"},
         NEW list \in Seq(JobRecord), NEW asLoaded \in BOOLEAN, Opens(s, op, list, asLoaded)
  PROVE  Types'
<1>1. [op |-> op, jobs |-> list, asLoaded |-> asLoaded] \in CallRecord
  BY DEF CallRecord
<1>2. Unloaded \in [Parents -> Fields]
  BY DEF Unloaded, Fields
<1>. QED
  BY <1>1, <1>2 DEF Types, Opens, server

\* The jobs of Write, Create and Update.
LEMMA WriteJobs ==
  ASSUME Types, NEW s \in Sessions, Write(s)
  PROVE  \E o \in Orders({p \in Parents : field[s][p] \notin {Absent, Nil}}), asLoaded \in BOOLEAN :
           LET list == [i \in DOMAIN o |-> [parent |-> o[i], listed |-> field[s][o[i]]]] IN
           /\ o # << >> /\ list \in Seq(JobRecord) /\ Opens(s, "write", list, asLoaded)
           /\ asLoaded <=> field[s] = loadedAs[s]
<1>. DEFINE W == {p \in Parents : field[s][p] \notin {Absent, Nil}}
<1>1. PICK o \in Orders(W) :
        o # << >> /\ Opens(s, "write", [i \in DOMAIN o |-> [parent |-> o[i], listed |-> field[s][o[i]]]],
                           field[s] = loadedAs[s])
  BY DEF Write
<1>2. \A p \in W : field[s][p] \in SUBSET Targets
  BY DEF Types, Fields
<1>3. /\ DOMAIN o = 1 .. Cardinality(W) /\ Cardinality(W) \in Nat
      /\ \A i \in DOMAIN o : o[i] \in W
  BY OrderType
<1>. DEFINE list == [i \in DOMAIN o |-> [parent |-> o[i], listed |-> field[s][o[i]]]]
<1>4. \A i \in DOMAIN o : [parent |-> o[i], listed |-> field[s][o[i]]] \in JobRecord
  BY <1>2, <1>3 DEF JobRecord
<1>5. list \in Seq(JobRecord)
  <2>1. list = [i \in 1 .. Cardinality(W) |-> list[i]] /\ \A i \in 1 .. Cardinality(W) : list[i] \in JobRecord
    BY <1>3, <1>4
  <2>. HIDE DEF list, W
  <2>. QED
    BY <1>3, <2>1
<1>6. (field[s] = loadedAs[s]) \in BOOLEAN
  OBVIOUS
<1>. QED
  BY <1>1, <1>5, <1>6

\* The jobs of an Update, one for each row found.
LEMMA UpdateJobs ==
  ASSUME Types, NEW s \in Sessions, NEW P \in Rows(s), NEW listed \in SUBSET Targets, Update(s, P, listed)
  PROVE  P \in SUBSET born /\ \E o \in Orders(P) :
           LET list == [i \in DOMAIN o |-> [parent |-> o[i], listed |-> listed]] IN
           list \in Seq(JobRecord) /\ Opens(s, "update", list, FALSE)
<1>1. P \in SUBSET born /\ P \in SUBSET Parents
  BY DEF Rows, Types
<1>2. PICK o \in Orders(P) :
        Opens(s, "update", [i \in DOMAIN o |-> [parent |-> o[i], listed |-> listed]], FALSE)
  BY DEF Update
<1>3. /\ DOMAIN o = 1 .. Cardinality(P) /\ Cardinality(P) \in Nat
      /\ \A i \in DOMAIN o : o[i] \in P
  BY <1>1, OrderType
<1>4. [i \in DOMAIN o |-> [parent |-> o[i], listed |-> listed]] \in Seq(JobRecord)
  <2>1. \A i \in DOMAIN o : [parent |-> o[i], listed |-> listed] \in JobRecord
    BY <1>1, <1>3 DEF JobRecord
  <2>. QED
    BY <1>3, <2>1
<1>. QED
  BY <1>1, <1>2, <1>4

\* The one job of a Create.
LEMMA CreateJobs ==
  ASSUME Types, NEW s \in Sessions, NEW p \in Parents, NEW listed \in SUBSET Targets, Create(s, p, listed)
  PROVE  LET list == <<[parent |-> p, listed |-> listed]>> IN
         list \in Seq(JobRecord) /\ Opens(s, "create", list, FALSE)
<1>1. [parent |-> p, listed |-> listed] \in JobRecord
  BY DEF JobRecord
<1>2. <<[parent |-> p, listed |-> listed]>> \in Seq(JobRecord)
  BY <1>1
<1>3. Opens(s, "create", <<[parent |-> p, listed |-> listed]>>, FALSE)
  BY DEF Create
<1>. QED
  BY <1>2, <1>3, Zenon

\* The tail of a list.
LEMMA TailFacts ==
  ASSUME NEW S, NEW q \in Seq(S), q # << >>
  PROVE  /\ Len(q) \in Nat /\ Len(q) >= 1
         /\ Tail(q) \in Seq(S) /\ Len(Tail(q)) = Len(q) - 1
         /\ \A i \in 1 .. Len(Tail(q)) : i + 1 \in 1 .. Len(q) /\ Tail(q)[i] = q[i + 1]
         /\ Tail(q) = << >> <=> Len(q) = 1
<1>1. Len(q) \in Nat /\ Len(q) >= 1
  OBVIOUS
<1>2. Tail(q) \in Seq(S) /\ Len(Tail(q)) = Len(q) - 1
  BY <1>1
<1>3. \A i \in 1 .. Len(Tail(q)) : i + 1 \in 1 .. Len(q) /\ Tail(q)[i] = q[i + 1]
  BY <1>1, <1>2
<1>4. Tail(q) = << >> <=> Len(q) = 1
  <2>1. Len(Tail(q)) = 0 <=> Len(q) = 1
    BY <1>1, <1>2
  <2>2. Len(Tail(q)) = 0 <=> Tail(q) = << >>
    BY <1>2, EmptySeq
  <2>. QED
    BY <2>1, <2>2
<1>. QED
  BY <1>1, <1>2, <1>3, <1>4

\* A call at work is at one of its jobs.
LEMMA Working ==
  ASSUME Types, NEW s \in Sessions, JobsOf(s), at[s] \in {"read", "statements"}
  PROVE  /\ jobs[s] # << >> /\ Job(s) = jobs[s][1] /\ Job(s) \in JobRecord
         /\ Done(s) \in Nat /\ Done(s) + 1 \in 1 .. Len(call[s].jobs)
         /\ Job(s) = call[s].jobs[Done(s) + 1] /\ InCall(s, Job(s).parent)
         /\ Job(s).parent \in Parents /\ Job(s).listed \in SUBSET Targets
<1>1. /\ jobs[s] \in Seq(JobRecord) /\ call[s].jobs \in Seq(JobRecord)
      /\ jobs[s] # << >> /\ Writing(s)
  BY DEF Types, JobsOf, Writing, CallRecord
<1>2. Len(jobs[s]) \in Nat /\ Len(jobs[s]) >= 1 /\ Len(call[s].jobs) \in Nat
  BY <1>1
<1>3. /\ Len(jobs[s]) <= Len(call[s].jobs)
      /\ \A i \in 1 .. Len(jobs[s]) : jobs[s][i] = call[s].jobs[Done(s) + i]
  BY <1>1 DEF JobsOf
<1>4. Done(s) \in Nat /\ Done(s) + 1 \in 1 .. Len(call[s].jobs)
  <2>1. ASSUME NEW m \in Nat, NEW n \in Nat, m >= 1, m <= n
        PROVE  n - m \in Nat /\ n - m + 1 \in 1 .. n
    BY <2>1
  <2>. QED
    BY <1>2, <1>3, <2>1 DEF Done
<1>5. Job(s) = jobs[s][1] /\ Job(s) \in JobRecord /\ 1 \in 1 .. Len(jobs[s])
  BY <1>1, JobType
<1>6. Job(s) = call[s].jobs[Done(s) + 1]
  BY <1>2, <1>3, <1>5
<1>7. InCall(s, Job(s).parent)
  BY <1>1, <1>4, <1>6 DEF InCall
<1>. QED
  BY <1>1, <1>4, <1>5, <1>6, <1>7 DEF JobRecord

\* The statements of a job, each for a target of its own.
LEMMA StatementsType ==
  ASSUME NEW existing \in SUBSET Targets, NEW listed \in SUBSET Targets
  PROVE  /\ Statements(existing, listed) \in SUBSET Statement
         /\ \A t \in Targets :
              /\ [op |-> "link", target |-> t] \in Statements(existing, listed) <=> t \in listed \ existing
              /\ [op |-> "unlink", target |-> t] \in Statements(existing, listed) <=> t \in existing \ listed
BY DEF Statements, Statement

\* ReadLinks, in terms of the links it saw and of those an error kept from it.
LEMMA ReadLinksEffect ==
  ASSUME Types, NEW s \in Sessions, JobsOf(s), ReadLinks(s)
  PROVE  /\ \E existing \in SUBSET Of(View(s), Job(s).parent) :
              /\ rest' = [rest EXCEPT ![s] = Statements(existing, Job(s).listed)]
              /\ ~Diffs(s) => existing = {}
              /\ Diffs(s) => \A t \in Of(View(s), Job(s).parent) \ existing : <<Job(s).parent, t>> \in missed'[s]
         /\ rest' \in [Sessions -> SUBSET Statement]
         /\ missed' \in [Sessions -> SUBSET Pairs] /\ since' \in [Sessions -> SUBSET Pairs]
         /\ missed[s] \subseteq missed'[s]
         /\ \A o \in Sessions \ {s} : rest'[o] = rest[o] /\ missed'[o] = missed[o] /\ since'[o] = since[o]
         /\ since'[s] = IF Diffs(s) THEN {pair \in since[s] : pair[1] # Job(s).parent} ELSE since[s]
<1>. DEFINE linked == Of(View(s), Job(s).parent)
<1>1. linked \in SUBSET Targets /\ Job(s).parent \in Parents /\ Job(s).listed \in SUBSET Targets
  BY Working DEF ReadLinks, Of
<1>2. PICK unread \in SUBSET linked :
        /\ rest' = [rest EXCEPT ![s] = Statements(IF Diffs(s) THEN linked \ unread ELSE {}, Job(s).listed)]
        /\ missed' = [missed EXCEPT ![s] = @ \cup ({Job(s).parent} \X unread)]
  <2>1. PICK unread \in IF Diffs(s) /\ Trouble THEN SUBSET linked ELSE {{}} :
        /\ rest' = [rest EXCEPT ![s] = Statements(IF Diffs(s) THEN linked \ unread ELSE {}, Job(s).listed)]
        /\ missed' = [missed EXCEPT ![s] = @ \cup ({Job(s).parent} \X unread)]
    BY DEF ReadLinks
  <2>2. unread \in SUBSET linked
    BY <2>1
  <2>. QED
    BY <2>1, <2>2
<1>. DEFINE existing == IF Diffs(s) THEN linked \ unread ELSE {}
<1>3. existing \in SUBSET linked /\ existing \in SUBSET Targets
  BY <1>1
<1>4. Statements(existing, Job(s).listed) \in SUBSET Statement
  BY <1>1, <1>3, StatementsType
<1>5. {Job(s).parent} \X unread \subseteq Pairs
  BY <1>1 DEF Pairs
<1>6. since' = IF Diffs(s) THEN [since EXCEPT ![s] = {pair \in @ : pair[1] # Job(s).parent}] ELSE since
  BY DEF ReadLinks, Looks
<1>7. /\ rest' \in [Sessions -> SUBSET Statement]
      /\ missed' \in [Sessions -> SUBSET Pairs]
      /\ missed'[s] = missed[s] \cup ({Job(s).parent} \X unread)
      /\ \A o \in Sessions \ {s} : rest'[o] = rest[o] /\ missed'[o] = missed[o]
  <2>. HIDE DEF existing, linked
  <2>. QED
    BY <1>2, <1>4, <1>5 DEF Types, existing
<1>8. /\ since' \in [Sessions -> SUBSET Pairs]
      /\ \A o \in Sessions \ {s} : since'[o] = since[o]
      /\ since'[s] = IF Diffs(s) THEN {pair \in since[s] : pair[1] # Job(s).parent} ELSE since[s]
  BY <1>6 DEF Types
<1>9. Diffs(s) => \A t \in linked \ existing : <<Job(s).parent, t>> \in missed'[s]
  BY <1>7
<1>. QED
  BY <1>2, <1>3, <1>7, <1>8, <1>9, Zenon

\* The first of the jobs is done.
LEMMA AdvanceEffect ==
  ASSUME Types, NEW s \in Sessions, JobsOf(s), at[s] = "statements", Advance(s), UNCHANGED call
  PROVE  /\ jobs' \in [Sessions -> Seq(JobRecord)] /\ jobs'[s] = Tail(jobs[s])
         /\ at' \in [Sessions -> {"idle", "preload", "read", "statements", "done", "end"}]
         /\ at'[s] \in {"read", "done"} /\ (at'[s] = "done" <=> jobs'[s] = << >>)
         /\ Done(s)' = Done(s) + 1 /\ Len(jobs'[s]) <= Len(call[s].jobs)
         /\ \A i \in 1 .. Len(jobs'[s]) : jobs'[s][i] = call[s].jobs[Done(s) + 1 + i]
         /\ \A o \in Sessions \ {s} : jobs'[o] = jobs[o] /\ at'[o] = at[o]
<1>1. /\ jobs[s] \in Seq(JobRecord) /\ jobs[s] # << >> /\ call[s].jobs \in Seq(JobRecord)
      /\ Writing(s)
  BY Working DEF Types, CallRecord, Writing
<1>2. /\ Len(jobs[s]) <= Len(call[s].jobs)
      /\ \A i \in 1 .. Len(jobs[s]) : jobs[s][i] = call[s].jobs[Done(s) + i]
  BY <1>1 DEF JobsOf
<1>3. /\ jobs' = [jobs EXCEPT ![s] = Tail(jobs[s])]
      /\ at' = [at EXCEPT ![s] = IF Len(jobs[s]) = 1 THEN "done" ELSE "read"]
  BY DEF Advance
<1>4. /\ Tail(jobs[s]) \in Seq(JobRecord) /\ Len(Tail(jobs[s])) = Len(jobs[s]) - 1
      /\ \A i \in 1 .. Len(Tail(jobs[s])) : Tail(jobs[s])[i] = jobs[s][i + 1]
      /\ Len(jobs[s]) \in Nat /\ Len(jobs[s]) >= 1 /\ Len(call[s].jobs) \in Nat
      /\ Tail(jobs[s]) = << >> <=> Len(jobs[s]) = 1
  BY <1>1, TailFacts
<1>5. /\ jobs' \in [Sessions -> Seq(JobRecord)] /\ jobs'[s] = Tail(jobs[s])
      /\ \A o \in Sessions \ {s} : jobs'[o] = jobs[o] /\ at'[o] = at[o]
      /\ at' \in [Sessions -> {"idle", "preload", "read", "statements", "done", "end"}]
      /\ at'[s] = IF Len(jobs[s]) = 1 THEN "done" ELSE "read"
  BY <1>3, <1>4 DEF Types
<1>6. Done(s)' = Done(s) + 1
  <2>1. Done(s)' = Len(call[s].jobs) - Len(Tail(jobs[s]))
    BY <1>5 DEF Done
  <2>2. ASSUME NEW m \in Nat, NEW n \in Nat
        PROVE  n - (m - 1) = n - m + 1
    OBVIOUS
  <2>. QED
    BY <1>4, <2>1, <2>2 DEF Done
<1>7. \A i \in 1 .. Len(jobs'[s]) : jobs'[s][i] = call[s].jobs[Done(s) + 1 + i]
  <2>. TAKE i \in 1 .. Len(jobs'[s])
  <2>1. i + 1 \in 1 .. Len(jobs[s]) /\ jobs'[s][i] = jobs[s][i + 1]
    BY <1>4, <1>5
  <2>2. jobs[s][i + 1] = call[s].jobs[Done(s) + (i + 1)]
    BY <1>2, <2>1
  <2>3. Done(s) \in Int
    BY <1>4 DEF Done
  <2>4. Done(s) + (i + 1) = Done(s) + 1 + i
    BY <2>3
  <2>. QED
    BY <2>1, <2>2, <2>4
<1>. QED
  BY <1>2, <1>4, <1>5, <1>6, <1>7

\* The transaction of a call is over.
LEMMA ReturnsEffect ==
  ASSUME Types, NEW s \in Sessions, Returns(s)
  PROVE  /\ at' \in [Sessions -> {"idle", "preload", "read", "statements", "done", "end"}]
         /\ jobs' \in [Sessions -> Seq(JobRecord)] /\ call' \in [Sessions -> CallRecord]
         /\ rest' \in [Sessions -> SUBSET Statement] /\ missed' \in [Sessions -> SUBSET Pairs]
         /\ gone' \in [Sessions -> SUBSET Pairs] /\ new' \in [Sessions -> SUBSET Pairs]
         /\ locked' \in [Sessions -> SUBSET Row]
         /\ at'[s] = "end" /\ jobs'[s] = << >> /\ call'[s] = NoCall
         /\ rest'[s] = {} /\ gone'[s] = {} /\ new'[s] = {} /\ locked'[s] = {}
         /\ \A o \in Sessions \ {s} :
              /\ at'[o] = at[o] /\ jobs'[o] = jobs[o] /\ call'[o] = call[o] /\ rest'[o] = rest[o]
              /\ missed'[o] = missed[o] /\ gone'[o] = gone[o] /\ new'[o] = new[o] /\ locked'[o] = locked[o]
<1>1. NoCall \in CallRecord /\ << >> \in Seq(JobRecord)
  BY DEF NoCall, CallRecord
<1>. QED
  BY <1>1 DEF Types, Returns

\* What a statement of a job changes.
Took(s, t) == {pair \in View(s) : ByKey /\ pair[2] = t /\ pair[1] # Job(s).parent}

\* An unlink removes the link if the transaction sees it.
LEMMA UnlinkEffect ==
  ASSUME Types, NEW s \in Sessions, JobsOf(s), NEW t \in Targets, Unlink(s, t)
  PROVE  LET R == {<<Job(s).parent, t>>} \cap View(s) IN
         R \in SUBSET Pairs /\ Changes(s, R, {})
BY ViewType DEF Unlink

\* A link takes the child from its other parents, or finds that the target has gone.
LEMMA LinkEffect ==
  ASSUME Types, NEW s \in Sessions, JobsOf(s), NEW t \in Targets, Link(s, t)
  PROVE  \/ /\ Took(s, t) \in SUBSET Pairs /\ {<<Job(s).parent, t>>} \in SUBSET Pairs
            /\ Changes(s, Took(s, t), {<<Job(s).parent, t>>})
         \/ t \notin live /\ UNCHANGED <<gone, new, locked>>
<1>1. Job(s).parent \in Parents /\ Took(s, t) \in SUBSET Pairs
  BY Working, ViewType DEF Link, Took
<1>. QED
  BY <1>1 DEF Link, Took, Pairs

\* What is stale is seen.
LEMMA StaleType ==
  ASSUME Types, NEW s \in Sessions, JobsOf(s), at[s] = "statements"
  PROVE  Stale(s) \in SUBSET Pairs /\ Stale(s) \subseteq View(s)
BY Working, ViewType DEF Stale, Of, Pairs

\* A call that looks forgets what others changed of its first parent before.
LEMMA LooksEffect ==
  ASSUME Types, NEW s \in Sessions, Looks(s)
  PROVE  /\ since' \in [Sessions -> SUBSET Pairs]
         /\ since'[s] = {pair \in since[s] : pair[1] # Job(s).parent}
         /\ \A o \in Sessions \ {s} : since'[o] = since[o]
BY DEF Types, Looks

\* Every step keeps the types.
LEMMA TypesNext == Types /\ (\A s \in Sessions : JobsOf(s)) /\ [Next]_vars => Types'
<1>. SUFFICES ASSUME Types, \A s \in Sessions : JobsOf(s), [Next]_vars
              PROVE  Types'
  OBVIOUS
<1>1. ASSUME NEW s \in Sessions, NEW P \in Rows(s), Search(s, P) PROVE Types'
  BY <1>1 DEF Search, Reads, Types, Fields, server, work
<1>2. ASSUME NEW s \in Sessions, NEW P \in Rows(s), Preload(s, P) PROVE Types'
  <2>1. P \in SUBSET Parents /\ Asked(P) \in SUBSET Pairs
    BY DEF Types, Rows, Asked
  <2>. QED
    BY <1>2, <2>1 DEF Preload, Reads, Types, server, work
<1>3. ASSUME NEW s \in Sessions, NEW p \in born, NEW listed \in SUBSET Targets, Assign(s, p, listed)
      PROVE  Types'
  <2>1. p \in Parents /\ listed \in Fields
    BY DEF Types, Fields
  <2>. QED
    BY <1>3, <2>1 DEF Assign, Types, server, work, truth
<1>4. ASSUME NEW s \in Sessions, Write(s) PROVE Types'
  BY <1>4, WriteJobs, OpensType
<1>5. ASSUME NEW s \in Sessions, WriteRefused(s) PROVE Types'
  BY <1>5 DEF WriteRefused, Types, server, mine, work, truth
<1>6. ASSUME NEW s \in Sessions, NEW p \in Parents, NEW listed \in SUBSET Targets, Create(s, p, listed)
      PROVE  Types'
  BY <1>6, CreateJobs, OpensType
<1>7. ASSUME NEW s \in Sessions, NEW P \in Rows(s), NEW listed \in SUBSET Targets, Update(s, P, listed)
      PROVE  Types'
  BY <1>7, UpdateJobs, OpensType
<1>8. ASSUME NEW s \in Sessions, Preloaded(s) PROVE Types'
  <2>1. \A p \in Parents : (IF p \in batch[s] THEN Assigned(asked[s], live, p) ELSE Absent) \in Fields
    BY AssignedType DEF Fields
  <2>. QED
    BY <1>8, <2>1 DEF Preloaded, Types, server, work
<1>9. ASSUME NEW s \in Sessions, PreloadFails(s) PROVE Types'
  <2>1. Unloaded \in [Parents -> Fields]
    BY DEF Unloaded, Fields
  <2>. QED
    BY <1>9, <2>1 DEF PreloadFails, Types, server, work
<1>10. ASSUME NEW s \in Sessions, ReadLinks(s) PROVE Types'
  <2>1. at' \in [Sessions -> {"idle", "preload", "read", "statements", "done", "end"}]
    BY <1>10 DEF ReadLinks, Types
  <2>. QED
    BY <1>10, <2>1, ReadLinksEffect DEF ReadLinks, Types, server, mine
<1>11. ASSUME NEW s \in Sessions, NEW t \in Targets, Unlink(s, t) \/ Link(s, t) PROVE Types'
  <2>1. /\ gone' \in [Sessions -> SUBSET Pairs] /\ new' \in [Sessions -> SUBSET Pairs]
        /\ locked' \in [Sessions -> SUBSET Row]
    <3>1. CASE Unlink(s, t)
      <4>1. {<<Job(s).parent, t>>} \cap View(s) \in SUBSET Pairs /\ {} \in SUBSET Pairs
        BY ViewType
      <4>2. Changes(s, {<<Job(s).parent, t>>} \cap View(s), {})
        BY <3>1 DEF Unlink
      <4>. QED
        BY <4>1, <4>2, ChangesEffect
    <3>2. CASE Link(s, t)
      BY <3>2, LinkEffect, ChangesEffect DEF Types
    <3>. QED
      BY <1>11, <3>1, <3>2
  <2>2. /\ UNCHANGED server /\ UNCHANGED mine /\ UNCHANGED truth
        /\ UNCHANGED <<at, jobs, call, missed>>
    BY <1>11 DEF Unlink, Link
  <2>3. rest' \in [Sessions -> SUBSET Statement]
    <3>1. PICK e : rest' = [rest EXCEPT ![s] = @ \ {e}]
      BY <1>11 DEF Unlink, Link
    <3>. QED
      BY <3>1 DEF Types
  <2>. QED
    BY <2>1, <2>2, <2>3 DEF Types, server, mine, truth
<1>12. ASSUME NEW s \in Sessions, JobDone(s) \/ Disassociate(s) \/ NoneStale(s) PROVE Types'
  <2>1. at[s] = "statements" /\ Advance(s) /\ UNCHANGED call
    BY <1>12 DEF JobDone, Disassociate, NoneStale
  <2>2. /\ jobs' \in [Sessions -> Seq(JobRecord)]
        /\ at' \in [Sessions -> {"idle", "preload", "read", "statements", "done", "end"}]
    BY <2>1, AdvanceEffect
  <2>3. since' \in [Sessions -> SUBSET Pairs]
    BY <1>12, LooksEffect DEF JobDone, Disassociate, NoneStale, truth, Types
  <2>4. /\ gone' \in [Sessions -> SUBSET Pairs] /\ new' \in [Sessions -> SUBSET Pairs]
        /\ locked' \in [Sessions -> SUBSET Row]
    BY <1>12, <2>1, StaleType, ChangesEffect DEF JobDone, Disassociate, NoneStale, Types
  <2>5. UNCHANGED <<server, mine, rest, call, missed, always, ever, moved>>
    BY <1>12 DEF JobDone, Disassociate, NoneStale, truth
  <2>. QED
    BY <2>2, <2>3, <2>4, <2>5 DEF Types, server, mine
<1>13. ASSUME NEW s \in Sessions, Commit(s) PROVE Types'
  <2>1. /\ links' \in SUBSET Pairs
        /\ always' \in [Sessions -> SUBSET Pairs] /\ ever' \in [Sessions -> SUBSET Pairs]
        /\ moved' \in [Sessions -> SUBSET Pairs] /\ since' \in [Sessions -> SUBSET Pairs]
    BY <1>13, ViewType, BecomesType DEF Commit
  <2>2. born' \in SUBSET Parents
    <3>1. call[s].jobs \in Seq(JobRecord)
      BY DEF Types, CallRecord
    <3>2. \A i \in DOMAIN call[s].jobs : call[s].jobs[i] \in JobRecord
      BY <3>1
    <3>3. \A i \in DOMAIN call[s].jobs : call[s].jobs[i].parent \in Parents
      BY <3>2 DEF JobRecord
    <3>. QED
      BY <1>13, <3>3 DEF Commit, Types
  <2>3. UNCHANGED <<kind, live, mine>>
    BY <1>13 DEF Commit
  <2>4. Returns(s)
    BY <1>13 DEF Commit
  <2>. QED
    BY <2>1, <2>2, <2>3, <2>4, ReturnsEffect DEF Types, mine
<1>14. ASSUME NEW s \in Sessions, RollsBack(s) PROVE Types'
  BY <1>14, ReturnsEffect DEF RollsBack, Types, server, mine
<1>15. ASSUME NEW t \in Targets, DeleteTarget(t) PROVE Types'
  <2>1. PICK L \in SUBSET Pairs : Becomes(L, Nil)
    BY <1>15 DEF DeleteTarget, Types
  <2>2. /\ live' \in SUBSET Targets /\ kind' = kind /\ born' = born
        /\ UNCHANGED mine /\ UNCHANGED at /\ UNCHANGED work
    BY <1>15 DEF DeleteTarget, Types
  <2>. QED
    BY <2>1, <2>2, BecomesType DEF Types, mine, work
<1>16. CASE UNCHANGED vars
  BY <1>16 DEF Types, vars, server, mine, work, truth
<1>. QED
  BY <1>1, <1>2, <1>3, <1>4, <1>5, <1>6, <1>7, <1>8, <1>9, <1>10, <1>11, <1>12, <1>13, <1>14, <1>15, <1>16
     DEF Next, Calls, Proceeds, Fails, ConstraintFails, StatementFails, ServerRefuses

-----------------------------------------------------------------------------
(* What a step does to the other sessions.                                 *)

\* A step of another session, or of none, leaves what is of session o, and
\* changes no link whose row o holds.
Elsewhere(o) ==
  /\ kind' = kind /\ live' \subseteq live /\ born \subseteq born'
  /\ field'[o] = field[o] /\ loadedAs'[o] = loadedAs[o] /\ at'[o] = at[o]
  /\ batch'[o] = batch[o] /\ asked'[o] = asked[o] /\ jobs'[o] = jobs[o]
  /\ rest'[o] = rest[o] /\ call'[o] = call[o] /\ missed'[o] = missed[o]
  /\ gone'[o] = gone[o] /\ new'[o] = new[o] /\ locked'[o] = locked[o]
  /\ moved[o] \subseteq moved'[o] /\ since[o] \subseteq since'[o]
  /\ at[o] = "preload" => always'[o] \subseteq always[o] /\ ever[o] \subseteq ever'[o]
  /\ \A p \in Parents, t \in Targets : ~(<<p, t>> \in links' <=> <<p, t>> \in links) =>
       /\ RowOf(p, t) \notin locked[o]
       /\ InCall(o, p) => <<p, t>> \in since'[o]
       /\ p \in batch[o] \/ field[o][p] # Absent \/ (call[o].asLoaded /\ InCall(o, p)) =>
            <<p, t>> \in moved'[o]
  /\ call[o].op = "create" => \A p \in born' \ born : ~InCall(o, p)

\* What is the same for o before and after.
LEMMA ElsewhereSame ==
  ASSUME Types, NEW o \in Sessions, Elsewhere(o)
  PROVE  /\ (ByKey)' = ByKey /\ (ToMany)' = ToMany /\ Writing(o)' = Writing(o)
         /\ Done(o)' = Done(o) /\ Job(o)' = Job(o)
         /\ Diffs(o)' = Diffs(o) /\ Settles(o)' = Settles(o)
         /\ \A p \in Parents : InCall(o, p)' = InCall(o, p)
         /\ \A p, t : RowOf(p, t)' = RowOf(p, t)
         /\ \A t : Ran(o, t)' = Ran(o, t)
         /\ \A i, t : TakenAfter(o, i, t)' = TakenAfter(o, i, t)
BY DEF Elsewhere, ByKey, ToMany, Writing, Done, Job, Diffs, Settles, InCall, RowOf, Ran, TakenAfter

\* The links o sees change only with the committed ones.
LEMMA ElsewhereView ==
  ASSUME Types, NEW o \in Sessions, Elsewhere(o), LockedOf(o),
         NEW p \in Parents, NEW t \in Targets
  PROVE  /\ <<p, t>> \in gone[o] \cup new[o] => (<<p, t>> \in links' <=> <<p, t>> \in links)
         /\ <<p, t>> \in gone[o] \cup new[o] => (<<p, t>> \in View(o)' <=> <<p, t>> \in View(o))
         /\ <<p, t>> \notin gone[o] \cup new[o] => (<<p, t>> \in View(o)' <=> <<p, t>> \in links')
         /\ <<p, t>> \notin gone[o] \cup new[o] => (<<p, t>> \in View(o) <=> <<p, t>> \in links)
         /\ (<<p, t>> \in links' <=> <<p, t>> \in links) => (<<p, t>> \in View(o)' <=> <<p, t>> \in View(o))
<1>1. <<p, t>> \in gone[o] \cup new[o] => (<<p, t>> \in links' <=> <<p, t>> \in links)
  BY DEF Elsewhere, LockedOf
<1>2. View(o) = (links \ gone[o]) \cup new[o] /\ View(o)' = (links' \ gone[o]) \cup new[o]
  BY DEF View, Elsewhere
<1>. QED
  BY <1>1, <1>2

\* A transaction holds the rows of what it changed, and what it sees stays sound.
LEMMA ElsewhereLocked ==
  ASSUME Types, Types', NEW o \in Sessions, Elsewhere(o), LockedOf(o), Sound(links)'
  PROVE  LockedOf(o)'
<1>1. UNCHANGED <<kind, gone[o], new[o], locked[o]>> /\ live' \subseteq live
  BY DEF Elsewhere
<1>2. gone'[o] \cap new'[o] = {}
  BY <1>1 DEF LockedOf
<1>3. ASSUME NEW p \in Parents, NEW t \in Targets
      PROVE  /\ <<p, t>> \in gone'[o] \cup new'[o] => RowOf(p, t)' \in locked'[o]
             /\ <<p, t>> \in new'[o] => InCall(o, p)'
  BY <1>1, ElsewhereSame DEF LockedOf
<1>4. ASSUME ByKey, NEW t \in Targets
      PROVE  \/ \A p \in Parents : <<p, t>> \in View(o)' <=> <<p, t>> \in View(o)
             \/ \A p \in Parents : <<p, t>> \in View(o)' <=> <<p, t>> \in links'
  <2>1. \A p \in Parents : RowOf(p, t) = <<t, t>>
    BY <1>4 DEF RowOf, ByKey
  <2>2. CASE <<t, t>> \in locked[o]
    <3>1. \A p \in Parents : <<p, t>> \in links' <=> <<p, t>> \in links
      BY <2>1, <2>2 DEF Elsewhere
    <3>. QED
      BY <3>1, ElsewhereView
  <2>3. CASE <<t, t>> \notin locked[o]
    <3>1. \A p \in Parents : <<p, t>> \notin gone[o] \cup new[o]
      BY <2>1, <2>3 DEF LockedOf
    <3>. QED
      BY <3>1, ElsewhereView
  <2>. QED
    BY <2>2, <2>3
<1>5. (ByKey => OneParent(View(o)))'
  <2>. SUFFICES ASSUME ByKey, NEW p \in Parents, NEW q \in Parents, NEW t \in Targets,
                       <<p, t>> \in View(o)', <<q, t>> \in View(o)'
                PROVE  p = q
    BY ElsewhereSame DEF OneParent
  <2>1. OneParent(View(o)) /\ OneParent(links)'
    BY ElsewhereSame DEF LockedOf, Sound
  <2>. QED
    BY <1>4, <2>1 DEF OneParent
<1>6. (kind = "O2M NOT NULL" => HasParents(View(o)))'
  <2>. SUFFICES ASSUME kind = "O2M NOT NULL", NEW t \in live'
                PROVE  \E p \in Parents : <<p, t>> \in View(o)'
    BY <1>1 DEF HasParents
  <2>1. ByKey /\ t \in live /\ t \in Targets
    BY <1>1 DEF ByKey, Types
  <2>2. HasParents(View(o)) /\ HasParents(links)'
    BY <1>1 DEF LockedOf, Sound
  <2>. QED
    BY <1>4, <2>1, <2>2 DEF HasParents
<1>. QED
  BY <1>2, <1>3, <1>5, <1>6 DEF LockedOf, Sound

\* Its jobs, its fields and what it read are as they were.
LEMMA ElsewhereRest ==
  ASSUME Types, Types', NEW o \in Sessions, Elsewhere(o),
         JobsOf(o), RestOf(o), FieldOf(o), ReadOf(o), LoadedOf(o)
  PROVE  JobsOf(o)' /\ RestOf(o)' /\ FieldOf(o)' /\ ReadOf(o)' /\ LoadedOf(o)'
<1>. USE ElsewhereSame
<1>1. JobsOf(o)'
  <2>1. CASE Writing(o)
    <3>1. \A i \in 1 .. Len(call[o].jobs) :
            call[o].jobs[i].parent \in born' <=> call[o].jobs[i].parent \in born
      <4>1. call[o].jobs \in Seq(JobRecord)
        BY DEF Types, CallRecord
      <4>2. \A i \in 1 .. Len(call[o].jobs) : InCall(o, call[o].jobs[i].parent)
        BY <4>1 DEF InCall
      <4>. QED
        BY <2>1, <4>2 DEF Elsewhere, JobsOf
    <3>. QED
      BY <2>1, <3>1 DEF JobsOf, Elsewhere
  <2>2. CASE ~Writing(o)
    BY <2>2 DEF JobsOf, Elsewhere
  <2>. QED
    BY <2>1, <2>2
<1>2. RestOf(o)'
  BY DEF RestOf, Elsewhere
<1>3. FieldOf(o)'
  BY DEF FieldOf, Elsewhere
<1>4. ReadOf(o)'
  <2>. SUFFICES ASSUME at[o] = "preload"
                PROVE  /\ always'[o] \subseteq asked[o] /\ asked[o] \subseteq ever'[o]
                       /\ \A p \in batch[o], t \in Targets : <<p, t>> \notin moved'[o] =>
                            (<<p, t>> \in asked[o] <=> <<p, t>> \in links')
    BY DEF ReadOf, Elsewhere
  <2>1. batch[o] \subseteq Parents
    BY DEF Types
  <2>. QED
    BY <2>1 DEF ReadOf, Elsewhere
<1>5. LoadedOf(o)'
  <2>. SUFFICES ASSUME at[o] = "idle", NEW p \in Parents, NEW t \in live',
                       loadedAs[o][p] \notin {Absent, Nil}, <<p, t>> \notin moved'[o]
                PROVE  t \in loadedAs[o][p] <=> <<p, t>> \in links'
    BY DEF LoadedOf, Elsewhere
  <2>1. t \in live /\ t \in Targets /\ field[o][p] # Absent /\ <<p, t>> \notin moved[o]
    BY DEF Elsewhere, FieldOf, Types
  <2>. QED
    BY <2>1 DEF LoadedOf, Elsewhere
<1>. QED
  BY <1>1, <1>2, <1>3, <1>4, <1>5

\* A call at work keeps what it knows of the links, unless it was noted that they changed.
LEMMA ElsewhereWork ==
  ASSUME Types, Types', NEW o \in Sessions, Elsewhere(o), LockedOf(o), JobsOf(o),
         links \subseteq born \X Targets, (links \subseteq born \X Targets)',
         AsLoadedOf(o), DoneOf(o), NowOf(o)
  PROVE  AsLoadedOf(o)' /\ DoneOf(o)' /\ NowOf(o)'
<1>. USE ElsewhereSame
<1>0. /\ \A i \in 1 .. Len(call[o].jobs) : call[o].jobs[i].parent \in Parents /\ InCall(o, call[o].jobs[i].parent)
      /\ live' \subseteq live /\ live \subseteq Targets /\ call[o].jobs \in Seq(JobRecord)
      /\ Len(call[o].jobs) \in Nat
  <2>1. call[o].jobs \in Seq(JobRecord)
    BY DEF Types, CallRecord
  <2>2. \A i \in 1 .. Len(call[o].jobs) : call[o].jobs[i] \in JobRecord
    BY <2>1
  <2>. QED
    BY <2>1, <2>2 DEF InCall, JobRecord, Elsewhere, Types
<1>1. AsLoadedOf(o)'
  <2>. SUFFICES ASSUME Writing(o), call[o].asLoaded
                PROVE  AsLoadedOf(o)'
    BY DEF AsLoadedOf, Elsewhere
  <2>1. ASSUME NEW i \in 1 .. Len(call[o].jobs), NEW t \in live',
               <<call[o].jobs[i].parent, t>> \notin moved'[o]
        PROVE  t \in call[o].jobs[i].listed <=> <<call[o].jobs[i].parent, t>> \in links'
    BY <1>0, <2>1 DEF AsLoadedOf, Elsewhere
  <2>2. ASSUME moved'[o] = {}, NEW p \in Parents, NEW t \in live'
        PROVE  <<p, t>> \in View(o)' <=> <<p, t>> \in links'
    <3>1. t \in live /\ t \in Targets /\ moved[o] = {}
      BY <1>0, <2>2 DEF Elsewhere
    <3>2. <<p, t>> \in View(o) <=> <<p, t>> \in links
      BY <2>2, <3>1 DEF AsLoadedOf
    <3>. QED
      BY <3>1, <3>2, ElsewhereView
  <2>3. ASSUME moved'[o] = {}, NEW e \in rest[o], e.op = "unlink"
        PROVE  e.target \notin live'
    <3>1. moved[o] = {}
      BY <2>3 DEF Elsewhere
    <3>. QED
      BY <1>0, <2>3, <3>1 DEF AsLoadedOf
  <2>4. rest'[o] = rest[o] /\ call'[o] = call[o]
    BY DEF Elsewhere
  <2>. QED
    BY <2>1, <2>2, <2>3, <2>4 DEF AsLoadedOf
<1>2. DoneOf(o)'
  <2>. SUFFICES ASSUME Writing(o), NEW i \in 1 .. Done(o), NEW t \in live',
                       <<call[o].jobs[i].parent, t>> \notin since'[o] \cup missed[o]
                PROVE  <<call[o].jobs[i].parent, t>> \in View(o)' <=>
                         t \in call[o].jobs[i].listed /\ ~TakenAfter(o, i, t)
    BY DEF DoneOf, Elsewhere
  <2>1. i \in 1 .. Len(call[o].jobs) /\ t \in live /\ t \in Targets
    <3>1. Len(jobs[o]) \in Nat
      BY DEF Types
    <3>2. ASSUME NEW m \in Nat, NEW n \in Nat, NEW k \in 1 .. (n - m)
          PROVE  k \in 1 .. n
      OBVIOUS
    <3>3. i \in 1 .. Len(call[o].jobs)
      BY <1>0, <3>1, <3>2 DEF Done
    <3>. QED
      BY <1>0, <3>3
  <2>. DEFINE p == call[o].jobs[i].parent
  <2>2. p \in Parents /\ InCall(o, p) /\ <<p, t>> \notin since[o] \cup missed[o]
    BY <1>0, <2>1 DEF Elsewhere
  <2>3. <<p, t>> \in links' <=> <<p, t>> \in links
    BY <2>1, <2>2 DEF Elsewhere
  <2>4. <<p, t>> \in View(o) <=> t \in call[o].jobs[i].listed /\ ~TakenAfter(o, i, t)
    BY <2>1, <2>2 DEF DoneOf
  <2>. QED
    BY <2>1, <2>2, <2>3, <2>4, ElsewhereView
<1>3. NowOf(o)'
  <2>0. at'[o] = "read" /\ call'[o].op = "create" => new'[o] = {}
    BY DEF NowOf, Elsewhere
  <2>. SUFFICES ASSUME at[o] = "statements", NEW t \in live'
                PROVE  LET pair == <<Job(o).parent, t>> IN
                       /\ call[o].op = "create" => (pair \in View(o)' <=> Ran(o, t))
                       /\ Settles(o) /\ Ran(o, t) => pair \in new[o]
                       /\ Diffs(o) => \/ pair \in since'[o] \cup missed[o]
                                      \/ \E e \in rest[o] : e.target = t
                                      \/ pair \in View(o)' <=> t \in Job(o).listed
    BY <2>0 DEF NowOf, Elsewhere
  <2>. DEFINE p == Job(o).parent
  <2>1. t \in live /\ t \in Targets /\ p \in Parents /\ InCall(o, p)
    BY <1>0, Working
  <2>2. call[o].op = "create" => (<<p, t>> \in View(o)' <=> <<p, t>> \in View(o))
    <3>1. ASSUME call[o].op = "create" PROVE <<p, t>> \notin links' /\ <<p, t>> \notin links
      <4>1. p \notin born
        BY <3>1, Working DEF JobsOf, Writing
      <4>2. p \notin born'
        BY <2>1, <3>1, <4>1 DEF Elsewhere
      <4>. QED
        BY <4>1, <4>2
    <3>. QED
      BY <2>1, <3>1, ElsewhereView
  <2>3. <<p, t>> \in since'[o] \/ (<<p, t>> \in View(o)' <=> <<p, t>> \in View(o))
    BY <2>1, ElsewhereView DEF Elsewhere
  <2>4. since[o] \subseteq since'[o]
    BY DEF Elsewhere
  <2>. QED
    BY <2>1, <2>2, <2>3, <2>4 DEF NowOf
<1>. QED
  BY <1>1, <1>2, <1>3

\* So a step elsewhere keeps what holds of a session.
LEMMA ElsewhereKeeps ==
  ASSUME Types, Types', Shared, Shared', NEW o \in Sessions, Elsewhere(o), SessionInv(o)
  PROVE  SessionInv(o)'
BY ElsewhereLocked, ElsewhereRest, ElsewhereWork DEF SessionInv, Shared

-----------------------------------------------------------------------------
(* Reading keeps the invariant.                                            *)

\* A step of another session that commits nothing leaves o as it is.
Untouched(o) ==
  /\ field'[o] = field[o] /\ loadedAs'[o] = loadedAs[o] /\ at'[o] = at[o]
  /\ batch'[o] = batch[o] /\ asked'[o] = asked[o] /\ jobs'[o] = jobs[o]
  /\ rest'[o] = rest[o] /\ call'[o] = call[o] /\ missed'[o] = missed[o]
  /\ gone'[o] = gone[o] /\ new'[o] = new[o] /\ locked'[o] = locked[o]
  /\ moved'[o] = moved[o] /\ since'[o] = since[o]
  /\ always'[o] = always[o] /\ ever'[o] = ever[o]

\* A step that commits nothing need only be examined for its own session.
LEMMA QuietStep ==
  ASSUME IInv, Types', NEW s \in Sessions, UNCHANGED server,
         \A o \in Sessions \ {s} : Untouched(o),
         \A o \in Sessions \ {s} : locked'[s] \cap locked[o] = {}
                                   /\ ~(call'[s].op = "create" /\ call[o].op = "create"),
         SessionInv(s)'
  PROVE  IInv'
<1>1. \A o \in Sessions \ {s} : Elsewhere(o)
  BY DEF Untouched, Elsewhere, server
<1>2. Shared'
  <2>1. (links \subseteq born \X Targets)' /\ Sound(links)'
    BY DEF IInv, Shared, server, Sound, ByKey, OneParent, HasParents
  <2>2. ASSUME NEW o \in Sessions, NEW x \in Sessions, o # x
        PROVE  locked'[o] \cap locked'[x] = {} /\ ~(call'[o].op = "create" /\ call'[x].op = "create")
    BY <2>2 DEF IInv, Shared, Untouched
  <2>. QED
    BY <2>1, <2>2 DEF Shared
<1>. QED
  BY <1>1, <1>2, ElsewhereKeeps DEF IInv

\* A session that is not in a call has changed nothing.
LEMMA RestingInv ==
  ASSUME Types', NEW s \in Sessions, Sound(links)', ~Writing(s)', JobsOf(s)',
         FieldOf(s)', ReadOf(s)', LoadedOf(s)'
  PROVE  SessionInv(s)'
<1>1. /\ call'[s] = NoCall /\ rest'[s] = {} /\ gone'[s] = {} /\ new'[s] = {}
      /\ at'[s] \notin {"read", "statements", "done"}
  BY DEF JobsOf, Writing
<1>2. View(s)' = links'
  BY <1>1 DEF View
<1>3. LockedOf(s)'
  BY <1>1, <1>2 DEF LockedOf
<1>4. RestOf(s)' /\ AsLoadedOf(s)' /\ DoneOf(s)' /\ NowOf(s)'
  BY <1>1 DEF RestOf, AsLoadedOf, DoneOf, NowOf, Writing
<1>. QED
  BY <1>3, <1>4 DEF SessionInv

\* A read that leaves the session out of any call.
LEMMA ReadingStep ==
  ASSUME IInv, Types', NEW s \in Sessions, UNCHANGED <<server, work>>,
         at[s] \in {"idle", "preload"}, at'[s] \in {"idle", "preload", "end"},
         \A o \in Sessions \ {s} : Untouched(o),
         FieldOf(s)', ReadOf(s)', LoadedOf(s)'
  PROVE  IInv'
<1>1. Sound(links)'
  BY DEF IInv, Shared, server, Sound, ByKey, OneParent, HasParents
<1>2. JobsOf(s)' /\ ~Writing(s)'
  BY DEF IInv, SessionInv, JobsOf, Writing, work
<1>3. SessionInv(s)'
  BY <1>1, <1>2, RestingInv
<1>4. \A o \in Sessions \ {s} : locked'[s] \cap locked[o] = {}
                                /\ ~(call'[s].op = "create" /\ call[o].op = "create")
  BY DEF IInv, Shared, work
<1>. QED
  BY <1>3, <1>4, QuietStep

\* A search without a preload.
LEMMA SearchKeeps ==
  ASSUME IInv, Types', NEW s \in Sessions, NEW P \in Rows(s), Search(s, P)
  PROVE  IInv'
<1>. USE DEF IInv, Types
<1>1. UNCHANGED <<server, work>> /\ \A o \in Sessions \ {s} : Untouched(o)
  BY DEF Search, Untouched, work
<1>2. at[s] = "idle" /\ at'[s] = "idle"
  BY DEF Search, Reads
<1>3. P \subseteq born /\ live \subseteq Targets
  BY DEF Rows
<1>4. field'[s] = [p \in Parents |-> IF p \in P THEN Nil ELSE Absent] /\ loadedAs'[s] = field'[s]
  BY DEF Search
<1>5. FieldOf(s)'
  BY <1>3, <1>4 DEF FieldOf, SessionInv, Search, server
<1>6. ReadOf(s)' /\ LoadedOf(s)'
  BY <1>2, <1>4 DEF ReadOf, LoadedOf
<1>. QED
  BY <1>1, <1>2, <1>5, <1>6, ReadingStep

\* The first read of a preload.
LEMMA PreloadKeeps ==
  ASSUME IInv, Types', NEW s \in Sessions, NEW P \in Rows(s), Preload(s, P)
  PROVE  IInv'
<1>. USE DEF IInv, Types
<1>1. UNCHANGED <<server, work>> /\ \A o \in Sessions \ {s} : Untouched(o)
  BY DEF Preload, Untouched, work
<1>2. at[s] = "idle" /\ at'[s] = "preload"
  BY DEF Preload, Reads
<1>3. P \subseteq born
  BY DEF Rows
<1>4. FieldOf(s)'
  BY <1>3 DEF FieldOf, SessionInv, Preload, server
<1>5. /\ batch'[s] = P /\ asked'[s] = links \cap (P \X Targets) /\ links' = links
      /\ always'[s] = asked'[s] /\ ever'[s] = asked'[s]
  BY DEF Preload, Asked, server
<1>6. ReadOf(s)' /\ LoadedOf(s)'
  BY <1>2, <1>5 DEF ReadOf, LoadedOf
<1>. QED
  BY <1>1, <1>2, <1>4, <1>6, ReadingStep

\* A field that is assigned shows the links asked for of the targets there.
LEMMA AssignedShows ==
  ASSUME Types, NEW s \in Sessions, NEW p \in Parents, NEW t \in live
  PROVE  /\ Assigned(asked[s], live, p) # Nil =>
              (t \in Assigned(asked[s], live, p) <=> <<p, t>> \in asked[s])
         /\ Assigned(asked[s], live, p) = Nil => <<p, t>> \notin asked[s]
         /\ Assigned(asked[s], live, p) # Absent
<1>1. live \subseteq Targets /\ kind \in {"O2M", "O2M NOT NULL", "M2M", "M2O"}
  BY SyncAssumption DEF Types
<1>2. CASE asked[s] = {}
  BY <1>2, SyncAssumption DEF Assigned
<1>3. CASE asked[s] # {} /\ kind = "M2M"
  BY <1>1, <1>3, SyncAssumption DEF Assigned, preloadM2M, Of
<1>4. CASE asked[s] # {} /\ kind = "M2O"
  BY <1>1, <1>4, SyncAssumption DEF Assigned, preloadM2O, Of
<1>5. CASE asked[s] # {} /\ kind \notin {"M2M", "M2O"}
  BY <1>1, <1>5, SyncAssumption DEF Assigned, preloadO2M, Of
<1>. QED
  BY <1>2, <1>3, <1>4, <1>5

\* The second read of a preload.
LEMMA PreloadedKeeps ==
  ASSUME IInv, Types', NEW s \in Sessions, Preloaded(s)
  PROVE  IInv'
<1>. USE DEF IInv
<1>1. UNCHANGED <<server, work>> /\ \A o \in Sessions \ {s} : Untouched(o)
  BY DEF Preloaded, Untouched, work, Types
<1>2. at[s] = "preload" /\ at'[s] = "idle"
  BY DEF Preloaded, Types
<1>3. /\ \A p \in Parents : field'[s][p] = IF p \in batch[s] THEN Assigned(asked[s], live, p) ELSE Absent
      /\ loadedAs'[s] = field'[s] /\ batch'[s] = {} /\ moved' = moved
      /\ live' = live /\ links' = links /\ born' = born /\ batch[s] \subseteq born
  BY DEF Preloaded, Types, server, SessionInv, FieldOf
<1>4. FieldOf(s)'
  BY <1>3 DEF FieldOf
<1>5. LoadedOf(s)'
  <2>. SUFFICES ASSUME NEW p \in Parents, NEW t \in live, loadedAs'[s][p] \notin {Absent, Nil},
                       <<p, t>> \notin moved[s]
                PROVE  t \in loadedAs'[s][p] <=> <<p, t>> \in links
    BY <1>3 DEF LoadedOf
  <2>1. p \in batch[s] /\ loadedAs'[s][p] = Assigned(asked[s], live, p)
    BY <1>3
  <2>2. t \in Targets /\ (t \in loadedAs'[s][p] <=> <<p, t>> \in asked[s])
    BY <2>1, AssignedShows DEF Types
  <2>. QED
    BY <1>2, <2>1, <2>2 DEF SessionInv, ReadOf
<1>6. ReadOf(s)'
  BY <1>2 DEF ReadOf
<1>. QED
  BY <1>1, <1>2, <1>4, <1>5, <1>6, ReadingStep

\* A preload that fails.
LEMMA PreloadFailsKeeps ==
  ASSUME IInv, Types', NEW s \in Sessions, PreloadFails(s)
  PROVE  IInv'
<1>. USE DEF IInv
<1>1. UNCHANGED <<server, work>> /\ \A o \in Sessions \ {s} : Untouched(o)
  BY DEF PreloadFails, Untouched, work, Types
<1>2. at[s] = "preload" /\ at'[s] = "idle"
  BY DEF PreloadFails, Types
<1>3. \A p \in Parents : field'[s][p] = Absent /\ loadedAs'[s][p] = Absent
  BY DEF PreloadFails, Types, Unloaded
<1>4. batch'[s] = {}
  BY DEF PreloadFails, Types
<1>5. FieldOf(s)' /\ ReadOf(s)' /\ LoadedOf(s)'
  BY <1>2, <1>3, <1>4 DEF FieldOf, ReadOf, LoadedOf
<1>. QED
  BY <1>1, <1>2, <1>5, ReadingStep

\* The program gives an entity another list.
LEMMA AssignKeeps ==
  ASSUME IInv, Types', NEW s \in Sessions, NEW p \in born, NEW listed \in SUBSET Targets, Assign(s, p, listed)
  PROVE  IInv'
<1>. USE DEF IInv
<1>1. UNCHANGED <<server, work, at, batch, loadedAs, moved>> /\ \A o \in Sessions \ {s} : Untouched(o)
  BY DEF Assign, Untouched, work, Types, truth
<1>2. at[s] = "idle" /\ listed # Absent
  BY SyncAssumption DEF Assign
<1>3. \A q \in Parents : field'[s][q] = IF q = p THEN listed ELSE field[s][q]
  BY DEF Assign, Types
<1>4. FieldOf(s)'
  BY <1>1, <1>2, <1>3 DEF FieldOf, SessionInv, server
<1>5. ReadOf(s)' /\ LoadedOf(s)'
  BY <1>1, <1>2 DEF ReadOf, LoadedOf, SessionInv, server
<1>. QED
  BY <1>1, <1>2, <1>4, <1>5, ReadingStep

\* A Write that the driver refuses.
LEMMA WriteRefusedKeeps ==
  ASSUME IInv, Types', NEW s \in Sessions, WriteRefused(s)
  PROVE  IInv'
<1>. USE DEF IInv
<1>1. UNCHANGED <<server, work, mine, truth>> /\ \A o \in Sessions \ {s} : Untouched(o)
  BY DEF WriteRefused, Untouched, work, mine, Types, truth
<1>2. at[s] = "idle" /\ at'[s] = "end"
  BY DEF WriteRefused, Types
<1>3. FieldOf(s)' /\ ReadOf(s)' /\ LoadedOf(s)'
  BY <1>1, <1>2 DEF FieldOf, ReadOf, LoadedOf, SessionInv, server, mine
<1>. QED
  BY <1>1, <1>2, <1>3, ReadingStep

-----------------------------------------------------------------------------
(* Opening a call keeps the invariant.                                     *)

\* A call opens, with a list of parents to bring in line.
LEMMA OpensKeeps ==
  ASSUME IInv, Types', NEW s \in Sessions, NEW op \in {"write", "create", "update"},
         NEW list \in Seq(JobRecord), NEW asLoaded \in BOOLEAN, Opens(s, op, list, asLoaded),
         list # << >>, ToMany \/ op = "create", op = "create" => Len(list) = 1,
         \A i, j \in 1 .. Len(list) : list[i].parent = list[j].parent => i = j,
         \A i \in 1 .. Len(list) : list[i].parent \in born <=> op # "create",
         op = "create" => \A o \in Sessions : call[o].op # "create",
         asLoaded => \A i \in 1 .. Len(list), t \in live : <<list[i].parent, t>> \notin moved[s] =>
                       (t \in list[i].listed <=> <<list[i].parent, t>> \in links)
  PROVE  IInv'
<1>. USE DEF IInv
<1>1. /\ UNCHANGED <<server, rest, gone, new, locked, batch, asked, missed>>
      /\ \A o \in Sessions \ {s} : Untouched(o)
  BY DEF Opens, Untouched, Types
<1>2. /\ at[s] = "idle" /\ at'[s] = "read" /\ jobs'[s] = list
      /\ call'[s].op = op /\ call'[s].jobs = list /\ call'[s].asLoaded = asLoaded
      /\ asLoaded => moved'[s] = moved[s]
  BY DEF Opens, Types
<1>3. rest[s] = {} /\ gone[s] = {} /\ new[s] = {}
  BY <1>2 DEF SessionInv, JobsOf, Writing
<1>4. View(s)' = links /\ links' = links /\ live' = live /\ born' = born /\ kind' = kind
  BY <1>1, <1>3 DEF View, server
<1>5. Len(list) \in Nat /\ Done(s)' = 0
  BY <1>2 DEF Done
<1>6. LockedOf(s)'
  BY <1>1, <1>3, <1>4 DEF LockedOf, Shared, Sound, ByKey, OneParent, HasParents
<1>7. JobsOf(s)'
  BY <1>2, <1>4, <1>5 DEF JobsOf, Writing, ToMany
<1>8. RestOf(s)'
  BY <1>1, <1>3 DEF RestOf
<1>9. FieldOf(s)'
  <2>1. \A p \in Parents : field'[s][p] = Absent /\ loadedAs'[s][p] = Absent
    BY DEF Opens, Types, Unloaded
  <2>. QED
    BY <1>1, <1>4, <2>1 DEF FieldOf, SessionInv
<1>10. ReadOf(s)' /\ LoadedOf(s)'
  BY <1>2 DEF ReadOf, LoadedOf
<1>11. AsLoadedOf(s)'
  BY <1>1, <1>2, <1>3, <1>4 DEF AsLoadedOf
<1>12. DoneOf(s)' /\ NowOf(s)'
  BY <1>1, <1>2, <1>3, <1>5 DEF DoneOf, NowOf
<1>13. SessionInv(s)'
  BY <1>6, <1>7, <1>8, <1>9, <1>10, <1>11, <1>12 DEF SessionInv
<1>14. \A o \in Sessions \ {s} : locked'[s] \cap locked[o] = {}
                                 /\ ~(call'[s].op = "create" /\ call[o].op = "create")
  BY <1>1, <1>2 DEF Shared
<1>. QED
  BY <1>1, <1>13, <1>14, QuietStep

\* Write opens.
LEMMA WriteKeeps ==
  ASSUME IInv, Types', NEW s \in Sessions, Write(s)
  PROVE  IInv'
<1>. DEFINE W == {p \in Parents : field[s][p] \notin {Absent, Nil}}
<1>1. Types /\ ToMany /\ at[s] = "idle"
  BY DEF IInv, Write, Opens
<1>2. PICK o \in Orders(W), asLoaded \in BOOLEAN :
        LET list == [i \in DOMAIN o |-> [parent |-> o[i], listed |-> field[s][o[i]]]] IN
        /\ o # << >> /\ list \in Seq(JobRecord) /\ Opens(s, "write", list, asLoaded)
        /\ asLoaded <=> field[s] = loadedAs[s]
  BY <1>1, WriteJobs
<1>3. /\ DOMAIN o = 1 .. Cardinality(W) /\ Cardinality(W) \in Nat
      /\ \A i \in DOMAIN o : o[i] \in W
      /\ \A i, j \in DOMAIN o : o[i] = o[j] => i = j
  BY OrderType
<1>. DEFINE list == [i \in DOMAIN o |-> [parent |-> o[i], listed |-> field[s][o[i]]]]
<1>4. list \in Seq(JobRecord) /\ DOMAIN list = DOMAIN o /\ DOMAIN list = 1 .. Len(list)
  BY <1>2
<1>5. list # << >>
  <2>1. o = [i \in DOMAIN o |-> o[i]]
    BY <1>3 DEF Orders
  <2>2. DOMAIN o # {}
    BY <1>2, <2>1
  <2>. QED
    BY <1>4, <2>2
<1>6. \A i \in 1 .. Len(list) : list[i].parent = o[i] /\ list[i].listed = field[s][o[i]]
  BY <1>4
<1>7. \A i, j \in 1 .. Len(list) : list[i].parent = list[j].parent => i = j
  BY <1>3, <1>4, <1>6
<1>8. \A i \in 1 .. Len(list) : list[i].parent \in born
  BY <1>3, <1>4, <1>6 DEF IInv, SessionInv, FieldOf
<1>9. asLoaded => \A i \in 1 .. Len(list), t \in live : <<list[i].parent, t>> \notin moved[s] =>
                    (t \in list[i].listed <=> <<list[i].parent, t>> \in links)
  <2>. SUFFICES ASSUME asLoaded, NEW i \in 1 .. Len(list), NEW t \in live, <<o[i], t>> \notin moved[s]
                PROVE  t \in field[s][o[i]] <=> <<o[i], t>> \in links
    BY <1>6
  <2>1. field[s] = loadedAs[s] /\ o[i] \in W
    BY <1>2, <1>3, <1>4
  <2>. QED
    BY <1>1, <2>1 DEF IInv, SessionInv, LoadedOf
<1>10. Opens(s, "write", list, asLoaded)
  BY <1>2
<1>. HIDE DEF list
<1>. QED
  BY <1>1, <1>4, <1>5, <1>7, <1>8, <1>9, <1>10, OpensKeeps

\* An Update that assigns the relation opens.
LEMMA UpdateKeeps ==
  ASSUME IInv, Types', NEW s \in Sessions, NEW P \in Rows(s), NEW listed \in SUBSET Targets, Update(s, P, listed)
  PROVE  IInv'
<1>1. Types /\ ToMany /\ P \in SUBSET born /\ P \in SUBSET Parents
  BY DEF IInv, Types, Update, Rows
<1>2. PICK o \in Orders(P) :
        LET list == [i \in DOMAIN o |-> [parent |-> o[i], listed |-> listed]] IN
        list \in Seq(JobRecord) /\ Opens(s, "update", list, FALSE)
  BY <1>1, UpdateJobs
<1>3. /\ DOMAIN o = 1 .. Cardinality(P) /\ Cardinality(P) \in Nat
      /\ \A i \in DOMAIN o : o[i] \in P
      /\ \A i, j \in DOMAIN o : o[i] = o[j] => i = j
  BY <1>1, OrderType
<1>. DEFINE list == [i \in DOMAIN o |-> [parent |-> o[i], listed |-> listed]]
<1>4. list \in Seq(JobRecord) /\ DOMAIN list = DOMAIN o /\ DOMAIN list = 1 .. Len(list)
  BY <1>2
<1>5. list # << >>
  <2>1. Cardinality(P) \in 1 .. MaxRows[s]
    BY DEF Rows
  <2>2. Cardinality(P) >= 1
    <3>1. MaxRows[s] \in Nat
      BY SyncAssumption
    <3>. QED
      BY <1>3, <2>1, <3>1
  <2>3. 1 \in DOMAIN o
    BY <1>3, <2>2
  <2>. QED
    BY <1>4, <2>3
<1>6. \A i \in 1 .. Len(list) : list[i].parent = o[i]
  BY <1>4
<1>7. \A i, j \in 1 .. Len(list) : list[i].parent = list[j].parent => i = j
  BY <1>3, <1>4, <1>6
<1>8. \A i \in 1 .. Len(list) : list[i].parent \in born
  BY <1>1, <1>3, <1>4, <1>6
<1>9. Opens(s, "update", list, FALSE)
  BY <1>2
<1>. HIDE DEF list
<1>. QED
  BY <1>1, <1>4, <1>5, <1>7, <1>8, <1>9, OpensKeeps

\* Create opens.
LEMMA CreateKeeps ==
  ASSUME IInv, Types', NEW s \in Sessions, NEW p \in Parents, NEW listed \in SUBSET Targets, Create(s, p, listed)
  PROVE  IInv'
<1>. DEFINE list == <<[parent |-> p, listed |-> listed]>>
<1>1. Types
  BY DEF IInv
<1>2. list \in Seq(JobRecord) /\ Opens(s, "create", list, FALSE)
  BY <1>1, CreateJobs
<1>3. p \notin born /\ \A o \in Sessions : call[o].op # "create"
  BY DEF Create
<1>4. list # << >> /\ Len(list) = 1 /\ list[1].parent = p
  OBVIOUS
<1>. HIDE DEF list
<1>5. \A i \in 1 .. Len(list) : i = 1
  BY <1>4
<1>. QED
  BY <1>2, <1>3, <1>4, <1>5, OpensKeeps

-----------------------------------------------------------------------------
(* The statements of a call keep the invariant.                            *)

\* What a transaction has removed and added, and what it reads.
LEMMA ChangesOwn ==
  ASSUME Types, NEW s \in Sessions, NEW R, NEW A, Changes(s, R, A)
  PROVE  /\ gone'[s] = (gone[s] \cup R) \ A /\ new'[s] = (new[s] \ R) \cup A
         /\ links' = links => View(s)' = (View(s) \ R) \cup A
BY DEF Types, Changes, View

\* The rows it holds.
LEMMA ChangesRows ==
  ASSUME Types, NEW s \in Sessions, NEW R, NEW A, Changes(s, R, A)
  PROVE  \A row : row \in locked'[s] <=>
           row \in locked[s] \/ \E pair \in R \cup A : row = RowOf(pair[1], pair[2])
<1>1. locked'[s] = locked[s] \cup {RowOf(pair[1], pair[2]) : pair \in R \cup A}
  BY DEF Types, Changes
<1>. QED
  BY <1>1

\* The links a transaction changes, it holds the rows of.
LEMMA ChangesLocked ==
  ASSUME Types, NEW s \in Sessions, LockedOf(s),
         NEW R \in SUBSET Pairs, NEW A \in SUBSET Pairs, Changes(s, R, A),
         UNCHANGED server, call'[s] = call[s],
         \A p \in Parents, t \in Targets : <<p, t>> \in A => InCall(s, p),
         Sound((View(s) \ R) \cup A)
  PROVE  LockedOf(s)'
<1>1. /\ gone'[s] = (gone[s] \cup R) \ A /\ new'[s] = (new[s] \ R) \cup A
      /\ \A row : row \in locked'[s] <=>
           row \in locked[s] \/ \E pair \in R \cup A : row = RowOf(pair[1], pair[2])
      /\ View(s)' = (View(s) \ R) \cup A
  BY ChangesOwn, ChangesRows DEF server
<1>2. UNCHANGED <<kind, live>>
  BY DEF server
<1>3. gone'[s] \cap new'[s] = {}
  BY <1>1 DEF LockedOf
<1>4. ASSUME NEW p \in Parents, NEW t \in Targets, <<p, t>> \in gone'[s] \cup new'[s]
      PROVE  RowOf(p, t)' \in locked'[s]
  <2>1. RowOf(p, t)' = RowOf(p, t)
    BY <1>2 DEF RowOf, ByKey
  <2>2. CASE <<p, t>> \in R \cup A
    BY <1>1, <2>1, <2>2
  <2>3. CASE <<p, t>> \in gone[s] \cup new[s]
    BY <1>1, <2>1, <2>3 DEF LockedOf
  <2>. QED
    BY <1>1, <1>4, <2>2, <2>3
<1>5. ASSUME NEW p \in Parents, NEW t \in Targets, <<p, t>> \in new'[s]
      PROVE  InCall(s, p)'
  BY <1>1, <1>5 DEF LockedOf, InCall
<1>6. Sound(View(s))'
  <2>1. Sound(View(s)') /\ (ByKey)' = ByKey
    BY <1>1, <1>2 DEF ByKey
  <2>. QED
    BY <1>2, <2>1 DEF Sound, OneParent, HasParents
<1>. QED
  BY <1>3, <1>4, <1>5, <1>6 DEF LockedOf

\* It holds no row another transaction holds, if the rows it takes are free.
LEMMA ChangesFree ==
  ASSUME Types, Shared, NEW s \in Sessions,
         NEW R \in SUBSET Pairs, NEW A \in SUBSET Pairs, Changes(s, R, A), call'[s] = call[s],
         \A pair \in R \cup A : Free(s, RowOf(pair[1], pair[2]))
  PROVE  \A o \in Sessions \ {s} : locked'[s] \cap locked[o] = {}
                                   /\ ~(call'[s].op = "create" /\ call[o].op = "create")
<1>1. \A row : row \in locked'[s] <=>
        row \in locked[s] \/ \E pair \in R \cup A : row = RowOf(pair[1], pair[2])
  BY ChangesRows
<1>. QED
  BY <1>1 DEF Free, Shared

\* The links of the first parent are read, and the statements for it follow from them.
LEMMA ReadLinksKeeps ==
  ASSUME IInv, Types', NEW s \in Sessions, ReadLinks(s)
  PROVE  IInv'
<1>. USE DEF IInv
<1>1. /\ UNCHANGED <<server, mine, jobs, call, gone, new, locked, always, ever, moved>>
      /\ at[s] = "read" /\ at'[s] = "statements"
      /\ SessionInv(s) /\ JobsOf(s) /\ Types
  BY DEF ReadLinks, SessionInv, Types
<1>. DEFINE p == Job(s).parent
            listed == Job(s).listed
<1>2. PICK existing \in SUBSET Of(View(s), p) :
        /\ rest'[s] = Statements(existing, listed)
        /\ ~Diffs(s) => existing = {}
        /\ Diffs(s) => \A t \in Of(View(s), p) \ existing : <<p, t>> \in missed'[s]
  <2>1. PICK existing \in SUBSET Of(View(s), p) :
          /\ rest' = [rest EXCEPT ![s] = Statements(existing, listed)]
          /\ ~Diffs(s) => existing = {}
          /\ Diffs(s) => \A t \in Of(View(s), p) \ existing : <<p, t>> \in missed'[s]
    BY <1>1, ReadLinksEffect
  <2>2. rest'[s] = Statements(existing, listed)
    BY <1>1, <2>1 DEF Types
  <2>. QED
    BY <2>1, <2>2
<1>3. /\ missed[s] \subseteq missed'[s]
      /\ since'[s] = IF Diffs(s) THEN {pair \in since[s] : pair[1] # p} ELSE since[s]
      /\ \A o \in Sessions \ {s} : rest'[o] = rest[o] /\ missed'[o] = missed[o] /\ since'[o] = since[o]
  BY <1>1, ReadLinksEffect
<1>4. \A o \in Sessions \ {s} : Untouched(o)
  BY <1>1, <1>3 DEF Untouched, mine, ReadLinks, Types
<1>5. /\ p \in Parents /\ listed \in SUBSET Targets /\ Done(s) \in Nat
      /\ Done(s) + 1 \in 1 .. Len(call[s].jobs) /\ Job(s) = call[s].jobs[Done(s) + 1]
      /\ jobs[s] # << >> /\ existing \in SUBSET Targets
  BY <1>1, Working DEF Of
<1>6. \A t \in Targets :
        /\ [op |-> "link", target |-> t] \in rest'[s] <=> t \in listed \ existing
        /\ [op |-> "unlink", target |-> t] \in rest'[s] <=> t \in existing \ listed
  <2>. HIDE DEF listed
  <2>1. \A t \in Targets :
          /\ [op |-> "link", target |-> t] \in Statements(existing, listed) <=> t \in listed \ existing
          /\ [op |-> "unlink", target |-> t] \in Statements(existing, listed) <=> t \in existing \ listed
    BY <1>5, StatementsType, Zenon
  <2>. QED
    BY <1>2, <2>1
<1>7. \A e \in rest'[s] : /\ e \in Statement
                          /\ e.op = "link" => e.target \in listed \ existing
                          /\ e.op = "unlink" => e.target \in existing \ listed
                          /\ e.op # "link" => e.op = "unlink"
  <2>1. \A e \in Statement : e = [op |-> e.op, target |-> e.target] /\ e.op \in {"link", "unlink"} /\ e.target \in Targets
    BY DEF Statement
  <2>2. rest'[s] \subseteq Statement
    BY DEF Types
  <2>. SUFFICES ASSUME NEW e \in rest'[s]
                PROVE  /\ e.op = "link" => e.target \in listed \ existing
                       /\ e.op = "unlink" => e.target \in existing \ listed
    BY <2>1, <2>2
  <2>3. e.target \in Targets /\ e = [op |-> e.op, target |-> e.target]
    BY <2>1, <2>2
  <2>. HIDE DEF listed
  <2>4. ASSUME e.op = "link" PROVE e.target \in listed \ existing
    <3>1. [op |-> "link", target |-> e.target] \in rest'[s]
      BY <2>3, <2>4
    <3>. QED
      BY <1>6, <2>3, <3>1
  <2>5. ASSUME e.op = "unlink" PROVE e.target \in existing \ listed
    <3>1. [op |-> "unlink", target |-> e.target] \in rest'[s]
      BY <2>3, <2>5
    <3>. QED
      BY <1>6, <2>3, <3>1
  <2>. QED
    BY <2>4, <2>5
<1>8. /\ View(s)' = View(s) /\ Done(s)' = Done(s) /\ Job(s)' = Job(s) /\ (ByKey)' = ByKey
      /\ Diffs(s)' = Diffs(s) /\ Settles(s)' = Settles(s) /\ live' = live /\ links' = links /\ born' = born
      /\ moved' = moved /\ call' = call /\ new' = new
  BY <1>1 DEF View, Done, Job, ByKey, server, Diffs, Settles
<1>9. LockedOf(s)'
  <2>1. Sound(View(s))'
    <3>1. Sound(View(s)) /\ kind' = kind
      BY <1>1 DEF LockedOf, SessionInv, server
    <3>2. Sound(View(s)') /\ (ByKey)' = ByKey
      BY <1>8, <3>1
    <3>3. live' = live /\ kind' = kind
      BY <1>8, <3>1
    <3>. QED
      BY <3>2, <3>3 DEF Sound, OneParent, HasParents
  <2>2. \A q, t : RowOf(q, t)' = RowOf(q, t)
    BY <1>1, <1>8 DEF RowOf, server
  <2>. QED
    BY <1>1, <2>1, <2>2 DEF LockedOf, SessionInv, InCall
<1>10. JobsOf(s)'
  BY <1>1, <1>5, <1>8 DEF JobsOf, Writing, ToMany, server
<1>11. RestOf(s)'
  BY <1>1, <1>2, <1>7, <1>8 DEF RestOf
<1>12. FieldOf(s)' /\ ReadOf(s)' /\ LoadedOf(s)'
  BY <1>1, <1>8 DEF FieldOf, ReadOf, LoadedOf, SessionInv, mine
<1>13. AsLoadedOf(s)'
  <2>1. ASSUME call[s].asLoaded, moved[s] = {}, NEW e \in rest'[s], e.op = "unlink", e.target \in live
        PROVE  FALSE
    <3>1. <<p, e.target>> \in View(s) /\ e.target \notin listed
      BY <1>7, <2>1 DEF Of
    <3>2. <<p, e.target>> \in links
      BY <1>1, <1>5, <2>1, <3>1 DEF SessionInv, AsLoadedOf, Writing
    <3>. QED
      BY <1>1, <1>5, <2>1, <3>1, <3>2 DEF SessionInv, AsLoadedOf, Writing
  <2>. QED
    BY <1>1, <1>8, <2>1 DEF AsLoadedOf, SessionInv, Writing
<1>14. DoneOf(s)'
  <2>. SUFFICES ASSUME NEW i \in 1 .. Done(s), NEW t \in live,
                       <<call[s].jobs[i].parent, t>> \notin since'[s] \cup missed'[s]
                PROVE  <<call[s].jobs[i].parent, t>> \in View(s) <=>
                         t \in call[s].jobs[i].listed /\ ~TakenAfter(s, i, t)'
    BY <1>8 DEF DoneOf
  <2>1. t \in Targets /\ i \in 1 .. Len(call[s].jobs) /\ i # Done(s) + 1
    BY <1>1, <1>5 DEF Types
  <2>2. call[s].jobs[i].parent # p
    BY <1>1, <1>5, <2>1 DEF JobsOf, Writing
  <2>3. <<call[s].jobs[i].parent, t>> \notin since[s] \cup missed[s]
    BY <1>3, <2>2
  <2>4. TakenAfter(s, i, t)' <=> TakenAfter(s, i, t)
    <3>1. ~Ran(s, t)
      BY <1>1 DEF Ran
    <3>2. ByKey => ~Ran(s, t)'
      <4>1. ByKey => ~Diffs(s)
        BY DEF ByKey, Diffs
      <4>2. ByKey => existing = {}
        BY <1>2, <4>1
      <4>. QED
        BY <1>6, <1>8, <2>1, <4>2 DEF Ran
    <3>. QED
      BY <1>8, <3>1, <3>2 DEF TakenAfter
  <2>. QED
    BY <1>1, <2>3, <2>4 DEF SessionInv, DoneOf, Writing
<1>15. NowOf(s)'
  <2>. SUFFICES ASSUME NEW t \in live
                PROVE  /\ call[s].op = "create" => (<<p, t>> \in View(s) <=> Ran(s, t)')
                       /\ Settles(s) /\ Ran(s, t)' => <<p, t>> \in new[s]
                       /\ Diffs(s) => \/ <<p, t>> \in since'[s] \cup missed'[s]
                                      \/ \E e \in rest'[s] : e.target = t
                                      \/ <<p, t>> \in View(s) <=> t \in listed
    BY <1>1, <1>8 DEF NowOf
  <2>1. t \in Targets
    BY <1>1 DEF Types
  <2>2. ~Diffs(s) => ~Ran(s, t)'
    BY <1>2, <1>6, <1>8, <2>1 DEF Ran
  <2>3. call[s].op = "create" => ~Diffs(s) /\ <<p, t>> \notin View(s)
    <3>1. ASSUME call[s].op = "create" PROVE <<p, t>> \notin View(s)
      <4>1. p \notin born /\ new[s] = {}
        BY <1>1, <1>5, <3>1 DEF JobsOf, SessionInv, NowOf, Writing
      <4>. QED
        BY <4>1 DEF View, Shared
    <3>. QED
      BY <3>1 DEF Diffs
  <2>4. Settles(s) => ~Diffs(s)
    BY DEF Settles, Diffs, ByKey
  <2>5. ASSUME Diffs(s), <<p, t>> \notin missed'[s], ~\E e \in rest'[s] : e.target = t
        PROVE  <<p, t>> \in View(s) <=> t \in listed
    <3>1. t \notin listed \ existing /\ t \notin existing \ listed
      <4>1. [op |-> "link", target |-> t].target = t /\ [op |-> "unlink", target |-> t].target = t
        OBVIOUS
      <4>. QED
        BY <1>6, <2>1, <2>5, <4>1
    <3>2. t \in existing <=> <<p, t>> \in View(s)
      BY <1>2, <2>1, <2>5 DEF Of
    <3>. QED
      BY <3>1, <3>2
  <2>. QED
    BY <2>2, <2>3, <2>4, <2>5
<1>16. SessionInv(s)'
  BY <1>9, <1>10, <1>11, <1>12, <1>13, <1>14, <1>15 DEF SessionInv
<1>17. \A o \in Sessions \ {s} : locked'[s] \cap locked[o] = {}
                                 /\ ~(call'[s].op = "create" /\ call[o].op = "create")
  BY <1>1 DEF Shared
<1>. QED
  BY <1>1, <1>4, <1>16, <1>17, QuietStep

\* No change at all.
LEMMA ChangesNothing ==
  ASSUME Types, NEW s \in Sessions, UNCHANGED <<gone, new, locked>>
  PROVE  Changes(s, {}, {})
<1>1. {RowOf(pair[1], pair[2]) : pair \in {} \cup {}} = {}
  OBVIOUS
<1>2. /\ gone = [gone EXCEPT ![s] = (gone[s] \cup {}) \ {}]
      /\ new = [new EXCEPT ![s] = (new[s] \ {}) \cup {}]
      /\ locked = [locked EXCEPT ![s] = locked[s] \cup {}]
  BY DEF Types
<1>. QED
  BY <1>1, <1>2 DEF Changes

\* The links of the other sessions' transactions are theirs.
LEMMA ChangesOthers ==
  ASSUME Types, NEW s \in Sessions, NEW R, NEW A, Changes(s, R, A)
  PROVE  \A o \in Sessions \ {s} : gone'[o] = gone[o] /\ new'[o] = new[o] /\ locked'[o] = locked[o]
BY DEF Types, Changes

\* What a statement of a job leaves as it was.
StatementSame(s) ==
  /\ kind' = kind /\ born' = born /\ live' = live /\ links' = links
  /\ moved' = moved /\ since' = since /\ missed' = missed /\ call' = call
  /\ jobs' = jobs /\ at' = at
  /\ (ByKey)' = ByKey /\ Job(s)' = Job(s) /\ Done(s)' = Done(s)
  /\ Diffs(s)' = Diffs(s) /\ Settles(s)' = Settles(s)

\* A statement for the first job: what has to be examined.
LEMMA StatementStep ==
  ASSUME IInv, Types', NEW s \in Sessions, at[s] = "statements",
         NEW R \in SUBSET Pairs, NEW A \in SUBSET Pairs, Changes(s, R, A),
         \A pair \in R \cup A : Free(s, RowOf(pair[1], pair[2])),
         \A p \in Parents, t \in Targets : <<p, t>> \in A => InCall(s, p),
         Sound((View(s) \ R) \cup A),
         UNCHANGED <<server, mine, at, jobs, call, missed, truth>>,
         NEW e, rest' = [rest EXCEPT ![s] = @ \ {e}],
         StatementSame(s) /\ rest'[s] = rest[s] \ {e} /\ View(s)' = (View(s) \ R) \cup A
           /\ new'[s] = (new[s] \ R) \cup A
           => AsLoadedOf(s)' /\ DoneOf(s)' /\ NowOf(s)'
  PROVE  IInv'
<1>. USE DEF IInv
<1>1. Types /\ Shared /\ SessionInv(s)
  OBVIOUS
<1>2. StatementSame(s)
  BY DEF StatementSame, server, truth, ByKey, Job, Done, Diffs, Settles
<1>3. rest'[s] = rest[s] \ {e} /\ \A o \in Sessions \ {s} : rest'[o] = rest[o]
  BY DEF Types
<1>4. View(s)' = (View(s) \ R) \cup A /\ new'[s] = (new[s] \ R) \cup A
  BY <1>1, <1>2, ChangesOwn DEF StatementSame
<1>5. AsLoadedOf(s)' /\ DoneOf(s)' /\ NowOf(s)'
  BY <1>2, <1>3, <1>4
<1>6. LockedOf(s)'
  BY <1>1, ChangesLocked DEF SessionInv
<1>7. JobsOf(s)'
  BY <1>1, <1>2 DEF SessionInv, JobsOf, Writing, StatementSame, ToMany
<1>8. RestOf(s)'
  BY <1>1, <1>2, <1>3 DEF SessionInv, RestOf, StatementSame
<1>9. FieldOf(s)' /\ ReadOf(s)' /\ LoadedOf(s)'
  BY <1>1, <1>2 DEF SessionInv, FieldOf, ReadOf, LoadedOf, StatementSame, mine
<1>10. SessionInv(s)'
  BY <1>5, <1>6, <1>7, <1>8, <1>9 DEF SessionInv
<1>11. \A o \in Sessions \ {s} : Untouched(o)
  BY <1>1, <1>3, ChangesOthers DEF Untouched, mine, truth
<1>12. \A o \in Sessions \ {s} : locked'[s] \cap locked[o] = {}
                                 /\ ~(call'[s].op = "create" /\ call[o].op = "create")
  BY <1>1, ChangesFree
<1>. QED
  BY <1>10, <1>11, <1>12, QuietStep

\* Statements for other targets are as they were.
LEMMA OtherTarget ==
  ASSUME NEW S, NEW op, NEW t, NEW u, u # t,
         NEW T, T = S \ {[op |-> op, target |-> t]}
  PROVE  /\ [op |-> "link", target |-> u] \in T <=> [op |-> "link", target |-> u] \in S
         /\ (\E e \in S : e.target = u) => \E e \in T : e.target = u
<1>1. [op |-> op, target |-> t].target = t /\ [op |-> "link", target |-> u].target = u
  OBVIOUS
<1>. QED
  BY <1>1

\* A parent brought in line before is not the one at hand.
LEMMA EarlierParent ==
  ASSUME Types, NEW s \in Sessions, JobsOf(s), at[s] = "statements", NEW i \in 1 .. Done(s)
  PROVE  /\ i \in 1 .. Len(call[s].jobs) /\ call[s].jobs[i].parent # Job(s).parent
         /\ call[s].jobs[i].parent \in Parents /\ call[s].jobs[i].listed \in SUBSET Targets
         /\ InCall(s, call[s].jobs[i].parent)
<1>1. /\ Done(s) \in Nat /\ Done(s) + 1 \in 1 .. Len(call[s].jobs)
      /\ Job(s) = call[s].jobs[Done(s) + 1] /\ call[s].jobs \in Seq(JobRecord) /\ Writing(s)
  BY Working DEF Types, CallRecord, Writing
<1>2. i \in 1 .. Len(call[s].jobs) /\ i # Done(s) + 1
  BY <1>1
<1>3. call[s].jobs[i].parent # Job(s).parent
  BY <1>1, <1>2 DEF JobsOf
<1>4. call[s].jobs[i] \in JobRecord /\ InCall(s, call[s].jobs[i].parent)
  BY <1>1, <1>2 DEF InCall
<1>. QED
  BY <1>2, <1>3, <1>4 DEF JobRecord

\* A statement that unlinks a target.
LEMMA UnlinkKeeps ==
  ASSUME IInv, Types', NEW s \in Sessions, NEW t \in Targets, Unlink(s, t)
  PROVE  IInv'
<1>. DEFINE p == Job(s).parent
            R == {<<p, t>>} \cap View(s)
            e == [op |-> "unlink", target |-> t]
<1>1. Types /\ Shared /\ SessionInv(s) /\ JobsOf(s) /\ at[s] = "statements" /\ e \in rest[s]
  BY DEF IInv, SessionInv, Unlink
<1>2. /\ R \in SUBSET Pairs /\ Changes(s, R, {}) /\ rest' = [rest EXCEPT ![s] = @ \ {e}]
      /\ UNCHANGED <<server, mine, at, jobs, call, missed, truth>>
  BY <1>1, UnlinkEffect DEF Unlink
<1>3. Diffs(s) /\ t \notin Job(s).listed
  <2>1. e.op = "unlink" /\ e.target = t
    OBVIOUS
  <2>. HIDE DEF e
  <2>. QED
    BY <1>1, <2>1 DEF SessionInv, RestOf
<1>4. ~ByKey /\ kind # "O2M NOT NULL" /\ call[s].op # "create" /\ ~Settles(s)
  BY <1>3 DEF Diffs, ByKey, Settles
<1>5. p \in Parents
  BY <1>1, Working
<1>6. \A pair \in R \cup {} : Free(s, RowOf(pair[1], pair[2]))
  <2>1. Free(s, RowOf(p, t))
    BY DEF Unlink
  <2>2. \A pair \in R : pair = <<p, t>>
    OBVIOUS
  <2>. QED
    BY <2>1, <2>2
<1>7. Sound((View(s) \ R) \cup {})
  BY <1>4 DEF Sound
<1>8. ASSUME StatementSame(s), rest'[s] = rest[s] \ {e}, View(s)' = (View(s) \ R) \cup {},
             new'[s] = (new[s] \ R) \cup {}
      PROVE  AsLoadedOf(s)' /\ DoneOf(s)' /\ NowOf(s)'
  <2>1. AsLoadedOf(s)'
    <3>1. ASSUME call[s].asLoaded, moved[s] = {}
          PROVE  t \notin live
      <4>1. e \in rest[s] /\ e.op = "unlink" /\ e.target = t
        BY <1>1
      <4>. HIDE DEF e
      <4>. QED
        BY <1>1, <3>1, <4>1 DEF SessionInv, AsLoadedOf, Writing
    <3>2. \A q \in Parents, u \in Targets : u # t => (<<q, u>> \in View(s)' <=> <<q, u>> \in View(s))
      BY <1>8
    <3>3. live \subseteq Targets
      BY <1>1 DEF Types
    <3>. HIDE DEF e, R
    <3>. QED
      BY <1>1, <1>8, <3>1, <3>2, <3>3 DEF SessionInv, AsLoadedOf, Writing, StatementSame
  <2>2. DoneOf(s)'
    <3>. SUFFICES ASSUME NEW i \in 1 .. Done(s), NEW u \in live,
                         <<call[s].jobs[i].parent, u>> \notin since[s] \cup missed[s]
                  PROVE  <<call[s].jobs[i].parent, u>> \in View(s)' <=>
                           u \in call[s].jobs[i].listed /\ ~TakenAfter(s, i, u)'
      BY <1>8 DEF DoneOf, StatementSame
    <3>1. call[s].jobs[i].parent # p
      BY <1>1, EarlierParent
    <3>2. ~TakenAfter(s, i, u)' /\ ~TakenAfter(s, i, u)
      BY <1>4, <1>8 DEF TakenAfter, StatementSame
    <3>3. <<call[s].jobs[i].parent, u>> \in View(s)' <=> <<call[s].jobs[i].parent, u>> \in View(s)
      BY <1>8, <3>1
    <3>. QED
      BY <1>1, <3>2, <3>3 DEF SessionInv, DoneOf, Writing
  <2>3. NowOf(s)'
    <3>. SUFFICES ASSUME NEW u \in live,
                         <<p, u>> \notin since[s] \cup missed[s], ~\E f \in rest'[s] : f.target = u
                  PROVE  <<p, u>> \in View(s)' <=> u \in Job(s).listed
      BY <1>1, <1>4, <1>8 DEF NowOf, StatementSame
    <3>1. CASE u = t
      BY <1>3, <1>8, <3>1
    <3>2. CASE u # t
      <4>1. ~\E f \in rest[s] : f.target = u
        BY <1>8, <3>2, OtherTarget
      <4>2. <<p, u>> \in View(s)' <=> <<p, u>> \in View(s)
        BY <1>8, <3>2
      <4>. QED
        BY <1>1, <1>3, <4>1, <4>2 DEF SessionInv, NowOf
    <3>. QED
      BY <3>1, <3>2
  <2>. QED
    BY <2>1, <2>2, <2>3
<1>9. {} \in SUBSET Pairs /\ \A q \in Parents, u \in Targets : <<q, u>> \in {} => InCall(s, q)
  OBVIOUS
<1>. HIDE DEF e, R
<1>. QED
  BY <1>1, <1>2, <1>6, <1>7, <1>8, <1>9, StatementStep, Zenon

\* A statement that links a target, or finds that it has gone.  A live target
\* other than t has the parents it had.
LEMMA LinkKeeps ==
  ASSUME IInv, Types', NEW s \in Sessions, NEW t \in Targets, Link(s, t)
  PROVE  IInv'
<1>. DEFINE p == Job(s).parent
            e == [op |-> "link", target |-> t]
<1>1. /\ Types /\ Shared /\ SessionInv(s) /\ JobsOf(s) /\ at[s] = "statements" /\ e \in rest[s]
      /\ rest' = [rest EXCEPT ![s] = @ \ {e}]
      /\ UNCHANGED <<server, mine, at, jobs, call, missed, truth>>
      /\ live \subseteq Targets
  BY DEF IInv, SessionInv, Link, Types
<1>2. p \in Parents /\ t \in Job(s).listed /\ InCall(s, p)
  <2>1. e.op = "link" /\ e.target = t
    OBVIOUS
  <2>. HIDE DEF e
  <2>. QED
    BY <1>1, <2>1, Working DEF SessionInv, RestOf
<1>. HIDE DEF p
<1>3. ASSUME NEW u \in live, u # t, rest'[s] = rest[s] \ {e}, StatementSame(s)
      PROVE  /\ Ran(s, u)' <=> Ran(s, u)
             /\ (\E f \in rest[s] : f.target = u) => \E f \in rest'[s] : f.target = u
  BY <1>3, OtherTarget DEF Ran, StatementSame
<1>4. CASE Changes(s, Took(s, t), {<<p, t>>}) /\ Took(s, t) \in SUBSET Pairs /\ {<<p, t>>} \in SUBSET Pairs
           /\ (t \in live \/ ~ByKey)
  <2>. DEFINE R == Took(s, t)
              A == {<<p, t>>}
  <2>1. \A pair \in R : ByKey /\ pair[2] = t /\ pair[1] # p /\ pair \in View(s)
    BY DEF Took, p
  <2>2. \A q \in Parents : q # p /\ ByKey /\ <<q, t>> \in View(s) => <<q, t>> \in R
    BY DEF Took, p
  <2>. HIDE DEF R
  <2>3. \A pair \in R \cup A : Free(s, RowOf(pair[1], pair[2]))
    <3>1. Free(s, RowOf(p, t))
      BY DEF Link, p
    <3>2. \A q : ByKey => RowOf(q, t) = <<t, t>>
      BY DEF RowOf, ByKey
    <3>3. \A pair \in R : RowOf(pair[1], pair[2]) = RowOf(p, t)
      BY <2>1, <3>2
    <3>. QED
      BY <3>1, <3>3
  <2>4. /\ \A q \in Parents, u \in Targets : u # t =>
             (<<q, u>> \in (View(s) \ R) \cup A <=> <<q, u>> \in View(s))
        /\ \A u \in Targets : <<p, u>> \in View(s) => <<p, u>> \in (View(s) \ R) \cup A
        /\ <<p, t>> \in (View(s) \ R) \cup A
        /\ ByKey => \A q \in Parents : <<q, t>> \in (View(s) \ R) \cup A <=> q = p
        /\ ~ByKey => R = {}
    BY <2>1, <2>2
  <2>5. Sound((View(s) \ R) \cup A)
    <3>1. Sound(View(s))
      BY <1>1 DEF SessionInv, LockedOf
    <3>2. ASSUME ByKey PROVE OneParent((View(s) \ R) \cup A)
      BY <2>4, <3>1, <3>2 DEF Sound, OneParent
    <3>3. ASSUME kind = "O2M NOT NULL", NEW u \in live
          PROVE  \E q \in Parents : <<q, u>> \in (View(s) \ R) \cup A
      <4>1. \E q \in Parents : <<q, u>> \in View(s)
        BY <3>1, <3>3 DEF Sound, HasParents
      <4>. QED
        BY <1>1, <1>2, <2>4, <4>1
    <3>. QED
      BY <3>2, <3>3 DEF Sound, HasParents
  <2>6. ASSUME StatementSame(s), rest'[s] = rest[s] \ {e}, View(s)' = (View(s) \ R) \cup A,
               new'[s] = (new[s] \ R) \cup A
        PROVE  AsLoadedOf(s)' /\ DoneOf(s)' /\ NowOf(s)'
    <3>0. Ran(s, t)'
      BY <1>1, <1>2, <2>6 DEF Ran, StatementSame
    <3>1. AsLoadedOf(s)'
      <4>1. ASSUME call[s].asLoaded, moved[s] = {}, t \in live
            PROVE  \A q \in Parents : <<q, t>> \in View(s)' <=> <<q, t>> \in View(s)
        <5>1. <<p, t>> \in links
          <6>1. /\ Done(s) + 1 \in 1 .. Len(call[s].jobs) /\ Job(s) = call[s].jobs[Done(s) + 1]
                /\ Writing(s)
            BY <1>1, Working DEF Writing
          <6>. QED
            BY <1>1, <1>2, <4>1, <6>1 DEF SessionInv, AsLoadedOf, p
        <5>2. <<p, t>> \in View(s)
          BY <1>1, <1>2, <4>1, <5>1 DEF SessionInv, AsLoadedOf, Writing
        <5>3. CASE ByKey
          <6>1. OneParent(View(s))
            BY <1>1, <5>3 DEF SessionInv, LockedOf, Sound
          <6>. QED
            BY <1>2, <2>4, <2>6, <5>2, <5>3, <6>1 DEF OneParent
        <5>4. CASE ~ByKey
          BY <2>4, <2>6, <5>2, <5>4
        <5>. QED
          BY <5>3, <5>4
      <4>2. call[s].asLoaded /\ moved[s] = {} =>
              \A q \in Parents, u \in live : <<q, u>> \in View(s)' <=> <<q, u>> \in View(s)
        BY <1>1, <2>4, <2>6, <4>1
      <4>. HIDE DEF e, A
      <4>. QED
        BY <1>1, <2>6, <4>2 DEF SessionInv, AsLoadedOf, Writing, StatementSame
    <3>2. DoneOf(s)'
      <4>. SUFFICES ASSUME NEW i \in 1 .. Done(s), NEW u \in live,
                           <<call[s].jobs[i].parent, u>> \notin since[s] \cup missed[s]
                    PROVE  <<call[s].jobs[i].parent, u>> \in View(s)' <=>
                             u \in call[s].jobs[i].listed /\ ~TakenAfter(s, i, u)'
        BY <2>6 DEF DoneOf, StatementSame
      <4>1. call[s].jobs[i].parent # p /\ call[s].jobs[i].parent \in Parents
        BY <1>1, EarlierParent DEF p
      <4>2. <<call[s].jobs[i].parent, u>> \in View(s) <=>
              u \in call[s].jobs[i].listed /\ ~TakenAfter(s, i, u)
        BY <1>1 DEF SessionInv, DoneOf, Writing
      <4>3. CASE u # t
        <5>1. TakenAfter(s, i, u)' <=> TakenAfter(s, i, u)
          BY <1>3, <2>6, <4>3 DEF TakenAfter, StatementSame
        <5>2. <<call[s].jobs[i].parent, u>> \in View(s)' <=> <<call[s].jobs[i].parent, u>> \in View(s)
          BY <1>1, <2>4, <2>6, <4>1, <4>3
        <5>. QED
          BY <4>2, <5>1, <5>2
      <4>4. CASE u = t /\ ByKey
        <5>1. TakenAfter(s, i, u)'
          BY <2>6, <3>0, <4>4 DEF TakenAfter, StatementSame
        <5>2. <<call[s].jobs[i].parent, u>> \notin View(s)'
          BY <2>4, <2>6, <4>1, <4>4
        <5>. QED
          BY <5>1, <5>2
      <4>5. CASE u = t /\ ~ByKey
        <5>1. ~TakenAfter(s, i, u)' /\ ~TakenAfter(s, i, u)
          BY <2>6, <4>5 DEF TakenAfter, StatementSame
        <5>2. <<call[s].jobs[i].parent, u>> \in View(s)' <=> <<call[s].jobs[i].parent, u>> \in View(s)
          BY <2>4, <2>6, <4>1, <4>5
        <5>. QED
          BY <4>2, <5>1, <5>2
      <4>. QED
        BY <4>3, <4>4, <4>5
    <3>3. NowOf(s)'
      <4>. SUFFICES ASSUME NEW u \in live
                    PROVE  LET pair == <<p, u>> IN
                      /\ call[s].op = "create" => (pair \in View(s)' <=> Ran(s, u)')
                      /\ Settles(s) /\ Ran(s, u)' => pair \in new'[s]
                      /\ Diffs(s) => \/ pair \in since[s] \cup missed[s]
                                     \/ \E f \in rest'[s] : f.target = u
                                     \/ pair \in View(s)' <=> u \in Job(s).listed
        BY <1>1, <2>6 DEF NowOf, StatementSame, p
      <4>1. CASE u = t
        BY <1>2, <2>4, <2>6, <3>0, <4>1
      <4>2. CASE u # t
        <5>1. <<p, u>> \in View(s)' <=> <<p, u>> \in View(s)
          BY <1>1, <1>2, <2>4, <2>6, <4>2
        <5>2. <<p, u>> \in new[s] => <<p, u>> \in new'[s]
          BY <2>1, <2>6
        <5>3. /\ Ran(s, u)' <=> Ran(s, u)
              /\ (\E f \in rest[s] : f.target = u) => \E f \in rest'[s] : f.target = u
          BY <1>3, <2>6, <4>2
        <5>. HIDE DEF e, A
        <5>. QED
          BY <1>1, <5>1, <5>2, <5>3 DEF SessionInv, NowOf, p
      <4>. QED
        BY <4>1, <4>2
    <3>. QED
      BY <3>1, <3>2, <3>3
  <2>7. \A q \in Parents, u \in Targets : <<q, u>> \in A => InCall(s, q)
    BY <1>2
  <2>8. /\ R \in SUBSET Pairs /\ A \in SUBSET Pairs /\ Changes(s, R, A)
    BY <1>4 DEF R
  <2>. HIDE DEF e, A
  <2>. QED
    BY <1>1, <2>3, <2>5, <2>6, <2>7, <2>8, StatementStep
<1>5. CASE t \notin live /\ UNCHANGED <<gone, new, locked>>
  <2>1. Changes(s, {}, {})
    BY <1>1, <1>5, ChangesNothing
  <2>2. (View(s) \ {}) \cup {} = View(s) /\ (new[s] \ {}) \cup {} = new[s]
    OBVIOUS
  <2>3. Sound((View(s) \ {}) \cup {})
    BY <1>1, <2>2 DEF SessionInv, LockedOf
  <2>4. ASSUME StatementSame(s), rest'[s] = rest[s] \ {e}, View(s)' = (View(s) \ {}) \cup {},
               new'[s] = (new[s] \ {}) \cup {}
        PROVE  AsLoadedOf(s)' /\ DoneOf(s)' /\ NowOf(s)'
    <3>. HIDE DEF e
    <3>0. View(s)' = View(s) /\ new'[s] = new[s]
      BY <2>4
    <3>1. AsLoadedOf(s)'
      BY <1>1, <2>4, <3>0 DEF SessionInv, AsLoadedOf, Writing, StatementSame
    <3>2. \A u \in live : Ran(s, u)' <=> Ran(s, u)
      BY <1>3, <1>5, <2>4
    <3>3. DoneOf(s)'
      <4>1. \A i : \A u \in live : TakenAfter(s, i, u)' <=> TakenAfter(s, i, u)
        BY <2>4, <3>2 DEF TakenAfter, StatementSame
      <4>. SUFFICES ASSUME NEW i \in 1 .. Done(s), NEW u \in live,
                           <<call[s].jobs[i].parent, u>> \notin since[s] \cup missed[s]
                    PROVE  <<call[s].jobs[i].parent, u>> \in View(s) <=>
                             u \in call[s].jobs[i].listed /\ ~TakenAfter(s, i, u)
        BY <2>4, <3>0, <4>1 DEF DoneOf, StatementSame
      <4>. QED
        BY <1>1 DEF SessionInv, DoneOf, Writing
    <3>4. NowOf(s)'
      <4>1. \A u \in live : (\E f \in rest[s] : f.target = u) => \E f \in rest'[s] : f.target = u
        BY <1>3, <1>5, <2>4
      <4>. QED
        BY <1>1, <2>4, <3>0, <3>2, <4>1 DEF SessionInv, NowOf, StatementSame
    <3>. QED
      BY <3>1, <3>3, <3>4
  <2>5. /\ {} \in SUBSET Pairs /\ \A q \in Parents, u \in Targets : <<q, u>> \in {} => InCall(s, q)
        /\ \A pair \in {} \cup {} : Free(s, RowOf(pair[1], pair[2]))
    OBVIOUS
  <2>. HIDE DEF e
  <2>. QED
    BY <1>1, <2>1, <2>3, <2>4, <2>5, StatementStep, Zenon
<1>. QED
  <2>1. \/ /\ Took(s, t) \in SUBSET Pairs /\ {<<p, t>>} \in SUBSET Pairs
           /\ Changes(s, Took(s, t), {<<p, t>>}) /\ (t \in live \/ ~ByKey)
        \/ t \notin live /\ UNCHANGED <<gone, new, locked>>
    <3>1. Took(s, t) \in SUBSET Pairs /\ {<<p, t>>} \in SUBSET Pairs
      BY <1>1, <1>2, ViewType DEF Took, Pairs
    <3>. QED
      BY <3>1 DEF Link, Took, p
  <2>. QED
    BY <1>4, <1>5, <2>1

\* The first parent is done, after the last statements R: its live links are
\* those of its list, but for what others changed or an error kept from the call.
LEMMA AdvanceKeeps ==
  ASSUME IInv, Types', NEW s \in Sessions, at[s] = "statements", rest[s] = {}, Advance(s),
         UNCHANGED <<server, mine, rest, call, missed, always, ever, moved>>,
         NEW R \in SUBSET Pairs, Changes(s, R, {}), R \subseteq View(s),
         \A pair \in R : /\ pair[1] = Job(s).parent /\ pair[2] \notin Job(s).listed
                         /\ Free(s, RowOf(pair[1], pair[2])),
         Sound((View(s) \ R) \cup {}),
         {pair \in since[s] : pair[1] # Job(s).parent} \subseteq since'[s],
         \A o \in Sessions \ {s} : since'[o] = since[o],
         \A t \in live : \/ <<Job(s).parent, t>> \in since'[s] \cup missed[s]
                         \/ <<Job(s).parent, t>> \in View(s) \ R <=> t \in Job(s).listed
  PROVE  IInv'
<1>. DEFINE p == Job(s).parent
<1>1. Types /\ Shared /\ SessionInv(s) /\ JobsOf(s) /\ live \subseteq Targets
  BY DEF IInv, SessionInv, Types
<1>2. /\ p \in Parents /\ Done(s) \in Nat /\ Done(s) + 1 \in 1 .. Len(call[s].jobs)
      /\ Job(s) = call[s].jobs[Done(s) + 1] /\ Len(call[s].jobs) \in Nat /\ Writing(s)
      /\ jobs[s] \in Seq(JobRecord) /\ call[s].jobs \in Seq(JobRecord) /\ jobs[s] # << >>
      /\ Len(jobs[s]) \in Nat
  BY <1>1, Working DEF Types, CallRecord, Writing
<1>3. /\ jobs'[s] = Tail(jobs[s]) /\ at'[s] \in {"read", "done"} /\ (at'[s] = "done" <=> jobs'[s] = << >>)
      /\ Done(s)' = Done(s) + 1 /\ Len(jobs'[s]) <= Len(call[s].jobs)
      /\ \A i \in 1 .. Len(jobs'[s]) : jobs'[s][i] = call[s].jobs[Done(s) + 1 + i]
      /\ \A o \in Sessions \ {s} : jobs'[o] = jobs[o] /\ at'[o] = at[o]
  BY <1>1, AdvanceEffect
<1>4. /\ View(s)' = (View(s) \ R) \cup {} /\ new'[s] = (new[s] \ R) \cup {}
      /\ kind' = kind /\ born' = born /\ live' = live /\ links' = links
      /\ call' = call /\ moved' = moved /\ missed' = missed /\ rest' = rest
      /\ (ByKey)' = ByKey /\ (ToMany)' = ToMany
  BY <1>1, ChangesOwn DEF server, ByKey, ToMany
<1>. HIDE DEF p
<1>5. LockedOf(s)'
  <2>1. \A q \in Parents, u \in Targets : <<q, u>> \in {} => InCall(s, q)
    OBVIOUS
  <2>. QED
    BY <1>1, <1>4, <2>1, ChangesLocked DEF SessionInv
<1>6. JobsOf(s)'
  <2>1. Writing(s)'
    BY <1>3 DEF Writing
  <2>2. \A i \in 1 .. Len(jobs'[s]) : jobs'[s][i] = call'[s].jobs[Done(s)' + i]
    BY <1>3, <1>4
  <2>3. /\ \A i, j \in 1 .. Len(call[s].jobs) : call[s].jobs[i].parent = call[s].jobs[j].parent => i = j
        /\ call[s].op = "create" => Len(call[s].jobs) = 1
        /\ \A i \in 1 .. Len(call[s].jobs) : call[s].jobs[i].parent \in born <=> call[s].op # "create"
        /\ ToMany \/ call[s].op = "create"
        /\ call[s].op # "none"
    BY <1>1, <1>2 DEF JobsOf
  <2>4. \A i \in 1 .. Len(call'[s].jobs) : call'[s].jobs[i].parent \in born' <=> call'[s].op # "create"
    BY <1>4, <2>3
  <2>5. ToMany' \/ call'[s].op = "create"
    BY <1>4, <2>3
  <2>6. at'[s] = "done" <=> jobs'[s] = << >>
    BY <1>3
  <2>7. /\ Len(jobs'[s]) <= Len(call'[s].jobs)
        /\ \A i, j \in 1 .. Len(call'[s].jobs) : call'[s].jobs[i].parent = call'[s].jobs[j].parent => i = j
        /\ call'[s].op = "create" => Len(call'[s].jobs) = 1
        /\ call'[s].op # "none"
    BY <1>3, <1>4, <2>3
  <2>. QED
    BY <2>1, <2>2, <2>4, <2>5, <2>6, <2>7 DEF JobsOf
<1>7. RestOf(s)' /\ FieldOf(s)' /\ ReadOf(s)' /\ LoadedOf(s)'
  BY <1>1, <1>3, <1>4 DEF SessionInv, RestOf, FieldOf, ReadOf, LoadedOf, mine
<1>8. AsLoadedOf(s)'
  <2>1. ASSUME call[s].asLoaded, moved[s] = {}, NEW q \in Parents, NEW t \in live
        PROVE  <<q, t>> \in View(s)' <=> <<q, t>> \in links
    <3>1. <<q, t>> \in View(s) <=> <<q, t>> \in links
      BY <1>1, <1>2, <2>1 DEF SessionInv, AsLoadedOf
    <3>2. <<q, t>> \notin R
      <4>1. SUFFICES ASSUME <<q, t>> \in R PROVE FALSE
        OBVIOUS
      <4>2. q = p /\ t \notin Job(s).listed /\ <<q, t>> \in links
        BY <3>1, <4>1 DEF p
      <4>3. t \in Job(s).listed <=> <<p, t>> \in links
        BY <1>1, <1>2, <2>1 DEF SessionInv, AsLoadedOf, p
      <4>. QED
        BY <4>2, <4>3
    <3>. QED
      BY <1>4, <3>1, <3>2
  <2>. QED
    BY <1>1, <1>2, <1>4, <2>1 DEF SessionInv, AsLoadedOf
<1>9. DoneOf(s)'
  <2>0. Writing(s)' /\ \A t : ~Ran(s, t)'
    BY <1>3 DEF Writing, Ran
  <2>. SUFFICES ASSUME NEW i \in 1 .. Done(s) + 1, NEW t \in live,
                       <<call[s].jobs[i].parent, t>> \notin since'[s] \cup missed[s]
                PROVE  <<call[s].jobs[i].parent, t>> \in View(s)' <=>
                         t \in call[s].jobs[i].listed /\ ~TakenAfter(s, i, t)'
    BY <1>3, <1>4 DEF DoneOf
  <2>1. TakenAfter(s, i, t)' <=> ByKey /\ \E j \in (i + 1) .. (Done(s) + 1) : t \in call[s].jobs[j].listed
    BY <1>3, <1>4, <2>0 DEF TakenAfter
  <2>2. CASE i = Done(s) + 1
    <3>1. ~TakenAfter(s, i, t)'
      BY <1>2, <2>1, <2>2
    <3>2. call[s].jobs[i] = Job(s)
      BY <1>2, <2>2
    <3>. QED
      BY <1>4, <3>1, <3>2
  <2>3. CASE i # Done(s) + 1
    <3>1. i \in 1 .. Done(s)
      BY <1>2, <2>3
    <3>2. call[s].jobs[i].parent # p
      BY <1>1, <3>1, EarlierParent DEF p
    <3>3. <<call[s].jobs[i].parent, t>> \notin since[s] \cup missed[s]
      BY <3>2 DEF p
    <3>4. <<call[s].jobs[i].parent, t>> \in View(s) <=> t \in call[s].jobs[i].listed /\ ~TakenAfter(s, i, t)
      BY <1>1, <1>2, <3>1, <3>3 DEF SessionInv, DoneOf
    <3>5. <<call[s].jobs[i].parent, t>> \in View(s)' <=> <<call[s].jobs[i].parent, t>> \in View(s)
      BY <1>4, <3>2 DEF p
    <3>6. Ran(s, t) <=> t \in call[s].jobs[Done(s) + 1].listed
      BY <1>2 DEF Ran
    <3>7. \A j : j \in (i + 1) .. (Done(s) + 1) <=> j \in (i + 1) .. Done(s) \/ j = Done(s) + 1
      BY <1>2, <3>1
    <3>8. TakenAfter(s, i, t)' <=> TakenAfter(s, i, t)
      BY <2>1, <3>6, <3>7 DEF TakenAfter
    <3>. QED
      BY <3>4, <3>5, <3>8
  <2>. QED
    BY <2>2, <2>3
<1>10. NowOf(s)'
  <2>1. ASSUME call[s].op = "create" PROVE at'[s] = "done"
    <3>1. Len(call[s].jobs) = 1
      BY <1>1, <1>2, <2>1 DEF JobsOf
    <3>2. Len(jobs[s]) <= 1 /\ Len(jobs[s]) >= 1
      BY <1>1, <1>2, <3>1 DEF JobsOf
    <3>3. jobs'[s] = << >>
      BY <1>2, <1>3, <3>2, TailFacts
    <3>. QED
      BY <1>3, <3>3
  <2>. QED
    BY <1>3, <1>4, <2>1 DEF NowOf
<1>11. SessionInv(s)'
  BY <1>5, <1>6, <1>7, <1>8, <1>9, <1>10 DEF SessionInv
<1>12. \A o \in Sessions \ {s} : Untouched(o)
  BY <1>1, <1>3, <1>4, ChangesOthers DEF Untouched, mine
<1>13. \A o \in Sessions \ {s} : locked'[s] \cap locked[o] = {}
                                 /\ ~(call'[s].op = "create" /\ call[o].op = "create")
  <2>1. \A pair \in R \cup {} : Free(s, RowOf(pair[1], pair[2]))
    OBVIOUS
  <2>2. {} \in SUBSET Pairs /\ call'[s] = call[s]
    BY <1>4
  <2>. QED
    BY <1>1, <2>1, <2>2, ChangesFree
<1>. QED
  BY <1>11, <1>12, <1>13, QuietStep

\* After the last statement of a created row's links, of a join table's or of nothing.
LEMMA JobDoneKeeps ==
  ASSUME IInv, Types', NEW s \in Sessions, JobDone(s)
  PROVE  IInv'
<1>1. /\ Types /\ SessionInv(s) /\ JobsOf(s) /\ at[s] = "statements" /\ rest[s] = {} /\ ~Settles(s)
      /\ Advance(s) /\ UNCHANGED <<server, mine, rest, call, missed, always, ever, moved>>
      /\ UNCHANGED <<gone, new, locked, since>>
  BY DEF IInv, SessionInv, JobDone, truth
<1>2. Changes(s, {}, {}) /\ {} \in SUBSET Pairs /\ {} \subseteq View(s)
  BY <1>1, ChangesNothing
<1>3. (View(s) \ {}) \cup {} = View(s) /\ View(s) \ {} = View(s)
  OBVIOUS
<1>4. Sound((View(s) \ {}) \cup {})
  BY <1>1, <1>3 DEF SessionInv, LockedOf
<1>5. ASSUME NEW t \in live
      PROVE  \/ <<Job(s).parent, t>> \in since'[s] \cup missed[s]
             \/ <<Job(s).parent, t>> \in View(s) \ {} <=> t \in Job(s).listed
  <2>1. CASE call[s].op = "create"
    <3>1. Ran(s, t) <=> t \in Job(s).listed
      BY <1>1 DEF Ran
    <3>. QED
      BY <1>1, <1>3, <2>1, <3>1 DEF SessionInv, NowOf
  <2>2. CASE call[s].op # "create"
    <3>1. ToMany /\ ~ByKey
      BY <1>1, <2>2 DEF JobsOf, Writing, Settles
    <3>2. Diffs(s)
      BY <1>1, <2>2, <3>1, SyncAssumption DEF Types, Diffs, ToMany, ByKey
    <3>. QED
      BY <1>1, <1>3, <3>2 DEF SessionInv, NowOf
  <2>. QED
    BY <2>1, <2>2
<1>6. \A pair \in {} : /\ pair[1] = Job(s).parent /\ pair[2] \notin Job(s).listed
                       /\ Free(s, RowOf(pair[1], pair[2]))
  OBVIOUS
<1>7. /\ {pair \in since[s] : pair[1] # Job(s).parent} \subseteq since'[s]
      /\ \A o \in Sessions \ {s} : since'[o] = since[o]
  BY <1>1
<1>. QED
  BY <1>1, <1>2, <1>4, <1>5, <1>6, <1>7, AdvanceKeeps

\* Once the statements for the children listed have run, the rest are stale.
LEMMA SettledParent ==
  ASSUME IInv, NEW s \in Sessions, at[s] = "statements", rest[s] = {}, Settles(s), NEW t \in live
  PROVE  <<Job(s).parent, t>> \in View(s) \ Stale(s) <=> t \in Job(s).listed
<1>1. Types /\ SessionInv(s) /\ t \in Targets
  BY DEF IInv, Types
<1>2. Ran(s, t) <=> t \in Job(s).listed
  BY DEF Ran
<1>3. t \in Job(s).listed => <<Job(s).parent, t>> \in View(s)
  BY <1>1, <1>2 DEF SessionInv, NowOf, View
<1>. QED
  BY <1>1, <1>3 DEF Stale, Of

\* After the statement that takes the key from the children left out.
LEMMA DisassociateKeeps ==
  ASSUME IInv, Types', NEW s \in Sessions, Disassociate(s)
  PROVE  IInv'
<1>1. /\ Types /\ SessionInv(s) /\ JobsOf(s) /\ at[s] = "statements" /\ rest[s] = {} /\ Settles(s)
      /\ Advance(s) /\ UNCHANGED <<server, mine, rest, call, missed, always, ever, moved>>
      /\ Changes(s, Stale(s), {}) /\ Looks(s) /\ kind = "O2M"
  BY DEF IInv, SessionInv, Disassociate
<1>2. Stale(s) \in SUBSET Pairs /\ Stale(s) \subseteq View(s)
  BY <1>1, StaleType
<1>3. \A pair \in Stale(s) : /\ pair[1] = Job(s).parent /\ pair[2] \notin Job(s).listed
                             /\ Free(s, RowOf(pair[1], pair[2]))
  BY DEF Stale, Disassociate
<1>4. Sound((View(s) \ Stale(s)) \cup {})
  BY <1>1 DEF SessionInv, LockedOf, Sound, OneParent
<1>5. /\ since'[s] = {pair \in since[s] : pair[1] # Job(s).parent}
      /\ \A o \in Sessions \ {s} : since'[o] = since[o]
  BY <1>1, LooksEffect
<1>6. \A t \in live : <<Job(s).parent, t>> \in View(s) \ Stale(s) <=> t \in Job(s).listed
  BY <1>1, SettledParent
<1>. QED
  BY <1>1, <1>2, <1>3, <1>4, <1>5, <1>6, AdvanceKeeps

\* Where the key cannot be taken, when no child was left out.
LEMMA NoneStaleKeeps ==
  ASSUME IInv, Types', NEW s \in Sessions, NoneStale(s)
  PROVE  IInv'
<1>1. /\ Types /\ SessionInv(s) /\ JobsOf(s) /\ at[s] = "statements" /\ rest[s] = {} /\ Settles(s)
      /\ Advance(s) /\ UNCHANGED <<server, mine, rest, call, missed, always, ever, moved>>
      /\ UNCHANGED <<gone, new, locked>> /\ Looks(s) /\ Stale(s) = {}
  BY DEF IInv, SessionInv, NoneStale
<1>2. Changes(s, {}, {}) /\ {} \in SUBSET Pairs /\ {} \subseteq View(s)
  BY <1>1, ChangesNothing
<1>3. \A pair \in {} : /\ pair[1] = Job(s).parent /\ pair[2] \notin Job(s).listed
                       /\ Free(s, RowOf(pair[1], pair[2]))
  OBVIOUS
<1>4. Sound((View(s) \ {}) \cup {})
  <2>1. (View(s) \ {}) \cup {} = View(s)
    OBVIOUS
  <2>. QED
    BY <1>1, <2>1 DEF SessionInv, LockedOf
<1>5. /\ since'[s] = {pair \in since[s] : pair[1] # Job(s).parent}
      /\ \A o \in Sessions \ {s} : since'[o] = since[o]
  BY <1>1, LooksEffect
<1>6. \A t \in live : <<Job(s).parent, t>> \in View(s) \ {} <=> t \in Job(s).listed
  BY <1>1, SettledParent
<1>. QED
  BY <1>1, <1>2, <1>3, <1>4, <1>5, <1>6, AdvanceKeeps

-----------------------------------------------------------------------------
(* Ends of calls, and targets that go.                                     *)

\* A session whose call is over.
LEMMA ReturnsOwn ==
  ASSUME Types, Types', NEW s \in Sessions, SessionInv(s), Returns(s), born \subseteq born',
         UNCHANGED mine, Sound(links)'
  PROVE  SessionInv(s)'
<1>1. /\ at'[s] = "end" /\ jobs'[s] = << >> /\ call'[s] = NoCall
      /\ rest'[s] = {} /\ gone'[s] = {} /\ new'[s] = {}
  BY ReturnsEffect
<1>2. JobsOf(s)' /\ ~Writing(s)' /\ ReadOf(s)' /\ LoadedOf(s)'
  BY <1>1 DEF JobsOf, Writing, ReadOf, LoadedOf
<1>3. FieldOf(s)'
  BY DEF SessionInv, FieldOf, mine
<1>. QED
  BY <1>2, <1>3, RestingInv

\* A call that fails leaves nothing.
LEMMA RollsBackKeeps ==
  ASSUME IInv, Types', NEW s \in Sessions, RollsBack(s)
  PROVE  IInv'
<1>1. /\ Types /\ Shared /\ SessionInv(s) /\ Returns(s)
      /\ UNCHANGED <<server, mine, always, ever>>
      /\ since' = [since EXCEPT ![s] = {}] /\ moved' = [moved EXCEPT ![s] = {}]
  BY DEF IInv, RollsBack
<1>2. /\ locked'[s] = {} /\ call'[s] = NoCall
      /\ \A o \in Sessions \ {s} :
              /\ at'[o] = at[o] /\ jobs'[o] = jobs[o] /\ call'[o] = call[o] /\ rest'[o] = rest[o]
              /\ missed'[o] = missed[o] /\ gone'[o] = gone[o] /\ new'[o] = new[o] /\ locked'[o] = locked[o]
  BY <1>1, ReturnsEffect
<1>3. \A o \in Sessions \ {s} : Untouched(o)
  BY <1>1, <1>2 DEF Untouched, mine, Types
<1>4. Sound(links)' /\ born \subseteq born'
  BY <1>1 DEF Shared, server, Sound, ByKey, OneParent, HasParents
<1>5. SessionInv(s)'
  BY <1>1, <1>4, ReturnsOwn
<1>6. \A o \in Sessions \ {s} : locked'[s] \cap locked[o] = {}
                                /\ ~(call'[s].op = "create" /\ call[o].op = "create")
  BY <1>2 DEF NoCall
<1>. QED
  BY <1>1, <1>3, <1>5, <1>6, QuietStep

\* What the other sessions, or all of them, note of a change of the committed links.
LEMMA BecomesElsewhere ==
  ASSUME Types, NEW o \in Sessions, NEW L, NEW s, o # s, Becomes(L, s)
  PROVE  /\ links' = L /\ moved[o] \subseteq moved'[o] /\ since[o] \subseteq since'[o]
         /\ at[o] = "preload" => always'[o] \subseteq always[o] /\ ever[o] \subseteq ever'[o]
         /\ \A p \in Parents, t \in Targets : ~(<<p, t>> \in L <=> <<p, t>> \in links) =>
              /\ InCall(o, p) => <<p, t>> \in since'[o]
              /\ p \in batch[o] \/ field[o][p] # Absent \/ (call[o].asLoaded /\ InCall(o, p)) =>
                   <<p, t>> \in moved'[o]
<1>. DEFINE changed == (links \ L) \cup (L \ links)
<1>1. /\ links' = L
      /\ always'[o] = always[o] \cap L
      /\ ever'[o] = IF at[o] = "preload" THEN ever[o] \cup (L \cap (batch[o] \X Targets)) ELSE {}
      /\ moved'[o] = moved[o] \cup
           {pair \in changed : \/ field[o][pair[1]] # Absent \/ pair[1] \in batch[o]
                               \/ (call[o].asLoaded /\ InCall(o, pair[1]))}
      /\ since'[o] = since[o] \cup {pair \in changed : InCall(o, pair[1])}
  BY DEF Becomes
<1>2. \A p \in Parents, t \in Targets : ~(<<p, t>> \in L <=> <<p, t>> \in links) => <<p, t>> \in changed
  OBVIOUS
<1>. HIDE DEF changed
<1>. QED
  BY <1>1, <1>2

\* What a call committed, other sessions see as links of rows they do not hold.
LEMMA CommitKeeps ==
  ASSUME IInv, Types', NEW s \in Sessions, Commit(s)
  PROVE  IInv'
<1>1. /\ Types /\ Shared /\ SessionInv(s) /\ Returns(s) /\ Becomes(View(s), s) /\ Writing(s)
      /\ UNCHANGED <<kind, live, mine>>
      /\ born' = born \cup {call[s].jobs[i].parent : i \in DOMAIN call[s].jobs}
  BY DEF IInv, Commit, Writing
<1>2. /\ locked'[s] = {} /\ call'[s] = NoCall
      /\ \A o \in Sessions \ {s} :
              /\ at'[o] = at[o] /\ jobs'[o] = jobs[o] /\ call'[o] = call[o] /\ rest'[o] = rest[o]
              /\ missed'[o] = missed[o] /\ gone'[o] = gone[o] /\ new'[o] = new[o] /\ locked'[o] = locked[o]
  BY <1>1, ReturnsEffect
<1>3. links' = View(s)
  BY <1>1 DEF Becomes
<1>4. Sound(links)'
  <2>1. Sound(View(s)) /\ kind' = kind /\ live' = live
    BY <1>1 DEF SessionInv, LockedOf
  <2>2. Sound(links') /\ (ByKey)' = ByKey
    BY <1>3, <2>1 DEF ByKey
  <2>. QED
    BY <2>1, <2>2 DEF Sound, OneParent, HasParents
<1>5. (links \subseteq born \X Targets)'
  <2>. SUFFICES ASSUME NEW p \in Parents, NEW t \in Targets, <<p, t>> \in View(s)
                PROVE  p \in born'
    BY <1>1, <1>3, ViewType DEF Pairs
  <2>1. CASE <<p, t>> \in links
    BY <1>1, <2>1 DEF Shared
  <2>2. CASE <<p, t>> \in new[s]
    <3>1. InCall(s, p)
      BY <1>1, <2>2 DEF SessionInv, LockedOf
    <3>. QED
      BY <1>1, <3>1 DEF InCall
  <2>. QED
    BY <2>1, <2>2 DEF View
<1>6. Shared'
  <2>1. ASSUME NEW o \in Sessions, NEW x \in Sessions, o # x
        PROVE  locked'[o] \cap locked'[x] = {} /\ ~(call'[o].op = "create" /\ call'[x].op = "create")
    BY <1>1, <1>2, <2>1 DEF Shared, NoCall
  <2>. QED
    BY <1>4, <1>5, <2>1 DEF Shared
<1>7. ASSUME NEW o \in Sessions, o # s
      PROVE  Elsewhere(o)
  <2>1. /\ moved[o] \subseteq moved'[o] /\ since[o] \subseteq since'[o]
        /\ at[o] = "preload" => always'[o] \subseteq always[o] /\ ever[o] \subseteq ever'[o]
        /\ \A p \in Parents, t \in Targets : ~(<<p, t>> \in View(s) <=> <<p, t>> \in links) =>
             /\ InCall(o, p) => <<p, t>> \in since'[o]
             /\ p \in batch[o] \/ field[o][p] # Absent \/ (call[o].asLoaded /\ InCall(o, p)) =>
                  <<p, t>> \in moved'[o]
    BY <1>1, <1>7, BecomesElsewhere
  <2>2. ASSUME NEW p \in Parents, NEW t \in Targets, ~(<<p, t>> \in links' <=> <<p, t>> \in links)
        PROVE  RowOf(p, t) \notin locked[o]
    <3>1. <<p, t>> \in gone[s] \cup new[s]
      BY <1>3, <2>2 DEF View
    <3>2. RowOf(p, t) \in locked[s]
      BY <1>1, <3>1 DEF SessionInv, LockedOf
    <3>. QED
      BY <1>1, <1>7, <3>2 DEF Shared
  <2>3. call[o].op = "create" => \A p \in born' \ born : ~InCall(o, p)
    <3>. SUFFICES ASSUME call[o].op = "create" PROVE born' = born
      OBVIOUS
    <3>1. call[s].op # "create"
      BY <1>1, <1>7 DEF Shared
    <3>2. call[s].jobs \in Seq(JobRecord)
      BY <1>1 DEF Types, CallRecord
    <3>3. \A i \in DOMAIN call[s].jobs : call[s].jobs[i].parent \in born
      BY <1>1, <3>1, <3>2 DEF SessionInv, JobsOf
    <3>. QED
      BY <1>1, <3>3
  <2>4. /\ at'[o] = at[o] /\ jobs'[o] = jobs[o] /\ call'[o] = call[o] /\ rest'[o] = rest[o]
        /\ missed'[o] = missed[o] /\ gone'[o] = gone[o] /\ new'[o] = new[o] /\ locked'[o] = locked[o]
    BY <1>2, <1>7
  <2>. QED
    BY <1>1, <1>3, <2>1, <2>2, <2>3, <2>4 DEF Elsewhere, mine
<1>8. SessionInv(s)'
  BY <1>1, <1>4, ReturnsOwn
<1>. QED
  BY <1>1, <1>6, <1>7, <1>8, ElsewhereKeeps DEF IInv

\* A target goes, and no transaction holds a row of its links.
LEMMA DeleteTargetKeeps ==
  ASSUME IInv, Types', NEW t \in Targets, DeleteTarget(t)
  PROVE  IInv'
<1>1. /\ Types /\ Shared /\ live' = live \ {t}
      /\ UNCHANGED <<kind, born, mine, at, work>>
      /\ \A s \in Sessions, p \in Parents : RowOf(p, t) \notin locked[s]
  BY DEF IInv, DeleteTarget
<1>2. PICK L : /\ L = {pair \in links : pair[2] # t} \/ L = links
               /\ kind = "O2M NOT NULL" => L = {pair \in links : pair[2] # t}
               /\ Becomes(L, Nil)
  <2>1. kind = "O2M NOT NULL" => ByKey
    BY DEF ByKey
  <2>. QED
    BY <2>1 DEF DeleteTarget
<1>3. links' = L
  BY <1>2 DEF Becomes
<1>4. /\ L \subseteq links
      /\ \A p \in Parents, u \in Targets : u # t => (<<p, u>> \in L <=> <<p, u>> \in links)
  BY <1>2
<1>5. Shared'
  <2>1. (ByKey)' = ByKey
    BY <1>1 DEF ByKey
  <2>2. (ByKey => OneParent(links))'
    BY <1>1, <1>3, <1>4, <2>1 DEF Shared, Sound, OneParent
  <2>3. (kind = "O2M NOT NULL" => HasParents(links))'
    <3>. SUFFICES ASSUME kind = "O2M NOT NULL", NEW u \in live, u # t
                  PROVE  \E p \in Parents : <<p, u>> \in L
      BY <1>1, <1>3 DEF HasParents
    <3>1. \E p \in Parents : <<p, u>> \in links
      BY <1>1 DEF Shared, Sound, HasParents
    <3>. QED
      BY <1>1, <1>4, <3>1 DEF Types
  <2>. QED
    BY <1>1, <1>3, <1>4, <2>2, <2>3 DEF Shared, Sound, work
<1>6. ASSUME NEW o \in Sessions
      PROVE  Elsewhere(o)
  <2>1. /\ moved[o] \subseteq moved'[o] /\ since[o] \subseteq since'[o]
        /\ at[o] = "preload" => always'[o] \subseteq always[o] /\ ever[o] \subseteq ever'[o]
        /\ \A p \in Parents, u \in Targets : ~(<<p, u>> \in L <=> <<p, u>> \in links) =>
             /\ InCall(o, p) => <<p, u>> \in since'[o]
             /\ p \in batch[o] \/ field[o][p] # Absent \/ (call[o].asLoaded /\ InCall(o, p)) =>
                  <<p, u>> \in moved'[o]
    <3>1. o # Nil
      BY SyncAssumption
    <3>. QED
      BY <1>1, <1>2, <3>1, BecomesElsewhere
  <2>2. ASSUME NEW p \in Parents, NEW u \in Targets, ~(<<p, u>> \in links' <=> <<p, u>> \in links)
        PROVE  RowOf(p, u) \notin locked[o]
    BY <1>1, <1>3, <1>4, <2>2
  <2>. QED
    BY <1>1, <1>3, <2>1, <2>2 DEF Elsewhere, mine, work
<1>. QED
  BY <1>1, <1>5, <1>6, ElsewhereKeeps DEF IInv

-----------------------------------------------------------------------------
(* The invariant, and what it shows.                                       *)

\* A finite set with at most one element.
LEMMA AtMostOne ==
  ASSUME NEW S, IsFiniteSet(S), Cardinality(S) <= 1, NEW x \in S, NEW y \in S
  PROVE  x = y
<1>1. Cardinality(S) \in Nat
  BY FS_CardinalityType
<1>2. Cardinality(S) # 0
  BY FS_EmptySet
<1>3. Cardinality(S) = 1
  BY <1>1, <1>2
<1>4. PICK z : S = {z}
  BY <1>3, FS_Singleton
<1>. QED
  BY <1>4

\* The types, at the start.
LEMMA TypesInit == Init => Types
<1>. SUFFICES ASSUME Init PROVE Types
  OBVIOUS
<1>1. Unloaded \in [Parents -> Fields]
  BY DEF Unloaded, Fields
<1>2. NoCall \in CallRecord /\ << >> \in Seq(JobRecord)
  BY DEF NoCall, CallRecord
<1>3. links \in SUBSET Pairs
  BY DEF Init, Pairs
<1>. QED
  BY <1>1, <1>2, <1>3 DEF Init, Types

\* What holds of the server and of every session, at the start.
LEMMA InitInv == Init => IInv
<1>. SUFFICES ASSUME Init PROVE IInv
  OBVIOUS
<1>1. Types
  BY TypesInit
<1>2. Sound(links)
  <2>1. ASSUME ByKey, NEW p \in Parents, NEW q \in Parents, NEW t \in Targets,
               <<p, t>> \in links, <<q, t>> \in links
        PROVE  p = q
    <3>. DEFINE S == {r \in born : <<r, t>> \in links}
    <3>1. S \in SUBSET Parents /\ p \in S /\ q \in S /\ Cardinality(S) <= 1
      BY <2>1 DEF Init
    <3>2. IsFiniteSet(S)
      BY <3>1, FS_Subset, SyncAssumption
    <3>. HIDE DEF S
    <3>. QED
      BY <3>1, <3>2, AtMostOne
  <2>2. ASSUME kind = "O2M NOT NULL" PROVE HasParents(links)
    BY <2>2 DEF Init, HasParents
  <2>. QED
    BY <2>1, <2>2 DEF Sound, OneParent
<1>3. ASSUME NEW s \in Sessions
      PROVE  /\ at[s] = "idle" /\ call[s] = NoCall /\ jobs[s] = << >> /\ rest[s] = {}
             /\ gone[s] = {} /\ new[s] = {} /\ locked[s] = {} /\ batch[s] = {}
             /\ \A p \in Parents : field[s][p] = Absent /\ loadedAs[s][p] = Absent
  BY DEF Init, Unloaded
<1>4. Shared
  BY <1>2, <1>3 DEF Init, Shared, NoCall
<1>5. ASSUME NEW s \in Sessions PROVE SessionInv(s)
  <2>1. ~Writing(s) /\ View(s) = links
    BY <1>3 DEF Writing, View
  <2>2. LockedOf(s)
    BY <1>2, <1>3, <2>1 DEF LockedOf
  <2>3. JobsOf(s)
    BY <1>3, <2>1 DEF JobsOf
  <2>4. RestOf(s) /\ FieldOf(s) /\ ReadOf(s) /\ LoadedOf(s)
    BY <1>3 DEF RestOf, FieldOf, ReadOf, LoadedOf
  <2>5. AsLoadedOf(s) /\ DoneOf(s) /\ NowOf(s)
    BY <1>3, <2>1 DEF AsLoadedOf, DoneOf, NowOf
  <2>. QED
    BY <2>2, <2>3, <2>4, <2>5 DEF SessionInv
<1>. QED
  BY <1>1, <1>4, <1>5 DEF IInv

\* A step that changes nothing.
LEMMA StutterKeeps ==
  ASSUME IInv, Types', UNCHANGED vars
  PROVE  IInv'
<1>1. Shared'
  BY DEF IInv, Shared, vars, server, work, Sound, ByKey, OneParent, HasParents
<1>2. \A o \in Sessions : Elsewhere(o)
  BY DEF Elsewhere, vars, server, mine, work, truth
<1>. QED
  BY <1>1, <1>2, ElsewhereKeeps DEF IInv

\* Every step keeps the invariant.
LEMMA StepInv == IInv /\ [Next]_vars => IInv'
<1>. SUFFICES ASSUME IInv, [Next]_vars PROVE IInv'
  OBVIOUS
<1>1. Types'
  BY TypesNext DEF IInv, SessionInv
<1>2. ASSUME NEW s \in Sessions, Calls(s) PROVE IInv'
  <2>1. ASSUME NEW P \in Rows(s), Search(s, P) PROVE IInv'
    BY <1>1, <2>1, SearchKeeps
  <2>2. ASSUME NEW P \in Rows(s), Preload(s, P) PROVE IInv'
    BY <1>1, <2>2, PreloadKeeps
  <2>3. ASSUME NEW p \in born, NEW listed \in SUBSET Targets, Assign(s, p, listed) PROVE IInv'
    BY <1>1, <2>3, AssignKeeps
  <2>4. CASE Write(s)
    BY <1>1, <2>4, WriteKeeps
  <2>5. CASE WriteRefused(s)
    BY <1>1, <2>5, WriteRefusedKeeps
  <2>6. ASSUME NEW p \in Parents, NEW listed \in SUBSET Targets, Create(s, p, listed) PROVE IInv'
    BY <1>1, <2>6, CreateKeeps
  <2>7. ASSUME NEW P \in Rows(s), NEW listed \in SUBSET Targets, Update(s, P, listed) PROVE IInv'
    BY <1>1, <2>7, UpdateKeeps
  <2>. QED
    BY <1>2, <2>1, <2>2, <2>3, <2>4, <2>5, <2>6, <2>7 DEF Calls
<1>3. ASSUME NEW s \in Sessions, Proceeds(s) PROVE IInv'
  <2>1. CASE Preloaded(s)
    BY <1>1, <2>1, PreloadedKeeps
  <2>2. CASE ReadLinks(s)
    BY <1>1, <2>2, ReadLinksKeeps
  <2>3. ASSUME NEW t \in Targets, Unlink(s, t) \/ Link(s, t) PROVE IInv'
    BY <1>1, <2>3, UnlinkKeeps, LinkKeeps
  <2>4. CASE JobDone(s)
    BY <1>1, <2>4, JobDoneKeeps
  <2>5. CASE Disassociate(s)
    BY <1>1, <2>5, DisassociateKeeps
  <2>6. CASE NoneStale(s)
    BY <1>1, <2>6, NoneStaleKeeps
  <2>7. CASE Commit(s)
    BY <1>1, <2>7, CommitKeeps
  <2>. QED
    BY <1>3, <2>1, <2>2, <2>3, <2>4, <2>5, <2>6, <2>7 DEF Proceeds
<1>4. ASSUME NEW s \in Sessions, Fails(s) PROVE IInv'
  <2>1. PreloadFails(s) \/ RollsBack(s)
    BY <1>4 DEF Fails, ConstraintFails, StatementFails, ServerRefuses
  <2>. QED
    BY <1>1, <2>1, PreloadFailsKeeps, RollsBackKeeps
<1>5. ASSUME NEW t \in Targets, DeleteTarget(t) PROVE IInv'
  BY <1>1, <1>5, DeleteTargetKeeps
<1>6. CASE UNCHANGED vars
  BY <1>1, <1>6, StutterKeeps
<1>. QED
  BY <1>2, <1>3, <1>4, <1>5, <1>6 DEF Next

\* The invariant holds of every behaviour.
LEMMA Invariant == Spec => []IInv
BY InitInv, StepInv, PTL DEF Spec

\* However many sessions bring relations in line at once, no child has two
\* parents, none that needs a parent is without one, no row is changed by two
\* transactions at a time (TypeOK names the server's and the sessions' state).
THEOREM RelationsTyped == Spec => []TypeOK
<1>1. IInv => TypeOK
  <2>. SUFFICES ASSUME IInv PROVE TypeOK
    OBVIOUS
  <2>1. Types /\ Shared
    BY DEF IInv
  <2>2. ASSUME NEW s \in Sessions
        PROVE  /\ \A i \in DOMAIN jobs[s] : jobs[s][i] \in [parent : Parents, listed : SUBSET Targets]
               /\ rest[s] \in SUBSET [op : {"unlink", "link"}, target : Targets]
               /\ gone[s] \cap new[s] = {}
    <3>1. jobs[s] \in Seq(JobRecord) /\ rest[s] \in SUBSET Statement
      BY <2>1 DEF Types
    <3>2. \A i \in DOMAIN jobs[s] : jobs[s][i] \in JobRecord
      BY <3>1
    <3>. QED
      BY <3>1, <3>2 DEF JobRecord, Statement, IInv, SessionInv, LockedOf
  <2>3. ByKey => \A p, q \in Parents : p = q \/ Of(links, p) \cap Of(links, q) = {}
    BY <2>1 DEF Shared, Sound, OneParent, Of
  <2>4. kind = "O2M NOT NULL" => \A t \in live : \E p \in Parents : <<p, t>> \in links
    BY <2>1 DEF Shared, Sound, HasParents
  <2>. QED
    BY <2>1, <2>2, <2>3, <2>4 DEF TypeOK, Types, Shared
<1>. QED
  BY <1>1, Invariant, PTL

\* What a preload puts into a field was among the rows read second.
LEMMA AssignedLive ==
  ASSUME Types, NEW s \in Sessions, NEW p \in Parents
  PROVE  Assigned(asked[s], live, p) = Nil \/ Assigned(asked[s], live, p) \subseteq live
<1>1. live \subseteq Targets /\ kind \in {"O2M", "O2M NOT NULL", "M2M", "M2O"}
  BY SyncAssumption DEF Types
<1>. QED
  BY <1>1 DEF Assigned, preloadM2M, preloadM2O, preloadO2M, Of

\* Between a preload's two reads any number of sessions may commit: what it shows
\* was linked at some moment in between, and it misses nothing that was linked all
\* the while (processPreloads, for any batch).
THEOREM PreloadsAreWithin == Spec => PreloadWithinInterval
<1>1. IInv /\ [Next]_vars => [\A s \in Sessions : Preloaded(s) => ShowsInterval(s)]_vars
  <2>. SUFFICES ASSUME IInv, NEW s \in Sessions, Preloaded(s), NEW p \in batch[s]
                PROVE  LET shown == IF field'[s][p] = Nil THEN {} ELSE field'[s][p] IN
                       /\ shown \subseteq Of(ever[s], p)
                       /\ Of(always[s], p) \cap live \subseteq shown
    BY DEF ShowsInterval
  <2>1. Types /\ p \in Parents /\ live \subseteq Targets
    BY DEF IInv, Types
  <2>2. always[s] \subseteq asked[s] /\ asked[s] \subseteq ever[s]
    BY DEF IInv, SessionInv, ReadOf, Preloaded
  <2>3. field'[s][p] = Assigned(asked[s], live, p)
    BY <2>1 DEF Preloaded, Types
  <2>4. \A t \in live : IF field'[s][p] = Nil THEN <<p, t>> \notin asked[s]
                        ELSE t \in field'[s][p] <=> <<p, t>> \in asked[s]
    BY <2>1, <2>3, AssignedShows
  <2>5. field'[s][p] = Nil \/ field'[s][p] \subseteq live
    BY <2>1, <2>3, AssignedLive
  <2>. QED
    BY <2>1, <2>2, <2>4, <2>5 DEF Of
<1>. QED
  BY <1>1, Invariant, PTL DEF Spec, PreloadWithinInterval

\* Rows preloaded and written back unassigned leave every live link as it was,
\* unless another session changed one of theirs in between (Write's diffs).
THEOREM WritingBackIsNeutral == Spec => RoundTrip
<1>1. IInv /\ [Next]_vars =>
        [\A s \in Sessions : Commit(s) /\ call[s].asLoaded /\ moved[s] = {} => LiveLinksStay]_vars
  <2>. SUFFICES ASSUME IInv, NEW s \in Sessions, Commit(s), call[s].asLoaded, moved[s] = {}
                PROVE  LiveLinksStay
    OBVIOUS
  <2>1. \A p \in Parents, t \in live : <<p, t>> \in View(s) <=> <<p, t>> \in links
    BY DEF IInv, SessionInv, AsLoadedOf, Commit, Writing
  <2>2. links' = View(s)
    BY DEF Commit, Becomes
  <2>3. View(s) \in SUBSET Pairs /\ links \in SUBSET Pairs
    BY ViewType DEF IInv, Types
  <2>. QED
    BY <2>1, <2>2, <2>3 DEF LiveLinksStay, Pairs
<1>. QED
  BY <1>1, Invariant, PTL DEF Spec, RoundTrip

\* What a call commits is what it was asked for, for any number of rows in one
\* call and any number of sessions: each of its rows has the live targets listed
\* and no others, but for the exceptions the property names.
THEOREM CallsDoAsListed == Spec => CommittedIsListed
<1>1. IInv /\ [Next]_vars => [\A s \in Sessions : Commit(s) => LinkedAsListed(s)]_vars
  <2>. SUFFICES ASSUME IInv, NEW s \in Sessions, Commit(s),
                       NEW i \in DOMAIN call[s].jobs, NEW t \in live,
                       <<call[s].jobs[i].parent, t>> \notin since[s] \cup missed[s]
                PROVE  <<call[s].jobs[i].parent, t>> \in links' <=>
                         t \in call[s].jobs[i].listed /\ ~ClaimedLater(s, i, t)
    BY DEF LinkedAsListed
  <2>1. links' = View(s) /\ at[s] = "done" /\ Writing(s)
    BY DEF Commit, Becomes, Writing
  <2>2. /\ call[s].jobs \in Seq(JobRecord) /\ Len(call[s].jobs) \in Nat
        /\ DOMAIN call[s].jobs = 1 .. Len(call[s].jobs)
    BY DEF IInv, Types, CallRecord
  <2>3. Done(s) = Len(call[s].jobs)
    <3>1. jobs[s] = << >>
      BY <2>1 DEF IInv, SessionInv, JobsOf
    <3>. QED
      BY <2>2, <3>1 DEF Done
  <2>4. <<call[s].jobs[i].parent, t>> \in View(s) <=> t \in call[s].jobs[i].listed /\ ~TakenAfter(s, i, t)
    BY <2>1, <2>2, <2>3 DEF IInv, SessionInv, DoneOf
  <2>5. TakenAfter(s, i, t) <=> ClaimedLater(s, i, t)
    <3>1. \A j : j \in (i + 1) .. Done(s) <=> j \in DOMAIN call[s].jobs /\ j > i
      BY <2>2, <2>3
    <3>2. ~Ran(s, t)
      BY <2>1 DEF Ran
    <3>. QED
      BY <3>1, <3>2 DEF TakenAfter, ClaimedLater
  <2>. QED
    BY <2>1, <2>4, <2>5
<1>. QED
  BY <1>1, Invariant, PTL DEF Spec, CommittedIsListed
=============================================================================
