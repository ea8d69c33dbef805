-------------------------- MODULE LambdaKeysProofs --------------------------
(***************************************************************************)
(* What is served under a lambda's key, by either binary, for any history  *)
(* of a source, any goroutines and any moments at which it is edited,      *)
(* generated for and built.                                                *)
(***************************************************************************)
EXTENDS LambdaKeys, SequenceLemmas

\* The program and its files; a package has a file of goqlc only if no two files
\* of what was walked then clashed.
ClashFree(files) == \A d \in DOMAIN files : ~Clash(Walked(files[d].from[1], files[d].from[2]))
FilesInv ==
  /\ program \in Programs /\ disk \in DOMAIN program.versions
  /\ DOMAIN written \subseteq Dirs /\ DOMAIN writing \subseteq Dirs
  /\ ClashFree(written) /\ ClashFree(writing)

\* Once the binary is built no registry file changes, and what a production binary
\* holds was registered from them.
BinaryInv ==
  /\ binary = <<>> => DOMAIN cache = {}
  /\ binary # <<>> =>
       /\ writing = <<>>
       /\ binary.version \in 1 .. disk
       /\ \A l \in Running : binary.line[l.id] \in Anchors(l)
       /\ binary.kind = "prod" => \E order \in Orders(DOMAIN written) : binary.compiled = RegisterAll(Concat(order))

\* A goroutine in ParseQuery or back from it has passed a literal that is run.
InParse(s) == session[s].pc \in {"look", "read", "parsed"} \/ (session[s].pc = "served" /\ session[s].lit # None)
Passes(s, l) == session[s].lit = l.id
CallOf(s) ==
  InParse(s) =>
    /\ binary # <<>>
    /\ session[s].pc \in {"read", "parsed"} => binary.kind = "dev"
    /\ \E l \in Running : Passes(s, l) /\ ~Parsed(l) /\ l.call \in {None, session[s].call}
CallsInv ==
  /\ DOMAIN session = Sessions
  /\ \A s \in Sessions :
       /\ session[s].pc \in {"idle", "look", "read", "parsed", "served"}
       /\ session[s].pc = "parsed" => session[s].body # <<>>
       /\ CallOf(s)

\* What DevServesOwnText is about: it stops to hold of a literal when the source
\* is edited, and never holds again.
Sought(l) ==
  /\ disk = binary.version \/ l.dir \in binary.embedded
  /\ l.call # None /\ ~SharesKey(l)

\* The cache holds a literal's own query under its key, a goroutine carries the
\* query of its literal to the cache, and serves it or has a reason not to.
Query(s, l) == <<Body(l, session[s].call)>>
DevOf(s) ==
  InParse(s) /\ binary.kind = "dev" =>
    \A l \in Running : Passes(s, l) /\ Sought(l) =>
      /\ session[s].pc = "parsed" => session[s].body = Query(s, l)
      /\ session[s].pc = "served" => /\ session[s].body \in {Query(s, l), <<>>}
                                     /\ session[s].body = <<>> => ~l.parses \/ SideBySide(l)
CacheInv ==
  binary # <<>> /\ binary.kind = "dev" =>
    \A l \in Running : LET key == cacheKey(lambdaID(l))
                       IN Sought(l) /\ key \in DOMAIN cache => cache[key] = Body(l, l.call)
DevInv == CacheInv /\ \A s \in Sessions : DevOf(s)

\* What a production binary serves.
ProdOf(s) ==
  InParse(s) /\ binary.kind = "prod" /\ session[s].pc = "served" /\ Fresh =>
    \A l \in Running : Passes(s, l) /\ ~SameLine(l) =>
      session[s].body = IF l \in Emitted(Running) THEN Query(s, l) ELSE <<>>
ProdInv == \A s \in Sessions : ProdOf(s)

IInv == FilesInv /\ BinaryInv /\ CallsInv /\ DevInv /\ ProdInv

-----------------------------------------------------------------------------
(* The order of literals.                                                   *)

\* Literals at different places are numbered from 1 in the order they are written: each
\* has its number, and each number its literal.
LEMMA SortedLits ==
  ASSUME NEW lits, IsFiniteSet(lits), \A l \in lits : l.pos \in Nat,
         \A a, b \in lits : a.pos = b.pos => a = b
  PROVE  /\ Cardinality(lits) \in Nat /\ DOMAIN sortedLits(lits) = 1 .. Cardinality(lits)
         /\ \A i \in 1 .. Cardinality(lits) : sortedLits(lits)[i] \in lits
         /\ \A l \in lits : \E i \in 1 .. Cardinality(lits) : sortedLits(lits)[i] = l
<1>. DEFINE n == Cardinality(lits)
            Before(l) == {o \in lits : o.pos < l.pos}
            rank == [l \in lits |-> Cardinality(Before(l))]
<1>1. n \in Nat
  BY FS_CardinalityType
<1>2. ASSUME NEW l \in lits PROVE IsFiniteSet(Before(l)) /\ rank[l] \in 0 .. n - 1
  <2>1. Before(l) \in SUBSET lits /\ l \notin Before(l)
    OBVIOUS
  <2>2. /\ IsFiniteSet(Before(l)) /\ Cardinality(Before(l)) <= n
        /\ n = Cardinality(Before(l)) => lits = Before(l)
    <3>. HIDE DEF Before
    <3>. QED
      BY <2>1, FS_Subset
  <2>3. n # Cardinality(Before(l))
    BY <2>1, <2>2
  <2>4. Cardinality(Before(l)) \in Nat
    BY <2>2, FS_CardinalityType
  <2>5. rank[l] = Cardinality(Before(l))
    OBVIOUS
  <2>. HIDE DEF Before, n, rank
  <2>. QED
    BY <1>1, <2>2, <2>3, <2>4, <2>5
<1>3. ASSUME NEW a \in lits, NEW b \in lits, a.pos < b.pos PROVE rank[a] < rank[b]
  <2>1. Before(a) \in SUBSET Before(b) /\ a \in Before(b) /\ a \notin Before(a)
    BY <1>3
  <2>2. IsFiniteSet(Before(b)) /\ IsFiniteSet(Before(a))
    BY <1>2
  <2>3. rank[a] = Cardinality(Before(a)) /\ rank[b] = Cardinality(Before(b))
    OBVIOUS
  <2>. HIDE DEF Before, rank
  <2>4. /\ Cardinality(Before(a)) <= Cardinality(Before(b))
        /\ Cardinality(Before(b)) = Cardinality(Before(a)) => Before(b) = Before(a)
    BY <2>1, <2>2, FS_Subset
  <2>5. Cardinality(Before(a)) \in Nat /\ Cardinality(Before(b)) \in Nat
    BY <2>2, FS_CardinalityType
  <2>6. Cardinality(Before(b)) # Cardinality(Before(a))
    BY <2>1, <2>4
  <2>. QED
    BY <2>3, <2>4, <2>5, <2>6
<1>4. DOMAIN rank = lits
  OBVIOUS
<1>5. rank = [l \in lits |-> rank[l]]
  OBVIOUS
<1>. HIDE DEF rank
<1>6. ASSUME NEW a \in lits, NEW b \in lits, rank[a] = rank[b] PROVE a = b
  <2>. HIDE DEF n, Before
  <2>1. rank[a] \in Nat /\ rank[b] \in Nat
    BY <1>1, <1>2
  <2>2. ~ a.pos < b.pos /\ ~ b.pos < a.pos
    BY <1>3, <1>6, <2>1
  <2>. QED
    BY <2>2
<1>7. rank \in Injection(lits, 0 .. n - 1)
  <2>. HIDE DEF n
  <2>. QED
    BY <1>2, <1>5, <1>6 DEF Injection, IsInjective
<1>8. IsFiniteSet(0 .. n - 1) /\ Cardinality(0 .. n - 1) = n
  <2>. HIDE DEF n
  <2>. QED
    BY <1>1, FS_Interval
<1>9. rank \in Surjection(lits, 0 .. n - 1)
  BY <1>7, <1>8, FS_Injection
<1>10. \A k \in 0 .. n - 1 : \E l \in lits : rank[l] = k
  BY <1>9 DEF Surjection
<1>11. \A l \in lits : rank[l] = Cardinality(Before(l))
  BY DEF rank
<1>12. sortedLits(lits) = [i \in 1 .. n |-> CHOOSE l \in lits : Cardinality(Before(l)) = i - 1]
  BY DEF sortedLits
<1>. HIDE DEF Before, n
<1>13. ASSUME NEW i \in 1 .. n
       PROVE  sortedLits(lits)[i] \in lits /\ rank[sortedLits(lits)[i]] = i - 1
  <2>1. i - 1 \in 0 .. n - 1
    BY <1>1
  <2>2. \E l \in lits : Cardinality(Before(l)) = i - 1
    BY <1>10, <1>11, <2>1
  <2>3. sortedLits(lits)[i] = CHOOSE l \in lits : Cardinality(Before(l)) = i - 1
    BY <1>12
  <2>. QED
    BY <1>11, <2>2, <2>3
<1>14. ASSUME NEW l \in lits PROVE \E i \in 1 .. n : sortedLits(lits)[i] = l
  <2>. DEFINE k == rank[l] + 1
  <2>1. k \in 1 .. n /\ k - 1 = rank[l]
    BY <1>1, <1>2
  <2>. HIDE DEF k
  <2>2. sortedLits(lits)[k] \in lits /\ rank[sortedLits(lits)[k]] = rank[l]
    BY <1>13, <2>1
  <2>3. sortedLits(lits)[k] = l
    BY <1>6, <2>2
  <2>. QED
    BY <2>1, <2>3
<1>15. DOMAIN sortedLits(lits) = 1 .. n
  BY <1>12
<1>. QED
  BY <1>1, <1>13, <1>14, <1>15 DEF n

\* The literals of a package of a source.
LEMMA SortedPart ==
  ASSUME NEW lits, Written(lits), NEW part \in SUBSET lits, \A a, b \in part : a.dir = b.dir
  PROVE  /\ Cardinality(part) \in Nat /\ DOMAIN sortedLits(part) = 1 .. Cardinality(part)
         /\ \A i \in 1 .. Cardinality(part) : sortedLits(part)[i] \in part
         /\ \A l \in part : \E i \in 1 .. Cardinality(part) : sortedLits(part)[i] = l
<1>1. IsFiniteSet(part)
  BY FS_Subset DEF Written
<1>2. \A l \in part : l.pos \in Nat
  BY DEF Written
<1>3. \A a, b \in part : a.pos = b.pos => a = b
  BY DEF Written
<1>. QED
  BY <1>1, <1>2, <1>3, SortedLits

-----------------------------------------------------------------------------
(* The registry.                                                            *)

\* goqlc writes a file for each package with a lambda it accepts, with an entry for each
\* of them and no other, and says in it what it walked.
LEMMA FilesHave ==
  ASSUME NEW version, NEW dirs, Written(Source(version))
  PROVE  /\ IsFiniteSet(DOMAIN Outputs(version, dirs))
         /\ DOMAIN Outputs(version, dirs) = {l.dir : l \in Emitted(Walked(version, dirs))}
         /\ \A d \in DOMAIN Outputs(version, dirs) :
              /\ Outputs(version, dirs)[d].from = <<version, dirs>>
              /\ Outputs(version, dirs)[d].entries \in Seq({Entry(l) : l \in Emitted(Walked(version, dirs))})
         /\ \A l \in Emitted(Walked(version, dirs)) :
              Entry(l) \in Range(Outputs(version, dirs)[l.dir].entries)
<1>. DEFINE lits == Emitted(Walked(version, dirs))
            at == {l.dir : l \in lits}
            Own(d) == {l \in lits : l.dir = d}
            Entries(d) == [i \in DOMAIN sortedLits(Own(d)) |-> Entry(sortedLits(Own(d))[i])]
            files == Outputs(version, dirs)
<1>1. lits \in SUBSET Source(version)
  BY DEF Emitted, findORMCalls, Walked
<1>2. files = [d \in at |-> [entries |-> Entries(d), from |-> <<version, dirs>>]]
  BY DEF Outputs
<1>3. IsFiniteSet(at)
  <2>. DEFINE f == [l \in lits |-> l.dir]
  <2>1. IsFiniteSet(lits)
    <3>. HIDE DEF lits
    <3>. QED
      BY <1>1, FS_Subset DEF Written
  <2>. HIDE DEF lits
  <2>2. f \in Surjection(lits, at)
    BY DEF Surjection
  <2>. HIDE DEF f, at
  <2>. QED
    BY <2>1, <2>2, FS_Surjection
<1>. HIDE DEF lits
<1>4. ASSUME NEW d
      PROVE  /\ Entries(d) \in Seq({Entry(l) : l \in lits})
             /\ \A l \in Own(d) : Entry(l) \in Range(Entries(d))
  <2>. DEFINE own == sortedLits(Own(d))
              k == Cardinality(Own(d))
              E == Entries(d)
  <2>1. Own(d) \in SUBSET Source(version) /\ \A a, b \in Own(d) : a.dir = b.dir
    BY <1>1
  <2>2. /\ k \in Nat /\ DOMAIN own = 1 .. k
        /\ \A i \in 1 .. k : own[i] \in Own(d)
        /\ \A l \in Own(d) : \E i \in 1 .. k : own[i] = l
    <3>. HIDE DEF Own
    <3>. QED
      BY <2>1, SortedPart
  <2>3. Own(d) \subseteq lits
    OBVIOUS
  <2>4. E = [i \in DOMAIN own |-> Entry(own[i])]
    OBVIOUS
  <2>. HIDE DEF own, k, Own, E
  <2>5. DOMAIN E = 1 .. k /\ \A i \in 1 .. k : E[i] = Entry(own[i])
    BY <2>2, <2>4
  <2>6. E = [i \in 1 .. k |-> E[i]] /\ \A i \in 1 .. k : E[i] \in {Entry(l) : l \in lits}
    <3>1. E = [i \in 1 .. k |-> E[i]]
      BY <2>2, <2>4
    <3>. QED
      BY <2>2, <2>3, <2>5, <3>1
  <2>7. E \in Seq({Entry(l) : l \in lits})
    BY <2>2, <2>6, SeqDef
  <2>8. ASSUME NEW l \in Own(d) PROVE Entry(l) \in Range(E)
    <3>1. PICK i \in 1 .. k : own[i] = l
      BY <2>2
    <3>. QED
      BY <2>5, <3>1 DEF Range
  <2>. QED
    BY <2>7, <2>8 DEF E
<1>. HIDE DEF Entries
<1>5. /\ DOMAIN files = at
      /\ \A d \in at : files[d].entries = Entries(d) /\ files[d].from = <<version, dirs>>
  <2>. HIDE DEF files
  <2>. QED
    BY <1>2
<1>6. \A l \in lits : l.dir \in at /\ l \in Own(l.dir)
  OBVIOUS
<1>. HIDE DEF files, at, Own
<1>7. \A d \in DOMAIN files : files[d].from = <<version, dirs>> /\ files[d].entries \in Seq({Entry(l) : l \in lits})
  BY <1>4, <1>5
<1>8. \A l \in lits : Entry(l) \in Range(files[l.dir].entries)
  BY <1>4, <1>5, <1>6
<1>. QED
  BY <1>3, <1>5, <1>7, <1>8 DEF files, at, lits

\* In whatever order the files of one walk are initialised, the entries registered are
\* those of the lambdas it accepted.
LEMMA RegisteredAre ==
  ASSUME NEW version, NEW dirs, Written(Source(version)), written = Outputs(version, dirs),
         NEW order \in Orders(DOMAIN written)
  PROVE  /\ Concat(order) \in Seq({Entry(l) : l \in Emitted(Walked(version, dirs))})
         /\ \A l \in Emitted(Walked(version, dirs)) : Entry(l) \in Range(Concat(order))
<1>. DEFINE lits == Emitted(Walked(version, dirs))
            X == {Entry(l) : l \in lits}
            D == DOMAIN written
            n == Cardinality(D)
            parts == [i \in DOMAIN order |-> written[order[i]].entries]
<1>1. /\ IsFiniteSet(D) /\ D = {l.dir : l \in lits}
      /\ \A d \in D : written[d].entries \in Seq(X)
      /\ \A l \in lits : Entry(l) \in Range(written[l.dir].entries)
  BY FilesHave
<1>2. n \in Nat /\ IsFiniteSet(1 .. n) /\ Cardinality(1 .. n) = n
  <2>. HIDE DEF D
  <2>1. n \in Nat
    BY <1>1, FS_CardinalityType
  <2>. HIDE DEF n
  <2>. QED
    BY <2>1, FS_Interval
<1>3. order \in [1 .. n -> D] /\ \A i, j \in 1 .. n : order[i] = order[j] => i = j
  BY DEF Orders
<1>4. parts = [i \in DOMAIN order |-> written[order[i]].entries] /\ Concat(order) = FlattenSeq(parts)
  BY DEF Concat
<1>. HIDE DEF n, D, lits, parts
<1>5. order \in Injection(1 .. n, D)
  BY <1>3 DEF Injection, IsInjective
<1>6. order \in Surjection(1 .. n, D)
  BY <1>1, <1>2, <1>5, FS_Injection DEF n
<1>7. \A d \in D : \E i \in 1 .. n : order[i] = d
  BY <1>6 DEF Surjection
<1>8. DOMAIN parts = 1 .. n /\ \A i \in 1 .. n : parts[i] = written[order[i]].entries /\ parts[i] \in Seq(X)
  <2>. HIDE DEF X
  <2>. QED
    BY <1>1, <1>3, <1>4
<1>9. parts \in Seq(Seq(X))
  <2>1. parts = [i \in 1 .. n |-> parts[i]]
    BY <1>3, <1>4
  <2>. HIDE DEF X
  <2>. QED
    BY <1>2, <1>8, <2>1, SeqDef
<1>. HIDE DEF X
<1>10. /\ FlattenSeq(parts) \in Seq(X)
       /\ \A x : x \in Range(FlattenSeq(parts)) <=> \E i \in DOMAIN parts : x \in Range(parts[i])
  BY <1>9, FlattenRange
<1>11. ASSUME NEW l \in lits PROVE Entry(l) \in Range(Concat(order))
  <2>1. l.dir \in D
    BY <1>1
  <2>2. PICK i \in 1 .. n : order[i] = l.dir
    BY <1>7, <2>1
  <2>3. Entry(l) \in Range(parts[i])
    BY <1>1, <1>8, <2>2
  <2>. QED
    BY <1>4, <1>8, <1>10, <2>3
<1>. QED
  BY <1>4, <1>10, <1>11 DEF lits, X

\* A key that some entries have is registered with the body of one of them.
LEMMA RegisteredBody ==
  ASSUME NEW entries, Len(entries) \in Nat, DOMAIN entries = 1 .. Len(entries), NEW key,
         \E i \in DOMAIN entries : key \in entries[i].keys
  PROVE  /\ key \in DOMAIN RegisterAll(entries)
         /\ \E i \in DOMAIN entries :
              key \in entries[i].keys /\ RegisterAll(entries)[key] = entries[i].body
<1>. DEFINE n == Len(entries)
            having == {i \in DOMAIN entries : key \in entries[i].keys}
            back == {n - i : i \in having}
            IsLast(i) == key \in entries[i].keys /\ \A j \in i + 1 .. n : key \notin entries[j].keys
<1>1. n \in Nat /\ DOMAIN entries = 1 .. n
  OBVIOUS
<1>. HIDE DEF n
<1>2. \E i \in DOMAIN entries : IsLast(i)
  <2>1. back \subseteq Nat /\ back # {}
    BY <1>1
  <2>2. PICK m \in back : \A k \in back : m <= k
    <3>. HIDE DEF back
    <3>. QED
      BY <2>1, Least
  <2>3. PICK i \in having : m = n - i
    OBVIOUS
  <2>4. ASSUME NEW j \in i + 1 .. n, key \in entries[j].keys PROVE FALSE
    <3>1. i \in Nat /\ j \in 1 .. n /\ i < j
      BY <1>1, <2>3, <2>4
    <3>2. j \in having /\ n - j \in back
      BY <1>1, <2>4, <3>1
    <3>. HIDE DEF back, having
    <3>3. n - i <= n - j
      BY <2>2, <2>3, <3>2
    <3>. QED
      BY <1>1, <3>1, <3>3
  <2>. QED
    BY <2>3, <2>4
<1>3. Latest(entries, key) = entries[CHOOSE i \in DOMAIN entries : IsLast(i)].body
  BY DEF Latest, n
<1>4. \E i \in DOMAIN entries : key \in entries[i].keys /\ Latest(entries, key) = entries[i].body
  <2>. DEFINE c == CHOOSE i \in DOMAIN entries : IsLast(i)
  <2>1. c \in DOMAIN entries /\ IsLast(c)
    <3>. HIDE DEF IsLast
    <3>. QED
      BY <1>2
  <2>. HIDE DEF c
  <2>. QED
    BY <1>3, <2>1 DEF c
<1>5. key \in UNION {entries[i].keys : i \in DOMAIN entries}
  OBVIOUS
<1>6. RegisterAll(entries) = [k \in UNION {entries[i].keys : i \in DOMAIN entries} |-> Latest(entries, k)]
  BY DEF RegisterAll
<1>. QED
  BY <1>4, <1>5, <1>6

\* A key no entry has is not registered.
LEMMA NotRegistered ==
  ASSUME NEW entries, NEW key, \A i \in DOMAIN entries : key \notin entries[i].keys
  PROVE  key \notin DOMAIN RegisterAll(entries)
BY DEF RegisterAll

\* The source of a binary is a version of the program, and goqlc walks it all.
LEMMA RunningWritten ==
  ASSUME FilesInv, BinaryInv, binary # <<>>
  PROVE  /\ binary.version \in DOMAIN program.versions /\ Written(Running)
         /\ Walked(binary.version, Dirs) = Running
<1>1. DOMAIN program.versions = 1 .. Len(program.versions) /\ Len(program.versions) \in Nat
  BY ProgramsAssumption DEF FilesInv
<1>2. binary.version \in 1 .. disk
  BY DEF BinaryInv
<1>3. disk \in DOMAIN program.versions
  BY DEF FilesInv
<1>4. binary.version \in DOMAIN program.versions
  BY <1>1, <1>2, <1>3
<1>5. Written(Running)
  BY <1>4, ProgramsAssumption DEF FilesInv, Running, Source
<1>6. \A l \in Running : l.dir \in Dirs
  BY <1>4 DEF Running, Dirs
<1>. QED
  BY <1>4, <1>5, <1>6 DEF Walked, Running

\* A production binary built with all the files of its source has under the line of a
\* literal the query of that literal, or nothing if goqlc did not accept it.
LEMMA Lookup ==
  ASSUME FilesInv, BinaryInv, binary # <<>>, binary.kind = "prod", Fresh,
         NEW l \in Running, ~SameLine(l)
  PROVE  /\ l \in Emitted(Running) =>
              /\ LambdaKey(l.base, binary.line[l.id]) \in DOMAIN binary.compiled
              /\ binary.compiled[LambdaKey(l.base, binary.line[l.id])] = Body(l, l.call)
         /\ l \notin Emitted(Running) => LambdaKey(l.base, binary.line[l.id]) \notin DOMAIN binary.compiled
<1>. DEFINE key == LambdaKey(l.base, binary.line[l.id])
            lits == Emitted(Running)
<1>1. Written(Source(binary.version)) /\ Walked(binary.version, Dirs) = Running
  BY RunningWritten DEF Running
<1>2. written = Outputs(binary.version, Dirs)
  BY DEF Fresh
<1>3. PICK order \in Orders(DOMAIN written) : binary.compiled = RegisterAll(Concat(order))
  BY DEF BinaryInv
<1>. DEFINE entries == Concat(order)
<1>4. entries \in Seq({Entry(o) : o \in lits}) /\ \A o \in lits : Entry(o) \in Range(entries)
  BY <1>1, <1>2, RegisteredAre
<1>5. key \in EntryKeys(l)
  BY DEF EntryKeys, BinaryInv
<1>6. ASSUME NEW o \in lits, key \in EntryKeys(o) PROVE o = l
  <2>1. SUFFICES ASSUME o # l PROVE FALSE
    OBVIOUS
  <2>2. EntryKeys(o) \cap EntryKeys(l) # {}
    BY <1>5, <1>6
  <2>3. l \in lits /\ File(o) # File(l)
    BY <2>1, <2>2 DEF SameLine
  <2>4. /\ DOMAIN Outputs(binary.version, Dirs) = {e.dir : e \in lits}
        /\ \A d \in DOMAIN Outputs(binary.version, Dirs) :
             Outputs(binary.version, Dirs)[d].from = <<binary.version, Dirs>>
    BY <1>1, FilesHave
  <2>5. l.dir \in DOMAIN written /\ written[l.dir].from = <<binary.version, Dirs>>
    <3>. HIDE DEF lits
    <3>. QED
      BY <1>2, <2>3, <2>4
  <2>6. ~Clash(Walked(binary.version, Dirs))
    BY <2>5 DEF FilesInv, ClashFree
  <2>7. ~Clash(Running)
    BY <1>1, <2>6
  <2>. QED
    BY <2>2, <2>3, <2>7 DEF Clash
<1>. HIDE DEF key, entries, lits
<1>7. ASSUME NEW i \in DOMAIN entries, key \in entries[i].keys
      PROVE  l \in lits /\ entries[i].body = Body(l, l.call)
  <2>1. DOMAIN entries = 1 .. Len(entries)
    BY <1>4, LenProperties
  <2>2. PICK o \in lits : entries[i] = Entry(o)
    BY <1>4, <1>7, <2>1, ElementOfSeq
  <2>3. entries[i].keys = EntryKeys(o) /\ entries[i].body = Body(o, o.call)
    BY <2>2 DEF Entry
  <2>. QED
    BY <1>6, <1>7, <2>3
<1>8. CASE l \in lits
  <2>1. PICK i \in DOMAIN entries : entries[i] = Entry(l)
    BY <1>4, <1>8 DEF Range
  <2>2. key \in entries[i].keys
    BY <1>5, <2>1 DEF Entry
  <2>3. key \in DOMAIN RegisterAll(entries) /\ RegisterAll(entries)[key] = Body(l, l.call)
    <3>1. Len(entries) \in Nat /\ DOMAIN entries = 1 .. Len(entries)
      BY <1>4, LenProperties
    <3>2. /\ key \in DOMAIN RegisterAll(entries)
          /\ \E j \in DOMAIN entries : key \in entries[j].keys /\ RegisterAll(entries)[key] = entries[j].body
      BY <2>2, <3>1, RegisteredBody
    <3>. QED
      BY <1>7, <3>2
  <2>. QED
    BY <1>3, <1>8, <2>3 DEF key, entries, lits
<1>9. CASE l \notin lits
  <2>1. \A i \in DOMAIN entries : key \notin entries[i].keys
    BY <1>7, <1>9
  <2>2. key \notin DOMAIN RegisterAll(entries)
    BY <2>1, NotRegistered
  <2>. QED
    BY <1>3, <1>9, <2>2 DEF key, entries, lits
<1>. QED
  BY <1>8, <1>9

-----------------------------------------------------------------------------
(* The locator.                                                             *)

\* What the runtime says of a literal written in no other is its number among those of its
\* declaration; of one written in another, nothing the locator could take for a number.
LEMMA NumberOf ==
  ASSUME NEW l \in Running, Written(Running)
  PROVE  LET id == lambdaID(l)
             numbered == TopLevelFuncLits(Running, id.file, id.enclosing)
         IN  /\ id.file = File(l) /\ id.line = binary.line[l.id]
             /\ id.index \in DOMAIN numbered => numbered[id.index] = l
<1>. DEFINE id == lambdaID(l)
            own == {o \in Running : File(o) = File(l) /\ o.fn = l.fn /\ o.parent = None}
            lits == TopLevelFuncLits(Running, File(l), l.fn)
            part(fn) == {o \in Running : File(o) = File(l) /\ o.fn = fn /\ o.parent = None}
<1>0. id.file = File(l) /\ id.line = binary.line[l.id]
  BY DEF lambdaID
<1>1. \A fn : TopLevelFuncLits(Running, File(l), fn) = sortedLits(part(fn))
  BY DEF TopLevelFuncLits
<1>2. ASSUME NEW fn
      PROVE  /\ Cardinality(part(fn)) \in Nat /\ DOMAIN sortedLits(part(fn)) = 1 .. Cardinality(part(fn))
             /\ \A o \in part(fn) : \E i \in 1 .. Cardinality(part(fn)) : sortedLits(part(fn))[i] = o
  <2>1. part(fn) \in SUBSET Running /\ \A a, b \in part(fn) : a.dir = b.dir
    BY DEF File
  <2>. HIDE DEF part
  <2>. QED
    BY <2>1, SortedPart
<1>3. CASE l.parent = None
  <2>1. l \in part(l.fn)
    BY <1>3
  <2>. HIDE DEF part
  <2>2. \E i \in DOMAIN lits : lits[i] = l
    BY <1>1, <1>2, <2>1
  <2>3. id.enclosing = l.fn /\ id.index = CHOOSE i \in DOMAIN lits : lits[i] = l
    BY <1>3 DEF lambdaID
  <2>. HIDE DEF lits
  <2>4. lits[id.index] = l
    BY <2>2, <2>3
  <2>. QED
    BY <1>0, <2>3, <2>4 DEF lits, id
<1>4. CASE l.parent # None /\ ~binary.inlined
  <2>1. id.index = 0
    BY <1>4 DEF lambdaID
  <2>2. 0 \notin DOMAIN sortedLits(part(id.enclosing))
    <3>. HIDE DEF part
    <3>. QED
      BY <1>2
  <2>. HIDE DEF part
  <2>. QED
    BY <1>0, <1>1, <2>1, <2>2 DEF id
<1>5. CASE l.parent # None /\ binary.inlined
  <2>1. id.enclosing = "inlined"
    BY <1>5 DEF lambdaID
  <2>2. part("inlined") = {}
    BY DEF Written
  <2>3. Cardinality(part("inlined")) = 0
    BY <2>2, FS_EmptySet
  <2>4. DOMAIN sortedLits(part(id.enclosing)) = {}
    <3>. HIDE DEF part
    <3>. QED
      BY <1>2, <2>1, <2>3
  <2>. HIDE DEF part
  <2>. QED
    BY <1>0, <1>1, <2>4 DEF id
<1>. QED
  BY <1>3, <1>4, <1>5

\* Where the source read is the one compiled, the locator returns the literal of the
\* function, or it returns nothing or one that goql does not accept and that the line and
\* the signature do not tell apart from it.
LEMMA Located ==
  ASSUME NEW l \in Running, Written(Running), binary.line[l.id] \in Anchors(l), ~Parsed(l),
         NEW found, found = locateFuncLit(lambdaID(l), l.sig, Running)
  PROVE  /\ \A o \in found : o.parses => o = l
         /\ found # {l} => SideBySide(l)
<1>. DEFINE id == lambdaID(l)
            covering   == {o \in Running : File(o) = id.file /\ o.start <= id.line /\ id.line <= o.end}
            anchored   == {o \in covering : id.line \in Anchors(o)}
            candidates == IF anchored = {} THEN covering ELSE anchored
            matching   == signatureMatches(candidates, l.sig)
            narrowed   == IF Cardinality(candidates) > 1 /\ matching # {} THEN matching ELSE candidates
            numbered   == TopLevelFuncLits(Running, id.file, id.enclosing)
<1>1. /\ id.file = File(l) /\ id.line = binary.line[l.id]
      /\ id.index \in DOMAIN numbered => numbered[id.index] = l
  BY NumberOf
<1>2. found = IF Cardinality(narrowed) <= 1 THEN narrowed
              ELSE IF outermost(narrowed) # {} THEN outermost(narrowed)
              ELSE IF id.index \in DOMAIN numbered THEN {numbered[id.index]}
              ELSE {}
  BY DEF locateFuncLit
<1>. HIDE DEF id, numbered
<1>3. l \in covering /\ l \in anchored
  <2>1. l.start \in Nat /\ l.first \in Nat /\ l.end \in Nat /\ l.start <= l.first /\ l.first <= l.end
    BY DEF Written
  <2>2. id.line = l.start \/ id.line = l.first
    BY <1>1 DEF Anchors
  <2>3. l.start <= id.line /\ id.line <= l.end
    BY <2>1, <2>2
  <2>. QED
    BY <1>1, <2>3
<1>4. candidates = anchored
  BY <1>3
<1>5. /\ l \in candidates
      /\ \A o \in candidates : o \in Running /\ File(o) = File(l) /\ binary.line[l.id] \in Anchors(o)
  BY <1>1, <1>3, <1>4
<1>6. IsFiniteSet(candidates)
  <2>. HIDE DEF candidates
  <2>1. candidates \in SUBSET Running
    BY <1>5
  <2>. QED
    BY <2>1, FS_Subset DEF Written
<1>. HIDE DEF covering, anchored, candidates
<1>7. matching = {o \in candidates : o.sig = l.sig}
  BY DEF signatureMatches
<1>. HIDE DEF matching
<1>8. l \in matching
  BY <1>5, <1>7
<1>9. narrowed = IF Cardinality(candidates) > 1 THEN matching ELSE candidates
  BY <1>8
<1>. HIDE DEF narrowed
<1>10. l \in narrowed /\ narrowed \in SUBSET candidates /\ IsFiniteSet(narrowed)
  <2>1. l \in narrowed /\ narrowed \in SUBSET candidates
    BY <1>5, <1>7, <1>8, <1>9
  <2>. QED
    BY <1>6, <2>1, FS_Subset
<1>11. ASSUME NEW S, IsFiniteSet(S), l \in S, Cardinality(S) <= 1 PROVE S = {l}
  <2>1. Cardinality(S) \in Nat /\ Cardinality(S) # 0
    BY <1>11, FS_CardinalityType, FS_EmptySet
  <2>2. Cardinality(S) = 1
    BY <1>11, <2>1
  <2>3. \E x : S = {x}
    BY <1>11, <2>2, FS_Singleton
  <2>. QED
    BY <1>11, <2>3
<1>12. ASSUME NEW o \in narrowed, o # l PROVE SideBySide(l)
  <2>1. ~(Cardinality(candidates) <= 1)
    BY <1>5, <1>6, <1>10, <1>11, <1>12
  <2>2. Cardinality(candidates) > 1
    BY <1>6, <2>1, FS_CardinalityType
  <2>3. o.sig = l.sig
    BY <1>7, <1>9, <2>2
  <2>. QED
    BY <1>5, <1>10, <1>12, <2>3 DEF SideBySide
<1>13. CASE Cardinality(narrowed) <= 1
  <2>1. narrowed = {l}
    BY <1>10, <1>11, <1>13
  <2>. QED
    BY <1>2, <1>13, <2>1
<1>14. CASE ~(Cardinality(narrowed) <= 1)
  <2>1. SideBySide(l)
    <3>1. narrowed # {l}
      BY <1>14, FS_Singleton
    <3>. QED
      BY <1>10, <1>12, <3>1
  <2>2. ASSUME NEW o \in outermost(narrowed), o # l PROVE ~o.parses
    <3>1. o \in narrowed /\ Encloses(o, l)
      BY <1>10, <2>2 DEF outermost
    <3>. QED
      BY <1>5, <1>10, <2>2, <3>1 DEF Parsed
  <2>. QED
    BY <1>1, <1>2, <1>14, <2>1, <2>2
<1>. QED
  BY <1>13, <1>14

-----------------------------------------------------------------------------
(* What a step leaves alone.                                                *)

\* The identities of literals depend on the binary only.
LEMMA SameBinary ==
  ASSUME program' = program, binary' = binary
  PROVE  /\ Running' = Running /\ \A l : lambdaID(l)' = lambdaID(l)
         /\ \A l : SharesKey(l)' = SharesKey(l)
         /\ \A l : SideBySide(l)' = SideBySide(l)
         /\ \A l : Parsed(l)' = Parsed(l)
         /\ \A l : SameLine(l)' = SameLine(l)
<1>1. Running' = Running
  BY DEF Running, Source
<1>2. \A l : lambdaID(l)' = lambdaID(l)
  BY <1>1 DEF lambdaID
<1>3. \A l : SharesKey(l)' = SharesKey(l)
  BY <1>1, <1>2 DEF SharesKey
<1>4. \A l : SideBySide(l)' = SideBySide(l)
  BY <1>1 DEF SideBySide
<1>5. \A l : Parsed(l)' = Parsed(l)
  BY <1>1 DEF Parsed
<1>6. \A l : SameLine(l)' = SameLine(l)
  BY <1>1 DEF SameLine
<1>. QED
  BY <1>1, <1>2, <1>3, <1>4, <1>5, <1>6

\* The source on disk only moves away from the one a binary was built from.
LEMMA SoughtBefore ==
  ASSUME FilesInv, BinaryInv, binary # <<>>, program' = program, binary' = binary,
         disk' = disk \/ disk' = disk + 1
  PROVE  \A l : Sought(l)' => Sought(l)
<1>1. disk \in Nat /\ binary.version \in 1 .. disk
  BY ProgramsAssumption DEF FilesInv, BinaryInv
<1>2. disk' = binary.version => disk = binary.version
  BY <1>1
<1>. QED
  BY <1>2, SameBinary DEF Sought

\* The goroutines a step does not move keep what holds of them.
LEMMA OthersKeep ==
  ASSUME program' = program, binary' = binary, written' = written,
         \A l : Sought(l)' => Sought(l), NEW s, session'[s] = session[s]
  PROVE  /\ InParse(s)' = InParse(s)
         /\ CallOf(s) => CallOf(s)'
         /\ DevOf(s) => DevOf(s)'
         /\ ProdOf(s) => ProdOf(s)'
<1>1. Running' = Running /\ Emitted(Running)' = Emitted(Running)
  BY SameBinary
<1>2. InParse(s)' = InParse(s)
  BY DEF InParse
<1>3. Fresh' = Fresh
  BY DEF Fresh, Outputs, Walked, Source, Dirs
<1>4. \A l : Passes(s, l)' = Passes(s, l) /\ Query(s, l)' = Query(s, l)
  BY DEF Passes, Query
<1>5. CallOf(s) => CallOf(s)'
  BY <1>1, <1>2, <1>4, SameBinary DEF CallOf
<1>6. DevOf(s) => DevOf(s)'
  BY <1>1, <1>2, <1>4, SameBinary DEF DevOf
<1>7. ProdOf(s) => ProdOf(s)'
  <2>. SUFFICES ASSUME ProdOf(s), InParse(s)', (binary.kind = "prod")', (session[s].pc = "served")', Fresh',
                       NEW l \in Running', Passes(s, l)', ~SameLine(l)'
                PROVE  (session[s].body = IF l \in Emitted(Running) THEN Query(s, l) ELSE <<>>)'
    BY DEF ProdOf
  <2>1. InParse(s) /\ Fresh /\ Passes(s, l) /\ ~SameLine(l) /\ l \in Running
    BY <1>1, <1>2, <1>3, <1>4, SameBinary
  <2>2. session[s].body = IF l \in Emitted(Running) THEN Query(s, l) ELSE <<>>
    BY <2>1 DEF ProdOf
  <2>. QED
    BY <1>1, <1>4, <2>2
<1>. QED
  BY <1>2, <1>5, <1>6, <1>7

-----------------------------------------------------------------------------
(* The steps before a binary is built.                                      *)

\* Until then no lambda is called.
LEMMA NothingRuns ==
  ASSUME IInv, binary = <<>>
  PROVE  \A s \in Sessions : ~InParse(s)
BY DEF IInv, CallsInv, CallOf

\* So all a step has to keep is what the files are.
LEMMA KeptUnbuilt ==
  ASSUME IInv, binary = <<>>, binary' = <<>>, UNCHANGED <<program, cache, session>>, FilesInv'
  PROVE  IInv'
<1>1. \A s \in Sessions : ~InParse(s) /\ InParse(s)' = InParse(s)
  BY NothingRuns DEF InParse
<1>2. BinaryInv'
  BY DEF IInv, BinaryInv
<1>3. CallsInv'
  BY <1>1 DEF IInv, CallsInv, CallOf
<1>4. DevInv'
  BY <1>1 DEF DevInv, CacheInv, DevOf
<1>5. ProdInv'
  BY <1>1 DEF ProdInv, ProdOf
<1>. QED
  BY <1>2, <1>3, <1>4, <1>5 DEF IInv

\* The files of a walk are for packages of the program, and say that they did not clash.
LEMMA OutputsFit ==
  ASSUME FilesInv, NEW dirs, ~Clash(Walked(disk, dirs))
  PROVE  DOMAIN Outputs(disk, dirs) \subseteq Dirs /\ ClashFree(Outputs(disk, dirs))
<1>1. Written(Source(disk))
  BY ProgramsAssumption DEF FilesInv, Source
<1>2. /\ DOMAIN Outputs(disk, dirs) = {l.dir : l \in Emitted(Walked(disk, dirs))}
      /\ \A d \in DOMAIN Outputs(disk, dirs) : Outputs(disk, dirs)[d].from = <<disk, dirs>>
  BY <1>1, FilesHave
<1>3. \A l \in Emitted(Walked(disk, dirs)) : l \in Source(disk)
  BY DEF Emitted, findORMCalls, Walked
<1>4. \A l \in Source(disk) : l.dir \in Dirs
  BY DEF FilesInv, Dirs
<1>5. DOMAIN Outputs(disk, dirs) \subseteq Dirs
  BY <1>2, <1>3, <1>4
<1>6. ClashFree(Outputs(disk, dirs))
  BY <1>2 DEF ClashFree
<1>. QED
  BY <1>5, <1>6

\* goqlc keeps the invariant, wherever it stops.
LEMMA GenerateKeeps ==
  ASSUME IInv, Generate
  PROVE  IInv'
<1>1. FilesInv /\ BinaryInv
  BY DEF IInv
<1>2. ASSUME UNCHANGED program
      PROVE  Dirs' = Dirs /\ \A v, dirs : Clash(Walked(v, dirs))' = Clash(Walked(v, dirs))
  <2>1. Dirs' = Dirs /\ \A v, dirs : Walked(v, dirs)' = Walked(v, dirs)
    BY <1>2 DEF Dirs, Walked, Source
  <2>. QED
    BY <2>1
<1>3. ASSUME NEW dirs, Scan(dirs) PROVE IInv'
  <2>1. /\ binary = <<>> /\ binary' = <<>> /\ ~Clash(Walked(disk, dirs))
        /\ writing' = Outputs(disk, dirs) /\ UNCHANGED <<program, disk, written, cache, session>>
    BY <1>3 DEF Scan
  <2>2. DOMAIN Outputs(disk, dirs) \subseteq Dirs /\ ClashFree(Outputs(disk, dirs))
    BY <1>1, <2>1, OutputsFit
  <2>3. FilesInv'
    BY <1>1, <1>2, <2>1, <2>2 DEF FilesInv, ClashFree
  <2>. QED
    BY <2>1, <2>3, KeptUnbuilt
<1>4. ASSUME NEW d, d \in DOMAIN writing PROVE binary = <<>>
  <2>1. writing # <<>>
    BY <1>4
  <2>. QED
    BY <1>1, <2>1 DEF BinaryInv
<1>5. ASSUME NEW d, Emit(d) PROVE IInv'
  <2>1. /\ d \in DOMAIN writing
        /\ written' = [x \in DOMAIN written \cup {d} |-> IF x = d THEN writing[d] ELSE written[x]]
        /\ writing' = [x \in DOMAIN writing \ {d} |-> writing[x]]
        /\ UNCHANGED <<program, disk, binary, cache, session>>
    BY <1>5 DEF Emit
  <2>2. binary = <<>>
    BY <1>4, <2>1
  <2>3. /\ \A x \in DOMAIN written' : (x \in DOMAIN writing /\ written'[x] = writing[x])
                                     \/ (x \in DOMAIN written /\ written'[x] = written[x])
        /\ \A x \in DOMAIN writing' : x \in DOMAIN writing /\ writing'[x] = writing[x]
    BY <2>1
  <2>4. (DOMAIN written \subseteq Dirs /\ DOMAIN writing \subseteq Dirs)'
    BY <1>1, <1>2, <2>1, <2>3 DEF FilesInv
  <2>5. ClashFree(written)' /\ ClashFree(writing)'
    BY <1>1, <1>2, <2>1, <2>3 DEF FilesInv, ClashFree
  <2>6. FilesInv'
    BY <1>1, <2>1, <2>4, <2>5 DEF FilesInv
  <2>. QED
    BY <2>1, <2>2, <2>6, KeptUnbuilt
<1>6. ASSUME EmitFails PROVE IInv'
  <2>1. writing # <<>> /\ writing' = <<>> /\ UNCHANGED <<program, disk, written, binary, cache, session>>
    BY <1>6 DEF EmitFails
  <2>2. binary = <<>>
    BY <1>1, <2>1 DEF BinaryInv
  <2>3. DOMAIN writing' = {}
    BY <2>1
  <2>4. ClashFree(writing)' /\ ClashFree(written)'
    BY <1>1, <1>2, <2>1, <2>3 DEF FilesInv, ClashFree
  <2>5. FilesInv'
    BY <1>1, <1>2, <2>1, <2>3, <2>4 DEF FilesInv
  <2>. QED
    BY <2>1, <2>2, <2>5, KeptUnbuilt
<1>. QED
  BY <1>3, <1>5, <1>6 DEF Generate

\* Building keeps it: the lines are those the runtime may report, the registry is that of
\* the files.
LEMMA CompileKeeps ==
  ASSUME IInv, Compile
  PROVE  IInv'
<1>1. FilesInv /\ BinaryInv /\ CallsInv
  BY DEF IInv
<1>2. PICK lines \in Lines(Source(disk)) :
        \/ \E inlined \in BOOLEAN, embedded \in SUBSET Dirs : BuildDev(lines, inlined, embedded)
        \/ \E order \in Orders(DOMAIN written) : BuildProd(lines, order)
  BY DEF Compile
<1>. DEFINE Builds(kind, inlined, embedded, compiled) ==
              /\ Build(kind, lines, inlined, embedded, compiled)
              /\ kind = "prod" => \E order \in Orders(DOMAIN written) : compiled = RegisterAll(Concat(order))
<1>3. \E kind, inlined, embedded, compiled : Builds(kind, inlined, embedded, compiled)
  <2>1. ASSUME NEW inlined, NEW embedded, BuildDev(lines, inlined, embedded)
        PROVE  Builds("dev", inlined, embedded, <<>>)
    BY <2>1 DEF BuildDev
  <2>2. ASSUME NEW order \in Orders(DOMAIN written), BuildProd(lines, order)
        PROVE  Builds("prod", FALSE, {}, RegisterAll(Concat(order)))
    BY <2>2 DEF BuildProd
  <2>. HIDE DEF Builds
  <2>. QED
    BY <1>2, <2>1, <2>2
<1>4. PICK kind, inlined, embedded, compiled : Builds(kind, inlined, embedded, compiled)
  BY <1>3
<1>5. /\ binary = <<>> /\ writing = <<>>
      /\ binary' = [kind |-> kind, version |-> disk, line |-> lines, inlined |-> inlined,
                    embedded |-> embedded, compiled |-> compiled]
      /\ UNCHANGED <<program, disk, written, writing, cache, session>>
  BY <1>4 DEF Build
<1>6. binary'.kind = kind /\ binary'.version = disk /\ binary'.line = lines /\ binary'.compiled = compiled
  BY <1>5
<1>7. \A s \in Sessions : ~InParse(s) /\ InParse(s)' = InParse(s)
  BY <1>5, NothingRuns DEF InParse
<1>8. FilesInv'
  BY <1>1, <1>5 DEF FilesInv, ClashFree, Dirs, Walked, Source
<1>9. Running' = Source(disk)
  BY <1>5, <1>6 DEF Running, Source
<1>10. BinaryInv'
  <2>1. disk \in Nat /\ disk \in 1 .. disk
    BY <1>1, ProgramsAssumption DEF FilesInv
  <2>2. \A l \in Source(disk) : lines[l.id] \in Anchors(l)
    BY DEF Lines
  <2>3. \A order : (RegisterAll(Concat(order)))' = RegisterAll(Concat(order))
    BY <1>5 DEF Concat
  <2>4. DOMAIN cache = {}
    BY <1>1, <1>5 DEF BinaryInv
  <2>5. (\A l \in Running : binary.line[l.id] \in Anchors(l))'
    BY <1>6, <1>9, <2>2
  <2>6. (binary.kind = "prod" => \E order \in Orders(DOMAIN written) : binary.compiled = RegisterAll(Concat(order)))'
    BY <1>5, <1>6, <1>4, <2>3
  <2>. QED
    BY <1>5, <1>6, <2>1, <2>4, <2>5, <2>6 DEF BinaryInv
<1>11. CallsInv'
  BY <1>1, <1>5, <1>7 DEF CallsInv, CallOf
<1>12. DevInv'
  <2>1. DOMAIN cache' = {}
    BY <1>1, <1>5 DEF BinaryInv
  <2>. QED
    BY <1>7, <2>1 DEF DevInv, CacheInv, DevOf
<1>13. ProdInv'
  BY <1>7 DEF ProdInv, ProdOf
<1>. QED
  BY <1>8, <1>10, <1>11, <1>12, <1>13 DEF IInv

-----------------------------------------------------------------------------
(* The steps of a running binary.                                           *)

\* A step of one goroutine keeps the invariant if its new call is as it should be, and so
\* is the cache.
LEMMA OneMoves ==
  ASSUME IInv, UNCHANGED <<program, disk, written, writing, binary>>, CacheInv',
         binary = <<>> => cache' = cache,
         NEW s \in Sessions, NEW call, session' = [session EXCEPT ![s] = call],
         call.pc \in {"idle", "look", "read", "parsed", "served"}, call.pc = "parsed" => call.body # <<>>,
         CallOf(s)', DevOf(s)', ProdOf(s)'
  PROVE  IInv'
<1>1. FilesInv /\ BinaryInv /\ CallsInv /\ DevInv /\ ProdInv
  BY DEF IInv
<1>2. \A l : Sought(l)' => Sought(l)
  BY SameBinary DEF Sought
<1>3. ASSUME NEW o \in Sessions, o # s
      PROVE  /\ session'[o] = session[o]
             /\ CallOf(o)' /\ DevOf(o)' /\ ProdOf(o)'
  <2>1. session'[o] = session[o]
    BY <1>3
  <2>2. CallOf(o) /\ DevOf(o) /\ ProdOf(o)
    BY <1>1 DEF CallsInv, DevInv, ProdInv
  <2>. QED
    BY <1>2, <2>1, <2>2, OthersKeep
<1>4. session'[s] = call /\ DOMAIN session' = Sessions
  BY <1>1 DEF CallsInv
<1>5. FilesInv'
  BY <1>1 DEF FilesInv, ClashFree, Dirs, Walked, Source
<1>6. BinaryInv'
  <2>1. Running' = Running /\ \A order : (RegisterAll(Concat(order)))' = RegisterAll(Concat(order))
    BY SameBinary DEF Concat
  <2>. QED
    BY <1>1, <2>1 DEF BinaryInv
<1>7. CallsInv'
  <2>1. ASSUME NEW o \in Sessions
        PROVE  /\ session'[o].pc \in {"idle", "look", "read", "parsed", "served"}
               /\ session'[o].pc = "parsed" => session'[o].body # <<>>
               /\ CallOf(o)'
    BY <1>1, <1>3, <1>4 DEF CallsInv
  <2>. QED
    BY <1>4, <2>1 DEF CallsInv
<1>8. DevInv' /\ ProdInv'
  BY <1>3 DEF DevInv, ProdInv
<1>. QED
  BY <1>5, <1>6, <1>7, <1>8 DEF IInv

\* The cache is right as long as the binary runs and nothing is stored.
LEMMA CacheStays ==
  ASSUME CacheInv, UNCHANGED <<program, binary, cache>>, \A l : Sought(l)' => Sought(l)
  PROVE  CacheInv'
<1>1. /\ Running' = Running
      /\ \A l : cacheKey(lambdaID(l))' = cacheKey(lambdaID(l))
  BY SameBinary
<1>. QED
  BY <1>1 DEF CacheInv

\* An edit changes what is sought, and no more.
LEMMA EditKeeps ==
  ASSUME IInv, Edit
  PROVE  IInv'
<1>1. /\ disk < Len(program.versions) /\ disk' = disk + 1
      /\ UNCHANGED <<program, written, writing, binary, cache, session>>
  BY DEF Edit
<1>2. FilesInv /\ BinaryInv /\ CallsInv /\ DevInv /\ ProdInv
  BY DEF IInv
<1>3. /\ disk \in 1 .. Len(program.versions) /\ Len(program.versions) \in Nat
      /\ DOMAIN program.versions = 1 .. Len(program.versions)
  BY <1>2, ProgramsAssumption DEF FilesInv
<1>4. FilesInv'
  <2>1. disk' \in DOMAIN program.versions
    BY <1>1, <1>3
  <2>. QED
    BY <1>1, <1>2, <2>1 DEF FilesInv, ClashFree, Dirs, Walked, Source
<1>5. CASE binary = <<>>
  BY <1>1, <1>4, <1>5, KeptUnbuilt
<1>6. CASE binary # <<>>
  <2>1. \A l : Sought(l)' => Sought(l)
    BY <1>1, <1>2, <1>6, SoughtBefore
  <2>2. \A s \in Sessions : CallOf(s)' /\ DevOf(s)' /\ ProdOf(s)'
    <3>1. ASSUME NEW s \in Sessions PROVE CallOf(s)' /\ DevOf(s)' /\ ProdOf(s)'
      <4>1. CallOf(s) /\ DevOf(s) /\ ProdOf(s)
        BY <1>2 DEF CallsInv, DevInv, ProdInv
      <4>2. session'[s] = session[s]
        BY <1>1
      <4>. QED
        BY <1>1, <2>1, <4>1, <4>2, OthersKeep
    <3>. QED
      BY <3>1
  <2>3. CacheInv'
    BY <1>1, <1>2, <2>1, CacheStays DEF DevInv
  <2>4. BinaryInv'
    <3>1. binary.version \in 1 .. disk'
      BY <1>1, <1>2, <1>3, <1>6 DEF BinaryInv
    <3>2. Running' = Running /\ \A order : (RegisterAll(Concat(order)))' = RegisterAll(Concat(order))
      BY <1>1, SameBinary DEF Concat
    <3>. QED
      BY <1>1, <1>2, <1>6, <3>1, <3>2 DEF BinaryInv
  <2>5. CallsInv'
    BY <1>1, <1>2, <2>2 DEF CallsInv
  <2>. QED
    BY <1>4, <2>2, <2>3, <2>4, <2>5 DEF IInv, DevInv, ProdInv
<1>. QED
  BY <1>5, <1>6

\* A goroutine that is outside ParseQuery afterwards has nothing to keep.
LEMMA OutsideKeeps ==
  ASSUME IInv, UNCHANGED <<program, disk, written, writing, binary, cache>>,
         NEW s \in Sessions, NEW call, session' = [session EXCEPT ![s] = call],
         call.pc = "idle" \/ (call.pc = "served" /\ call.lit = None)
  PROVE  IInv'
<1>1. session'[s] = call
  BY DEF IInv, CallsInv
<1>2. ~InParse(s)'
  BY <1>1 DEF InParse
<1>3. CallOf(s)' /\ DevOf(s)' /\ ProdOf(s)'
  BY <1>2 DEF CallOf, DevOf, ProdOf
<1>4. \A l : Sought(l)' => Sought(l)
  BY SameBinary DEF Sought
<1>5. CacheInv'
  BY <1>4, CacheStays DEF IInv, DevInv
<1>. QED
  BY <1>3, <1>5, OneMoves

\* A search and a return leave ParseQuery alone.
LEMMA SearchReturnKeep ==
  ASSUME IInv, NEW s \in Sessions, Return(s) \/ \E text \in program.searches : Search(s, text)
  PROVE  IInv'
<1>1. ASSUME NEW text, Search(s, text) PROVE IInv'
  <2>. DEFINE call == [pc |-> "served", lit |-> None, call |-> "Search", body |-> <<[text |-> text]>>]
  <2>1. UNCHANGED <<program, disk, written, writing, binary, cache>> /\ session' = [session EXCEPT ![s] = call]
    BY <1>1 DEF Search
  <2>2. call.pc = "served" /\ call.lit = None
    OBVIOUS
  <2>. HIDE DEF call
  <2>. QED
    BY <2>1, <2>2, OutsideKeeps
<1>2. ASSUME Return(s) PROVE IInv'
  <2>1. UNCHANGED <<program, disk, written, writing, binary, cache>> /\ session' = [session EXCEPT ![s] = Idle]
    BY <1>2 DEF Return
  <2>2. Idle.pc = "idle"
    BY DEF Idle
  <2>. QED
    BY <2>1, <2>2, OutsideKeeps
<1>. QED
  BY <1>1, <1>2

\* A call passes a literal that is run.
LEMMA CallKeeps ==
  ASSUME IInv, NEW s \in Sessions, NEW l, NEW call, Call(s, l, call)
  PROVE  IInv'
<1>. DEFINE new == [pc |-> "look", lit |-> l.id, call |-> call, body |-> <<>>]
<1>1. /\ binary # <<>> /\ l \in Running /\ l.call \in {None, call} /\ ~Parsed(l)
      /\ session' = [session EXCEPT ![s] = new]
      /\ UNCHANGED <<program, disk, written, writing, binary, cache>>
  BY DEF Call
<1>2. new.pc = "look" /\ new.lit = l.id /\ new.call = call
  OBVIOUS
<1>. HIDE DEF new
<1>3. session'[s] = new
  BY <1>1 DEF IInv, CallsInv
<1>4. CallOf(s)'
  <2>1. Running' = Running /\ Parsed(l)' = Parsed(l)
    BY <1>1, SameBinary
  <2>2. (Passes(s, l) /\ ~Parsed(l) /\ l.call \in {None, session[s].call})' /\ l \in Running'
    BY <1>1, <1>2, <1>3, <2>1 DEF Passes
  <2>. QED
    BY <1>1, <1>2, <1>3, <2>2 DEF CallOf
<1>5. DevOf(s)' /\ ProdOf(s)'
  BY <1>2, <1>3 DEF DevOf, ProdOf
<1>6. CacheInv'
  <2>1. \A k : Sought(k)' => Sought(k)
    BY <1>1, SameBinary DEF Sought
  <2>. QED
    BY <1>1, <2>1, CacheStays DEF IInv, DevInv
<1>. QED
  BY <1>1, <1>2, <1>4, <1>5, <1>6, OneMoves

\* The literal a goroutine in ParseQuery passes.
LEMMA OneCaller ==
  ASSUME IInv, NEW s \in Sessions, InParse(s)
  PROVE  /\ binary # <<>> /\ Written(Running)
         /\ \E l \in Running : /\ Passes(s, l) /\ Caller(s) = l /\ binary.line[l.id] \in Anchors(l)
                               /\ ~Parsed(l) /\ l.call \in {None, session[s].call}
         /\ \A a, b \in Running : Passes(s, a) /\ Passes(s, b) => a = b
<1>1. binary # <<>> /\ \E l \in Running : Passes(s, l) /\ ~Parsed(l) /\ l.call \in {None, session[s].call}
  BY DEF IInv, CallsInv, CallOf
<1>2. Written(Running)
  BY <1>1, RunningWritten DEF IInv
<1>3. \A a, b \in Running : Passes(s, a) /\ Passes(s, b) => a = b
  BY <1>2 DEF Written, Passes
<1>4. PICK l \in Running : Passes(s, l) /\ ~Parsed(l) /\ l.call \in {None, session[s].call}
  BY <1>1
<1>5. Caller(s) = CHOOSE k \in Running : k.id = session[s].lit
  BY DEF Caller, ById
<1>6. \A k \in Running : k.id = session[s].lit => k = l
  BY <1>3, <1>4 DEF Passes
<1>7. Caller(s) = l
  BY <1>4, <1>5, <1>6 DEF Passes
<1>8. binary.line[l.id] \in Anchors(l)
  BY <1>1 DEF IInv, BinaryInv
<1>. QED
  BY <1>1, <1>2, <1>3, <1>4, <1>7, <1>8

\* A step of ParseQuery keeps the invariant if what it carries or serves is right.
LEMMA Reaching ==
  ASSUME IInv, UNCHANGED <<program, disk, written, writing, binary>>, CacheInv',
         NEW s \in Sessions, InParse(s), NEW pc \in {"read", "parsed", "served"}, NEW body, Reach(s, pc, body),
         pc = "parsed" => body # <<>>, pc \in {"read", "parsed"} => binary.kind = "dev",
         NEW l \in Running, Passes(s, l),
         binary.kind = "dev" /\ Sought(l) =>
           /\ pc = "parsed" => body = Query(s, l)
           /\ pc = "served" => /\ body \in {Query(s, l), <<>>}
                               /\ body = <<>> => ~l.parses \/ SideBySide(l),
         binary.kind = "prod" /\ pc = "served" /\ Fresh /\ ~SameLine(l) =>
           body = IF l \in Emitted(Running) THEN Query(s, l) ELSE <<>>
  PROVE  IInv'
<1>. DEFINE call == [pc |-> pc, lit |-> session[s].lit, call |-> session[s].call, body |-> body]
<1>1. session' = [session EXCEPT ![s] = call]
  BY DEF Reach
<1>2. call.pc = pc /\ call.lit = session[s].lit /\ call.call = session[s].call /\ call.body = body
  OBVIOUS
<1>. HIDE DEF call
<1>3. session'[s] = call
  BY <1>1 DEF IInv, CallsInv
<1>4. /\ Running' = Running /\ Emitted(Running)' = Emitted(Running) /\ Fresh' = Fresh
      /\ \A k : Sought(k)' => Sought(k)
  BY SameBinary DEF Sought, Fresh, Outputs, Walked, Source, Dirs
<1>5. \A k \in Running : Passes(s, k) => k = l
  BY OneCaller
<1>6. \A k : Passes(s, k)' = Passes(s, k) /\ Query(s, k)' = Query(s, k)
  BY <1>2, <1>3 DEF Passes, Query
<1>7. CallOf(s)'
  <2>1. PICK k \in Running : Passes(s, k) /\ ~Parsed(k) /\ k.call \in {None, session[s].call}
    BY OneCaller
  <2>2. Passes(s, k)' /\ ~Parsed(k)' /\ k.call \in {None, session'[s].call} /\ k \in Running'
    BY <1>2, <1>3, <1>4, <1>6, <2>1, SameBinary
  <2>3. binary' # <<>>
    BY OneCaller
  <2>. QED
    BY <1>2, <1>3, <2>2, <2>3 DEF CallOf
<1>8. DevOf(s)'
  <2>. SUFFICES ASSUME (binary.kind = "dev")', NEW k \in Running', Passes(s, k)', Sought(k)'
                PROVE  /\ (session[s].pc = "parsed" => session[s].body = Query(s, k))'
                       /\ (session[s].pc = "served" =>
                             /\ session[s].body \in {Query(s, k), <<>>}
                             /\ session[s].body = <<>> => ~k.parses \/ SideBySide(k))'
    BY DEF DevOf
  <2>1. k = l /\ Sought(l) /\ binary.kind = "dev"
    BY <1>4, <1>5, <1>6
  <2>2. SideBySide(k)' = SideBySide(k)
    BY SameBinary
  <2>. QED
    BY <1>2, <1>3, <1>6, <2>1, <2>2
<1>9. ProdOf(s)'
  <2>. SUFFICES ASSUME (binary.kind = "prod")', (session[s].pc = "served")', Fresh',
                       NEW k \in Running', Passes(s, k)', ~SameLine(k)'
                PROVE  (session[s].body = IF k \in Emitted(Running) THEN Query(s, k) ELSE <<>>)'
    BY DEF ProdOf
  <2>1. k = l /\ ~SameLine(l) /\ Fresh /\ binary.kind = "prod" /\ pc = "served"
    BY <1>2, <1>3, <1>4, <1>5, <1>6, SameBinary
  <2>. QED
    BY <1>2, <1>3, <1>4, <1>6, <2>1
<1>10. binary = <<>> => cache' = cache
  BY OneCaller
<1>. QED
  BY <1>1, <1>2, <1>7, <1>8, <1>9, <1>10, OneMoves

\* A production binary serves what is under the key, or nothing.
LEMMA LookCompiledKeeps ==
  ASSUME IInv, NEW s \in Sessions, LookCompiled(s)
  PROVE  IInv'
<1>. DEFINE body == IF LambdaKey(Caller(s).base, binary.line[session[s].lit]) \in DOMAIN binary.compiled
                    THEN <<binary.compiled[LambdaKey(Caller(s).base, binary.line[session[s].lit])]>>
                    ELSE <<>>
<1>1. /\ session[s].pc = "look" /\ binary.kind = "prod" /\ Reach(s, "served", body)
      /\ UNCHANGED <<program, disk, written, writing, binary, cache>>
  BY DEF LookCompiled, Serve
<1>2. InParse(s)
  BY <1>1 DEF InParse
<1>3. binary # <<>>
  BY <1>2, OneCaller
<1>4. PICK l \in Running : Passes(s, l) /\ Caller(s) = l /\ l.call \in {None, session[s].call}
  BY <1>2, OneCaller
<1>5. ASSUME Fresh, ~SameLine(l)
      PROVE  body = IF l \in Emitted(Running) THEN Query(s, l) ELSE <<>>
  <2>. DEFINE key == LambdaKey(l.base, binary.line[l.id])
  <2>1. /\ l \in Emitted(Running) => key \in DOMAIN binary.compiled /\ binary.compiled[key] = Body(l, l.call)
        /\ l \notin Emitted(Running) => key \notin DOMAIN binary.compiled
    BY <1>1, <1>3, <1>5, Lookup DEF IInv
  <2>2. body = IF key \in DOMAIN binary.compiled THEN <<binary.compiled[key]>> ELSE <<>>
    BY <1>4 DEF Passes
  <2>3. l \in Emitted(Running) => l.call = session[s].call
    BY <1>4, APIAssumption DEF Emitted, findORMCalls
  <2>. HIDE DEF key, body
  <2>. QED
    BY <2>1, <2>2, <2>3 DEF Query
<1>6. CacheInv'
  BY <1>1 DEF CacheInv
<1>. HIDE DEF body
<1>7. ~(binary.kind = "dev")
  BY <1>1
<1>. QED
  BY <1>1, <1>2, <1>4, <1>5, <1>6, <1>7, Reaching

\* A body in the cache is the literal's own.
LEMMA cachedBodyKeeps ==
  ASSUME IInv, NEW s \in Sessions, cachedBody(s)
  PROVE  IInv'
<1>. DEFINE key == cacheKey(lambdaID(Caller(s)))
<1>1. /\ session[s].pc = "look" /\ binary.kind = "dev"
      /\ IF key \in DOMAIN cache THEN Reach(s, "served", <<cache[key]>>) ELSE Reach(s, "read", <<>>)
      /\ UNCHANGED <<program, disk, written, writing, binary, cache>>
  BY DEF cachedBody, Serve
<1>2. InParse(s)
  BY <1>1 DEF InParse
<1>3. binary # <<>>
  BY <1>2, OneCaller
<1>4. PICK l \in Running : Passes(s, l) /\ Caller(s) = l /\ l.call \in {None, session[s].call}
  BY <1>2, OneCaller
<1>5. CacheInv'
  <2>1. \A k : Sought(k)' => Sought(k)
    BY <1>1, SameBinary DEF Sought
  <2>. QED
    BY <1>1, <2>1, CacheStays DEF IInv, DevInv
<1>6. key = cacheKey(lambdaID(l))
  BY <1>4
<1>. HIDE DEF key
<1>7. ASSUME key \in DOMAIN cache, Sought(l) PROVE <<cache[key]>> = Query(s, l)
  <2>1. cache[key] = Body(l, l.call)
    BY <1>1, <1>3, <1>6, <1>7 DEF IInv, DevInv, CacheInv
  <2>2. l.call = session[s].call
    BY <1>4, <1>7 DEF Sought
  <2>. QED
    BY <2>1, <2>2 DEF Query
<1>8. <<cache[key]>> # <<>> /\ ~(binary.kind = "prod")
  BY <1>1
<1>9. CASE key \in DOMAIN cache
  BY <1>1, <1>2, <1>4, <1>5, <1>7, <1>8, <1>9, Reaching
<1>10. CASE key \notin DOMAIN cache
  BY <1>1, <1>2, <1>4, <1>5, <1>8, <1>10, Reaching
<1>. QED
  BY <1>9, <1>10

\* A literal found is parsed into its own query, or refused.
LEMMA parseLambdaKeeps ==
  ASSUME IInv, NEW s \in Sessions, parseLambda(s)
  PROVE  IInv'
<1>. DEFINE found == locateFuncLit(lambdaID(Caller(s)), Caller(s).sig, readSource(File(Caller(s))))
            Refuse == Serve(s, <<>>)
            Parse(lit) == lit.parses /\ Reach(s, "parsed", <<Body(lit, session[s].call)>>)
<1>1. /\ session[s].pc = "read"
      /\ \/ found = {} /\ Refuse
         \/ \E lit \in found : (~lit.parses \/ lit.sig # Caller(s).sig) /\ Refuse
         \/ \E lit \in found : Parse(lit)
      /\ UNCHANGED <<program, disk, written, writing, binary, cache>>
  BY DEF parseLambda
<1>2. InParse(s)
  BY <1>1 DEF InParse
<1>3. binary # <<>> /\ Written(Running)
  BY <1>2, OneCaller
<1>4. PICK l \in Running : /\ Passes(s, l) /\ Caller(s) = l /\ binary.line[l.id] \in Anchors(l)
                           /\ ~Parsed(l) /\ l.call \in {None, session[s].call}
  BY <1>2, OneCaller
<1>5. binary.kind = "dev"
  BY <1>1, <1>2 DEF IInv, CallsInv, CallOf
<1>6. CacheInv'
  <2>1. \A k : Sought(k)' => Sought(k)
    BY <1>1, SameBinary DEF Sought
  <2>. QED
    BY <1>1, <2>1, CacheStays DEF IInv, DevInv
<1>7. ASSUME Sought(l)
      PROVE  /\ \A o \in found : o.parses => o = l
             /\ found # {l} => SideBySide(l)
  <2>1. readSource(File(l)) = Running
    BY <1>7 DEF readSource, File, Sought, Running
  <2>2. found = locateFuncLit(lambdaID(l), l.sig, Running)
    BY <1>4, <2>1
  <2>. HIDE DEF found
  <2>. QED
    BY <1>3, <1>4, <2>2, Located
<1>8. ~(binary.kind = "prod")
  BY <1>5
<1>9. ASSUME Refuse, Sought(l) => ~l.parses \/ SideBySide(l) PROVE IInv'
  <2>1. Reach(s, "served", <<>>)
    BY <1>9 DEF Serve
  <2>. QED
    BY <1>1, <1>2, <1>4, <1>6, <1>8, <1>9, <2>1, Reaching
<1>10. ASSUME NEW lit \in found, Parse(lit) PROVE IInv'
  <2>. DEFINE body == <<Body(lit, session[s].call)>>
  <2>1. Reach(s, "parsed", body) /\ body # <<>>
    BY <1>10
  <2>2. Sought(l) => body = Query(s, l)
    BY <1>7, <1>10 DEF Query
  <2>. HIDE DEF body
  <2>. QED
    BY <1>1, <1>2, <1>4, <1>5, <1>6, <1>8, <2>1, <2>2, Reaching
<1>11. CASE found = {} /\ Refuse
  <2>1. Sought(l) => SideBySide(l)
    BY <1>7, <1>11
  <2>. QED
    BY <1>9, <1>11, <2>1
<1>12. ASSUME NEW lit \in found, ~lit.parses \/ lit.sig # Caller(s).sig, Refuse PROVE IInv'
  <2>1. Sought(l) => ~l.parses \/ SideBySide(l)
    <3>. SUFFICES ASSUME Sought(l), ~SideBySide(l) PROVE ~l.parses
      OBVIOUS
    <3>1. found = {l}
      BY <1>7
    <3>2. lit = l
      BY <3>1
    <3>. QED
      BY <1>4, <1>12, <3>2
  <2>. QED
    BY <1>9, <1>12, <2>1
<1>. HIDE DEF found, Refuse, Parse
<1>. QED
  BY <1>1, <1>10, <1>11, <1>12

\* What is stored under a key is the query of the one literal that has it, if one has.
LEMMA storeBodyKeeps ==
  ASSUME IInv, NEW s \in Sessions, storeBody(s)
  PROVE  IInv'
<1>. DEFINE key == cacheKey(lambdaID(Caller(s)))
            body == session[s].body
<1>1. /\ session[s].pc = "parsed"
      /\ cache' = [k \in DOMAIN cache \cup {key} |-> IF k = key THEN body[1] ELSE cache[k]]
      /\ Reach(s, "served", body)
      /\ UNCHANGED <<program, disk, written, writing, binary>>
  BY DEF storeBody, Serve
<1>2. InParse(s)
  BY <1>1 DEF InParse
<1>3. PICK l \in Running : Passes(s, l) /\ Caller(s) = l /\ l.call \in {None, session[s].call}
  BY <1>2, OneCaller
<1>4. binary # <<>> /\ binary.kind = "dev" /\ ~(binary.kind = "prod")
  BY <1>1, <1>2, OneCaller DEF IInv, CallsInv, CallOf
<1>5. key = cacheKey(lambdaID(l))
  BY <1>3
<1>6. Sought(l) => body = Query(s, l)
  BY <1>1, <1>2, <1>3, <1>4 DEF IInv, DevInv, DevOf
<1>7. CacheInv'
  <2>1. /\ Running' = Running
        /\ \A k : Sought(k)' => Sought(k)
        /\ \A k : cacheKey(lambdaID(k))' = cacheKey(lambdaID(k))
    BY <1>1, SameBinary DEF Sought
  <2>. HIDE DEF key, body
  <2>2. ASSUME NEW k \in Running, Sought(k), cacheKey(lambdaID(k)) \in DOMAIN cache'
        PROVE  cache'[cacheKey(lambdaID(k))] = Body(k, k.call)
    <3>. DEFINE own == cacheKey(lambdaID(k))
    <3>1. CASE own = key
      <4>1. k = l
        BY <1>5, <2>2, <3>1 DEF Sought, SharesKey
      <4>2. l.call = session[s].call
        BY <1>3, <2>2, <4>1 DEF Sought
      <4>3. body[1] = Body(l, l.call)
        BY <1>6, <2>2, <4>1, <4>2 DEF Query
      <4>4. cache'[key] = body[1]
        BY <1>1
      <4>. QED
        BY <3>1, <4>1, <4>3, <4>4
    <3>2. CASE own # key
      <4>1. own \in DOMAIN cache /\ cache'[own] = cache[own]
        <5>. HIDE DEF own
        <5>1. own \in DOMAIN cache'
          BY <2>2 DEF own
        <5>. QED
          BY <1>1, <3>2, <5>1
      <4>. QED
        BY <1>4, <2>2, <4>1 DEF IInv, DevInv, CacheInv
    <3>. QED
      BY <3>1, <3>2
  <2>. QED
    BY <2>1, <2>2 DEF CacheInv
<1>8. body # <<>>
  BY <1>1 DEF IInv, CallsInv
<1>. HIDE DEF body
<1>. QED
  BY <1>1, <1>2, <1>3, <1>4, <1>6, <1>7, <1>8, Reaching

-----------------------------------------------------------------------------
(* The theorems.                                                            *)

\* Nothing is written, built, cached or called at first.
LEMMA FirstIInv ==
  ASSUME KeysInit
  PROVE  IInv
<1>1. /\ program \in Programs /\ disk = 1 /\ DOMAIN written = {} /\ DOMAIN writing = {}
      /\ binary = <<>> /\ DOMAIN cache = {} /\ session = [s \in Sessions |-> Idle]
  BY DEF KeysInit
<1>2. FilesInv
  <2>1. disk \in DOMAIN program.versions
    BY <1>1, ProgramsAssumption
  <2>. QED
    BY <1>1, <2>1 DEF FilesInv, ClashFree
<1>3. \A s \in Sessions : session[s].pc = "idle" /\ ~InParse(s)
  BY <1>1 DEF Idle, InParse
<1>4. CallsInv
  BY <1>1, <1>3 DEF CallsInv, CallOf
<1>5. BinaryInv /\ DevInv /\ ProdInv
  BY <1>1, <1>3 DEF BinaryInv, DevInv, CacheInv, DevOf, ProdInv, ProdOf
<1>. QED
  BY <1>2, <1>4, <1>5 DEF IInv

\* Every step keeps the invariant.
LEMMA StepIInv ==
  ASSUME IInv, [KeysNext]_keysVars
  PROVE  IInv'
<1>1. CASE Generate
  BY <1>1, GenerateKeeps
<1>2. CASE Compile
  BY <1>2, CompileKeeps
<1>3. CASE Edit
  BY <1>3, EditKeeps
<1>4. ASSUME NEW s \in Sessions, NEW l, NEW call, Call(s, l, call) PROVE IInv'
  BY <1>4, CallKeeps
<1>5. ASSUME NEW s \in Sessions, Return(s) \/ \E text \in program.searches : Search(s, text) PROVE IInv'
  BY <1>5, SearchReturnKeep
<1>6. ASSUME NEW s \in Sessions, ParseQuery(s) PROVE IInv'
  BY <1>6, LookCompiledKeeps, cachedBodyKeeps, parseLambdaKeeps, storeBodyKeeps DEF ParseQuery
<1>7. CASE UNCHANGED keysVars
  <2>1. UNCHANGED <<program, disk, written, writing, binary, cache, session>>
    BY <1>7 DEF keysVars
  <2>2. FilesInv /\ BinaryInv /\ CallsInv /\ DevInv /\ ProdInv
    BY DEF IInv
  <2>3. \A l : Sought(l)' => Sought(l)
    BY <2>1, SameBinary DEF Sought
  <2>4. ASSUME NEW s \in Sessions PROVE CallOf(s)' /\ DevOf(s)' /\ ProdOf(s)'
    <3>1. CallOf(s) /\ DevOf(s) /\ ProdOf(s)
      BY <2>2 DEF CallsInv, DevInv, ProdInv
    <3>2. session'[s] = session[s]
      BY <2>1
    <3>. QED
      BY <2>1, <2>3, <3>1, <3>2, OthersKeep
  <2>5. FilesInv'
    BY <2>1, <2>2 DEF FilesInv, ClashFree, Dirs, Walked, Source
  <2>6. BinaryInv'
    <3>1. Running' = Running /\ \A order : (RegisterAll(Concat(order)))' = RegisterAll(Concat(order))
      BY <2>1, SameBinary DEF Concat
    <3>. QED
      BY <2>1, <2>2, <3>1 DEF BinaryInv
  <2>7. CallsInv'
    BY <2>1, <2>2, <2>4 DEF CallsInv
  <2>8. CacheInv'
    BY <2>1, <2>2, <2>3, CacheStays DEF DevInv
  <2>. QED
    BY <2>4, <2>5, <2>6, <2>7, <2>8 DEF IInv, DevInv, ProdInv
<1>8. CASE KeysNext
  BY <1>1, <1>2, <1>3, <1>4, <1>5, <1>6, <1>8 DEF KeysNext, Working
<1>. QED
  BY <1>7, <1>8

\* The invariant holds of every behaviour.
LEMMA AlwaysIInv == KeysSpec => []IInv
<1>1. KeysInit => IInv
  BY FirstIInv
<1>2. IInv /\ [KeysNext]_keysVars => IInv'
  BY StepIInv
<1>. QED
  BY <1>1, <1>2, PTL DEF KeysSpec

\* The variables have their types: registry files are for packages of the program, and a
\* goroutine that is about to store has parsed a query (executor_dev.go:776).
THEOREM KeysTyped == KeysSpec => []KeysTypeOK
<1>1. IInv => KeysTypeOK
  BY DEF IInv, FilesInv, CallsInv, KeysTypeOK
<1>. QED
  BY <1>1, AlwaysIInv, PTL

\* Whatever goroutines call, and whenever the source is edited, a development binary runs
\* the query written where it is called, from the cache or not.
THEOREM DevRunsOwnText == KeysSpec => []DevServesOwnText
<1>1. ASSUME IInv PROVE DevServesOwnText
  <2>. SUFFICES ASSUME NEW s \in Sessions, Served(s, "dev"),
                       disk = binary.version \/ Caller(s).dir \in binary.embedded,
                       Caller(s).call # None, ~SharesKey(Caller(s))
                PROVE  /\ session[s].body \in {Wanted(s), <<>>}
                       /\ session[s].body = <<>> => ~Caller(s).parses \/ SideBySide(Caller(s))
    BY DEF DevServesOwnText
  <2>1. InParse(s) /\ session[s].pc = "served" /\ binary.kind = "dev"
    BY DEF Served, InParse
  <2>2. PICK l \in Running : Passes(s, l) /\ Caller(s) = l
    BY <1>1, <2>1, OneCaller
  <2>3. Sought(l)
    BY <2>2 DEF Sought
  <2>4. DevOf(s)
    BY <1>1 DEF IInv, DevInv
  <2>5. Wanted(s) = Query(s, l)
    BY <2>2 DEF Wanted, Query
  <2>. QED
    BY <2>1, <2>2, <2>3, <2>4, <2>5 DEF DevOf
<1>. QED
  BY <1>1, AlwaysIInv, PTL

\* Whatever directories goqlc walked before and wherever it stopped, in whatever order the
\* files are initialised and at whichever line the runtime reports a function, a production
\* binary with all the files of its source runs the query written where it is called.
THEOREM ProdRunsOwnText == KeysSpec => []ProdServesOwnText
<1>1. ASSUME IInv PROVE ProdServesOwnText
  <2>. SUFFICES ASSUME NEW s \in Sessions, Served(s, "prod"), Fresh, ~SameLine(Caller(s))
                PROVE  session[s].body = IF Caller(s) \in Emitted(Running) THEN Wanted(s) ELSE <<>>
    BY DEF ProdServesOwnText
  <2>1. InParse(s) /\ session[s].pc = "served" /\ binary.kind = "prod"
    BY DEF Served, InParse
  <2>2. PICK l \in Running : Passes(s, l) /\ Caller(s) = l
    BY <1>1, <2>1, OneCaller
  <2>3. ProdOf(s)
    BY <1>1 DEF IInv, ProdInv
  <2>4. Wanted(s) = Query(s, l)
    BY <2>2 DEF Wanted, Query
  <2>. QED
    BY <2>1, <2>2, <2>3, <2>4 DEF ProdOf
<1>. QED
  BY <1>1, AlwaysIInv, PTL

=============================================================================
