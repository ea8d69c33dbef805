-------------------------------- MODULE LambdaKeys --------------------------------
(***************************************************************************)
(* How a function value finds the query it was written as.                 *)
(*                                                                         *)
(* A development binary looks the literal up in source text, by the line   *)
(* the runtime reports for the function, and remembers what it parsed.  A  *)
(* production binary looks it up in a registry that goqlc wrote from the   *)
(* source beforehand, one file for each package.  The source goes on       *)
(* changing on disk, goqlc may stop half way, and several goroutines call. *)
(*                                                                         *)
(* A program is the history of its source.  Each version is a set of       *)
(* function literals:                                                      *)
(*   id, parent     the literal, and the one it is written in or ""        *)
(*   dir, base, fn  its package, file and function declaration             *)
(*   start, first, end   the lines of `func', of the first statement and   *)
(*                  of the end                                             *)
(*   pos, close     where it begins and ends in the files of its package   *)
(*   sig, call      its signature, and the goql call it is written in,     *)
(*                  "" when it is kept in a variable                       *)
(*   text, parses   the query it says, and whether goql accepts it         *)
(***************************************************************************)
EXTENDS Integers, Sequences, FiniteSets, SequencesExt

CONSTANTS
  Sessions,   \* the goroutines that call
  Programs,   \* [versions, kinds, callers, ...]: the programs, how
              \* each may be built, and how many goroutines call at a time
  API         \* the goql calls that take a lambda

\* No literal, no call.
None == ""

\* What every Go package has: its literals stand at different places, and the
\* lines of each are in order.  No declaration has the name of a closure that was
\* inlined, which names another closure too.
Written(lits) ==
  /\ IsFiniteSet(lits)
  /\ \A l \in lits : /\ {l.start, l.first, l.end, l.pos} \subseteq Nat
                     /\ l.start <= l.first /\ l.first <= l.end
                     /\ l.fn # "inlined"
  /\ \A a, b \in lits : a.id = b.id \/ (a.dir = b.dir /\ a.pos = b.pos) => a = b

ASSUME ProgramsAssumption ==
  \A p \in Programs :
    /\ Len(p.versions) \in Nat \ {0} /\ DOMAIN p.versions = 1 .. Len(p.versions)
    /\ \A v \in DOMAIN p.versions : Written(p.versions[v])

ASSUME APIAssumption == None \notin API

VARIABLES
  program,    \* the program
  disk,       \* the version of the source on disk
  written,    \* directory |-> its registry file
  writing,    \* directory |-> registry file: those goqlc has still to write
  binary,     \* what was built, <<>> before
  cache,      \* DebugExecutor.cache
  session     \* goroutine |-> its call

keysVars == <<program, disk, written, writing, binary, cache, session>>

Source(version) == program.versions[version]
Dirs == UNION {{l.dir : l \in Source(v)} : v \in DOMAIN program.versions}
File(l) == <<l.dir, l.base>>
ById(lits, id) == CHOOSE l \in lits : l.id = id

Encloses(a, b) == a.pos <= b.pos /\ b.close <= a.close

\* The literals of a package, or of a part of it, in the order they are written.
sortedLits(lits) ==
  [i \in 1 .. Cardinality(lits) |-> CHOOSE l \in lits : Cardinality({o \in lits : o.pos < l.pos}) = i - 1]

\* What a literal is parsed to; the mode is all the call decides.
recordedFunc(call) == IF call = "Exists" THEN call ELSE ""
Body(l, call) == [text |-> l.text, insert |-> call = "Insert", func |-> recordedFunc(call)]

(***************************************************************************)
(* goqlc: the registry.                                                    *)
(***************************************************************************)
LambdaKey(base, line) == <<base, line>>
Anchors(l) == {l.start, l.first}

\* The literals written in a goql call, and of them those goql accepts.
findORMCalls(lits) == {l \in lits : l.call \in API}
Emitted(lits) == {l \in findORMCalls(lits) : l.parses}
EntryKeys(l) == {LambdaKey(l.base, line) : line \in Anchors(l)}

\* Variation: files are told apart by their base names.
ClashByBase(lits) == \E a, b \in Emitted(lits) : a.base # b.base /\ EntryKeys(a) \cap EntryKeys(b) # {}
\* Two files that would share a key stop goqlc before it writes.
Clash(lits) == \E a, b \in Emitted(lits) : File(a) # File(b) /\ EntryKeys(a) \cap EntryKeys(b) # {}

\* A file for each package that has a lambda; `from' is what goqlc walked.
Entry(l) == [keys |-> EntryKeys(l), body |-> Body(l, l.call)]
Walked(version, dirs) == {l \in Source(version) : l.dir \in dirs}
Outputs(version, dirs) ==
  LET lits == Emitted(Walked(version, dirs))
  IN [d \in {l.dir : l \in lits} |->
        LET own == sortedLits({l \in lits : l.dir = d})
        IN [entries |-> [i \in DOMAIN own |-> Entry(own[i])], from |-> <<version, dirs>>]]

\* goqlc walks the module, or one directory of it, and parses every lambda.
Scan(dirs) ==
  /\ binary = <<>> /\ writing = <<>> /\ "prod" \in program.kinds
  /\ ~Clash(Walked(disk, dirs))
  /\ writing' = Outputs(disk, dirs)
  /\ UNCHANGED <<program, disk, written, binary, cache, session>>

\* The files are written one by one; a package with no lambda keeps its file.
Emit(d) ==
  /\ d \in DOMAIN writing
  /\ written' = [x \in DOMAIN written \cup {d} |-> IF x = d THEN writing[d] ELSE written[x]]
  /\ writing' = [x \in DOMAIN writing \ {d} |-> writing[x]]
  /\ UNCHANGED <<program, disk, binary, cache, session>>

EmitFails ==
  /\ writing # <<>>
  /\ writing' = <<>>
  /\ UNCHANGED <<program, disk, written, binary, cache, session>>

(***************************************************************************)
(* The binary.  The runtime reports a function at the line of `func' or of *)
(* its first statement, and names a nested one by its parent or, inlined,  *)
(* by a number that counts other literals too.                             *)
(***************************************************************************)

\* RegisterQuery in the order the files are initialised: the last one stays.
Latest(entries, key) == entries[CHOOSE i \in DOMAIN entries :
                          /\ key \in entries[i].keys
                          /\ \A j \in i + 1 .. Len(entries) : key \notin entries[j].keys].body
RegisterAll(entries) ==
  [key \in UNION {entries[i].keys : i \in DOMAIN entries} |-> Latest(entries, key)]

Concat(dirs) == FlattenSeq([i \in DOMAIN dirs |-> written[dirs[i]].entries])
Orders(S) == {o \in [1 .. Cardinality(S) -> S] : \A i, j \in DOMAIN o : o[i] = o[j] => i = j}

Build(kind, lines, inlined, embedded, compiled) ==
  /\ binary = <<>> /\ writing = <<>> /\ kind \in program.kinds
  /\ binary' = [kind |-> kind, version |-> disk, line |-> lines, inlined |-> inlined,
                embedded |-> embedded, compiled |-> compiled]
  /\ UNCHANGED <<program, disk, written, writing, cache, session>>
\* Without the tag, the registry's files are left out and trees may be embedded.
BuildDev(lines, inlined, embedded) == Build("dev", lines, inlined, embedded, <<>>)
BuildProd(lines, order) == Build("prod", lines, FALSE, {}, RegisterAll(Concat(order)))

\* Another edit of the source.
Edit ==
  /\ disk < Len(program.versions)
  /\ binary # <<>> => binary.kind = "dev"   \* the other kind reads no source
  /\ disk' = disk + 1
  /\ UNCHANGED <<program, written, writing, binary, cache, session>>

Running == Source(binary.version)

\* The literals of a declaration that are not written in another.
TopLevelFuncLits(lits, file, fn) == sortedLits({l \in lits : File(l) = file /\ l.fn = fn /\ l.parent = None})

\* What the runtime says of a function, as lambdaID reads it.
lambdaID(l) ==
  LET lits == TopLevelFuncLits(Running, File(l), l.fn)
      name == IF l.parent = None THEN <<l.fn, CHOOSE i \in DOMAIN lits : lits[i] = l>>
              ELSE IF binary.inlined THEN <<"inlined", l.pos>>
              ELSE <<None, 0>>
  IN [file |-> File(l), line |-> binary.line[l.id], enclosing |-> name[1], index |-> name[2]]
cacheKey(id) == <<id.file, id.line, id.enclosing, id.index>>

\* The registered tree that covers the file, else the disk.
readSource(file) == IF file[1] \in binary.embedded THEN Running ELSE Source(disk)

signatureMatches(lits, sig) == {l \in lits : l.sig = sig}
outermost(lits) == {l \in lits : \A o \in lits : Encloses(l, o)}

\* Variation: the signature does not narrow the candidates.
locateByLine(id, sig, lits) ==
  LET covering   == {l \in lits : File(l) = id.file /\ l.start <= id.line /\ id.line <= l.end}
      anchored   == {l \in covering : id.line \in Anchors(l)}
      candidates == IF anchored = {} THEN covering ELSE anchored
      numbered   == TopLevelFuncLits(lits, id.file, id.enclosing)
  IN IF Cardinality(candidates) <= 1 THEN candidates
     ELSE IF outermost(candidates) # {} THEN outermost(candidates)
     ELSE IF id.index \in DOMAIN numbered THEN {numbered[id.index]}
     ELSE {}
\* The literal a function value was compiled from, as far as the source of its
\* file tells: at most one.
locateFuncLit(id, sig, lits) ==
  LET covering   == {l \in lits : File(l) = id.file /\ l.start <= id.line /\ id.line <= l.end}
      anchored   == {l \in covering : id.line \in Anchors(l)}
      candidates == IF anchored = {} THEN covering ELSE anchored
      matching   == signatureMatches(candidates, sig)
      narrowed   == IF Cardinality(candidates) > 1 /\ matching # {} THEN matching ELSE candidates
      numbered   == TopLevelFuncLits(lits, id.file, id.enclosing)
  IN IF Cardinality(narrowed) <= 1 THEN narrowed
     ELSE IF outermost(narrowed) # {} THEN outermost(narrowed)
     ELSE IF id.index \in DOMAIN numbered THEN {numbered[id.index]}
     ELSE {}

(***************************************************************************)
(* ParseQuery.                                                             *)
(***************************************************************************)
Idle == [pc |-> "idle", lit |-> None, call |-> None, body |-> <<>>]
Used == Cardinality({s \in Sessions : session[s].pc # "idle"})
Caller(s) == ById(Running, session[s].lit)

\* The body of a lambda is parsed and never run, nor is what is written in it.
Parsed(l) == \E o \in Running : o # l /\ File(o) = File(l) /\ Encloses(o, l) /\ o.parses

\* A goroutine passes the literal to the call it is written in, or the variable
\* that holds it to any.
Call(s, l, call) ==
  /\ binary # <<>> /\ session[s].pc = "idle"
  /\ Used < program.callers
  /\ l \in Running /\ call \in API /\ l.call \in {None, call} /\ ~Parsed(l)
  /\ session' = [session EXCEPT ![s] = [pc |-> "look", lit |-> l.id, call |-> call, body |-> <<>>]]
  /\ UNCHANGED <<program, disk, written, writing, binary, cache>>

Reach(s, pc, body) ==
  session' = [session EXCEPT ![s] = [pc |-> pc, lit |-> session[s].lit, call |-> session[s].call, body |-> body]]
Serve(s, body) == Reach(s, "served", body)

\* CompileExecutor.ParseQuery; no body is an error.
LookCompiled(s) ==
  LET key == LambdaKey(Caller(s).base, binary.line[session[s].lit])
  IN /\ session[s].pc = "look" /\ binary.kind = "prod"
     /\ Serve(s, IF key \in DOMAIN binary.compiled THEN <<binary.compiled[key]>> ELSE <<>>)
     /\ UNCHANGED <<program, disk, written, writing, binary, cache>>

\* DebugExecutor.ParseQuery: the cache first.
cachedBody(s) ==
  LET key == cacheKey(lambdaID(Caller(s)))
  IN /\ session[s].pc = "look" /\ binary.kind = "dev"
     /\ IF key \in DOMAIN cache THEN Serve(s, <<cache[key]>>)
                                ELSE Reach(s, "read", <<>>)
     /\ UNCHANGED <<program, disk, written, writing, binary, cache>>

\* Variation: the error of a lambda that is not found is dropped.
parseUnchecked(s) ==
  LET l == Caller(s)
      found == locateFuncLit(lambdaID(l), l.sig, readSource(File(l)))
      bodies == {<<Body(lit, session[s].call)>> : lit \in {x \in found : x.parses}}
  IN /\ session[s].pc = "read"
     /\ \E body \in bodies \cup (IF bodies = {} THEN {<<>>} ELSE {}) :
          Reach(s, "parsed", body)
     /\ UNCHANGED <<program, disk, written, writing, binary, cache>>

\* The source is read and parsed without the lock.  A literal whose signature
\* is not the function's may be refused or not.
parseLambda(s) ==
  LET l == Caller(s)
      found == locateFuncLit(lambdaID(l), l.sig, readSource(File(l)))
      Refuse == Serve(s, <<>>)
      Parse(lit) == /\ lit.parses
                    /\ Reach(s, "parsed", <<Body(lit, session[s].call)>>)
  IN /\ session[s].pc = "read"
     /\ \/ found = {} /\ Refuse
        \/ \E lit \in found : (~lit.parses \/ lit.sig # l.sig) /\ Refuse
        \/ \E lit \in found : Parse(lit)
     /\ UNCHANGED <<program, disk, written, writing, binary, cache>>

storeBody(s) ==
  /\ session[s].pc = "parsed"
  /\ LET key == cacheKey(lambdaID(Caller(s)))
     IN cache' = [k \in DOMAIN cache \cup {key} |-> IF k = key THEN session[s].body[1] ELSE cache[k]]
  /\ Serve(s, session[s].body)
  /\ UNCHANGED <<program, disk, written, writing, binary>>

\* A search by entities has no lambda.
Search(s, text) ==
  /\ session[s].pc = "idle" /\ Used < program.callers
  /\ session' = [session EXCEPT ![s] = [pc |-> "served", lit |-> None, call |-> "Search", body |-> <<[text |-> text]>>]]
  /\ UNCHANGED <<program, disk, written, writing, binary, cache>>

\* The call returns its rows or its error.
Return(s) ==
  /\ session[s].pc = "served"
  /\ session' = [session EXCEPT ![s] = Idle]
  /\ UNCHANGED <<program, disk, written, writing, binary, cache>>

(***************************************************************************)
(* The behaviour.                                                          *)
(***************************************************************************)
KeysInit ==
  /\ program \in Programs
  /\ disk = 1 /\ written = <<>> /\ writing = <<>> /\ binary = <<>> /\ cache = <<>>
  /\ session = [s \in Sessions |-> Idle]

Generate == \/ Scan(Dirs)
            \/ \E d \in Dirs : Scan({d})
            \/ \E d \in Dirs : Emit(d)
            \/ EmitFails

Lines(lits) == {f \in [{l.id : l \in lits} -> UNION {Anchors(l) : l \in lits}] :
                  \A l \in lits : f[l.id] \in Anchors(l)}
Compile == \E lines \in Lines(Source(disk)) :
             \/ \E inlined \in BOOLEAN, embedded \in SUBSET Dirs : BuildDev(lines, inlined, embedded)
             \/ \E order \in Orders(DOMAIN written) : BuildProd(lines, order)

ParseQuery(s) == \/ LookCompiled(s)
                 \/ cachedBody(s)
                 \/ parseLambda(s)
                 \/ storeBody(s)

\* All but the end of a call.
Working == \/ Generate
           \/ Compile
           \/ Edit
           \/ \E s \in Sessions : \E l \in (IF binary = <<>> THEN {} ELSE Running) : \E call \in API : Call(s, l, call)
           \/ \E s \in Sessions : \E text \in program.searches : Search(s, text)
           \/ \E s \in Sessions : ParseQuery(s)

KeysNext == Working \/ \E s \in Sessions : Return(s)

KeysSpec == KeysInit /\ [][KeysNext]_keysVars

(***************************************************************************)
(* What a caller may count on.                                             *)
(***************************************************************************)
Served(s, kind) == /\ session[s].pc = "served" /\ session[s].lit # None
                   /\ binary.kind = kind
Wanted(s) == <<Body(Caller(s), session[s].call)>>

\* Nested literals that the runtime reports on one line have one cache key,
\* unless they are inlined.
SharesKey(l) == \E o \in Running : o # l /\ cacheKey(lambdaID(o)) = cacheKey(lambdaID(l))
\* Those of one line and one signature are not told apart, at times.
SideBySide(l) == \E o \in Running : /\ o # l /\ File(o) = File(l) /\ o.sig = l.sig
                                    /\ binary.line[l.id] \in Anchors(o)

\* The registry files are those goqlc writes for this version in one walk of
\* the module, all of them and no other.
Fresh == written = Outputs(binary.version, Dirs)
\* Lambdas of one file with a line in common have one entry; a lambda that has
\* none, being kept in a variable or skipped by goqlc, is looked up by its line too.
SameLine(l) == \E o \in Emitted(Running) : /\ o # l /\ (l \notin Emitted(Running) \/ File(o) = File(l))
                                           /\ EntryKeys(o) \cap EntryKeys(l) # {}

\* The types of the variables; what waits to be stored has a body.
KeysTypeOK ==
  /\ disk \in DOMAIN program.versions
  /\ DOMAIN written \subseteq Dirs /\ DOMAIN writing \subseteq Dirs
  /\ \A s \in Sessions :
       /\ session[s].pc \in {"idle", "look", "read", "parsed", "served"}
       /\ session[s].pc = "parsed" => session[s].body # <<>>

\* A development binary runs the query written where it is called: never the
\* query of another literal nor that of an earlier or later version, whatever
\* is being edited when the source is embedded (source.go:41), and until the
\* source is edited when it is not.  It gives up only on a query it does not
\* accept and on literals it cannot tell apart.
DevServesOwnText ==
  \A s \in Sessions :
    /\ Served(s, "dev")
    /\ disk = binary.version \/ Caller(s).dir \in binary.embedded
    /\ Caller(s).call # None /\ ~SharesKey(Caller(s))
    => /\ session[s].body \in {Wanted(s), <<>>}
       /\ session[s].body = <<>> => ~Caller(s).parses \/ SideBySide(Caller(s))

\* A production binary built with the files goqlc writes for its source runs
\* the query written where it is called, at whichever line the runtime reports
\* the function (generator.go:256), and has none for a lambda kept in a
\* variable (generator.go:308).
ProdServesOwnText ==
  \A s \in Sessions :
    Served(s, "prod") /\ Fresh /\ ~SameLine(Caller(s)) =>
      session[s].body = IF Caller(s) \in Emitted(Running) THEN Wanted(s) ELSE <<>>
==================================================================================
