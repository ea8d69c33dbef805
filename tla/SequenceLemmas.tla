--------------------------- MODULE SequenceLemmas ---------------------------
(***************************************************************************)
(* Lemmas about sequences that are flattened, filtered and mapped, which   *)
(* the proofs about plans and about compiled lambdas share.  FlattenSeq is *)
(* defined by recursion: induction over naturals comes first, for sets of  *)
(* numbers instead of predicates.                                          *)
(***************************************************************************)
EXTENDS Subsequences, SequenceTheorems, FiniteSetTheorems, WellFoundedInduction, TLAPS

\* A set of naturals that is not empty has a least element: of the intervals below its
\* members, a finite and minimal one.
LEMMA Least ==
  ASSUME NEW S, S \subseteq Nat, S # {}
  PROVE \E n \in S : \A m \in S : n <= m
<1>. DEFINE T == {0 .. n : n \in S}
            R == StrictSubsetOrdering(Nat)
<1>0. \A n \in S : 0 .. n \in FiniteSubsetsOf(Nat)
  BY FS_Interval DEF FiniteSubsetsOf
<1>1. T \subseteq FiniteSubsetsOf(Nat) /\ T # {}
  BY <1>0
<1>3. IsWellFoundedOn(R, FiniteSubsetsOf(Nat))
  BY FS_StrictSubsetOrderingWellFounded
<1>2. \E x \in T : \A y \in T : ~ (<<y, x>> \in R)
  <2>. HIDE DEF T, R
  <2>. QED
  BY <1>1, <1>3, WFMin
<1>4. PICK n \in S : \A m \in S : ~ (<<0 .. m, 0 .. n>> \in R)
  BY <1>2
<1>5. ASSUME NEW m \in S PROVE n <= m
  <2>1. SUFFICES ASSUME m < n PROVE FALSE
    BY DEF Nat
  <2>2. n \in Nat /\ m \in Nat
    OBVIOUS
  <2>3. n \in 0 .. n /\ n \notin 0 .. m /\ 0 .. m \subseteq 0 .. n
    BY <2>1, <2>2
  <2>4. 0 .. m \in SUBSET Nat /\ 0 .. n \in SUBSET Nat
    BY <2>2
  <2>. HIDE DEF R
  <2>. QED
    BY <1>4, <2>3, <2>4 DEF StrictSubsetOrdering, R
<1>. QED
  BY <1>5

\* A set of naturals with 0 and all successors has them all.
LEMMA Induction ==
  ASSUME NEW S, 0 \in S, \A n \in Nat : n \in S => n+1 \in S
  PROVE  Nat \subseteq S
<1>. DEFINE B == Nat \ S
<1>1. SUFFICES ASSUME B # {} PROVE FALSE
  OBVIOUS
<1>2. PICK n \in B : \A m \in B : n <= m
  BY <1>1, Least
<1>3. n # 0 /\ n - 1 \in Nat /\ n - 1 \notin B
  BY <1>2
<1>. QED
  BY <1>2, <1>3

\* One step of the flattening.
Grown(seqs, f, i) == IF i = 1 THEN seqs[i] ELSE f[i - 1] \o seqs[i]
Flattens(f, seqs, n) == f = [i \in 1 .. n |-> Grown(seqs, f, i)]

\* The function FlattenSeq defines by recursion exists.
LEMMA FlattenExists ==
  ASSUME NEW seqs, NEW n \in Nat
  PROVE  \E f : Flattens(f, seqs, n)
<1>. DEFINE S == {k \in Nat : \E f : Flattens(f, seqs, k)}
<1>1. 0 \in S
  <2>. DEFINE f == [i \in 1 .. 0 |-> {}]
  <2>1. Flattens(f, seqs, 0)
    BY DEF Flattens
  <2>. QED
    BY <2>1
<1>2. ASSUME NEW k \in Nat, k \in S PROVE k + 1 \in S
  <2>1. PICK f : Flattens(f, seqs, k)
    BY <1>2
  <2>. DEFINE last == IF k + 1 = 1 THEN seqs[k + 1] ELSE f[k] \o seqs[k + 1]
              g == [i \in 1 .. (k + 1) |-> IF i = k + 1 THEN last ELSE f[i]]
  <2>2. ASSUME NEW i \in 1 .. k PROVE g[i] = f[i] /\ f[i] = Grown(seqs, f, i)
    <3>1. i \in 1 .. (k + 1) /\ i # k + 1
      OBVIOUS
    <3>2. g[i] = f[i]
      BY <3>1
    <3>3. f[i] = Grown(seqs, f, i)
      <4>. HIDE DEF g
      <4>. QED
        BY <2>1 DEF Flattens
    <3>. QED
      BY <3>2, <3>3
  <2>3. ASSUME NEW i \in 1 .. k PROVE g[i] = Grown(seqs, g, i)
    <3>1. i # 1 => i - 1 \in 1 .. k
      OBVIOUS
    <3>2. i # 1 => g[i - 1] = f[i - 1]
      BY <2>2, <3>1
    <3>3. g[i] = f[i] /\ f[i] = Grown(seqs, f, i)
      BY <2>2
    <3>. HIDE DEF g
    <3>. QED
      BY <3>2, <3>3 DEF Grown
  <2>4. g[k + 1] = Grown(seqs, g, k + 1)
    <3>1. g[k + 1] = last
      OBVIOUS
    <3>2. k + 1 # 1 => k \in 1 .. k /\ k \in 1 .. (k + 1) /\ k + 1 - 1 = k
      OBVIOUS
    <3>3. k + 1 # 1 => g[k + 1 - 1] = f[k]
      BY <2>2, <3>2
    <3>. QED
      BY <3>1, <3>3 DEF Grown
  <2>5. Flattens(g, seqs, k + 1)
    <3>1. \A i \in 1 .. (k + 1) : g[i] = Grown(seqs, g, i)
      <4>1. \A i \in 1 .. (k + 1) : i = k + 1 \/ i \in 1 .. k
        OBVIOUS
      <4>. HIDE DEF g
      <4>. QED
        BY <2>3, <2>4, <4>1
    <3>2. g = [i \in 1 .. (k + 1) |-> g[i]]
      OBVIOUS
    <3>. HIDE DEF g
    <3>. QED
      BY <3>1, <3>2 DEF Flattens
  <2>. HIDE DEF g
  <2>. QED
    BY <2>5
<1>3. Nat \subseteq S
  <2>. HIDE DEF S
  <2>. QED
    BY <1>1, <1>2, Induction
<1>. QED
  BY <1>3

\* Flattening is a chain of concatenations.
LEMMA FlattenSteps ==
  ASSUME NEW X, NEW seqs \in Seq(X), seqs # <<>>
  PROVE  \E f : /\ FlattenSeq(seqs) = f[Len(seqs)] /\ f[1] = seqs[1]
                /\ \A i \in 1 .. Len(seqs) : i # 1 => f[i] = f[i - 1] \o seqs[i]
<1>. DEFINE n == Len(seqs)
            f == CHOOSE f : f = [i \in 1 .. n |-> IF i = 1 THEN seqs[i] ELSE f[i - 1] \o seqs[i]]
<1>1. n \in Nat /\ n # 0
  BY EmptySeq, LenProperties
<1>2. f = [i \in 1 .. n |-> IF i = 1 THEN seqs[i] ELSE f[i - 1] \o seqs[i]]
  BY <1>1, FlattenExists DEF Flattens, Grown
<1>3. FlattenSeq(seqs) = f[n]
  BY <1>1 DEF FlattenSeq
<1>. HIDE DEF f
<1>4. 1 \in 1 .. n
  BY <1>1
<1>. HIDE DEF n
<1>5. f[1] = seqs[1]
  BY <1>2, <1>4
<1>6. \A i \in 1 .. n : i # 1 => f[i] = f[i - 1] \o seqs[i]
  BY <1>2
<1>. QED
  BY <1>3, <1>5, <1>6 DEF n

\* A flattened sequence of sequences over X is a sequence over X, and has the elements
\* of all of them.
LEMMA FlattenRange ==
  ASSUME NEW X, NEW seqs \in Seq(Seq(X))
  PROVE  /\ FlattenSeq(seqs) \in Seq(X)
         /\ \A x : x \in Range(FlattenSeq(seqs)) <=> \E i \in DOMAIN seqs : x \in Range(seqs[i])
<1>. DEFINE n == Len(seqs)
<1>0. n \in Nat /\ DOMAIN seqs = 1 .. n /\ \A i \in 1 .. n : seqs[i] \in Seq(X)
  BY LenProperties, ElementOfSeq
<1>1. CASE seqs = <<>>
  <2>1. FlattenSeq(seqs) = <<>>
    BY <1>1, EmptySeq DEF FlattenSeq
  <2>2. DOMAIN seqs = {} /\ DOMAIN <<>> = {} /\ <<>> \in Seq(X)
    BY <1>1, EmptySeq
  <2>3. Range(<<>>) = {}
    BY <2>2 DEF Range
  <2>. QED
    BY <2>1, <2>2, <2>3
<1>2. CASE seqs # <<>>
  <2>1. PICK f : /\ FlattenSeq(seqs) = f[n] /\ f[1] = seqs[1]
                 /\ \A i \in 1 .. n : i # 1 => f[i] = f[i - 1] \o seqs[i]
    BY <1>2, FlattenSteps
  <2>2. n # 0
    BY <1>2, EmptySeq
  <2>. DEFINE Good(i) == /\ f[i] \in Seq(X)
                         /\ \A x : x \in Range(f[i]) <=> \E j \in 1 .. i : x \in Range(seqs[j])
              S == {i \in Nat : i \in 1 .. n => Good(i)}
  <2>3. 0 \in S
    OBVIOUS
  <2>4. ASSUME NEW i \in Nat, i \in S PROVE i + 1 \in S
    <3>1. SUFFICES ASSUME i + 1 \in 1 .. n PROVE Good(i + 1)
      OBVIOUS
    <3>2. CASE i = 0
      <4>1. f[1] = seqs[1] /\ seqs[1] \in Seq(X)
        BY <1>0, <2>1, <3>1, <3>2
      <4>2. 1 .. 1 = {1}
        OBVIOUS
      <4>. QED
        BY <3>2, <4>1, <4>2
    <3>3. CASE i # 0
      <4>1. i \in 1 .. n /\ i + 1 # 1 /\ i + 1 - 1 = i
        BY <3>1, <3>3
      <4>2. f[i + 1] = f[i] \o seqs[i + 1]
        <5>. DEFINE j == i + 1
        <5>1. j \in 1 .. n /\ j # 1 /\ j - 1 = i
          BY <3>1, <4>1
        <5>. HIDE DEF j, n
        <5>2. f[j] = f[j - 1] \o seqs[j]
          BY <2>1, <5>1
        <5>. QED
          BY <5>1, <5>2 DEF j
      <4>3. Good(i)
        BY <2>4, <4>1
      <4>4. seqs[i + 1] \in Seq(X)
        BY <1>0, <3>1
      <4>5. f[i + 1] \in Seq(X) /\ Range(f[i + 1]) = Range(f[i]) \cup Range(seqs[i + 1])
        BY <4>2, <4>3, <4>4, ConcatProperties, RangeConcatenation
      <4>6. 1 .. (i + 1) = (1 .. i) \cup {i + 1}
        OBVIOUS
      <4>. QED
        BY <4>3, <4>5, <4>6
    <3>. QED
      BY <3>2, <3>3
  <2>5. Nat \subseteq S
    <3>. HIDE DEF S
    <3>. QED
      BY <2>3, <2>4, Induction
  <2>6. Good(n)
    <3>1. n \in S /\ n \in 1 .. n
      <4>1. n \in Nat /\ n \in 1 .. n
        BY <1>0, <2>2
      <4>. HIDE DEF S, n
      <4>. QED
        BY <2>5, <4>1
    <3>2. ASSUME NEW m \in S, m \in 1 .. n PROVE Good(m)
      <4>. HIDE DEF Good
      <4>. QED
        BY <3>2
    <3>. HIDE DEF Good, S
    <3>. QED
      BY <3>1, <3>2
  <2>. QED
    BY <1>0, <2>1, <2>6
<1>. QED
  BY <1>1, <1>2

\* What holds of the sequences and survives concatenation holds of the flattened one.
LEMMA FlattenClosed ==
  ASSUME NEW P, <<>> \in P, \A s \in P : \A u \in P : s \o u \in P, NEW seqs \in Seq(P)
  PROVE  FlattenSeq(seqs) \in P
<1>. DEFINE n == Len(seqs)
<1>0. n \in Nat /\ \A i \in 1 .. n : seqs[i] \in P
  BY LenProperties, ElementOfSeq
<1>1. CASE seqs = <<>>
  BY <1>1, EmptySeq DEF FlattenSeq
<1>2. CASE seqs # <<>>
  <2>1. PICK f : /\ FlattenSeq(seqs) = f[n] /\ f[1] = seqs[1]
                 /\ \A i \in 1 .. n : i # 1 => f[i] = f[i - 1] \o seqs[i]
    BY <1>2, FlattenSteps
  <2>. DEFINE S == {i \in Nat : i \in 1 .. n => f[i] \in P}
  <2>2. n # 0
    BY <1>2, EmptySeq
  <2>. HIDE DEF n
  <2>3. 0 \in S
    OBVIOUS
  <2>4. ASSUME NEW i \in Nat, i \in S PROVE i + 1 \in S
    <3>1. SUFFICES ASSUME i + 1 \in 1 .. n PROVE f[i + 1] \in P
      OBVIOUS
    <3>2. CASE i = 0
      BY <1>0, <2>1, <3>1, <3>2
    <3>3. CASE i # 0
      <4>1. i \in 1 .. n /\ i + 1 # 1 /\ i + 1 - 1 = i
        BY <1>0, <3>1, <3>3
      <4>2. f[i + 1] = f[i] \o seqs[i + 1]
        <5>. DEFINE j == i + 1
        <5>1. j \in 1 .. n /\ j # 1 /\ j - 1 = i
          BY <3>1, <4>1
        <5>. HIDE DEF j, n
        <5>2. f[j] = f[j - 1] \o seqs[j]
          BY <2>1, <5>1
        <5>. QED
          BY <5>1, <5>2 DEF j
      <4>3. f[i] \in P /\ seqs[i + 1] \in P
        BY <1>0, <2>4, <3>1, <4>1
      <4>. QED
        BY <4>2, <4>3
    <3>. QED
      BY <3>2, <3>3
  <2>5. Nat \subseteq S
    <3>. HIDE DEF S
    <3>. QED
      BY <2>3, <2>4, Induction
  <2>6. n \in 1 .. n
    BY <1>0, <2>2
  <2>. QED
    BY <1>0, <2>1, <2>5, <2>6
<1>. QED
  BY <1>1, <1>2

\* A sequence mapped is a sequence of the images of its elements.
LEMMA MappedSeq ==
  ASSUME NEW X, NEW Y, NEW seq \in Seq(X), NEW f, \A x \in X : f[x] \in Y,
         NEW g, g = [i \in DOMAIN seq |-> f[seq[i]]]
  PROVE  g \in Seq(Y)
<1>1. Len(seq) \in Nat /\ DOMAIN seq = 1 .. Len(seq) /\ \A i \in 1 .. Len(seq) : seq[i] \in X
  BY LenProperties, ElementOfSeq
<1>2. g \in [1 .. Len(seq) -> Y]
  BY <1>1
<1>. QED
  BY <1>1, <1>2, SeqDef

\* Its elements are the images of the elements.
LEMMA MappedRange ==
  ASSUME NEW seq, NEW f, NEW g, DOMAIN g = DOMAIN seq, \A i \in DOMAIN seq : g[i] = f[seq[i]]
  PROVE  \A y : y \in Range(g) <=> \E x \in Range(seq) : y = f[x]
BY DEF Range

\* Those are the elements of the sequence that are in the set.
LEMMA ThoseRange ==
  ASSUME NEW X, NEW seq \in Seq(X), NEW S
  PROVE  /\ Those(seq, S) \in Seq(X \cap S)
         /\ Range(Those(seq, S)) = Range(seq) \cap S
<1>. DEFINE Y == Seq(X \cap S)
            f == [x \in X |-> IF x \in S THEN <<x>> ELSE <<>>]
            g == [i \in DOMAIN seq |-> f[seq[i]]]
<1>1. \A x \in X : f[x] \in Y
  <2>1. ASSUME NEW x \in X \cap S PROVE <<x>> \in Seq(X \cap S)
    OBVIOUS
  <2>2. <<>> \in Seq(X \cap S)
    BY EmptySeq
  <2>. QED
    BY <2>1, <2>2
<1>2. ASSUME NEW y \in X, NEW x PROVE x \in Range(f[y]) <=> x = y /\ x \in S
  <2>1. Range(<<y>>) = {y} /\ Range(<<>>) = {}
    BY DEF Range
  <2>. QED
    BY <2>1
<1>3. Range(seq) \subseteq X
  BY RangeOfSeq
<1>4. Those(seq, S) = FlattenSeq(g)
  <2>1. ASSUME NEW i \in DOMAIN seq PROVE seq[i] \in X
    BY LenProperties, ElementOfSeq
  <2>2. g = [i \in DOMAIN seq |-> IF seq[i] \in S THEN <<seq[i]>> ELSE <<>>]
    BY <2>1
  <2>. QED
    BY <2>2 DEF Those
<1>5. g \in Seq(Y) /\ \A y : y \in Range(g) <=> \E x \in Range(seq) : y = f[x]
  <2>1. g = [i \in DOMAIN seq |-> f[seq[i]]]
    OBVIOUS
  <2>0. DOMAIN g = DOMAIN seq /\ \A i \in DOMAIN seq : g[i] = f[seq[i]]
    OBVIOUS
  <2>. HIDE DEF f, g, Y
  <2>2. g \in Seq(Y)
    BY <1>1, <2>1, MappedSeq
  <2>3. \A y : y \in Range(g) <=> \E x \in Range(seq) : y = f[x]
    BY <2>0, MappedRange
  <2>. QED
    BY <2>2, <2>3
<1>6. \A x : x \in Range(FlattenSeq(g)) <=> \E y \in Range(g) : x \in Range(y)
  <2>. HIDE DEF g
  <2>1. \A x : x \in Range(FlattenSeq(g)) <=> \E i \in DOMAIN g : x \in Range(g[i])
    BY <1>5, FlattenRange
  <2>. QED
    BY <2>1 DEF Range
<1>7. Those(seq, S) \in Seq(X \cap S)
  <2>. HIDE DEF g
  <2>. QED
    BY <1>4, <1>5, FlattenRange
<1>. HIDE DEF f, g
<1>8. \A x : x \in Range(Those(seq, S)) <=> \E y \in Range(seq) : x \in Range(f[y])
  BY <1>4, <1>5, <1>6
<1>9. ASSUME NEW x PROVE x \in Range(Those(seq, S)) <=> x \in Range(seq) /\ x \in S
  <2>1. ASSUME x \in Range(Those(seq, S)) PROVE x \in Range(seq) /\ x \in S
    <3>1. PICK y \in Range(seq) : x \in Range(f[y])
      BY <1>8, <2>1
    <3>2. x = y /\ x \in S
      BY <1>2, <1>3, <3>1
    <3>. QED
      BY <3>1, <3>2
  <2>2. ASSUME x \in Range(seq), x \in S PROVE x \in Range(Those(seq, S))
    <3>1. x \in Range(f[x])
      BY <1>2, <1>3, <2>2
    <3>. QED
      BY <1>8, <2>2, <3>1
  <2>. QED
    BY <2>1, <2>2
<1>. QED
  BY <1>7, <1>9

\* What is made of the elements of a sequence.
LEMMA MadeOf ==
  ASSUME NEW X, NEW Y, NEW seq \in Seq(X), NEW g,
         g = [i \in DOMAIN seq |-> g[i]], \A i \in DOMAIN seq : g[i] \in Y
  PROVE  g \in Seq(Y)
BY LenProperties, SeqDef

\* Sequences of at most one element flatten to no more elements than there are of them.
LEMMA FlattenShort ==
  ASSUME NEW X, NEW seqs \in Seq(Seq(X)), \A i \in DOMAIN seqs : Len(seqs[i]) <= 1
  PROVE  Len(FlattenSeq(seqs)) <= Len(seqs)
<1>. DEFINE n == Len(seqs)
<1>0. n \in Nat /\ DOMAIN seqs = 1 .. n /\ \A i \in 1 .. n : seqs[i] \in Seq(X)
  BY LenProperties, ElementOfSeq
<1>1. CASE seqs = <<>>
  BY <1>1, EmptySeq DEF FlattenSeq
<1>2. CASE seqs # <<>>
  <2>1. PICK f : /\ FlattenSeq(seqs) = f[n] /\ f[1] = seqs[1]
                 /\ \A i \in 1 .. n : i # 1 => f[i] = f[i - 1] \o seqs[i]
    BY <1>2, FlattenSteps
  <2>2. n # 0
    BY <1>2, EmptySeq
  <2>. DEFINE Good(i) == f[i] \in Seq(X) /\ Len(f[i]) <= i
              S == {i \in Nat : i \in 1 .. n => Good(i)}
  <2>3. 0 \in S
    OBVIOUS
  <2>4. ASSUME NEW i \in Nat, i \in S PROVE i + 1 \in S
    <3>1. SUFFICES ASSUME i + 1 \in 1 .. n PROVE Good(i + 1)
      OBVIOUS
    <3>2. CASE i = 0
      BY <1>0, <2>1, <3>1, <3>2
    <3>3. CASE i # 0
      <4>. DEFINE j == i + 1
      <4>1. i \in 1 .. n /\ j \in 1 .. n /\ j # 1 /\ j - 1 = i
        BY <3>1, <3>3
      <4>2. Good(i)
        BY <2>4, <4>1
      <4>. HIDE DEF j, n
      <4>3. f[j] = f[i] \o seqs[j] /\ seqs[j] \in Seq(X) /\ Len(seqs[j]) <= 1
        BY <1>0, <2>1, <4>1
      <4>4. f[j] \in Seq(X) /\ Len(f[j]) = Len(f[i]) + Len(seqs[j])
        BY <4>2, <4>3, ConcatProperties
      <4>5. Len(f[i]) \in Nat /\ Len(seqs[j]) \in Nat
        BY <4>2, <4>3, LenProperties
      <4>6. ASSUME NEW p \in Nat, NEW q \in Nat, p <= i, q <= 1 PROVE p + q <= i + 1
        BY <4>6
      <4>7. Len(f[j]) <= i + 1
        BY <4>2, <4>3, <4>4, <4>5, <4>6
      <4>8. Good(j)
        BY <4>4, <4>7 DEF j
      <4>. QED
        BY <4>8 DEF j
    <3>. QED
      BY <3>2, <3>3
  <2>5. Nat \subseteq S
    <3>. HIDE DEF S
    <3>. QED
      BY <2>3, <2>4, Induction
  <2>6. n \in S /\ n \in 1 .. n
    <3>1. n \in Nat /\ n \in 1 .. n
      BY <1>0, <2>2
    <3>. HIDE DEF S, n
    <3>. QED
      BY <2>5, <3>1
  <2>7. ASSUME NEW k \in S, k \in 1 .. n PROVE Good(k)
    <3>. HIDE DEF Good
    <3>. QED
      BY <2>7
  <2>8. Good(n)
    <3>. HIDE DEF Good, S
    <3>. QED
      BY <2>6, <2>7
  <2>. QED
    BY <2>1, <2>8
<1>. QED
  BY <1>1, <1>2

\* Filtering a sequence makes it no longer.
LEMMA ThoseShort ==
  ASSUME NEW X, NEW seq \in Seq(X), NEW S
  PROVE  Len(Those(seq, S)) <= Len(seq)
<1>. DEFINE g == [i \in DOMAIN seq |-> IF seq[i] \in S THEN <<seq[i]>> ELSE <<>>]
<1>1. DOMAIN seq = 1 .. Len(seq) /\ Len(seq) \in Nat /\ \A i \in DOMAIN seq : seq[i] \in X
  BY LenProperties, ElementOfSeq
<1>2. ASSUME NEW i \in DOMAIN seq PROVE g[i] \in Seq(X) /\ Len(g[i]) <= 1
  <2>1. <<seq[i]>> \in Seq(X) /\ <<>> \in Seq(X) /\ Len(<<seq[i]>>) = 1 /\ Len(<<>>) = 0
    BY <1>1, EmptySeq
  <2>. QED
    BY <2>1
<1>3. DOMAIN g = DOMAIN seq /\ g = [i \in DOMAIN seq |-> g[i]] /\ Those(seq, S) = FlattenSeq(g)
  BY DEF Those
<1>. HIDE DEF g
<1>4. g \in Seq(Seq(X))
  BY <1>2, <1>3, MadeOf
<1>5. Len(g) = Len(seq)
  BY <1>1, <1>3, <1>4, LenProperties
<1>. QED
  BY <1>2, <1>3, <1>4, <1>5, FlattenShort

-----------------------------------------------------------------------------
(* The order of the elements.                                               *)

\* Any two elements of the sequence stand in relation R, the earlier one first.
InOrder(seq, R) == \A i, j \in DOMAIN seq : i < j => <<seq[i], seq[j]>> \in R

\* Two sequences in order make one if their elements are in order.
LEMMA ConcatInOrder ==
  ASSUME NEW X, NEW R, NEW s \in Seq(X), NEW u \in Seq(X), InOrder(s, R), InOrder(u, R),
         \A x \in Range(s) : \A y \in Range(u) : <<x, y>> \in R
  PROVE  InOrder(s \o u, R)
<1>. DEFINE m == Len(s)
            n == Len(u)
            w == s \o u
<1>1. m \in Nat /\ n \in Nat /\ DOMAIN s = 1 .. m /\ DOMAIN u = 1 .. n
  BY LenProperties
<1>2. /\ DOMAIN w = 1 .. (m + n)
      /\ \A i \in 1 .. (m + n) : w[i] = IF i <= m THEN s[i] ELSE u[i - m]
  BY ConcatProperties, LenProperties
<1>. HIDE DEF w, m, n
<1>3. SUFFICES ASSUME NEW i \in 1 .. (m + n), NEW j \in 1 .. (m + n), i < j
               PROVE  <<w[i], w[j]>> \in R
  BY <1>2 DEF InOrder, w
<1>4. CASE j <= m
  <2>1. i \in 1 .. m /\ j \in 1 .. m /\ w[i] = s[i] /\ w[j] = s[j]
    BY <1>1, <1>2, <1>3, <1>4
  <2>. QED
    BY <1>1, <1>3, <2>1 DEF InOrder
<1>5. CASE i > m
  <2>1. i - m \in 1 .. n /\ j - m \in 1 .. n /\ i - m < j - m
    BY <1>1, <1>3, <1>5
  <2>2. w[i] = u[i - m] /\ w[j] = u[j - m]
    BY <1>1, <1>2, <1>3, <1>5
  <2>. QED
    BY <1>1, <2>1, <2>2 DEF InOrder
<1>6. CASE i <= m /\ j > m
  <2>1. i \in 1 .. m /\ j - m \in 1 .. n /\ w[i] = s[i] /\ w[j] = u[j - m]
    BY <1>1, <1>2, <1>3, <1>6
  <2>. QED
    BY <1>1, <2>1 DEF Range
<1>. QED
  BY <1>1, <1>4, <1>5, <1>6

\* A flattened sequence is in order if its parts are and each is before the later ones.
LEMMA FlattenInOrder ==
  ASSUME NEW X, NEW R, NEW seqs \in Seq(Seq(X)),
         \A i \in DOMAIN seqs : InOrder(seqs[i], R),
         \A i, j \in DOMAIN seqs : i < j =>
           \A x \in Range(seqs[i]) : \A y \in Range(seqs[j]) : <<x, y>> \in R
  PROVE  InOrder(FlattenSeq(seqs), R)
<1>. DEFINE n == Len(seqs)
<1>0. n \in Nat /\ DOMAIN seqs = 1 .. n /\ \A i \in 1 .. n : seqs[i] \in Seq(X)
  BY LenProperties, ElementOfSeq
<1>1. CASE seqs = <<>>
  BY <1>1, EmptySeq DEF FlattenSeq, InOrder
<1>2. CASE seqs # <<>>
  <2>1. PICK f : /\ FlattenSeq(seqs) = f[n] /\ f[1] = seqs[1]
                 /\ \A i \in 1 .. n : i # 1 => f[i] = f[i - 1] \o seqs[i]
    BY <1>2, FlattenSteps
  <2>2. n # 0
    BY <1>2, EmptySeq
  <2>. DEFINE Good(i) == /\ f[i] \in Seq(X) /\ InOrder(f[i], R)
                         /\ \A x \in Range(f[i]) : \E j \in 1 .. i : x \in Range(seqs[j])
              S == {i \in Nat : i \in 1 .. n => Good(i)}
  <2>3. 0 \in S
    OBVIOUS
  <2>4. ASSUME NEW i \in Nat, i \in S PROVE i + 1 \in S
    <3>1. SUFFICES ASSUME i + 1 \in 1 .. n PROVE Good(i + 1)
      OBVIOUS
    <3>2. CASE i = 0
      <4>1. f[1] = seqs[1] /\ seqs[1] \in Seq(X) /\ InOrder(seqs[1], R)
        BY <1>0, <2>1, <3>1, <3>2
      <4>2. 1 \in 1 .. 1
        OBVIOUS
      <4>. QED
        BY <3>2, <4>1, <4>2
    <3>3. CASE i # 0
      <4>. DEFINE j == i + 1
      <4>1. i \in 1 .. n /\ j \in 1 .. n /\ j # 1 /\ j - 1 = i
        BY <3>1, <3>3
      <4>2. Good(i)
        BY <2>4, <4>1
      <4>. HIDE DEF j, n
      <4>3. f[j] = f[i] \o seqs[j] /\ seqs[j] \in Seq(X) /\ InOrder(seqs[j], R)
        BY <1>0, <2>1, <4>1
      <4>4. ASSUME NEW x \in Range(f[i]), NEW y \in Range(seqs[j]) PROVE <<x, y>> \in R
        <5>1. PICK k \in 1 .. i : x \in Range(seqs[k])
          BY <4>2
        <5>2. k \in 1 .. n /\ k < j
          BY <1>0, <4>1
        <5>. QED
          BY <1>0, <4>1, <5>1, <5>2
      <4>5. InOrder(f[j], R)
        BY <4>2, <4>3, <4>4, ConcatInOrder
      <4>6. f[j] \in Seq(X) /\ Range(f[j]) = Range(f[i]) \cup Range(seqs[j])
        BY <4>2, <4>3, ConcatProperties, RangeConcatenation
      <4>7. 1 .. j = (1 .. i) \cup {j}
        BY DEF j
      <4>8. Good(j)
        BY <4>2, <4>5, <4>6, <4>7
      <4>. QED
        BY <4>8 DEF j
    <3>. QED
      BY <3>2, <3>3
  <2>5. Nat \subseteq S
    <3>. HIDE DEF S
    <3>. QED
      BY <2>3, <2>4, Induction
  <2>6. n \in S /\ n \in 1 .. n
    <3>1. n \in Nat /\ n \in 1 .. n
      BY <1>0, <2>2
    <3>. HIDE DEF S, n
    <3>. QED
      BY <2>5, <3>1
  <2>7. ASSUME NEW k \in S, k \in 1 .. n PROVE Good(k)
    <3>. HIDE DEF Good
    <3>. QED
      BY <2>7
  <2>8. Good(n)
    <3>. HIDE DEF Good, S
    <3>. QED
      BY <2>6, <2>7
  <2>. QED
    BY <2>1, <2>8
<1>. QED
  BY <1>1, <1>2

\* Filtering keeps the order.
LEMMA ThoseInOrder ==
  ASSUME NEW X, NEW R, NEW seq \in Seq(X), NEW S, InOrder(seq, R)
  PROVE  InOrder(Those(seq, S), R)
<1>. DEFINE g == [i \in DOMAIN seq |-> IF seq[i] \in S THEN <<seq[i]>> ELSE <<>>]
<1>1. DOMAIN seq = 1 .. Len(seq) /\ Len(seq) \in Nat /\ \A i \in DOMAIN seq : seq[i] \in X
  BY LenProperties, ElementOfSeq
<1>2. ASSUME NEW i \in DOMAIN seq
      PROVE  /\ g[i] \in Seq(X) /\ InOrder(g[i], R)
             /\ \A x \in Range(g[i]) : x = seq[i]
  <2>1. <<seq[i]>> \in Seq(X) /\ <<>> \in Seq(X)
    BY <1>1, EmptySeq
  <2>2. DOMAIN <<seq[i]>> = {1} /\ Range(<<seq[i]>>) = {seq[i]} /\ DOMAIN <<>> = {} /\ Range(<<>>) = {}
    BY DEF Range
  <2>. QED
    BY <2>1, <2>2 DEF InOrder
<1>3. DOMAIN g = DOMAIN seq /\ g = [i \in DOMAIN seq |-> g[i]] /\ Those(seq, S) = FlattenSeq(g)
  BY DEF Those
<1>. HIDE DEF g
<1>4. g \in Seq(Seq(X))
  BY <1>2, <1>3, MadeOf
<1>5. \A i, j \in DOMAIN g : i < j => \A x \in Range(g[i]) : \A y \in Range(g[j]) : <<x, y>> \in R
  BY <1>2, <1>3 DEF InOrder
<1>6. InOrder(FlattenSeq(g), R)
  BY <1>2, <1>3, <1>4, <1>5, FlattenInOrder
<1>. QED
  BY <1>3, <1>6

=============================================================================
