--------------------------- MODULE CatalogProofs ---------------------------
(***************************************************************************)
(* Proofs about the questions of CatalogQuestions: versions of any length  *)
(* and any numbers are ordered, and what is derived from any definitions,  *)
(* profiles, files, machines and configurations is right.                  *)
(*                                                                         *)
(* Inductions are proved from the well-foundedness of the naturals, with   *)
(* the set of the numbers for which something holds as the induction's     *)
(* predicate: a set can be a parameter of a lemma.                         *)
(***************************************************************************)
EXTENDS CatalogQuestions, FiniteSetTheorems, WellFoundedInduction, TLAPS

-----------------------------------------------------------------------------
(* Induction, and what is computed step by step.                           *)

Less == {p \in Nat \X Nat : p[1] < p[2]}

\* A set of natural numbers has a least one.
LEMMA LeastNatural ==
  ASSUME NEW S \in SUBSET Nat, S # {}
  PROVE  \E n \in S : \A m \in S : n <= m
<1>1. IsWellFoundedOn(Less, Nat)
  BY NatLessThanWellFounded DEF OpToRel, Less
<1>2. PICK n \in S : \A m \in S : <<m, n>> \notin Less
  BY <1>1, WFMin
<1>3. ASSUME NEW m \in S PROVE n <= m
  <2>1. <<m, n>> \notin Less /\ <<m, n>> \in Nat \X Nat
    BY <1>2
  <2>2. ~(m < n)
    BY <2>1 DEF Less
  <2>3. QED BY <2>2
<1>4. QED BY <1>3

\* What holds of 0 and of n + 1 if of n holds up to N: S is the set of the
\* numbers for which it does.
LEMMA Induction ==
  ASSUME NEW N \in Nat, NEW S, 0 \in S, \A n \in 0 .. N - 1 : n \in S => n + 1 \in S
  PROVE  0 .. N \subseteq S
<1> DEFINE out == {n \in 0 .. N : n \notin S}
<1> SUFFICES ASSUME out # {} PROVE FALSE
  OBVIOUS
<1>1. out \in SUBSET Nat
  OBVIOUS
<1>2. PICK n \in out : \A m \in out : n <= m
  <2> HIDE DEF out
  <2>1. QED BY <1>1, LeastNatural
<1>3. n - 1 \in 0 .. N - 1
  OBVIOUS
<1>4. n - 1 \in S
  BY <1>2, <1>3
<1>5. QED BY <1>3, <1>4

\* The greatest of some places, as the fold takes it.
LEMMA GreatestPlace ==
  ASSUME NEW N \in Nat, NEW s \in SUBSET (1 .. N), s # {}
  PROVE  Max(s) \in s /\ \A i \in s : i <= Max(s)
<1> DEFINE above == {n \in Nat : \A i \in s : i <= n}
<1>1. PICK n \in above : \A m \in above : n <= m
  <2>1. above \in SUBSET Nat /\ N \in above
    OBVIOUS
  <2> HIDE DEF above
  <2>2. QED BY <2>1, LeastNatural
<1>2. n \in s
  <2> SUFFICES ASSUME n \notin s PROVE FALSE
    OBVIOUS
  <2>1. \A i \in s : i \in Nat /\ i <= n /\ i # n /\ i > 0
    BY <1>1
  <2>2. n \in Nat /\ n > 0
    <3>1. PICK i \in s : TRUE
      OBVIOUS
    <3>2. QED BY <2>1, <3>1
  <2>3. \A i \in s : i <= n - 1
    BY <2>1, <2>2
  <2>4. n - 1 \in above
    BY <2>2, <2>3
  <2>5. QED BY <1>1, <2>2, <2>4
<1>3. \E x \in s : \A i \in s : x >= i
  BY <1>1, <1>2
<1>4. QED BY <1>3 DEF Max

\* The greatest of an interval is its end.
LEMMA GreatestOfInterval == ASSUME NEW n \in Nat \ {0} PROVE Max(1 .. n) = n
<1> n \in 1 .. n /\ 1 .. n \in SUBSET (1 .. n)
  OBVIOUS
<1>1. Max(1 .. n) \in 1 .. n /\ \A i \in 1 .. n : i <= Max(1 .. n)
  BY GreatestPlace
<1>2. QED BY <1>1

\* What a fold from left to right computes: the last place of s is taken last.
Folds(iter, N, V, base, step) ==
  /\ iter \in [SUBSET (1 .. N) -> V]
  /\ \A s \in SUBSET (1 .. N) :
       iter[s] = IF s = {} THEN base ELSE step[Max(s)][iter[s \ {Max(s)}]]

\* Such a function exists: what a fold's definition CHOOSEs is one.
LEMMA FoldsExist ==
  ASSUME NEW N \in Nat, NEW V, NEW base, NEW step,
         base \in V, \A n \in 1 .. N, x \in V : step[n][x] \in V
  PROVE  \E iter : Folds(iter, N, V, base, step)
<1> DEFINE Reached(n) == \E iter : Folds(iter, n, V, base, step)
           S == {n \in 0 .. N : Reached(n)}
<1>1. Reached(0)
  <2> DEFINE iter == [s \in SUBSET (1 .. 0) |-> base]
  <2>1. \A s \in SUBSET (1 .. 0) : s = {}
    OBVIOUS
  <2>2. Folds(iter, 0, V, base, step)
    BY <2>1 DEF Folds
  <2>3. QED BY <2>2
<1>2. ASSUME NEW n \in 0 .. N - 1, Reached(n) PROVE Reached(n + 1)
  <2>1. PICK old : Folds(old, n, V, base, step)
    BY <1>2
  <2> DEFINE iter == [s \in SUBSET (1 .. n + 1) |->
                        IF n + 1 \in s THEN step[n + 1][old[s \ {n + 1}]] ELSE old[s]]
  <2>2. n \in Nat /\ n + 1 \in Nat /\ n + 1 \in 1 .. N
    OBVIOUS
  <2>3. ASSUME NEW s \in SUBSET (1 .. n + 1)
        PROVE  /\ n + 1 \notin s => s \in SUBSET (1 .. n)
               /\ s \ {n + 1} \in SUBSET (1 .. n)
    BY <2>2
  <2>4. \A s \in SUBSET (1 .. n) : old[s] \in V
    BY <2>1 DEF Folds
  <2>5. iter \in [SUBSET (1 .. n + 1) -> V]
    BY <2>2, <2>3, <2>4
  <2>6. ASSUME NEW s \in SUBSET (1 .. n)
        PROVE  iter[s] = old[s]
    <3>1. s \in SUBSET (1 .. n + 1) /\ n + 1 \notin s
      BY <2>2
    <3>2. QED BY <3>1
  <2>7. ASSUME NEW s \in SUBSET (1 .. n + 1)
        PROVE  iter[s] = IF s = {} THEN base ELSE step[Max(s)][iter[s \ {Max(s)}]]
    <3>1. CASE n + 1 \in s
      <4>1. Max(s) \in s /\ \A i \in s : i <= Max(s)
        BY <2>2, <3>1, GreatestPlace
      <4>2. Max(s) = n + 1
        <5>1. Max(s) \in 1 .. n + 1 /\ n + 1 <= Max(s)
          BY <3>1, <4>1
        <5>2. QED BY <2>2, <5>1
      <4>3. iter[s] = step[n + 1][old[s \ {n + 1}]]
        BY <3>1
      <4>4. iter[s \ {n + 1}] = old[s \ {n + 1}]
        <5> HIDE DEF iter
        <5>1. QED BY <2>3, <2>6
      <4> HIDE DEF iter
      <4>5. QED BY <3>1, <4>2, <4>3, <4>4
    <3>2. CASE n + 1 \notin s /\ s # {}
      <4>1. s \in SUBSET (1 .. n)
        BY <2>3, <3>2
      <4>2. Max(s) \in s
        <5>1. n \in Nat /\ s # {}
          BY <2>2, <3>2
        <5>2. QED BY <4>1, <5>1, GreatestPlace
      <4>3. s \ {Max(s)} \in SUBSET (1 .. n)
        BY <4>1
      <4> HIDE DEF iter
      <4>4. iter[s] = old[s] /\ iter[s \ {Max(s)}] = old[s \ {Max(s)}]
        BY <2>6, <4>1, <4>3
      <4>5. old[s] = step[Max(s)][old[s \ {Max(s)}]]
        BY <2>1, <3>2, <4>1 DEF Folds
      <4>6. QED BY <3>2, <4>4, <4>5
    <3>3. CASE s = {}
      <4>1. s \in SUBSET (1 .. n)
        BY <3>3
      <4>2. old[s] = base
        BY <2>1, <3>3, <4>1 DEF Folds
      <4> HIDE DEF iter
      <4>3. QED BY <2>6, <3>3, <4>1, <4>2
    <3>4. QED BY <3>1, <3>2, <3>3
  <2> HIDE DEF iter
  <2>8. Folds(iter, n + 1, V, base, step)
    BY <2>5, <2>7 DEF Folds
  <2>9. QED BY <2>8
<1>3. N \in S
  <2>1. 0 \in S /\ \A n \in 0 .. N - 1 : n \in S => n + 1 \in S
    <3> HIDE DEF Reached
    <3>1. QED BY <1>1, <1>2
  <2> HIDE DEF S
  <2>2. 0 .. N \subseteq S
    BY <2>1, Induction
  <2>3. QED BY <2>2
<1>4. QED BY <1>3

\* f takes the steps one after the other, from base.
Steps(f, N, V, base, step) ==
  f \in [0 .. N -> V] /\ f[0] = base /\ \A n \in 1 .. N : f[n] = step[n][f[n - 1]]

\* What a loop computes after each of its first n turns exists.
LEMMA StepsExist ==
  ASSUME NEW N \in Nat, NEW V, NEW base, NEW step,
         base \in V, \A n \in 1 .. N, x \in V : step[n][x] \in V
  PROVE  \E f : Steps(f, N, V, base, step)
<1>1. PICK iter : Folds(iter, N, V, base, step)
  BY FoldsExist
<1> DEFINE f == [n \in 0 .. N |-> iter[1 .. n]]
<1>2. \A n \in 0 .. N : 1 .. n \in SUBSET (1 .. N)
  OBVIOUS
<1>3. f \in [0 .. N -> V]
  BY <1>1, <1>2 DEF Folds
<1>4. f[0] = base
  <2>1. 1 .. 0 = {} /\ 1 .. 0 \in SUBSET (1 .. N)
    OBVIOUS
  <2>2. QED BY <1>1, <2>1 DEF Folds
<1>5. ASSUME NEW n \in 1 .. N PROVE f[n] = step[n][f[n - 1]]
  <2>1. n \in 1 .. n /\ n \in Nat \ {0} /\ n \in 0 .. N /\ n - 1 \in 0 .. N
    OBVIOUS
  <2>2. (1 .. n) \ {n} = 1 .. n - 1
    BY <2>1
  <2>3. Max(1 .. n) = n
    BY <2>1, GreatestOfInterval
  <2>4. iter[1 .. n] = step[n][iter[1 .. n - 1]]
    BY <1>1, <1>2, <2>1, <2>2, <2>3 DEF Folds
  <2>5. f[n] = iter[1 .. n] /\ f[n - 1] = iter[1 .. n - 1]
    BY <2>1
  <2>6. QED BY <2>4, <2>5
<1> HIDE DEF f
<1>6. Steps(f, N, V, base, step)
  BY <1>3, <1>4, <1>5 DEF Steps
<1>7. QED BY <1>6

-----------------------------------------------------------------------------
(* The order of versions.                                                  *)

\* A text that parse_version finds a number in.
VersionText == {t \in Version : ParseVersion(t) # << >>}

\* The number in place i of a version: 0 beyond its end.
Place(t, i) == Digit(ParseVersion(t), i)

\* The first place that differs is less.
Before(a, b) ==
  \E i \in Nat \ {0} : Place(a, i) < Place(b, i) /\ \A j \in 1 .. i - 1 : Place(a, j) = Place(b, j)

\* parse_version returns numbers.
LEMMA ParsedType == ASSUME NEW t \in VersionText PROVE ParseVersion(t) \in Seq(Nat)
BY DEF VersionText, Version, ParseVersion, NoEpoch

\* A missing number of a version counts as zero.
LEMMA PlaceType == ASSUME NEW t \in VersionText, NEW i \in Nat PROVE Place(t, i) \in Nat
BY ParsedType DEF Place, Digit

\* Padding with zeros to the longer of the two compares place by place.
LEMMA LessIsBefore ==
  ASSUME NEW a \in VersionText, NEW b \in VersionText, NEW n \in Nat,
         Len(ParseVersion(a)) <= n, Len(ParseVersion(b)) <= n
  PROVE  TupleLess(PaddedTo(ParseVersion(a), n), PaddedTo(ParseVersion(b), n)) <=> Before(a, b)
<1> DEFINE v == PaddedTo(ParseVersion(a), n)
           w == PaddedTo(ParseVersion(b), n)
<1>1. ParseVersion(a) \in Seq(Nat) /\ ParseVersion(b) \in Seq(Nat)
  BY ParsedType
<1>2. /\ v \in Seq(Nat) /\ Len(v) = n /\ DOMAIN v = 1 .. n
      /\ w \in Seq(Nat) /\ Len(w) = n /\ DOMAIN w = 1 .. n
  BY <1>1 DEF PaddedTo
<1>3. \A i \in 1 .. n : v[i] = Place(a, i) /\ w[i] = Place(b, i)
  BY <1>1 DEF PaddedTo, Place, Digit
<1>4. \A i \in Nat \ {0} : i > n => Place(a, i) = 0 /\ Place(b, i) = 0
  BY <1>1 DEF Place, Digit
<1> HIDE DEF v, w
<1>5. TupleLess(v, w) <=> \E i \in 1 .. n : v[i] < w[i] /\ \A j \in 1 .. i - 1 : v[j] = w[j]
  <2>1. DOMAIN v \cap DOMAIN w = 1 .. n /\ ~(Len(v) < Len(w))
    BY <1>2
  <2>2. QED BY <2>1 DEF TupleLess
<1>6. ASSUME NEW i \in 1 .. n
      PROVE  (v[i] < w[i] /\ \A j \in 1 .. i - 1 : v[j] = w[j])
               <=> (Place(a, i) < Place(b, i) /\ \A j \in 1 .. i - 1 : Place(a, j) = Place(b, j))
  <2>1. \A j \in 1 .. i - 1 : j \in 1 .. n
    OBVIOUS
  <2>2. QED BY <1>3, <2>1
<1>7. ASSUME NEW i \in Nat \ {0}, Place(a, i) < Place(b, i) PROVE i \in 1 .. n
  BY <1>4, <1>7
<1>8. 1 .. n \subseteq Nat \ {0}
  OBVIOUS
<1>9. TupleLess(v, w) <=> Before(a, b)
  BY <1>5, <1>6, <1>7, <1>8 DEF Before
<1>10. QED BY <1>9 DEF v, w

\* compare_versions, without padding.
LEMMA CompareIsBefore ==
  ASSUME NEW a \in VersionText, NEW b \in VersionText
  PROVE  CompareVersions(a, b) = IF Before(a, b) THEN -1 ELSE IF Before(b, a) THEN 1 ELSE 0
<1> DEFINE n == Longer(ParseVersion(a), ParseVersion(b))
<1>1. n \in Nat /\ Len(ParseVersion(a)) <= n /\ Len(ParseVersion(b)) <= n
  BY ParsedType DEF Longer
<1>2. CompareVersions(a, b)
        = IF TupleLess(PaddedTo(ParseVersion(a), n), PaddedTo(ParseVersion(b), n)) THEN -1
          ELSE IF TupleLess(PaddedTo(ParseVersion(b), n), PaddedTo(ParseVersion(a), n)) THEN 1
          ELSE 0
  BY DEF CompareVersions
<1> HIDE DEF n
<1>3. /\ TupleLess(PaddedTo(ParseVersion(a), n), PaddedTo(ParseVersion(b), n)) <=> Before(a, b)
      /\ TupleLess(PaddedTo(ParseVersion(b), n), PaddedTo(ParseVersion(a), n)) <=> Before(b, a)
  BY <1>1, LessIsBefore
<1>4. QED BY <1>2, <1>3

\* Two different first differences are not both the first.
LEMMA BeforeIsAsymmetric ==
  ASSUME NEW a \in VersionText, NEW b \in VersionText, Before(a, b)
  PROVE  ~Before(b, a)
<1> SUFFICES ASSUME Before(b, a) PROVE FALSE
  OBVIOUS
<1>1. PICK i \in Nat \ {0} :
        Place(a, i) < Place(b, i) /\ \A j \in 1 .. i - 1 : Place(a, j) = Place(b, j)
  BY DEF Before
<1>2. PICK k \in Nat \ {0} :
        Place(b, k) < Place(a, k) /\ \A j \in 1 .. k - 1 : Place(b, j) = Place(a, j)
  BY DEF Before
<1>3. Place(a, i) \in Nat /\ Place(b, i) \in Nat /\ Place(a, k) \in Nat /\ Place(b, k) \in Nat
  BY PlaceType
<1>4. CASE i < k
  BY <1>1, <1>2, <1>3, <1>4
<1>5. CASE k < i
  BY <1>1, <1>2, <1>3, <1>5
<1>6. CASE i = k
  BY <1>1, <1>2, <1>3, <1>6
<1>7. QED BY <1>4, <1>5, <1>6

\* Of two first differences the earlier one decides.
LEMMA BeforeIsTransitive ==
  ASSUME NEW a \in VersionText, NEW b \in VersionText, NEW c \in VersionText,
         Before(a, b), Before(b, c)
  PROVE  Before(a, c)
<1>1. PICK i \in Nat \ {0} :
        Place(a, i) < Place(b, i) /\ \A j \in 1 .. i - 1 : Place(a, j) = Place(b, j)
  BY DEF Before
<1>2. PICK k \in Nat \ {0} :
        Place(b, k) < Place(c, k) /\ \A j \in 1 .. k - 1 : Place(b, j) = Place(c, j)
  BY DEF Before
<1>3. \A j \in Nat : Place(a, j) \in Nat /\ Place(b, j) \in Nat /\ Place(c, j) \in Nat
  BY PlaceType
<1>4. CASE i <= k
  <2>1. Place(a, i) < Place(c, i)
    BY <1>1, <1>2, <1>3, <1>4
  <2>2. \A j \in 1 .. i - 1 : Place(a, j) = Place(c, j)
    BY <1>1, <1>2, <1>4
  <2>3. QED BY <2>1, <2>2 DEF Before
<1>5. CASE k < i
  <2>1. Place(a, k) < Place(c, k)
    BY <1>1, <1>2, <1>3, <1>5
  <2>2. \A j \in 1 .. k - 1 : Place(a, j) = Place(c, j)
    BY <1>1, <1>2, <1>5
  <2>3. QED BY <2>1, <2>2 DEF Before
<1>6. QED BY <1>4, <1>5

Same(a, b) == \A i \in Nat \ {0} : Place(a, i) = Place(b, i)

\* Trailing zeros make no difference.
LEMMA SameIsNeither ==
  ASSUME NEW a \in VersionText, NEW b \in VersionText, Same(a, b)
  PROVE  ~Before(a, b) /\ ~Before(b, a)
<1>1. \A i \in Nat \ {0} : Place(a, i) \in Nat /\ Place(a, i) = Place(b, i)
  BY PlaceType DEF Same
<1>2. QED BY <1>1 DEF Before

\* What comes before one of two that are the same comes before the other.
LEMMA BeforeOfSame ==
  ASSUME NEW a, NEW b, NEW c, NEW d, Same(a, b), Same(c, d), Before(a, c)
  PROVE  Before(b, d)
<1>1. PICK i \in Nat \ {0} :
        Place(a, i) < Place(c, i) /\ \A j \in 1 .. i - 1 : Place(a, j) = Place(c, j)
  BY DEF Before
<1>2. \A j \in Nat \ {0} : Place(a, j) = Place(b, j) /\ Place(c, j) = Place(d, j)
  BY DEF Same
<1>3. Place(b, i) < Place(d, i) /\ \A j \in 1 .. i - 1 : Place(b, j) = Place(d, j)
  BY <1>1, <1>2
<1>4. QED BY <1>3 DEF Before

\* The least place in which two differ decides.
LEMMA OneIsBefore ==
  ASSUME NEW a \in VersionText, NEW b \in VersionText
  PROVE  Before(a, b) \/ Before(b, a) \/ Same(a, b)
<1> DEFINE differ == {i \in Nat \ {0} : Place(a, i) # Place(b, i)}
<1>1. CASE differ = {}
  BY <1>1 DEF Same
<1>2. CASE differ # {}
  <2>1. PICK i \in differ : \A j \in differ : i <= j
    <3>1. differ \in SUBSET Nat
      OBVIOUS
    <3> HIDE DEF differ
    <3>2. QED BY <1>2, <3>1, LeastNatural
  <2>2. \A j \in 1 .. i - 1 : Place(a, j) = Place(b, j)
    BY <2>1
  <2>3. Place(a, i) \in Nat /\ Place(b, i) \in Nat
    BY PlaceType
  <2>4. CASE Place(a, i) < Place(b, i)
    BY <2>2, <2>4 DEF Before
  <2>5. CASE Place(b, i) < Place(a, i)
    BY <2>2, <2>5 DEF Before
  <2>6. QED BY <2>1, <2>3, <2>4, <2>5
<1>3. QED BY <1>1, <1>2

\* compare_versions is an order of all versions, however long and however
\* large their numbers: it turns with its arguments, it is transitive, and
\* two are equal exactly if trailing zeros make the difference between them.
\* So what is above a version that is above a minimum is not below that minimum.
THEOREM VersionsAreOrdered ==
  ASSUME NEW a \in VersionText, NEW b \in VersionText, NEW c \in VersionText
  PROVE  /\ CompareVersions(b, a) = -CompareVersions(a, b)
         /\ CompareVersions(a, b) = 0 <=> Same(a, b)
         /\ Same(a, b) => CompareVersions(a, c) = CompareVersions(b, c)
         /\ CompareVersions(a, b) < 0 /\ CompareVersions(b, c) < 0 => CompareVersions(a, c) < 0
<1>1. ASSUME NEW x \in VersionText, NEW y \in VersionText
      PROVE  /\ CompareVersions(x, y) = IF Before(x, y) THEN -1 ELSE IF Before(y, x) THEN 1 ELSE 0
             /\ ~(Before(x, y) /\ Before(y, x))
  BY <1>1, CompareIsBefore, BeforeIsAsymmetric
<1>2. CompareVersions(b, a) = -CompareVersions(a, b)
  BY <1>1
<1>3. ASSUME Same(a, b)
      PROVE  CompareVersions(a, b) = 0 /\ CompareVersions(a, c) = CompareVersions(b, c)
  <2>1. Same(b, a) /\ Same(c, c)
    BY <1>3 DEF Same
  <2>2. (Before(a, c) <=> Before(b, c)) /\ (Before(c, a) <=> Before(c, b))
    BY <1>3, <2>1, BeforeOfSame
  <2>3. QED BY <1>1, <1>3, <2>2, SameIsNeither
<1>4. ASSUME CompareVersions(a, b) < 0, CompareVersions(b, c) < 0 PROVE CompareVersions(a, c) < 0
  <2>1. Before(a, b) /\ Before(b, c)
    BY <1>1, <1>4
  <2>2. QED BY <1>1, <2>1, BeforeIsTransitive
<1>5. CompareVersions(a, b) = 0 => Same(a, b)
  BY <1>1, OneIsBefore
<1>6. QED BY <1>2, <1>3, <1>4, <1>5

-----------------------------------------------------------------------------
(* What a version stands for.                                              *)

\* What Value computes.
LEMMA ValueUpTo ==
  ASSUME NEW v \in Seq(Nat)
  PROVE  \E f \in [0 .. Places -> Nat] :
           /\ f[0] = 0 /\ \A n \in 1 .. Places : f[n] = Base * f[n - 1] + Digit(v, n)
           /\ Value(v) = f[Places]
<1> DEFINE body(f) == [n \in 0 .. Places |-> IF n = 0 THEN 0 ELSE Base * f[n - 1] + Digit(v, n)]
           step == [n \in 1 .. Places |-> [x \in Nat |-> Base * x + Digit(v, n)]]
           upTo == CHOOSE f : f = body(f)
<1>1. Base \in Nat /\ Places \in Nat
  BY VersionsAssumption
<1>2. \A n \in 1 .. Places : Digit(v, n) \in Nat
  BY DEF Digit
<1>3. \A n \in 1 .. Places, x \in Nat : Base * x + Digit(v, n) \in Nat
  BY <1>1, <1>2
<1>4. step \in [1 .. Places -> [Nat -> Nat]]
  BY <1>3
<1>5. PICK f : Steps(f, Places, Nat, 0, step)
  <2>1. \A n \in 1 .. Places, x \in Nat : step[n][x] \in Nat
    BY <1>4
  <2> HIDE DEF step
  <2>2. QED BY <1>1, <2>1, StepsExist
<1>6. /\ f \in [0 .. Places -> Nat] /\ f[0] = 0
      /\ \A n \in 1 .. Places : f[n] = Base * f[n - 1] + Digit(v, n)
  <2>1. f \in [0 .. Places -> Nat] /\ f[0] = 0 /\ \A n \in 1 .. Places : f[n] = step[n][f[n - 1]]
    BY <1>5 DEF Steps
  <2>2. \A n \in 1 .. Places : f[n - 1] \in Nat
    BY <1>1, <2>1
  <2>3. QED BY <2>1, <2>2
<1>7. f = body(f)
  <2>1. \A n \in 0 .. Places : f[n] = IF n = 0 THEN 0 ELSE Base * f[n - 1] + Digit(v, n)
    BY <1>1, <1>6
  <2>2. QED BY <1>6, <2>1
<1>8. upTo = body(upTo)
  <2> HIDE DEF body
  <2>1. QED BY <1>7
<1>9. Value(v) = upTo[Places]
  BY DEF Value
<1> HIDE DEF upTo
<1>10. \A n \in 0 .. Places : upTo[n] = IF n = 0 THEN 0 ELSE Base * upTo[n - 1] + Digit(v, n)
  BY <1>8
<1> DEFINE same == {n \in 0 .. Places : upTo[n] = f[n]}
<1>11. 0 \in same /\ \A n \in 0 .. Places - 1 : n \in same => n + 1 \in same
  <2>1. 0 \in same
    BY <1>1, <1>6, <1>10
  <2>2. ASSUME NEW n \in 0 .. Places - 1, upTo[n] = f[n] PROVE upTo[n + 1] = f[n + 1]
    <3>1. n + 1 \in 1 .. Places /\ n + 1 \in 0 .. Places /\ n + 1 # 0 /\ (n + 1) - 1 = n
      BY <1>1
    <3>2. upTo[n + 1] = Base * upTo[n] + Digit(v, n + 1) /\ f[n + 1] = Base * f[n] + Digit(v, n + 1)
      BY <1>6, <1>10, <3>1
    <3>3. QED BY <2>2, <3>2
  <2>3. QED BY <1>1, <2>1, <2>2
<1>12. Places \in same
  <2> HIDE DEF same
  <2>1. 0 .. Places \subseteq same
    BY <1>1, <1>11, Induction
  <2>2. QED BY <1>1, <2>1
<1>13. Value(v) = f[Places]
  BY <1>9, <1>12
<1>14. QED BY <1>6, <1>13

\* A carry never makes up for a smaller number in an earlier place.
LEMMA EarlierPlaceDecides ==
  ASSUME NEW x \in Nat, NEW y \in Nat, NEW p \in Nat, NEW q \in Nat, NEW b \in Nat, p < b, x < y
  PROVE  b * x + p < b * y + q
<1>1. PICK d \in Nat : y = x + 1 + d
  <2>1. y - x - 1 \in Nat /\ y = x + 1 + (y - x - 1)
    OBVIOUS
  <2>2. QED BY <2>1
<1>2. b * y = b * x + b + b * d
  BY <1>1
<1>3. b * x \in Nat /\ b * d \in Nat /\ b * y \in Nat
  OBVIOUS
<1>4. QED BY <1>2, <1>3

\* So the value is decided by the first place in which two versions differ.
LEMMA ValueOfFirstDifference ==
  ASSUME NEW v \in Seq(Nat), NEW w \in Seq(Nat), NEW i \in 1 .. Places,
         \A j \in 1 .. Places : Digit(v, j) < Base,
         Digit(v, i) < Digit(w, i), \A j \in 1 .. i - 1 : Digit(v, j) = Digit(w, j)
  PROVE  Value(v) < Value(w)
<1>1. Base \in Nat /\ Places \in Nat
  BY VersionsAssumption
<1>2. \A n \in 1 .. Places : Digit(v, n) \in Nat /\ Digit(w, n) \in Nat
  BY DEF Digit
<1>3. PICK f \in [0 .. Places -> Nat] :
        /\ f[0] = 0 /\ \A n \in 1 .. Places : f[n] = Base * f[n - 1] + Digit(v, n)
        /\ Value(v) = f[Places]
  BY ValueUpTo
<1>4. PICK g \in [0 .. Places -> Nat] :
        /\ g[0] = 0 /\ \A n \in 1 .. Places : g[n] = Base * g[n - 1] + Digit(w, n)
        /\ Value(w) = g[Places]
  BY ValueUpTo
<1> DEFINE so == {n \in 0 .. Places : IF n < i THEN f[n] = g[n] ELSE f[n] < g[n]}
<1>5. 0 \in so
  BY <1>1, <1>3, <1>4
<1>6. ASSUME NEW n \in 0 .. Places - 1, n \in so PROVE n + 1 \in so
  <2>1. n + 1 \in 1 .. Places /\ n + 1 \in 0 .. Places /\ (n + 1) - 1 = n
        /\ f[n] \in Nat /\ g[n] \in Nat /\ i \in Nat
    BY <1>1
  <2>2. f[n + 1] = Base * f[n] + Digit(v, n + 1) /\ g[n + 1] = Base * g[n] + Digit(w, n + 1)
    BY <1>3, <1>4, <2>1
  <2>3. Digit(v, n + 1) \in Nat /\ Digit(w, n + 1) \in Nat /\ Digit(v, n + 1) < Base
    BY <1>2, <2>1
  <2>4. CASE n + 1 < i
    <3>1. n + 1 \in 1 .. i - 1 /\ n < i
      BY <2>1, <2>4
    <3>2. Digit(v, n + 1) = Digit(w, n + 1) /\ f[n] = g[n]
      BY <1>6, <3>1
    <3>3. f[n + 1] = g[n + 1]
      BY <2>2, <3>2
    <3>4. QED BY <2>1, <2>4, <3>3
  <2>5. CASE n + 1 = i
    <3>1. Digit(v, n + 1) < Digit(w, n + 1) /\ f[n] = g[n]
      BY <1>6, <2>1, <2>5
    <3> DEFINE z == Base * f[n]
    <3>2. z \in Nat
      BY <1>1, <2>1
    <3>3. f[n + 1] = z + Digit(v, n + 1) /\ g[n + 1] = z + Digit(w, n + 1)
      BY <2>2, <3>1
    <3> HIDE DEF z
    <3>4. f[n + 1] < g[n + 1]
      BY <2>3, <3>1, <3>2, <3>3
    <3>5. QED BY <2>1, <2>5, <3>4
  <2>6. CASE i < n + 1
    <3>1. f[n] < g[n]
      BY <1>6, <2>1, <2>6
    <3>2. Base * f[n] + Digit(v, n + 1) < Base * g[n] + Digit(w, n + 1)
      BY <1>1, <2>1, <2>3, <3>1, EarlierPlaceDecides, Zenon
    <3>3. QED BY <2>1, <2>2, <2>6, <3>2
  <2>7. n + 1 < i \/ n + 1 = i \/ i < n + 1
    BY <1>1
  <2>8. QED BY <2>4, <2>5, <2>6, <2>7
<1>7. Places \in so
  <2> HIDE DEF so
  <2>1. 0 .. Places \subseteq so
    BY <1>1, <1>5, <1>6, Induction
  <2>2. QED BY <1>1, <2>1
<1>8. QED BY <1>3, <1>4, <1>7

\* Equal numbers in every place, equal values.
LEMMA ValueOfSame ==
  ASSUME NEW v \in Seq(Nat), NEW w \in Seq(Nat), \A j \in 1 .. Places : Digit(v, j) = Digit(w, j)
  PROVE  Value(v) = Value(w)
<1>1. Base \in Nat /\ Places \in Nat
  BY VersionsAssumption
<1>2. PICK f \in [0 .. Places -> Nat] :
        /\ f[0] = 0 /\ \A n \in 1 .. Places : f[n] = Base * f[n - 1] + Digit(v, n)
        /\ Value(v) = f[Places]
  BY ValueUpTo
<1>3. PICK g \in [0 .. Places -> Nat] :
        /\ g[0] = 0 /\ \A n \in 1 .. Places : g[n] = Base * g[n - 1] + Digit(w, n)
        /\ Value(w) = g[Places]
  BY ValueUpTo
<1> DEFINE so == {n \in 0 .. Places : f[n] = g[n]}
<1>4. 0 \in so
  BY <1>1, <1>2, <1>3
<1>5. ASSUME NEW n \in 0 .. Places - 1, n \in so PROVE n + 1 \in so
  <2>1. n + 1 \in 1 .. Places /\ n + 1 \in 0 .. Places /\ (n + 1) - 1 = n
    BY <1>1
  <2>2. f[n + 1] = Base * f[n] + Digit(v, n + 1) /\ g[n + 1] = Base * g[n] + Digit(w, n + 1)
    BY <1>2, <1>3, <2>1
  <2>3. f[n + 1] = g[n + 1]
    BY <1>5, <2>1, <2>2
  <2>4. QED BY <2>1, <2>3
<1>6. Places \in so
  <2> HIDE DEF so
  <2>1. 0 .. Places \subseteq so
    BY <1>1, <1>4, <1>5, Induction
  <2>2. QED BY <1>1, <2>1
<1>7. QED BY <1>2, <1>3, <1>6

\* What parse_version returns of a bounded text: it has no digit after
\* Places, and none as large as Base.
LEMMA ParsedBounds ==
  ASSUME NEW t \in BoundedVersion
  PROVE  /\ ParseVersion(t) \in Seq(Nat)
         /\ \A i \in Nat \ {0} : Digit(ParseVersion(t), i) \in Nat
         /\ \A i \in 1 .. Places : Base > 0 => Digit(ParseVersion(t), i) < Base
         /\ \A i \in Nat \ {0} : Digit(ParseVersion(t), i) > 0 => i \in 1 .. Places /\ Base > 0
         /\ ParseVersion(t) # << >> => t \in VersionText
<1> DEFINE v == ParseVersion(t)
<1>1. v \in Seq(Nat)
  BY DEF BoundedVersion, Version, ParseVersion, NoEpoch
<1>2. Base \in Nat /\ Places \in Nat
  BY VersionsAssumption
<1>3. Len(v) <= Places /\ \A i \in DOMAIN v : v[i] < Base
  BY DEF BoundedVersion
<1>4. v # << >> => t \in VersionText
  BY DEF BoundedVersion, Version, VersionText
<1> HIDE DEF v
<1>5. DOMAIN v = 1 .. Len(v) /\ Len(v) \in Nat /\ \A i \in DOMAIN v : v[i] \in Nat
  BY <1>1
<1>6. \A i \in Nat \ {0} : Digit(v, i) \in Nat
  BY <1>5 DEF Digit
<1>7. \A i \in 1 .. Places : Base > 0 => Digit(v, i) < Base
  BY <1>2, <1>3, <1>5 DEF Digit
<1>8. \A i \in Nat \ {0} : Digit(v, i) > 0 => i \in 1 .. Places /\ Base > 0
  BY <1>2, <1>3, <1>5 DEF Digit
<1>9. QED BY <1>1, <1>4, <1>6, <1>7, <1>8 DEF v

\* A value is a natural number.
LEMMA ValueType == ASSUME NEW v \in Seq(Nat) PROVE Value(v) \in Nat
<1>1. PICK f \in [0 .. Places -> Nat] : Value(v) = f[Places]
  BY ValueUpTo
<1>2. QED BY <1>1, VersionsAssumption

\* The order of the places is the order of the values.
LEMMA BeforeIsLessValue ==
  ASSUME NEW a \in BoundedVersion, NEW b \in BoundedVersion,
         ParseVersion(a) # << >>, ParseVersion(b) # << >>, Before(a, b)
  PROVE  Value(ParseVersion(a)) < Value(ParseVersion(b))
<1> DEFINE v == ParseVersion(a)
           w == ParseVersion(b)
<1>1. v \in Seq(Nat) /\ w \in Seq(Nat) /\ a \in VersionText /\ b \in VersionText
  BY ParsedBounds
<1>2. PICK i \in Nat \ {0} :
        Place(a, i) < Place(b, i) /\ \A j \in 1 .. i - 1 : Place(a, j) = Place(b, j)
  BY DEF Before
<1>3. Digit(v, i) < Digit(w, i) /\ \A j \in 1 .. i - 1 : Digit(v, j) = Digit(w, j)
  BY <1>2 DEF Place
<1>4. Digit(v, i) \in Nat /\ Digit(w, i) \in Nat
  BY ParsedBounds
<1>5. i \in 1 .. Places /\ Base > 0
  BY <1>3, <1>4, ParsedBounds
<1>6. \A j \in 1 .. Places : Digit(v, j) < Base
  BY <1>5, ParsedBounds
<1>7. QED
  <2> HIDE DEF v, w
  <2>1. Value(v) < Value(w)
    BY <1>1, <1>3, <1>5, <1>6, ValueOfFirstDifference
  <2>2. QED BY <2>1 DEF v, w

\* What compare_versions answers, from what the two versions stand for.
LEMMA CompareIsValue ==
  ASSUME NEW a \in BoundedVersion, NEW b \in BoundedVersion, Conclusive(a, b)
  PROVE  CompareVersions(a, b) = Sign(Value(ParseVersion(a)) - Value(ParseVersion(b)))
<1> DEFINE x == Value(ParseVersion(a))
           y == Value(ParseVersion(b))
<1>1. /\ a \in VersionText /\ b \in VersionText
      /\ ParseVersion(a) \in Seq(Nat) /\ ParseVersion(b) \in Seq(Nat)
      /\ ParseVersion(a) # << >> /\ ParseVersion(b) # << >>
  BY ParsedBounds DEF Conclusive
<1>2. x \in Nat /\ y \in Nat
  BY <1>1, ValueType
<1>3. CompareVersions(a, b) = IF Before(a, b) THEN -1 ELSE IF Before(b, a) THEN 1 ELSE 0
  BY <1>1, CompareIsBefore
<1>4. (Before(a, b) => x < y) /\ (Before(b, a) => y < x)
  BY <1>1, BeforeIsLessValue
<1>5. Same(a, b) => x = y
  <2>1. ASSUME Same(a, b), NEW j \in 1 .. Places
        PROVE  Digit(ParseVersion(a), j) = Digit(ParseVersion(b), j)
    <3>1. j \in Nat \ {0}
      BY VersionsAssumption
    <3>2. QED BY <2>1, <3>1 DEF Same, Place
  <2>2. QED BY <1>1, <2>1, ValueOfSame
<1>6. Before(a, b) \/ Before(b, a) \/ Same(a, b)
  BY <1>1, OneIsBefore
<1> HIDE DEF x, y
<1>7. CompareVersions(a, b) = Sign(x - y)
  <2>1. CASE Before(a, b)
    BY <1>2, <1>3, <1>4, <2>1 DEF Sign
  <2>2. CASE ~Before(a, b) /\ Before(b, a)
    BY <1>2, <1>3, <1>4, <2>2 DEF Sign
  <2>3. CASE ~Before(a, b) /\ ~Before(b, a)
    BY <1>2, <1>3, <1>5, <1>6, <2>3 DEF Sign
  <2>4. QED BY <2>1, <2>2, <2>3
<1>8. QED BY <1>7 DEF x, y

\* What meets_minimum answers.
LEMMA BelowIsLess ==
  ASSUME NEW a \in BoundedVersion, NEW b \in BoundedVersion
  PROVE  BelowMinimum(a, b) <=>
           Conclusive(a, b) /\ Value(ParseVersion(a)) < Value(ParseVersion(b))
<1> DEFINE x == Value(ParseVersion(a))
           y == Value(ParseVersion(b))
<1>1. x \in Nat /\ y \in Nat
  BY ParsedBounds, ValueType
<1>2. Conclusive(a, b) => CompareVersions(a, b) = Sign(x - y)
  BY CompareIsValue
<1> HIDE DEF x, y
<1>3. BelowMinimum(a, b) <=> Conclusive(a, b) /\ x < y
  BY <1>1, <1>2 DEF BelowMinimum, Sign
<1>4. QED BY <1>3 DEF x, y

\* Only a text in which no number was found reads as nothing.
LEMMA UnreadIsNone ==
  ASSUME NEW t \in BoundedVersion, ParseVersion(t) = << >>
  PROVE  t = None
BY DEF BoundedVersion, Version, ParseVersion, None, NoEpoch

\* Nothing is below a version without numbers.
LEMMA NothingIsLess ==
  ASSUME NEW v \in Seq(Nat) PROVE ~(Value(v) < Value(<< >>))
<1>1. << >> \in Seq(Nat) /\ \A n \in 1 .. Places : Digit(<< >>, n) = 0
  BY DEF Digit
<1>2. PICK f \in [0 .. Places -> Nat] :
        /\ f[0] = 0 /\ \A n \in 1 .. Places : f[n] = Base * f[n - 1] + Digit(<< >>, n)
        /\ Value(<< >>) = f[Places]
  BY <1>1, ValueUpTo
<1>3. Base \in Nat /\ Places \in Nat
  BY VersionsAssumption
<1> DEFINE zero == {n \in 0 .. Places : f[n] = 0}
<1>4. 0 \in zero
  BY <1>2, <1>3
<1>5. ASSUME NEW n \in 0 .. Places - 1, f[n] = 0 PROVE f[n + 1] = 0
  <2>1. n + 1 \in 1 .. Places /\ (n + 1) - 1 = n
    BY <1>3
  <2>2. f[n + 1] = Base * f[n] + 0
    BY <1>1, <1>2, <2>1
  <2>3. QED BY <1>3, <1>5, <2>2
<1>6. Places \in zero
  <2>1. \A n \in 0 .. Places - 1 : n \in zero => n + 1 \in zero
    BY <1>3, <1>5
  <2> HIDE DEF zero
  <2>2. 0 .. Places \subseteq zero
    BY <1>3, <1>4, <2>1, Induction
  <2>3. QED BY <1>3, <2>2
<1>7. Value(v) \in Nat
  BY ValueType
<1>8. QED BY <1>2, <1>6, <1>7

-----------------------------------------------------------------------------
(* The strategy of a tool.                                                 *)

\* Native managers are trusted most, and every strategy is in the order.
LEMMA TrustRanks ==
  ASSUME NEW s \in KnownStrategy
  PROVE  TrustRank(s) \in 1 .. 4 /\ (TrustRank(s) = 1 <=> s \in Native) /\ s # "none"
BY DEF TrustRank, KnownStrategy, Native, Secondary, Ecosystem

\* What resolve_strategy has chosen after the first n strategies.
BestOfFirst(n, best, tool, system) ==
  /\ best = "none" \/ \E i \in 1 .. n : best = tool.strategies[i] /\ Usable(best, tool, system)
  /\ \A i \in 1 .. n : Usable(tool.strategies[i], tool, system) =>
       best # "none" /\ TrustRank(best) <= TrustRank(tool.strategies[i])

\* The loop over the strategies keeps the best so far.
LEMMA ResolveIsBestOfAll ==
  ASSUME NEW tool, NEW system, tool.strategies \in Seq(KnownStrategy)
  PROVE  BestOfFirst(Len(tool.strategies), ResolveStrategy(tool, system), tool, system)
<1> DEFINE seq == tool.strategies
           N == Len(seq)
           V == KnownStrategy \cup {"none"}
           trusted(best, s) == IF ~Usable(s, tool, system) THEN best
                               ELSE IF best = "none" THEN s
                               ELSE IF TrustRank(s) < TrustRank(best) THEN s
                               ELSE best
           step == [i \in 1 .. N |-> [best \in V |-> trusted(best, seq[i])]]
           body(iter) == [s \in SUBSET (1 .. N) |->
                            IF s = {} THEN "none" ELSE trusted(iter[s \ {Max(s)}], seq[Max(s)])]
           iter == CHOOSE iter : iter = body(iter)
<1>1. N \in Nat /\ DOMAIN seq = 1 .. N /\ \A i \in 1 .. N : seq[i] \in KnownStrategy
  OBVIOUS
<1>2. ResolveStrategy(tool, system) = iter[1 .. N]
  BY <1>1 DEF ResolveStrategy, FoldLeft, MapThenFoldSet
<1> HIDE DEF seq, N
<1>3. "none" \in V /\ \A i \in 1 .. N, best \in V : step[i][best] = trusted(best, seq[i]) /\ step[i][best] \in V
  BY <1>1
<1>4. PICK some : Folds(some, N, V, "none", step)
  <2> HIDE DEF step, V
  <2>1. QED BY <1>1, <1>3, FoldsExist
<1>5. some = body(some)
  <2>1. some \in [SUBSET (1 .. N) -> V]
    BY <1>4 DEF Folds
  <2>2. ASSUME NEW s \in SUBSET (1 .. N)
        PROVE  some[s] = IF s = {} THEN "none" ELSE trusted(some[s \ {Max(s)}], seq[Max(s)])
    <3>1. s # {} => Max(s) \in 1 .. N
      BY <1>1, GreatestPlace
    <3>2. some[s \ {Max(s)}] \in V
      BY <2>1
    <3>3. some[s] = IF s = {} THEN "none" ELSE step[Max(s)][some[s \ {Max(s)}]]
      BY <1>4 DEF Folds
    <3> HIDE DEF step, V, trusted
    <3>4. QED BY <1>3, <3>1, <3>2, <3>3
  <2> HIDE DEF V, trusted
  <2>3. QED BY <2>1, <2>2
<1>6. iter = body(iter)
  <2> HIDE DEF body
  <2>1. QED BY <1>5
<1> HIDE DEF iter
<1>7. \A s \in SUBSET (1 .. N) :
        iter[s] = IF s = {} THEN "none" ELSE trusted(iter[s \ {Max(s)}], seq[Max(s)])
  <2> HIDE DEF trusted
  <2>1. QED BY <1>6
<1> DEFINE right == {n \in 0 .. N : BestOfFirst(n, iter[1 .. n], tool, system)}
<1>8. 0 \in right
  <2>1. 1 .. 0 = {} /\ 1 .. 0 \in SUBSET (1 .. N)
    OBVIOUS
  <2>2. iter[1 .. 0] = "none"
    BY <1>7, <2>1
  <2>3. BestOfFirst(0, iter[1 .. 0], tool, system)
    BY <2>1, <2>2 DEF BestOfFirst
  <2>4. QED BY <1>1, <2>3
<1>9. ASSUME NEW n \in 0 .. N - 1, BestOfFirst(n, iter[1 .. n], tool, system)
      PROVE  BestOfFirst(n + 1, iter[1 .. n + 1], tool, system)
  <2> DEFINE old == iter[1 .. n]
             new == iter[1 .. n + 1]
  <2>1. /\ n + 1 \in 1 .. N /\ n + 1 \in Nat \ {0} /\ n \in Nat
        /\ 1 .. n + 1 \in SUBSET (1 .. N) /\ 1 .. n + 1 # {} /\ (1 .. n + 1) \ {n + 1} = 1 .. n
    <3>1. n + 1 \in 1 .. N /\ n + 1 \in Nat \ {0} /\ n \in Nat /\ n + 1 \in 1 .. n + 1
      BY <1>1
    <3>2. (1 .. n + 1) \ {n + 1} = 1 .. n
      BY <3>1
    <3>3. 1 .. n + 1 \in SUBSET (1 .. N)
      BY <1>1, <3>1
    <3>4. QED BY <3>1, <3>2, <3>3
  <2>2. new = trusted(old, seq[n + 1])
    <3>1. Max(1 .. n + 1) = n + 1
      BY <2>1, GreatestOfInterval
    <3> HIDE DEF trusted
    <3>2. QED BY <1>7, <2>1, <3>1
  <2> HIDE DEF old, new
  <2>3. /\ old = "none" \/ \E i \in 1 .. n : old = seq[i] /\ Usable(old, tool, system)
        /\ \A i \in 1 .. n : Usable(seq[i], tool, system) =>
             old # "none" /\ TrustRank(old) <= TrustRank(seq[i])
    BY <1>9 DEF BestOfFirst, old, seq
  <2>4. \A i \in 1 .. n + 1 : i \in 1 .. N /\ (i \in 1 .. n \/ i = n + 1)
    BY <2>1
  <2>5. \A i \in 1 .. N : TrustRank(seq[i]) \in Int /\ seq[i] # "none"
    BY <1>1, TrustRanks
  <2>6. old = "none" \/ TrustRank(old) \in Int
    BY <2>1, <2>3, <2>4, <2>5
  <2>7. new = "none" \/ \E i \in 1 .. n + 1 : new = seq[i] /\ Usable(new, tool, system)
    <3>1. \A i \in 1 .. n : i \in 1 .. n + 1
      BY <2>1
    <3>2. n + 1 \in 1 .. n + 1
      BY <2>1
    <3>3. QED BY <2>2, <2>3, <3>1, <3>2
  <2>8. ASSUME NEW i \in 1 .. n + 1, Usable(seq[i], tool, system)
        PROVE  new # "none" /\ TrustRank(new) <= TrustRank(seq[i])
    <3>1. CASE i = n + 1
      BY <2>1, <2>2, <2>5, <2>6, <2>8, <3>1
    <3>2. CASE i \in 1 .. n
      <4>1. old # "none" /\ TrustRank(old) <= TrustRank(seq[i])
        BY <2>3, <2>8, <3>2
      <4>2. TrustRank(old) \in Int /\ TrustRank(seq[i]) \in Int /\ TrustRank(seq[n + 1]) \in Int
            /\ seq[n + 1] # "none"
        BY <2>1, <2>4, <2>5, <2>6, <4>1
      <4>3. QED BY <2>2, <4>1, <4>2
    <3>3. QED BY <2>4, <3>1, <3>2
  <2>9. QED BY <2>7, <2>8 DEF BestOfFirst, new, seq
<1>10. N \in right
  <2>1. \A n \in 0 .. N - 1 : n \in right => n + 1 \in right
    BY <1>1, <1>9
  <2> HIDE DEF right
  <2>2. 0 .. N \subseteq right
    BY <1>1, <1>8, <2>1, Induction
  <2>3. QED BY <1>1, <2>2
<1>11. QED BY <1>2, <1>10 DEF N, seq

\* The two tables between strategies and managers agree.
LEMMA ManagerOfNative == ASSUME NEW s \in Native PROVE ManagerOf(s) = s /\ NativeStrategyByManager[s] = s
BY DEF ManagerOf, NativeStrategyByManager

\* What the strategy of a tool is, of those whose packages are all there.
LEMMA ResolvedStrategy ==
  ASSUME NEW tool, NEW system,
         tool.strategies \in Seq(KnownStrategy), ToSet(tool.strategies) \subseteq DOMAIN tool.mappings
  PROVE  LET s == ResolveStrategy(tool, system)
             usable == {d \in ToSet(tool.strategies) : d \in Native => d = system.manager}
         IN /\ s = "none" \/ s \in usable
            /\ \A d \in usable : s # "none" /\ TrustRank(s) <= TrustRank(d)
<1> DEFINE s == ResolveStrategy(tool, system)
           N == Len(tool.strategies)
           declared == ToSet(tool.strategies)
<1>1. N \in Nat /\ DOMAIN tool.strategies = 1 .. N /\ declared = {tool.strategies[i] : i \in 1 .. N}
  BY DEF ToSet
<1>2. ASSUME NEW d \in declared
      PROVE  Usable(d, tool, system) <=> (d \in Native => d = system.manager)
  <2>1. d \in DOMAIN tool.mappings
    OBVIOUS
  <2>2. QED BY <2>1, ManagerOfNative DEF Usable
<1>3. BestOfFirst(N, s, tool, system)
  BY ResolveIsBestOfAll
<1> HIDE DEF s, declared
<1>4. s = "none" \/ (s \in declared /\ Usable(s, tool, system))
  BY <1>1, <1>3 DEF BestOfFirst
<1>5. \A d \in declared : Usable(d, tool, system) => s # "none" /\ TrustRank(s) <= TrustRank(d)
  BY <1>1, <1>3 DEF BestOfFirst
<1>6. QED BY <1>2, <1>4, <1>5 DEF s, declared

-----------------------------------------------------------------------------
(* What a directory of files becomes.                                      *)

\* A registry of tools that loads has an entry for every document.
LEMMA LoadedTools ==
  ASSUME NEW files, ToolRegistry(files).loaded
  PROVE  LET entries == ToolRegistry(files).entries
         IN /\ NoDuplicates(files)
            /\ DOMAIN entries = {files[i].id : i \in Documents(files)}
            /\ \A i \in Documents(files) :
                 ValidTool(files[i]) /\ entries[files[i].id] = ParsedTool(files[i])
<1> DEFINE documents == Documents(files)
           ids == {files[i].id : i \in documents}
           chosen(id) == CHOOSE i \in documents : files[i].id = id
<1>1. /\ NoDuplicates(files) /\ \A i \in documents : ValidTool(files[i])
      /\ ToolRegistry(files).entries = [id \in ids |-> ParsedTool(files[chosen(id)])]
  BY DEF ToolRegistry, Load
<1>2. ASSUME NEW i \in documents PROVE chosen(files[i].id) = i
  <2>1. \E j \in documents : files[j].id = files[i].id
    OBVIOUS
  <2>2. chosen(files[i].id) \in documents /\ files[chosen(files[i].id)].id = files[i].id
    BY <2>1
  <2>3. QED BY <1>1, <2>2 DEF NoDuplicates
<1> HIDE DEF documents, chosen
<1>3. \A i \in documents : files[i].id \in ids
  OBVIOUS
<1>4. QED BY <1>1, <1>2, <1>3 DEF documents

\* A profile of a registry that loads is the one of a file.
LEMMA LoadedProfiles ==
  ASSUME NEW files, ProfileRegistry(files).loaded, NEW p \in DOMAIN ProfileRegistry(files).entries
  PROVE  \E i \in DOMAIN files :
           ValidProfile(files[i]) /\ ProfileRegistry(files).entries[p] = files[i].tools
<1> DEFINE documents == Documents(files)
           ids == {files[i].id : i \in documents}
           chosen(id) == CHOOSE i \in documents : files[i].id = id
<1>1. /\ \A i \in documents : ValidProfile(files[i])
      /\ ProfileRegistry(files).entries = [id \in ids |-> files[chosen(id)].tools]
  BY DEF ProfileRegistry, Load
<1>2. p \in ids
  BY <1>1
<1>3. chosen(p) \in documents
  BY <1>2
<1>4. documents \subseteq DOMAIN files
  BY DEF Documents
<1> HIDE DEF documents, chosen
<1>5. QED BY <1>1, <1>2, <1>3, <1>4

\* No two documents have the same id.
LEMMA AsManyAsDocuments ==
  ASSUME NEW files, IsFiniteSet(DOMAIN files), NoDuplicates(files)
  PROVE  Cardinality({files[i].id : i \in Documents(files)}) = Cardinality(Documents(files))
<1> DEFINE documents == Documents(files)
           ids == {files[i].id : i \in documents}
           f == [i \in documents |-> files[i].id]
<1>1. IsFiniteSet(documents)
  <2>1. documents \in SUBSET DOMAIN files
    BY DEF Documents
  <2>2. QED BY <2>1, FS_Subset
<1>2. \A i, j \in documents : files[i].id = files[j].id => i = j
  BY DEF NoDuplicates
<1> HIDE DEF documents
<1>3. f \in Bijection(documents, ids)
  BY <1>2 DEF Bijection, Injection, Surjection, IsInjective
<1>4. ExistsBijection(documents, ids)
  BY <1>3 DEF ExistsBijection
<1> HIDE DEF ids
<1>5. Cardinality(ids) = Cardinality(documents)
  BY <1>1, <1>4, FS_Bijection
<1>6. QED BY <1>5 DEF ids, documents

-----------------------------------------------------------------------------
(* The manager of a machine.                                               *)

\* Where each manager's program stands among the candidates.
LEMMA CandidatePlaces ==
  /\ Len(Candidates) = 5 /\ DOMAIN Candidates = 1 .. 5
  /\ Candidates[1] = "apt-get" /\ Candidates[2] = "apt" /\ Candidates[3] = "dnf"
  /\ Candidates[4] = "pacman" /\ Candidates[5] = "zypper"
<1>1. Len(Candidates) = 5
  BY DEF Candidates
<1>2. Candidates \in Seq({"apt-get", "apt", "dnf", "pacman", "zypper"})
  BY DEF Candidates
<1>3. DOMAIN Candidates = 1 .. 5
  BY <1>1, <1>2
<1>4. /\ Candidates[1] = "apt-get" /\ Candidates[2] = "apt" /\ Candidates[3] = "dnf"
      /\ Candidates[4] = "pacman" /\ Candidates[5] = "zypper"
  BY DEF Candidates
<1>5. QED BY <1>1, <1>3, <1>4

PlaceOf(manager) == CHOOSE i \in DOMAIN Candidates : Candidates[i] = ProgramOf(manager)

\* The order in which the detector looks for the managers' programs.
LEMMA PlacesOfManagers ==
  PlaceOf("APT") = 1 /\ PlaceOf("DNF") = 3 /\ PlaceOf("PACMAN") = 4 /\ PlaceOf("ZYPPER") = 5
<1>1. ASSUME NEW manager, NEW n \in 1 .. 5, Candidates[n] = ProgramOf(manager),
             \A i \in 1 .. 5 : Candidates[i] = Candidates[n] => i = n
      PROVE  PlaceOf(manager) = n
  BY <1>1, CandidatePlaces DEF PlaceOf
<1>2. \A i \in 1 .. 5 : i = 1 \/ i = 2 \/ i = 3 \/ i = 4 \/ i = 5
  OBVIOUS
<1>3. \A i, n \in 1 .. 5 : Candidates[i] = Candidates[n] => i = n
  BY <1>2, CandidatePlaces
<1>4. /\ ProgramOf("APT") = Candidates[1] /\ ProgramOf("DNF") = Candidates[3]
      /\ ProgramOf("PACMAN") = Candidates[4] /\ ProgramOf("ZYPPER") = Candidates[5]
  BY CandidatePlaces DEF ProgramOf
<1>5. 1 \in 1 .. 5 /\ 3 \in 1 .. 5 /\ 4 \in 1 .. 5 /\ 5 \in 1 .. 5
  OBVIOUS
<1>6. QED BY <1>1, <1>3, <1>4, <1>5

\* It is the one of the first candidate that is there.
LEMMA DetectedManager ==
  ASSUME NEW machine, DetectManager(machine) # "UNKNOWN"
  PROVE  \E i \in 1 .. 5 :
           /\ DetectManager(machine) = ManagerOfProgram(Candidates[i])
           /\ Candidates[i] \in machine.programs
           /\ \A j \in 1 .. 5 : Candidates[j] \in machine.programs => i <= j
<1> DEFINE there == {i \in 1 .. 5 : Candidates[i] \in machine.programs}
           found == SelectInSeq(Candidates, LAMBDA c : c \in machine.programs)
<1>1. found = IF there # {} THEN Min(there) ELSE 0
  BY CandidatePlaces DEF SelectInSeq
<1>2. DetectManager(machine) = IF found = 0 THEN "UNKNOWN" ELSE ManagerOfProgram(Candidates[found])
  BY DEF DetectManager
<1> HIDE DEF found
<1>3. there # {} /\ found = Min(there) /\ DetectManager(machine) = ManagerOfProgram(Candidates[found])
  BY <1>1, <1>2
<1>4. Min(there) \in there /\ \A j \in there : Min(there) <= j
  <2>1. there \in SUBSET Nat
    OBVIOUS
  <2> HIDE DEF there
  <2>2. \E i \in there : \A j \in there : i <= j
    BY <1>3, <2>1, LeastNatural
  <2>3. QED BY <2>2 DEF Min
<1>5. QED BY <1>3, <1>4

\* Every planned action is one of the manager that was detected.
LEMMA PlannedWithTheManager ==
  ASSUME NEW tool \in Tools, NEW system, NEW package, NEW a \in Planned(tool, system, package)
  PROVE  a.manager = system.manager /\ a.manager \in Native
<1>1. ToSet(tool.strategies) \subseteq DOMAIN tool.mappings /\ tool.strategies \in Seq(KnownStrategy)
  BY ToolsAssumption
<1>2. CASE a \in Installs(tool, system, package)
  <2> DEFINE s == ResolveStrategy(tool, system)
  <2>1. s \in Native /\ a.manager = ManagerOf(s)
    BY <1>2 DEF Installs, PlansInstall
  <2>2. s \in Native => s = system.manager
    <3>1. "none" \notin Native
      BY DEF Native
    <3>2. QED BY <1>1, <3>1, ResolvedStrategy
  <2> HIDE DEF s
  <2>3. QED BY <2>1, <2>2, ManagerOfNative
<1>3. CASE a \in Upgrades(system)
  BY <1>3 DEF Upgrades
<1>4. CASE a \in Repairs(system)
  BY <1>4 DEF Repairs, Native
<1>5. QED BY <1>2, <1>3, <1>4 DEF Planned

-----------------------------------------------------------------------------
(* The recommended profile.                                                *)

\* Multiplication keeps the order.
LEMMA TimesIsMonotonic ==
  ASSUME NEW x \in Nat, NEW y \in Nat, NEW k \in Nat \ {0}
  PROVE  (x < y => x * k < y * k) /\ (x <= y => x * k <= y * k)
<1>1. ASSUME x <= y PROVE x * k <= y * k
  <2>1. PICK d \in Nat : y = x + d
    <3>1. y - x \in Nat /\ y = x + (y - x)
      BY <1>1
    <3>2. QED BY <3>1
  <2>2. y * k = x * k + d * k /\ d * k \in Nat /\ x * k \in Nat
    BY <2>1
  <2>3. QED BY <2>2
<1>2. ASSUME x < y PROVE x * k < y * k
  <2>1. PICK d \in Nat : y = x + 1 + d
    <3>1. y - x - 1 \in Nat /\ y = x + 1 + (y - x - 1)
      BY <1>2
    <3>2. QED BY <3>1
  <2>2. y * k = x * k + k + d * k /\ d * k \in Nat /\ x * k \in Nat
    BY <2>1
  <2>3. QED BY <2>2
<1>3. QED BY <1>1, <1>2

\* Shares are compared without dividing: a of p is above b of q, and that is
\* not below d of r.
LEMMA LargerShare ==
  ASSUME NEW a \in Nat, NEW b \in Nat, NEW d \in Nat,
         NEW p \in Nat \ {0}, NEW q \in Nat \ {0}, NEW r \in Nat \ {0},
         a * q > b * p, b * r >= d * q
  PROVE  a * r > d * p
<1>1. a * q \in Nat /\ b * p \in Nat /\ b * r \in Nat /\ d * q \in Nat /\ a * r \in Nat /\ d * p \in Nat
  OBVIOUS
<1>2. (b * p) * r < (a * q) * r
  BY <1>1, TimesIsMonotonic
<1>3. (d * q) * p <= (b * r) * p
  BY <1>1, TimesIsMonotonic
<1>4. (b * p) * r = (b * r) * p /\ (a * q) * r = (a * r) * q /\ (d * q) * p = (d * p) * q
  OBVIOUS
<1>5. (d * p) * q < (a * r) * q
  <2>1. (b * p) * r \in Nat /\ (a * q) * r \in Nat /\ (d * q) * p \in Nat
    BY <1>1
  <2>2. QED BY <1>2, <1>3, <1>4, <2>1
<1>6. a * r <= d * p => (a * r) * q <= (d * p) * q
  BY <1>1, TimesIsMonotonic
<1>7. (d * p) * q \in Nat /\ (a * r) * q \in Nat
  BY <1>1
<1>8. QED BY <1>1, <1>5, <1>6, <1>7

\* A profile's number of installed tools is a natural number.
LEMMA CountType ==
  ASSUME NEW diff, NEW n \in Nat, DOMAIN diff = 1 .. n
  PROVE  Count(diff, "INSTALLED") \in Nat
<1> DEFINE counted == {i \in DOMAIN diff : diff[i] = "INSTALLED"}
<1>1. counted \in SUBSET (1 .. n)
  OBVIOUS
<1>2. IsFiniteSet(1 .. n)
  BY FS_Interval
<1> HIDE DEF counted
<1>3. Cardinality(counted) \in Nat
  BY <1>1, <1>2, FS_Subset, FS_CardinalityType
<1>4. QED BY <1>3 DEF Count, counted

Installed(diffs, i) == Count(diffs[i], "INSTALLED")

\* best has a tool installed and no lesser share than the first n profiles, a
\* larger one than those before it; or none of them has a tool installed.
BestShareOfFirst(n, best, diffs) ==
  /\ best \in 0 .. n
  /\ best = 0 => \A i \in 1 .. n : Installed(diffs, i) = 0
  /\ best # 0 =>
       /\ Installed(diffs, best) > 0
       /\ \A i \in 1 .. n :
            LET mine == Installed(diffs, best) * Len(diffs[i])
                its  == Installed(diffs, i) * Len(diffs[best])
            IN mine > its \/ (mine = its /\ best <= i)

\* One turn of the loop of best_match.
LEMMA BestShareOfNext ==
  ASSUME NEW n \in Nat, NEW diffs, NEW old, NEW new,
         \A i \in 1 .. n + 1 : Installed(diffs, i) \in Nat /\ Len(diffs[i]) \in Nat \ {0},
         BestShareOfFirst(n, old, diffs),
         new = IF Installed(diffs, n + 1) = 0 THEN old
               ELSE IF old = 0 THEN n + 1
               ELSE IF MoreInstalled(diffs[n + 1], diffs[old]) THEN n + 1
               ELSE old
  PROVE  BestShareOfFirst(n + 1, new, diffs)
<1> DEFINE c(i) == Installed(diffs, i)
           L(i) == Len(diffs[i])
<1>1. \A i \in 1 .. n + 1 : c(i) \in Nat /\ L(i) \in Nat \ {0}
  OBVIOUS
<1>2. /\ old \in 0 .. n
      /\ old = 0 => \A i \in 1 .. n : c(i) = 0
      /\ old # 0 => c(old) > 0
      /\ old # 0 => \A i \in 1 .. n : c(old) * L(i) > c(i) * L(old) \/ (c(old) * L(i) = c(i) * L(old) /\ old <= i)
  BY DEF BestShareOfFirst
<1>3. old # 0 => (MoreInstalled(diffs[n + 1], diffs[old]) <=> c(n + 1) * L(old) > c(old) * L(n + 1))
  BY DEF MoreInstalled, Installed
<1>4. /\ n + 1 \in 1 .. n + 1 /\ (old # 0 => old \in 1 .. n + 1)
      /\ \A i \in 1 .. n + 1 : i \in 1 .. n \/ i = n + 1
      /\ \A i \in 1 .. n : i \in 1 .. n + 1
  BY <1>2
<1>5. SUFFICES /\ new \in 0 .. n + 1
               /\ new = 0 => \A i \in 1 .. n + 1 : c(i) = 0
               /\ new # 0 => c(new) > 0
               /\ new # 0 => \A i \in 1 .. n + 1 : c(new) * L(i) > c(i) * L(new) \/ (c(new) * L(i) = c(i) * L(new) /\ new <= i)
  BY DEF BestShareOfFirst
<1>6. /\ new = IF c(n + 1) = 0 THEN old
               ELSE IF old = 0 THEN n + 1
               ELSE IF c(n + 1) * L(old) > c(old) * L(n + 1) THEN n + 1
               ELSE old
  BY <1>3
<1>7. \A i, j \in 1 .. n + 1 : c(i) * L(j) \in Nat
  BY <1>1
<1> HIDE DEF c, L
<1>8. CASE old = 0
  <2>1. CASE c(n + 1) = 0
    BY <1>2, <1>4, <1>6, <1>8, <2>1
  <2>2. CASE c(n + 1) # 0
    <3>1. new = n + 1 /\ c(new) > 0
      BY <1>1, <1>4, <1>6, <1>8, <2>2
    <3>2. ASSUME NEW i \in 1 .. n PROVE c(new) * L(i) > c(i) * L(new)
      <4>1. c(i) = 0 /\ c(new) \in Nat \ {0} /\ L(i) \in Nat \ {0} /\ L(new) \in Nat
        BY <1>1, <1>2, <1>4, <1>8, <3>1
      <4>2. c(new) * L(i) > 0 /\ c(i) * L(new) = 0
        BY <4>1
      <4>3. QED BY <4>2
    <3>3. QED BY <1>4, <3>1, <3>2
  <2>3. QED BY <2>1, <2>2
<1>9. CASE old # 0 /\ new = old
  <2>1. c(n + 1) = 0 \/ ~(c(n + 1) * L(old) > c(old) * L(n + 1))
    BY <1>2, <1>6, <1>9
  <2>2. c(old) * L(n + 1) >= c(n + 1) * L(old)
    <3>1. CASE c(n + 1) = 0
      <4>1. c(n + 1) * L(old) = 0
        BY <1>1, <1>4, <1>9, <3>1
      <4>2. QED BY <1>4, <1>7, <1>9, <4>1
    <3>2. CASE ~(c(n + 1) * L(old) > c(old) * L(n + 1))
      BY <1>4, <1>7, <1>9, <3>2
    <3>3. QED BY <2>1, <3>1, <3>2
  <2>3. old <= n + 1 /\ new \in 0 .. n + 1
    BY <1>2, <1>9
  <2>4. c(new) * L(n + 1) > c(n + 1) * L(new) \/ (c(new) * L(n + 1) = c(n + 1) * L(new) /\ new <= n + 1)
    BY <1>4, <1>7, <1>9, <2>2, <2>3
  <2>5. QED BY <1>2, <1>4, <1>9, <2>3, <2>4
<1>10. CASE old # 0 /\ new # old
  <2>1. new = n + 1 /\ c(n + 1) # 0 /\ c(n + 1) * L(old) > c(old) * L(n + 1)
    BY <1>6, <1>10
  <2>2. c(new) > 0
    BY <1>1, <1>4, <2>1
  <2>3. ASSUME NEW i \in 1 .. n PROVE c(new) * L(i) > c(i) * L(new)
    <3>1. /\ c(new) \in Nat /\ c(old) \in Nat /\ c(i) \in Nat
          /\ L(new) \in Nat \ {0} /\ L(old) \in Nat \ {0} /\ L(i) \in Nat \ {0}
      BY <1>1, <1>4, <1>10, <2>1
    <3>2. c(old) * L(i) >= c(i) * L(old)
      <4>1. c(old) * L(i) \in Nat /\ c(i) * L(old) \in Nat
        BY <1>4, <1>7, <1>10
      <4>2. QED BY <1>2, <1>10, <4>1
    <3>3. QED BY <2>1, <3>1, <3>2, LargerShare
  <2>4. QED BY <1>4, <1>7, <2>1, <2>2, <2>3
<1>11. QED BY <1>8, <1>9, <1>10

\* The loop over the profiles keeps the best so far.
LEMMA BestMatchIsBestOfAll ==
  ASSUME NEW N \in Nat, NEW diffs, DOMAIN diffs = 1 .. N,
         \A i \in 1 .. N : Installed(diffs, i) \in Nat /\ Len(diffs[i]) \in Nat \ {0}
  PROVE  BestShareOfFirst(N, BestMatch(diffs), diffs)
<1> DEFINE V == 0 .. N
           better(best, i) == IF Count(diffs[i], "INSTALLED") = 0 THEN best
                              ELSE IF best = 0 THEN i
                              ELSE IF MoreInstalled(diffs[i], diffs[best]) THEN i
                              ELSE best
           step == [i \in 1 .. N |-> [best \in V |-> better(best, i)]]
           body(iter) == [s \in SUBSET (1 .. N) |->
                            IF s = {} THEN 0 ELSE better(iter[s \ {Max(s)}], Max(s))]
           places == [i \in 1 .. N |-> i]
           bodyOfPlaces(iter) == [s \in SUBSET (1 .. N) |->
                            IF s = {} THEN 0 ELSE better(iter[s \ {Max(s)}], places[Max(s)])]
           iter == CHOOSE iter : iter = bodyOfPlaces(iter)
<1>1. DOMAIN places = 1 .. N /\ \A i \in 1 .. N : places[i] = i
  OBVIOUS
<1>2. BestMatch(diffs) = iter[1 .. N]
  BY <1>1 DEF BestMatch, FoldLeft, MapThenFoldSet
<1> HIDE DEF places
<1>3. 0 \in V /\ \A i \in 1 .. N, best \in V : step[i][best] = better(best, i) /\ step[i][best] \in V
  OBVIOUS
<1>4. PICK some : Folds(some, N, V, 0, step)
  <2> HIDE DEF step, V
  <2>1. QED BY <1>3, FoldsExist
<1>5. \A s \in SUBSET (1 .. N) : s # {} => Max(s) \in 1 .. N /\ places[Max(s)] = Max(s)
  BY <1>1, GreatestPlace
<1>6. some = bodyOfPlaces(some)
  <2>1. some \in [SUBSET (1 .. N) -> V]
    BY <1>4 DEF Folds
  <2>2. ASSUME NEW s \in SUBSET (1 .. N)
        PROVE  some[s] = IF s = {} THEN 0 ELSE better(some[s \ {Max(s)}], places[Max(s)])
    <3>1. some[s \ {Max(s)}] \in V
      BY <2>1
    <3>2. some[s] = IF s = {} THEN 0 ELSE step[Max(s)][some[s \ {Max(s)}]]
      BY <1>4 DEF Folds
    <3> HIDE DEF step, V, better
    <3>3. QED BY <1>3, <1>5, <3>1, <3>2
  <2> HIDE DEF V, better
  <2>3. QED BY <2>1, <2>2
<1>7. iter = bodyOfPlaces(iter)
  <2> HIDE DEF bodyOfPlaces
  <2>1. QED BY <1>6
<1> HIDE DEF iter
<1>8. \A s \in SUBSET (1 .. N) :
        iter[s] = IF s = {} THEN 0 ELSE better(iter[s \ {Max(s)}], Max(s))
  <2> HIDE DEF better
  <2>1. QED BY <1>5, <1>7
<1> DEFINE right == {n \in 0 .. N : BestShareOfFirst(n, iter[1 .. n], diffs)}
<1>9. 0 \in right
  <2>1. 1 .. 0 = {} /\ 1 .. 0 \in SUBSET (1 .. N)
    OBVIOUS
  <2>2. iter[1 .. 0] = 0
    BY <1>8, <2>1
  <2>3. BestShareOfFirst(0, iter[1 .. 0], diffs)
    BY <2>1, <2>2 DEF BestShareOfFirst
  <2>4. QED BY <2>3
<1>10. ASSUME NEW n \in 0 .. N - 1, BestShareOfFirst(n, iter[1 .. n], diffs)
       PROVE  BestShareOfFirst(n + 1, iter[1 .. n + 1], diffs)
  <2>1. n \in Nat /\ n + 1 \in 1 .. N /\ n + 1 \in Nat \ {0} /\ n + 1 \in 1 .. n + 1
    OBVIOUS
  <2>2. (1 .. n + 1) \ {n + 1} = 1 .. n
    BY <2>1
  <2>3. 1 .. n + 1 \in SUBSET (1 .. N)
    BY <2>1
  <2>4. Max(1 .. n + 1) = n + 1
    BY <2>1, GreatestOfInterval
  <2>5. iter[1 .. n + 1] = better(iter[1 .. n], n + 1)
    <3> HIDE DEF better
    <3>1. QED BY <1>8, <2>1, <2>2, <2>3, <2>4
  <2>6. \A i \in 1 .. n + 1 : Installed(diffs, i) \in Nat /\ Len(diffs[i]) \in Nat \ {0}
    BY <2>1
  <2>7. QED BY <1>10, <2>1, <2>5, <2>6, BestShareOfNext DEF Installed
<1>11. N \in right
  <2>1. \A n \in 0 .. N - 1 : n \in right => n + 1 \in right
    BY <1>10
  <2> HIDE DEF right
  <2>2. 0 .. N \subseteq right
    BY <1>9, <2>1, Induction
  <2>3. QED BY <2>2
<1>12. QED BY <1>2, <1>11

-----------------------------------------------------------------------------
(* The thresholds of the configuration.                                    *)

\* A usage of the disk reaches the thresholds in their order.
LEMMA CountReached ==
  ASSUME NEW t \in [Threshold -> Int], Ordered(t), NEW used \in 0 .. 100
  PROVE  Cardinality({k \in Threshold : t[k] <= used})
           = IF used < t["warning"] THEN 0 ELSE IF used < t["high"] THEN 1
             ELSE IF used < t["critical"] THEN 2 ELSE 3
<1> DEFINE reached == {k \in Threshold : t[k] <= used}
<1>1. t["warning"] \in Int /\ t["high"] \in Int /\ t["critical"] \in Int /\ used \in Int
      /\ t["warning"] < t["high"] /\ t["high"] < t["critical"]
  BY DEF Threshold, Ordered
<1>2. /\ Cardinality({}) = 0 /\ Cardinality({"warning"}) = 1
      /\ Cardinality({"warning", "high"}) = 2 /\ Cardinality({"warning", "high", "critical"}) = 3
  <2>1. Cardinality({}) = 0 /\ IsFiniteSet({})
    BY FS_EmptySet
  <2>2. {"warning"} = {} \cup {"warning"} /\ {"warning", "high"} = {"warning"} \cup {"high"}
        /\ {"warning", "high", "critical"} = {"warning", "high"} \cup {"critical"}
    OBVIOUS
  <2>3. Cardinality({"warning"}) = 1 /\ IsFiniteSet({"warning"})
    BY FS_Singleton
  <2>4. Cardinality({"warning", "high"}) = 2 /\ IsFiniteSet({"warning", "high"})
    BY <2>2, <2>3, FS_AddElement
  <2>5. Cardinality({"warning", "high", "critical"}) = 3
    BY <2>2, <2>4, FS_AddElement
  <2>6. QED BY <2>1, <2>3, <2>4, <2>5
<1>3. CASE used < t["warning"]
  <2>1. reached = {} BY <1>1, <1>3 DEF Threshold
  <2>2. Cardinality(reached) = 0 BY <1>2, <2>1
  <2>3. QED BY <1>1, <1>3, <2>2
<1>4. CASE t["warning"] <= used /\ used < t["high"]
  <2>1. reached = {"warning"} BY <1>1, <1>4 DEF Threshold
  <2>2. Cardinality(reached) = 1 BY <1>2, <2>1
  <2>3. QED BY <1>1, <1>4, <2>2
<1>5. CASE t["high"] <= used /\ used < t["critical"]
  <2>1. reached = {"warning", "high"} BY <1>1, <1>5 DEF Threshold
  <2>2. Cardinality(reached) = 2 BY <1>2, <2>1
  <2>3. QED BY <1>1, <1>5, <2>2
<1>6. CASE t["critical"] <= used
  <2>1. reached = {"warning", "high", "critical"} BY <1>1, <1>6 DEF Threshold
  <2>2. Cardinality(reached) = 3 BY <1>2, <2>1
  <2>3. QED BY <1>1, <1>6, <2>2
<1>7. QED BY <1>1, <1>3, <1>4, <1>5, <1>6

\* Thresholds of an accepted configuration are numbers in their order: those
\* of the file where it has them, and defaults.
LEMMA AcceptedIsOrdered ==
  ASSUME NEW file \in ConfigFiles, LoadConfig(file).kind = "config"
  PROVE  LET given == IF file.kind = "table" THEN file.thresholds ELSE << >>
             in == LoadConfig(file).thresholds
         IN /\ in \in [Threshold -> Int] /\ Ordered(in)
            /\ \A k \in Threshold :
                 in[k] = IF k \in DOMAIN given THEN given[k].value ELSE DefaultThreshold[k]
<1>1. DefaultThreshold \in [Threshold -> Int] /\ Ordered(DefaultThreshold)
  BY DEF DefaultThreshold, Threshold, Ordered
<1>2. CASE file.kind = "absent"
  BY <1>1, <1>2 DEF LoadConfig, Config
<1>3. CASE file.kind = "table"
  <2>1. LoadConfig(file) = BuildConfig(file)
    BY <1>3 DEF LoadConfig
  <2>2. /\ BuildConfig(file).thresholds = MergedThresholds(file.thresholds)
        /\ Ordered(MergedThresholds(file.thresholds))
        /\ \A k \in DOMAIN file.thresholds : file.thresholds[k].number
    BY <2>1 DEF BuildConfig, Config, Rejected
  <2>3. \A k \in DOMAIN file.thresholds : file.thresholds[k].value \in Int
    BY <1>3, <2>2, ConfigFilesAssumption
  <2>4. MergedThresholds(file.thresholds) \in [Threshold -> Int]
    BY <1>1, <2>3 DEF MergedThresholds
  <2>5. QED BY <1>3, <2>1, <2>2, <2>4 DEF MergedThresholds
<1>4. CASE file.kind \in {"unreadable", "broken", "undecodable"}
  <2>1. LoadConfig(file) \in {Rejected, Uncaught}
    BY <1>4 DEF LoadConfig
  <2>2. QED BY <2>1 DEF Rejected, Uncaught
<1>5. QED BY <1>2, <1>3, <1>4, ConfigFilesAssumption

\* The severity of one disk counts the thresholds it has reached.
LEMMA SeverityOfThresholds ==
  ASSUME NEW t \in [Threshold -> Int], Ordered(t), NEW used \in 0 .. 100
  PROVE  Doctor(t["warning"], t["high"], t["critical"])!DiskSeverity({used})
           = <<"OK", "WARNING", "ERROR", "CRITICAL">>
               [Cardinality({k \in Threshold : t[k] <= used}) + 1]
<1>1. t["warning"] \in Int /\ t["high"] \in Int /\ t["critical"] \in Int
      /\ t["warning"] < t["high"] /\ t["high"] < t["critical"]
  BY DEF Threshold, Ordered
<1>2. Doctor(t["warning"], t["high"], t["critical"])!DiskSeverity({used})
        = IF used >= t["critical"] THEN "CRITICAL" ELSE IF used >= t["high"] THEN "ERROR"
          ELSE IF used >= t["warning"] THEN "WARNING" ELSE "OK"
  BY DEF Doctor!DiskSeverity, Doctor!Reaches, Doctor!OrWarning
<1>3. Cardinality({k \in Threshold : t[k] <= used})
        = IF used < t["warning"] THEN 0 ELSE IF used < t["high"] THEN 1
          ELSE IF used < t["critical"] THEN 2 ELSE 3
  BY CountReached
<1> DEFINE names == <<"OK", "WARNING", "ERROR", "CRITICAL">>
<1>4. names[1] = "OK" /\ names[2] = "WARNING" /\ names[3] = "ERROR" /\ names[4] = "CRITICAL"
  OBVIOUS
<1> DEFINE n == Cardinality({k \in Threshold : t[k] <= used})
<1>5. names[n + 1] = IF used < t["warning"] THEN "OK" ELSE IF used < t["high"] THEN "WARNING"
                     ELSE IF used < t["critical"] THEN "ERROR" ELSE "CRITICAL"
  <2> HIDE DEF names, n
  <2>1. n = IF used < t["warning"] THEN 0 ELSE IF used < t["high"] THEN 1
            ELSE IF used < t["critical"] THEN 2 ELSE 3
    BY <1>3 DEF n
  <2>2. QED BY <1>1, <1>4, <2>1
<1>6. names[n + 1] = IF used >= t["critical"] THEN "CRITICAL" ELSE IF used >= t["high"] THEN "ERROR"
                     ELSE IF used >= t["warning"] THEN "WARNING" ELSE "OK"
  <2> HIDE DEF names, n
  <2>1. QED BY <1>1, <1>5
<1>7. QED BY <1>2, <1>6

-----------------------------------------------------------------------------
\* What is asked stays a question of its kind about inputs there may be.
Question ==
  \/ question \in VersionQuestions
  \/ question \in ChoiceQuestions
  \/ question \in ProfileQuestions
  \/ question \in RegistryQuestions
  \/ question \in MachineQuestions
  \/ question \in ConfigQuestions

\* What a question is about tells what it holds.
LEMMA QuestionFields ==
  ASSUME Question
  PROVE  /\ question.about \in {"versions", "choice", "profiles", "registries", "machine", "configuration"}
         /\ question.about = "versions" => question \in VersionQuestions
         /\ question.about = "choice" => question \in ChoiceQuestions
         /\ question.about = "profiles" => question \in ProfileQuestions
         /\ question.about = "registries" => question \in RegistryQuestions
         /\ question.about = "machine" => question \in MachineQuestions
         /\ question.about = "configuration" => question \in ConfigQuestions
BY DEF Question, VersionQuestions, ChoiceQuestions, ProfileQuestions, RegistryQuestions,
       MachineQuestions, ConfigQuestions

\* Every question comes from the constants.
LEMMA QuestionInvariant == CatalogSpec => []Question
<1>1. Question /\ [AskAgain]_question => Question'
  <2> SUFFICES ASSUME Question, AskAgain PROVE Question'
    BY DEF Question
  <2>1. CASE question.about = "versions"
    BY <2>1, QuestionFields DEF Question, AskAgain, VersionQuestions
  <2>2. CASE question.about = "choice"
    BY <2>2, QuestionFields DEF Question, AskAgain, ChoiceQuestions
  <2>3. CASE question.about = "profiles"
    BY <2>3, QuestionFields DEF Question, AskAgain, ProfileQuestions
  <2>4. CASE question.about = "registries"
    BY <2>4, QuestionFields DEF Question, AskAgain, RegistryQuestions
  <2>5. CASE question.about = "machine"
    BY <2>5, QuestionFields DEF Question, AskAgain, MachineQuestions
  <2>6. CASE question.about = "configuration"
    BY <2>6, QuestionFields DEF Question, AskAgain, ConfigQuestions
  <2>7. QED BY <2>1, <2>2, <2>3, <2>4, <2>5, <2>6, QuestionFields
<1>2. QED BY <1>1, PTL DEF CatalogSpec, Question

\* For versions of any length and any numbers, below any base: compare_versions
\* answers the sign of the difference of what they stand for in that base.
THEOREM ComparesByValueSound == CatalogSpec => []ComparesByValue
<1>1. Question => ComparesByValue
  <2> SUFFICES ASSUME Question, question.about = "versions", Conclusive(question.a, question.b)
               PROVE  ComparesByValue
    BY DEF ComparesByValue
  <2>1. question.a \in BoundedVersion /\ question.b \in BoundedVersion
    BY QuestionFields, VersionsAssumption DEF VersionQuestions
  <2>2. QED BY <2>1, CompareIsValue DEF ComparesByValue
<1>2. QED BY <1>1, QuestionInvariant, PTL

\* For any tools of known strategies with their packages and any systems: an
\* install is planned exactly where the system's own manager is declared, is
\* executed with that manager, and `tool info` agrees with the plan.
THEOREM NativePreferredSound == CatalogSpec => []NativePreferred
<1>1. Question => NativePreferred
  <2> SUFFICES ASSUME Question, question.about = "choice" PROVE NativePreferred
    BY DEF NativePreferred
  <2> DEFINE tool == question.tool
             system == question.system
             s == ResolveStrategy(tool, system)
             declared == ToSet(tool.strategies)
             usable == {d \in declared : d \in Native => d = system.manager}
  <2>1. tool \in Tools /\ system \in Systems
    BY QuestionFields DEF ChoiceQuestions
  <2>2. /\ tool.strategies \in Seq(KnownStrategy) /\ declared \subseteq DOMAIN tool.mappings
        /\ system.manager \in Native \cup {"UNKNOWN"}
    BY <2>1, ToolsAssumption, SystemsAssumption
  <2>3. declared \subseteq KnownStrategy
    BY <2>2 DEF ToSet
  <2>4. /\ s = "none" \/ s \in usable
        /\ \A d \in usable : s # "none" /\ TrustRank(s) <= TrustRank(d)
    BY <2>2, ResolvedStrategy
  <2>5. AssessCompatibility(tool, system) = "UNSUPPORTED" <=>
          \/ s = "none"
          \/ tool.architectures # {} /\ system.architecture \notin tool.architectures
    BY DEF AssessCompatibility
  <2>6. PlansInstall(tool, system, question.package) => s \in Native
    BY DEF PlansInstall
  <2> HIDE DEF s, declared, tool, system
  <2>7. "none" \notin KnownStrategy /\ "none" \notin Native /\ "UNKNOWN" \notin Native
    BY DEF KnownStrategy, Native, Secondary, Ecosystem
  <2>8. s \in Native <=> system.manager \in Native \cap declared
    <3>1. ASSUME s \in Native PROVE system.manager \in Native \cap declared
      BY <2>4, <2>7, <3>1
    <3>2. ASSUME system.manager \in Native \cap declared PROVE s \in Native
      <4>1. system.manager \in usable
        BY <3>2
      <4>2. s # "none" /\ TrustRank(s) <= TrustRank(system.manager)
        BY <2>4, <4>1
      <4>3. s \in KnownStrategy /\ system.manager \in KnownStrategy
        BY <2>3, <2>4, <3>2, <4>2
      <4>4. TrustRank(system.manager) = 1 /\ TrustRank(s) \in 1 .. 4 /\ (TrustRank(s) = 1 <=> s \in Native)
        BY <3>2, <4>3, TrustRanks
      <4>5. QED BY <4>2, <4>4
    <3>3. QED BY <3>1, <3>2
  <2>9. s \in Native => ManagerOf(s) = system.manager
    BY <2>4, <2>7, ManagerOfNative
  <2>10. \A d \in declared \ Native : s = "none" \/ TrustRank(s) <= TrustRank(d)
    BY <2>4
  <2>11. s = "none" => declared \subseteq Native
    BY <2>4
  <2>12. s = "none" <=> declared \subseteq Native \ {system.manager}
    BY <2>3, <2>4, <2>7
  <2>13. QED
    BY <2>5, <2>6, <2>8, <2>9, <2>10, <2>11, <2>12 DEF NativePreferred, s, declared, tool, system
<1>2. QED BY <1>1, QuestionInvariant, PTL

\* For any version a manager may report and any minimum without an epoch: what
\* is at or above its minimum is never planned again.
THEOREM MinimumIsEnoughSound == CatalogSpec => []MinimumIsEnough
<1>1. Question => MinimumIsEnough
  <2> DEFINE k == question.package
             minimum == question.tool.minimum
  <2> SUFFICES ASSUME Question, question.about = "choice", k.installed,
                      k.version.epoch = NoEpoch, minimum.epoch = NoEpoch,
                      Value(k.version.numbers) >= Value(minimum.numbers)
               PROVE  ~PlansInstall(question.tool, question.system, k)
    BY DEF MinimumIsEnough
  <2>1. k.version \in BoundedVersion /\ minimum \in BoundedVersion
    BY QuestionFields, VersionsAssumption DEF ChoiceQuestions
  <2>2. ParseVersion(k.version) = k.version.numbers /\ ParseVersion(minimum) = minimum.numbers
    BY DEF ParseVersion
  <2>3. Value(ParseVersion(k.version)) \in Nat /\ Value(ParseVersion(minimum)) \in Nat
    BY <2>1, ParsedBounds, ValueType
  <2>4. ~BelowMinimum(k.version, minimum)
    BY <2>1, <2>2, <2>3, BelowIsLess
  <2>5. QED BY <2>4 DEF PlansInstall, NotBelowMinimum
<1>2. QED BY <1>1, QuestionInvariant, PTL

\* Whatever the version commands print, for any profiles and definitions: a
\* mismatch is reported exactly for a version known and below the recommended.
THEOREM MismatchesAreRealSound == CatalogSpec => []MismatchesAreReal
<1>1. Question => MismatchesAreReal
  <2> SUFFICES ASSUME Question, question.about = "profiles",
                      NEW i \in DOMAIN question.profiles, NEW j \in DOMAIN question.profiles[i]
               PROVE  LET tools == question.profiles[i]
                          diff == ProfileDiff(tools, Definitions, Verified(question.commands))
                          command(t) == question.commands[t]
                      IN diff[j] = "VERSION_MISMATCH" <=>
                           /\ tools[j] \in DOMAIN Definitions
                           /\ command(tools[j]).exit = "ran" /\ command(tools[j]).printed # None
                           /\ Value(ParseVersion(command(tools[j]).printed))
                                < Value(ParseVersion(Definitions[tools[j]].recommended))
    BY DEF MismatchesAreReal
  <2> DEFINE t == question.profiles[i][j]
             command == question.commands[t]
             verified == Verified(question.commands)
             recommended == Definitions[t].recommended
             a == Value(ParseVersion(command.printed))
             b == Value(ParseVersion(recommended))
  <2>1. question.commands \in [DOMAIN Definitions -> Commands]
    BY QuestionFields DEF ProfileQuestions
  <2>2. ProfileDiff(question.profiles[i], Definitions, verified)[j] = Status(t, Definitions, verified)
    BY DEF ProfileDiff
  <2>3. CASE t \notin DOMAIN Definitions
    BY <2>2, <2>3 DEF Status
  <2>4. CASE t \in DOMAIN Definitions
    <3>1. /\ verified[t] = Verify(command)
          /\ command.printed \in BoundedVersion /\ recommended \in BoundedVersion
      BY <2>1, <2>4, VersionsAssumption DEF Verified
    <3>2. Status(t, Definitions, verified) = "VERSION_MISMATCH" <=>
            verified[t].found /\ Mismatch(verified[t], Definitions[t])
      BY <2>4 DEF Status
    <3>3. /\ verified[t].found <=> command.exit = "ran"
          /\ command.exit = "ran" => verified[t].version = command.printed
      <4>1. /\ Verify(command).found <=> command.exit = "ran"
            /\ command.exit = "ran" => Verify(command).version = command.printed
        BY DEF Verify
      <4> HIDE DEF command, verified
      <4>2. QED BY <3>1, <4>1, Zenon
    <3>4. BelowMinimum(command.printed, recommended) <=> Conclusive(command.printed, recommended) /\ a < b
      BY <3>1, BelowIsLess
    <3>5. /\ a \in Nat /\ b \in Nat
          /\ recommended = None => ~(a < b)
          /\ ParseVersion(recommended) = << >> => recommended = None
          /\ ParseVersion(command.printed) = << >> <=> command.printed = None
      <4>1. ParseVersion(None) = << >>
        BY DEF ParseVersion, None, NoEpoch
      <4>2. QED BY <3>1, <4>1, ParsedBounds, ValueType, UnreadIsNone, NothingIsLess
    <3> HIDE DEF a, b, command, recommended
    <3>6. Mismatch(verified[t], Definitions[t]) <=>
            recommended # None /\ BelowMinimum(verified[t].version, recommended)
      BY DEF Mismatch, recommended
    <3>7. Status(t, Definitions, verified) = "VERSION_MISMATCH" <=>
            command.exit = "ran" /\ command.printed # None /\ a < b
      BY <3>2, <3>3, <3>4, <3>5, <3>6 DEF Conclusive
    <3>8. QED BY <2>2, <2>4, <3>7 DEF a, b, command, recommended
  <2>5. QED BY <2>3, <2>4
<1>2. QED BY <1>1, QuestionInvariant, PTL

\* However many profiles of however many tools: the one recommended has the
\* largest share of its tools installed, and is the first of those that have.
THEOREM BestIsBestSound == CatalogSpec => []BestIsBest
<1>1. Question => BestIsBest
  <2> SUFFICES ASSUME Question, question.about = "profiles" PROVE BestIsBest
    BY DEF BestIsBest
  <2> DEFINE profiles == question.profiles
             N == Len(profiles)
             verified == Verified(question.commands)
             diff(i) == ProfileDiff(profiles[i], Definitions, verified)
             diffs == [i \in DOMAIN profiles |-> diff(i)]
             best == Recommend(profiles, Definitions, verified)
  <2>1. profiles \in Seq(Seq(STRING) \ {<< >>})
    BY QuestionFields, ProfileListsAssumption DEF ProfileQuestions
  <2>2. N \in Nat /\ DOMAIN profiles = 1 .. N /\ \A i \in 1 .. N : profiles[i] \in Seq(STRING) /\ profiles[i] # << >>
    BY <2>1
  <2>3. \A i \in 1 .. N : DOMAIN diff(i) = 1 .. Len(profiles[i]) /\ Len(profiles[i]) \in Nat \ {0}
    BY <2>2 DEF ProfileDiff
  <2>4. best = BestMatch(diffs)
    BY DEF Recommend
  <2> HIDE DEF profiles, N, diff, best
  <2>5. DOMAIN diffs = 1 .. N /\ \A i \in 1 .. N : diffs[i] = diff(i)
    BY <2>2
  <2>6. ASSUME NEW i \in 1 .. N
        PROVE  Installed(diffs, i) \in Nat /\ Len(diffs[i]) \in Nat \ {0}
    <3>1. DOMAIN diffs[i] = 1 .. Len(profiles[i]) /\ Len(profiles[i]) \in Nat \ {0}
      BY <2>3, <2>5
    <3> HIDE DEF diffs
    <3>2. Len(diffs[i]) = Len(profiles[i])
      BY <3>1
    <3>3. Installed(diffs, i) \in Nat
      BY <3>1, CountType DEF Installed
    <3>4. QED BY <3>1, <3>2, <3>3
  <2> HIDE DEF diffs
  <2>7. BestShareOfFirst(N, best, diffs)
    BY <2>2, <2>4, <2>5, <2>6, BestMatchIsBestOfAll
  <2> DEFINE installed(i) == Cardinality({j \in DOMAIN diff(i) : diff(i)[j] = "INSTALLED"})
  <2>8. \A i \in 1 .. N : Installed(diffs, i) = installed(i)
    BY <2>5 DEF Installed, Count
  <2> HIDE DEF installed
  <2>9. IF best = 0 THEN \A i \in 1 .. N : installed(i) = 0
        ELSE /\ installed(best) > 0
             /\ \A i \in 1 .. N :
                  LET mine == installed(best) * Len(diff(i))
                      its  == installed(i) * Len(diff(best))
                  IN mine > its \/ (mine = its /\ best <= i)
    <3>1. best # 0 => best \in 1 .. N
      BY <2>2, <2>7 DEF BestShareOfFirst
    <3>2. QED BY <2>5, <2>7, <2>8, <3>1 DEF BestShareOfFirst
  <2>10. QED BY <2>2, <2>9 DEF BestIsBest, installed, best, diff, profiles
<1>2. QED BY <1>1, QuestionInvariant, PTL

\* For any finite directory of files: a registry that loads has a usable tool
\* for every document, and profiles know exactly the tools it has.
THEOREM LoadedIsUsableSound == CatalogSpec => []LoadedIsUsable
<1>1. Question => LoadedIsUsable
  <2> DEFINE files == question.toolFiles
             tools == ToolRegistry(files)
             profiles == ProfileRegistry(question.profileFiles)
             documents == Documents(files)
             unverified == [t \in DOMAIN tools.entries |-> Verify([exit |-> "none", printed |-> None])]
             on(manager) == [manager |-> manager, family |-> "UNKNOWN", architecture |-> "any"]
  <2> SUFFICES ASSUME Question, question.about = "registries", tools.loaded PROVE LoadedIsUsable
    BY DEF LoadedIsUsable
  <2>1. files \in ToolFiles /\ question.profileFiles \in ProfileFiles
    BY QuestionFields DEF RegistryQuestions
  <2>2. /\ NoDuplicates(files)
        /\ DOMAIN tools.entries = {files[i].id : i \in documents}
        /\ \A i \in documents : ValidTool(files[i]) /\ tools.entries[files[i].id] = ParsedTool(files[i])
    BY LoadedTools
  <2>3. Cardinality(DOMAIN tools.entries) = Cardinality(documents)
    BY <2>1, <2>2, AsManyAsDocuments, ToolFilesAssumption
  <2>4. documents \subseteq DOMAIN files
    BY DEF Documents
  <2>5. ASSUME NEW i \in documents
        PROVE  LET tool == tools.entries[files[i].id]
               IN /\ \A s \in ToSet(files[i].strategies) \cap Native :
                       ResolveStrategy(tool, on(s)) = s /\ tool.mappings[s] = "package"
                  /\ files[i].minimum.text => tool.minimum = files[i].minimum.version
    <3> DEFINE tool == tools.entries[files[i].id]
               strategies == files[i].strategies
    <3>1. /\ tool = ParsedTool(files[i]) /\ strategies \in Seq(STRING)
          /\ \A s \in DOMAIN files[i].mappings : files[i].mappings[s] \in {"package", "blank"}
      BY <2>1, <2>2, <2>4, ToolFilesAssumption
    <3>2. tool.strategies = strategies /\ tool.mappings = files[i].mappings
          /\ tool.minimum = OptionalStr(files[i].minimum)
      BY <3>1 DEF ParsedTool
    <3>3. /\ ToSet(strategies) \subseteq KnownStrategy /\ ToSet(strategies) \subseteq DOMAIN tool.mappings
          /\ \A s \in DOMAIN tool.mappings : tool.mappings[s] # "blank"
      BY <2>2, <3>2 DEF ValidTool, ValidMappings
    <3>4. strategies \in Seq(KnownStrategy)
      BY <3>1, <3>3 DEF ToSet
    <3> HIDE DEF tool, strategies
    <3>5. ASSUME NEW s \in ToSet(strategies) \cap Native
          PROVE  ResolveStrategy(tool, on(s)) = s /\ tool.mappings[s] = "package"
      <4> DEFINE r == ResolveStrategy(tool, on(s))
                 usable == {d \in ToSet(strategies) : d \in Native => d = s}
      <4>1. /\ r = "none" \/ r \in usable
            /\ \A d \in usable : r # "none" /\ TrustRank(r) <= TrustRank(d)
        <5>1. on(s).manager = s
          OBVIOUS
        <5> HIDE DEF on
        <5>2. QED BY <3>2, <3>3, <3>4, <5>1, ResolvedStrategy
      <4> HIDE DEF r
      <4>2. s \in usable /\ s \in KnownStrategy
        BY DEF KnownStrategy
      <4>3. r \in usable /\ r \in KnownStrategy /\ TrustRank(r) <= TrustRank(s)
        BY <3>3, <4>1, <4>2
      <4>4. TrustRank(s) = 1 /\ TrustRank(r) \in 1 .. 4 /\ (TrustRank(r) = 1 <=> r \in Native)
        BY <4>2, <4>3, TrustRanks
      <4>5. r \in Native
        BY <4>3, <4>4
      <4>6. r = s
        BY <4>3, <4>5
      <4>7. tool.mappings[s] = "package"
        BY <3>1, <3>2, <3>3
      <4>8. QED BY <4>6, <4>7 DEF r
    <3>6. files[i].minimum.text => tool.minimum = files[i].minimum.version
      BY <3>2 DEF OptionalStr
    <3>7. QED BY <3>5, <3>6 DEF tool, strategies
  <2>6. ASSUME profiles.loaded, NEW p \in DOMAIN profiles.entries
        PROVE  LET diff == ProfileDiff(profiles.entries[p], tools.entries, unverified)
               IN /\ Len(diff) > 0
                  /\ \A j \in DOMAIN diff :
                       diff[j] = "UNKNOWN_TOOL" <=>
                         \A i \in documents : files[i].id # profiles.entries[p][j]
    <3> DEFINE ids == profiles.entries[p]
               diff == ProfileDiff(ids, tools.entries, unverified)
    <3>1. ids \in Seq(STRING) /\ ids # << >>
      <4>1. PICK i \in DOMAIN question.profileFiles :
              ValidProfile(question.profileFiles[i]) /\ ids = question.profileFiles[i].tools
        BY <2>6, LoadedProfiles
      <4>2. QED BY <2>1, <4>1, ProfileFilesAssumption DEF ValidProfile
    <3>2. diff = [j \in DOMAIN ids |-> Status(ids[j], tools.entries, unverified)]
      BY DEF ProfileDiff
    <3> HIDE DEF diff, ids
    <3>3. DOMAIN diff = 1 .. Len(ids) /\ Len(ids) \in Nat \ {0}
      BY <3>1, <3>2
    <3>4. Len(diff) = Len(ids)
      BY <3>3
    <3>5. ASSUME NEW t PROVE Status(t, tools.entries, unverified) = "UNKNOWN_TOOL" <=> t \notin DOMAIN tools.entries
      BY DEF Status
    <3>6. ASSUME NEW j \in DOMAIN diff
          PROVE  diff[j] = "UNKNOWN_TOOL" <=> \A i \in documents : files[i].id # ids[j]
      <4>1. diff[j] = Status(ids[j], tools.entries, unverified)
        BY <3>2, <3>3
      <4>2. QED BY <2>2, <3>5, <4>1
    <3>7. QED BY <3>3, <3>4, <3>6 DEF diff, ids
  <2> HIDE DEF tools, profiles, documents, files, unverified, on
  <2>7. QED BY <2>3, <2>5, <2>6 DEF LoadedIsUsable, tools, profiles, documents, files, unverified, on
<1>2. QED BY <1>1, QuestionInvariant, PTL

\* On any machine: what is planned is executed with a manager whose program is
\* there, the family's own unless an earlier candidate is there.
THEOREM ActionsAreRunnableSound == CatalogSpec => []ActionsAreRunnable
<1>1. Question => ActionsAreRunnable
  <2> SUFFICES ASSUME Question, question.about = "machine" PROVE ActionsAreRunnable
    BY DEF ActionsAreRunnable
  <2> DEFINE machine == question.machine
             system == Detect(machine)
             own == CASE system.family = "DEBIAN" -> {"APT"} [] system.family = "REDHAT" -> {"DNF"}
                      [] system.family = "ARCH" -> {"PACMAN"} [] system.family = "SUSE" -> {"ZYPPER"}
                      [] OTHER -> {}
  <2>1. question.tool \in Tools
    BY QuestionFields DEF MachineQuestions
  <2>2. own \subseteq Native
    BY DEF Native
  <2>3. system.manager = DetectManager(machine)
    BY DEF Detect
  <2> HIDE DEF own, system, machine
  <2>4. ASSUME NEW a \in Planned(question.tool, system, question.package)
        PROVE  /\ a.manager \in Native
               /\ ProgramOf(a.manager) \in machine.programs \/ "apt" \in machine.programs
               /\ \A m \in own : ProgramOf(m) \in machine.programs =>
                    a.manager = m \/ PlaceOf(a.manager) < PlaceOf(m)
    <3>1. a.manager = DetectManager(machine) /\ a.manager \in Native
      BY <2>1, <2>3, <2>4, PlannedWithTheManager
    <3>2. DetectManager(machine) # "UNKNOWN"
      BY <3>1 DEF Native
    <3>3. PICK i \in 1 .. 5 :
            /\ a.manager = ManagerOfProgram(Candidates[i])
            /\ Candidates[i] \in machine.programs
            /\ \A j \in 1 .. 5 : Candidates[j] \in machine.programs => i <= j
      BY <3>1, <3>2, DetectedManager
    <3>4. i = 1 \/ i = 2 \/ i = 3 \/ i = 4 \/ i = 5
      OBVIOUS
    <3>5. /\ ProgramOf(a.manager) = Candidates[i] \/ i = 2
          /\ PlaceOf(a.manager) = i \/ (i = 2 /\ PlaceOf(a.manager) = 1)
      BY <3>3, <3>4, CandidatePlaces, PlacesOfManagers DEF ManagerOfProgram, ProgramOf
    <3>6. ASSUME NEW m \in Native, ProgramOf(m) \in machine.programs
          PROVE  a.manager = m \/ PlaceOf(a.manager) < PlaceOf(m)
      <4>1. PlaceOf(m) \in 1 .. 5 /\ Candidates[PlaceOf(m)] = ProgramOf(m)
            /\ ManagerOfProgram(Candidates[PlaceOf(m)]) = m
        BY CandidatePlaces, PlacesOfManagers DEF Native, ProgramOf, ManagerOfProgram
      <4>2. i <= PlaceOf(m)
        BY <3>3, <3>6, <4>1
      <4>3. CASE i = PlaceOf(m)
        BY <3>3, <4>1, <4>3
      <4>4. CASE i # PlaceOf(m)
        BY <3>4, <3>5, <4>1, <4>2, <4>4
      <4>5. QED BY <4>3, <4>4
    <3>7. QED BY <2>2, <3>1, <3>3, <3>5, <3>6, CandidatePlaces
  <2>5. QED BY <2>4 DEF ActionsAreRunnable, PlaceOf, own, system, machine
<1>2. QED BY <1>1, QuestionInvariant, PTL

\* For every configuration file, whatever thresholds it sets to whatever
\* numbers: if it is accepted, `doctor` tells the levels of a full disk apart
\* exactly at the thresholds that the file sets and at the defaults of others.
THEOREM EachLevelCountsSound == CatalogSpec => []EachLevelCounts
<1>1. Question => EachLevelCounts
  <2> SUFFICES ASSUME Question, question.about = "configuration",
                      LoadConfig(question.file).kind = "config"
               PROVE  EachLevelCounts
    BY DEF EachLevelCounts
  <2> DEFINE file == question.file
             given == IF file.kind = "table" THEN file.thresholds ELSE << >>
             effective(k) == IF k \in DOMAIN given THEN given[k].value ELSE DefaultThreshold[k]
             in == LoadConfig(file).thresholds
  <2>1. file \in ConfigFiles
    BY QuestionFields DEF ConfigQuestions
  <2>2. in \in [Threshold -> Int] /\ Ordered(in) /\ \A k \in Threshold : in[k] = effective(k)
    BY <2>1, AcceptedIsOrdered
  <2>3. ASSUME NEW used \in 0 .. 100
        PROVE  Doctor(in["warning"], in["high"], in["critical"])!DiskSeverity({used})
                 = <<"OK", "WARNING", "ERROR", "CRITICAL">>
                     [Cardinality({k \in Threshold : effective(k) <= used}) + 1]
    <3>1. {k \in Threshold : in[k] <= used} = {k \in Threshold : effective(k) <= used}
      BY <2>2
    <3>2. Doctor(in["warning"], in["high"], in["critical"])!DiskSeverity({used})
            = <<"OK", "WARNING", "ERROR", "CRITICAL">>
                [Cardinality({k \in Threshold : in[k] <= used}) + 1]
      BY <2>2, SeverityOfThresholds
    <3>3. QED BY <3>1, <3>2
  <2>4. QED BY <2>3 DEF EachLevelCounts
<1>2. QED BY <1>1, QuestionInvariant, PTL
=============================================================================
