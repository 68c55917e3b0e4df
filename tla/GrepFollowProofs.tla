-------------------------- MODULE GrepFollowProofs --------------------------
(***************************************************************************)
(* grep --follow is a tail: for any files, filter and rotation, and        *)
(* whatever events arrive or are missed, its output only grows, by         *)
(* complete matches, each printed once and in file order; and it has every *)
(* match of the file it maps from the offset that following started at.    *)
(***************************************************************************)
EXTENDS GrepFollow, Lemmas, FiniteSetTheorems, FunctionTheorems

-----------------------------------------------------------------------------
(* Sets of offsets and their enumerations.                                 *)

(* A nonempty set of natural numbers with an upper bound has a greatest    *)
(* element.                                                                *)
LEMMA NatMaximum ==
  ASSUME NEW T, T \subseteq Nat, T # {}, NEW n \in Nat, \A x \in T : x <= n
  PROVE  \E x \in T : \A y \in T : y <= x
<1> DEFINE U == {k \in Nat : \A x \in T : x <= k}
<1>1. PICK k \in U : \A l \in U : k <= l
  <2>1. n \in U /\ U \subseteq Nat
    OBVIOUS
  <2> HIDE DEF U
  <2> QED  BY <2>1, NatMinimum
<1>2. k \in Nat /\ \A x \in T : x <= k
  OBVIOUS
<1>3. ASSUME k \notin T PROVE FALSE
  <2>1. PICK x \in T : TRUE
    OBVIOUS
  <2>2. \A y \in T : y <= k - 1
    BY <1>2, <1>3
  <2>3. k - 1 \in Nat
    BY <1>2, <2>1, <2>2
  <2>4. k - 1 \in U
    BY <2>2, <2>3
  <2> QED  BY <1>1, <1>2, <2>4
<1> QED  BY <1>2, <1>3

Enumerates(w, S) ==
  /\ w \in [1 .. Cardinality(S) -> S]
  /\ \A i, j \in 1 .. Cardinality(S) : i < j => w[i] < w[j]

(* The offsets below any bound can be listed in increasing order, ...      *)
LEMMA EnumerationExists ==
  ASSUME NEW m \in Nat, NEW S \in SUBSET (0 .. m)
  PROVE  IsFiniteSet(S) /\ \E w : Enumerates(w, S)
<1> DEFINE Bad == {n \in Nat : \E T \in SUBSET (0 .. m) :
                     Cardinality(T) = n /\ ~ \E w : Enumerates(w, T)}
<1>0. \A T \in SUBSET (0 .. m) : IsFiniteSet(T) /\ Cardinality(T) \in Nat
  <2> SUFFICES ASSUME NEW T \in SUBSET (0 .. m)
               PROVE  IsFiniteSet(T) /\ Cardinality(T) \in Nat
    OBVIOUS
  <2>1. IsFiniteSet(0 .. m)
    BY FS_Interval
  <2>2. IsFiniteSet(T)
    BY <2>1, FS_Subset
  <2> QED  BY <2>2, FS_CardinalityType
<1> SUFFICES ASSUME ~ \E w : Enumerates(w, S) PROVE FALSE
  BY <1>0
<1>1. Cardinality(S) \in Bad
  BY <1>0
<1>2. PICK n \in Bad : \A k \in Bad : n <= k
  <2>1. Bad \subseteq Nat
    OBVIOUS
  <2> HIDE DEF Bad
  <2> QED  BY <1>1, <2>1, NatMinimum
<1>3. PICK T \in SUBSET (0 .. m) : Cardinality(T) = n /\ ~ \E w : Enumerates(w, T)
  OBVIOUS
<1>4. T # {}
  <2> SUFFICES ASSUME T = {} PROVE FALSE
    OBVIOUS
  <2>1. Cardinality(T) = 0
    BY FS_EmptySet
  <2>2. Enumerates([i \in 1 .. 0 |-> i], T)
    BY <2>1 DEF Enumerates
  <2> QED  BY <1>3, <2>2
<1>5. PICK top \in T : \A y \in T : y <= top
  <2>1. T \subseteq Nat /\ \A x \in T : x <= m
    OBVIOUS
  <2> QED  BY <1>4, <2>1, NatMaximum
<1> DEFINE R == T \ {top}
<1>6. Cardinality(R) = n - 1 /\ n \in Nat
  BY <1>0, <1>3, <1>5, FS_RemoveElement
<1>7. n - 1 \in Nat /\ R \in SUBSET (0 .. m)
  <2>1. R \in SUBSET (0 .. m)
    OBVIOUS
  <2> QED  BY <1>0, <1>6, <2>1
<1>8. PICK w : Enumerates(w, R)
  <2>1. n - 1 \notin Bad
    BY <1>2, <1>7
  <2> QED  BY <1>6, <1>7, <2>1
<1> DEFINE v == [i \in 1 .. n |-> IF i = n THEN top ELSE w[i]]
<1>9. w \in [1 .. n - 1 -> R] /\ \A i, j \in 1 .. n - 1 : i < j => w[i] < w[j]
  BY <1>6, <1>8 DEF Enumerates
<1>10. \A i \in 1 .. n - 1 : w[i] \in T /\ w[i] \in Nat /\ w[i] < top
  <2> SUFFICES ASSUME NEW i \in 1 .. n - 1
               PROVE  w[i] \in T /\ w[i] \in Nat /\ w[i] < top
    OBVIOUS
  <2>1. w[i] \in R
    BY <1>9
  <2>2. w[i] \in 0 .. m /\ top \in 0 .. m /\ w[i] <= top /\ w[i] # top
    BY <1>5, <2>1
  <2> QED  BY <2>1, <2>2
<1>11. v \in [1 .. n -> T]
  BY <1>6, <1>7, <1>10
<1>12. ASSUME NEW i \in 1 .. n, NEW j \in 1 .. n, i < j PROVE v[i] < v[j]
  BY <1>6, <1>7, <1>9, <1>10, <1>12
<1>13. Enumerates(v, T)
  BY <1>3, <1>11, <1>12 DEF Enumerates
<1> QED  BY <1>3, <1>13

(* ... and such a list has all its elements.                               *)
LEMMA EnumerationIsAll ==
  ASSUME NEW S \in SUBSET Nat, IsFiniteSet(S), NEW w, Enumerates(w, S)
  PROVE  \A x \in S : \E i \in 1 .. Cardinality(S) : w[i] = x
<1> DEFINE n == Cardinality(S)
           D == 1 .. n
<1>1. n \in Nat
  BY FS_CardinalityType
<1>2. IsFiniteSet(D) /\ Cardinality(D) = n
  BY <1>1, FS_Interval
<1>3. w \in [D -> S] /\ \A i, j \in D : i < j => w[i] < w[j]
  BY DEF Enumerates
<1>4. ASSUME NEW i \in D, NEW j \in D, w[i] = w[j] PROVE i = j
  <2>1. i \in Nat /\ j \in Nat /\ w[i] \in Nat /\ w[j] \in Nat
    <3>1. w[i] \in S /\ w[j] \in S
      BY <1>3
    <3>2. w[i] \in Nat /\ w[j] \in Nat
      BY <3>1
    <3> QED  BY <1>1, <3>2
  <2>2. ~ (i < j) /\ ~ (j < i)
    BY <1>3, <1>4, <2>1
  <2> QED  BY <2>1, <2>2
<1>5. w \in Injection(D, S)
  BY <1>3, <1>4, Fun_IsInj
<1>6. w \in Surjection(D, S)
  BY <1>2, <1>5, FS_Injection
<1>7. \A x \in S : \E i \in D : w[i] = x
  <2> HIDE DEF D, n
  <2> QED  BY <1>6, Fun_SurjectionProperties
<1> QED  BY <1>7

LEMMA InOrderEnumerates ==
  ASSUME NEW m \in Nat, NEW S \in SUBSET (0 .. m)
  PROVE  LET w == InOrder(S)
         IN /\ w \in Seq(S) /\ \A i, j \in 1 .. Len(w) : i < j => w[i] < w[j]
            /\ \A x \in S : \E i \in 1 .. Len(w) : w[i] = x
<1> DEFINE n == Cardinality(S)
           w == InOrder(S)
<1>1. n \in Nat /\ IsFiniteSet(S)
  BY EnumerationExists, FS_CardinalityType
<1>2. PICK v : Enumerates(v, S)
  BY EnumerationExists
<1>3. Enumerates(w, S)
  <2>1. v \in [1 .. n -> S] /\ \A i, j \in DOMAIN v : i < j => v[i] < v[j]
    BY <1>2 DEF Enumerates
  <2>2. w \in [1 .. n -> S] /\ \A i, j \in DOMAIN w : i < j => w[i] < w[j]
    BY <2>1 DEF InOrder
  <2> HIDE DEF w
  <2> QED  BY <2>2 DEF Enumerates
<1>4. S \in SUBSET Nat
  OBVIOUS
<1>5. \A x \in S : \E i \in 1 .. n : w[i] = x
  <2> HIDE DEF w, n
  <2> QED  BY <1>1, <1>3, <1>4, EnumerationIsAll DEF n
<1>6. w \in [1 .. n -> S] /\ \A i, j \in 1 .. n : i < j => w[i] < w[j]
  BY <1>3 DEF Enumerates
<1> HIDE DEF w, n
<1>7. w \in Seq(S) /\ Len(w) = n
  BY <1>1, <1>6
<1>8. /\ w \in Seq(S) /\ \A i, j \in 1 .. Len(w) : i < j => w[i] < w[j]
      /\ \A x \in S : \E i \in 1 .. Len(w) : w[i] = x
  BY <1>5, <1>6, <1>7
<1> QED  BY <1>8 DEF w
-----------------------------------------------------------------------------
(* A scan of what is mapped.                                               *)

(* What the scan from an offset has found below k.                         *)
ScanBelow(b, from, k, S) ==
  S = {o \in CompleteIn(b) :
         from <= o /\ o < k /\ ~ \E p \in S : p < o /\ o < EndOf(b, p)}

(* There is such a scan: the offsets are decided from left to right.       *)
LEMMA ScanExists ==
  ASSUME NEW b \in Seq(Cell), NEW from \in Nat, NEW k \in Nat
  PROVE  \E S : ScanBelow(b, from, k, S)
<1> DEFINE Bad == {n \in Nat : ~ \E S : ScanBelow(b, from, n, S)}
<1> SUFFICES ASSUME k \in Bad PROVE FALSE
  OBVIOUS
<1>1. PICK n \in Bad : \A m \in Bad : n <= m
  <2>1. Bad \subseteq Nat
    OBVIOUS
  <2> HIDE DEF Bad
  <2> QED  BY <2>1, NatMinimum
<1>2. n \in Nat /\ ~ \E S : ScanBelow(b, from, n, S)
  OBVIOUS
<1>3. \A o \in CompleteIn(b) : o \in Nat
  BY DEF CompleteIn
<1>4. n # 0
  <2>1. {} = {o \in CompleteIn(b) : from <= o /\ o < 0 /\ ~ \E p \in {} : p < o /\ o < EndOf(b, p)}
    BY <1>3
  <2> QED  BY <1>2, <2>1 DEF ScanBelow
<1>5. n - 1 \in Nat /\ n - 1 \notin Bad
  BY <1>1, <1>2, <1>4
<1>6. PICK S : ScanBelow(b, from, n - 1, S)
  BY <1>5
<1> DEFINE found == {o \in {n - 1} \cap CompleteIn(b) :
                       from <= o /\ ~ \E p \in S : p < o /\ o < EndOf(b, p)}
           T == S \cup found
<1>7. \A p \in S : p \in CompleteIn(b) /\ p < n - 1
  BY <1>6 DEF ScanBelow
<1>8. ASSUME NEW o \in CompleteIn(b), o < n
      PROVE  o \in T <=> from <= o /\ ~ \E p \in T : p < o /\ o < EndOf(b, p)
  <2>1. o \in Nat
    BY <1>3
  <2>2. \A p \in found : p = n - 1
    OBVIOUS
  <2>3. (\E p \in T : p < o /\ o < EndOf(b, p)) <=> \E p \in S : p < o /\ o < EndOf(b, p)
    BY <1>2, <1>8, <2>1, <2>2
  <2>4. CASE o = n - 1
    BY <1>2, <1>7, <2>3, <2>4
  <2>5. CASE o < n - 1
    <3>1. o \notin found
      BY <1>2, <2>1, <2>2, <2>5
    <3>2. o \in S <=> from <= o /\ ~ \E p \in S : p < o /\ o < EndOf(b, p)
      BY <1>6, <2>5 DEF ScanBelow
    <3> QED  BY <2>3, <3>1, <3>2
  <2> QED  BY <1>2, <1>8, <2>1, <2>4, <2>5
<1>9. \A p \in T : p \in CompleteIn(b) /\ p < n
  BY <1>2, <1>3, <1>7
<1>10. ScanBelow(b, from, n, T)
  <2> HIDE DEF T
  <2> QED  BY <1>8, <1>9 DEF ScanBelow
<1> QED  BY <1>2, <1>10

LEMMA ScanFacts ==
  ASSUME NEW b \in Seq(Cell), NEW from \in Nat
  PROVE  LET S == Scan(b, from)
         IN /\ S \subseteq CompleteIn(b) /\ S \in SUBSET (0 .. Len(b))
            /\ \A o \in S : from <= o
            /\ \A p, o \in S : p < o => EndOf(b, p) <= o
            /\ NoNesting(b) => S = {o \in CompleteIn(b) : from <= o}
<1> DEFINE S == Scan(b, from)
           Is(T) == T = {o \in CompleteIn(b) : from <= o /\ ~ \E p \in T : p < o /\ o < EndOf(b, p)}
<1>1. \A o \in CompleteIn(b) : o \in Nat /\ o < Len(b) /\ EndOf(b, o) \in Nat /\ ParseOk(b, o)
  BY MessageBounds DEF CompleteIn
<1>2. \E T \in SUBSET {o \in CompleteIn(b) : from <= o} : Is(T)
  <2>1. PICK T : ScanBelow(b, from, Len(b), T)
    BY ScanExists
  <2>2. Is(T)
    BY <1>1, <2>1 DEF ScanBelow
  <2>3. T \in SUBSET {o \in CompleteIn(b) : from <= o}
    BY <2>1 DEF ScanBelow
  <2> QED  BY <2>2, <2>3
<1>3. S = CHOOSE T \in SUBSET {o \in CompleteIn(b) : from <= o} : Is(T)
  BY DEF Scan
<1>4. Is(S)
  <2> HIDE DEF S, Is
  <2> QED  BY <1>2, <1>3
<1> HIDE DEF S
<1>5. S \subseteq CompleteIn(b) /\ \A o \in S : from <= o
  BY <1>4
<1>6. S \in SUBSET (0 .. Len(b))
  BY <1>1, <1>5
<1>7. ASSUME NEW p \in S, NEW o \in S, p < o PROVE EndOf(b, p) <= o
  <2>1. ~ (o < EndOf(b, p))
    BY <1>4, <1>7
  <2> QED  BY <1>1, <1>5, <2>1
<1>8. ASSUME NoNesting(b) PROVE S = {o \in CompleteIn(b) : from <= o}
  <2>1. ASSUME NEW o \in CompleteIn(b), from <= o PROVE o \in S
    <3>1. \A p \in S : p < o => ~ (o < EndOf(b, p))
      BY <1>1, <1>5, <1>8 DEF NoNesting
    <3> QED  BY <1>4, <2>1, <3>1
  <2> QED  BY <1>5, <2>1
<1> QED  BY <1>5, <1>6, <1>7, <1>8 DEF S

(* The end of the last message found is behind all that was found.         *)
LEMMA LastEnd ==
  ASSUME NEW b \in Seq(Cell), NEW from \in Nat
  PROVE  LET S == Scan(b, from)
             e == last_end(b, from)
         IN /\ e \in Nat /\ from <= e
            /\ S = {} => e = from
            /\ S # {} => \E q \in S : e = EndOf(b, q) /\ e <= Len(b)
            /\ \A p \in S : EndOf(b, p) <= e
<1> DEFINE S == Scan(b, from)
           e == last_end(b, from)
<1>1. /\ S \subseteq CompleteIn(b) /\ S \in SUBSET (0 .. Len(b))
      /\ \A o \in S : from <= o
      /\ \A p, o \in S : p < o => EndOf(b, p) <= o
  BY ScanFacts
<1>2. \A o \in S : o \in Nat /\ EndOf(b, o) \in Nat /\ o < EndOf(b, o) /\ EndOf(b, o) <= Len(b)
  BY <1>1, MessageBounds DEF CompleteIn
<1>3. CASE S = {}
  BY <1>3 DEF last_end
<1>4. CASE S # {}
  <2> DEFINE q == CHOOSE o \in S : \A p \in S : p <= o
  <2>1. \E o \in S : \A p \in S : p <= o
    <3>1. S \subseteq Nat /\ (\A o \in S : o <= Len(b)) /\ Len(b) \in Nat
      BY <1>1
    <3> HIDE DEF S
    <3> QED  BY <1>4, <3>1, NatMaximum
  <2>2. q \in S /\ \A p \in S : p <= q
    <3> HIDE DEF S
    <3> QED  BY <2>1
  <2>3. e = EndOf(b, q)
    BY <1>4 DEF last_end
  <2> HIDE DEF S, e, q
  <2>4. \A p \in S : EndOf(b, p) <= e
    <3> SUFFICES ASSUME NEW p \in S PROVE EndOf(b, p) <= EndOf(b, q)
      BY <2>3
    <3>1. CASE p = q
      BY <1>2, <3>1
    <3>2. CASE p < q
      BY <1>1, <1>2, <2>2, <3>2
    <3> QED  BY <1>2, <2>2, <3>1, <3>2
  <2>5. e \in Nat /\ from <= e /\ e <= Len(b)
    BY <1>1, <1>2, <2>2, <2>3
  <2> QED  BY <1>4, <2>2, <2>3, <2>4, <2>5 DEF S, e
<1> QED  BY <1>3, <1>4

LEMMA OutputFacts ==
  ASSUME NEW b \in Seq(Cell), NEW from \in Nat, NEW g \in Nat
  PROVE  LET S == Scan(b, from) \cap Matching(b)
             out == Output(g, b, from)
         IN /\ out \in Seq(Position)
            /\ \A i \in 1 .. Len(out) : out[i].gen = g /\ out[i].at \in S
            /\ \A i, j \in 1 .. Len(out) : i < j => EndOf(b, out[i].at) <= out[j].at
            /\ \A o \in S : \E i \in 1 .. Len(out) : out[i].at = o
<1> DEFINE S == Scan(b, from) \cap Matching(b)
           w == InOrder(S)
           out == Output(g, b, from)
<1>1. Len(b) \in Nat /\ S \in SUBSET (0 .. Len(b))
  BY ScanFacts
<1>2. /\ w \in Seq(S) /\ \A i, j \in 1 .. Len(w) : i < j => w[i] < w[j]
      /\ \A x \in S : \E i \in 1 .. Len(w) : w[i] = x
  <2> HIDE DEF S
  <2> QED  BY <1>1, InOrderEnumerates
<1>3. out = [i \in DOMAIN w |-> [gen |-> g, at |-> w[i]]]
  BY DEF Output
<1> HIDE DEF w, out
<1>4. DOMAIN w = 1 .. Len(w) /\ Len(w) \in Nat /\ \A i \in 1 .. Len(w) : w[i] \in S
  BY <1>2
<1>5. S \subseteq Nat
  BY <1>1
<1> HIDE DEF S
<1>6. out \in Seq(Position) /\ Len(out) = Len(w)
  <2>1. \A i \in 1 .. Len(w) : [gen |-> g, at |-> w[i]] \in Position
    BY <1>4, <1>5 DEF Position
  <2> QED  BY <1>3, <1>4, <2>1
<1>7. \A i \in 1 .. Len(w) : out[i].gen = g /\ out[i].at = w[i]
  BY <1>3, <1>4
<1>8. ASSUME NEW i \in 1 .. Len(w), NEW j \in 1 .. Len(w), i < j
      PROVE  EndOf(b, w[i]) <= w[j]
  <2>1. w[i] \in Scan(b, from) /\ w[j] \in Scan(b, from)
    BY <1>4 DEF S
  <2> QED  BY <1>2, <1>8, <2>1, ScanFacts
<1>9. \A i \in 1 .. Len(out) : out[i].gen = g /\ out[i].at \in S
  BY <1>4, <1>6, <1>7
<1>10. ASSUME NEW i \in 1 .. Len(out), NEW j \in 1 .. Len(out), i < j
       PROVE  EndOf(b, out[i].at) <= out[j].at
  BY <1>6, <1>7, <1>8, <1>10
<1>11. ASSUME NEW o \in S PROVE \E i \in 1 .. Len(out) : out[i].at = o
  <2>1. PICK i \in 1 .. Len(w) : w[i] = o
    BY <1>2
  <2> QED  BY <1>6, <1>7, <2>1
<1> QED  BY <1>6, <1>9, <1>10, <1>11 DEF S, out

(* The same, a fact at a time.                                             *)
LEMMA OutputIsSeq ==
  ASSUME NEW b \in Seq(Cell), NEW from \in Nat, NEW g \in Nat
  PROVE  Output(g, b, from) \in Seq(Position)
<1> QED  BY OutputFacts

LEMMA OutputMatches ==
  ASSUME NEW b \in Seq(Cell), NEW from \in Nat, NEW g \in Nat
  PROVE  \A i \in 1 .. Len(Output(g, b, from)) :
           /\ Output(g, b, from)[i].gen = g
           /\ Output(g, b, from)[i].at \in Scan(b, from) \cap Matching(b)
<1> QED  BY OutputFacts

LEMMA OutputIsApart ==
  ASSUME NEW b \in Seq(Cell), NEW from \in Nat, NEW g \in Nat
  PROVE  \A i, j \in 1 .. Len(Output(g, b, from)) :
           i < j => EndOf(b, Output(g, b, from)[i].at) <= Output(g, b, from)[j].at
<1> QED  BY OutputFacts

LEMMA OutputIsWhole ==
  ASSUME NEW b \in Seq(Cell), NEW from \in Nat, NEW g \in Nat
  PROVE  \A o \in Scan(b, from) \cap Matching(b) :
           \E i \in 1 .. Len(Output(g, b, from)) : Output(g, b, from)[i].at = o
<1> QED  BY OutputFacts
-----------------------------------------------------------------------------
(* A file and its prefixes.                                                *)

LEMMA WholeFile ==
  ASSUME NEW f \in Seq(Cell)
  PROVE  SubSeq(f, 1, Len(f)) = f
<1>1. Len(f) \in 0 .. Len(f)
  OBVIOUS
<1>2. /\ SubSeq(f, 1, Len(f)) \in Seq(Cell) /\ Len(SubSeq(f, 1, Len(f))) = Len(f)
      /\ \A i \in 1 .. Len(f) : SubSeq(f, 1, Len(f))[i] = f[i]
  BY <1>1, PrefixCells
<1> QED  BY <1>2

(* The messages of a prefix are those of the file that end in it.          *)
LEMMA MessagesOfPrefix ==
  ASSUME NEW f \in Seq(Cell), NEW n \in 0 .. Len(f), NEW o
  PROVE  LET b == SubSeq(f, 1, n)
         IN /\ o \in CompleteIn(b) =>
                 /\ o \in CompleteIn(f) /\ EndOf(b, o) = EndOf(f, o) /\ EndOf(f, o) <= n
                 /\ o \in Matching(b) <=> o \in Matching(f)
            /\ o \in CompleteIn(f) /\ EndOf(f, o) <= n => o \in CompleteIn(b)
<1> DEFINE b == SubSeq(f, 1, n)
<1>1. /\ b \in Seq(Cell) /\ Len(b) = n /\ (\A i \in 1 .. n : b[i] = f[i])
  BY PrefixCells
<1>2. SubSeq(f, 1, Len(f)) = f /\ Len(f) \in 0 .. Len(f)
  BY WholeFile
<1>3. ASSUME o \in CompleteIn(b)
      PROVE  /\ o \in CompleteIn(f) /\ EndOf(b, o) = EndOf(f, o) /\ EndOf(f, o) <= n
             /\ o \in Matching(b) <=> o \in Matching(f)
  <2>1. ParseOk(b, o) /\ o \in Nat /\ EndOf(b, o) \in Nat /\ o + 2 <= EndOf(b, o)
        /\ EndOf(b, o) <= n
    BY <1>1, <1>3, MessageBounds DEF CompleteIn
  <2>2. ParseOk(f, o) /\ EndOf(f, o) = EndOf(b, o)
    <3>1. ParseOk(SubSeq(f, 1, Len(f)), o) /\ EndOf(SubSeq(f, 1, Len(f)), o) = EndOf(b, o)
      BY <1>2, <2>1, CompleteInPrefix
    <3> QED  BY <1>2, <3>1
  <2>3. o \in 0 .. Len(f) - 1 /\ o + 1 \in 1 .. n
    BY <2>1
  <2>4. o \in CompleteIn(f)
    BY <2>2, <2>3 DEF CompleteIn
  <2>5. b[o + 1] = f[o + 1]
    BY <1>1, <2>3
  <2> QED  BY <1>3, <2>1, <2>2, <2>4, <2>5 DEF Matching
<1>4. ASSUME o \in CompleteIn(f), EndOf(f, o) <= n
      PROVE  o \in CompleteIn(b)
  <2>1. ParseOk(SubSeq(f, 1, Len(f)), o) /\ EndOf(SubSeq(f, 1, Len(f)), o) <= n
    BY <1>2, <1>4 DEF CompleteIn
  <2>2. ParseOk(b, o)
    BY <1>2, <2>1, CompleteInPrefix
  <2>3. o \in 0 .. n - 1
    <3>1. o \in Nat /\ EndOf(b, o) \in Nat /\ o + 2 <= EndOf(b, o) /\ EndOf(b, o) <= Len(b)
      <4> HIDE DEF b
      <4> QED  BY <1>1, <2>2, MessageBounds
    <3>2. n \in Nat /\ Len(b) = n
      BY <1>1
    <3> QED  BY <3>1, <3>2
  <2> QED  BY <1>1, <2>2, <2>3 DEF CompleteIn
<1> QED  BY <1>3, <1>4

(* What a file of the path becomes keeps what it was as a prefix.          *)
Extends(f, h) ==
  /\ Len(f) <= Len(h)
  /\ \A n \in 0 .. Len(f) : SubSeq(h, 1, n) = SubSeq(f, 1, n)

LEMMA ExtendsKeeps ==
  ASSUME NEW f \in Seq(Cell), NEW h \in Seq(Cell), Extends(f, h), NEW o \in Matching(f)
  PROVE  o \in Matching(h) /\ EndOf(h, o) = EndOf(f, o)
<1>1. Len(f) \in 0 .. Len(f) /\ Len(f) \in 0 .. Len(h) /\ f = SubSeq(f, 1, Len(f))
  BY WholeFile DEF Extends
<1>2. f = SubSeq(h, 1, Len(f))
  BY <1>1 DEF Extends
<1>3. o \in CompleteIn(f)
  BY DEF Matching
<1>4. /\ o \in CompleteIn(SubSeq(h, 1, Len(f))) =>
           /\ EndOf(SubSeq(h, 1, Len(f)), o) = EndOf(h, o)
           /\ o \in Matching(SubSeq(h, 1, Len(f))) <=> o \in Matching(h)
  BY <1>1, MessagesOfPrefix
<1> QED  BY <1>2, <1>3, <1>4
-----------------------------------------------------------------------------
(* Every step leaves the files as they were or extends them.               *)

Growth ==
  /\ logs' \in Seq(Seq(Cell)) /\ Len(logs) <= Len(logs')
  /\ \A g \in 1 .. Len(logs) : logs'[g] \in Seq(Cell) /\ Extends(logs[g], logs'[g])

LEMMA LogFacts ==
  ASSUME TypeOK
  PROVE  /\ Len(logs) \in Nat /\ 1 <= Len(logs) /\ live \in Seq(Cell)
         /\ \A g \in 1 .. Len(logs) : logs[g] \in Seq(Cell) /\ Len(logs[g]) \in Nat
         /\ mmap.gen \in 1 .. Len(logs) /\ mmap.len \in 0 .. Len(logs[mmap.gen])
<1>1. Len(logs) \in Nat /\ 1 <= Len(logs)
  BY DEF TypeOK
<1>2. \A g \in 1 .. Len(logs) : logs[g] \in Seq(Cell)
  BY DEF TypeOK
<1>3. \A g \in 1 .. Len(logs) : Len(logs[g]) \in Nat
  BY <1>2
<1>4. live \in Seq(Cell)
  BY <1>1, <1>2 DEF live
<1>5. mmap.gen \in 1 .. Len(logs) /\ mmap.len \in Nat /\ mmap.len <= Len(logs[mmap.gen])
  BY DEF TypeOK
<1> QED  BY <1>1, <1>2, <1>3, <1>4, <1>5

LEMMA ExtendsItself ==
  ASSUME NEW f \in Seq(Cell)
  PROVE  Extends(f, f)
BY DEF Extends

LEMMA WriteGrows ==
  ASSUME TypeOK, NEW c \in Cells,
         logs' = [logs EXCEPT ![Len(logs)] = Append(@, c)]
  PROVE  Growth /\ Len(logs') = Len(logs)
<1>1. /\ Len(logs) \in Nat /\ 1 <= Len(logs)
      /\ \A g \in 1 .. Len(logs) : logs[g] \in Seq(Cell) /\ Len(logs[g]) \in Nat
  BY LogFacts
<1>2. c \in Cell
  BY ConstantsAssumption
<1>3. logs \in Seq(Seq(Cell))
  BY DEF TypeOK
<1>4. Append(logs[Len(logs)], c) \in Seq(Cell)
  BY <1>1, <1>2
<1>5. logs' \in Seq(Seq(Cell)) /\ Len(logs') = Len(logs)
  BY <1>1, <1>3, <1>4
<1>6. ASSUME NEW g \in 1 .. Len(logs)
      PROVE  logs'[g] \in Seq(Cell) /\ Extends(logs[g], logs'[g])
  <2>1. CASE g = Len(logs)
    <3>1. logs'[g] = Append(logs[g], c)
      BY <1>1, <1>3, <2>1
    <3>2. logs[g] \in Seq(Cell) /\ Len(Append(logs[g], c)) = Len(logs[g]) + 1
      BY <1>1
    <3>3. Extends(logs[g], Append(logs[g], c))
      BY <1>1, <1>2, <3>2, PrefixOfAppend DEF Extends
    <3> QED  BY <1>4, <2>1, <3>1, <3>3
  <2>2. CASE g # Len(logs)
    <3>1. logs'[g] = logs[g]
      BY <1>3, <2>2
    <3> QED  BY <1>1, <3>1, ExtendsItself
  <2> QED  BY <2>1, <2>2
<1>7. Len(logs) <= Len(logs')
  BY <1>1, <1>5
<1> QED  BY <1>5, <1>6, <1>7 DEF Growth

LEMMA CreateGrows ==
  ASSUME TypeOK, logs' = Append(logs, << >>)
  PROVE  Growth /\ Len(logs') = Len(logs) + 1
<1>1. /\ Len(logs) \in Nat /\ 1 <= Len(logs)
      /\ \A g \in 1 .. Len(logs) : logs[g] \in Seq(Cell) /\ Len(logs[g]) \in Nat
  BY LogFacts
<1>2. logs \in Seq(Seq(Cell)) /\ << >> \in Seq(Cell)
  BY DEF TypeOK
<1>3. logs' \in Seq(Seq(Cell)) /\ Len(logs') = Len(logs) + 1
  BY <1>2
<1>4. \A g \in 1 .. Len(logs) : logs'[g] = logs[g]
  BY <1>1, <1>2
<1> QED  BY <1>1, <1>3, <1>4, ExtendsItself DEF Growth

LEMMA SameLogsGrow ==
  ASSUME TypeOK, UNCHANGED logs
  PROVE  Growth /\ Len(logs') = Len(logs)
<1>1. /\ Len(logs) \in Nat /\ \A g \in 1 .. Len(logs) : logs[g] \in Seq(Cell)
  BY LogFacts
<1>2. logs' = logs /\ logs \in Seq(Seq(Cell))
  BY DEF TypeOK
<1>3. \A g \in 1 .. Len(logs) : logs'[g] \in Seq(Cell) /\ Extends(logs[g], logs'[g])
  BY <1>1, <1>2, ExtendsItself
<1>4. Len(logs) <= Len(logs') /\ Len(logs') = Len(logs)
  BY <1>1, <1>2
<1> QED  BY <1>2, <1>3, <1>4 DEF Growth

LEMMA NextGrows ==
  ASSUME TypeOK, [Next]_vars
  PROVE  Growth
<1>1. CASE UNCHANGED logs
  BY <1>1, SameLogsGrow
<1>2. ASSUME NEW c \in Cells, Write(c) PROVE Growth
  BY <1>2, WriteGrows DEF Write
<1>3. CASE Create
  BY <1>3, CreateGrows DEF Create
<1>4. \/ UNCHANGED logs
      \/ \E c \in Cells : Write(c)
      \/ Create
  BY DEF Next, Producer, OtherEvent, Grep, CatchUp, Timeout, MoveAway, InitialPass,
         OpenState, Exit, Receive, Stat, Reopen, Remap, KeepMap, vars
<1> QED  BY <1>1, <1>2, <1>3, <1>4

LEMMA MappedFacts ==
  ASSUME TypeOK, NEW g \in 1 .. Len(logs), NEW n \in 0 .. Len(logs[g])
  PROVE  Mapped(g, n) \in Seq(Cell) /\ Len(Mapped(g, n)) = n
<1>1. logs[g] \in Seq(Cell)
  BY LogFacts
<1> QED  BY <1>1, PrefixCells DEF Mapped

LEMMA ProcessFromType ==
  ASSUME TypeOK, NEW g \in 1 .. Len(logs), NEW n \in 0 .. Len(logs[g]), NEW from \in Nat,
         process_from(g, n, from)
  PROVE  /\ mmap' = [gen |-> g, len |-> n] /\ n \in Nat
         /\ stat' \in Nat /\ consumed' \in Nat /\ printed' \in Seq(Position)
<1>1. Mapped(g, n) \in Seq(Cell) /\ g \in Nat /\ n \in Nat
  <2>1. Len(logs) \in Nat /\ Len(logs[g]) \in Nat
    BY LogFacts
  <2> QED  BY <2>1, MappedFacts
<1>2. Output(g, Mapped(g, n), from) \in Seq(Position)
  BY <1>1, OutputIsSeq
<1>3. last_end(Mapped(g, n), from) \in Nat
  BY <1>1, LastEnd
<1>4. printed \in Seq(Position)
  BY DEF TypeOK
<1>5. printed \o Output(g, Mapped(g, n), from) \in Seq(Position)
  BY <1>2, <1>4
<1> QED  BY <1>1, <1>3, <1>5 DEF process_from

LEMMA AppendToOne ==
  ASSUME NEW x, NEW y
  PROVE  Append(<<x>>, y) = <<x, y>>
<1> DEFINE S == {x, y}
           a == Append(<<x>>, y)
           b == <<x, y>>
<1>1. <<x>> \in Seq(S) /\ Len(<<x>>) = 1 /\ b \in Seq(S) /\ Len(b) = 2
  OBVIOUS
<1>2. a \in Seq(S) /\ Len(a) = 2
  BY <1>1
<1>3. a[1] = x /\ a[2] = y /\ b[1] = x /\ b[2] = y
  BY <1>1
<1> HIDE DEF a, b
<1>4. \A i \in 1 .. Len(a) : a[i] = b[i]
  <2>1. \A i \in 1 .. 2 : i = 1 \/ i = 2
    OBVIOUS
  <2> QED  BY <1>2, <1>3, <2>1
<1>5. a = b
  BY <1>1, <1>2, <1>4
<1> QED  BY <1>5 DEF a, b

Queues == {<< >>, <<"target">>, <<"other">>, <<"target", "other">>, <<"other", "target">>}

LEMMA SendQueues ==
  ASSUME events \in Queues, NEW e \in {"target", "other"}, Send(e)
  PROVE  events' \in Queues
<1>1. CASE e \in Range(events)
  BY <1>1 DEF Send
<1>2. CASE e \notin Range(events)
  <2>1. events' = Append(events, e)
    BY <1>2 DEF Send
  <2>2. CASE events = << >>
    BY <2>1, <2>2 DEF Queues
  <2>3. CASE events = <<"target">>
    <3>1. events[1] = "target" /\ 1 \in DOMAIN events
      BY <2>3
    <3>2. e = "other"
      BY <1>2, <3>1 DEF Range
    <3>3. Append(<<"target">>, "other") = <<"target", "other">>
      BY AppendToOne
    <3> QED  BY <2>1, <2>3, <3>2, <3>3 DEF Queues
  <2>4. CASE events = <<"other">>
    <3>1. events[1] = "other" /\ 1 \in DOMAIN events
      BY <2>4
    <3>2. e = "target"
      BY <1>2, <3>1 DEF Range
    <3>3. Append(<<"other">>, "target") = <<"other", "target">>
      BY AppendToOne
    <3> QED  BY <2>1, <2>4, <3>2, <3>3 DEF Queues
  <2>5. CASE events \in {<<"target", "other">>, <<"other", "target">>}
    <3>1. events[1] # events[2] /\ events[1] \in {"target", "other"}
          /\ events[2] \in {"target", "other"} /\ 1 \in DOMAIN events /\ 2 \in DOMAIN events
      BY <2>5
    <3> QED  BY <1>2, <3>1 DEF Range
  <2> QED  BY <2>2, <2>3, <2>4, <2>5 DEF Queues
<1> QED  BY <1>1, <1>2

LEMMA TailQueues ==
  ASSUME events \in Queues, events # << >>
  PROVE  Tail(events) \in Queues
<1>1. Tail(<<"target">>) = << >> /\ Tail(<<"other">>) = << >>
  OBVIOUS
<1>2. Tail(<<"target", "other">>) = <<"other">> /\ Tail(<<"other", "target">>) = <<"target">>
  OBVIOUS
<1> QED  BY <1>1, <1>2 DEF Queues
-----------------------------------------------------------------------------
(* Types.                                                                  *)

LEMMA MappingKept ==
  ASSUME TypeOK, Growth, mmap' = mmap
  PROVE  mmap' \in [gen : 1 .. Len(logs'), len : Nat] /\ mmap'.len <= Len(logs'[mmap'.gen])
<1> DEFINE g == mmap.gen
<1>1. /\ Len(logs) \in Nat /\ mmap \in [gen : 1 .. Len(logs), len : Nat]
      /\ g \in 1 .. Len(logs) /\ logs[g] \in Seq(Cell) /\ mmap.len <= Len(logs[g])
  BY LogFacts DEF TypeOK
<1>2. /\ logs' \in Seq(Seq(Cell)) /\ Len(logs) <= Len(logs')
      /\ logs'[g] \in Seq(Cell) /\ Len(logs[g]) <= Len(logs'[g])
  BY <1>1 DEF Growth, Extends
<1>3. g \in 1 .. Len(logs') /\ mmap.len \in Nat
  BY <1>1, <1>2
<1>4. mmap.len <= Len(logs'[g])
  <2>1. Len(logs[g]) \in Nat /\ Len(logs'[g]) \in Nat
    BY <1>1, <1>2
  <2> QED  BY <1>1, <1>2, <1>3, <2>1
<1>5. mmap \in [gen : 1 .. Len(logs'), len : Nat]
  BY <1>1, <1>3
<1> QED  BY <1>4, <1>5

LEMMA EventsStep ==
  ASSUME TypeOK, [Next]_vars
  PROVE  events' \in Queues
<1>1. events \in Queues
  BY DEF TypeOK, Queues
<1>2. \/ UNCHANGED events
      \/ Send("target")
      \/ Send("other")
      \/ events # << >> /\ events' = Tail(events)
  BY DEF Next, Producer, OtherEvent, Grep, CatchUp, Timeout, Write, Create, MoveAway, Notify,
         InitialPass, OpenState, Exit, Receive, Stat, Reopen, Remap, KeepMap, vars
<1> QED  BY <1>1, <1>2, SendQueues, TailQueues

(* What the steps that only move the process leave typed.                  *)
StateTypes ==
  /\ mmap' \in [gen : 1 .. Len(logs'), len : Nat] /\ mmap'.len <= Len(logs'[mmap'.gen])
  /\ consumed' \in Nat /\ stat' \in Nat
  /\ printed' \in Seq(Position) /\ base' \in Position

LEMMA ProcessFromState ==
  ASSUME TypeOK, UNCHANGED logs, NEW g \in 1 .. Len(logs), NEW n \in 0 .. Len(logs[g]),
         NEW from \in Nat, process_from(g, n, from), base' \in Position
  PROVE  StateTypes
<1>1. /\ mmap' = [gen |-> g, len |-> n] /\ n \in Nat
      /\ stat' \in Nat /\ consumed' \in Nat /\ printed' \in Seq(Position)
  BY ProcessFromType
<1>2. Len(logs[g]) \in Nat
  BY LogFacts
<1>3. mmap' \in [gen : 1 .. Len(logs'), len : Nat] /\ mmap'.gen = g /\ mmap'.len = n
  BY <1>1
<1> QED  BY <1>1, <1>2, <1>3 DEF StateTypes

LEMMA StateStep ==
  ASSUME TypeOK, [Next]_vars
  PROVE  StateTypes
<1>1. /\ Len(logs) \in Nat /\ 1 <= Len(logs) /\ live \in Seq(Cell) /\ Len(live) \in Nat
      /\ \A g \in 1 .. Len(logs) : Len(logs[g]) \in Nat
      /\ mmap.gen \in 1 .. Len(logs) /\ mmap.len \in 0 .. Len(logs[mmap.gen])
  BY LogFacts
<1>2. /\ mmap \in [gen : 1 .. Len(logs), len : Nat] /\ consumed \in Nat /\ stat \in Nat
      /\ printed \in Seq(Position) /\ base \in Position
  BY DEF TypeOK
<1>3. Len(logs) \in 1 .. Len(logs) /\ Len(logs) \in Nat /\ Len(live) \in 0 .. Len(logs[Len(logs)])
  BY <1>1 DEF live
<1>4. CASE UNCHANGED <<mmap, consumed, stat, printed, base>>
  BY <1>2, <1>4, MappingKept, NextGrows DEF StateTypes
<1>5. CASE InitialPass
  <2>1. Output(Len(logs), live, 0) \in Seq(Position)
    BY <1>1, OutputIsSeq
  <2>2. printed' \in Seq(Position) /\ UNCHANGED <<mmap, consumed, stat, base>>
    BY <1>5, <2>1 DEF InitialPass
  <2> QED  BY <1>2, <2>2, MappingKept, NextGrows DEF StateTypes
<1>6. CASE OpenState
  <2>1. /\ mmap' = [gen |-> Len(logs), len |-> Len(live)]
        /\ base' = [gen |-> Len(logs), at |-> Len(live)]
        /\ consumed' = Len(live) /\ UNCHANGED <<logs, stat, printed>>
    BY <1>6 DEF OpenState
  <2>2. mmap' \in [gen : 1 .. Len(logs'), len : Nat] /\ mmap'.len <= Len(logs'[mmap'.gen])
    BY <1>1, <2>1 DEF live
  <2>3. base' \in Position
    BY <1>1, <2>1 DEF Position
  <2> QED  BY <1>1, <1>2, <2>1, <2>2, <2>3 DEF StateTypes
<1>7. CASE Stat
  <2>1. stat' \in Nat /\ UNCHANGED <<mmap, consumed, printed, base>>
    BY <1>1, <1>7 DEF Stat
  <2> QED  BY <1>2, <2>1, MappingKept, NextGrows DEF StateTypes
<1>8. CASE Reopen
  <2>1. /\ process_from(Len(logs), Len(live), 0) /\ UNCHANGED logs
        /\ base' = [gen |-> Len(logs), at |-> 0]
    BY <1>8 DEF Reopen
  <2>2. base' \in Position
    BY <1>1, <2>1 DEF Position
  <2> QED  BY <1>3, <2>1, <2>2, ProcessFromState
<1>9. CASE Remap
  <2>1. process_from(Len(logs), Len(live), consumed) /\ UNCHANGED <<logs, base>>
    BY <1>9 DEF Remap
  <2> QED  BY <1>2, <1>3, <2>1, ProcessFromState
<1>10. CASE KeepMap
  <2>1. process_from(mmap.gen, mmap.len, consumed) /\ UNCHANGED <<logs, base>>
    BY <1>10 DEF KeepMap
  <2> QED  BY <1>1, <1>2, <2>1, ProcessFromState
<1>11. \/ UNCHANGED <<mmap, consumed, stat, printed, base>>
       \/ InitialPass \/ OpenState \/ Stat \/ Reopen \/ Remap \/ KeepMap
  BY DEF Next, Producer, OtherEvent, Grep, CatchUp, Timeout, Write, Create, MoveAway, Exit,
         Receive, vars
<1> QED  BY <1>4, <1>5, <1>6, <1>7, <1>8, <1>9, <1>10, <1>11

LEMMA TypeInit ==
  ASSUME Init
  PROVE  TypeOK
<1>1. << << >> >> \in Seq(Seq(Cell)) /\ Len(<< << >> >>) = 1 /\ << << >> >>[1] = << >>
      /\ << << >> >> # << >> /\ Len(<< >>) = 0
  OBVIOUS
<1>2. << >> \in Seq(Position) /\ [gen |-> 1, at |-> 0] \in Position
  BY DEF Position
<1> QED  BY <1>1, <1>2 DEF Init, TypeOK

LEMMA TypeStep ==
  ASSUME TypeOK, [Next]_vars
  PROVE  TypeOK'
<1>1. logs' \in Seq(Seq(Cell)) /\ logs' # << >>
  <2>1. Len(logs) \in Nat /\ 1 <= Len(logs) /\ logs' \in Seq(Seq(Cell)) /\ Len(logs) <= Len(logs')
    BY LogFacts, NextGrows DEF Growth
  <2> QED  BY <2>1
<1>2. present' \in BOOLEAN
  BY DEF TypeOK, Next, Producer, OtherEvent, Grep, CatchUp, Timeout, Write, Create, MoveAway,
         InitialPass, OpenState, Exit, Receive, Stat, Reopen, Remap, KeepMap, vars
<1>3. pc' \in {"start", "open", "wait", "stat", "catch_up", "exited"}
  BY DEF TypeOK, Next, Producer, OtherEvent, Grep, CatchUp, Timeout, Write, Create, MoveAway,
         InitialPass, OpenState, Exit, Receive, Stat, Reopen, Remap, KeepMap, vars
<1> QED  BY <1>1, <1>2, <1>3, EventsStep, StateStep DEF TypeOK, Queues, StateTypes

(* The state is always typed: what is mapped lies in a file of the path,   *)
(* and the channel merges the two kinds of events.                         *)
THEOREM TypeCorrect == Spec => []TypeOK
<1>1. Init => TypeOK
  BY TypeInit
<1>2. TypeOK /\ [Next]_vars => TypeOK'
  BY TypeStep
<1> QED  BY <1>1, <1>2, PTL DEF Spec
-----------------------------------------------------------------------------
(* The output is a tail's.  What makes it so: whatever has been printed of *)
(* the mapped file ends at or before consumed, and nothing has been        *)
(* printed of a file that is about to be parsed from its start.            *)

Following == pc \in {"wait", "stat", "catch_up"}

PrintedAreMatches ==
  \A i \in 1 .. Len(printed) :
    /\ printed[i].gen \in 1 .. Len(logs)
    /\ printed[i].at \in Matching(logs[printed[i].gen])

NothingPrintedYet == pc = "start" => printed = << >>

PrintedIsConsumed ==
  Following =>
    \A i \in 1 .. Len(printed) :
      /\ printed[i].gen <= mmap.gen
      /\ printed[i].gen = mmap.gen =>
           consumed <= mmap.len /\ EndOf(logs[mmap.gen], printed[i].at) <= consumed

(* A size below consumed means that another file is at the path, or that   *)
(* none of the mapped one was printed.                                     *)
ShrunkIsReplaced ==
  pc = "catch_up" /\ present /\ stat < consumed =>
    mmap.gen < Len(logs) \/ mmap.len < consumed

TailInv ==
  TypeOK /\ PrintedAreMatches /\ NothingPrintedYet /\ PrintedIsConsumed /\ ShrunkIsReplaced

(* What a catch-up has printed since the count k, of file g and behind from.*)
Emitted(k, g, from) ==
  \A i \in k + 1 .. Len(printed') :
    /\ printed'[i].gen = g /\ printed'[i].at \in Matching(logs[g]) /\ from <= printed'[i].at
    /\ \A j \in k + 1 .. i - 1 : EndOf(logs[g], printed'[j].at) <= printed'[i].at

LEMMA OutputEmits ==
  ASSUME TypeOK, NEW g \in 1 .. Len(logs), NEW n \in 0 .. Len(logs[g]), NEW from \in Nat,
         printed' = printed \o Output(g, Mapped(g, n), from)
  PROVE  LET b == Mapped(g, n)
         IN /\ Len(printed) \in Nat /\ Len(printed') \in Nat /\ Len(printed) <= Len(printed')
            /\ \A i \in 1 .. Len(printed) : printed'[i] = printed[i]
            /\ \A i \in Len(printed) + 1 .. Len(printed') : printed'[i].at \in Scan(b, from)
            /\ Emitted(Len(printed), g, from)
<1> DEFINE b == Mapped(g, n)
           S == Scan(b, from) \cap Matching(b)
           out == Output(g, b, from)
           k == Len(printed)
<1>1. Len(logs) \in Nat /\ g \in Nat /\ logs[g] \in Seq(Cell) /\ b \in Seq(Cell)
  BY LogFacts, MappedFacts
<1>2. /\ out \in Seq(Position)
      /\ \A i \in 1 .. Len(out) : out[i].gen = g /\ out[i].at \in S
      /\ \A i, j \in 1 .. Len(out) : i < j => EndOf(b, out[i].at) <= out[j].at
  <2>1. out \in Seq(Position)
    BY <1>1, OutputIsSeq
  <2>2. \A i \in 1 .. Len(out) : out[i].gen = g /\ out[i].at \in S
    BY <1>1, OutputMatches
  <2>3. \A i, j \in 1 .. Len(out) : i < j => EndOf(b, out[i].at) <= out[j].at
    BY <1>1, OutputIsApart
  <2> QED  BY <2>1, <2>2, <2>3
<1>3. \A o \in S : /\ o \in Matching(logs[g]) /\ EndOf(logs[g], o) = EndOf(b, o)
                   /\ from <= o
  <2> SUFFICES ASSUME NEW o \in S
               PROVE  /\ o \in Matching(logs[g]) /\ EndOf(logs[g], o) = EndOf(b, o)
                      /\ from <= o
    OBVIOUS
  <2>1. o \in CompleteIn(b) /\ o \in Matching(b) /\ from <= o
    BY <1>1, ScanFacts DEF Matching
  <2> QED  BY <1>1, <2>1, MessagesOfPrefix DEF Mapped
<1> HIDE DEF S, out, b
<1>4. printed \in Seq(Position) /\ printed' = printed \o out
  BY DEF TypeOK, out, b
<1>5. /\ k \in Nat /\ Len(out) \in Nat /\ Len(printed') = k + Len(out)
      /\ \A i \in 1 .. k : printed'[i] = printed[i]
      /\ \A i \in 1 .. Len(out) : printed'[k + i] = out[i]
  BY <1>2, <1>4
<1>6. ASSUME NEW i \in k + 1 .. Len(printed')
      PROVE  i - k \in 1 .. Len(out) /\ printed'[i] = out[i - k]
  <2>1. i - k \in 1 .. Len(out) /\ k + (i - k) = i
    BY <1>5
  <2> QED  BY <1>5, <2>1
<1>7. \A i \in k + 1 .. Len(printed') : printed'[i].at \in Scan(b, from)
  BY <1>2, <1>6 DEF S
<1>9. ASSUME NEW i \in k + 1 .. Len(printed')
      PROVE  /\ printed'[i].gen = g /\ printed'[i].at \in Matching(logs[g])
             /\ from <= printed'[i].at
             /\ \A j \in k + 1 .. i - 1 : EndOf(logs[g], printed'[j].at) <= printed'[i].at
  <2>1. i - k \in 1 .. Len(out) /\ printed'[i] = out[i - k]
    BY <1>6
  <2>2. printed'[i].gen = g /\ printed'[i].at \in S
    BY <1>2, <2>1
  <2>3. ASSUME NEW j \in k + 1 .. i - 1
        PROVE  EndOf(logs[g], printed'[j].at) <= printed'[i].at
    <3>1. j \in k + 1 .. Len(printed') /\ j - k < i - k
      BY <1>5
    <3>2. j - k \in 1 .. Len(out) /\ printed'[j] = out[j - k]
      BY <1>6, <3>1
    <3>3. EndOf(b, printed'[j].at) <= printed'[i].at /\ printed'[j].at \in S
      BY <1>2, <2>1, <3>1, <3>2
    <3> QED  BY <1>3, <3>3
  <2> QED  BY <1>3, <2>2, <2>3
<1>10. Emitted(k, g, from)
  BY <1>9 DEF Emitted
<1>11. k <= Len(printed') /\ Len(printed') \in Nat
  BY <1>5
<1> QED  BY <1>5, <1>7, <1>10, <1>11 DEF b

LEMMA OutputHas ==
  ASSUME TypeOK, NEW g \in 1 .. Len(logs), NEW n \in 0 .. Len(logs[g]), NEW from \in Nat,
         printed' = printed \o Output(g, Mapped(g, n), from),
         NEW o \in Scan(Mapped(g, n), from), o \in Matching(Mapped(g, n))
  PROVE  o \in Printed(g)'
<1>0. ASSUME NEW c \in Seq(Cell), NEW h \in Nat, NEW lo \in Nat, NEW p \in Scan(c, lo) \cap Matching(c)
      PROVE  \E i \in 1 .. Len(Output(h, c, lo)) : Output(h, c, lo)[i].at = p
  BY <1>0, OutputIsWhole
<1> DEFINE b == Mapped(g, n)
           out == Output(g, b, from)
<1>1. Len(logs) \in Nat /\ g \in Nat /\ b \in Seq(Cell) /\ printed \in Seq(Position)
  BY LogFacts, MappedFacts DEF TypeOK
<1>2. out \in Seq(Position) /\ \A i \in 1 .. Len(out) : out[i].gen = g
  BY <1>1, OutputIsSeq, OutputMatches
<1>3. \E i \in 1 .. Len(out) : out[i].at = o
  <2>1. o \in Scan(b, from) \cap Matching(b)
    OBVIOUS
  <2> QED  BY <1>0, <1>1, <2>1
<1>4. PICK i \in 1 .. Len(out) : out[i].at = o
  BY <1>3
<1>5. printed' = printed \o out
  OBVIOUS
<1> HIDE DEF out
<1>6. Len(printed) + i \in 1 .. Len(printed') /\ printed'[Len(printed) + i] = out[i]
  BY <1>1, <1>2, <1>5
<1> QED  BY <1>2, <1>4, <1>6 DEF Printed

(* Nothing printed of file g ends behind from.                             *)
ClearFrom(g, from) ==
  \A i \in 1 .. Len(printed) :
    printed[i].gen = g => EndOf(logs[g], printed[i].at) <= from

(* The tail reads a buffer as grep does.                                   *)
LEMMA AbstractReads ==
  /\ \A b, o : Abstract!EndOf(b, o) = EndOf(b, o)
  /\ \A b : Abstract!Matching(b) = Matching(b)
<1>1. \A b, o : Abstract!BodyEnd(b, o) = BodyEnd(b, o)
  BY DEF Abstract!BodyEnd, BodyEnd
<1>2. \A b, o : Abstract!EndOf(b, o) = EndOf(b, o)
  BY <1>1 DEF Abstract!EndOf, EndOf
<1>3. \A b, o : Abstract!ParseOk(b, o) <=> ParseOk(b, o)
  <2>1. \A b, o : Abstract!IsBegin(b, o) <=> IsBegin(b, o)
    BY DEF Abstract!IsBegin, IsBegin
  <2> QED  BY <1>1, <2>1 DEF Abstract!ParseOk, ParseOk
<1>4. \A b : Abstract!CompleteIn(b) = CompleteIn(b)
  BY <1>3 DEF Abstract!CompleteIn, CompleteIn
<1>5. \A b : Abstract!Matching(b) = Matching(b)
  BY <1>4 DEF Abstract!Matching, Matching
<1> QED  BY <1>2, <1>5

LEMMA EmitStep ==
  ASSUME TypeOK, PrintedAreMatches, UNCHANGED logs,
         NEW g \in 1 .. Len(logs), NEW n \in 0 .. Len(logs[g]), NEW from \in Nat,
         printed' = printed \o Output(g, Mapped(g, n), from), ClearFrom(g, from)
  PROVE  PrintedAreMatches' /\ (UNCHANGED printed \/ Abstract!Emit)
<1> DEFINE k == Len(printed)
<1>1. /\ k \in Nat /\ Len(printed') \in Nat /\ k <= Len(printed')
      /\ \A i \in 1 .. k : printed'[i] = printed[i]
      /\ Emitted(k, g, from)
  BY OutputEmits
<1>2. /\ printed \in Seq(Position) /\ Mapped(g, n) \in Seq(Cell) /\ g \in Nat
      /\ Len(logs) \in Nat /\ \A h \in 1 .. Len(logs) : logs[h] \in Seq(Cell)
  BY LogFacts, MappedFacts DEF TypeOK
<1>3. printed' \in Seq(Position)
  <2>1. Output(g, Mapped(g, n), from) \in Seq(Position)
    BY <1>2, OutputIsSeq
  <2> QED  BY <1>2, <2>1
<1>4. PrintedAreMatches'
  <2> SUFFICES ASSUME NEW i \in 1 .. Len(printed')
               PROVE  /\ printed'[i].gen \in 1 .. Len(logs')
                      /\ printed'[i].at \in Matching(logs'[printed'[i].gen])
    BY DEF PrintedAreMatches
  <2>1. CASE i \in 1 .. k
    BY <1>1, <2>1 DEF PrintedAreMatches
  <2>2. CASE i \in k + 1 .. Len(printed')
    BY <1>1, <2>2 DEF Emitted
  <2> QED  BY <1>1, <2>1, <2>2
<1>5. CASE k = Len(printed')
  <2>1. \A i \in 1 .. k : printed'[i] = printed[i]
    BY <1>1
  <2>2. UNCHANGED printed
    BY <1>2, <1>3, <1>5, <2>1
  <2> QED  BY <1>4, <2>2
<1>6. CASE k < Len(printed')
  <2>1. SubSeq(printed', 1, k) = printed
    <3>1. SubSeq(printed', 1, k) \in Seq(Position) /\ Len(SubSeq(printed', 1, k)) = k
          /\ \A i \in 1 .. k : SubSeq(printed', 1, k)[i] = printed'[i]
      BY <1>1, <1>3
    <3>2. \A i \in 1 .. k : SubSeq(printed', 1, k)[i] = printed[i]
      BY <1>1, <3>1
    <3> QED  BY <1>2, <3>1, <3>2
  <2>2. ASSUME NEW i \in k + 1 .. Len(printed')
        PROVE  /\ printed'[i].gen \in 1 .. Len(logs)
               /\ printed'[i].at \in Matching(logs[printed'[i].gen])
               /\ \A j \in 1 .. i - 1 :
                    printed'[j].gen = printed'[i].gen =>
                      EndOf(logs[printed'[j].gen], printed'[j].at) <= printed'[i].at
    <3>1. /\ printed'[i].gen = g /\ printed'[i].at \in Matching(logs[g]) /\ from <= printed'[i].at
          /\ \A j \in k + 1 .. i - 1 : EndOf(logs[g], printed'[j].at) <= printed'[i].at
      BY <1>1 DEF Emitted
    <3>2. ASSUME NEW j \in 1 .. i - 1, printed'[j].gen = g
          PROVE  EndOf(logs[g], printed'[j].at) <= printed'[i].at
      <4>1. CASE j \in k + 1 .. i - 1
        BY <3>1, <4>1
      <4>2. CASE j \in 1 .. k
        <5>1. printed'[j] = printed[j] /\ printed[j].gen = g
          BY <1>1, <3>2, <4>2
        <5>2. EndOf(logs[g], printed[j].at) <= from /\ printed[j].at \in Matching(logs[g])
          BY <4>2, <5>1 DEF ClearFrom, PrintedAreMatches
        <5>3. EndOf(logs[g], printed[j].at) \in Nat /\ printed'[i].at \in Nat
          BY <1>2, <3>1, <5>2, MessageBounds DEF Matching, CompleteIn
        <5> QED  BY <3>1, <5>1, <5>2, <5>3
      <4> QED  BY <1>1, <4>1, <4>2
    <3> QED  BY <3>1, <3>2
  <2>3. Abstract!Emit
    BY <1>6, <2>1, <2>2, AbstractReads DEF Abstract!Emit
  <2> QED  BY <1>4, <2>3
<1> QED  BY <1>1, <1>4, <1>5, <1>6

LEMMA PrintedKept ==
  ASSUME TypeOK, PrintedAreMatches, Growth, UNCHANGED printed
  PROVE  /\ PrintedAreMatches'
         /\ \A i \in 1 .. Len(printed) :
              EndOf(logs'[printed[i].gen], printed[i].at) = EndOf(logs[printed[i].gen], printed[i].at)
<1>1. Len(logs) \in Nat /\ \A g \in 1 .. Len(logs) : logs[g] \in Seq(Cell)
  BY LogFacts
<1>2. ASSUME NEW i \in 1 .. Len(printed)
      PROVE  /\ printed[i].gen \in 1 .. Len(logs')
             /\ printed[i].at \in Matching(logs'[printed[i].gen])
             /\ EndOf(logs'[printed[i].gen], printed[i].at) = EndOf(logs[printed[i].gen], printed[i].at)
  <2> DEFINE g == printed[i].gen
             o == printed[i].at
  <2>1. g \in 1 .. Len(logs) /\ o \in Matching(logs[g])
    BY DEF PrintedAreMatches
  <2>2. logs'[g] \in Seq(Cell) /\ Extends(logs[g], logs'[g])
    BY <2>1 DEF Growth
  <2>3. Len(logs') \in Nat /\ Len(logs) <= Len(logs')
    BY DEF Growth
  <2> HIDE DEF g, o
  <2>4. o \in Matching(logs'[g]) /\ EndOf(logs'[g], o) = EndOf(logs[g], o)
    BY <1>1, <2>1, <2>2, ExtendsKeeps
  <2>5. g \in 1 .. Len(logs')
    BY <1>1, <2>1, <2>3
  <2> QED  BY <2>4, <2>5 DEF g, o
<1> QED  BY <1>2 DEF PrintedAreMatches

LEMMA PrintedConsumedStep ==
  ASSUME TypeOK, PrintedAreMatches, UNCHANGED logs,
         NEW g \in 1 .. Len(logs), NEW n \in 0 .. Len(logs[g]), NEW from \in Nat,
         process_from(g, n, from), ClearFrom(g, from),
         \A i \in 1 .. Len(printed) : printed[i].gen <= g /\ (printed[i].gen = g => from <= n)
  PROVE  PrintedIsConsumed'
<1> DEFINE b == Mapped(g, n)
           e == last_end(b, from)
           k == Len(printed)
<1>1. mmap'.gen = g /\ mmap'.len = n /\ consumed' = e
  BY DEF process_from
<1>2. /\ b \in Seq(Cell) /\ Len(b) = n /\ logs[g] \in Seq(Cell) /\ n \in Nat /\ g \in Nat
      /\ Len(logs) \in Nat
  <2>1. Len(logs[g]) \in Nat /\ logs[g] \in Seq(Cell) /\ Len(logs) \in Nat
    BY LogFacts
  <2> QED  BY <2>1, MappedFacts
<1>3. /\ e \in Nat /\ from <= e
      /\ Scan(b, from) = {} => e = from
      /\ Scan(b, from) # {} => e <= n
      /\ \A p \in Scan(b, from) : EndOf(b, p) <= e
  BY <1>2, LastEnd
<1>4. /\ k \in Nat /\ Len(printed') \in Nat /\ k <= Len(printed')
      /\ \A i \in 1 .. k : printed'[i] = printed[i]
      /\ \A i \in k + 1 .. Len(printed') : printed'[i].at \in Scan(b, from)
      /\ \A i \in k + 1 .. Len(printed') : printed'[i].gen = g
  BY OutputEmits DEF process_from, Emitted
<1> HIDE DEF e, b
<1>5. ASSUME NEW i \in 1 .. Len(printed')
      PROVE  /\ printed'[i].gen <= g
             /\ printed'[i].gen = g => e <= n /\ EndOf(logs'[g], printed'[i].at) <= e
  <2>1. CASE i \in 1 .. k
    <3>1. printed'[i] = printed[i] /\ printed[i].gen <= g
      BY <1>4, <2>1
    <3>2. ASSUME printed[i].gen = g PROVE e <= n /\ EndOf(logs'[g], printed[i].at) <= e
      <4>1. from <= n /\ EndOf(logs[g], printed[i].at) <= from /\ printed[i].at \in Matching(logs[g])
        BY <2>1, <3>2 DEF ClearFrom, PrintedAreMatches
      <4>2. EndOf(logs[g], printed[i].at) \in Nat
        BY <1>2, <4>1, MessageBounds DEF Matching, CompleteIn
      <4>3. e <= n
        BY <1>2, <1>3, <4>1
      <4> QED  BY <1>3, <4>1, <4>2, <4>3
    <3> QED  BY <3>1, <3>2
  <2>2. CASE i \in k + 1 .. Len(printed')
    <3>1. printed'[i].gen = g /\ printed'[i].at \in Scan(b, from)
      BY <1>4, <2>2
    <3>2. printed'[i].at \in CompleteIn(b)
      BY <1>2, <3>1, ScanFacts
    <3>3. EndOf(b, printed'[i].at) = EndOf(logs[g], printed'[i].at)
      BY <1>2, <3>2, MessagesOfPrefix DEF Mapped, b
    <3> QED  BY <1>2, <1>3, <3>1, <3>3
  <2> QED  BY <1>4, <2>1, <2>2
<1>6. \A i \in 1 .. Len(printed') :
        /\ printed'[i].gen <= mmap'.gen
        /\ printed'[i].gen = mmap'.gen =>
             consumed' <= mmap'.len /\ EndOf(logs'[mmap'.gen], printed'[i].at) <= consumed'
  BY <1>1, <1>5
<1> QED  BY <1>6 DEF PrintedIsConsumed

(* What the three catch-ups that print may rely on.                        *)
LEMMA ReopenReady ==
  ASSUME TailInv, Reopen
  PROVE  /\ ClearFrom(Len(logs), 0)
         /\ \A i \in 1 .. Len(printed) : printed[i].gen # Len(logs)
<1>1. pc = "catch_up" /\ stat < consumed /\ present
  BY DEF Reopen
<1>2. mmap.gen < Len(logs) \/ mmap.len < consumed
  BY <1>1 DEF TailInv, ShrunkIsReplaced
<1>3. /\ Len(logs) \in Nat /\ mmap.gen \in 1 .. Len(logs) /\ mmap.len \in Nat /\ consumed \in Nat
  BY LogFacts DEF TailInv, TypeOK
<1>4. ASSUME NEW i \in 1 .. Len(printed), printed[i].gen = Len(logs) PROVE FALSE
  <2>1. /\ printed[i].gen <= mmap.gen
        /\ printed[i].gen = mmap.gen => consumed <= mmap.len
    BY <1>1 DEF TailInv, PrintedIsConsumed, Following
  <2> QED  BY <1>2, <1>3, <1>4, <2>1
<1> QED  BY <1>4 DEF ClearFrom

LEMMA CatchUpReady ==
  ASSUME TailInv, pc = "catch_up", NEW g \in 1 .. Len(logs), mmap.gen <= g,
         NEW n \in 0 .. Len(logs[g]), g = mmap.gen => mmap.len <= n
  PROVE  /\ ClearFrom(g, consumed)
         /\ \A i \in 1 .. Len(printed) :
              printed[i].gen <= g /\ (printed[i].gen = g => consumed <= n)
<1>1. /\ Len(logs) \in Nat /\ mmap.gen \in Nat /\ mmap.len \in Nat /\ consumed \in Nat /\ g \in Nat
      /\ n \in Nat
  <2>1. Len(logs) \in Nat /\ mmap.gen \in 1 .. Len(logs) /\ Len(logs[g]) \in Nat
    BY LogFacts DEF TailInv
  <2> QED  BY <2>1 DEF TailInv, TypeOK
<1>2. ASSUME NEW i \in 1 .. Len(printed)
      PROVE  /\ printed[i].gen <= g
             /\ printed[i].gen = g =>
                  consumed <= n /\ EndOf(logs[g], printed[i].at) <= consumed
  <2>1. /\ printed[i].gen <= mmap.gen /\ printed[i].gen \in 1 .. Len(logs)
        /\ printed[i].gen = mmap.gen =>
             consumed <= mmap.len /\ EndOf(logs[mmap.gen], printed[i].at) <= consumed
    BY DEF TailInv, PrintedIsConsumed, PrintedAreMatches, Following
  <2> QED  BY <1>1, <2>1
<1> QED  BY <1>2 DEF ClearFrom

TailStep == [Abstract!Next]_<<logs, printed>>

(* Steps that print nothing.                                               *)
LEMMA SilentStep ==
  ASSUME TailInv, [Next]_vars, UNCHANGED <<mmap, consumed, printed>>, Following' => Following
  PROVE  PrintedAreMatches' /\ PrintedIsConsumed'
<1>1. TypeOK /\ PrintedAreMatches /\ Growth
  BY NextGrows DEF TailInv
<1>2. /\ PrintedAreMatches'
      /\ \A i \in 1 .. Len(printed) :
           EndOf(logs'[printed[i].gen], printed[i].at) = EndOf(logs[printed[i].gen], printed[i].at)
  BY <1>1, PrintedKept
<1>3. PrintedIsConsumed'
  BY <1>2 DEF TailInv, PrintedIsConsumed
<1> QED  BY <1>2, <1>3

LEMMA ProducerIsTail ==
  ASSUME TypeOK, Producer
  PROVE  TailStep
<1>1. logs # << >>
  BY DEF TypeOK
<1>2. ASSUME NEW c \in Cells, Write(c) PROVE Abstract!Produce
  BY <1>1, <1>2 DEF Write, Abstract!Produce
<1>3. CASE Create
  BY <1>3 DEF Create, Abstract!Produce, TailStep, Abstract!Next
<1>4. CASE MoveAway
  BY <1>4 DEF MoveAway, TailStep
<1> QED  BY <1>2, <1>3, <1>4 DEF Producer, TailStep, Abstract!Next

LEMMA InitialPassStep ==
  ASSUME TailInv, InitialPass
  PROVE  PrintedAreMatches' /\ PrintedIsConsumed' /\ TailStep
<1>1. /\ Len(logs) \in Nat /\ Len(logs) \in 1 .. Len(logs) /\ live \in Seq(Cell)
      /\ live = logs[Len(logs)] /\ Len(live) \in Nat
  BY LogFacts DEF TailInv, live
<1>2. printed = << >> /\ printed' = Output(Len(logs), live, 0) /\ UNCHANGED logs /\ pc' = "open"
  BY DEF InitialPass, TailInv, NothingPrintedYet
<1>3. Mapped(Len(logs), Len(live)) = live /\ Len(live) \in 0 .. Len(logs[Len(logs)])
  BY <1>1, WholeFile DEF Mapped
<1>4. Output(Len(logs), live, 0) \in Seq(Position)
  BY <1>1, OutputIsSeq
<1>5. printed' = printed \o Output(Len(logs), Mapped(Len(logs), Len(live)), 0)
  BY <1>2, <1>3, <1>4
<1>6. ClearFrom(Len(logs), 0)
  BY <1>2 DEF ClearFrom
<1>7. PrintedAreMatches' /\ (UNCHANGED printed \/ Abstract!Emit)
  BY <1>1, <1>2, <1>3, <1>5, <1>6, EmitStep DEF TailInv
<1>8. PrintedIsConsumed'
  BY <1>2 DEF PrintedIsConsumed, Following
<1> QED  BY <1>2, <1>7, <1>8 DEF TailStep, Abstract!Next

LEMMA OpenStateStep ==
  ASSUME TailInv, OpenState
  PROVE  PrintedAreMatches' /\ PrintedIsConsumed' /\ TailStep
<1>1. /\ mmap' = [gen |-> Len(logs), len |-> Len(live)] /\ consumed' = Len(live)
      /\ UNCHANGED <<logs, printed>>
  BY DEF OpenState
<1>2. Len(logs) \in Nat /\ \A g \in 1 .. Len(logs) : logs[g] \in Seq(Cell)
  BY LogFacts DEF TailInv
<1>3. PrintedAreMatches'
  BY <1>1 DEF TailInv, PrintedAreMatches
<1>4. ASSUME NEW i \in 1 .. Len(printed)
      PROVE  /\ printed[i].gen <= Len(logs)
             /\ printed[i].gen = Len(logs) => EndOf(live, printed[i].at) <= Len(live)
  <2>1. printed[i].gen \in 1 .. Len(logs) /\ printed[i].at \in Matching(logs[printed[i].gen])
    BY DEF TailInv, PrintedAreMatches
  <2>2. ASSUME printed[i].gen = Len(logs) PROVE EndOf(live, printed[i].at) <= Len(live)
    BY <1>2, <2>1, <2>2, MessageBounds DEF live, Matching, CompleteIn
  <2> QED  BY <1>2, <2>1, <2>2
<1>5. mmap'.gen = Len(logs) /\ mmap'.len = Len(live) /\ Len(live) <= Len(live)
  <2>1. Len(live) \in Nat
    BY LogFacts DEF TailInv
  <2> QED  BY <1>1, <2>1
<1>6. PrintedIsConsumed'
  BY <1>1, <1>4, <1>5 DEF PrintedIsConsumed, live
<1> QED  BY <1>1, <1>3, <1>6 DEF TailStep

LEMMA ProcessFromStep ==
  ASSUME TailInv, UNCHANGED logs,
         NEW g \in 1 .. Len(logs), NEW n \in 0 .. Len(logs[g]), NEW from \in Nat,
         process_from(g, n, from), ClearFrom(g, from),
         \A i \in 1 .. Len(printed) : printed[i].gen <= g /\ (printed[i].gen = g => from <= n)
  PROVE  PrintedAreMatches' /\ PrintedIsConsumed' /\ TailStep
<1>1. TypeOK /\ PrintedAreMatches
  BY DEF TailInv
<1>2. PrintedIsConsumed'
  BY <1>1, PrintedConsumedStep
<1>3. PrintedAreMatches' /\ (UNCHANGED printed \/ Abstract!Emit)
  BY <1>1, EmitStep DEF process_from
<1> QED  BY <1>2, <1>3 DEF TailStep, Abstract!Next

LEMMA CatchUpStep ==
  ASSUME TailInv, Reopen \/ Remap \/ KeepMap
  PROVE  PrintedAreMatches' /\ PrintedIsConsumed' /\ TailStep
<1>1. /\ Len(logs) \in Nat /\ Len(logs) \in 1 .. Len(logs)
      /\ Len(live) \in Nat /\ Len(live) \in 0 .. Len(logs[Len(logs)])
      /\ mmap.gen \in 1 .. Len(logs) /\ mmap.len \in 0 .. Len(logs[mmap.gen])
      /\ mmap.len \in Nat /\ consumed \in Nat /\ mmap.len <= Len(logs[mmap.gen])
  BY LogFacts DEF TailInv, TypeOK, live
<1>2. CASE Reopen
  <2>1. process_from(Len(logs), Len(live), 0) /\ UNCHANGED logs
    BY <1>2 DEF Reopen
  <2>2. /\ ClearFrom(Len(logs), 0)
        /\ \A i \in 1 .. Len(printed) : printed[i].gen # Len(logs)
    BY <1>2, ReopenReady
  <2>3. \A i \in 1 .. Len(printed) :
          printed[i].gen <= Len(logs) /\ (printed[i].gen = Len(logs) => 0 <= Len(live))
    BY <1>1 DEF TailInv, PrintedAreMatches
  <2> QED  BY <1>1, <2>1, <2>2, <2>3, ProcessFromStep
<1>3. CASE Remap
  <2>1. process_from(Len(logs), Len(live), consumed) /\ UNCHANGED logs /\ pc = "catch_up"
    BY <1>3 DEF Remap
  <2>2. mmap.gen <= Len(logs) /\ (Len(logs) = mmap.gen => mmap.len <= Len(live))
    BY <1>1 DEF live
  <2>3. /\ ClearFrom(Len(logs), consumed)
        /\ \A i \in 1 .. Len(printed) :
             printed[i].gen <= Len(logs) /\ (printed[i].gen = Len(logs) => consumed <= Len(live))
    BY <1>1, <2>1, <2>2, CatchUpReady
  <2> QED  BY <1>1, <2>1, <2>3, ProcessFromStep
<1>4. CASE KeepMap
  <2>1. process_from(mmap.gen, mmap.len, consumed) /\ UNCHANGED logs /\ pc = "catch_up"
    BY <1>4 DEF KeepMap
  <2>2. mmap.gen <= mmap.gen /\ mmap.len <= mmap.len
    BY <1>1
  <2>3. /\ ClearFrom(mmap.gen, consumed)
        /\ \A i \in 1 .. Len(printed) :
             printed[i].gen <= mmap.gen /\ (printed[i].gen = mmap.gen => consumed <= mmap.len)
    BY <1>1, <2>1, <2>2, CatchUpReady
  <2> QED  BY <1>1, <2>1, <2>3, ProcessFromStep
<1> QED  BY <1>2, <1>3, <1>4

LEMMA ShrunkStep ==
  ASSUME TailInv, [Next]_vars
  PROVE  ShrunkIsReplaced'
<1>1. /\ Len(logs) \in Nat /\ mmap.gen \in 1 .. Len(logs) /\ mmap.len \in Nat
      /\ mmap.len <= Len(logs[mmap.gen]) /\ consumed \in Nat /\ stat \in Nat
      /\ Len(live) \in Nat
  BY LogFacts DEF TailInv, TypeOK
<1>2. CASE Stat
  <2>1. stat' = (IF present THEN Len(live) ELSE 0) /\ UNCHANGED <<logs, present, mmap, consumed>>
    BY <1>2 DEF Stat
  <2>2. ASSUME present, Len(live) < consumed PROVE mmap.gen < Len(logs) \/ mmap.len < consumed
    <3>1. CASE mmap.gen = Len(logs)
      BY <1>1, <2>2, <3>1 DEF live
    <3> QED  BY <1>1, <3>1
  <2> QED  BY <2>1, <2>2 DEF ShrunkIsReplaced
<1>3. CASE UNCHANGED <<pc, present, stat, consumed, mmap>> /\ Len(logs') = Len(logs)
  BY <1>3 DEF TailInv, ShrunkIsReplaced
<1>4. CASE pc' # "catch_up" \/ ~ present'
  BY <1>4 DEF ShrunkIsReplaced
<1>5. CASE Create
  <2>1. Len(logs') = Len(logs) + 1 /\ UNCHANGED mmap
    BY <1>5, CreateGrows DEF Create, TailInv
  <2> QED  BY <1>1, <2>1 DEF ShrunkIsReplaced
<1>6. ASSUME NEW c \in Cells, Write(c)
      PROVE  UNCHANGED <<pc, present, stat, consumed, mmap>> /\ Len(logs') = Len(logs)
  BY <1>6, WriteGrows DEF Write, TailInv
<1>7. \/ Stat
      \/ UNCHANGED <<pc, present, stat, consumed, mmap>> /\ Len(logs') = Len(logs)
      \/ pc' # "catch_up" \/ ~ present'
      \/ Create
      \/ \E c \in Cells : Write(c)
  BY DEF Next, Producer, OtherEvent, Grep, CatchUp, Timeout, MoveAway, InitialPass,
         OpenState, Exit, Receive, Reopen, Remap, KeepMap, vars
<1> QED  BY <1>2, <1>3, <1>4, <1>5, <1>6, <1>7

LEMMA TailInvInit ==
  ASSUME Init
  PROVE  TailInv
<1>1. printed = << >> /\ pc = "start" /\ Len(<< >>) = 0
  BY DEF Init
<1>2. PrintedAreMatches
  BY <1>1 DEF PrintedAreMatches
<1> QED
  BY <1>1, <1>2, TypeInit
  DEF TailInv, NothingPrintedYet, PrintedIsConsumed, ShrunkIsReplaced, Following

LEMMA TailInvStep ==
  ASSUME TailInv, [Next]_vars
  PROVE  TailInv' /\ TailStep
<1>1. TypeOK' /\ ShrunkIsReplaced'
  BY TypeStep, ShrunkStep DEF TailInv
<1>2. NothingPrintedYet'
  BY DEF TailInv, NothingPrintedYet, Next, Producer, OtherEvent, Grep, CatchUp, Timeout, Write,
         Create, MoveAway, InitialPass, OpenState, Exit, Receive, Stat, Reopen, Remap, KeepMap,
         vars
<1>3. PrintedAreMatches' /\ PrintedIsConsumed' /\ TailStep
  <2>1. CASE Producer
    <3>1. UNCHANGED <<mmap, consumed, printed, pc>>
      BY <2>1 DEF Producer, Write, MoveAway, Create
    <3>2. Following' => Following
      BY <3>1 DEF Following
    <3>3. TailStep
      BY <2>1, ProducerIsTail DEF TailInv
    <3> QED  BY <3>1, <3>2, <3>3, SilentStep
  <2>2. CASE OtherEvent \/ Receive \/ Stat \/ Exit \/ Timeout \/ UNCHANGED vars
    <3>1. UNCHANGED <<logs, mmap, consumed, printed>> /\ (Following' => Following)
      BY <2>2 DEF OtherEvent, Receive, Stat, Exit, Timeout, Following, vars
    <3>2. TailStep
      BY <3>1 DEF TailStep
    <3> QED  BY <3>1, <3>2, SilentStep
  <2>3. CASE InitialPass
    BY <2>3, InitialPassStep
  <2>4. CASE OpenState
    BY <2>4, OpenStateStep
  <2>5. CASE Reopen \/ Remap \/ KeepMap
    BY <2>5, CatchUpStep
  <2> QED
    BY <2>1, <2>2, <2>3, <2>4, <2>5 DEF Next, Grep, CatchUp
<1> QED  BY <1>1, <1>2, <1>3 DEF TailInv

(* grep implements a tail: whatever is written to the path, moved away and  *)
(* created again, and whatever events arrive, the output only grows, by     *)
(* complete matches of the files that were at the path, each once and, for  *)
(* each file, in file order.                                               *)
THEOREM GrepIsTail == Spec => ImplementsTail
<1>1. Init => TailInv /\ Abstract!Init
  BY TailInvInit DEF Init, Abstract!Init, TailInv, TypeOK
<1>2. TailInv /\ [Next]_vars => TailInv' /\ [Abstract!Next]_<<logs, printed>>
  BY TailInvStep DEF TailStep
<1> QED
  BY <1>1, <1>2, PTL DEF Spec, ImplementsTail, Abstract!Spec
-----------------------------------------------------------------------------
(* Nothing is lost behind the start of following.  What makes it so:       *)
(* consumed is where following started or the end of a complete message,   *)
(* so that no message straddles it, and the matches before it are printed. *)

Anchored(b, from, start) ==
  start <= from /\ (from = start \/ \E p \in CompleteIn(b) : from = EndOf(b, p))

AllPrinted(b, g, lo, hi) ==
  NoNesting(b) => \A o \in Matching(b) : lo <= o /\ o < hi => o \in Printed(g)

ConsumedIsAnchored ==
  Following =>
    /\ base.gen <= mmap.gen
    /\ mmap.gen = base.gen =>
         LET b == Mapped(mmap.gen, mmap.len)
         IN /\ Anchored(b, consumed, base.at)
            /\ AllPrinted(b, mmap.gen, base.at, consumed)

LossInv == TypeOK /\ ConsumedIsAnchored /\ NothingLostSinceBase

(* A message that starts before an anchor in a file was already complete   *)
(* in the part of it that the anchor was found in.                         *)
LEMMA NoneStraddles ==
  ASSUME NEW f \in Seq(Cell), NEW n \in 0 .. Len(f), NEW from \in Nat, NEW start \in Nat,
         Anchored(SubSeq(f, 1, n), from, start), NoNesting(f)
  PROVE  /\ NoNesting(SubSeq(f, 1, n))
         /\ \A o \in Matching(f) : start <= o /\ o < from => o \in Matching(SubSeq(f, 1, n))
<1> DEFINE b == SubSeq(f, 1, n)
<1>1. \A o : /\ o \in CompleteIn(b) =>
                  /\ o \in CompleteIn(f) /\ EndOf(b, o) = EndOf(f, o) /\ EndOf(f, o) <= n
                  /\ o \in Matching(b) <=> o \in Matching(f)
             /\ o \in CompleteIn(f) /\ EndOf(f, o) <= n => o \in CompleteIn(b)
  BY MessagesOfPrefix
<1>2. \A o \in CompleteIn(f) : o \in Nat /\ EndOf(f, o) \in Nat /\ o + 2 <= EndOf(f, o)
  BY MessageBounds DEF CompleteIn
<1>3. NoNesting(b)
  BY <1>1 DEF NoNesting
<1>4. n \in Nat
  OBVIOUS
<1> HIDE DEF b
<1>5. ASSUME NEW o \in Matching(f), start <= o, o < from PROVE o \in Matching(b)
  <2>1. o \in CompleteIn(f) /\ o \in Nat
    BY <1>2 DEF Matching
  <2>2. PICK p \in CompleteIn(b) : from = EndOf(b, p)
    <3>1. from # start
      BY <1>5, <2>1
    <3> QED  BY <3>1 DEF Anchored, b
  <2>3. p \in CompleteIn(f) /\ from = EndOf(f, p) /\ from <= n /\ p \in Nat
    BY <1>1, <1>2, <2>2
  <2>4. EndOf(f, o) <= n
    <3>1. CASE o < p
      <4>1. EndOf(f, o) <= p /\ p + 2 <= EndOf(f, p)
        BY <1>2, <2>1, <2>3, <3>1 DEF NoNesting
      <4> QED  BY <1>2, <1>4, <2>1, <2>3, <4>1
    <3>2. CASE o = p
      BY <2>3, <3>2
    <3>3. CASE p < o
      <4>1. EndOf(f, p) <= o
        BY <2>1, <2>3, <3>3 DEF NoNesting
      <4> QED  BY <1>5, <2>1, <2>3, <4>1
    <3> QED  BY <2>1, <2>3, <3>1, <3>2, <3>3
  <2> QED  BY <1>1, <2>1, <2>4
<1> QED  BY <1>3, <1>5 DEF b

LEMMA PrintedGrows ==
  ASSUME TypeOK, NEW g \in 1 .. Len(logs), NEW n \in 0 .. Len(logs[g]), NEW from \in Nat,
         process_from(g, n, from)
  PROVE  /\ \A h : Printed(h) \subseteq Printed(h)'
         /\ NoNesting(Mapped(g, n)) =>
              \A o \in Matching(Mapped(g, n)) : from <= o => o \in Printed(g)'
<1> DEFINE b == Mapped(g, n)
           k == Len(printed)
<1>0. printed' = printed \o Output(g, Mapped(g, n), from)
  BY DEF process_from
<1>1. /\ k \in Nat /\ Len(printed') \in Nat /\ k <= Len(printed')
      /\ \A i \in 1 .. k : printed'[i] = printed[i]
  BY <1>0, OutputEmits
<1>2. b \in Seq(Cell)
  BY MappedFacts
<1> HIDE DEF b
<1>3. ASSUME NEW h, NEW o \in Printed(h) PROVE o \in Printed(h)'
  <2>1. PICK i \in 1 .. k : printed[i].gen = h /\ o = printed[i].at
    BY DEF Printed
  <2>2. i \in 1 .. Len(printed') /\ printed'[i].gen = h /\ o = printed'[i].at
    BY <1>1, <2>1
  <2> QED  BY <2>2 DEF Printed
<1>4. ASSUME NoNesting(b), NEW o \in Matching(b), from <= o PROVE o \in Printed(g)'
  <2>1. o \in Scan(b, from)
    BY <1>2, <1>4, ScanFacts DEF Matching
  <2> QED  BY <1>0, <1>4, <2>1, OutputHas DEF b
<1> QED  BY <1>3, <1>4 DEF b

LEMMA ProcessFromLoses ==
  ASSUME TypeOK, UNCHANGED logs, NEW g \in 1 .. Len(logs), NEW n \in 0 .. Len(logs[g]),
         NEW from \in Nat, process_from(g, n, from), base' \in Position, base'.gen <= g,
         g = base'.gen => /\ Anchored(Mapped(g, n), from, base'.at)
                          /\ AllPrinted(Mapped(g, n), g, base'.at, from)
  PROVE  ConsumedIsAnchored' /\ NothingLostSinceBase'
<1> DEFINE b == Mapped(g, n)
           e == last_end(b, from)
<1>1. mmap'.gen = g /\ mmap'.len = n /\ consumed' = e
  BY DEF process_from
<1>2. Mapped(mmap.gen, mmap.len)' = b /\ b \in Seq(Cell)
  BY <1>1, MappedFacts DEF Mapped
<1>3. /\ e \in Nat /\ from <= e
      /\ e = from \/ \E q \in Scan(b, from) : e = EndOf(b, q)
      /\ Scan(b, from) \subseteq CompleteIn(b)
  BY <1>2, LastEnd, ScanFacts
<1>4. base'.at \in Nat
  BY DEF Position
<1> HIDE DEF b, e
<1>5. ASSUME g = base'.gen
      PROVE  Anchored(b, e, base'.at)
             /\ (NoNesting(b) => \A o \in Matching(b) : base'.at <= o => o \in Printed(g)')
  <2>1. Anchored(b, from, base'.at) /\ AllPrinted(b, g, base'.at, from)
    BY <1>5 DEF b
  <2>2. Anchored(b, e, base'.at)
    BY <1>3, <1>4, <2>1 DEF Anchored
  <2>3. ASSUME NoNesting(b), NEW o \in Matching(b), base'.at <= o PROVE o \in Printed(g)'
    <3>1. o \in Nat
      BY DEF Matching, CompleteIn
    <3>2. CASE o < from
      BY <2>1, <2>3, <3>2, PrintedGrows DEF AllPrinted
    <3>3. CASE from <= o
      BY <2>3, <3>3, PrintedGrows DEF b
    <3> QED  BY <3>1, <3>2, <3>3
  <2> QED  BY <2>2, <2>3
<1>6. ConsumedIsAnchored'
  BY <1>1, <1>2, <1>5 DEF ConsumedIsAnchored, AllPrinted, Anchored
<1>7. NothingLostSinceBase'
  BY <1>1, <1>2, <1>5 DEF NothingLostSinceBase
<1> QED  BY <1>6, <1>7

LEMMA LossSilentStep ==
  ASSUME LossInv, [Next]_vars, UNCHANGED <<mmap, consumed, printed, base>>,
         Following' => Following, pc' = "wait" => pc = "wait"
  PROVE  ConsumedIsAnchored' /\ NothingLostSinceBase'
<1>1. TypeOK /\ Growth
  BY NextGrows DEF LossInv
<1>2. Mapped(mmap.gen, mmap.len)' = Mapped(mmap.gen, mmap.len)
  <2>1. mmap.gen \in 1 .. Len(logs) /\ mmap.len \in 0 .. Len(logs[mmap.gen])
    BY <1>1, LogFacts
  <2>2. SubSeq(logs'[mmap.gen], 1, mmap.len) = SubSeq(logs[mmap.gen], 1, mmap.len)
    BY <1>1, <2>1 DEF Growth, Extends
  <2> QED  BY <2>2 DEF Mapped
<1>3. \A g : Printed(g)' = Printed(g)
  BY DEF Printed
<1>4. ConsumedIsAnchored'
  BY <1>2, <1>3 DEF LossInv, ConsumedIsAnchored, AllPrinted
<1>5. NothingLostSinceBase'
  BY <1>2, <1>3 DEF LossInv, NothingLostSinceBase
<1> QED  BY <1>4, <1>5

LEMMA LossOpenStep ==
  ASSUME LossInv, OpenState
  PROVE  ConsumedIsAnchored' /\ NothingLostSinceBase'
<1> DEFINE n == Len(live)
<1>1. /\ mmap' = [gen |-> Len(logs), len |-> n] /\ consumed' = n
      /\ base' = [gen |-> Len(logs), at |-> n] /\ UNCHANGED logs
  BY DEF OpenState
<1>2. /\ Len(logs) \in Nat /\ Len(logs) \in 1 .. Len(logs) /\ n \in Nat
      /\ n \in 0 .. Len(logs[Len(logs)])
  BY LogFacts DEF LossInv, live
<1>3. Mapped(Len(logs), n) \in Seq(Cell) /\ Len(Mapped(Len(logs), n)) = n
  BY <1>2, MappedFacts DEF LossInv
<1> DEFINE b == Mapped(Len(logs), n)
<1>4. \A o \in Matching(b) : o \in Nat /\ o < n
  BY <1>2, <1>3 DEF Matching, CompleteIn
<1>5. Mapped(mmap.gen, mmap.len)' = b
  BY <1>1 DEF Mapped
<1>6. mmap'.gen = Len(logs) /\ base'.gen = Len(logs) /\ base'.at = n
  BY <1>1
<1> HIDE DEF n, b
<1>7. Anchored(b, consumed', base'.at) /\ Len(logs) <= Len(logs)
  BY <1>1, <1>2, <1>6 DEF Anchored
<1>8. \A o \in Matching(b) : ~ (base'.at <= o)
  BY <1>2, <1>4, <1>6
<1>9. ConsumedIsAnchored'
  BY <1>5, <1>6, <1>7, <1>8 DEF ConsumedIsAnchored, AllPrinted
<1>10. NothingLostSinceBase'
  BY <1>5, <1>6, <1>8 DEF NothingLostSinceBase
<1> QED  BY <1>9, <1>10

LEMMA LossCatchUpStep ==
  ASSUME LossInv, Reopen \/ Remap \/ KeepMap
  PROVE  ConsumedIsAnchored' /\ NothingLostSinceBase'
<1>1. /\ Len(logs) \in Nat /\ Len(logs) \in 1 .. Len(logs) /\ live \in Seq(Cell)
      /\ Len(live) \in Nat /\ Len(live) \in 0 .. Len(logs[Len(logs)])
      /\ mmap.gen \in 1 .. Len(logs) /\ mmap.len \in 0 .. Len(logs[mmap.gen])
      /\ consumed \in Nat /\ base \in Position /\ base.gen \in Nat /\ base.at \in Nat
      /\ Mapped(Len(logs), Len(live)) = live
  BY LogFacts, WholeFile DEF LossInv, TypeOK, live, Position, Mapped
<1>2. CASE Reopen
  <2>1. process_from(Len(logs), Len(live), 0) /\ UNCHANGED logs
        /\ base' = [gen |-> Len(logs), at |-> 0]
    BY <1>2 DEF Reopen
  <2>2. base' \in Position /\ base'.gen = Len(logs) /\ base'.at = 0
    BY <1>1, <2>1 DEF Position
  <2>3. Anchored(live, 0, 0) /\ AllPrinted(live, Len(logs), 0, 0)
    <3>1. \A o \in Matching(live) : ~ (o < 0)
      BY <1>1 DEF Matching, CompleteIn
    <3> QED  BY <3>1 DEF Anchored, AllPrinted
  <2> QED  BY <1>1, <2>1, <2>2, <2>3, ProcessFromLoses DEF LossInv
<1>3. /\ base.gen <= mmap.gen
      /\ mmap.gen = base.gen =>
           /\ Anchored(Mapped(mmap.gen, mmap.len), consumed, base.at)
           /\ AllPrinted(Mapped(mmap.gen, mmap.len), mmap.gen, base.at, consumed)
  <2>1. CASE Reopen
    <3>1. Following
      BY <2>1 DEF Reopen, Following
    <3> QED  BY <3>1 DEF LossInv, ConsumedIsAnchored
  <2>2. CASE Remap \/ KeepMap
    <3>1. Following
      BY <2>2 DEF Remap, KeepMap, Following
    <3> QED  BY <3>1 DEF LossInv, ConsumedIsAnchored
  <2> QED  BY <2>1, <2>2
<1>4. CASE KeepMap
  <2>1. process_from(mmap.gen, mmap.len, consumed) /\ UNCHANGED <<logs, base>>
    BY <1>4 DEF KeepMap
  <2> QED  BY <1>1, <1>3, <2>1, ProcessFromLoses DEF LossInv
<1>5. CASE Remap
  <2>1. process_from(Len(logs), Len(live), consumed) /\ UNCHANGED <<logs, base>>
    BY <1>5 DEF Remap
  <2>2. ASSUME Len(logs) = base.gen
        PROVE  Anchored(live, consumed, base.at) /\ AllPrinted(live, Len(logs), base.at, consumed)
    <3>1. mmap.gen = base.gen /\ mmap.gen = Len(logs) /\ live = logs[mmap.gen]
      BY <1>1, <1>3, <2>2 DEF live
    <3>2. Mapped(mmap.gen, mmap.len) = SubSeq(live, 1, mmap.len) /\ mmap.len \in 0 .. Len(live)
      BY <1>1, <3>1 DEF Mapped
    <3>3. /\ Anchored(SubSeq(live, 1, mmap.len), consumed, base.at)
          /\ AllPrinted(SubSeq(live, 1, mmap.len), Len(logs), base.at, consumed)
      BY <1>3, <3>1, <3>2
    <3>4. Anchored(live, consumed, base.at)
      <4>1. \A p \in CompleteIn(SubSeq(live, 1, mmap.len)) :
              p \in CompleteIn(live) /\ EndOf(SubSeq(live, 1, mmap.len), p) = EndOf(live, p)
        BY <1>1, <3>2, MessagesOfPrefix
      <4> QED  BY <3>3, <4>1 DEF Anchored
    <3>5. AllPrinted(live, Len(logs), base.at, consumed)
      <4> SUFFICES ASSUME NoNesting(live), NEW o \in Matching(live), base.at <= o, o < consumed
                   PROVE  o \in Printed(Len(logs))
        BY DEF AllPrinted
      <4>1. NoNesting(SubSeq(live, 1, mmap.len)) /\ o \in Matching(SubSeq(live, 1, mmap.len))
        BY <1>1, <3>2, <3>3, NoneStraddles
      <4> QED  BY <3>3, <4>1 DEF AllPrinted
    <3> QED  BY <3>4, <3>5
  <2>3. base'.gen <= Len(logs) /\ base' \in Position
    <3>1. mmap.gen \in Nat /\ mmap.gen <= Len(logs)
      BY <1>1
    <3> QED  BY <1>1, <1>3, <2>1, <3>1
  <2> QED  BY <1>1, <2>1, <2>2, <2>3, ProcessFromLoses DEF LossInv
<1> QED  BY <1>2, <1>4, <1>5

LEMMA LossInvInit ==
  ASSUME Init
  PROVE  LossInv
BY TypeInit DEF Init, LossInv, ConsumedIsAnchored, NothingLostSinceBase, Following

LEMMA LossInvStep ==
  ASSUME LossInv, [Next]_vars
  PROVE  LossInv'
<1>1. TypeOK'
  BY TypeStep DEF LossInv
<1>2. CASE Producer \/ OtherEvent \/ Receive \/ Stat \/ Exit \/ Timeout \/ UNCHANGED vars
  <2>1. /\ UNCHANGED <<mmap, consumed, printed, base>>
        /\ Following' => Following
        /\ pc' = "wait" => pc = "wait"
    BY <1>2 DEF Producer, Write, MoveAway, Create, OtherEvent, Receive, Stat, Exit, Timeout,
                Following, vars
  <2> QED  BY <1>1, <2>1, LossSilentStep DEF LossInv
<1>3. CASE InitialPass
  <2>1. pc' = "open"
    BY <1>3 DEF InitialPass
  <2> QED  BY <1>1, <2>1 DEF LossInv, ConsumedIsAnchored, NothingLostSinceBase, Following
<1>4. CASE OpenState
  BY <1>1, <1>4, LossOpenStep DEF LossInv
<1>5. CASE Reopen \/ Remap \/ KeepMap
  BY <1>1, <1>5, LossCatchUpStep DEF LossInv
<1> QED
  BY <1>2, <1>3, <1>4, <1>5 DEF Next, Grep, CatchUp

(* The follow loop loses nothing behind the offset it started at: whenever  *)
(* it waits, every match of the file it maps from that offset on has been   *)
(* printed, however its messages were cut by the catch-ups before.          *)
THEOREM NothingLost == Spec => []NothingLostSinceBase
<1>1. Init => LossInv
  BY LossInvInit
<1>2. LossInv /\ [Next]_vars => LossInv'
  BY LossInvStep
<1>3. LossInv => NothingLostSinceBase
  BY DEF LossInv
<1> QED  BY <1>1, <1>2, <1>3, PTL DEF Spec
=============================================================================
